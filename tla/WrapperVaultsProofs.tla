------------------------ MODULE WrapperVaultsProofs -------------------------
(***************************************************************************)
(* For every source, fee, rate and sequence of trades: the vault never has   *)
(* shares without a position or a position without shares, the value check   *)
(* that ends every quote never refuses what the other checks accept, the     *)
(* vault implements ShareVault, and a copy of the source that was accrued at *)
(* an update quotes what the raw account gives.  A Save or Klend reserve and *)
(* the reserves of a Kamino vault stay solvent however long debts compound,  *)
(* and no source but Marginfi, which TLC judges, pays what it does not have. *)
(* Who deposits with Klend, Marginfi or a Kamino vault and withdraws at once *)
(* gets no more than was paid in.                                            *)
(***************************************************************************)
EXTENDS WrapperVaults, SequenceTheorems, WellFoundedInduction, TLAPS

-----------------------------------------------------------------------------
(* Arithmetic                                                                *)

\* A quotient rounded down, times its divisor, is at most the dividend.
LEMMA FloorBelow ==
    ASSUME NEW x \in Nat, NEW y \in Nat \ {0}
    PROVE  x \div y \in Nat /\ y * (x \div y) <= x
  OBVIOUS

\* A quotient rounded up, times its divisor, is at least the dividend, and is
\* the least such number.
LEMMA CeilAbove ==
    ASSUME NEW x \in Nat, NEW y \in Nat \ {0}
    PROVE  /\ ceil_div(x, y) \in Nat
           /\ y * ceil_div(x, y) >= x
           /\ \A z \in Nat : x <= y * z => ceil_div(x, y) <= z
  <1> DEFINE q == (x + y - 1) \div y
  <1>1. q \in Nat /\ y * q <= x + y - 1 /\ x + y - 1 < y * q + y
    BY SMT
  <1>2. ASSUME NEW z \in Nat, x <= y * z, z < q
        PROVE  FALSE
    <2> HIDE DEF q
    <2>1. y * z + y <= y * q
      BY <1>1, <1>2, SMT
    <2> QED
      BY <2>1, <1>1, <1>2, SMT
  <1> QED
    BY <1>1, <1>2 DEF ceil_div

\* A quotient is at least every number whose multiple the dividend reaches.
LEMMA FloorAbove ==
    ASSUME NEW x \in Nat, NEW y \in Nat \ {0}, NEW z \in Nat, y * z <= x
    PROVE  z <= x \div y
  <1> DEFINE q == x \div y
  <1>1. q \in Nat /\ x < y * q + y
    BY SMT
  <1> SUFFICES ASSUME q < z PROVE FALSE
    BY <1>1
  <1> HIDE DEF q
  <1>2. y * q + y <= y * z
    BY <1>1, SMT
  <1> QED
    BY <1>1, <1>2, SMT

\* Dividing a multiple undoes the multiplication.
LEMMA DivExact ==
    ASSUME NEW q \in Nat, NEW d \in Nat \ {0}
    PROVE  (q * d) \div d = q
  OBVIOUS

\* Minting pro rata and rounding down keeps the position per share.
LEMMA MintKeepsValue ==
    ASSUME NEW c \in Nat, NEW S \in Nat, NEW I \in Nat \ {0}
    PROVE  I * ((c * S) \div I) <= c * S
  <1>1. c * S \in Nat
    BY SMT
  <1> QED
    BY <1>1, FloorBelow

\* Redeeming pro rata and rounding down takes at most the burnt shares' part,
\* and all of the position only for all of the shares.
LEMMA BurnKeepsValue ==
    ASSUME NEW a \in Nat, NEW S \in Nat \ {0}, NEW I \in Nat \ {0}, a <= S
    PROVE  LET b == (a * I) \div S
           IN  /\ b \in Nat
               /\ S * b <= a * I
               /\ b <= I
               /\ a < S => b < I
               /\ a = S => b = I
  <1> DEFINE b == (a * I) \div S
  <1>0. a * I \in Nat
    BY SMT
  <1>1. b \in Nat /\ S * b <= a * I
    BY <1>0, FloorBelow
  <1>2. a < S => b < I
    <2> SUFFICES ASSUME a < S, b >= I PROVE FALSE
      BY <1>1
    <2> HIDE DEF b
    <2>1. S * b >= S * I /\ a * I < S * I
      BY <1>1, SMT
    <2> QED
      BY <2>1, <1>0, <1>1, SMT
  <1>3. a = S => b = I
    <2> SUFFICES ASSUME a = S PROVE (S * I) \div S = I
      OBVIOUS
    <2> QED
      BY SMT
  <1> QED
    BY <1>1, <1>2, <1>3

\* Cancelling a common factor.
LEMMA CancelFactor ==
    ASSUME NEW k \in Nat \ {0}, NEW x \in Nat, NEW y \in Nat, k * x <= k * y
    PROVE  x <= y
  BY SMT

\* If p is at most l / i of u, and l at most i / s of x, then p is at most x / s of u.
LEMMA RatioChain ==
    ASSUME NEW i \in Nat \ {0}, NEW s \in Nat, NEW p \in Nat, NEW l \in Nat, NEW u \in Nat,
           NEW x \in Nat, i * p <= l * u, s * l <= i * x
    PROVE  s * p <= x * u
  <1> DEFINE sp == s * p
             xu == x * u
             lu == l * u
             sl == s * l
             ix == i * x
             ip == i * p
  <1>1. sp \in Nat /\ xu \in Nat /\ lu \in Nat /\ sl \in Nat /\ ix \in Nat /\ ip \in Nat
    BY SMT
  <1>2. i * sp = s * ip /\ s * lu = sl * u /\ ix * u = i * xu
    BY SMT
  <1>3. ip <= lu /\ sl <= ix
    OBVIOUS
  <1> HIDE DEF sp, xu, lu, sl, ix, ip
  <1>4. s * ip <= s * lu
    BY <1>1, <1>3, SMT
  <1>5. sl * u <= ix * u
    BY <1>1, <1>3, SMT
  <1>6. i * sp <= i * xu
    <2> DEFINE a == s * ip
               b == s * lu
               c == ix * u
    <2>1. a \in Nat /\ b \in Nat /\ c \in Nat
      BY <1>1, SMT
    <2>2. a <= b /\ b <= c
      BY <1>2, <1>4, <1>5
    <2> HIDE DEF a, b, c
    <2>3. a <= c
      BY <2>1, <2>2
    <2> QED
      BY <1>2, <2>3 DEF a, c
  <1>7. sp <= xu
    BY <1>1, <1>6, CancelFactor
  <1> QED
    BY <1>7 DEF sp, xu

-----------------------------------------------------------------------------
(* What the theorems rest on                                                 *)

\* The vault's accounts.
VaultTyped ==
    /\ wv.wrapper_supply \in Nat /\ wv.intermediate_held \in Nat
    /\ {"wrapper_supply", "intermediate_held"} \subseteq DOMAIN wv

\* A farm in which a share is k units of stake, others hold shares too, and the
\* wrapper's stake is k times what it recorded.
FarmAgrees(farm, held) ==
    /\ farm \in [used : BOOLEAN, idle : Nat, stake : Nat, total_stake : Nat, total_amount : Nat]
    /\ farm.used =>
          \E k \in Nat \ {0} :
              /\ farm.total_amount > held
              /\ farm.total_stake = k * farm.total_amount
              /\ farm.stake = k * held

FarmInv ==
    source = "Kvault" =>
        "farm" \in DOMAIN pool /\ FarmAgrees(pool.farm, wv.intermediate_held)

\* The account of a Lulo pool, of whose LP tokens the vault holds at most all.
LuloHolds ==
    /\ Lulo!Typed(pool)
    /\ wv.free_underlying_held \in Nat
    /\ wv.intermediate_held <= pool.protected_total_supply

LuloInv == source = "Lulo" => LuloHolds

\* Strong enough to be inductive: InSync alone says nothing of the farm, or of
\* the LP tokens that a pool has issued.
VaultInv ==
    /\ source \in Sources /\ fees \in Fees
    /\ VaultTyped /\ FarmInv /\ LuloInv
    /\ wv.wrapper_supply = 0 <=> wv.intermediate_held = 0

\* The shares counted in the farm are those the wrapper recorded; with the idle
\* ones they are the position.
LEMMA PositionCounted ==
    ASSUME NEW r, NEW v, FarmAgrees(r.farm, v.intermediate_held), v.intermediate_held \in Nat
    PROVE  Kvault!position_kvault_shares(r, v)
             = v.intermediate_held + (IF r.farm.used THEN r.farm.idle ELSE 0)
  <1> DEFINE f == r.farm
             I == v.intermediate_held
  <1>1. FarmAgrees(f, I) /\ I \in Nat
    OBVIOUS
  <1>2. CASE ~f.used
    BY <1>2 DEF Kvault!position_kvault_shares
  <1>3. CASE f.used
    <2>1. PICK k \in Nat \ {0} : /\ f.total_amount > I
                                 /\ f.total_stake = k * f.total_amount
                                 /\ f.stake = k * I
      BY <1>1, <1>3 DEF FarmAgrees
    <2>2. f.total_amount \in Nat \ {0}
      BY <1>1, <2>1 DEF FarmAgrees
    <2>3. Kvault!convert_stake_to_amount(f.stake, f.total_stake, f.total_amount) = I
      <3> DEFINE A == f.total_amount
                 W == FARM_WAD
      <3>0. W \in Nat \ {0} /\ A \in Nat \ {0}
        BY <2>2, ScaleAssumption
      <3>1. Kvault!convert_stake_to_amount(k * I, k * A, A) = I
        <4> HIDE DEF A, W, I, f
        <4>1. k * A \in Nat \ {0} /\ k * I \in Nat /\ I * W \in Nat
          BY <3>0, <1>1, SMT
        <4>2. CASE I = 0
          <5>1. k * I = 0
            BY <4>2
          <5> QED
            BY <5>1, <4>2 DEF Kvault!convert_stake_to_amount
        <4>3. CASE I # 0
          <5>1. k * I # 0 /\ k * A # 0
            BY <4>1, <4>3, <1>1, SMT
          <5>2. k * I * W * A = (I * W) * (k * A)
            BY <3>0, <1>1, SMT
          <5>3. (k * I * W * A) \div (k * A) = I * W
            BY <5>2, <4>1, DivExact
          <5>4. (I * W) \div W = I
            BY <3>0, <1>1, DivExact
          <5> QED
            BY <5>1, <5>3, <5>4 DEF Kvault!convert_stake_to_amount, W
        <4> QED
          BY <4>2, <4>3
      <3> QED
        BY <3>1, <2>1
    <2> QED
      BY <1>3, <2>3, <1>1 DEF Kvault!position_kvault_shares, FarmAgrees
  <1> QED
    BY <1>1, <1>2, <1>3 DEF FarmAgrees

\* The same of the vault and its farm.
LEMMA PositionAgrees ==
    ASSUME source = "Kvault", VaultTyped, FarmInv
    PROVE  Kvault!position_kvault_shares(pool, wv) = wv.intermediate_held + Strays
  BY PositionCounted DEF FarmInv, VaultTyped, Strays

LEMMA StraysNat ==
    ASSUME FarmInv
    PROVE  Strays \in Nat
  BY DEF FarmInv, FarmAgrees, Strays

\* What every source's quote of a deposit says of position and shares: both
\* grow, and the new shares are the position's part rounded down.
LEMMA DepositFacts ==
    ASSUME VaultInv, source # "Lulo", NEW net,
           NEW q, q = source_quote_deposit(pool, wv, net), q # Refused
    PROVE  /\ q.mint \in Nat \ {0} /\ q.brought \in Nat \ {0}
           /\ q.before = wv.intermediate_held + Strays
           /\ q.after = wv.intermediate_held + q.brought
           /\ wv.wrapper_supply # 0 =>
                 wv.intermediate_held * q.mint <= q.brought * wv.wrapper_supply
  <1> DEFINE S == wv.wrapper_supply
             I == wv.intermediate_held
  <1>0. S \in Nat /\ I \in Nat /\ (S = 0 <=> I = 0) /\ U64 \in Nat
    BY U64Assumption DEF VaultInv, VaultTyped
  <1>9. Strays \in Nat /\ (source # "Kvault" => Strays = 0)
    BY StraysNat DEF VaultInv, Strays
  <1>1. CASE source = "Save"
    <2> DEFINE c == Save!liquidity_to_collateral(net,
                        Save!exchange_rate(pool, Save!total_supply_wad(pool, now)))
               m == Save!wrapper_to_mint(c, wv, net)
    <2>1. q = Save!quote_deposit(pool, now, wv, net)
      BY <1>1 DEF source_quote_deposit
    <2>2. /\ Save!DepositChecks(pool, Save!total_supply_wad(pool, now), wv, net)
          /\ m \in 1 .. U64 - 1
          /\ q = [mint |-> m, brought |-> c, spends |-> net, before |-> I, after |-> I + c]
      BY <2>1 DEF Save!quote_deposit, Save!deposit_at_total, Save!Refused, Refused
    <2>3. c \in Nat \ {0}
      BY <2>2, <1>0 DEF Save!DepositChecks
    <2>4. S # 0 => I * m <= c * S
      <3> HIDE DEF c
      <3> QED
        BY <2>3, <1>0, MintKeepsValue DEF Save!wrapper_to_mint
    <2> HIDE DEF c, m
    <2> QED
      BY <2>2, <2>3, <2>4, <1>0, <1>1, <1>9
  <1>2. CASE source = "Klend"
    <2> DEFINE x == Klend!exchange_rate(pool, now)
               t == Klend!total_supply_fraction(pool, now)
               c == Klend!liquidity_to_collateral(net, x)
               m == Klend!wrapper_to_mint(c, wv, net)
               d == Klend!liquidity_amount_to_deposit(net, x)
    <2>1. q = Klend!quote_deposit(pool, now, wv, net)
      BY <1>2 DEF source_quote_deposit
    <2>2. /\ Klend!DepositChecks(pool, t, wv, net, c, d)
          /\ m \in 1 .. U64 - 1
          /\ q = [mint |-> m, brought |-> c, spends |-> d, before |-> I, after |-> I + c]
      BY <2>1 DEF Klend!quote_deposit, Klend!deposit_at_rate, Klend!Refused, Refused
    <2>3. c \in Nat \ {0}
      BY <2>2, <1>0 DEF Klend!DepositChecks
    <2>4. S # 0 => I * m <= c * S
      <3> HIDE DEF c
      <3> QED
        BY <2>3, <1>0, MintKeepsValue DEF Klend!wrapper_to_mint
    <2> HIDE DEF c, m, d
    <2> QED
      BY <2>2, <2>3, <2>4, <1>0, <1>2, <1>9
  <1>3. CASE source = "Marginfi"
    <2> DEFINE c == Marginfi!shares_delta(net, Marginfi!accrue_share_values(pool, now).asset)
               m == Marginfi!wrapper_to_mint(c, wv, net)
    <2>1. q = Marginfi!quote_deposit(pool, now, wv, net)
      BY <1>3 DEF source_quote_deposit
    <2>2. /\ m \in 1 .. U64 - 1 /\ c \in Nat \ {0}
          /\ q = [mint |-> m, brought |-> c, spends |-> net, before |-> I, after |-> I + c]
      BY <2>1 DEF Marginfi!quote_deposit, Marginfi!deposit_at_value, Marginfi!Refused, Refused
    <2>3. S # 0 => I * m <= c * S
      <3> SUFFICES ASSUME S # 0 PROVE I * m <= c * S
        OBVIOUS
      <3> DEFINE g == ((c * S) * FIX) \div I
      <3>0. FIX \in Nat \ {0} /\ I \in Nat \ {0}
        BY <1>0, ScaleAssumption
      <3>1. m = g \div FIX
        BY DEF Marginfi!wrapper_to_mint, Marginfi!fix_div
      <3> HIDE DEF c, m
      <3>2. c * S \in Nat /\ (c * S) * FIX \in Nat
        BY <2>2, <1>0, <3>0, SMT
      <3>3. g \in Nat /\ I * g <= (c * S) * FIX
        BY <3>0, <3>2, FloorBelow
      <3> HIDE DEF g, S, I
      <3>4. m \in Nat /\ FIX * m <= g
        BY <3>0, <3>1, <3>3, FloorBelow
      <3>5. I * (FIX * m) <= I * g
        BY <3>0, <3>3, <3>4, SMT
      <3>6. FIX * (I * m) <= FIX * (c * S)
        <4>1. I * (FIX * m) = FIX * (I * m) /\ (c * S) * FIX = FIX * (c * S)
          BY <3>0, <3>2, <3>4, SMT
        <4>2. I * m \in Nat
          BY <3>0, <3>4, SMT
        <4> QED
          BY <4>1, <4>2, <3>0, <3>2, <3>3, <3>4, <3>5, SMT
      <3>7. I * m \in Nat
        BY <3>0, <3>4, SMT
      <3> DEFINE x == I * m
                 y == c * S
      <3>8. x \in Nat /\ y \in Nat /\ FIX * x <= FIX * y
        BY <3>2, <3>6, <3>7
      <3> HIDE DEF x, y
      <3>9. x <= y
        BY <3>8, <3>0, SMT
      <3> QED
        BY <3>9 DEF x, y
    <2> HIDE DEF c, m
    <2> QED
      BY <2>2, <2>3, <1>0, <1>3, <1>9
  <1>4. CASE source = "Kvault"
    <2> DEFINE u == net - Kvault!crank_funds(pool)
               p == Kvault!position_kvault_shares(pool, wv)
               c == Kvault!get_shares_to_mint(Kvault!current_aum(pool, now), u, pool.shares_issued)
               m == Kvault!kvault_to_mint(c, p, wv, net)
    <2>1. q = Kvault!kvault_quote_deposit(pool, now, wv, net)
      BY <1>4 DEF source_quote_deposit
    <2>2. /\ c \in 1 .. U64 - 1 /\ m \in 1 .. U64 - 1
          /\ q = [mint |-> m, brought |-> c, spends |-> u, before |-> p, after |-> I + c]
      BY <2>1 DEF Kvault!kvault_quote_deposit, Kvault!deposit_at_aum, Kvault!Refused, Refused
    <2>3. p = I + Strays
      BY <1>4, PositionAgrees DEF VaultInv
    <2>4. S # 0 => I * m <= c * S
      <3> SUFFICES ASSUME S # 0 PROVE I * m <= c * S
        OBVIOUS
      <3>1. p \in Nat \ {0} /\ p >= I
        BY <2>3, <1>0, <1>9
      <3>2. p * m <= c * S
        <4>1. m = (c * S) \div p
          BY DEF Kvault!kvault_to_mint
        <4>2. c \in Nat /\ S \in Nat /\ p \in Nat \ {0}
          BY <2>2, <3>1, <1>0
        <4> HIDE DEF c, m, p, S
        <4> QED
          BY <4>1, <4>2, MintKeepsValue
      <3> HIDE DEF c, m, p, u, S, I
      <3> QED
        BY <2>2, <3>1, <3>2, <1>0, SMT
    <2> HIDE DEF c, m, p, u
    <2> QED
      BY <2>2, <2>3, <2>4, <1>0
  <1> QED
    BY <1>1, <1>2, <1>3, <1>4, SourcesAssumption DEF VaultInv

\* What every source's quote of a withdrawal says: the part of the position that
\* is redeemed is that of the burnt shares, rounded down.
LEMMA WithdrawFacts ==
    ASSUME VaultInv, source # "Lulo", NEW amount \in Nat,
           NEW q, q = source_quote_withdraw(pool, wv, amount), q # Refused
    PROVE  /\ amount > 0 /\ amount <= wv.wrapper_supply
           /\ q.redeemed =
                 (amount * (wv.intermediate_held + Strays)) \div wv.wrapper_supply
           /\ q.redeemed # 0
           /\ Strays # 0 => q.redeemed <= wv.intermediate_held
           /\ q.before = wv.intermediate_held + Strays
           /\ q.after = wv.intermediate_held - q.redeemed
  <1> DEFINE S == wv.wrapper_supply
             I == wv.intermediate_held
  <1>0. S \in Nat /\ I \in Nat
    BY DEF VaultInv, VaultTyped
  <1>9. Strays \in Nat /\ (source # "Kvault" => Strays = 0 /\ I + Strays = I)
    BY <1>0, StraysNat DEF VaultInv, Strays
  <1>1. CASE source = "Save"
    <2>1. q = Save!quote_withdraw(pool, now, wv, amount)
      BY <1>1 DEF source_quote_withdraw
    <2> QED
      BY <1>1, <1>9, <2>1, <1>0, U64Assumption
      DEF Save!quote_withdraw, Save!withdraw_at_total, Save!ctokens_to_redeem, Save!Refused, Refused
  <1>2. CASE source = "Klend"
    <2>1. q = Klend!quote_withdraw(pool, now, wv, amount)
      BY <1>2 DEF source_quote_withdraw
    <2> QED
      BY <1>2, <1>9, <2>1, <1>0, U64Assumption
      DEF Klend!quote_withdraw, Klend!withdraw_at_rate, Klend!ctokens_to_redeem, Klend!Refused, Refused
  <1>3. CASE source = "Marginfi"
    <2>1. q = Marginfi!quote_withdraw(pool, now, wv, amount)
      BY <1>3 DEF source_quote_withdraw
    <2> QED
      BY <1>3, <1>9, <2>1, <1>0, U64Assumption
      DEF Marginfi!quote_withdraw, Marginfi!withdraw_at_values, Marginfi!shares_pro_rata,
          Marginfi!Refused, Refused
  <1>4. CASE source = "Kvault"
    <2>1. q = Kvault!kvault_quote_withdraw(pool, now, wv, amount)
      BY <1>4 DEF source_quote_withdraw
    <2>2. Kvault!position_kvault_shares(pool, wv) = I + Strays
      BY <1>4, PositionAgrees DEF VaultInv
    <2> QED
      BY <2>1, <2>2, <1>0, <1>9, U64Assumption
      DEF Kvault!kvault_quote_withdraw, Kvault!withdraw_at_aum, Kvault!pay_for_user,
          Kvault!pay_out, Kvault!kvault_shares_to_redeem, Kvault!Refused, Refused
  <1> QED
    BY <1>1, <1>2, <1>3, <1>4, SourcesAssumption DEF VaultInv

\* The value check refuses a part of a position that is recorded as less.
LEMMA StrayCheck ==
    ASSUME NEW S \in Nat, NEW I \in Nat, NEW D \in Nat \ {0}, NEW amount \in Nat,
           amount > 0, amount <= S,
           NEW b, b = (amount * (I + D)) \div S, b <= I
    PROVE  ~no_value_per_share_loss(I + D, S, I - b, S - amount)
  <1>1. /\ b \in Nat
        /\ amount * (I + D) < S * b + S
        /\ amount = S => b = I + D
    <2> DEFINE n == amount * (I + D)
    <2>1. S \in Nat \ {0} /\ n \in Nat /\ b = n \div S
      BY SMT
    <2> HIDE DEF n
    <2>2. b \in Nat /\ n < S * b + S
      BY <2>1, SMT
    <2>3. amount = S => b = I + D
      <3> SUFFICES ASSUME amount = S PROVE b = I + D
        OBVIOUS
      <3>1. n = (I + D) * S /\ I + D \in Nat
        BY <2>1 DEF n
      <3> QED
        BY <2>1, <3>1, DivExact
    <2> QED
      BY <2>2, <2>3 DEF n
  <1>2. amount < S
    BY <1>1
  <1> DEFINE x == (I - b) * S
             y == (I + D) * (S - amount)
  <1>3. x \in Int /\ y \in Int /\ x < y
    <2>1. x = I * S - S * b /\ y = I * S + D * S - amount * (I + D)
      BY <1>1, SMT
    <2>2. D * S >= S
      BY SMT
    <2>3. I * S \in Int /\ S * b \in Int /\ D * S \in Int /\ amount * (I + D) \in Int
      BY <1>1, SMT
    <2> HIDE DEF x, y
    <2> QED
      BY <1>1, <2>1, <2>2, <2>3
  <1>4. S # 0 /\ S - amount # 0
    BY <1>2
  <1>5. ~(S = 0 \/ S - amount = 0 \/ x >= y)
    <2> HIDE DEF x, y
    <2> QED
      BY <1>3, <1>4
  <1> QED
    BY <1>5 DEF no_value_per_share_loss

\* While shares lie idle, the check refuses every withdrawal.
LEMMA StraysRefused ==
    ASSUME VaultInv, source # "Lulo", NEW amount \in Nat, Strays # 0,
           NEW q, q = source_quote_withdraw(pool, wv, amount), q # Refused
    PROVE  ~WithdrawKeepsValue(wv, amount, q)
  <1> DEFINE S == wv.wrapper_supply
             I == wv.intermediate_held
  <1>1. S \in Nat /\ I \in Nat /\ Strays \in Nat \ {0}
    BY StraysNat DEF VaultInv, VaultTyped
  <1>2. /\ amount > 0 /\ amount <= S
        /\ q.redeemed = (amount * (I + Strays)) \div S /\ q.redeemed <= I
        /\ q.before = I + Strays /\ q.after = I - q.redeemed
    BY WithdrawFacts
  <1> HIDE DEF I
  <1>3. ~no_value_per_share_loss(I + Strays, S, I - q.redeemed, S - amount)
    BY <1>1, <1>2, StrayCheck
  <1> QED
    BY <1>2, <1>3 DEF WithdrawKeepsValue

-----------------------------------------------------------------------------
(* Lulo                                                                      *)

\* Fees are rounded down and leave something or nothing.
LEMMA NetAmount ==
    ASSUME NEW amount \in Nat, fees \in Fees
    PROVE  net_amount(amount) \in Nat /\ net_amount(amount) <= amount
  <1>1. FULL_BPS \in Nat \ {0} /\ fees.protocol \in Nat /\ fees.creator \in Nat
    BY BpsAssumption, FeesAssumption
  <1>2. ASSUME NEW f \in Nat
        PROVE  mul_bps(amount, f) \in Nat
    <2>1. amount * f \in Nat
      BY SMT
    <2> QED
      BY <1>1, <2>1, FloorBelow DEF mul_bps
  <1>3. mul_bps(amount, fees.protocol) \in Nat /\ mul_bps(amount, fees.creator) \in Nat
    BY <1>1, <1>2
  <1> QED
    BY <1>3 DEF net_amount, saturating_sub

\* The referral fee is an amount, and nothing for no LP tokens.
LEMMA LuloFee ==
    ASSUME NEW r, Lulo!Typed(r), NEW lp \in Nat, NEW old \in Nat
    PROVE  /\ Lulo!position_fee_usdc(r, lp, old) \in Nat
           /\ lp = 0 /\ old = 0 => Lulo!position_fee_usdc(r, lp, old) = 0
  <1> DEFINE T == r.protected_total_supply
             A == r.protected_amount
  <1>0. /\ T \in Nat /\ A \in Nat /\ r.ref_bps \in Nat /\ Q60 \in Nat \ {0} /\ FULL_BPS \in Nat \ {0}
        /\ r.charged_q60 \in Nat /\ r.avg_q60 \in Nat
    BY ScaleAssumption, BpsAssumption DEF Lulo!Typed
  <1>1. ASSUME NEW n \in Nat, NEW basis \in Nat
        PROVE  /\ Lulo!cpos(r, n, basis) \in Nat
               /\ n = 0 => Lulo!cpos(r, n, basis) = 0
    <2> DEFINE gain == Lulo!saturating_sub(A * Q60, basis * T)
    <2>1. gain \in Nat
      <3>1. A * Q60 \in Nat /\ basis * T \in Nat
        BY <1>0, SMT
      <3> QED
        BY <3>1 DEF Lulo!saturating_sub
    <2> HIDE DEF gain
    <2>2. CASE T = 0 \/ A = 0 \/ n = 0
      BY <2>2 DEF Lulo!cpos
    <2>3. CASE ~(T = 0 \/ A = 0 \/ n = 0)
      <3>1. Lulo!cpos(r, n, basis) = (gain * n) \div (T * Q60)
        BY <2>3 DEF Lulo!cpos, gain
      <3>2. gain * n \in Nat /\ T * Q60 \in Nat \ {0}
        BY <1>0, <2>1, <2>3, SMT
      <3> QED
        BY <2>3, <3>1, <3>2, FloorBelow
    <2> QED
      BY <2>2, <2>3
  <1> DEFINE p == Lulo!smaller(Lulo!cpos(r, lp, r.charged_q60), Lulo!cpos(r, old, r.avg_q60))
             b == r.ref_bps
  <1>2. p \in Nat /\ (lp = 0 /\ old = 0 => p = 0)
    BY <1>0, <1>1 DEF Lulo!smaller
  <1>3. Lulo!position_fee_usdc(r, lp, old) = Lulo!fee_from_profit(p, b)
    BY DEF Lulo!position_fee_usdc
  <1>4. b \in Nat
    BY <1>0
  <1> HIDE DEF p, b
  <1>5. p * b \in Nat /\ (p = 0 => p * b = 0)
    BY <1>2, <1>4, SMT
  <1> DEFINE pb == p * b
  <1>6. Lulo!fee_from_profit(p, b) = IF pb = 0 THEN 0 ELSE (pb - 1) \div FULL_BPS
    BY DEF Lulo!fee_from_profit
  <1>7. pb \in Nat /\ (p = 0 => pb = 0)
    BY <1>5
  <1> HIDE DEF pb
  <1>8. pb # 0 => (pb - 1) \div FULL_BPS \in Nat
    BY <1>0, <1>7, FloorBelow
  <1> QED
    BY <1>2, <1>3, <1>6, <1>7, <1>8

\* LP tokens are worth at most their part of the pool.
LEMMA LuloValue ==
    ASSUME NEW r, Lulo!Typed(r), NEW lp \in Nat
    PROVE  /\ Lulo!lulo_lp_value(r, lp) \in Nat
           /\ lp = 0 => Lulo!lulo_lp_value(r, lp) = 0
           /\ r.protected_total_supply * Lulo!lulo_lp_value(r, lp) <= lp * r.protected_amount
  <1> DEFINE T == r.protected_total_supply
             A == r.protected_amount
             g == (lp * A) \div T
             fee == Lulo!position_fee_usdc(r, lp, lp)
             L == Lulo!lulo_lp_value(r, lp)
  <1>0. T \in Nat /\ A \in Nat
    BY DEF Lulo!Typed
  <1>1. fee \in Nat
    BY LuloFee
  <1>2. lp * A \in Nat
    BY <1>0, SMT
  <1>3. CASE T = 0 \/ A = 0 \/ lp = 0
    <2>1. L = 0
      BY <1>3 DEF Lulo!lulo_lp_value
    <2>2. T * 0 <= lp * A
      BY <1>0, <1>2, SMT
    <2> QED
      BY <2>1, <2>2
  <1>4. CASE ~(T = 0 \/ A = 0 \/ lp = 0)
    <2>1. L = Lulo!saturating_sub(g, fee)
      BY <1>4 DEF Lulo!lulo_lp_value, Lulo!gross
    <2>2. g \in Nat /\ T * g <= lp * A
      BY <1>0, <1>2, <1>4, FloorBelow
    <2> HIDE DEF g, fee
    <2>3. L \in Nat /\ L <= g
      BY <1>1, <2>1, <2>2 DEF Lulo!saturating_sub
    <2> DEFINE z == lp * A
    <2>4. T * g <= z /\ z \in Nat
      BY <1>2, <2>2
    <2> HIDE DEF L, z, T
    <2>5. T * L <= T * g
      BY <1>0, <2>2, <2>3, SMT
    <2>6. T * L <= z
      BY <1>0, <2>2, <2>3, <2>4, <2>5, SMT
    <2> QED
      BY <1>4, <2>3, <2>6 DEF L, z, T
  <1> QED
    BY <1>3, <1>4

\* A Lulo deposit: shares are minted only if LP tokens are held afterwards, and
\* for at most the value that was added.
LEMMA LuloDepositFacts ==
    ASSUME VaultTyped, LuloHolds, NEW net \in Nat,
           NEW q, q = Lulo!quote_deposit(pool, now, wv, net), q # Refused
    PROVE  /\ q.mint \in Nat \ {0} /\ q.brought \in Nat /\ q.spends = net
           /\ wv.wrapper_supply + q.mint < U64
           /\ wv.intermediate_held + q.brought # 0
           /\ pool.protected_total_supply # 0 /\ pool.protected_amount # 0
           /\ Lulo!new_lp(pool, wv, net) \in Nat /\ q.brought <= Lulo!new_lp(pool, wv, net)
           /\ q.before \in Nat /\ q.after \in Nat
           /\ wv.wrapper_supply # 0 =>
                 q.after * wv.wrapper_supply >= q.before * (wv.wrapper_supply + q.mint)
  <1> DEFINE S == wv.wrapper_supply
             I == wv.intermediate_held
             F == wv.free_underlying_held
             T == pool.protected_total_supply
             A == pool.protected_amount
             bought == Lulo!new_lp(pool, wv, net)
             lp == Lulo!lp_net_pred(pool, wv, net)
             old == Lulo!total_value(pool, wv)
             in == old + net
             new == Lulo!new_value_pred(pool, I + lp, in)
             mint == Lulo!wrapper_to_mint(wv, old, new)
  <1>0. /\ S \in Nat /\ I \in Nat /\ F \in Nat /\ T \in Nat /\ A \in Nat /\ I <= T
        /\ U64 \in Nat /\ Lulo!Typed(pool)
    BY U64Assumption DEF VaultTyped, LuloHolds, Lulo!Typed
  <1>1. /\ A # 0
        /\ (S = 0) = (old = 0)
        /\ mint \in 1 .. U64 - 1 /\ ~(S + mint >= U64)
        /\ q = [mint |-> mint, brought |-> lp, spends |-> net, before |-> old, after |-> new]
    BY DEF Lulo!quote_deposit, Lulo!deposit_at_value, Lulo!Refused, Refused
  <1>2. bought \in Nat /\ (T = 0 => bought = 0)
    <2>1. bought = ((F + net) * T) \div A
      BY DEF Lulo!new_lp
    <2>2. (F + net) * T \in Nat /\ (T = 0 => (F + net) * T = 0)
      BY <1>0, SMT
    <2>3. 0 \div A = 0
      BY <1>0, <1>1, SMT
    <2> QED
      BY <1>0, <1>1, <2>1, <2>2, <2>3, FloorBelow
  <1>3. lp \in Nat /\ lp <= bought
    <2> DEFINE fee == Lulo!position_fee_usdc(pool, I + bought, I)
               fee_lp == Lulo!ceil_div(fee * T, A)
    <2>1. lp = Lulo!saturating_sub(bought, fee_lp)
      BY DEF Lulo!lp_net_pred
    <2> HIDE DEF bought
    <2>2. fee \in Nat
      <3>1. I + bought \in Nat /\ I \in Nat /\ Lulo!Typed(pool)
        BY <1>0, <1>2
      <3> HIDE DEF I
      <3> QED
        BY <3>1, LuloFee, Zenon
    <2> HIDE DEF fee
    <2>3. fee * T \in Nat
      BY <1>0, <2>2, SMT
    <2>4. fee_lp \in Nat
      BY <1>0, <1>1, <2>3, CeilAbove DEF ceil_div, Lulo!ceil_div
    <2> HIDE DEF fee_lp
    <2> QED
      BY <1>2, <2>1, <2>4 DEF Lulo!saturating_sub
  <1>4. old \in Nat
    BY <1>0, LuloValue DEF Lulo!total_value
  <1> HIDE DEF bought, lp, old
  <1>5. new \in Nat /\ (I + lp = 0 => new = 0)
    <2> DEFINE post == I + lp
               w == Lulo!lulo_lp_value(pool, post)
               fee == Lulo!position_fee_usdc(pool, post, post)
    <2>1. post \in Nat
      BY <1>0, <1>3
    <2> HIDE DEF post
    <2>2. w \in Nat /\ fee \in Nat /\ (post = 0 => w + fee = 0)
      <3>1. Lulo!Typed(pool)
        BY <1>0
      <3>2. w \in Nat /\ (post = 0 => w = 0)
        BY <2>1, <3>1, LuloValue, Zenon
      <3>3. fee \in Nat /\ (post = 0 => fee = 0)
        BY <2>1, <3>1, LuloFee, Zenon
      <3> HIDE DEF w, fee
      <3> QED
        BY <3>2, <3>3
    <2>3. Lulo!new_value_pred(pool, post, in) = Lulo!smaller(w + fee, in)
      BY DEF Lulo!new_value_pred
    <2> HIDE DEF w, fee
    <2>4. /\ Lulo!new_value_pred(pool, post, in) \in Nat
          /\ post = 0 => Lulo!new_value_pred(pool, post, in) = 0
      BY <1>4, <2>2, <2>3 DEF Lulo!smaller
    <2> QED
      BY <2>4 DEF post
  <1> HIDE DEF new
  <1>6. /\ new # 0
        /\ S # 0 => old \in Nat \ {0} /\ old <= new /\ old * mint <= (new - old) * S
    <2>1. CASE S = 0
      BY <1>1, <2>1 DEF Lulo!wrapper_to_mint
    <2>2. CASE S # 0
      <3>1. old \in Nat \ {0}
        BY <1>0, <1>1, <1>4, <2>2
      <3> DEFINE d == Lulo!saturating_sub(new, old)
      <3>2. mint = (d * S) \div old
        BY <2>2 DEF Lulo!wrapper_to_mint
      <3>3. d \in Nat /\ (d # 0 => old <= new /\ d = new - old)
        BY <1>4, <1>5 DEF Lulo!saturating_sub
      <3> HIDE DEF d
      <3>4. d * S \in Nat /\ (d = 0 => d * S = 0)
        BY <1>0, <3>3, SMT
      <3>5. d # 0
        <4>1. 0 \div old = 0
          BY <3>1, SMT
        <4> QED
          BY <1>1, <3>2, <3>4, <4>1
      <3>6. old * ((d * S) \div old) <= d * S
        BY <3>1, <3>4, FloorBelow
      <3> QED
        BY <1>4, <1>5, <3>1, <3>2, <3>3, <3>5, <3>6
    <2> QED
      BY <2>1, <2>2
  <1> HIDE DEF mint
  <1>7. I + lp # 0
    BY <1>5, <1>6
  <1>8. T # 0
    BY <1>0, <1>2, <1>3, <1>7
  <1>9. S # 0 => new * S >= old * (S + mint)
    <2> SUFFICES ASSUME S # 0 PROVE new * S >= old * (S + mint)
      OBVIOUS
    <2>0. mint \in Nat /\ new \in Nat /\ old \in Nat /\ old * mint <= (new - old) * S
      BY <1>0, <1>1, <1>4, <1>5, <1>6
    <2> HIDE DEF S
    <2> QED
      BY <1>0, <2>0, SMT
  <1>10. /\ q.mint = mint /\ q.brought = lp /\ q.spends = net /\ q.before = old /\ q.after = new
         /\ mint \in Nat \ {0} /\ S + mint < U64
    BY <1>0, <1>1
  <1> QED
    BY <1>1, <1>2, <1>3, <1>4, <1>5, <1>7, <1>8, <1>9, <1>10 DEF bought

\* A Lulo withdrawal: it never burns the last share or redeems the last LP token,
\* what it pays is covered by the free tokens' part and what the pool pays for the
\* LP tokens, and it is at most the burnt shares' part of the value.
LEMMA LuloWithdrawFacts ==
    ASSUME VaultTyped, LuloHolds, wv.wrapper_supply = 0 <=> wv.intermediate_held = 0,
           NEW amount \in Nat,
           NEW q, q = Lulo!quote_withdraw(pool, now, wv, amount), q # Refused
    PROVE  /\ amount > 0 /\ amount < wv.wrapper_supply
           /\ q.redeemed \in Nat /\ q.redeemed < wv.intermediate_held
           /\ Lulo!gross(pool, q.redeemed) \in Nat
           /\ Lulo!gross(pool, q.redeemed) <= pool.protected_amount
           /\ q.pays \in Nat \ {0}
           /\ (amount * wv.free_underlying_held) \div wv.wrapper_supply
                \in 0 .. wv.free_underlying_held
           /\ q.pays <= (amount * wv.free_underlying_held) \div wv.wrapper_supply
                        + Lulo!gross(pool, q.redeemed)
           /\ q.after * wv.wrapper_supply >= q.before * (wv.wrapper_supply - amount)
  <1> DEFINE S == wv.wrapper_supply
             I == wv.intermediate_held
             F == wv.free_underlying_held
             T == pool.protected_total_supply
             A == pool.protected_amount
             u == (amount * I) \div S
             L == Lulo!lulo_lp_value(pool, I)
             P == (L * u) \div I
             free == (amount * F) \div S
             g == (u * A) \div T
             ceil_price == IF T = 0 THEN 0 ELSE Lulo!ceil_div(A, T)
             owed == Lulo!n_owed(pool, wv, amount)
             value == F + L
  <1>0. /\ S \in Nat /\ I \in Nat /\ F \in Nat /\ T \in Nat /\ A \in Nat /\ I <= T
        /\ Lulo!Typed(pool)
    BY DEF VaultTyped, LuloHolds, Lulo!Typed
  <1>1. /\ amount # 0 /\ ~(amount >= S) /\ owed # 0
        /\ q = [pays |-> owed, redeemed |-> u, before |-> value, after |-> value - owed]
    BY DEF Lulo!quote_withdraw, Lulo!withdraw_owing, Lulo!total_value, Lulo!user_lp, Lulo!Refused,
           Refused
  <1>2. amount \in Nat \ {0} /\ amount < S /\ S \in Nat \ {0} /\ I \in Nat \ {0} /\ T \in Nat \ {0}
    BY <1>0, <1>1
  <1>3. L \in Nat /\ T * L <= I * A
    <2>1. I \in Nat /\ Lulo!Typed(pool)
      BY <1>0
    <2> HIDE DEF I
    <2> QED
      BY <2>1, LuloValue, Zenon
  <1>4. owed = Lulo!saturating_sub(free + P, ceil_price + 1)
    BY <1>2 DEF Lulo!n_owed, Lulo!user_lp
  <1>5. Lulo!gross(pool, u) = g
    BY DEF Lulo!gross
  <1>6. ceil_price \in Nat
    BY <1>0, <1>2, CeilAbove DEF Lulo!ceil_div, ceil_div
  <1> HIDE DEF S, I, F, T, A, L, owed, ceil_price
  <1>7. u \in Nat /\ S * u <= I * amount /\ u < I
    <2>1. u \in Nat /\ S * u <= amount * I /\ u < I
      BY <1>2, BurnKeepsValue
    <2>2. amount * I = I * amount
      BY <1>2, SMT
    <2> QED
      BY <2>1, <2>2
  <1> HIDE DEF u
  <1>8. P \in Nat /\ I * P <= L * u
    <2>1. L * u \in Nat
      BY <1>3, <1>7, SMT
    <2> QED
      BY <1>2, <2>1, FloorBelow
  <1> HIDE DEF P
  <1>9. T * P <= A * u /\ S * P <= amount * L
    <2>1. T * P <= A * u
      BY <1>0, <1>2, <1>3, <1>7, <1>8, RatioChain
    <2>2. L * u = u * L
      BY <1>3, <1>7, SMT
    <2>3. S * P <= amount * L
      BY <1>0, <1>2, <1>3, <1>7, <1>8, <2>2, RatioChain
    <2> QED
      BY <2>1, <2>3
  <1>10. g \in Nat /\ P <= g /\ g <= A
    <2>1. u * A \in Nat /\ A * u = u * A
      BY <1>0, <1>7, SMT
    <2>2. g \in Nat /\ T * g <= u * A
      BY <1>2, <2>1, FloorBelow
    <2>3. P <= g
      BY <1>2, <1>8, <1>9, <2>1, FloorAbove
    <2> HIDE DEF g
    <2>4. T * g <= T * A
      <3> DEFINE a == T * g
                 b == u * A
                 c == T * A
      <3>1. a \in Nat /\ c \in Nat /\ b <= c
        BY <1>0, <1>2, <1>7, <2>2, SMT
      <3>2. a <= b /\ b \in Nat
        BY <2>1, <2>2
      <3> HIDE DEF a, b, c
      <3>3. a <= c
        BY <3>1, <3>2
      <3> QED
        BY <3>3 DEF a, c
    <2>5. g <= A
      BY <1>0, <1>2, <2>2, <2>4, CancelFactor
    <2> QED
      BY <2>2, <2>3, <2>5
  <1> HIDE DEF g
  <1>11. free \in 0 .. F /\ S * free <= amount * F
    <2>1. amount * F \in Nat
      BY <1>0, SMT
    <2>2. free \in Nat /\ S * free <= amount * F
      BY <1>2, <2>1, FloorBelow
    <2> HIDE DEF free
    <2>3. S * free <= S * F
      <3>1. amount * F <= S * F /\ S * F \in Nat /\ S * free \in Nat
        BY <1>0, <1>2, <2>2, SMT
      <3> DEFINE a == S * free
                 b == amount * F
                 c == S * F
      <3>2. a \in Nat /\ b \in Nat /\ c \in Nat /\ a <= b /\ b <= c
        BY <2>1, <2>2, <3>1
      <3> HIDE DEF a, b, c
      <3>3. a <= c
        BY <3>2
      <3> QED
        BY <3>3 DEF a, c
    <2>4. free <= F
      BY <1>0, <1>2, <2>2, <2>3, CancelFactor
    <2> QED
      BY <1>0, <2>2, <2>4
  <1> DEFINE fr == free
  <1>12. fr \in 0 .. F /\ S * fr <= amount * F /\ owed = Lulo!saturating_sub(fr + P, ceil_price + 1)
    BY <1>4, <1>11
  <1> HIDE DEF fr
  <1>13. owed \in Nat \ {0} /\ owed <= fr + P
    BY <1>0, <1>1, <1>6, <1>8, <1>12 DEF Lulo!saturating_sub
  <1>14. (value - owed) * S >= value * (S - amount)
    <2>1. S * owed <= S * (fr + P)
      BY <1>0, <1>2, <1>8, <1>12, <1>13, SMT
    <2>2. S * (fr + P) = S * fr + S * P /\ amount * value = amount * F + amount * L
      BY <1>0, <1>2, <1>3, <1>8, <1>12, SMT
    <2>3. S * owed <= amount * value
      <3> DEFINE a == S * owed
                 b == S * fr
                 c == S * P
                 d == amount * F
                 e == amount * L
      <3>1. a \in Int /\ b \in Int /\ c \in Int /\ d \in Int /\ e \in Int
        BY <1>0, <1>2, <1>3, <1>8, <1>12, <1>13, SMT
      <3>2. a <= b + c /\ b <= d /\ c <= e
        BY <1>9, <1>12, <2>1, <2>2
      <3> HIDE DEF a, b, c, d, e
      <3>3. a <= d + e
        BY <3>1, <3>2
      <3> QED
        BY <2>2, <3>3 DEF a, d, e
    <2>4. value \in Nat
      BY <1>0, <1>3
    <2> HIDE DEF value
    <2> QED
      BY <1>0, <1>2, <1>13, <2>3, <2>4, SMT
  <1>15. owed <= fr + g
    BY <1>0, <1>8, <1>10, <1>12, <1>13
  <1>16. /\ amount > 0 /\ amount < S
         /\ u \in Nat /\ u < I /\ g \in Nat /\ g <= A
         /\ owed \in Nat \ {0} /\ free \in 0 .. F /\ owed <= free + g
    BY <1>2, <1>7, <1>10, <1>11, <1>13, <1>15 DEF fr
  <1>17. q.redeemed = u /\ q.pays = owed /\ q.before = value /\ q.after = value - owed
    BY <1>1
  <1> QED
    BY <1>5, <1>14, <1>16, <1>17 DEF S, I, F, A

\* A deposit leaves a Lulo pool and its vault as LuloHolds says.
LEMMA LuloDepositStep ==
    ASSUME VaultInv, source = "Lulo", NEW amount \in Amounts, Deposit(amount)
    PROVE  VaultInv'
  <1> DEFINE S == wv.wrapper_supply
             I == wv.intermediate_held
             F == wv.free_underlying_held
             T == pool.protected_total_supply
             A == pool.protected_amount
             net == net_amount(amount)
             q == source_quote_deposit(pool, wv, net)
             n == Lulo!new_lp(pool, wv, net)
             price == (A * Q60) \div T
  <1>0. /\ S \in Nat /\ I \in Nat /\ F \in Nat /\ T \in Nat /\ A \in Nat /\ I <= T
        /\ VaultTyped /\ LuloHolds /\ Lulo!Typed(pool) /\ Q60 \in Nat /\ pool.avg_q60 \in Nat
        /\ source \in Sources /\ fees \in Fees
    BY ScaleAssumption DEF VaultInv, VaultTyped, LuloInv, LuloHolds, Lulo!Typed
  <1>1. /\ q # Refused
        /\ pool' = Lulo!Deposited(pool, now, wv, q)
        /\ wv' = Lulo!VaultDeposited(wv, q)
        /\ source' = source /\ fees' = fees
    BY DEF Deposit, quote_deposit, CheckedDeposit, VaultDeposited, Deposited
  <1>2. net \in Nat
    BY <1>0, AmountsAssumption, NetAmount
  <1>3. q = Lulo!quote_deposit(pool, now, wv, net)
    BY DEF source_quote_deposit
  <1>4. /\ q.mint \in Nat \ {0} /\ q.brought \in Nat /\ q.spends = net
        /\ I + q.brought # 0 /\ T # 0
        /\ n \in Nat /\ q.brought <= n
    <2> HIDE DEF q, net
    <2> QED
      BY <1>0, <1>1, <1>2, <1>3, LuloDepositFacts
  <1> HIDE DEF q, net, n
  <1>5. price \in Nat
    <2>1. A * Q60 \in Nat
      BY <1>0, SMT
    <2> QED
      BY <1>0, <1>4, <2>1, FloorBelow
  <1> DEFINE avg == (I * pool.avg_q60 + n * price) \div (I + n)
  <1>6. avg \in Nat
    <2> HIDE DEF price
    <2>1. I * pool.avg_q60 + n * price \in Nat /\ I + n \in Nat \ {0}
      <3>1. I * pool.avg_q60 \in Nat /\ n * price \in Nat
        BY <1>0, <1>4, <1>5, SMT
      <3> QED
        BY <1>0, <1>4, <3>1
    <2> QED
      BY <2>1, FloorBelow
  <1>7. pool' = [pool EXCEPT !.protected_amount = A + F + net, !.protected_total_supply = T + n,
                             !.charged_q60 = price, !.avg_q60 = avg]
    BY <1>1, <1>4 DEF Lulo!Deposited, n
  <1>8. wv' = [wrapper_supply |-> S + q.mint, intermediate_held |-> I + q.brought,
               free_underlying_held |-> 0]
    BY <1>1 DEF Lulo!VaultDeposited
  <1> HIDE DEF price, avg
  <1>9. Lulo!Typed(pool')
    BY <1>0, <1>2, <1>4, <1>5, <1>6, <1>7 DEF Lulo!Typed, Lulo!Fields
  <1>10. pool'.protected_total_supply = T + n
    BY <1>0, <1>7 DEF Lulo!Typed, Lulo!Fields
  <1>11. /\ S + q.mint \in Nat \ {0} /\ I + q.brought \in Nat \ {0} /\ I + q.brought <= T + n
    BY <1>0, <1>4
  <1>12. VaultTyped' /\ wv'.free_underlying_held = 0
         /\ wv'.wrapper_supply # 0 /\ wv'.intermediate_held # 0
         /\ wv'.intermediate_held <= T + n
    BY <1>8, <1>11 DEF VaultTyped
  <1> QED
    BY <1>0, <1>1, <1>9, <1>10, <1>12 DEF VaultInv, LuloInv, LuloHolds, FarmInv

\* So does a withdrawal.
LEMMA LuloWithdrawStep ==
    ASSUME VaultInv, source = "Lulo", NEW amount \in Amounts, Withdraw(amount)
    PROVE  VaultInv'
  <1> DEFINE S == wv.wrapper_supply
             I == wv.intermediate_held
             F == wv.free_underlying_held
             T == pool.protected_total_supply
             A == pool.protected_amount
             q == source_quote_withdraw(pool, wv, amount)
             g == Lulo!gross(pool, q.redeemed)
  <1>0. /\ S \in Nat /\ I \in Nat /\ F \in Nat /\ T \in Nat /\ A \in Nat /\ I <= T
        /\ VaultTyped /\ LuloHolds /\ Lulo!Typed(pool) /\ (S = 0 <=> I = 0)
        /\ source \in Sources /\ fees \in Fees /\ amount \in Nat
    BY AmountsAssumption DEF VaultInv, VaultTyped, LuloInv, LuloHolds, Lulo!Typed
  <1>1. /\ q # Refused
        /\ pool' = Lulo!Withdrawn(pool, now, wv, q)
        /\ wv' = Lulo!VaultWithdrawn(pool, wv, amount, q)
        /\ source' = source /\ fees' = fees
    BY DEF Withdraw, quote_withdraw, CheckedWithdraw, VaultWithdrawn, Withdrawn
  <1>2. q = Lulo!quote_withdraw(pool, now, wv, amount)
    BY DEF source_quote_withdraw
  <1> DEFINE free == (amount * F) \div S
  <1>3. /\ amount > 0 /\ amount < S
        /\ q.redeemed \in Nat /\ q.redeemed < I
        /\ g \in Nat /\ g <= A
        /\ q.pays \in Nat \ {0} /\ free \in 0 .. F /\ q.pays <= free + g
    <2> HIDE DEF q
    <2> QED
      BY <1>0, <1>1, <1>2, LuloWithdrawFacts
  <1> HIDE DEF q, g, free
  <1>4. pool' = [pool EXCEPT !.protected_amount = A - g, !.protected_total_supply = T - q.redeemed]
    BY <1>1 DEF Lulo!Withdrawn, g
  <1>5. wv' = [wrapper_supply |-> S - amount, intermediate_held |-> I - q.redeemed,
               free_underlying_held |-> F + g - q.pays]
    BY <1>1 DEF Lulo!VaultWithdrawn, g
  <1>6. Lulo!Typed(pool')
    BY <1>0, <1>3, <1>4 DEF Lulo!Typed, Lulo!Fields
  <1>7. pool'.protected_total_supply = T - q.redeemed
    BY <1>0, <1>4 DEF Lulo!Typed, Lulo!Fields
  <1>8. /\ S - amount \in Nat \ {0} /\ I - q.redeemed \in Nat \ {0}
        /\ I - q.redeemed <= T - q.redeemed /\ F + g - q.pays \in Nat
    BY <1>0, <1>3
  <1>9. VaultTyped' /\ wv'.free_underlying_held \in Nat
        /\ wv'.wrapper_supply # 0 /\ wv'.intermediate_held # 0
        /\ wv'.intermediate_held <= T - q.redeemed
    BY <1>5, <1>8 DEF VaultTyped
  <1> QED
    BY <1>0, <1>1, <1>6, <1>7, <1>9 DEF VaultInv, LuloInv, LuloHolds, FarmInv

\* And what the others do.
LEMMA LuloKept ==
    ASSUME VaultInv, source = "Lulo", Refresh \/ Switch \/ (\E a \in Loans[source] : Lend(a))
    PROVE  VaultInv'
  <1>0. /\ VaultTyped /\ LuloHolds /\ Lulo!Typed(pool) /\ source \in Sources /\ fees \in Fees
        /\ (wv.wrapper_supply = 0 <=> wv.intermediate_held = 0)
    BY DEF VaultInv, LuloInv, LuloHolds
  <1>1. wv' = wv /\ source' = source /\ fees' = fees
    BY DEF Refresh, Switch, Lend
  <1>2. Lulo!Typed(pool') /\ pool'.protected_total_supply = pool.protected_total_supply
    <2>1. CASE Refresh
      BY <1>0, <2>1 DEF Refresh, pre_accrue
    <2>2. CASE Switch
      <3>1. PICK change \in Switches["Lulo"] :
               pool' = [f \in DOMAIN pool |-> IF f \in DOMAIN change THEN change[f] ELSE pool[f]]
        BY <2>2 DEF Switch
      <3>2. DOMAIN change \subseteq {"halted", "deposit_limit"}
        BY <1>0, <3>1, LuloAssumption
      <3>3. DOMAIN pool' = DOMAIN pool
        BY <3>1
      <3>4. \A f \in Lulo!Fields \ {"halted", "deposit_limit"} : pool'[f] = pool[f]
        BY <1>0, <3>1, <3>2 DEF Lulo!Typed, Lulo!Fields
      <3> QED
        BY <1>0, <3>3, <3>4 DEF Lulo!Typed, Lulo!Fields
    <2>3. ASSUME NEW a \in Loans[source], Lend(a)
          PROVE  Lulo!Typed(pool') /\ pool'.protected_total_supply = pool.protected_total_supply
      <3>1. pool' = [pool EXCEPT !.protected_amount = @ + a] /\ a \in Nat
        BY <1>0, <2>3, AmountsAssumption DEF Lend, Lent, Lulo!Earned
      <3> QED
        BY <1>0, <3>1 DEF Lulo!Typed, Lulo!Fields
    <2> QED
      BY <2>1, <2>2, <2>3
  <1> QED
    BY <1>0, <1>1, <1>2 DEF VaultInv, LuloInv, LuloHolds, VaultTyped, FarmInv

-----------------------------------------------------------------------------
(* The farm                                                                  *)

\* Staking and unstaking keep the farm's count and the wrapper's equal.
LEMMA StakedAgrees ==
    ASSUME NEW f, NEW I \in Nat, NEW d \in Int, I + d \in Nat, FarmAgrees(f, I)
    PROVE  FarmAgrees(Kvault!Staked(f, d), I + d)
  <1>1. CASE ~f.used
    BY <1>1 DEF Kvault!Staked, FarmAgrees
  <1>2. CASE f.used
    <2>1. PICK k \in Nat \ {0} : /\ f.total_amount > I
                                 /\ f.total_stake = k * f.total_amount
                                 /\ f.stake = k * I
      BY <1>2 DEF FarmAgrees
    <2> DEFINE A == f.total_amount
    <2>2. A \in Nat \ {0}
      BY <2>1 DEF FarmAgrees
    <2>3. f.total_stake \div f.total_amount = k
      BY <2>1, <2>2, DivExact
    <2>4. Kvault!Staked(f, d) =
            [f EXCEPT !.stake = @ + d * k, !.total_stake = @ + d * k, !.total_amount = @ + d]
      BY <1>2, <2>3 DEF Kvault!Staked
    <2>5. /\ k * I + d * k = k * (I + d) /\ k * (I + d) \in Nat
          /\ k * A + d * k = k * (A + d) /\ k * (A + d) \in Nat
          /\ A + d \in Nat /\ A + d > I + d
      <3> HIDE DEF A
      <3>1. A > I
        BY <2>1 DEF A
      <3>2. A + d \in Nat /\ A + d > I + d
        BY <2>2, <3>1, SMT
      <3>3. k * I + d * k = k * (I + d) /\ k * A + d * k = k * (A + d)
        BY <2>2, SMT
      <3>4. k * (I + d) \in Nat /\ k * (A + d) \in Nat
        BY <3>2, SMT
      <3> QED
        BY <3>2, <3>3, <3>4
    <2> DEFINE g == Kvault!Staked(f, d)
    <2>6. /\ g \in [used : BOOLEAN, idle : Nat, stake : Nat, total_stake : Nat, total_amount : Nat]
          /\ g.total_amount = A + d
          /\ g.total_stake = k * (A + d) /\ g.stake = k * (I + d)
      BY <2>1, <2>4, <2>5 DEF FarmAgrees
    <2> HIDE DEF g
    <2>7. \E j \in Nat \ {0} : /\ g.total_amount > I + d
                              /\ g.total_stake = j * g.total_amount
                              /\ g.stake = j * (I + d)
      BY <2>5, <2>6
    <2> QED
      BY <2>6, <2>7 DEF FarmAgrees, g
  <1> QED
    BY <1>1, <1>2 DEF FarmAgrees

\* Only a trade of the wrapper moves its stake.
LEMMA FarmKept ==
    ASSUME VaultInv, source = "Kvault", Refresh \/ Switch \/ (\E a \in Loans[source] : Lend(a))
    PROVE  "farm" \in DOMAIN pool' /\ pool'.farm = pool.farm
  <1>0. "farm" \in DOMAIN pool
    BY DEF VaultInv, FarmInv
  <1>1. CASE Refresh
    <2>1. pool' = Kvault!reserves_accrued(pool, now)
      BY <1>1 DEF Refresh
    <2> QED
      BY <1>0, <2>1 DEF Kvault!reserves_accrued
  <1>2. CASE Switch
    <2>1. PICK change \in Switches["Kvault"] :
             pool' = [f \in DOMAIN pool |-> IF f \in DOMAIN change THEN change[f] ELSE pool[f]]
      BY <1>2 DEF Switch
    <2>2. "farm" \notin DOMAIN change
      BY <2>1, FarmAssumption DEF VaultInv
    <2> QED
      BY <1>0, <2>1, <2>2
  <1>3. ASSUME NEW a \in Loans[source], Lend(a)
        PROVE  "farm" \in DOMAIN pool' /\ pool'.farm = pool.farm
    <2>1. pool' = Kvault!Invested(pool, now, a)
      BY <1>3 DEF Lend, Lent
    <2> QED
      BY <1>0, <2>1 DEF Kvault!Invested, Kvault!InvestedAt, Kvault!InvestedFor
  <1> QED
    BY <1>1, <1>2, <1>3

-----------------------------------------------------------------------------
(* The invariant                                                             *)

\* Shares sent to the vault leave the farm's count alone.
LEMMA CreditStep ==
    ASSUME VaultInv, NEW a \in Loans[source], Credit(a)
    PROVE  wv' = wv /\ FarmInv'
  <1>1. /\ source = "Kvault" /\ source' = source /\ wv' = wv
        /\ pool' = [pool EXCEPT !.farm.idle = @ + a]
    BY DEF Credit
  <1>2. "farm" \in DOMAIN pool /\ FarmAgrees(pool.farm, wv.intermediate_held) /\ a \in Nat
    BY <1>1, AmountsAssumption DEF VaultInv, FarmInv
  <1>3. "farm" \in DOMAIN pool' /\ pool'.farm = [pool.farm EXCEPT !.idle = @ + a]
    BY <1>1, <1>2
  <1>4. FarmAgrees([pool.farm EXCEPT !.idle = @ + a], wv.intermediate_held)
    <2> DEFINE f == pool.farm
               g == [f EXCEPT !.idle = @ + a]
    <2>1. f \in [used : BOOLEAN, idle : Nat, stake : Nat, total_stake : Nat, total_amount : Nat]
      BY <1>2 DEF FarmAgrees
    <2>2. /\ g \in [used : BOOLEAN, idle : Nat, stake : Nat, total_stake : Nat, total_amount : Nat]
          /\ g.used = f.used /\ g.stake = f.stake /\ g.total_stake = f.total_stake
          /\ g.total_amount = f.total_amount
      BY <1>2, <2>1
    <2> QED
      BY <1>2, <2>2 DEF FarmAgrees
  <1> QED
    BY <1>1, <1>3, <1>4 DEF FarmInv

\* What a deposit does to the vault.
LEMMA DepositStep ==
    ASSUME VaultInv, source # "Lulo", NEW amount \in Amounts, Deposit(amount)
    PROVE  \E m, c \in Nat \ {0} :
              /\ wv'.wrapper_supply = wv.wrapper_supply + m
              /\ wv'.intermediate_held = wv.intermediate_held + c
              /\ wv.wrapper_supply # 0 =>
                    wv.intermediate_held * m <= c * wv.wrapper_supply
              /\ VaultTyped' /\ FarmInv'
  <1> DEFINE S == wv.wrapper_supply
             I == wv.intermediate_held
             q == source_quote_deposit(pool, wv, net_amount(amount))
  <1>0. S \in Nat /\ I \in Nat /\ {"wrapper_supply", "intermediate_held"} \subseteq DOMAIN wv
    BY DEF VaultInv, VaultTyped
  <1>1. /\ q # Refused
        /\ pool' = Deposited(pool, wv, q)
        /\ wv' = [wv EXCEPT !.wrapper_supply = @ + q.mint, !.intermediate_held = @ + q.brought]
        /\ source' = source
    BY DEF Deposit, quote_deposit, CheckedDeposit, VaultDeposited
  <1>2. /\ q.mint \in Nat \ {0} /\ q.brought \in Nat \ {0}
        /\ S # 0 => I * q.mint <= q.brought * S
    BY <1>1, DepositFacts
  <1> HIDE DEF q
  <1>3. /\ wv'.wrapper_supply = S + q.mint
        /\ wv'.intermediate_held = I + q.brought
        /\ DOMAIN wv' = DOMAIN wv
    BY <1>0, <1>1
  <1>4. VaultTyped'
    BY <1>0, <1>2, <1>3 DEF VaultTyped
  <1>5. FarmInv'
    <2> SUFFICES ASSUME source = "Kvault"
                 PROVE  "farm" \in DOMAIN pool' /\ FarmAgrees(pool'.farm, wv'.intermediate_held)
      BY <1>1 DEF FarmInv
    <2>1. "farm" \in DOMAIN pool /\ FarmAgrees(pool.farm, I)
      BY DEF VaultInv, FarmInv
    <2>2. pool' = Kvault!KvaultDeposited(pool, now, wv, q)
      BY <1>1 DEF Deposited
    <2>3. "farm" \in DOMAIN pool' /\ pool'.farm = Kvault!Staked(pool.farm, q.brought)
      BY <2>1, <2>2 DEF Kvault!KvaultDeposited, Kvault!Settled, Kvault!Charged
    <2>4. FarmAgrees(Kvault!Staked(pool.farm, q.brought), I + q.brought)
      BY <1>0, <1>2, <2>1, StakedAgrees
    <2> QED
      BY <1>3, <2>3, <2>4
  <1> QED
    BY <1>2, <1>3, <1>4, <1>5

\* What a withdrawal does to the vault.
LEMMA WithdrawStep ==
    ASSUME VaultInv, source # "Lulo", NEW amount \in Amounts, Withdraw(amount)
    PROVE  \E b \in Nat \ {0} :
              /\ amount \in Nat \ {0} /\ amount <= wv.wrapper_supply
              /\ b <= wv.intermediate_held
              /\ wv'.wrapper_supply = wv.wrapper_supply - amount
              /\ wv'.intermediate_held = wv.intermediate_held - b
              /\ wv.wrapper_supply * b <= amount * wv.intermediate_held
              /\ amount = wv.wrapper_supply <=> b = wv.intermediate_held
              /\ VaultTyped' /\ FarmInv'
  <1> DEFINE S == wv.wrapper_supply
             I == wv.intermediate_held
             q == source_quote_withdraw(pool, wv, amount)
             b == q.redeemed
  <1>0. /\ S \in Nat /\ I \in Nat /\ (S = 0 <=> I = 0) /\ amount \in Nat
        /\ {"wrapper_supply", "intermediate_held"} \subseteq DOMAIN wv
    BY AmountsAssumption DEF VaultInv, VaultTyped
  <1>1. /\ q # Refused
        /\ WithdrawKeepsValue(wv, amount, q)
        /\ pool' = Withdrawn(pool, wv, q)
        /\ wv' = [wv EXCEPT !.wrapper_supply = @ - amount, !.intermediate_held = @ - b]
        /\ source' = source
    BY DEF Withdraw, quote_withdraw, CheckedWithdraw, VaultWithdrawn
  <1>2. amount > 0 /\ amount <= S /\ b = (amount * I) \div S /\ b # 0
    <2>1. Strays = 0
      BY <1>0, <1>1, StraysRefused
    <2>2. I + Strays = I
      BY <1>0, <2>1
    <2> QED
      BY <1>0, <1>1, <2>2, WithdrawFacts
  <1> HIDE DEF q
  <1>3. /\ b \in Nat /\ S * b <= amount * I /\ b <= I
        /\ amount < S => b < I
        /\ amount = S => b = I
    <2>1. S \in Nat \ {0} /\ I \in Nat \ {0} /\ amount \in Nat /\ amount <= S
      BY <1>0, <1>2
    <2> DEFINE part == (amount * I) \div S
    <2>2. /\ part \in Nat /\ S * part <= amount * I /\ part <= I
          /\ amount < S => part < I
          /\ amount = S => part = I
      <3> HIDE DEF S, I
      <3> QED
        BY <2>1, BurnKeepsValue, Zenon
    <2> QED
      BY <1>2, <2>2
  <1> HIDE DEF b
  <1>4. /\ wv'.wrapper_supply = S - amount
        /\ wv'.intermediate_held = I - b
        /\ DOMAIN wv' = DOMAIN wv
    BY <1>0, <1>1
  <1>5. VaultTyped'
    BY <1>0, <1>2, <1>3, <1>4 DEF VaultTyped
  <1>6. FarmInv'
    <2> SUFFICES ASSUME source = "Kvault"
                 PROVE  "farm" \in DOMAIN pool' /\ FarmAgrees(pool'.farm, wv'.intermediate_held)
      BY <1>1 DEF FarmInv
    <2>1. "farm" \in DOMAIN pool /\ FarmAgrees(pool.farm, I)
      BY DEF VaultInv, FarmInv
    <2>2. pool' = Kvault!KvaultWithdrawn(pool, now, wv, q)
      BY <1>1 DEF Withdrawn
    <2>3. "farm" \in DOMAIN pool' /\ pool'.farm = Kvault!Staked(pool.farm, -q.redeemed)
      BY <2>1, <2>2 
      DEF Kvault!KvaultWithdrawn, Kvault!Disinvested, Kvault!RedeemedAt, Kvault!Redeemed,
          Kvault!Settled, Kvault!Charged
    <2>4. FarmAgrees(Kvault!Staked(pool.farm, -b), I + (-b))
      BY <1>0, <1>3, <2>1, StakedAgrees
    <2> QED
      BY <1>0, <1>3, <1>4, <2>3, <2>4 DEF b
  <1> QED
    BY <1>0, <1>2, <1>3, <1>4, <1>5, <1>6

\* Every step keeps the invariant.
LEMMA VaultInvStep ==
    VaultInv /\ [Next]_vars => VaultInv'
  <1> SUFFICES ASSUME VaultInv, [Next]_vars
               PROVE  VaultInv'
    OBVIOUS
  <1>0. source' = source /\ source \in Sources /\ fees' = fees /\ fees \in Fees
    BY DEF VaultInv, Next, vars, Tick, Refresh, Switch, Lend, Credit, Deposit, Withdraw
  <1>1. CASE source = "Lulo"
    <2>1. CASE Tick \/ UNCHANGED vars
      BY <2>1 DEF VaultInv, VaultTyped, FarmInv, LuloInv, LuloHolds, Tick, vars
    <2> QED
      BY <1>1, <2>1, LuloDepositStep, LuloWithdrawStep, LuloKept DEF Next, Credit
  <1>2. CASE source # "Lulo"
    <2> DEFINE S == wv.wrapper_supply
               I == wv.intermediate_held
    <2>0. S \in Nat /\ I \in Nat /\ (S = 0 <=> I = 0)
      BY <1>2 DEF VaultInv, VaultTyped
    <2>1. ASSUME NEW amount \in Amounts, Deposit(amount)
          PROVE  VaultInv'
      BY <1>0, <1>2, <2>0, <2>1, DepositStep DEF VaultInv, VaultTyped, LuloInv
    <2>2. ASSUME NEW amount \in Amounts, Withdraw(amount)
          PROVE  VaultInv'
      BY <1>0, <1>2, <2>0, <2>2, WithdrawStep DEF VaultInv, VaultTyped, LuloInv
    <2>3. CASE Refresh \/ Switch \/ (\E a \in Loans[source] : Lend(a))
      <3>1. wv' = wv
        BY <2>3 DEF Refresh, Switch, Lend
      <3>2. FarmInv'
        BY <1>0, <1>2, <2>3, <3>1, FarmKept DEF VaultInv, FarmInv
      <3> QED
        BY <1>0, <1>2, <3>1, <3>2 DEF VaultInv, VaultTyped, LuloInv
    <2>4. CASE Tick \/ UNCHANGED vars
      BY <2>4 DEF VaultInv, VaultTyped, FarmInv, LuloInv, LuloHolds, Tick, vars
    <2>5. ASSUME NEW amount \in Loans[source], Credit(amount)
          PROVE  VaultInv'
      <3>1. wv' = wv /\ FarmInv'
        BY <2>5, CreditStep
      <3> QED
        BY <1>0, <1>2, <3>1 DEF VaultInv, VaultTyped, LuloInv
    <2> QED
      BY <2>1, <2>2, <2>3, <2>4, <2>5 DEF Next
  <1> QED
    BY <1>1, <1>2

\* An empty vault satisfies it, and so does the farm it will stake in.
LEMMA VaultInvInit == Init => VaultInv
  <1> SUFFICES ASSUME Init PROVE VaultInv
    OBVIOUS
  <1>1. /\ source \in Sources /\ fees \in Fees
        /\ VaultTyped /\ wv.wrapper_supply = 0 /\ wv.intermediate_held = 0
    BY DEF Init, VaultTyped
  <1>2. FarmInv
    <2> SUFFICES ASSUME source = "Kvault"
                 PROVE  "farm" \in DOMAIN pool /\ FarmAgrees(pool.farm, 0)
      BY <1>1 DEF FarmInv
    <2>0. DOMAIN pool = Kvault!KvaultFields
      BY PoolsAssumption DEF Init, Fields
    <2>1. /\ "farm" \in DOMAIN pool
          /\ pool.farm \in [used : BOOLEAN, idle : Nat, stake : Nat, total_stake : Nat,
                            total_amount : Nat]
          /\ pool.farm.used =>
                /\ pool.farm.stake = 0
                /\ pool.farm.total_stake > 0 /\ pool.farm.total_amount > 0
                /\ pool.farm.total_stake % pool.farm.total_amount = 0
      BY <2>0, FarmAssumption DEF Init, Kvault!KvaultFields
    <2> DEFINE T == pool.farm.total_stake
               A == pool.farm.total_amount
               k == T \div A
    <2>2. ASSUME pool.farm.used
          PROVE  k \in Nat \ {0} /\ T = k * A /\ k * 0 = 0
      <3>1. T \in Nat \ {0} /\ A \in Nat \ {0} /\ T % A = 0
        BY <2>1, <2>2
      <3> HIDE DEF T, A
      <3>2. k \in Nat /\ T = k * A
        BY <3>1, SMT
      <3>3. k # 0
        BY <3>1, <3>2, SMT
      <3> QED
        BY <3>2, <3>3
    <2> HIDE DEF k
    <2> QED
      BY <2>1, <2>2 DEF FarmAgrees
  <1>3. LuloInv
    BY LuloAssumption DEF Init, LuloInv, LuloHolds, Lulo!Typed
  <1> QED
    BY <1>1, <1>2, <1>3 DEF VaultInv

\* The invariant holds of every vault that starts empty.
THEOREM VaultInvHolds == Spec => []VaultInv
  BY VaultInvInit, VaultInvStep, PTL DEF Spec

-----------------------------------------------------------------------------
(* The theorems about the vault                                              *)

\* The vault's shares and its position vanish together, whatever the source, and
\* the farm counts what the wrapper recorded.
THEOREM InSyncHolds == Spec => []InSync
  <1>1. VaultInv => InSync
    BY PositionAgrees DEF VaultInv, InSync
  <1> QED
    BY <1>1, VaultInvHolds, PTL

\* The value check of both quotes is never what refuses an amount: whatever the
\* source, rounding down already protects the holders.  Only shares that others
\* sent to the wrapper of a Kamino vault make it refuse, and then it refuses every
\* withdrawal.
THEOREM CheckNeverRejectsHolds == Spec => []CheckNeverRejects
  <1>1. VaultInv => CheckNeverRejects
    <2> SUFFICES ASSUME VaultInv, NEW amount \in Amounts
                 PROVE  LET d == source_quote_deposit(pool, wv, net_amount(amount))
                            w == source_quote_withdraw(pool, wv, amount)
                        IN  /\ d # Refused /\ Strays = 0 => DepositKeepsValue(wv, d)
                            /\ w # Refused => (WithdrawKeepsValue(wv, amount, w) <=> Strays = 0)
      BY DEF CheckNeverRejects
    <2> DEFINE S == wv.wrapper_supply
               I == wv.intermediate_held
               d == source_quote_deposit(pool, wv, net_amount(amount))
               w == source_quote_withdraw(pool, wv, amount)
    <2>0. /\ amount \in Nat /\ fees \in Fees
          /\ S \in Nat /\ I \in Nat /\ (S = 0 <=> I = 0)
      BY AmountsAssumption DEF VaultInv, VaultTyped
    <2>1. ASSUME d # Refused, source # "Lulo", Strays = 0
          PROVE  DepositKeepsValue(wv, d)
      <3>0. I + Strays = I
        BY <2>0, <2>1
      <3>1. /\ d.mint \in Nat /\ d.brought \in Nat
            /\ d.before = I /\ d.after = I + d.brought
            /\ S # 0 => I * d.mint <= d.brought * S
        BY <2>0, <2>1, <3>0, DepositFacts
      <3> HIDE DEF d
      <3>2. S # 0 => (I + d.brought) * S >= I * (S + d.mint)
        <4> DEFINE m == d.mint
                   c == d.brought
        <4>1. m \in Nat /\ c \in Nat /\ (S # 0 => I * m <= c * S)
          BY <3>1
        <4> HIDE DEF S, I, m, c
        <4>2. S # 0 => (I + c) * S >= I * (S + m)
          BY <2>0, <4>1, SMT
        <4> QED
          BY <4>2 DEF m, c
      <3> QED
        BY <3>1, <3>2 DEF DepositKeepsValue, no_value_per_share_loss
    <2>2. ASSUME w # Refused, source # "Lulo", Strays = 0
          PROVE  WithdrawKeepsValue(wv, amount, w)
      <3>0. I + Strays = I
        BY <2>0, <2>2
      <3>1. /\ amount > 0 /\ amount <= S /\ w.redeemed = (amount * I) \div S
            /\ w.before = I /\ w.after = I - w.redeemed
        BY <2>0, <2>2, <3>0, WithdrawFacts
      <3> DEFINE b == (amount * I) \div S
      <3>2. b \in Nat /\ S * b <= amount * I
        <4>1. S \in Nat \ {0} /\ I \in Nat \ {0}
          BY <2>0, <3>1
        <4> HIDE DEF S, I
        <4> QED
          BY <2>0, <3>1, <4>1, BurnKeepsValue
      <3>3. (I - b) * S >= I * (S - amount)
        <4> HIDE DEF S, I, b
        <4> QED
          BY <2>0, <3>2, SMT
      <3> HIDE DEF w, b
      <3> QED
        BY <3>1, <3>3 DEF WithdrawKeepsValue, no_value_per_share_loss, b
    <2>3. ASSUME d # Refused, source = "Lulo"
          PROVE  DepositKeepsValue(wv, d)
      <3>1. d = Lulo!quote_deposit(pool, now, wv, net_amount(amount))
        BY <2>3 DEF source_quote_deposit
      <3>2. net_amount(amount) \in Nat /\ VaultTyped /\ LuloHolds
        BY <2>0, <2>3, NetAmount DEF VaultInv, LuloInv
      <3>3. /\ d.mint \in Nat /\ d.before \in Nat /\ d.after \in Nat
            /\ S # 0 => d.after * S >= d.before * (S + d.mint)
        <4> HIDE DEF d
        <4> QED
          BY <2>3, <3>1, <3>2, LuloDepositFacts
      <3> HIDE DEF d
      <3> QED
        BY <3>3 DEF DepositKeepsValue, no_value_per_share_loss
    <2>4. ASSUME w # Refused, source = "Lulo"
          PROVE  WithdrawKeepsValue(wv, amount, w)
      <3>1. w = Lulo!quote_withdraw(pool, now, wv, amount)
        BY <2>4 DEF source_quote_withdraw
      <3>2. VaultTyped /\ LuloHolds
        BY <2>4 DEF VaultInv, LuloInv
      <3>3. w.after * S >= w.before * (S - amount)
        <4> HIDE DEF w
        <4> QED
          BY <2>0, <2>4, <3>1, <3>2, LuloWithdrawFacts
      <3> HIDE DEF w
      <3> QED
        BY <3>3 DEF WithdrawKeepsValue, no_value_per_share_loss
    <2>5. ASSUME w # Refused, source # "Lulo", Strays # 0
          PROVE  ~WithdrawKeepsValue(wv, amount, w)
      BY <2>0, <2>5, StraysRefused
    <2>6. source = "Lulo" => Strays = 0
      BY DEF Strays
    <2> HIDE DEF d, w
    <2> QED
      BY <2>1, <2>2, <2>3, <2>4, <2>5, <2>6 DEF d, w
  <1> QED
    BY <1>1, VaultInvHolds, PTL

\* A step of the vault is a step of ShareVault or leaves its shares alone.
LEMMA PromiseStep ==
    VaultInv /\ [Next]_vars => [Promise!Next]_(Promise!vars)
  <1> SUFFICES ASSUME VaultInv, [Next]_vars
               PROVE  [Promise!Next]_(Promise!vars)
    OBVIOUS
  <1>0. source' = source
    BY DEF Next, vars, Tick, Refresh, Switch, Lend, Credit, Deposit, Withdraw
  <1>1. CASE source = "Lulo"
    BY <1>0, <1>1 DEF Promise!vars, Shares, Position
  <1>2. CASE source # "Lulo"
    <2> DEFINE S == wv.wrapper_supply
               I == wv.intermediate_held
    <2>0. S \in Nat /\ I \in Nat /\ (S = 0 <=> I = 0)
      BY <1>2 DEF VaultInv, VaultTyped
    <2>1. Shares = S /\ Position = I /\ Shares' = S' /\ Position' = I'
      BY <1>0, <1>2 DEF Shares, Position
    <2>2. ASSUME NEW amount \in Amounts, Deposit(amount)
          PROVE  Promise!Deposit
      <3>1. PICK m, c \in Nat \ {0} : /\ S' = S + m /\ I' = I + c
                                      /\ S # 0 => I * m <= c * S
        BY <1>2, <2>2, DepositStep
      <3> HIDE DEF S, I
      <3>2. (I + c) * S >= I * (S + m)
        BY <2>0, <3>1, SMT
      <3>3. S + m > S /\ I + c > I
        BY <2>0
      <3> QED
        BY <2>1, <3>1, <3>2, <3>3 DEF Promise!Deposit, Promise!Undiluted
    <2>3. ASSUME NEW amount \in Amounts, Withdraw(amount)
          PROVE  Promise!Withdraw
      <3>1. PICK b \in Nat \ {0} : /\ amount \in Nat \ {0} /\ amount <= S /\ b <= I
                                   /\ S' = S - amount /\ I' = I - b
                                   /\ S * b <= amount * I
                                   /\ amount = S <=> b = I
        BY <1>2, <2>3, WithdrawStep
      <3> HIDE DEF S, I
      <3>2. (I - b) * S >= I * (S - amount)
        BY <2>0, <3>1, SMT
      <3>3. /\ 0 <= S - amount /\ S - amount < S /\ 0 <= I - b /\ I - b < I
            /\ S - amount = 0 <=> I - b = 0
        BY <2>0, <3>1
      <3> QED
        BY <2>1, <3>1, <3>2, <3>3 DEF Promise!Withdraw, Promise!Undiluted
    <2>4. CASE UNCHANGED wv
      BY <2>1, <2>4 DEF Promise!vars
    <2> QED
      BY <2>2, <2>3, <2>4 DEF Next, Promise!Next, Tick, Refresh, Switch, Lend, Credit, vars
  <1> QED
    BY <1>1, <1>2

\* Whatever the source, its rates and the fees, the vault implements ShareVault:
\* no trade dilutes the shares of the others.
THEOREM PromiseKept == Spec => KeepsPromise
  <1>1. Init => Promise!Init
    BY DEF Init, Promise!Init, Shares, Position
  <1> QED
    BY <1>1, PromiseStep, VaultInvHolds, PTL DEF Spec, KeepsPromise, Promise!Spec

\* Lulo: what a withdrawal pays is always covered by the burnt shares' part of the
\* free tokens and what the pool pays for the LP tokens it redeems.
THEOREM LuloPayoutCovered == Spec => [](source = "Lulo" => PayoutCovered)
  <1>1. VaultInv /\ source = "Lulo" => PayoutCovered
    <2> SUFFICES ASSUME VaultInv, source = "Lulo", NEW amount \in Amounts,
                        NEW w, w = Lulo!quote_withdraw(pool, now, wv, amount), w # Refused
                 PROVE  w.pays <= (amount * wv.free_underlying_held) \div wv.wrapper_supply
                                    + Lulo!gross(pool, w.redeemed)
      BY DEF PayoutCovered
    <2>1. /\ amount \in Nat /\ VaultTyped /\ LuloHolds
          /\ wv.wrapper_supply = 0 <=> wv.intermediate_held = 0
      BY AmountsAssumption DEF VaultInv, LuloInv
    <2> QED
      BY <2>1, LuloWithdrawFacts
  <1> QED
    BY <1>1, VaultInvHolds, PTL

-----------------------------------------------------------------------------
(* Rounding at any exchange rate                                             *)

\* Klend: at any exchange rate, the liquidity taken for the collateral of a
\* deposit, rounded up twice, is at most the deposit: DepositWithinNet for every
\* reserve, and the error for a deposit above the net amount is never reported.
THEOREM DepositWithinNetAtAnyRate ==
    ASSUME NEW cs \in Nat \ {0}, NEW ts \in Nat \ {0}, NEW amount \in Nat
    PROVE  LET x == [cs |-> cs, ts |-> ts]
           IN  Klend!collateral_to_liquidity_ceil(Klend!liquidity_to_collateral(amount, x), x)
                 <= amount
  <1> DEFINE n == (cs * amount) * ONE
             g == (n * ONE) \div ts
             c == g \div ONE
             e == ceil_div(c * ts, cs)
  <1>0. ONE \in Nat \ {0} /\ cs * amount \in Nat /\ n \in Nat /\ n * ONE \in Nat
    <2>1. ONE \in Nat \ {0}
      BY ScaleAssumption
    <2>2. cs * amount \in Nat
      BY SMT
    <2>3. n \in Nat
      BY <2>1, <2>2, SMT
    <2> HIDE DEF n
    <2> QED
      BY <2>1, <2>2, <2>3, SMT
  <1>1. g \in Nat /\ ts * g <= n * ONE
    BY <1>0, FloorBelow
  <1> HIDE DEF n, g
  <1>2. c \in Nat /\ ONE * c <= g
    BY <1>0, <1>1, FloorBelow
  <1> HIDE DEF c
  <1>3. c * ts \in Nat /\ c * ts <= n
    <2>1. ts * (ONE * c) <= ts * g
      BY <1>0, <1>1, <1>2, SMT
    <2>2. ts * (ONE * c) = ONE * (c * ts) /\ n * ONE = ONE * n /\ c * ts \in Nat
      BY <1>0, <1>2, SMT
    <2>3. ONE * (c * ts) <= ONE * n
      <3>1. ts * g \in Nat /\ ONE * (c * ts) \in Nat /\ ONE * n \in Nat
        BY <1>0, <1>1, <2>2, SMT
      <3> QED
        BY <3>1, <2>1, <2>2, <1>1
    <2> QED
      BY <2>2, <2>3, <1>0, CancelFactor
  <1>4. e \in Nat /\ e <= amount * ONE
    <2>1. n = cs * (amount * ONE) /\ amount * ONE \in Nat
      BY <1>0, SMT DEF n
    <2> QED
      BY <1>3, <2>1, CeilAbove
  <1>5. ceil_div(e, ONE) <= amount
    <2> HIDE DEF e
    <2>1. amount * ONE = ONE * amount
      BY <1>0, SMT
    <2> QED
      BY <1>0, <1>4, <2>1, CeilAbove
  <1> QED
    BY <1>5 DEF Klend!collateral_to_liquidity_ceil, Klend!liquidity_to_collateral, Klend!ceil,
                Klend!floor, Klend!frac_div, Klend!from_num, Klend!ceil_div, ceil_div, e, c, g, n

\* Kvault: at any exchange rate of the primary reserve and for any amount, what
\* is sent to the user is covered by what the ctokens are redeemed for.
THEOREM DisinvestCovered ==
    ASSUME NEW k \in Nat, NEW amount \in Nat, NEW cs \in Nat \ {0}, NEW ts \in Nat \ {0}
    PROVE  LET out == Kvault!disinvest(k, [cs |-> cs, ts |-> ts], amount)
           IN  out.sent <= Kvault!collateral_to_liquidity(out.ctokens, [cs |-> cs, ts |-> ts])
  <1> DEFINE inres == (k * ts) \div cs
             send == smaller(inres, amount * ONE)
             whole == send \div ONE
             need == ceil_div((whole * cs) * ONE, ts)
             ctokens == smaller(need, k)
             liquidity == (ctokens * ts) \div cs
             err == IF liquidity % ONE > 0 /\ liquidity % ONE > send % ONE THEN 1 ELSE 0
  <1>0. ONE \in Nat \ {0} /\ k \in Nat /\ k * ts \in Nat /\ amount * ONE \in Nat
    BY ScaleAssumption, SMT
  <1>1. inres \in Nat
    BY <1>0, FloorBelow
  <1> HIDE DEF inres
  <1>2. send \in Nat /\ send <= inres
    BY <1>0, <1>1 DEF smaller
  <1> HIDE DEF send
  <1>3. whole \in Nat /\ ONE * whole <= send
    BY <1>0, <1>2, FloorBelow
  <1> HIDE DEF whole
  <1>4. (whole * cs) * ONE \in Nat
    BY <1>0, <1>3, SMT
  <1>5. need \in Nat /\ ts * need >= (whole * cs) * ONE
    BY <1>4, CeilAbove
  <1> HIDE DEF need
  <1>6. ctokens \in Nat
    BY <1>0, <1>5 DEF smaller
  <1>7. ONE * whole <= liquidity
    <2>1. CASE need <= k
      <3>1. ctokens = need
        BY <2>1 DEF smaller
      <3>2. cs * (ONE * whole) <= need * ts
        <4>1. (whole * cs) * ONE = cs * (ONE * whole) /\ ts * need = need * ts
          BY <1>0, <1>3, <1>5, SMT
        <4> QED
          BY <4>1, <1>5
      <3>3. need * ts \in Nat /\ ONE * whole \in Nat
        BY <1>0, <1>3, <1>5, SMT
      <3> QED
        BY <3>1, <3>2, <3>3, FloorAbove
    <2>2. CASE ~(need <= k)
      <3>1. liquidity = inres
        BY <2>2 DEF smaller, inres
      <3>2. ONE * whole \in Nat
        BY <1>0, <1>3, SMT
      <3> QED
        BY <3>1, <3>2, <1>1, <1>2, <1>3
    <2> QED
      BY <2>1, <2>2
  <1>8. liquidity \in Nat
    <2>1. ctokens * ts \in Nat
      BY <1>6, SMT
    <2> QED
      BY <2>1, FloorBelow
  <1>9. whole <= liquidity \div ONE
    <2> HIDE DEF liquidity
    <2> QED
      BY <1>0, <1>3, <1>7, <1>8, FloorAbove
  <1> DEFINE out == Kvault!disinvest(k, [cs |-> cs, ts |-> ts], amount)
  <1>10. /\ send # 0 => out = [ctokens |-> ctokens, sent |-> Kvault!saturating_sub(whole, err)]
         /\ send = 0 => out = [ctokens |-> 0, sent |-> 0]
    BY DEF Kvault!disinvest, Kvault!fraction_collateral_to_liquidity, Kvault!from_num, Kvault!floor,
           Kvault!fraction_liquidity_to_collateral_ceil, Kvault!ceil_div, Kvault!smaller, smaller,
           ceil_div, inres, send, whole, need
  <1>11. ASSUME NEW z \in Nat
         PROVE  Kvault!collateral_to_liquidity(z, [cs |-> cs, ts |-> ts]) = ((z * ts) \div cs) \div ONE
    BY DEF Kvault!collateral_to_liquidity, Kvault!fraction_collateral_to_liquidity, Kvault!floor
  <1>12. CASE send = 0
    <2>1. ((0 * ts) \div cs) \div ONE = 0
      BY <1>0, SMT
    <2> QED
      BY <1>10, <1>11, <1>12, <2>1
  <1>13. CASE send # 0
    <2>1. out.ctokens = ctokens /\ out.sent = Kvault!saturating_sub(whole, err)
      BY <1>10, <1>13
    <2>2. err \in {0, 1}
      OBVIOUS
    <2> HIDE DEF err, ctokens
    <2>3. Kvault!saturating_sub(whole, err) <= whole
      BY <1>3, <2>2 DEF Kvault!saturating_sub
    <2>4. Kvault!collateral_to_liquidity(ctokens, [cs |-> cs, ts |-> ts]) = liquidity \div ONE
      BY <1>6, <1>11
    <2>5. liquidity \div ONE \in Nat /\ Kvault!saturating_sub(whole, err) \in Nat
      <3> HIDE DEF liquidity
      <3> QED
        BY <1>0, <1>3, <1>8, <2>2, FloorBelow DEF Kvault!saturating_sub
    <2> HIDE DEF liquidity
    <2> QED
      BY <2>1, <2>3, <2>4, <2>5, <1>3, <1>9
  <1> QED
    BY <1>12, <1>13

-----------------------------------------------------------------------------
(* Accrual at the moment of the last accrual changes nothing                 *)

\* A clock.
Clock(t) == t.slot \in Nat /\ t.timestamp \in Nat

\* Save: the accrued copy has the same total supply, and nothing else a quote reads
\* is changed.
LEMMA SaveAccruedOnce ==
    ASSUME NEW r, DOMAIN r = Save!Fields, NEW t, Clock(t)
    PROVE  LET c == Save!pre_accrue(r, t)
           IN  /\ DOMAIN c = Save!Fields
               /\ c.available = r.available /\ c.supply = r.supply /\ c.config = r.config
               /\ Save!total_supply_wad(c, t) = Save!total_supply_wad(r, t)
  <1> DEFINE a == Save!accrue_interest(r, t)
             c == Save!pre_accrue(r, t)
  <1>1. c = [[r EXCEPT !.borrowed = a.borrowed, !.fees = a.fees] EXCEPT !.last_update_slot = t.slot]
    BY DEF Save!pre_accrue, Save!with_accrual
  <1>2. /\ DOMAIN c = Save!Fields
        /\ c.available = r.available /\ c.supply = r.supply /\ c.config = r.config
        /\ c.borrowed = a.borrowed /\ c.fees = a.fees /\ c.last_update_slot = t.slot
    <2> HIDE DEF a, c
    <2> QED
      BY <1>1 DEF Save!Fields
  <1> HIDE DEF c
  <1>3. Save!accrue_interest(c, t) = [borrowed |-> a.borrowed, fees |-> a.fees]
    <2>1. Save!saturating_sub(t.slot, c.last_update_slot) = 0
      BY <1>2 DEF Save!saturating_sub, Clock
    <2> HIDE DEF a
    <2> QED
      BY <1>2, <2>1 DEF Save!accrue_interest
  <1> HIDE DEF a
  <1>4. ASSUME NEW b, NEW p, DOMAIN p = Save!Fields
        PROVE  /\ Save!with_accrual(p, b).available = p.available
               /\ Save!with_accrual(p, b).borrowed = b.borrowed
               /\ Save!with_accrual(p, b).fees = b.fees
    BY <1>4 DEF Save!with_accrual, Save!Fields
  <1>5. Save!owned(Save!with_accrual(c, [borrowed |-> a.borrowed, fees |-> a.fees]))
          = Save!owned(Save!with_accrual(r, a))
    BY <1>2, <1>4 DEF Save!owned
  <1> QED
    BY <1>2, <1>3, <1>5 DEF Save!total_supply_wad, c, a

\* Klend: the same, for slots or seconds.
LEMMA KlendAccruedOnce ==
    ASSUME NEW r, DOMAIN r = Klend!Fields, NEW t, Clock(t)
    PROVE  LET c == Klend!pre_accrue(r, t)
           IN  /\ DOMAIN c = Klend!Fields
               /\ c.available = r.available /\ c.supply = r.supply /\ c.config = r.config
               /\ c.queued = r.queued /\ c.cap = r.cap /\ c.flags = r.flags
               /\ Klend!total_supply_fraction(c, t) = Klend!total_supply_fraction(r, t)
  <1> DEFINE a == Klend!accrue_interest(r, t)
             c == Klend!pre_accrue(r, t)
  <1>0. CASE ~Klend!known_basis(r)
    BY <1>0 DEF Klend!pre_accrue
  <1>00. CASE Klend!known_basis(r)
    <2>1. c = [[r EXCEPT !.borrowed = a.borrowed, !.fees = a.fees] EXCEPT
                 !.last_update_slot = t.slot, !.last_update_timestamp = t.timestamp]
      BY <1>00 DEF Klend!pre_accrue, Klend!with_accrual
    <2>2. /\ DOMAIN c = Klend!Fields
          /\ c.available = r.available /\ c.supply = r.supply /\ c.config = r.config
          /\ c.queued = r.queued /\ c.cap = r.cap /\ c.flags = r.flags
          /\ c.referrer_fees = r.referrer_fees
          /\ c.borrowed = a.borrowed /\ c.fees = a.fees
          /\ c.last_update_slot = t.slot /\ c.last_update_timestamp = t.timestamp
      <3> HIDE DEF a, c
      <3> QED
        BY <2>1 DEF Klend!Fields
    <2> HIDE DEF c
    <2>3. Klend!accrue_interest(c, t) = [borrowed |-> a.borrowed, fees |-> a.fees]
      <3>1. Klend!elapsed_units(c, t) = 0
        BY <2>2 DEF Klend!elapsed_units, Klend!saturating_sub, Clock
      <3> HIDE DEF a
      <3> QED
        BY <2>2, <3>1 DEF Klend!accrue_interest
    <2> HIDE DEF a
    <2>4. ASSUME NEW b, NEW p, DOMAIN p = Klend!Fields
          PROVE  /\ Klend!with_accrual(p, b).available = p.available
                 /\ Klend!with_accrual(p, b).referrer_fees = p.referrer_fees
                 /\ Klend!with_accrual(p, b).borrowed = b.borrowed
                 /\ Klend!with_accrual(p, b).fees = b.fees
      BY <2>4 DEF Klend!with_accrual, Klend!Fields
    <2>5. Klend!total_supply_fraction_pre(
              Klend!with_accrual(c, [borrowed |-> a.borrowed, fees |-> a.fees]))
            = Klend!total_supply_fraction_pre(Klend!with_accrual(r, a))
      BY <2>2, <2>4 DEF Klend!total_supply_fraction_pre
    <2> QED
      BY <2>2, <2>3, <2>5 DEF Klend!total_supply_fraction, c, a
  <1> QED
    BY <1>0, <1>00

\* Marginfi: the copy is dormant, with the share values that were accrued.
LEMMA MarginfiAccruedOnce ==
    ASSUME NEW r, DOMAIN r = Marginfi!Fields, NEW t, Clock(t)
    PROVE  LET c == Marginfi!pre_accrue(r, t)
           IN  /\ DOMAIN c = Marginfi!Fields
               /\ c.operational_state = r.operational_state /\ c.config = r.config
               /\ c.asset_shares = r.asset_shares /\ c.liability_shares = r.liability_shares
               /\ Marginfi!AccrualFails(c, t) <=> Marginfi!AccrualFails(r, t)
               /\ Marginfi!accrue_share_values(c, t).asset
                    = Marginfi!accrue_share_values(r, t).asset
               /\ Marginfi!accrue_share_values(c, t).liability
                    = Marginfi!accrue_share_values(r, t).liability
  <1> DEFINE a == Marginfi!accrue_share_values(r, t)
             c == Marginfi!pre_accrue(r, t)
  <1>1. CASE Marginfi!AccrualFails(r, t)
    BY <1>1 DEF Marginfi!pre_accrue
  <1>2. CASE ~Marginfi!AccrualFails(r, t)
    <2>1. c = [[r EXCEPT !.asset_share_value = a.asset, !.liability_share_value = a.liability]
                 EXCEPT !.last_update = t.timestamp]
      BY <1>2 DEF Marginfi!pre_accrue, Marginfi!with_share_values
    <2>2. /\ DOMAIN c = Marginfi!Fields
          /\ c.operational_state = r.operational_state /\ c.config = r.config
          /\ c.asset_shares = r.asset_shares /\ c.liability_shares = r.liability_shares
          /\ c.asset_share_value = a.asset /\ c.liability_share_value = a.liability
          /\ c.last_update = t.timestamp
      <3> HIDE DEF a, c
      <3> QED
        BY <2>1 DEF Marginfi!Fields
    <2> HIDE DEF c
    <2>3. Marginfi!Dormant(c, t)
      BY <2>2 DEF Marginfi!Dormant, Clock
    <2> HIDE DEF a
    <2>4. Marginfi!accrue_share_values(c, t) = [asset |-> a.asset, liability |-> a.liability]
      BY <2>2, <2>3 DEF Marginfi!accrue_share_values
    <2>5. ~Marginfi!AccrualFails(c, t)
      BY <2>3 DEF Marginfi!AccrualFails
    <2> QED
      BY <1>2, <2>2, <2>4, <2>5 DEF c, a
  <1> QED
    BY <1>1, <1>2

\* A function with the domain of a sequence is a sequence as long.
LEMMA SameShape ==
    ASSUME NEW S, NEW s \in Seq(S), NEW T, NEW f \in [DOMAIN s -> T]
    PROVE  /\ f \in Seq({f[i] : i \in DOMAIN f})
           /\ Len(f) = Len(s)
           /\ f = <<>> <=> s = <<>>
  <1> DEFINE R == {f[i] : i \in DOMAIN f}
             n == Len(s)
  <1>1. n \in Nat /\ DOMAIN s = 1 .. n
    BY LenProperties
  <1>2. f \in [1 .. n -> R]
    BY <1>1
  <1> HIDE DEF n, R
  <1>3. f \in Seq(R) /\ Len(f) = n
    BY <1>1, <1>2
  <1>4. s = <<>> <=> n = 0
    BY EmptySeq, <1>1 DEF n
  <1>5. f = <<>> <=> n = 0
    BY EmptySeq, <1>1, <1>3
  <1> QED
    BY <1>3, <1>4, <1>5 DEF n, R

\* Save: quotes read only what accrual leaves alone, and the accrued supply.
LEMMA SaveQuotesSame ==
    ASSUME NEW r, DOMAIN r = Save!Fields, NEW t, Clock(t), NEW v, NEW a
    PROVE  /\ Save!quote_deposit(Save!pre_accrue(r, t), t, v, a) = Save!quote_deposit(r, t, v, a)
           /\ Save!quote_withdraw(Save!pre_accrue(r, t), t, v, a) = Save!quote_withdraw(r, t, v, a)
  <1> DEFINE c == Save!pre_accrue(r, t)
             w == Save!total_supply_wad(r, t)
  <1>1. /\ c.available = r.available /\ c.supply = r.supply /\ c.config = r.config
        /\ Save!total_supply_wad(c, t) = w
    BY SaveAccruedOnce
  <1> HIDE DEF c
  <1>2. Save!exchange_rate(c, w) = Save!exchange_rate(r, w)
    BY <1>1 DEF Save!exchange_rate
  <1> HIDE DEF w
  <1>3. Save!DepositChecks(c, w, v, a) = Save!DepositChecks(r, w, v, a)
    BY <1>1, <1>2 DEF Save!DepositChecks
  <1>4. Save!deposit_at_total(c, w, v, a) = Save!deposit_at_total(r, w, v, a)
    BY <1>2, <1>3 DEF Save!deposit_at_total
  <1>5. Save!withdraw_at_total(c, w, v, a) = Save!withdraw_at_total(r, w, v, a)
    BY <1>1, <1>2 DEF Save!withdraw_at_total, Save!Liquid
  <1> QED
    BY <1>1, <1>4, <1>5 DEF Save!quote_deposit, Save!quote_withdraw, c, w

\* Klend: the same, with the flags, the cap and the queue.
LEMMA KlendQuotesSame ==
    ASSUME NEW r, DOMAIN r = Klend!Fields, NEW t, Clock(t), NEW v, NEW a
    PROVE  /\ Klend!quote_deposit(Klend!pre_accrue(r, t), t, v, a) = Klend!quote_deposit(r, t, v, a)
           /\ Klend!quote_withdraw(Klend!pre_accrue(r, t), t, v, a)
                = Klend!quote_withdraw(r, t, v, a)
  <1> DEFINE c == Klend!pre_accrue(r, t)
             w == Klend!total_supply_fraction(r, t)
             x == Klend!exchange_rate(r, t)
  <1>1. /\ c.available = r.available /\ c.supply = r.supply /\ c.config = r.config
        /\ c.queued = r.queued /\ c.cap = r.cap /\ c.flags = r.flags
        /\ Klend!total_supply_fraction(c, t) = w
    BY KlendAccruedOnce
  <1> HIDE DEF c
  <1>2. Klend!exchange_rate(c, t) = x
    BY <1>1 DEF Klend!exchange_rate
  <1>3. /\ Klend!known_basis(c) = Klend!known_basis(r)
        /\ Klend!deposits_open(c) = Klend!deposits_open(r)
        /\ Klend!withdrawals_open(c) = Klend!withdrawals_open(r)
    BY <1>1 DEF Klend!known_basis, Klend!deposits_open, Klend!withdrawals_open
  <1> HIDE DEF w, x
  <1>4. Klend!deposit_at_rate(c, w, x, v, a) = Klend!deposit_at_rate(r, w, x, v, a)
    <2>1. ASSUME NEW k, NEW d
          PROVE  Klend!DepositChecks(c, w, v, a, k, d) = Klend!DepositChecks(r, w, v, a, k, d)
      BY <1>1, <1>3 DEF Klend!DepositChecks
    <2> QED
      BY <2>1 DEF Klend!deposit_at_rate
  <1>5. Klend!withdraw_at_rate(c, x, t, v, a) = Klend!withdraw_at_rate(r, x, t, v, a)
    BY <1>1, <1>3 DEF Klend!withdraw_at_rate, Klend!freely_available
  <1> QED
    BY <1>1, <1>2, <1>4, <1>5 DEF Klend!quote_deposit, Klend!quote_withdraw, c, w, x

\* Marginfi: the same, with the accrued share values.
LEMMA MarginfiQuotesSame ==
    ASSUME NEW r, DOMAIN r = Marginfi!Fields, NEW t, Clock(t), NEW v, NEW a
    PROVE  /\ Marginfi!quote_deposit(Marginfi!pre_accrue(r, t), t, v, a)
                = Marginfi!quote_deposit(r, t, v, a)
           /\ Marginfi!quote_withdraw(Marginfi!pre_accrue(r, t), t, v, a)
                = Marginfi!quote_withdraw(r, t, v, a)
  <1> DEFINE c == Marginfi!pre_accrue(r, t)
             y == Marginfi!accrue_share_values(r, t)
             z == Marginfi!accrue_share_values(c, t)
  <1>1. /\ c.operational_state = r.operational_state /\ c.config = r.config
        /\ c.asset_shares = r.asset_shares /\ c.liability_shares = r.liability_shares
        /\ Marginfi!AccrualFails(c, t) <=> Marginfi!AccrualFails(r, t)
        /\ z.asset = y.asset /\ z.liability = y.liability
    BY MarginfiAccruedOnce
  <1> HIDE DEF c, y, z
  <1>2. /\ Marginfi!deposits_open(c) = Marginfi!deposits_open(r)
        /\ Marginfi!withdrawals_open(c) = Marginfi!withdrawals_open(r)
    BY <1>1 DEF Marginfi!deposits_open, Marginfi!withdrawals_open
  <1>3. Marginfi!deposit_at_value(c, y.asset, v, a) = Marginfi!deposit_at_value(r, y.asset, v, a)
    BY <1>1 DEF Marginfi!deposit_at_value, Marginfi!BelowDepositLimit
  <1>4. ASSUME NEW k
        PROVE  Marginfi!withdraw_at_values(c, z, v, k) = Marginfi!withdraw_at_values(r, y, v, k)
    BY <1>1 DEF Marginfi!withdraw_at_values, Marginfi!Covered
  <1> QED
    BY <1>1, <1>2, <1>3, <1>4 DEF Marginfi!quote_deposit, Marginfi!quote_withdraw, c, y, z

\* The same of a Klend reserve that a Kamino vault has an allocation in.
LEMMA ReserveAccruedOnce ==
    ASSUME NEW r, DOMAIN r = Kvault!Fields, NEW t, Clock(t)
    PROVE  LET c == Kvault!pre_accrue(r, t)
           IN  /\ DOMAIN c = Kvault!Fields
               /\ Kvault!exchange_rate(c, t) = Kvault!exchange_rate(r, t)
  <1> DEFINE a == Kvault!accrue_interest(r, t)
             c == Kvault!pre_accrue(r, t)
  <1>1. CASE ~Kvault!known_basis(r)
    BY <1>1 DEF Kvault!pre_accrue
  <1>2. CASE Kvault!known_basis(r)
    <2>1. c = [[r EXCEPT !.borrowed = a.borrowed, !.fees = a.fees] EXCEPT
                 !.last_update_slot = t.slot, !.last_update_timestamp = t.timestamp]
      BY <1>2 DEF Kvault!pre_accrue, Kvault!with_accrual
    <2>2. /\ DOMAIN c = Kvault!Fields
          /\ c.available = r.available /\ c.supply = r.supply /\ c.config = r.config
          /\ c.referrer_fees = r.referrer_fees
          /\ c.borrowed = a.borrowed /\ c.fees = a.fees
          /\ c.last_update_slot = t.slot /\ c.last_update_timestamp = t.timestamp
      <3> HIDE DEF a, c
      <3> QED
        BY <2>1 DEF Kvault!Fields
    <2> HIDE DEF c
    <2>3. Kvault!accrue_interest(c, t) = [borrowed |-> a.borrowed, fees |-> a.fees]
      <3>1. Kvault!elapsed_units(c, t) = 0
        BY <2>2 DEF Kvault!elapsed_units, Kvault!saturating_sub, Clock
      <3> HIDE DEF a
      <3> QED
        BY <2>2, <3>1 DEF Kvault!accrue_interest
    <2> HIDE DEF a
    <2>4. ASSUME NEW b, NEW p, DOMAIN p = Kvault!Fields
          PROVE  /\ Kvault!with_accrual(p, b).available = p.available
                 /\ Kvault!with_accrual(p, b).referrer_fees = p.referrer_fees
                 /\ Kvault!with_accrual(p, b).borrowed = b.borrowed
                 /\ Kvault!with_accrual(p, b).fees = b.fees
      BY <2>4 DEF Kvault!with_accrual, Kvault!Fields
    <2>5. Kvault!total_supply_fraction_pre(
              Kvault!with_accrual(c, [borrowed |-> a.borrowed, fees |-> a.fees]))
            = Kvault!total_supply_fraction_pre(Kvault!with_accrual(r, a))
      BY <2>2, <2>4 DEF Kvault!total_supply_fraction_pre
    <2>6. Kvault!total_supply_fraction(c, t) = Kvault!total_supply_fraction(r, t)
      BY <2>3, <2>5 DEF Kvault!total_supply_fraction, a
    <2> QED
      BY <2>2, <2>6 DEF Kvault!exchange_rate, c
  <1> QED
    BY <1>1, <1>2

\* Kvault: accruing the reserves keeps what the vault holds in each and what that
\* is worth.
LEMMA ReservesAccruedOnce ==
    ASSUME NEW r, DOMAIN r = Kvault!KvaultFields, Kvault!AllocsTyped(r.allocs), NEW t, Clock(t)
    PROVE  LET c == Kvault!reserves_accrued(r, t)
           IN  /\ c = [r EXCEPT !.allocs = c.allocs]
               /\ Kvault!AllocsTyped(c.allocs)
               /\ Len(c.allocs) = Len(r.allocs) /\ (c.allocs = <<>> <=> r.allocs = <<>>)
               /\ Kvault!ctokens_held(c) = Kvault!ctokens_held(r)
               /\ Kvault!reserve_rates(c, t) = Kvault!reserve_rates(r, t)
               /\ DOMAIN c.allocs = DOMAIN r.allocs
               /\ \A i \in DOMAIN r.allocs :
                    c.allocs[i].weight = r.allocs[i].weight /\ c.allocs[i].cap = r.allocs[i].cap
  <1> DEFINE s == r.allocs
             acc(i) == [s[i] EXCEPT !.reserve = Kvault!pre_accrue(s[i].reserve, t)]
             f == [i \in DOMAIN s |-> acc(i)]
             c == Kvault!reserves_accrued(r, t)
  <1>1. c = [r EXCEPT !.allocs = f]
    BY DEF Kvault!reserves_accrued
  <1>2. c.allocs = f
    <2> HIDE DEF c, f
    <2> QED
      BY <1>1 DEF Kvault!KvaultFields
  <1>3. ASSUME NEW i \in DOMAIN s
        PROVE  /\ DOMAIN acc(i) = {"weight", "cap", "ctokens", "reserve"}
               /\ DOMAIN acc(i).reserve = Kvault!Fields
               /\ acc(i).weight = s[i].weight /\ acc(i).cap = s[i].cap
               /\ acc(i).ctokens = s[i].ctokens
               /\ Kvault!exchange_rate(acc(i).reserve, t) = Kvault!exchange_rate(s[i].reserve, t)
    <2> DEFINE q == Kvault!pre_accrue(s[i].reserve, t)
    <2>1. /\ DOMAIN s[i] = {"weight", "cap", "ctokens", "reserve"}
          /\ DOMAIN s[i].reserve = Kvault!Fields
      BY DEF Kvault!AllocsTyped
    <2>2. /\ DOMAIN q = Kvault!Fields
          /\ Kvault!exchange_rate(q, t) = Kvault!exchange_rate(s[i].reserve, t)
      BY <2>1, ReserveAccruedOnce
    <2> HIDE DEF q, s
    <2>3. /\ DOMAIN [s[i] EXCEPT !.reserve = q] = {"weight", "cap", "ctokens", "reserve"}
          /\ [s[i] EXCEPT !.reserve = q].weight = s[i].weight
          /\ [s[i] EXCEPT !.reserve = q].cap = s[i].cap
          /\ [s[i] EXCEPT !.reserve = q].ctokens = s[i].ctokens
          /\ [s[i] EXCEPT !.reserve = q].reserve = q
      BY <2>1
    <2> QED
      BY <2>2, <2>3 DEF q
  <1>4. /\ f \in Seq({f[i] : i \in DOMAIN f}) /\ Len(f) = Len(s) /\ (f = <<>> <=> s = <<>>)
    <2>1. s \in Seq({s[i] : i \in DOMAIN s})
      BY DEF Kvault!AllocsTyped
    <2>2. f \in [DOMAIN s -> {acc(i) : i \in DOMAIN s}]
      <3> HIDE DEF acc, s
      <3> QED
        OBVIOUS
    <2> HIDE DEF f, s
    <2> QED
      BY <2>1, <2>2, SameShape
  <1> HIDE DEF acc
  <1>5. DOMAIN f = DOMAIN s /\ \A i \in DOMAIN s : f[i] = acc(i)
    OBVIOUS
  <1> HIDE DEF f, c
  <1>6. Kvault!AllocsTyped(f)
    BY <1>3, <1>4, <1>5 DEF Kvault!AllocsTyped
  <1>7. Kvault!ctokens_held(c) = Kvault!ctokens_held(r)
    BY <1>2, <1>3, <1>5 DEF Kvault!ctokens_held
  <1>8. Kvault!reserve_rates(c, t) = Kvault!reserve_rates(r, t)
    BY <1>2, <1>3, <1>5 DEF Kvault!reserve_rates
  <1> QED
    BY <1>1, <1>2, <1>3, <1>4, <1>5, <1>6, <1>7, <1>8 DEF c

\* What quotes read of a Kamino vault, apart from the assets that were cached.
QuotesReadSame(c, r, t) ==
    /\ \A f \in Kvault!KvaultFields \ {"allocs", "cached_aum"} : c[f] = r[f]
    /\ Len(c.allocs) = Len(r.allocs) /\ (c.allocs = <<>> <=> r.allocs = <<>>)
    /\ Kvault!ctokens_held(c) = Kvault!ctokens_held(r)
    /\ Kvault!reserve_rates(c, t) = Kvault!reserve_rates(r, t)
    /\ DOMAIN c.allocs = DOMAIN r.allocs
    /\ \A i \in DOMAIN r.allocs :
          c.allocs[i].weight = r.allocs[i].weight /\ c.allocs[i].cap = r.allocs[i].cap

\* Two vaults of which quotes read the same have the same assets ...
LEMMA SameAssets ==
    ASSUME NEW c, NEW r, NEW t, QuotesReadSame(c, r, t)
    PROVE  Kvault!compute_current_aum(c, t) = Kvault!compute_current_aum(r, t)
  <1>1. /\ c.available = r.available /\ c.pending_fees = r.pending_fees
        /\ c.prev_aum = r.prev_aum /\ c.missing = r.missing
        /\ c.last_fee_charge_timestamp = r.last_fee_charge_timestamp
        /\ c.management_fee_bps = r.management_fee_bps
        /\ c.performance_fee_bps = r.performance_fee_bps
    BY DEF QuotesReadSame, Kvault!KvaultFields
  <1>2. Kvault!invested_total(c, t) = Kvault!invested_total(r, t)
    BY DEF QuotesReadSame, Kvault!invested_total
  <1>3. Kvault!holdings_total(c, t) = Kvault!holdings_total(r, t)
    BY <1>1, <1>2 DEF Kvault!holdings_total
  <1> DEFINE h == Kvault!holdings_total(r, t)
  <1> HIDE DEF h
  <1>4. Kvault!charged_pending_fees(c, t, h) = Kvault!charged_pending_fees(r, t, h)
    BY <1>1 DEF Kvault!charged_pending_fees
  <1>5. Kvault!reserve_not_cached(c) = Kvault!reserve_not_cached(r)
    BY <1>1 DEF QuotesReadSame, Kvault!reserve_not_cached
  <1>6. Kvault!aum_after_fees(c, t, h) = Kvault!aum_after_fees(r, t, h)
    BY <1>4, <1>5 DEF Kvault!aum_after_fees, Kvault!aum_of
  <1> QED
    BY <1>3, <1>6 DEF Kvault!compute_current_aum, h

\* ... and, if their current assets are the same, the same quotes.
LEMMA SameQuotes ==
    ASSUME NEW c, NEW r, NEW t, QuotesReadSame(c, r, t), NEW v, NEW a,
           Kvault!current_aum(c, t) = Kvault!current_aum(r, t)
    PROVE  /\ Kvault!kvault_quote_deposit(c, t, v, a) = Kvault!kvault_quote_deposit(r, t, v, a)
           /\ Kvault!kvault_quote_withdraw(c, t, v, a) = Kvault!kvault_quote_withdraw(r, t, v, a)
  <1>1. /\ c.available = r.available /\ c.shares_issued = r.shares_issued
        /\ c.farm = r.farm /\ c.deposit_cap = r.deposit_cap
        /\ c.min_deposit_amount = r.min_deposit_amount
        /\ c.min_withdraw_amount = r.min_withdraw_amount
        /\ c.crank_fund_fee_per_reserve = r.crank_fund_fee_per_reserve
        /\ c.penalty_bps = r.penalty_bps /\ c.penalty_lamports = r.penalty_lamports
        /\ c.global_penalty_bps = r.global_penalty_bps
        /\ c.global_penalty_lamports = r.global_penalty_lamports
    BY DEF QuotesReadSame, Kvault!KvaultFields
  <1>2. Kvault!position_kvault_shares(c, v) = Kvault!position_kvault_shares(r, v)
    BY <1>1 DEF Kvault!position_kvault_shares
  <1>3. Kvault!crank_funds(c) = Kvault!crank_funds(r)
    <2> DEFINE pays(p) == [i \in DOMAIN p.allocs |->
                             IF p.allocs[i].weight > 0 /\ p.allocs[i].cap > 0 THEN 1 ELSE 0]
    <2>1. pays(c) = pays(r)
      BY DEF QuotesReadSame
    <2>2. \A p : Kvault!crank_funds(p)
                   = Kvault!sum_to(pays(p), Len(p.allocs)) * p.crank_fund_fee_per_reserve
      BY DEF Kvault!crank_funds
    <2> HIDE DEF pays
    <2> QED
      BY <1>1, <2>1, <2>2 DEF QuotesReadSame
  <1>4. Kvault!cached_max_deposit(c, t) = Kvault!cached_max_deposit(r, t)
    BY <1>1, SameAssets DEF Kvault!cached_max_deposit, Kvault!protocol_cap
  <1> DEFINE u == Kvault!current_aum(r, t)
  <1> HIDE DEF u
  <1>5. ASSUME NEW m
        PROVE  Kvault!deposit_at_aum(c, u, t, v, a, m) = Kvault!deposit_at_aum(r, u, t, v, a, m)
    BY <1>1, <1>2, <1>4 DEF Kvault!deposit_at_aum
  <1>6. ASSUME NEW k
        PROVE  Kvault!disinvest_primary(c, t, k) = Kvault!disinvest_primary(r, t, k)
    BY DEF Kvault!disinvest_primary, Kvault!primary, QuotesReadSame
  <1>7. ASSUME NEW k
        PROVE  Kvault!final_for_user(c, t, k) = Kvault!final_for_user(r, t, k)
    BY <1>1, <1>6 DEF Kvault!final_for_user, Kvault!available_to_send
  <1>8. ASSUME NEW k, NEW n
        PROVE  Kvault!pay_for_user(c, t, v, k, n) = Kvault!pay_for_user(r, t, v, k, n)
    <2>1. ASSUME NEW m
          PROVE  Kvault!pay_out(c, v, k, n, m) = Kvault!pay_out(r, v, k, n, m)
      BY <1>1, <1>2 DEF Kvault!pay_out
    <2> QED
      BY <1>1, <1>7, <2>1 DEF Kvault!pay_for_user, QuotesReadSame
  <1>9. /\ Kvault!kvault_shares_to_redeem(c, v, a) = Kvault!kvault_shares_to_redeem(r, v, a)
        /\ \A k : Kvault!withdrawal_penalty(c, k) = Kvault!withdrawal_penalty(r, k)
        /\ \A k : Kvault!total_with_penalty(c, u, k) = Kvault!total_with_penalty(r, u, k)
    BY <1>1, <1>2 DEF Kvault!kvault_shares_to_redeem, Kvault!withdrawal_penalty,
                      Kvault!total_with_penalty
  <1>10. Kvault!withdraw_at_aum(c, u, t, v, a) = Kvault!withdraw_at_aum(r, u, t, v, a)
    BY <1>1, <1>2, <1>8, <1>9 DEF Kvault!withdraw_at_aum
  <1> QED
    BY <1>3, <1>5, <1>10 DEF Kvault!kvault_quote_deposit, Kvault!kvault_quote_withdraw, u

\* Kvault: a copy with accrued reserves and cached assets quotes the same.
LEMMA KvaultQuotesSame ==
    ASSUME NEW r, DOMAIN r = Kvault!KvaultFields, Kvault!AllocsTyped(r.allocs),
           r.cached_aum = Kvault!None, NEW t, Clock(t), NEW v, NEW a
    PROVE  LET c == Kvault!pre_accrue_kvault(r, t)
           IN  /\ Kvault!kvault_quote_deposit(c, t, v, a) = Kvault!kvault_quote_deposit(r, t, v, a)
               /\ Kvault!kvault_quote_withdraw(c, t, v, a) = Kvault!kvault_quote_withdraw(r, t, v, a)
  <1> DEFINE b == Kvault!reserves_accrued(r, t)
             u == Kvault!compute_current_aum(r, t)
             c == Kvault!pre_accrue_kvault(r, t)
  <1>1. /\ b = [r EXCEPT !.allocs = b.allocs]
        /\ Len(b.allocs) = Len(r.allocs) /\ (b.allocs = <<>> <=> r.allocs = <<>>)
        /\ Kvault!ctokens_held(b) = Kvault!ctokens_held(r)
        /\ Kvault!reserve_rates(b, t) = Kvault!reserve_rates(r, t)
        /\ DOMAIN b.allocs = DOMAIN r.allocs
        /\ \A i \in DOMAIN r.allocs :
              b.allocs[i].weight = r.allocs[i].weight /\ b.allocs[i].cap = r.allocs[i].cap
    BY ReservesAccruedOnce
  <1> HIDE DEF b
  <1>2. QuotesReadSame(b, r, t) /\ DOMAIN b = Kvault!KvaultFields
    BY <1>1 DEF QuotesReadSame
  <1>3. c = [b EXCEPT !.cached_aum = u]
    BY <1>2, SameAssets DEF Kvault!pre_accrue_kvault, Kvault!with_cached_aum, b
  <1> HIDE DEF c, u
  <1>4. /\ c.allocs = b.allocs /\ c.cached_aum = u
        /\ \A f \in Kvault!KvaultFields \ {"allocs", "cached_aum"} : c[f] = b[f]
    BY <1>2, <1>3 DEF Kvault!KvaultFields
  <1>5. /\ Kvault!ctokens_held(c) = Kvault!ctokens_held(b)
        /\ Kvault!reserve_rates(c, t) = Kvault!reserve_rates(b, t)
    BY <1>4 DEF Kvault!ctokens_held, Kvault!reserve_rates
  <1>6. QuotesReadSame(c, r, t)
    BY <1>2, <1>4, <1>5 DEF QuotesReadSame
  <1>7. Kvault!current_aum(c, t) = Kvault!current_aum(r, t)
    BY <1>4, <1>6, SameAssets DEF Kvault!current_aum, u
  <1> QED
    BY <1>6, <1>7, SameQuotes DEF c

\* A source keeps its fields, and the account of a Kamino vault caches no assets.
SourceInv ==
    /\ Clock(now)
    /\ source \in Sources /\ DOMAIN pool = Fields(source)
    /\ source = "Kvault" => Kvault!AllocsTyped(pool.allocs) /\ pool.cached_aum = Kvault!None

\* Changing an allocation leaves allocations.
LEMMA AllocsExcept ==
    ASSUME NEW s, Kvault!AllocsTyped(s), NEW i, NEW e,
           i \in DOMAIN s => /\ DOMAIN e = {"weight", "cap", "ctokens", "reserve"}
                             /\ DOMAIN e.reserve = Kvault!Fields
    PROVE  Kvault!AllocsTyped([s EXCEPT ![i] = e])
  <1> DEFINE f == [s EXCEPT ![i] = e]
  <1>1. DOMAIN f = DOMAIN s /\ \A j \in DOMAIN s : f[j] = IF j = i THEN e ELSE s[j]
    OBVIOUS
  <1>2. f \in [DOMAIN s -> {f[j] : j \in DOMAIN s}]
    OBVIOUS
  <1> HIDE DEF f
  <1>3. s \in Seq({s[j] : j \in DOMAIN s})
    BY DEF Kvault!AllocsTyped
  <1>4. f \in Seq({f[j] : j \in DOMAIN f})
    BY <1>2, <1>3, SameShape
  <1>5. \A j \in DOMAIN f : /\ DOMAIN f[j] = {"weight", "cap", "ctokens", "reserve"}
                            /\ DOMAIN f[j].reserve = Kvault!Fields
    BY <1>1 DEF Kvault!AllocsTyped
  <1>6. Kvault!AllocsTyped(f)
    BY <1>4, <1>5 DEF Kvault!AllocsTyped
  <1> QED
    BY <1>6 DEF f

\* What a Kamino vault does keeps its fields.
LEMMA KvaultKept ==
    ASSUME NEW r, DOMAIN r = Kvault!KvaultFields, Kvault!AllocsTyped(r.allocs),
           r.cached_aum = Kvault!None, NEW t, Clock(t), NEW v, NEW q, NEW n
    PROVE  \A c \in {Kvault!reserves_accrued(r, t), Kvault!KvaultDeposited(r, t, v, q),
                     Kvault!KvaultWithdrawn(r, t, v, q), Kvault!Invested(r, t, n)} :
               /\ DOMAIN c = Kvault!KvaultFields
               /\ Kvault!AllocsTyped(c.allocs) /\ c.cached_aum = Kvault!None
  <1> DEFINE Ok(c) == /\ DOMAIN c = Kvault!KvaultFields
                      /\ Kvault!AllocsTyped(c.allocs) /\ c.cached_aum = Kvault!None
  <1>1. Ok(Kvault!reserves_accrued(r, t))
    <2> DEFINE b == Kvault!reserves_accrued(r, t)
    <2>1. b = [r EXCEPT !.allocs = b.allocs] /\ Kvault!AllocsTyped(b.allocs)
      BY ReservesAccruedOnce
    <2> HIDE DEF b
    <2>2. Ok(b)
      BY <2>1 DEF Kvault!KvaultFields
    <2> QED
      BY <2>2 DEF b
  <1>2. ASSUME NEW c, Ok(c)
        PROVE  Ok(Kvault!Charged(c, t)) /\ Ok(Kvault!Settled(c, t))
    BY <1>2 DEF Kvault!Charged, Kvault!Settled, Kvault!KvaultFields
  <1>3. ASSUME NEW c, Ok(c), NEW x, NEW y, NEW z
        PROVE  Ok([c EXCEPT !.available = x, !.shares_issued = y, !.farm = z])
    BY <1>3 DEF Kvault!KvaultFields
  <1>4. ASSUME NEW c, Ok(c), NEW i, NEW e, NEW x,
               i \in DOMAIN c.allocs => /\ DOMAIN e = {"weight", "cap", "ctokens", "reserve"}
                                        /\ DOMAIN e.reserve = Kvault!Fields
        PROVE  Ok([c EXCEPT !.available = x, !.allocs[i] = e])
    <2> DEFINE f == [c.allocs EXCEPT ![i] = e]
    <2>1. Kvault!AllocsTyped(f)
      BY <1>4, AllocsExcept
    <2>2. [c EXCEPT !.available = x, !.allocs[i] = e] = [c EXCEPT !.available = x, !.allocs = f]
      BY <1>4 DEF Kvault!KvaultFields
    <2> HIDE DEF f
    <2> QED
      BY <1>4, <2>1, <2>2 DEF Kvault!KvaultFields
  <1> HIDE DEF Ok
  <1>5. Ok(r)
    BY DEF Ok
  <1>6. Ok(Kvault!KvaultDeposited(r, t, v, q))
    BY <1>2, <1>3, <1>5 DEF Kvault!KvaultDeposited
  <1>7. ASSUME NEW c, Ok(c), NEW k
        PROVE  Ok(Kvault!Disinvested(c, t, k))
    <2> DEFINE i == Kvault!primary(c)
               p == Kvault!pre_accrue(c.allocs[i].reserve, t)
               x == Kvault!collateral_to_liquidity(k, Kvault!exchange_rate(p, t))
               e == [c.allocs[i] EXCEPT
                        !.ctokens = @ - k,
                        !.reserve = [p EXCEPT !.available = @ - x, !.supply = @ - k]]
    <2>1. k # 0 => Kvault!Disinvested(c, t, k) = [c EXCEPT !.available = @ + x, !.allocs[i] = e]
      <3>1. k # 0 => Kvault!Disinvested(c, t, k) = Kvault!Redeemed(c, i, p, k, x)
        BY DEF Kvault!Disinvested, Kvault!RedeemedAt
      <3> HIDE DEF i, p, x
      <3>2. Kvault!Redeemed(c, i, p, k, x) = [c EXCEPT !.available = @ + x, !.allocs[i] = e]
        BY DEF Kvault!Redeemed, Kvault!AllocRedeemed
      <3> QED
        BY <3>1, <3>2
    <2>2. i \in DOMAIN c.allocs => /\ DOMAIN e = {"weight", "cap", "ctokens", "reserve"}
                                   /\ DOMAIN e.reserve = Kvault!Fields
      <3> SUFFICES ASSUME i \in DOMAIN c.allocs
                   PROVE  /\ DOMAIN e = {"weight", "cap", "ctokens", "reserve"}
                          /\ DOMAIN e.reserve = Kvault!Fields
        OBVIOUS
      <3>1. /\ DOMAIN c.allocs[i] = {"weight", "cap", "ctokens", "reserve"}
            /\ DOMAIN c.allocs[i].reserve = Kvault!Fields
        BY <1>7 DEF Ok, Kvault!AllocsTyped
      <3>2. DOMAIN p = Kvault!Fields
        BY <3>1, ReserveAccruedOnce
      <3> HIDE DEF i, p, x
      <3> QED
        BY <3>1, <3>2
    <2> HIDE DEF i, e, x
    <2>3. Ok([c EXCEPT !.available = @ + x, !.allocs[i] = e])
      BY <1>4, <1>7, <2>2
    <2>4. k = 0 => Kvault!Disinvested(c, t, k) = c
      BY DEF Kvault!Disinvested
    <2> QED
      BY <1>7, <2>1, <2>3, <2>4
  <1>8. Ok(Kvault!KvaultWithdrawn(r, t, v, q))
    BY <1>2, <1>3, <1>5, <1>7 DEF Kvault!KvaultWithdrawn
  <1>9. Ok(Kvault!Invested(r, t, n))
    <2> DEFINE p == Kvault!pre_accrue(r.allocs[1].reserve, t)
               k == Kvault!liquidity_to_collateral(n, Kvault!exchange_rate(p, t))
               g == [p EXCEPT !.available = @ + n, !.supply = @ + k]
               e == [[r.allocs[1] EXCEPT !.ctokens = @ + k] EXCEPT !.reserve = g]
    <2>1. Kvault!Invested(r, t, n)
            = [r EXCEPT !.available = @ - n, !.allocs[1].ctokens = @ + k, !.allocs[1].reserve = g]
      BY DEF Kvault!Invested, Kvault!InvestedAt, Kvault!InvestedFor
    <2>2. [r EXCEPT !.available = @ - n, !.allocs[1].ctokens = @ + k, !.allocs[1].reserve = g]
            = [r EXCEPT !.available = @ - n, !.allocs[1] = e]
      <3> HIDE DEF p, k, g
      <3> QED
        BY DEF Kvault!KvaultFields
    <2>3. 1 \in DOMAIN r.allocs => /\ DOMAIN e = {"weight", "cap", "ctokens", "reserve"}
                                   /\ DOMAIN e.reserve = Kvault!Fields
      <3> SUFFICES ASSUME 1 \in DOMAIN r.allocs
                   PROVE  /\ DOMAIN e = {"weight", "cap", "ctokens", "reserve"}
                          /\ DOMAIN e.reserve = Kvault!Fields
        OBVIOUS
      <3>1. /\ DOMAIN r.allocs[1] = {"weight", "cap", "ctokens", "reserve"}
            /\ DOMAIN r.allocs[1].reserve = Kvault!Fields
        BY DEF Kvault!AllocsTyped
      <3>2. DOMAIN p = Kvault!Fields
        BY <3>1, ReserveAccruedOnce
      <3> HIDE DEF p, k
      <3> QED
        BY <3>1, <3>2
    <2> HIDE DEF e, g
    <2>4. Ok([r EXCEPT !.available = @ - n, !.allocs[1] = e])
      BY <1>4, <1>5, <2>3
    <2> QED
      BY <2>1, <2>2, <2>4
  <1> QED
    BY <1>1, <1>6, <1>8, <1>9 DEF Ok

\* What the other sources do keeps their fields.
LEMMA FieldsKept ==
    ASSUME NEW r, NEW t, Clock(t), NEW v, NEW q, NEW n
    PROVE  /\ DOMAIN r = Save!Fields =>
                \A c \in {Save!pre_accrue(r, t), Save!Deposited(r, t, v, q),
                          Save!Withdrawn(r, t, v, q), Save!Lent(r, t, n)} : DOMAIN c = Save!Fields
           /\ DOMAIN r = Klend!Fields =>
                \A c \in {Klend!pre_accrue(r, t), Klend!Deposited(r, t, v, q),
                          Klend!Withdrawn(r, t, v, q), Klend!Lent(r, t, n)} : DOMAIN c = Klend!Fields
           /\ DOMAIN r = Marginfi!Fields =>
                \A c \in {Marginfi!pre_accrue(r, t), Marginfi!Deposited(r, t, v, q),
                          Marginfi!Withdrawn(r, t, v, q), Marginfi!Lent(r, t, n)} :
                    DOMAIN c = Marginfi!Fields
           /\ DOMAIN r = Lulo!Fields =>
                \A c \in {Lulo!Deposited(r, t, v, q), Lulo!Withdrawn(r, t, v, q),
                          Lulo!Earned(r, n)} : DOMAIN c = Lulo!Fields
  <1>1. ASSUME DOMAIN r = Save!Fields
        PROVE  \A c \in {Save!pre_accrue(r, t), Save!Deposited(r, t, v, q),
                         Save!Withdrawn(r, t, v, q), Save!Lent(r, t, n)} : DOMAIN c = Save!Fields
    <2>1. DOMAIN Save!pre_accrue(r, t) = Save!Fields
      BY <1>1, SaveAccruedOnce
    <2> QED
      BY <2>1 DEF Save!Deposited, Save!Withdrawn, Save!Lent
  <1>2. ASSUME DOMAIN r = Klend!Fields
        PROVE  \A c \in {Klend!pre_accrue(r, t), Klend!Deposited(r, t, v, q),
                         Klend!Withdrawn(r, t, v, q), Klend!Lent(r, t, n)} : DOMAIN c = Klend!Fields
    <2>1. DOMAIN Klend!pre_accrue(r, t) = Klend!Fields
      BY <1>2, KlendAccruedOnce
    <2> QED
      BY <2>1 DEF Klend!Deposited, Klend!Withdrawn, Klend!Lent
  <1>3. ASSUME DOMAIN r = Marginfi!Fields
        PROVE  \A c \in {Marginfi!pre_accrue(r, t), Marginfi!Deposited(r, t, v, q),
                         Marginfi!Withdrawn(r, t, v, q), Marginfi!Lent(r, t, n)} :
                   DOMAIN c = Marginfi!Fields
    <2>1. DOMAIN Marginfi!pre_accrue(r, t) = Marginfi!Fields
      BY <1>3, MarginfiAccruedOnce
    <2> QED
      BY <2>1 DEF Marginfi!Deposited, Marginfi!Withdrawn, Marginfi!Lent, Marginfi!Borrowed
  <1>4. ASSUME DOMAIN r = Lulo!Fields
        PROVE  \A c \in {Lulo!Deposited(r, t, v, q), Lulo!Withdrawn(r, t, v, q),
                         Lulo!Earned(r, n)} : DOMAIN c = Lulo!Fields
    BY <1>4 DEF Lulo!Deposited, Lulo!Withdrawn, Lulo!Earned
  <1> QED
    BY <1>1, <1>2, <1>3, <1>4

\* Every step keeps the fields.
LEMMA SourceInvStep == SourceInv /\ [Next]_vars => SourceInv'
  <1> SUFFICES ASSUME SourceInv, [Next]_vars
               PROVE  SourceInv'
    OBVIOUS
  <1>0. source \in {"Save", "Klend", "Marginfi", "Kvault", "Lulo"}
    BY SourcesAssumption DEF SourceInv
  <1>1. CASE Tick
    <2>1. Clock(now')
      BY <1>1, TicksAssumption DEF Tick, SourceInv, Clock
    <2> QED
      BY <1>1, <2>1 DEF Tick, SourceInv
  <1>2. ASSUME UNCHANGED <<source, now>>, NEW c, pool' = c, DOMAIN c = Fields(source),
               source = "Kvault" => Kvault!AllocsTyped(c.allocs) /\ c.cached_aum = Kvault!None
        PROVE  SourceInv'
    BY <1>2 DEF SourceInv
  <1>3. CASE Refresh
    <2> DEFINE c == IF source = "Kvault" THEN Kvault!reserves_accrued(pool, now) ELSE pre_accrue(pool)
    <2>1. /\ DOMAIN c = Fields(source)
          /\ source = "Kvault" => Kvault!AllocsTyped(c.allocs) /\ c.cached_aum = Kvault!None
      BY <1>0, FieldsKept, KvaultKept DEF SourceInv, Fields, pre_accrue
    <2> HIDE DEF c
    <2> QED
      BY <1>2, <1>3, <2>1 DEF Refresh, c
  <1>4. ASSUME NEW amount \in Loans[source], Lend(amount)
        PROVE  SourceInv'
    <2> DEFINE c == Lent(pool, amount)
    <2>1. /\ DOMAIN c = Fields(source)
          /\ source = "Kvault" => Kvault!AllocsTyped(c.allocs) /\ c.cached_aum = Kvault!None
      BY <1>0, FieldsKept, KvaultKept DEF SourceInv, Fields, Lent
    <2> HIDE DEF c
    <2> QED
      BY <1>2, <1>4, <2>1 DEF Lend, c
  <1>5. CASE Switch
    <2>1. PICK change \in Switches[source] :
             pool' = [f \in DOMAIN pool |-> IF f \in DOMAIN change THEN change[f] ELSE pool[f]]
      BY <1>5 DEF Switch
    <2>2. DOMAIN pool' = Fields(source)
      BY <2>1 DEF SourceInv
    <2>3. source = "Kvault" => pool'.allocs = pool.allocs /\ pool'.cached_aum = pool.cached_aum
      BY <2>1, KvaultAssumption DEF SourceInv, Fields, Kvault!KvaultFields
    <2> QED
      BY <1>2, <1>5, <2>2, <2>3 DEF Switch, SourceInv
  <1>6. ASSUME NEW amount \in Amounts, Deposit(amount)
        PROVE  SourceInv'
    <2>1. PICK q : pool' = Deposited(pool, wv, q)
      BY <1>6 DEF Deposit
    <2> DEFINE c == Deposited(pool, wv, q)
    <2>2. /\ DOMAIN c = Fields(source)
          /\ source = "Kvault" => Kvault!AllocsTyped(c.allocs) /\ c.cached_aum = Kvault!None
      BY <1>0, FieldsKept, KvaultKept DEF SourceInv, Fields, Deposited
    <2> HIDE DEF c
    <2> QED
      BY <1>2, <1>6, <2>1, <2>2 DEF Deposit, c
  <1>7. ASSUME NEW amount \in Amounts, Withdraw(amount)
        PROVE  SourceInv'
    <2>1. PICK q : pool' = Withdrawn(pool, wv, q)
      BY <1>7 DEF Withdraw
    <2> DEFINE c == Withdrawn(pool, wv, q)
    <2>2. /\ DOMAIN c = Fields(source)
          /\ source = "Kvault" => Kvault!AllocsTyped(c.allocs) /\ c.cached_aum = Kvault!None
      BY <1>0, FieldsKept, KvaultKept DEF SourceInv, Fields, Withdrawn
    <2> HIDE DEF c
    <2> QED
      BY <1>2, <1>7, <2>1, <2>2 DEF Withdraw, c
  <1>9. ASSUME NEW amount \in Loans[source], Credit(amount)
        PROVE  SourceInv'
    <2> DEFINE c == [pool EXCEPT !.farm.idle = @ + amount]
    <2>1. /\ DOMAIN c = Fields(source)
          /\ source = "Kvault" => Kvault!AllocsTyped(c.allocs) /\ c.cached_aum = Kvault!None
      BY DEF SourceInv, Fields, Kvault!KvaultFields
    <2> HIDE DEF c
    <2> QED
      BY <1>2, <1>9, <2>1 DEF Credit, c
  <1>8. CASE UNCHANGED vars
    BY <1>8 DEF vars, SourceInv
  <1> QED
    BY <1>1, <1>3, <1>4, <1>5, <1>6, <1>7, <1>8, <1>9 DEF Next

\* The pools of the instance have their fields at the start.
LEMMA SourceInvInit == Init => SourceInv
  <1> SUFFICES ASSUME Init PROVE SourceInv
    OBVIOUS
  <1>1. source \in Sources /\ DOMAIN pool = Fields(source)
    BY PoolsAssumption DEF Init
  <1>2. Clock(now)
    BY DEF Init, Clock
  <1> QED
    BY <1>1, <1>2, KvaultAssumption DEF Init, SourceInv

\* A venue that accrued its copy at its update quotes what the raw account gives,
\* for every source, at every time and after every sequence of trades.
THEOREM PreAccrueSameHolds == Spec => []PreAccrueSame
  <1>1. SourceInv => PreAccrueSame
    <2> SUFFICES ASSUME SourceInv, NEW amount \in Amounts
                 PROVE  LET c == pre_accrue(pool)
                        IN  /\ quote_deposit(c, wv, amount) = quote_deposit(pool, wv, amount)
                            /\ quote_withdraw(c, wv, amount) = quote_withdraw(pool, wv, amount)
      BY DEF PreAccrueSame
    <2> DEFINE c == pre_accrue(pool)
               net == net_amount(amount)
    <2>0. Clock(now) /\ source \in {"Save", "Klend", "Marginfi", "Kvault", "Lulo"}
      BY SourcesAssumption DEF SourceInv
    <2> HIDE DEF net
    <2>1. /\ source_quote_deposit(c, wv, net) = source_quote_deposit(pool, wv, net)
          /\ source_quote_withdraw(c, wv, amount) = source_quote_withdraw(pool, wv, amount)
      <3>1. CASE source = "Save"
        BY <2>0, <3>1, SaveQuotesSame
           DEF source_quote_deposit, source_quote_withdraw, pre_accrue, SourceInv, Fields
      <3>2. CASE source = "Klend"
        BY <2>0, <3>2, KlendQuotesSame
           DEF source_quote_deposit, source_quote_withdraw, pre_accrue, SourceInv, Fields
      <3>3. CASE source = "Marginfi"
        BY <2>0, <3>3, MarginfiQuotesSame
           DEF source_quote_deposit, source_quote_withdraw, pre_accrue, SourceInv, Fields
      <3>4. CASE source = "Kvault"
        BY <2>0, <3>4, KvaultQuotesSame
           DEF source_quote_deposit, source_quote_withdraw, pre_accrue, SourceInv, Fields
      <3>5. CASE source = "Lulo"
        BY <3>5 DEF pre_accrue
      <3> QED
        BY <2>0, <3>1, <3>2, <3>3, <3>4, <3>5
    <2> HIDE DEF c
    <2> QED
      BY <2>1 DEF quote_deposit, quote_withdraw, c, net
  <1> QED
    BY <1>1, SourceInvInit, SourceInvStep, PTL DEF Spec

-----------------------------------------------------------------------------
(* Klend: debts compound, and a reserve stays solvent                       *)

\* Products are monotone.
LEMMA ProductMonotone ==
    ASSUME NEW a \in Nat, NEW b \in Nat, NEW c \in Nat, NEW d \in Nat, a <= b, c <= d
    PROVE  a * c \in Nat /\ b * d \in Nat /\ a * c <= b * d
  <1>1. a * c \in Nat /\ b * c \in Nat /\ b * d \in Nat
    BY SMT
  <1>2. a * c <= b * c
    BY SMT
  <1>3. b * c <= b * d
    BY SMT
  <1> DEFINE x == a * c
             y == b * c
             z == b * d
  <1> HIDE DEF x, y, z
  <1>4. x <= y /\ y <= z /\ x \in Nat /\ y \in Nat /\ z \in Nat
    BY <1>1, <1>2, <1>3 DEF x, y, z
  <1>5. x <= z
    BY <1>4
  <1> QED
    BY <1>4, <1>5 DEF x, z

\* Rounding down is monotone.
LEMMA FloorMonotone ==
    ASSUME NEW a \in Nat, NEW b \in Nat, NEW d \in Nat \ {0}, a <= b
    PROVE  a \div d \in Nat /\ b \div d \in Nat /\ a \div d <= b \div d
  <1> DEFINE q == a \div d
  <1>1. q \in Nat /\ d * q <= a
    BY FloorBelow
  <1>2. b \div d \in Nat
    BY FloorBelow
  <1> HIDE DEF q
  <1>3. d * q \in Nat
    BY <1>1, SMT
  <1>4. d * q <= b
    BY <1>1, <1>3
  <1>5. q <= b \div d
    BY <1>1, <1>4, FloorAbove
  <1> QED
    BY <1>1, <1>2, <1>5 DEF q

\* Klend: the product of two fractions is a fraction and monotone; one is neutral.
LEMMA FracMul ==
    ASSUME NEW x \in Nat, NEW y \in Nat, NEW u \in Nat, NEW v \in Nat, x <= u, y <= v
    PROVE  /\ Klend!frac_mul(x, y) \in Nat
           /\ Klend!frac_mul(x, y) <= Klend!frac_mul(u, v)
           /\ Klend!frac_mul(x, ONE) = x
  <1>0. ONE \in Nat \ {0}
    BY ScaleAssumption
  <1>1. x * y \in Nat /\ u * v \in Nat /\ x * y <= u * v
    BY ProductMonotone
  <1> DEFINE a == x * y
             b == u * v
  <1>2. a \div ONE \in Nat /\ a \div ONE <= b \div ONE
    <2> HIDE DEF a, b
    <2> QED
      BY <1>0, <1>1, FloorMonotone DEF a, b
  <1>3. (x * ONE) \div ONE = x
    BY <1>0, DivExact
  <1> QED
    BY <1>2, <1>3 DEF Klend!frac_mul

\* What the approximation adds up, as a function of the rate of one period.
Series(base, elapsed) ==
    LET first_term == base * elapsed
        second_term == (Klend!frac_mul(first_term, base) * (elapsed - 1)) \div 2
        third_term == (Klend!frac_mul(second_term, base) * (elapsed - 2)) \div 3
    IN  ONE + first_term + second_term + third_term

\* Klend: the factor for n periods of compounded interest.
Compounded(base, elapsed) ==
    LET pow_two == Klend!frac_mul(ONE + base, ONE + base)
    IN  CASE elapsed = 0 -> ONE
          [] elapsed = 1 -> ONE + base
          [] elapsed = 2 -> pow_two
          [] elapsed = 3 -> Klend!frac_mul(pow_two, ONE + base)
          [] elapsed = 4 -> Klend!frac_mul(pow_two, pow_two)
          [] OTHER -> Series(base, elapsed)

\* The series is at least one, and monotone in the rate.
LEMMA SeriesMonotone ==
    ASSUME NEW a \in Nat, NEW b \in Nat, a <= b, NEW n \in Nat, n > 4
    PROVE  /\ Series(a, n) \in Nat /\ Series(a, n) >= ONE
           /\ Series(a, n) <= Series(b, n)
  <1> DEFINE f1(z) == z * n
             g1(z) == Klend!frac_mul(f1(z), z)
             s1(z) == (g1(z) * (n - 1)) \div 2
             g2(z) == Klend!frac_mul(s1(z), z)
             t1(z) == (g2(z) * (n - 2)) \div 3
  <1>0. ONE \in Nat \ {0} /\ n - 1 \in Nat /\ n - 2 \in Nat /\ 2 \in Nat \ {0} /\ 3 \in Nat \ {0}
    BY ScaleAssumption
  <1>1. f1(a) \in Nat /\ f1(b) \in Nat /\ f1(a) <= f1(b)
    BY ProductMonotone
  <1> HIDE DEF f1
  <1>2. g1(a) \in Nat /\ g1(b) \in Nat /\ g1(a) <= g1(b)
    BY <1>1, FracMul
  <1> HIDE DEF g1
  <1>3. g1(a) * (n - 1) \in Nat /\ g1(b) * (n - 1) \in Nat /\ g1(a) * (n - 1) <= g1(b) * (n - 1)
    BY <1>0, <1>2, ProductMonotone
  <1>4. s1(a) \in Nat /\ s1(b) \in Nat /\ s1(a) <= s1(b)
    BY <1>0, <1>3, FloorMonotone
  <1> HIDE DEF s1
  <1>5. g2(a) \in Nat /\ g2(b) \in Nat /\ g2(a) <= g2(b)
    BY <1>4, FracMul
  <1> HIDE DEF g2
  <1>6. g2(a) * (n - 2) \in Nat /\ g2(b) * (n - 2) \in Nat /\ g2(a) * (n - 2) <= g2(b) * (n - 2)
    BY <1>0, <1>5, ProductMonotone
  <1>7. t1(a) \in Nat /\ t1(b) \in Nat /\ t1(a) <= t1(b)
    BY <1>0, <1>6, FloorMonotone
  <1> HIDE DEF t1
  <1>8. \A z : Series(z, n) = ONE + f1(z) + s1(z) + t1(z)
    BY DEF Series, f1, g1, s1, g2, t1
  <1> QED
    BY <1>0, <1>1, <1>4, <1>7, <1>8

\* So is the factor, whatever the number of periods.
LEMMA CompoundedMonotone ==
    ASSUME NEW a \in Nat, NEW b \in Nat, a <= b, NEW n \in Nat
    PROVE  /\ Compounded(a, n) \in Nat /\ Compounded(a, n) >= ONE
           /\ Compounded(a, n) <= Compounded(b, n)
  <1> DEFINE A == ONE + a
             B == ONE + b
             p(z) == Klend!frac_mul(ONE + z, ONE + z)
             q(z) == Klend!frac_mul(p(z), ONE + z)
             w(z) == Klend!frac_mul(p(z), p(z))
  <1>0. ONE \in Nat \ {0} /\ A \in Nat /\ B \in Nat /\ ONE <= A /\ A <= B /\ ONE <= B
    BY ScaleAssumption
  <1>1. Klend!frac_mul(ONE, ONE) = ONE
    BY <1>0, FracMul
  <1>2. p(a) \in Nat /\ p(b) \in Nat /\ p(a) <= p(b) /\ ONE <= p(a)
    <2>1. Klend!frac_mul(A, A) \in Nat /\ Klend!frac_mul(A, A) <= Klend!frac_mul(B, B)
      BY <1>0, FracMul
    <2>2. Klend!frac_mul(B, B) \in Nat
      BY <1>0, FracMul
    <2>3. Klend!frac_mul(ONE, ONE) <= Klend!frac_mul(A, A)
      BY <1>0, FracMul
    <2> QED
      BY <2>1, <2>2, <2>3, <1>1
  <1> HIDE DEF p
  <1>3. q(a) \in Nat /\ q(b) \in Nat /\ q(a) <= q(b) /\ ONE <= q(a)
    <2>1. Klend!frac_mul(p(a), A) \in Nat /\ Klend!frac_mul(p(a), A) <= Klend!frac_mul(p(b), B)
      BY <1>0, <1>2, FracMul
    <2>2. Klend!frac_mul(p(b), B) \in Nat
      <3> HIDE DEF B
      <3>1. p(b) <= p(b) /\ B <= B
        BY <1>0, <1>2
      <3> QED
        BY <1>0, <1>2, <3>1, FracMul
    <2>3. Klend!frac_mul(ONE, ONE) <= Klend!frac_mul(p(a), A)
      BY <1>0, <1>2, FracMul
    <2> QED
      BY <2>1, <2>2, <2>3, <1>1
  <1>4. w(a) \in Nat /\ w(b) \in Nat /\ w(a) <= w(b) /\ ONE <= w(a)
    <2>1. w(a) \in Nat /\ w(a) <= w(b)
      BY <1>2, FracMul
    <2>2. w(b) \in Nat
      BY <1>2, FracMul
    <2>3. Klend!frac_mul(ONE, ONE) <= w(a)
      BY <1>0, <1>2, FracMul
    <2> QED
      BY <2>1, <2>2, <2>3, <1>1
  <1> HIDE DEF q, w
  <1>5. CASE n = 0
    <2>1. \A z : Compounded(z, n) = ONE
      BY <1>5 DEF Compounded
    <2> QED
      BY <2>1, <1>0
  <1>6. CASE n = 1
    <2>1. \A z : Compounded(z, n) = ONE + z
      BY <1>6 DEF Compounded
    <2> QED
      BY <2>1, <1>0
  <1>7. CASE n = 2
    <2>1. \A z : Compounded(z, n) = p(z)
      BY <1>7 DEF Compounded, p
    <2> QED
      BY <2>1, <1>0, <1>2
  <1>8. CASE n = 3
    <2>1. \A z : Compounded(z, n) = q(z)
      BY <1>8 DEF Compounded, p, q
    <2> QED
      BY <2>1, <1>0, <1>3
  <1>9. CASE n = 4
    <2>1. \A z : Compounded(z, n) = w(z)
      BY <1>9 DEF Compounded, p, w
    <2> QED
      BY <2>1, <1>0, <1>4
  <1>10. CASE n > 4
    <2>0. n # 0 /\ n # 1 /\ n # 2 /\ n # 3 /\ n # 4
      BY <1>10
    <2>1. \A z : Compounded(z, n) = Series(z, n)
      BY <2>0 DEF Compounded
    <2> QED
      BY <2>1, <1>10, SeriesMonotone
  <1> QED
    BY <1>5, <1>6, <1>7, <1>8, <1>9, <1>10

\* Klend: interest is compounded at one period's part of the rate.
LEMMA InterestMonotone ==
    ASSUME NEW a \in Nat, NEW b \in Nat, a <= b, NEW n \in Nat, NEW y \in Nat \ {0}
    PROVE  /\ Klend!approximate_compounded_interest(a, n, y) \in Nat
           /\ Klend!approximate_compounded_interest(a, n, y) >= ONE
           /\ Klend!approximate_compounded_interest(a, n, y)
                <= Klend!approximate_compounded_interest(b, n, y)
  <1>1. /\ Klend!approximate_compounded_interest(a, n, y) = Compounded(a \div y, n)
        /\ Klend!approximate_compounded_interest(b, n, y) = Compounded(b \div y, n)
    BY DEF Klend!approximate_compounded_interest, Compounded, Series
  <1>2. a \div y \in Nat /\ b \div y \in Nat /\ a \div y <= b \div y
    BY FloorMonotone
  <1> DEFINE i == a \div y
             j == b \div y
  <1> HIDE DEF i, j
  <1>3. Compounded(i, n) \in Nat /\ Compounded(i, n) >= ONE /\ Compounded(i, n) <= Compounded(j, n)
    BY <1>2, CompoundedMonotone DEF i, j
  <1> QED
    BY <1>1, <1>3 DEF i, j

\* A non-empty set of numbers has a least element.
LEMMA Least ==
    ASSUME NEW T, T \subseteq Nat, T # {}
    PROVE  \E x \in T : \A y \in T : ~(y < x)
  <1> DEFINE R == {ss \in Nat \X Nat : ss[1] < ss[2]}
  <1>1. IsWellFoundedOn(R, Nat)
    BY NatLessThanWellFounded DEF OpToRel
  <1>2. PICK x \in T : \A y \in T : ~(<<y, x>> \in R)
    <2> HIDE DEF R
    <2> QED
      BY <1>1, WFMin
  <1> QED
    BY <1>2

\* Klend: basis points are a fraction, and monotone.
LEMMA BpsToFraction ==
    ASSUME NEW bps \in Nat
    PROVE  /\ Klend!bps_to_fraction(bps) \in Nat
           /\ FULL_BPS * Klend!bps_to_fraction(bps) <= bps * ONE
  <1>1. bps * ONE \in Nat /\ FULL_BPS \in Nat \ {0}
    BY ScaleAssumption, BpsAssumption, SMT
  <1> DEFINE x == bps * ONE
  <1>2. x \div FULL_BPS \in Nat /\ FULL_BPS * (x \div FULL_BPS) <= x
    <2> HIDE DEF x
    <2> QED
      BY <1>1, FloorBelow DEF x
  <1> QED
    BY <1>2 DEF Klend!bps_to_fraction, Klend!from_num

\* Klend: a utilization that is rounded to more basis points than a point has is
\* at least that point's.
LEMMA AbovePoint ==
    ASSUME NEW util \in Nat, NEW p \in Nat, p < Klend!util_to_bps(util)
    PROVE  Klend!bps_to_fraction(p) <= util
  <1> DEFINE n == util * FULL_BPS
             h == ONE \div 2
             g == (n + h) \div ONE
             f == Klend!bps_to_fraction(p)
  <1>0. ONE \in Nat \ {0} /\ FULL_BPS \in Nat \ {0} /\ h \in Nat /\ h <= ONE
    BY ScaleAssumption, BpsAssumption
  <1>1. n \in Nat
    BY <1>0, SMT
  <1>2. f \in Nat /\ FULL_BPS * f <= p * ONE
    BY BpsToFraction
  <1>3. p < g /\ g \in Nat
    <2> HIDE DEF n, h
    <2>1. g \in Nat
      BY <1>0, <1>1, FloorBelow
    <2> QED
      BY <2>1, <1>0 DEF Klend!util_to_bps, Klend!smaller, n, h
  <1>4. ONE * g <= n + h
    <2> HIDE DEF n, h
    <2> QED
      BY <1>0, <1>1, FloorBelow
  <1> HIDE DEF n, h, g, f
  <1>5. ONE * (p + 1) <= ONE * g
    BY <1>0, <1>3, SMT
  <1>6. ONE * (p + 1) = p * ONE + ONE
    BY <1>0, SMT
  <1> DEFINE a == p * ONE
             b == ONE * g
             c == FULL_BPS * f
  <1>7. a \in Nat /\ b \in Nat /\ c \in Nat
    BY <1>0, <1>2, <1>3, SMT
  <1>8. a + ONE <= b /\ b <= n + h /\ c <= a
    BY <1>2, <1>4, <1>5, <1>6
  <1> HIDE DEF a, b, c
  <1>9. c <= n
    BY <1>0, <1>1, <1>7, <1>8
  <1>10. FULL_BPS * f <= FULL_BPS * util
    <2>1. n = FULL_BPS * util
      BY <1>0 DEF n
    <2> QED
      BY <1>9, <2>1 DEF c
  <1>11. f <= util
    BY <1>0, <1>2, <1>10, CancelFactor
  <1> QED
    BY <1>11 DEF f

\* Klend: on a segment of the curve the rate is a fraction.
LEMMA SegmentTyped ==
    ASSUME NEW prev \in [util: Nat, rate: Nat], NEW next \in [util: Nat, rate: Nat],
           NEW util \in Nat, prev.util < Klend!util_to_bps(util), prev.util < next.util
    PROVE  Klend!on_segment(prev, next, util) \in Nat
  <1> DEFINE d == util - Klend!bps_to_fraction(prev.util)
             s == Klend!saturating_sub(next.rate, prev.rate)
             w == next.util - prev.util
             p == d * s
  <1>0. prev.util \in Nat /\ prev.rate \in Nat /\ next.util \in Nat /\ next.rate \in Nat
    OBVIOUS
  <1>1. d \in Nat
    <2>1. Klend!bps_to_fraction(prev.util) \in Nat
      BY <1>0, BpsToFraction
    <2>2. Klend!bps_to_fraction(prev.util) <= util
      BY <1>0, AbovePoint
    <2> QED
      BY <2>1, <2>2
  <1>2. s \in Nat
    BY <1>0 DEF Klend!saturating_sub
  <1>3. w \in Nat \ {0}
    BY <1>0
  <1>4. Klend!bps_to_fraction(prev.rate) \in Nat
    BY <1>0, BpsToFraction
  <1> HIDE DEF d, s, w
  <1>5. p \in Nat
    BY <1>1, <1>2, SMT
  <1> HIDE DEF p
  <1>6. p \div w \in Nat
    BY <1>3, <1>5, FloorBelow
  <1> QED
    BY <1>4, <1>6 DEF Klend!on_segment, d, s, w, p

\* Klend: the borrow rate is a fraction.
LEMMA BorrowRateTyped ==
    ASSUME NEW curve \in Seq([util: Nat, rate: Nat]), curve # <<>>, NEW utilization \in Nat
    PROVE  Klend!lookup_borrow_rate(curve, utilization) \in Nat
  <1> DEFINE u == Klend!smaller(utilization, ONE)
             ub == Klend!util_to_bps(u)
             met(k) == curve[k].util = ub
             within(k) == k > 1 /\ curve[k - 1].util < ub /\ ub < curve[k].util
             hits == {k \in 1 .. Len(curve) : met(k) \/ within(k)}
             i == CHOOSE k \in hits : \A j \in hits : k <= j
  <1>1. u \in Nat
    BY ScaleAssumption DEF Klend!smaller
  <1>2. Len(curve) \in Nat \ {0} /\ \A k \in 1 .. Len(curve) : curve[k] \in [util: Nat, rate: Nat]
    BY EmptySeq, LenProperties, ElementOfSeq
  <1> HIDE DEF u
  <1>a. \A k \in 1 .. Len(curve) : Klend!bps_to_fraction(curve[k].rate) \in Nat
    <2> TAKE k \in 1 .. Len(curve)
    <2>1. curve[k].rate \in Nat
      BY <1>2
    <2> QED
      BY <2>1, BpsToFraction
  <1>3. CASE hits = {}
    <2>1. Klend!lookup_borrow_rate(curve, utilization) = Klend!bps_to_fraction(curve[Len(curve)].rate)
      BY <1>3 DEF Klend!lookup_borrow_rate, Klend!rate_at, u
    <2> QED
      BY <2>1, <1>2, <1>a
  <1>4. CASE hits # {}
    <2>1. hits \subseteq Nat
      OBVIOUS
    <2>2. \E k \in hits : \A j \in hits : k <= j
      <3> HIDE DEF hits
      <3>1. PICK x \in hits : \A y \in hits : ~(y < x)
        BY <1>4, <2>1, Least
      <3> QED
        BY <2>1, <3>1
    <2>3. i \in hits
      <3> HIDE DEF hits
      <3> QED
        BY <2>2
    <2>4. i \in 1 .. Len(curve) /\ (met(i) \/ within(i))
      BY <2>3
    <2>5. Klend!lookup_borrow_rate(curve, utilization)
            = IF met(i) THEN Klend!bps_to_fraction(curve[i].rate)
              ELSE Klend!on_segment(curve[i - 1], curve[i], u)
      BY <1>4 DEF Klend!lookup_borrow_rate, Klend!rate_at, u
    <2> HIDE DEF i
    <2>6. CASE met(i)
      BY <2>4, <2>5, <2>6, <1>a
    <2>7. CASE ~met(i)
      <3>1. within(i) /\ i - 1 \in 1 .. Len(curve)
        BY <2>4, <2>7, <1>2
      <3> DEFINE P == curve[i - 1]
                 N == curve[i]
      <3>2. P \in [util: Nat, rate: Nat] /\ N \in [util: Nat, rate: Nat] /\ ub \in Nat
        <4>1. P \in [util: Nat, rate: Nat] /\ N \in [util: Nat, rate: Nat]
          BY <2>4, <3>1, <1>2
        <4>2. ub \in Nat
          <5> DEFINE n == u * FULL_BPS + ONE \div 2
          <5>0. ONE \in Nat \ {0} /\ FULL_BPS \in Nat \ {0} /\ ONE \div 2 \in Nat
            BY ScaleAssumption, BpsAssumption
          <5>1. u * FULL_BPS \in Nat
            BY <1>1, <5>0, SMT
          <5>2. n \in Nat
            BY <5>0, <5>1
          <5> HIDE DEF n
          <5>3. n \div ONE \in Nat
            BY <5>0, <5>2, FloorBelow
          <5> QED
            BY <5>0, <5>3 DEF Klend!util_to_bps, Klend!smaller, n
        <4> QED
          BY <4>1, <4>2
      <3>3. P.util < ub /\ ub < N.util
        BY <3>1
      <3> HIDE DEF P, N
      <3>4. P.util < N.util /\ P.util < Klend!util_to_bps(u)
        <4> HIDE DEF ub
        <4>1. P.util < N.util
          BY <3>2, <3>3
        <4> QED
          BY <3>3, <4>1 DEF ub
      <3>5. Klend!on_segment(P, N, u) \in Nat
        BY <1>1, <3>2, <3>4, SegmentTyped
      <3> QED
        BY <2>5, <2>7, <3>5 DEF P, N
    <2> QED
      BY <2>6, <2>7
  <1> QED
    BY <1>3, <1>4

\* Klend: the part of the interest that the protocol takes is at most all of it.
LEMMA TakePart ==
    ASSUME NEW pct \in 0 .. 100, NEW x \in Nat
    PROVE  /\ Klend!frac_mul(x, Klend!percent_to_fraction(pct)) \in Nat
           /\ Klend!frac_mul(x, Klend!percent_to_fraction(pct)) <= x
  <1> DEFINE t == Klend!percent_to_fraction(pct)
             n == pct * ONE
  <1>0. ONE \in Nat \ {0} /\ 100 \in Nat \ {0} /\ pct \in Nat
    BY ScaleAssumption
  <1>1. n \in Nat /\ n <= 100 * ONE
    BY <1>0, SMT
  <1>2. t \in Nat /\ t <= ONE
    <2> HIDE DEF n
    <2>1. n \div 100 \in Nat /\ 100 * (n \div 100) <= n
      BY <1>0, <1>1, FloorBelow
    <2>2. n \div 100 <= ONE
      BY <2>1, <1>0, <1>1
    <2> QED
      BY <2>1, <2>2 DEF Klend!percent_to_fraction, Klend!from_num, n
  <1> HIDE DEF t
  <1>3. Klend!frac_mul(x, t) \in Nat /\ Klend!frac_mul(x, t) <= Klend!frac_mul(x, ONE)
    BY <1>0, <1>2, FracMul
  <1>4. Klend!frac_mul(x, ONE) = x
    BY <1>0, <1>2, FracMul
  <1> QED
    BY <1>3, <1>4 DEF t

\* Klend: interest grows the debt by at least what it adds to the fees.
LEMMA KlendInterest ==
    ASSUME NEW r, Klend!Typed(r), NEW n \in Nat, NEW rate \in Nat, NEW host \in Nat
    PROVE  LET a == Klend!compound_interest(r, n, rate, host)
           IN  /\ a.borrowed \in Nat /\ a.fees \in Nat
               /\ a.borrowed - a.fees >= r.borrowed - r.fees
               /\ a = [borrowed |-> a.borrowed, fees |-> a.fees]
  <1> DEFINE y == Klend!units_per_year(r)
             F == Klend!approximate_compounded_interest(rate + host, n, y)
             G == Klend!approximate_compounded_interest(host, n, y)
             B == r.borrowed
             D == Klend!frac_mul(B, F)
             H == Klend!frac_mul(B, G)
             pct == r.config.protocol_take_rate_pct
  <1>0. ONE \in Nat \ {0} /\ B \in Nat /\ r.fees \in Nat /\ pct \in 0 .. 100
    BY ScaleAssumption DEF Klend!Typed
  <1>1. y \in Nat \ {0}
    BY PeriodAssumption DEF Klend!units_per_year
  <1> HIDE DEF y
  <1>2. F \in Nat /\ G \in Nat /\ ONE <= G /\ G <= F
    <2>1. rate + host \in Nat /\ host <= rate + host /\ rate + host <= rate + host
      OBVIOUS
    <2>2. G \in Nat /\ G >= ONE /\ G <= F
      BY <1>1, <2>1, InterestMonotone
    <2>3. F \in Nat
      BY <1>1, <2>1, InterestMonotone
    <2> QED
      BY <2>2, <2>3, <1>0
  <1> HIDE DEF F, G, B, pct
  <1>3. D \in Nat /\ H \in Nat /\ B <= H /\ H <= D
    <2>0. B <= B /\ F <= F
      BY <1>0, <1>2
    <2>1. D \in Nat
      BY <1>0, <1>2, <2>0, FracMul
    <2>2. H \in Nat /\ H <= D
      BY <1>0, <1>2, <2>0, FracMul
    <2>3. Klend!frac_mul(B, ONE) <= H /\ Klend!frac_mul(B, ONE) = B
      BY <1>0, <1>2, <2>0, FracMul
    <2> QED
      BY <2>1, <2>2, <2>3
  <1> HIDE DEF D, H
  <1> DEFINE T == Klend!frac_mul(D - H, Klend!percent_to_fraction(pct))
  <1>4. T \in Nat /\ T <= D - H
    <2>1. D - H \in Nat
      BY <1>3
    <2> QED
      BY <2>1, <1>0, TakePart
  <1>5. Klend!compound_interest(r, n, rate, host)
          = [borrowed |-> D, fees |-> r.fees + (H - B) + T]
    <2>1. D - B - (H - B) = D - H
      BY <1>0, <1>3
    <2> QED
      BY <2>1 DEF Klend!compound_interest, Klend!with_new_debt, D, H, B, F, G, y, pct
  <1> HIDE DEF T
  <1>6. r.fees + (H - B) + T \in Nat /\ D - (r.fees + (H - B) + T) >= B - r.fees
    BY <1>0, <1>3, <1>4
  <1> DEFINE W == r.fees + (H - B) + T
  <1> HIDE DEF W
  <1>7. W \in Nat /\ D - W >= B - r.fees
    BY <1>6 DEF W
  <1>8. Klend!compound_interest(r, n, rate, host) = [borrowed |-> D, fees |-> W]
    BY <1>5 DEF W
  <1> QED
    BY <1>3, <1>7, <1>8 DEF B

\* Klend: what interest accrues over.
LEMMA KlendElapsed ==
    ASSUME NEW r, Klend!Typed(r), NEW t, Clock(t)
    PROVE  Klend!elapsed_units(r, t) \in Nat
  <1>1. /\ r.last_update_slot \in Nat /\ r.last_update_timestamp \in Nat
        /\ t.slot \in Nat /\ t.timestamp \in Nat
    BY DEF Klend!Typed, Clock
  <1>2. /\ Klend!saturating_sub(t.slot, r.last_update_slot) \in Nat
        /\ Klend!saturating_sub(t.timestamp, r.last_update_timestamp) \in Nat
    BY <1>1 DEF Klend!saturating_sub
  <1> QED
    BY <1>2 DEF Klend!elapsed_units

\* Klend: what a solvent reserve owned at its last accrual.
LEMMA KlendOwned ==
    ASSUME NEW r, Klend!Typed(r), Klend!Solvent(r)
    PROVE  Klend!total_supply_fraction_pre(r) \in Nat
  <1> DEFINE A == r.available * ONE
             T == Klend!total_supply_fraction_pre(r)
  <1>1. /\ ONE \in Nat \ {0} /\ r.borrowed \in Nat /\ r.available \in Nat /\ r.fees \in Nat
        /\ r.referrer_fees \in Nat
    BY ScaleAssumption DEF Klend!Typed
  <1>2. T = A + r.borrowed - r.fees - r.referrer_fees
    BY DEF Klend!total_supply_fraction_pre, Klend!total_supply_core, Klend!from_num
  <1>3. A \in Nat
    BY <1>1, SMT
  <1>4. T >= (IF r.supply > 0 THEN 1 ELSE 0)
    BY DEF Klend!Solvent
  <1> HIDE DEF A, T
  <1>5. T \in Nat
    BY <1>1, <1>2, <1>3, <1>4
  <1> QED
    BY <1>5 DEF T

\* Klend: the same of what accrues until now.  The rate exists as long as the
\* fees do not exceed what the reserve owns.
LEMMA KlendAccrual ==
    ASSUME NEW r, Klend!Typed(r), Klend!Solvent(r), NEW t, Clock(t)
    PROVE  LET a == Klend!accrue_interest(r, t)
           IN  /\ a.borrowed \in Nat /\ a.fees \in Nat
               /\ a.borrowed - a.fees >= r.borrowed - r.fees
  <1> DEFINE T == Klend!total_supply_fraction_pre(r)
             util == Klend!utilization_rate(r.borrowed, T)
             n == Klend!elapsed_units(r, t)
             rate == Klend!lookup_borrow_rate(r.config.curve, util)
             host == Klend!bps_to_fraction(r.config.host_fixed_interest_rate_bps)
             a == Klend!compound_interest(r, n, rate, host)
  <1>0. /\ ONE \in Nat \ {0} /\ r.borrowed \in Nat /\ r.available \in Nat /\ r.fees \in Nat
        /\ r.referrer_fees \in Nat /\ r.supply \in Nat
        /\ r.last_update_slot \in Nat /\ r.last_update_timestamp \in Nat
        /\ r.config.host_fixed_interest_rate_bps \in Nat
        /\ r.config.curve \in Seq([util: Nat, rate: Nat]) /\ r.config.curve # <<>>
    BY ScaleAssumption DEF Klend!Typed
  <1>1. CASE n = 0
    <2>1. Klend!accrue_interest(r, t) = [borrowed |-> r.borrowed, fees |-> r.fees]
      BY <1>1 DEF Klend!accrue_interest
    <2> QED
      BY <2>1, <1>0
  <1>2. CASE n # 0
    <2>1. n \in Nat
      BY KlendElapsed
    <2>2. T \in Nat
      BY KlendOwned
    <2> HIDE DEF T
    <2>3. util \in Nat
      <3>1. CASE T = 0
        BY <3>1 DEF Klend!utilization_rate
      <3>2. CASE T # 0
        <4> DEFINE m == r.borrowed * ONE
        <4>1. m \in Nat
          BY <1>0, SMT
        <4> HIDE DEF m
        <4>2. m \div T \in Nat
          BY <2>2, <3>2, <4>1, FloorBelow
        <4> QED
          BY <3>2, <4>2 DEF Klend!utilization_rate, Klend!frac_div, m
      <3> QED
        BY <3>1, <3>2
    <2> HIDE DEF util
    <2>4. rate \in Nat
      BY <1>0, <2>3, BorrowRateTyped
    <2>5. host \in Nat
      BY <1>0, BpsToFraction
    <2>6. Klend!accrue_interest(r, t) = a
      BY <1>2 DEF Klend!accrue_interest, util, T
    <2> HIDE DEF n, rate, host
    <2>7. a.borrowed \in Nat /\ a.fees \in Nat /\ a.borrowed - a.fees >= r.borrowed - r.fees
      BY <2>1, <2>4, <2>5, KlendInterest
    <2> HIDE DEF a
    <2> QED
      BY <2>6, <2>7
  <1> QED
    BY <1>1, <1>2

\* Klend: what a reserve owns at t is at least what it owned at its last accrual.
LEMMA KlendTotal ==
    ASSUME NEW r, Klend!Typed(r), Klend!Solvent(r), NEW t, Clock(t)
    PROVE  /\ Klend!total_supply_fraction_pre(r) \in Nat
           /\ Klend!total_supply_fraction(r, t) \in Nat
           /\ Klend!total_supply_fraction(r, t) >= Klend!total_supply_fraction_pre(r)
           /\ r.supply > 0 => Klend!total_supply_fraction(r, t) > 0
  <1> DEFINE a == Klend!accrue_interest(r, t)
             c == Klend!with_accrual(r, a)
             A == r.available * ONE
             T == Klend!total_supply_fraction_pre(r)
             U == Klend!total_supply_fraction(r, t)
  <1>0. /\ ONE \in Nat \ {0} /\ r.borrowed \in Nat /\ r.available \in Nat /\ r.fees \in Nat
        /\ r.referrer_fees \in Nat /\ r.supply \in Nat /\ DOMAIN r = Klend!Fields
    BY ScaleAssumption DEF Klend!Typed
  <1>1. a.borrowed \in Nat /\ a.fees \in Nat /\ a.borrowed - a.fees >= r.borrowed - r.fees
    BY KlendAccrual
  <1> HIDE DEF a
  <1>2. /\ c.available = r.available /\ c.referrer_fees = r.referrer_fees
        /\ c.borrowed = a.borrowed /\ c.fees = a.fees
    BY <1>0 DEF Klend!with_accrual, Klend!Fields
  <1> HIDE DEF c
  <1>3. T = A + r.borrowed - r.fees - r.referrer_fees
    BY DEF Klend!total_supply_fraction_pre, Klend!total_supply_core, Klend!from_num
  <1>4. U = A + a.borrowed - a.fees - r.referrer_fees
    BY <1>2 DEF Klend!total_supply_fraction, Klend!total_supply_fraction_pre,
                Klend!total_supply_core, Klend!from_num, c, a
  <1>5. A \in Nat
    BY <1>0, SMT
  <1>6. T >= (IF r.supply > 0 THEN 1 ELSE 0)
    BY DEF Klend!Solvent
  <1> HIDE DEF A, T, U
  <1>7. T \in Nat /\ U \in Nat /\ U >= T /\ (r.supply > 0 => U > 0)
    BY <1>0, <1>1, <1>3, <1>4, <1>5, <1>6
  <1> QED
    BY <1>7 DEF T, U

\* Klend: accruing leaves a solvent reserve, and the rest of it as it is.
LEMMA KlendAccrued ==
    ASSUME NEW r, Klend!Typed(r), Klend!Solvent(r), NEW t, Clock(t)
    PROVE  LET c == Klend!pre_accrue(r, t)
           IN  /\ Klend!Typed(c) /\ Klend!Solvent(c)
               /\ c.available = r.available /\ c.supply = r.supply /\ c.config = r.config
               /\ c.queued = r.queued /\ c.cap = r.cap
               /\ Klend!known_basis(r) =>
                     Klend!total_supply_fraction_pre(c) = Klend!total_supply_fraction(r, t)
  <1> DEFINE a == Klend!accrue_interest(r, t)
             w == Klend!with_accrual(r, a)
             c == Klend!pre_accrue(r, t)
  <1>1. CASE ~Klend!known_basis(r)
    <2>1. c = r
      BY <1>1 DEF Klend!pre_accrue
    <2> QED
      BY <1>1, <2>1
  <1>2. CASE Klend!known_basis(r)
    <2>0. DOMAIN r = Klend!Fields
      BY DEF Klend!Typed
    <2>1. a.borrowed \in Nat /\ a.fees \in Nat
      BY KlendAccrual
    <2>2. c = [[r EXCEPT !.borrowed = a.borrowed, !.fees = a.fees] EXCEPT
                 !.last_update_slot = t.slot, !.last_update_timestamp = t.timestamp]
      BY <1>2 DEF Klend!pre_accrue, Klend!with_accrual
    <2>3. w = [r EXCEPT !.borrowed = a.borrowed, !.fees = a.fees]
      BY DEF Klend!with_accrual
    <2> HIDE DEF a, c, w
    <2>4. /\ DOMAIN c = Klend!Fields
          /\ c.available = r.available /\ c.supply = r.supply /\ c.config = r.config
          /\ c.queued = r.queued /\ c.cap = r.cap /\ c.flags = r.flags
          /\ c.referrer_fees = r.referrer_fees
          /\ c.borrowed = a.borrowed /\ c.fees = a.fees
          /\ c.last_update_slot = t.slot /\ c.last_update_timestamp = t.timestamp
      BY <2>0, <2>2 DEF Klend!Fields
    <2>5. /\ w.available = r.available /\ w.referrer_fees = r.referrer_fees
          /\ w.borrowed = a.borrowed /\ w.fees = a.fees
      BY <2>0, <2>3 DEF Klend!Fields
    <2>6. Klend!total_supply_fraction_pre(c) = Klend!total_supply_fraction(r, t)
      <3>1. Klend!total_supply_fraction(r, t) = Klend!total_supply_fraction_pre(w)
        BY DEF Klend!total_supply_fraction, w, a
      <3> QED
        BY <3>1, <2>4, <2>5 DEF Klend!total_supply_fraction_pre
    <2>7. Klend!Typed(c)
      BY <2>1, <2>4 DEF Klend!Typed, Clock
    <2>8. Klend!Solvent(c)
      <3>1. /\ r.supply \in Nat /\ Klend!total_supply_fraction(r, t) \in Nat
            /\ r.supply > 0 => Klend!total_supply_fraction(r, t) > 0
        BY KlendTotal DEF Klend!Typed
      <3>2. c.queued <= c.supply
        BY <2>4 DEF Klend!Solvent
      <3> QED
        BY <2>4, <2>6, <3>1, <3>2 DEF Klend!Solvent
    <2> QED
      BY <2>4, <2>6, <2>7, <2>8 DEF c
  <1> QED
    BY <1>1, <1>2

\* Klend: the exchange rate of a solvent reserve.
LEMMA KlendRate ==
    ASSUME NEW r, Klend!Typed(r), Klend!Solvent(r), NEW t, Clock(t)
    PROVE  LET x == Klend!exchange_rate(r, t)
           IN  /\ x = [cs |-> x.cs, ts |-> x.ts]
               /\ x.cs \in Nat \ {0} /\ x.ts \in Nat \ {0}
               /\ r.supply > 0 => x.cs = r.supply /\ x.ts = Klend!total_supply_fraction(r, t)
               /\ r.supply = 0 => x.cs = 1 /\ x.ts = ONE
  <1> DEFINE T == Klend!total_supply_fraction(r, t)
  <1>1. T \in Nat /\ (r.supply > 0 => T > 0) /\ r.supply \in Nat
    BY KlendTotal DEF Klend!Typed
  <1>2. ONE \in Nat \ {0}
    BY ScaleAssumption
  <1>3. Klend!exchange_rate(r, t) = Klend!exchange_rate_pair(r.supply, T)
    BY DEF Klend!exchange_rate
  <1> HIDE DEF T
  <1>4. CASE r.supply = 0
    <2>1. Klend!exchange_rate(r, t) = [cs |-> 1, ts |-> ONE]
      BY <1>3, <1>4 DEF Klend!exchange_rate_pair
    <2> QED
      BY <2>1, <1>2, <1>4
  <1>5. CASE r.supply # 0
    <2>1. T # 0 /\ r.supply > 0
      BY <1>1, <1>5
    <2>2. Klend!exchange_rate(r, t) = [cs |-> r.supply, ts |-> T]
      BY <1>3, <1>5, <2>1 DEF Klend!exchange_rate_pair
    <2> QED
      BY <2>1, <2>2, <1>1, <1>5 DEF T
  <1> QED
    BY <1>4, <1>5

\* Klend: a deposit brings at least what its collateral is worth.
LEMMA KlendDepositCharges ==
    ASSUME NEW cs \in Nat \ {0}, NEW ts \in Nat \ {0}, NEW c \in Nat \ {0}
    PROVE  LET d == Klend!collateral_to_liquidity_ceil(c, [cs |-> cs, ts |-> ts])
           IN  d \in Nat \ {0} /\ c * ts <= cs * (ONE * d)
  <1> DEFINE e == ceil_div(c * ts, cs)
             d == ceil_div(e, ONE)
  <1>0. ONE \in Nat \ {0} /\ c * ts \in Nat
    BY ScaleAssumption, SMT
  <1>1. c * ts >= 1
    BY SMT
  <1>2. e \in Nat /\ cs * e >= c * ts
    BY <1>0, CeilAbove
  <1> HIDE DEF e
  <1>3. d \in Nat /\ ONE * d >= e
    BY <1>0, <1>2, CeilAbove
  <1> HIDE DEF d
  <1> DEFINE y == ONE * d
             z == c * ts
             w == cs * e
  <1>4. y \in Nat /\ w \in Nat /\ z \in Nat
    BY <1>0, <1>2, <1>3, SMT
  <1> HIDE DEF y
  <1>5. w <= cs * y /\ cs * y \in Nat
    BY <1>2, <1>3, <1>4, SMT DEF y
  <1> DEFINE k == cs * y
  <1>6. z <= k
    <2> HIDE DEF z, w, k
    <2>1. z <= w /\ w <= k /\ k \in Nat
      BY <1>2, <1>5 DEF z, w, k
    <2> QED
      BY <2>1, <1>4
  <1>7. d # 0
    <2> SUFFICES ASSUME d = 0 PROVE FALSE
      OBVIOUS
    <2>1. y = 0
      BY <1>0 DEF y
    <2>2. cs * y = 0
      BY <2>1
    <2> QED
      BY <2>2, <1>6, <1>1, <1>4
  <1>8. Klend!collateral_to_liquidity_ceil(c, [cs |-> cs, ts |-> ts]) = d
    BY DEF Klend!collateral_to_liquidity_ceil, Klend!ceil, Klend!ceil_div, ceil_div, d, e
  <1> QED
    BY <1>3, <1>6, <1>7, <1>8 DEF y

\* Klend: a withdrawal pays at most what its collateral is worth.
LEMMA KlendWithdrawPays ==
    ASSUME NEW cs \in Nat \ {0}, NEW ts \in Nat \ {0}, NEW c \in Nat
    PROVE  LET p == Klend!collateral_to_liquidity(c, [cs |-> cs, ts |-> ts])
           IN  p \in Nat /\ cs * (ONE * p) <= c * ts
  <1> DEFINE z == c * ts
             f == z \div cs
             p == f \div ONE
  <1>0. ONE \in Nat \ {0} /\ z \in Nat
    BY ScaleAssumption, SMT
  <1> HIDE DEF z
  <1>1. f \in Nat /\ cs * f <= z
    BY <1>0, FloorBelow
  <1> HIDE DEF f
  <1>2. p \in Nat /\ ONE * p <= f
    BY <1>0, <1>1, FloorBelow
  <1> HIDE DEF p
  <1> DEFINE y == ONE * p
             w == cs * f
  <1>3. y \in Nat /\ w \in Nat
    BY <1>0, <1>1, <1>2, SMT
  <1> HIDE DEF y
  <1>4. cs * y <= w /\ cs * y \in Nat
    BY <1>1, <1>2, <1>3, SMT DEF y
  <1> DEFINE k == cs * y
  <1>5. k <= z
    <2> HIDE DEF w, k
    <2>1. k <= w /\ w <= z /\ k \in Nat
      BY <1>1, <1>4 DEF w, k
    <2> QED
      BY <2>1, <1>0, <1>3
  <1>6. Klend!collateral_to_liquidity(c, [cs |-> cs, ts |-> ts]) = p
    BY DEF Klend!collateral_to_liquidity, Klend!fraction_collateral_to_liquidity, Klend!floor, p, f, z
  <1> QED
    BY <1>2, <1>5, <1>6 DEF y, z

\* Klend: the withdrawal cap.
Caps == [interval: Nat, capacity: Int, current_total: Int, start: Nat]

\* Klend: a reserve that is accrued at t and has liquidity and collateral moved.
Moved(r, t, na, ns, ncap) ==
    [Klend!pre_accrue(r, t) EXCEPT !.available = na, !.supply = ns, !.cap = ncap]

\* Klend: a reserve that was accrued at t and had liquidity and collateral moved.
LEMMA KlendMoved ==
    ASSUME NEW r, Klend!Typed(r), Klend!Solvent(r), NEW t, Clock(t), Klend!known_basis(r),
           NEW na \in Nat, NEW ns \in Nat,
           NEW ncap \in Caps,
           NEW m, m = Moved(r, t, na, ns, ncap)
    PROVE  /\ Klend!Typed(m)
           /\ m.available = na /\ m.supply = ns /\ m.cap = ncap
           /\ m.queued = r.queued /\ m.config = r.config
           /\ Klend!total_supply_fraction_pre(m)
                = Klend!total_supply_fraction(r, t) + na * ONE - r.available * ONE
           /\ Klend!total_supply_fraction(m, t) = Klend!total_supply_fraction_pre(m)
  <1> DEFINE c == Klend!pre_accrue(r, t)
             a == Klend!accrue_interest(r, t)
             T == Klend!total_supply_fraction(r, t)
  <1>0. DOMAIN r = Klend!Fields /\ ONE \in Nat \ {0}
    BY ScaleAssumption DEF Klend!Typed
  <1>1. /\ Klend!Typed(c) /\ c.available = r.available /\ c.config = r.config
        /\ c.queued = r.queued /\ Klend!total_supply_fraction_pre(c) = T
    BY KlendAccrued
  <1>2. c.last_update_slot = t.slot /\ c.last_update_timestamp = t.timestamp
    <2>1. c = [[r EXCEPT !.borrowed = a.borrowed, !.fees = a.fees] EXCEPT
                 !.last_update_slot = t.slot, !.last_update_timestamp = t.timestamp]
      BY DEF Klend!pre_accrue, Klend!with_accrual
    <2> HIDE DEF a, c
    <2> QED
      BY <2>1, <1>0 DEF Klend!Fields
  <1>3. m = [c EXCEPT !.available = na, !.supply = ns, !.cap = ncap]
    BY DEF Moved
  <1>4. DOMAIN c = Klend!Fields
    BY <1>1 DEF Klend!Typed
  <1> HIDE DEF c, T
  <1>5. /\ DOMAIN m = Klend!Fields
        /\ m.available = na /\ m.supply = ns /\ m.cap = ncap
        /\ m.queued = c.queued /\ m.config = c.config /\ m.borrowed = c.borrowed
        /\ m.fees = c.fees /\ m.referrer_fees = c.referrer_fees
        /\ m.last_update_slot = t.slot /\ m.last_update_timestamp = t.timestamp
    BY <1>2, <1>3, <1>4 DEF Klend!Fields
  <1>6. Klend!Typed(m)
    BY <1>1, <1>5 DEF Klend!Typed, Clock, Caps
  <1>7. Klend!total_supply_fraction_pre(m) = T + na * ONE - r.available * ONE
    <2> DEFINE x == na * ONE
               y == r.available * ONE
    <2>0. c.borrowed \in Nat /\ c.fees \in Nat /\ c.referrer_fees \in Nat /\ r.available \in Nat
      BY <1>1 DEF Klend!Typed
    <2>1. x \in Nat /\ y \in Nat
      BY <1>0, <2>0, SMT
    <2>2. /\ Klend!total_supply_fraction_pre(m) = x + c.borrowed - c.fees - c.referrer_fees
          /\ T = y + c.borrowed - c.fees - c.referrer_fees
      BY <1>1, <1>5 DEF Klend!total_supply_fraction_pre, Klend!total_supply_core, Klend!from_num
    <2> HIDE DEF x, y
    <2>3. Klend!total_supply_fraction_pre(m) = T + x - y
      BY <2>0, <2>1, <2>2
    <2> QED
      BY <2>3 DEF x, y
  <1>8. Klend!total_supply_fraction(m, t) = Klend!total_supply_fraction_pre(m)
    <2>1. Klend!elapsed_units(m, t) = 0
      BY <1>5 DEF Klend!elapsed_units, Klend!saturating_sub, Clock
    <2>2. Klend!accrue_interest(m, t) = [borrowed |-> m.borrowed, fees |-> m.fees]
      BY <2>1 DEF Klend!accrue_interest
    <2> DEFINE w == Klend!with_accrual(m, [borrowed |-> m.borrowed, fees |-> m.fees])
    <2>3. /\ w.available = m.available /\ w.borrowed = m.borrowed /\ w.fees = m.fees
          /\ w.referrer_fees = m.referrer_fees
      BY <1>5 DEF Klend!with_accrual, Klend!Fields
    <2>4. Klend!total_supply_fraction(m, t) = Klend!total_supply_fraction_pre(w)
      BY <2>2 DEF Klend!total_supply_fraction
    <2> HIDE DEF w
    <2> QED
      BY <2>3, <2>4 DEF Klend!total_supply_fraction_pre
  <1> QED
    BY <1>1, <1>5, <1>6, <1>7, <1>8 DEF T

\* Klend: the cap counts on.
LEMMA CapTyped ==
    ASSUME NEW cap \in Caps,
           NEW t, Clock(t), NEW amount \in Int
    PROVE  Klend!Counted(cap, t, amount)
             \in Caps
  <1>1. t.timestamp \in Nat
    BY DEF Clock
  <1>2. ASSUME NEW a \in Nat, NEW b \in Int
        PROVE  [cap EXCEPT !.start = a, !.current_total = b] \in Caps
    BY DEF Caps
  <1>3. ASSUME NEW b \in Int
        PROVE  [cap EXCEPT !.current_total = b] \in Caps
    BY DEF Caps
  <1>4. cap.current_total + amount \in Int
    BY DEF Caps
  <1>5. CASE Klend!interval_elapsed(cap, t)
    BY <1>1, <1>2, <1>5 DEF Klend!Counted
  <1>6. CASE ~Klend!interval_elapsed(cap, t)
    <2>1. Klend!Counted(cap, t, amount) = [cap EXCEPT !.current_total = cap.current_total + amount]
      BY <1>6 DEF Klend!Counted, Caps
    <2> DEFINE b == cap.current_total + amount
    <2> HIDE DEF b
    <2>2. [cap EXCEPT !.current_total = b] \in Caps
      BY <1>3, <1>4 DEF b
    <2> QED
      BY <2>1, <2>2 DEF b
  <1> QED
    BY <1>5, <1>6

\* Klend: what the vault holds and what is queued has been issued.
KlendHolds(r, held) == Klend!Typed(r) /\ Klend!Solvent(r) /\ held + r.queued <= r.supply

\* Klend: what the quote q of a deposit means for a reserve r and a vault v at t.
KlendDepositTaken(r, t, v, net, q) ==
    LET x == Klend!exchange_rate(r, t)
        m == Klend!Deposited(r, t, v, q)
    IN  /\ Klend!known_basis(r)
        /\ q.brought \in Nat \ {0} /\ q.spends \in Nat \ {0} /\ q.spends <= net
        /\ q.mint \in 1 .. U64 - 1 /\ v.wrapper_supply + q.mint < U64
        /\ q.brought * x.ts <= x.cs * (ONE * q.spends)
        /\ KlendHolds(m, v.intermediate_held + q.brought)
        /\ m.available = r.available + q.spends /\ m.supply = r.supply + q.brought
        /\ Klend!total_supply_fraction(m, t)
             = Klend!total_supply_fraction(r, t) + ONE * q.spends

\* Klend: what a quoted deposit brings, and the reserve after it.
LEMMA KlendDepositFacts ==
    ASSUME NEW r, NEW v, NEW t, Clock(t), v.intermediate_held \in Nat,
           v.wrapper_supply \in Nat, KlendHolds(r, v.intermediate_held), NEW net,
           NEW q, q = Klend!quote_deposit(r, t, v, net), q # Refused
    PROVE  KlendDepositTaken(r, t, v, net, q)
  <1> DEFINE x == Klend!exchange_rate(r, t)
             T == Klend!total_supply_fraction(r, t)
             c == Klend!liquidity_to_collateral(net, x)
             g == Klend!wrapper_to_mint(c, v, net)
             d == Klend!liquidity_amount_to_deposit(net, x)
             I == v.intermediate_held
             m == Klend!Deposited(r, t, v, q)
  <1>0. /\ Klend!Typed(r) /\ Klend!Solvent(r) /\ I + r.queued <= r.supply /\ I \in Nat
        /\ r.available \in Nat /\ r.supply \in Nat /\ r.queued \in Nat
        /\ r.cap \in Caps
        /\ ONE \in Nat \ {0} /\ U64 \in Nat \ {0}
    BY ScaleAssumption, U64Assumption DEF KlendHolds, Klend!Typed, Caps
  <1>1. /\ Klend!DepositChecks(r, T, v, net, c, d)
        /\ ~(g \notin 1 .. U64 - 1 \/ v.wrapper_supply + g >= U64)
        /\ q = [mint |-> g, brought |-> c, spends |-> d, before |-> I, after |-> I + c]
    BY DEF Klend!quote_deposit, Klend!deposit_at_rate, Klend!Refused, Refused
  <1>2. Klend!known_basis(r) /\ c \in 1 .. U64 - 1 /\ d <= net
    BY <1>1 DEF Klend!DepositChecks
  <1>3. g \in 1 .. U64 - 1 /\ ~(v.wrapper_supply + g >= U64)
    BY <1>1
  <1>4. x = [cs |-> x.cs, ts |-> x.ts] /\ x.cs \in Nat \ {0} /\ x.ts \in Nat \ {0}
    BY <1>0, KlendRate
  <1>5. d = Klend!collateral_to_liquidity_ceil(c, x)
    BY DEF Klend!liquidity_amount_to_deposit
  <1> HIDE DEF x, c, g, d
  <1>6. d \in Nat \ {0} /\ c * x.ts <= x.cs * (ONE * d)
    <2> DEFINE cs == x.cs
               ts == x.ts
    <2>1. d = Klend!collateral_to_liquidity_ceil(c, [cs |-> cs, ts |-> ts])
      BY <1>4, <1>5
    <2>2. cs \in Nat \ {0} /\ ts \in Nat \ {0} /\ c \in Nat \ {0}
      BY <1>0, <1>2, <1>4
    <2> HIDE DEF cs, ts
    <2>3. d \in Nat \ {0} /\ c * ts <= cs * (ONE * d)
      BY <2>1, <2>2, KlendDepositCharges
    <2> QED
      BY <2>3 DEF cs, ts
  <1>7. q.mint = g /\ q.brought = c /\ q.spends = d
    BY <1>1
  <1> DEFINE na == r.available + d
             ns == r.supply + c
             ncap == Klend!Counted(r.cap, t, -d)
             p == Klend!pre_accrue(r, t)
  <1>8. na \in Nat /\ ns \in Nat /\ c \in Nat \ {0} /\ -d \in Int
    BY <1>0, <1>2, <1>6
  <1>9. ncap \in Caps
    BY <1>0, <1>8, CapTyped
  <1>10. m = Moved(r, t, na, ns, ncap)
    <2>1. DOMAIN p = Klend!Fields
      BY <1>0, KlendAccrued DEF Klend!Typed
    <2>2. p.available = r.available /\ p.supply = r.supply /\ p.cap = r.cap
      BY <1>0, KlendAccrued
    <2>3. m = [p EXCEPT !.available = p.available + d, !.supply = p.supply + c,
                        !.cap = Klend!Counted(p.cap, t, -d)]
      <3> HIDE DEF p
      <3> QED
        BY <1>7, <2>1 DEF Klend!Deposited, p, Klend!Fields
    <2> HIDE DEF p
    <2> QED
      BY <2>2, <2>3 DEF p, Moved
  <1> HIDE DEF m, p, na, ns, ncap
  <1>11. /\ Klend!Typed(m) /\ m.available = na /\ m.supply = ns /\ m.queued = r.queued
         /\ Klend!total_supply_fraction_pre(m) = T + na * ONE - r.available * ONE
         /\ Klend!total_supply_fraction(m, t) = Klend!total_supply_fraction_pre(m)
    <2>1. Klend!Typed(r) /\ Klend!Solvent(r) /\ Klend!known_basis(r)
      BY <1>0, <1>2
    <2>2. na \in Nat /\ ns \in Nat
      BY <1>8
    <2> QED
      BY <2>1, <2>2, <1>9, <1>10, KlendMoved
  <1>12. T \in Nat
    BY <1>0, KlendTotal
  <1>13. Klend!total_supply_fraction_pre(m) = T + ONE * d
    <2>1. na * ONE = r.available * ONE + ONE * d /\ r.available * ONE \in Nat /\ ONE * d \in Nat
      BY <1>0, <1>6, SMT DEF na
    <2> DEFINE a == r.available * ONE
               b == ONE * d
    <2>2. T + (a + b) - a = T + b
      <3> HIDE DEF a, b, T
      <3> QED
        BY <2>1, <1>12 DEF a, b
    <2> QED
      BY <1>11, <2>1, <2>2
  <1>14. T + ONE * d >= 1
    <2>1. ONE * d \in Nat /\ ONE * d # 0
      BY <1>0, <1>6, SMT
    <2> DEFINE b == ONE * d
    <2> HIDE DEF b, T
    <2> QED
      BY <2>1, <1>12 DEF b
  <1>15. I + c + m.queued <= m.supply
    BY <1>0, <1>8, <1>11 DEF ns
  <1>16. Klend!Solvent(m)
    <2>1. m.queued <= m.supply
      BY <1>0, <1>8, <1>11 DEF ns
    <2> DEFINE w == T + ONE * d
    <2>2. w \in Int /\ w >= 1
      <3>1. ONE * d \in Nat
        BY <1>0, <1>6, SMT
      <3> QED
        BY <3>1, <1>12, <1>14
    <2> HIDE DEF w
    <2>3. w >= IF m.supply > 0 THEN 1 ELSE 0
      BY <2>2
    <2> QED
      BY <2>1, <2>3, <1>13 DEF Klend!Solvent, w
  <1>17. KlendHolds(m, I + c)
    BY <1>11, <1>15, <1>16 DEF KlendHolds
  <1>18. v.wrapper_supply + g < U64
    BY <1>0, <1>3
  <1> QED
    BY <1>2, <1>3, <1>6, <1>7, <1>8, <1>11, <1>13, <1>17, <1>18 DEF KlendDepositTaken, x, T, m, na, ns

\* What is left of a product when a part of one factor is taken, and the product
\* of the part with the other factor was paid at most.
LEMMA LeftOver ==
    ASSUME NEW s \in Nat \ {0}, NEW c \in Nat, c <= s, NEW T \in Nat \ {0}, NEW w \in Nat,
           s * w <= c * T
    PROVE  w <= T /\ (c < s => w < T)
  <1>1. c * T <= s * T /\ c * T \in Nat /\ s * T \in Nat /\ s * w \in Nat
    BY SMT
  <1>2. s * w <= s * T
    <2> DEFINE x == s * w
               y == c * T
               z == s * T
    <2>1. x <= y /\ y <= z /\ x \in Nat /\ y \in Nat /\ z \in Nat
      BY <1>1
    <2> HIDE DEF x, y, z
    <2>2. x <= z
      BY <2>1
    <2> QED
      BY <2>2 DEF x, z
  <1>3. w <= T
    BY <1>2, CancelFactor
  <1>4. ASSUME c < s, w = T
        PROVE  FALSE
    <2>1. c * T < s * T
      BY <1>4, SMT
    <2> QED
      BY <2>1, <1>1, <1>4
  <1> QED
    BY <1>3, <1>4

\* Klend: what the quote q of a withdrawal means for a reserve r and a vault v at t.
KlendWithdrawalTaken(r, t, v, amount, q) ==
    LET x == Klend!exchange_rate(r, t)
        T == Klend!total_supply_fraction(r, t)
        m == Klend!Withdrawn(r, t, v, q)
    IN  /\ Klend!known_basis(r)
        /\ amount > 0 /\ amount <= v.wrapper_supply /\ v.intermediate_held > 0
        /\ q.redeemed \in Nat \ {0} /\ q.redeemed <= v.intermediate_held
        /\ v.wrapper_supply * q.redeemed <= amount * v.intermediate_held
        /\ q.pays \in Nat \ {0} /\ r.supply > 0
        /\ q.pays = Klend!collateral_to_liquidity(q.redeemed, x)
        /\ r.supply * (ONE * q.pays) <= q.redeemed * T
        /\ q.pays <= r.available
        /\ q.pays <= Klend!freely_available(r, x)
        /\ q.pays <= Klend!remaining_amount(r.cap, t)
        /\ KlendHolds(m, v.intermediate_held - q.redeemed)
        /\ m.available = r.available - q.pays /\ m.supply = r.supply - q.redeemed
        /\ m.queued = r.queued /\ m.cap = Klend!Counted(r.cap, t, q.pays)
        /\ Klend!total_supply_fraction(m, t) = T - ONE * q.pays

\* Klend: what a quoted withdrawal takes, and the reserve after it.
LEMMA KlendWithdrawFacts ==
    ASSUME NEW r, NEW v, NEW t, Clock(t), v.intermediate_held \in Nat,
           v.wrapper_supply \in Nat, KlendHolds(r, v.intermediate_held), NEW amount \in Nat,
           NEW q, q = Klend!quote_withdraw(r, t, v, amount), q # Refused
    PROVE  KlendWithdrawalTaken(r, t, v, amount, q)
  <1> DEFINE x == Klend!exchange_rate(r, t)
             T == Klend!total_supply_fraction(r, t)
             I == v.intermediate_held
             S == v.wrapper_supply
             c == Klend!ctokens_to_redeem(v, amount)
             d == Klend!collateral_to_liquidity(c, x)
             m == Klend!Withdrawn(r, t, v, q)
  <1>0. /\ Klend!Typed(r) /\ Klend!Solvent(r) /\ I + r.queued <= r.supply /\ I \in Nat /\ S \in Nat
        /\ r.available \in Nat /\ r.supply \in Nat /\ r.queued \in Nat
        /\ r.cap \in Caps
        /\ ONE \in Nat \ {0} /\ U64 \in Nat \ {0}
    BY ScaleAssumption, U64Assumption DEF KlendHolds, Klend!Typed, Caps
  <1>1. /\ ~(amount = 0 \/ ~Klend!withdrawals_open(r) \/ amount > S)
        /\ ~(I = 0 \/ c \notin 1 .. U64 - 1)
        /\ ~(~Klend!known_basis(r) \/ d = 0)
        /\ ~(d > Klend!freely_available(r, x))
        /\ ~(d > Klend!remaining_amount(r.cap, t))
        /\ q = [pays |-> d, redeemed |-> c, before |-> I, after |-> I - c]
    BY DEF Klend!quote_withdraw, Klend!withdraw_at_rate, Klend!Refused, Refused
  <1>2. /\ amount > 0 /\ amount <= S /\ S \in Nat \ {0} /\ I \in Nat \ {0}
        /\ c \in Nat \ {0} /\ Klend!known_basis(r) /\ d # 0
    BY <1>0, <1>1
  <1>3. c <= I /\ S * c <= amount * I
    BY <1>2, BurnKeepsValue DEF Klend!ctokens_to_redeem
  <1>4. q.pays = d /\ q.redeemed = c
    BY <1>1
  <1> HIDE DEF c
  <1>5. r.supply \in Nat \ {0} /\ c <= r.supply
    BY <1>0, <1>2, <1>3
  <1>6. T \in Nat \ {0}
    BY <1>0, <1>5, KlendTotal
  <1>7. x = [cs |-> r.supply, ts |-> T]
    <2>1. x = [cs |-> x.cs, ts |-> x.ts] /\ x.cs = r.supply /\ x.ts = T
      BY <1>0, <1>5, KlendRate
    <2> HIDE DEF x, T
    <2> QED
      BY <2>1
  <1>8. d \in Nat \ {0} /\ r.supply * (ONE * d) <= c * T
    <2>1. d = Klend!collateral_to_liquidity(c, [cs |-> r.supply, ts |-> T])
      BY <1>7
    <2> HIDE DEF T, d
    <2>2. d \in Nat /\ r.supply * (ONE * d) <= c * T
      BY <2>1, <1>2, <1>5, <1>6, KlendWithdrawPays
    <2> QED
      BY <2>2, <1>2
  <1>a. q.pays = Klend!collateral_to_liquidity(q.redeemed, x)
    BY <1>4
  <1> HIDE DEF d
  <1>9. /\ d <= r.available /\ d <= Klend!freely_available(r, x)
        /\ d <= Klend!remaining_amount(r.cap, t)
    <2>1. Klend!collateral_to_liquidity(r.queued, x) \in Nat
      <3> HIDE DEF x, T
      <3> QED
        BY <1>0, <1>5, <1>6, <1>7, KlendWithdrawPays
    <2>2. Klend!freely_available(r, x) \in Nat /\ Klend!freely_available(r, x) <= r.available
      BY <1>0, <2>1 DEF Klend!freely_available, Klend!saturating_sub
    <2>3. Klend!remaining_amount(r.cap, t) \in Nat
      BY <1>0 DEF Klend!remaining_amount, Klend!saturating_sub, Caps
    <2> DEFINE a == Klend!freely_available(r, x)
               b == Klend!remaining_amount(r.cap, t)
    <2>4. ~(d > a) /\ ~(d > b) /\ a \in Nat /\ b \in Nat /\ a <= r.available
      BY <1>1, <2>2, <2>3
    <2> HIDE DEF a, b
    <2>5. d <= a /\ d <= b /\ d <= r.available
      BY <2>4, <1>8, <1>0
    <2> QED
      BY <2>5 DEF a, b
  <1> DEFINE na == r.available - d
             ns == r.supply - c
             ncap == Klend!Counted(r.cap, t, d)
             p == Klend!pre_accrue(r, t)
  <1>10. na \in Nat /\ ns \in Nat /\ d \in Int
    BY <1>0, <1>2, <1>5, <1>8, <1>9
  <1>11. ncap \in Caps
    BY <1>0, <1>10, CapTyped
  <1>12. m = Moved(r, t, na, ns, ncap)
    <2>1. DOMAIN p = Klend!Fields
      BY <1>0, KlendAccrued DEF Klend!Typed
    <2>2. p.available = r.available /\ p.supply = r.supply /\ p.cap = r.cap
      BY <1>0, KlendAccrued
    <2>3. m = [p EXCEPT !.available = p.available - d, !.supply = p.supply - c,
                        !.cap = Klend!Counted(p.cap, t, d)]
      <3> HIDE DEF p
      <3> QED
        BY <1>4, <2>1 DEF Klend!Withdrawn, p, Klend!Fields
    <2> HIDE DEF p
    <2> QED
      BY <2>2, <2>3 DEF p, Moved
  <1> HIDE DEF m, p, na, ns, ncap
  <1>13. /\ Klend!Typed(m) /\ m.available = na /\ m.supply = ns /\ m.queued = r.queued
         /\ m.cap = ncap
         /\ Klend!total_supply_fraction_pre(m) = T + na * ONE - r.available * ONE
         /\ Klend!total_supply_fraction(m, t) = Klend!total_supply_fraction_pre(m)
    <2>1. Klend!Typed(r) /\ Klend!Solvent(r) /\ Klend!known_basis(r)
      BY <1>0, <1>2
    <2>2. na \in Nat /\ ns \in Nat
      BY <1>10
    <2> QED
      BY <2>1, <2>2, <1>11, <1>12, KlendMoved
  <1> DEFINE w == ONE * d
  <1>14. w \in Nat
    BY <1>0, <1>8, SMT
  <1>15. Klend!total_supply_fraction_pre(m) = T - w
    <2>1. na * ONE = r.available * ONE - w /\ r.available * ONE \in Nat
      BY <1>0, <1>8, SMT DEF na
    <2> DEFINE a == r.available * ONE
    <2>2. T + (a - w) - a = T - w
      <3> HIDE DEF a, w, T
      <3> QED
        BY <2>1, <1>6, <1>14 DEF a
    <2> QED
      BY <1>13, <2>1, <2>2
  <1>16. w <= T /\ (c < r.supply => w < T)
    <2>1. r.supply * w <= c * T
      BY <1>8
    <2> HIDE DEF w, T
    <2> QED
      BY <2>1, <1>2, <1>5, <1>6, <1>14, LeftOver
  <1>17. Klend!Solvent(m)
    <2>1. m.queued <= m.supply
      BY <1>0, <1>2, <1>3, <1>5, <1>13 DEF ns
    <2>2. m.supply > 0 => c < r.supply
      BY <1>2, <1>5, <1>13 DEF ns
    <2> HIDE DEF w, T
    <2>3. T - w >= IF m.supply > 0 THEN 1 ELSE 0
      BY <2>2, <1>6, <1>14, <1>16
    <2> QED
      BY <2>1, <2>3, <1>15 DEF Klend!Solvent
  <1>18. KlendHolds(m, I - c)
    <2>1. I - c + m.queued <= m.supply
      BY <1>0, <1>2, <1>3, <1>5, <1>13 DEF ns
    <2> QED
      BY <1>13, <1>17, <2>1 DEF KlendHolds
  <1>19. r.supply > 0
    BY <1>5
  <1> HIDE DEF x, T, I, S
  <1> QED
    BY <1>2, <1>3, <1>4, <1>8, <1>9, <1>13, <1>15, <1>18, <1>19, <1>a
       DEF KlendWithdrawalTaken, x, T, m, na, ns, ncap, w, I, S

\* Klend: a loan leaves the reserve's total as it is.
LEMMA KlendLentFacts ==
    ASSUME NEW r, NEW t, Clock(t), NEW held, KlendHolds(r, held),
           NEW amount \in Nat, amount <= r.available
    PROVE  KlendHolds(Klend!Lent(r, t, amount), held)
  <1> DEFINE c == Klend!pre_accrue(r, t)
             m == Klend!Lent(r, t, amount)
             w == amount * ONE
  <1>1. /\ Klend!Typed(c) /\ Klend!Solvent(c)
        /\ c.available = r.available /\ c.supply = r.supply /\ c.queued = r.queued
    BY KlendAccrued DEF KlendHolds
  <1>2. m = [c EXCEPT !.available = c.available - amount, !.borrowed = c.borrowed + w]
    <2>1. DOMAIN c = Klend!Fields
      BY <1>1 DEF Klend!Typed
    <2> HIDE DEF c
    <2> QED
      BY <2>1 DEF Klend!Lent, Klend!from_num, Klend!Fields, c
  <1>3. DOMAIN c = Klend!Fields /\ c.available \in Nat /\ c.borrowed \in Nat /\ ONE \in Nat \ {0}
    BY <1>1, ScaleAssumption DEF Klend!Typed
  <1> HIDE DEF c, m
  <1>4. /\ DOMAIN m = Klend!Fields
        /\ m.available = c.available - amount /\ m.borrowed = c.borrowed + w
        /\ m.fees = c.fees /\ m.referrer_fees = c.referrer_fees /\ m.supply = c.supply
        /\ m.queued = c.queued /\ m.cap = c.cap /\ m.config = c.config
        /\ m.last_update_slot = c.last_update_slot
        /\ m.last_update_timestamp = c.last_update_timestamp
    BY <1>2, <1>3 DEF Klend!Fields
  <1>5. w \in Nat
    BY <1>3, SMT
  <1>6. m.available \in Nat /\ m.borrowed \in Nat
    <2> HIDE DEF w
    <2> QED
      BY <1>1, <1>3, <1>4, <1>5
  <1>7. Klend!Typed(m)
    BY <1>1, <1>4, <1>6 DEF Klend!Typed
  <1>8. Klend!total_supply_fraction_pre(m) = Klend!total_supply_fraction_pre(c)
    <2> DEFINE a == c.available * ONE
    <2>1. m.available * ONE = a - w /\ a \in Nat
      BY <1>3, <1>4, SMT
    <2>2. c.fees \in Nat /\ c.referrer_fees \in Nat
      BY <1>1 DEF Klend!Typed
    <2>3. (a - w) + (c.borrowed + w) - c.fees - c.referrer_fees
            = a + c.borrowed - c.fees - c.referrer_fees
      <3> HIDE DEF a, w
      <3> QED
        BY <2>1, <2>2, <1>3, <1>5
    <2> QED
      BY <2>1, <2>3, <1>4
         DEF Klend!total_supply_fraction_pre, Klend!total_supply_core, Klend!from_num
  <1>9. Klend!Solvent(m)
    BY <1>1, <1>4, <1>8 DEF Klend!Solvent
  <1>10. held + m.queued <= m.supply
    BY <1>1, <1>4 DEF KlendHolds
  <1> QED
    BY <1>7, <1>9, <1>10 DEF KlendHolds, m

\* Klend: the reserve is solvent, and the vault's position and what is queued are
\* collateral that it has issued.
KlendInv == source = "Klend" => KlendHolds(pool, wv.intermediate_held)

\* The quote behind a trade is the source's.
LEMMA QuoteOfTrade ==
    ASSUME NEW q, NEW amount, q # Refused
    PROVE  /\ q = quote_deposit(pool, wv, amount) =>
                q = source_quote_deposit(pool, wv, net_amount(amount))
           /\ q = quote_withdraw(pool, wv, amount) => q = source_quote_withdraw(pool, wv, amount)
  <1>1. ASSUME q = quote_deposit(pool, wv, amount)
        PROVE  q = source_quote_deposit(pool, wv, net_amount(amount))
    <2> DEFINE s == source_quote_deposit(pool, wv, net_amount(amount))
    <2>1. q = CheckedDeposit(wv, s)
      BY <1>1 DEF quote_deposit
    <2> HIDE DEF s
    <2>2. q = s
      BY <2>1 DEF CheckedDeposit
    <2> QED
      BY <2>2 DEF s
  <1>2. ASSUME q = quote_withdraw(pool, wv, amount)
        PROVE  q = source_quote_withdraw(pool, wv, amount)
    <2> DEFINE s == source_quote_withdraw(pool, wv, amount)
    <2>1. q = CheckedWithdraw(wv, amount, s)
      BY <1>2 DEF quote_withdraw
    <2> HIDE DEF s
    <2>2. q = s
      BY <2>1 DEF CheckedWithdraw
    <2> QED
      BY <2>2 DEF s
  <1> QED
    BY <1>1, <1>2

\* The vault after a trade with a source other than Lulo.
LEMMA VaultAfterTrade ==
    ASSUME VaultTyped, source # "Lulo", NEW q, NEW amount
    PROVE  /\ VaultDeposited(wv, q).wrapper_supply = wv.wrapper_supply + q.mint
           /\ VaultDeposited(wv, q).intermediate_held = wv.intermediate_held + q.brought
           /\ VaultWithdrawn(pool, wv, amount, q).wrapper_supply = wv.wrapper_supply - amount
           /\ VaultWithdrawn(pool, wv, amount, q).intermediate_held
                = wv.intermediate_held - q.redeemed
  BY DEF VaultTyped, VaultDeposited, VaultWithdrawn

\* Every step leaves the reserve solvent.
LEMMA KlendInvStep == VaultInv /\ SourceInv /\ KlendInv /\ [Next]_vars => KlendInv'
  <1> SUFFICES ASSUME VaultInv, SourceInv, KlendInv, [Next]_vars, source' = "Klend"
               PROVE  KlendHolds(pool', wv'.intermediate_held)
    BY DEF KlendInv
  <1>0. source = "Klend"
    BY DEF Next, Tick, Refresh, Switch, Lend, Credit, Deposit, Withdraw, vars
  <1>1. /\ Clock(now) /\ KlendHolds(pool, wv.intermediate_held) /\ VaultTyped
        /\ wv.intermediate_held \in Nat /\ wv.wrapper_supply \in Nat /\ DOMAIN pool = Klend!Fields
    BY <1>0 DEF SourceInv, KlendInv, VaultInv, VaultTyped, Fields
  <1>2. CASE Tick \/ UNCHANGED vars
    <2>1. pool' = pool /\ wv' = wv
      BY <1>2 DEF Tick, vars
    <2> QED
      BY <2>1, <1>1
  <1>3. CASE Refresh
    <2>1. pool' = Klend!pre_accrue(pool, now) /\ wv' = wv
      BY <1>0, <1>3 DEF Refresh, pre_accrue
    <2>2. /\ Klend!Typed(pool') /\ Klend!Solvent(pool')
          /\ pool'.queued = pool.queued /\ pool'.supply = pool.supply
      BY <2>1, <1>1, KlendAccrued DEF KlendHolds
    <2> QED
      BY <2>1, <2>2, <1>1 DEF KlendHolds
  <1>4. CASE Switch
    <2>1. PICK change \in Switches["Klend"] :
             pool' = [f \in DOMAIN pool |-> IF f \in DOMAIN change THEN change[f] ELSE pool[f]]
      BY <1>0, <1>4 DEF Switch
    <2>2. DOMAIN change \subseteq {"flags"}
      BY <1>0, KlendAssumption DEF SourceInv
    <2>3. /\ DOMAIN pool' = Klend!Fields
          /\ \A f \in Klend!Fields \ {"flags"} : pool'[f] = pool[f]
      BY <2>1, <2>2, <1>1
    <2>4. /\ pool'.available = pool.available /\ pool'.borrowed = pool.borrowed
          /\ pool'.fees = pool.fees /\ pool'.referrer_fees = pool.referrer_fees
          /\ pool'.supply = pool.supply /\ pool'.last_update_slot = pool.last_update_slot
          /\ pool'.last_update_timestamp = pool.last_update_timestamp
          /\ pool'.queued = pool.queued /\ pool'.cap = pool.cap /\ pool'.config = pool.config
      BY <2>3 DEF Klend!Fields
    <2>5. wv' = wv
      BY <1>4 DEF Switch
    <2>6. Klend!Typed(pool')
      BY <2>3, <2>4, <1>1 DEF Klend!Typed, KlendHolds
    <2>7. Klend!Solvent(pool')
      BY <2>4, <1>1 DEF Klend!Solvent, KlendHolds, Klend!total_supply_fraction_pre
    <2> QED
      BY <2>4, <2>5, <2>6, <2>7, <1>1 DEF KlendHolds
  <1>5. ASSUME NEW amount \in Loans[source], Lend(amount)
        PROVE  KlendHolds(pool', wv'.intermediate_held)
    <2>1. pool' = Klend!Lent(pool, now, amount) /\ wv' = wv /\ amount <= pool.available
      BY <1>0, <1>5 DEF Lend, Lent, Lendable
    <2>2. amount \in Nat
      BY <1>0, <1>5, AmountsAssumption DEF SourceInv
    <2> QED
      BY <2>1, <2>2, <1>1, KlendLentFacts
  <1>6. ASSUME NEW amount \in Amounts, Deposit(amount)
        PROVE  KlendHolds(pool', wv'.intermediate_held)
    <2>1. PICK q : /\ q = quote_deposit(pool, wv, amount) /\ q # Refused
                   /\ pool' = Deposited(pool, wv, q) /\ wv' = VaultDeposited(wv, q)
      BY <1>6 DEF Deposit
    <2>2. q = Klend!quote_deposit(pool, now, wv, net_amount(amount))
      BY <1>0, <2>1, QuoteOfTrade DEF source_quote_deposit
    <2>3. pool' = Klend!Deposited(pool, now, wv, q)
      BY <1>0, <2>1 DEF Deposited
    <2>4. wv'.intermediate_held = wv.intermediate_held + q.brought
      BY <1>0, <1>1, <2>1, VaultAfterTrade
    <2>5. KlendHolds(Klend!Deposited(pool, now, wv, q), wv.intermediate_held + q.brought)
      BY <1>1, <2>1, <2>2, KlendDepositFacts DEF KlendDepositTaken
    <2> QED
      BY <2>3, <2>4, <2>5
  <1>7. ASSUME NEW amount \in Amounts, Withdraw(amount)
        PROVE  KlendHolds(pool', wv'.intermediate_held)
    <2>1. PICK q : /\ q = quote_withdraw(pool, wv, amount) /\ q # Refused
                   /\ pool' = Withdrawn(pool, wv, q) /\ wv' = VaultWithdrawn(pool, wv, amount, q)
      BY <1>7 DEF Withdraw
    <2>2. q = Klend!quote_withdraw(pool, now, wv, amount)
      BY <1>0, <2>1, QuoteOfTrade DEF source_quote_withdraw
    <2>3. pool' = Klend!Withdrawn(pool, now, wv, q)
      BY <1>0, <2>1 DEF Withdrawn
    <2>4. wv'.intermediate_held = wv.intermediate_held - q.redeemed
      BY <1>0, <1>1, <2>1, VaultAfterTrade
    <2>5. amount \in Nat
      BY AmountsAssumption
    <2>6. KlendHolds(Klend!Withdrawn(pool, now, wv, q), wv.intermediate_held - q.redeemed)
      BY <1>1, <2>1, <2>2, <2>5, KlendWithdrawFacts DEF KlendWithdrawalTaken
    <2> QED
      BY <2>3, <2>4, <2>6
  <1> QED
    BY <1>0, <1>2, <1>3, <1>4, <1>5, <1>6, <1>7 DEF Next, Credit

\* The reserves of the instance are solvent at the start.
LEMMA KlendInvInit == Init => KlendInv
  <1> SUFFICES ASSUME Init, source = "Klend"
               PROVE  KlendHolds(pool, wv.intermediate_held)
    BY DEF KlendInv
  <1>1. Klend!Typed(pool) /\ Klend!Solvent(pool)
    BY KlendAssumption DEF Init
  <1>2. wv.intermediate_held = 0
    BY DEF Init
  <1>3. 0 + pool.queued <= pool.supply
    BY <1>1 DEF Klend!Typed, Klend!Solvent
  <1> QED
    BY <1>1, <1>2, <1>3 DEF KlendHolds

\* A Klend reserve is solvent in every reachable state.
THEOREM KlendInvHolds == Spec => []KlendInv
  BY KlendInvInit, KlendInvStep, VaultInvInit, VaultInvStep, SourceInvInit, SourceInvStep, PTL
     DEF Spec

-----------------------------------------------------------------------------
(* Klend: what withdrawals leave, and a round trip                          *)

\* Klend: a withdrawal pays all of what its collateral is worth but less than one.
LEMMA KlendWithdrawPaysMost ==
    ASSUME NEW cs \in Nat \ {0}, NEW ts \in Nat \ {0}, NEW c \in Nat
    PROVE  LET p == Klend!collateral_to_liquidity(c, [cs |-> cs, ts |-> ts])
           IN  /\ p \in Nat /\ c * ts < cs * (ONE * (p + 1))
               /\ \A z \in Nat : cs * (ONE * z) <= c * ts => z <= p
  <1> DEFINE a == c * ts
             f == a \div cs
             p == f \div ONE
  <1>0. ONE \in Nat \ {0} /\ a \in Nat
    BY ScaleAssumption, SMT
  <1> HIDE DEF a
  <1>1. f \in Nat /\ a < cs * f + cs
    BY <1>0, SMT
  <1>2. \A y \in Nat : cs * y <= a => y <= f
    BY <1>0, FloorAbove
  <1> HIDE DEF f
  <1>3. p \in Nat /\ f < ONE * p + ONE
    BY <1>0, <1>1, SMT
  <1>4. \A z \in Nat : ONE * z <= f => z <= p
    BY <1>0, <1>1, FloorAbove
  <1> HIDE DEF p
  <1> DEFINE y == ONE * (p + 1)
  <1>5. y \in Nat /\ y = ONE * p + ONE
    BY <1>0, <1>3, SMT
  <1>6. f + 1 <= y
    <2> DEFINE k == ONE * p
    <2>1. k \in Nat
      BY <1>0, <1>3, SMT
    <2> HIDE DEF k, y
    <2> QED
      BY <2>1, <1>0, <1>1, <1>3, <1>5 DEF k
  <1> HIDE DEF y
  <1>7. cs * (f + 1) <= cs * y /\ cs * (f + 1) = cs * f + cs
    BY <1>1, <1>5, <1>6, SMT
  <1>8. a < cs * y
    <2> DEFINE k == cs * f
               l == cs * y
    <2>1. k \in Nat /\ l \in Nat
      BY <1>1, <1>5, SMT
    <2>2. a < k + cs /\ k + cs <= l
      BY <1>1, <1>7
    <2> HIDE DEF k, l
    <2>3. a < l
      BY <2>1, <2>2, <1>0
    <2> QED
      BY <2>3 DEF l
  <1>9. ASSUME NEW z \in Nat, cs * (ONE * z) <= a
        PROVE  z <= p
    <2> DEFINE k == ONE * z
    <2>1. k \in Nat
      BY <1>0, SMT
    <2> HIDE DEF k
    <2>2. k <= f
      BY <1>2, <1>9, <2>1 DEF k
    <2> QED
      BY <1>4, <2>2 DEF k
  <1>10. Klend!collateral_to_liquidity(c, [cs |-> cs, ts |-> ts]) = p
    BY DEF Klend!collateral_to_liquidity, Klend!fraction_collateral_to_liquidity, Klend!floor, p, f, a
  <1> QED
    BY <1>3, <1>8, <1>9, <1>10 DEF y, a

\* The arithmetic of OutflowLimited: of s collateral with T behind it, c is redeemed
\* for p; q of what is left is then worth at most one more.
LEMMA QueueDearerByOne ==
    ASSUME NEW s \in Nat \ {0}, NEW T \in Nat \ {0}, NEW c \in Nat, NEW p \in Nat, c < s,
           NEW q \in Nat, q <= s - c, ONE * p < T,
           c * T < s * (ONE * (p + 1)),
           NEW l \in Nat, (s - c) * (ONE * (l + 1)) <= q * (T - ONE * p)
    PROVE  s * (ONE * l) <= q * T
  <1> DEFINE d == s - c
             P == ONE * p
             W == T - P
             L == ONE * l
  <1>0. ONE \in Nat \ {0} /\ d \in Nat \ {0} /\ P \in Nat
    BY ScaleAssumption, SMT
  <1>1. W \in Nat /\ L \in Nat
    BY <1>0, SMT
  <1>2. ONE * (p + 1) = P + ONE /\ ONE * (l + 1) = L + ONE
    BY <1>0, SMT
  <1>3. c * T < s * (P + ONE) /\ d * (L + ONE) <= q * W /\ q <= d
    BY <1>2
  <1>4. c = s - d /\ P = T - W
    BY <1>0, <1>1, SMT
  <1> HIDE DEF d, P, W, L
  <1>5. s * W <= d * T + s * ONE
    <2> DEFINE cT == c * T
               sP == s * P
               sO == s * ONE
               sT == s * T
               sW == s * W
               dT == d * T
    <2>1. cT \in Nat /\ sP \in Nat /\ sO \in Nat /\ sT \in Nat /\ sW \in Nat /\ dT \in Nat
      BY <1>0, <1>1, SMT
    <2>2. s * (P + ONE) = sP + sO
      BY <1>0, SMT
    <2>3. cT = sT - dT /\ sP = sT - sW
      BY <1>0, <1>1, <1>4, SMT
    <2>4. cT < sP + sO
      BY <1>3, <2>2
    <2> HIDE DEF cT, sP, sO, sT, sW, dT
    <2>5. sW <= dT + sO
      BY <2>1, <2>3, <2>4
    <2> QED
      BY <2>5 DEF sW, dT, sO
  <1>6. q * (s * W) <= q * (d * T + s * ONE)
    <2> DEFINE x == s * W
               y == d * T + s * ONE
    <2>1. x \in Nat /\ y \in Nat /\ x <= y
      BY <1>0, <1>1, <1>5, SMT
    <2> HIDE DEF x, y
    <2>2. q * x <= q * y
      BY <2>1, SMT
    <2> QED
      BY <2>2 DEF x, y
  <1>7. s * (d * (L + ONE)) <= s * (q * W)
    <2> DEFINE x == d * (L + ONE)
               y == q * W
    <2>1. x \in Nat /\ y \in Nat /\ x <= y
      BY <1>0, <1>1, <1>3, SMT
    <2> HIDE DEF x, y
    <2>2. s * x <= s * y
      BY <2>1, SMT
    <2> QED
      BY <2>2 DEF x, y
  <1>8. q * (s * ONE) <= d * (s * ONE)
    <2> DEFINE x == s * ONE
    <2>1. x \in Nat
      BY <1>0, SMT
    <2> HIDE DEF x
    <2>2. q * x <= d * x
      BY <2>1, <1>0, <1>3, SMT
    <2> QED
      BY <2>2 DEF x
  <1>9. d * (s * L) <= d * (q * T)
    <2> DEFINE sL == s * L
               qT == q * T
               sO == s * ONE
               A == d * sL
               B == d * sO
               C == s * (q * W)
               D == q * sO
               E == d * qT
    <2>1. sL \in Nat /\ qT \in Nat /\ sO \in Nat
      BY <1>0, <1>1, SMT
    <2>2. A \in Nat /\ B \in Nat /\ D \in Nat /\ E \in Nat
      <3> HIDE DEF sL, qT, sO
      <3> QED
        BY <1>0, <2>1, SMT
    <2>3. q * W \in Nat /\ C \in Nat
      <3>1. q * W \in Nat
        BY <1>1, SMT
      <3> DEFINE y == q * W
      <3> HIDE DEF y
      <3>2. s * y \in Nat
        BY <3>1, SMT DEF y
      <3> QED
        BY <3>1, <3>2 DEF y
    <2>4. s * (d * (L + ONE)) = A + B
      BY <1>0, <1>1, SMT
    <2>5. q * (s * W) = C
      BY <1>1, SMT
    <2>6. q * (d * T + s * ONE) = E + D
      BY <1>0, SMT
    <2>7. A + B <= C /\ C <= E + D /\ D <= B
      BY <1>6, <1>7, <1>8, <2>4, <2>5, <2>6
    <2> HIDE DEF A, B, C, D, E
    <2>8. A <= E
      BY <2>2, <2>3, <2>7
    <2> QED
      BY <2>8 DEF A, E
  <1>10. s * L <= q * T
    <2> DEFINE x == s * L
               y == q * T
    <2>1. x \in Nat /\ y \in Nat
      BY <1>0, <1>1, SMT
    <2> HIDE DEF x, y
    <2>2. d * x <= d * y
      BY <1>9 DEF x, y
    <2>3. x <= y
      BY <2>1, <2>2, <1>0, CancelFactor
    <2> QED
      BY <2>3 DEF x, y
  <1> QED
    BY <1>10 DEF L

\* Klend: a withdrawal that the cap allows leaves the running total within it.
LEMMA CapKept ==
    ASSUME NEW cap \in Caps, NEW t, Clock(t), NEW p \in Nat \ {0},
           p <= Klend!remaining_amount(cap, t), NEW after, after = Klend!Counted(cap, t, p)
    PROVE  after.interval > 0 => after.current_total <= after.capacity
  <1> DEFINE ct == IF Klend!interval_elapsed(cap, t) THEN 0 ELSE cap.current_total
  <1>0. cap.interval \in Nat /\ cap.capacity \in Int /\ cap.current_total \in Int /\ ct \in Int
    BY DEF Caps
  <1>1. after.interval = cap.interval /\ after.capacity = cap.capacity /\ after.current_total = ct + p
    BY DEF Klend!Counted, Caps
  <1> SUFFICES ASSUME cap.interval > 0
               PROVE  ct + p <= cap.capacity
    BY <1>1
  <1> HIDE DEF ct
  <1>2. p <= IF cap.capacity < 0 THEN 0 ELSE Klend!saturating_sub(cap.capacity, ct)
    BY <1>0 DEF Klend!remaining_amount, ct
  <1> QED
    BY <1>0, <1>2 DEF Klend!saturating_sub

\* Klend: after a quoted withdrawal, what is queued is still available but for one.
LEMMA QueueKept ==
    ASSUME NEW r, NEW v, NEW t, Clock(t), v.intermediate_held \in Nat,
           v.wrapper_supply \in Nat, KlendHolds(r, v.intermediate_held), NEW amount \in Nat,
           NEW q, q = Klend!quote_withdraw(r, t, v, amount), q # Refused,
           NEW m, m = Klend!Withdrawn(r, t, v, q)
    PROVE  Klend!collateral_to_liquidity(m.queued, Klend!exchange_rate(m, t)) <= m.available + 1
  <1> DEFINE x == Klend!exchange_rate(r, t)
             T == Klend!total_supply_fraction(r, t)
             s == r.supply
             c == q.redeemed
             p == q.pays
             Q == r.queued
             y == Klend!exchange_rate(m, t)
             L == Klend!collateral_to_liquidity(Q, x)
             N == Klend!collateral_to_liquidity(Q, y)
  <1>0. /\ Klend!Typed(r) /\ Klend!Solvent(r) /\ s \in Nat /\ Q \in Nat /\ r.available \in Nat
        /\ ONE \in Nat \ {0}
    BY ScaleAssumption DEF KlendHolds, Klend!Typed
  <1>1. /\ c \in Nat \ {0} /\ p \in Nat \ {0} /\ s > 0
        /\ p = Klend!collateral_to_liquidity(c, x)
        /\ p <= Klend!freely_available(r, x)
        /\ KlendHolds(m, v.intermediate_held - c)
        /\ m.available = r.available - p /\ m.supply = s - c /\ m.queued = Q
        /\ Klend!total_supply_fraction(m, t) = T - ONE * p
    <2>1. KlendWithdrawalTaken(r, t, v, amount, q)
      BY KlendWithdrawFacts
    <2> QED
      BY <2>1 DEF KlendWithdrawalTaken
  <1>2. T \in Nat \ {0} /\ s \in Nat \ {0}
    BY <1>0, <1>1, KlendTotal
  <1>3. x = [cs |-> s, ts |-> T]
    <2>1. x = [cs |-> x.cs, ts |-> x.ts] /\ x.cs = s /\ x.ts = T
      BY <1>0, <1>1, KlendRate
    <2> HIDE DEF x, T, s
    <2> QED
      BY <2>1
  <1>4. L \in Nat /\ \A z \in Nat : s * (ONE * z) <= Q * T => z <= L
    <2> HIDE DEF x, T, s, Q
    <2> QED
      BY <1>0, <1>2, <1>3, KlendWithdrawPaysMost
  <1>5. c * T < s * (ONE * (p + 1))
    <2> HIDE DEF x, T, s, c, p
    <2> QED
      BY <1>1, <1>2, <1>3, KlendWithdrawPaysMost
  <1>6. L + p <= r.available
    <2>1. p <= Klend!saturating_sub(r.available, L)
      BY <1>1 DEF Klend!freely_available
    <2> HIDE DEF L, p
    <2> QED
      BY <2>1, <1>0, <1>1, <1>4 DEF Klend!saturating_sub
  <1>7. Klend!Typed(m) /\ Klend!Solvent(m) /\ m.supply \in Nat /\ Q <= m.supply
    BY <1>1 DEF KlendHolds, Klend!Typed, Klend!Solvent
  <1>8. N <= L + 1
    <2>1. CASE m.supply = 0
      <3>1. y = [cs |-> y.cs, ts |-> y.ts] /\ y.cs = 1 /\ y.ts = ONE
        BY <1>7, <2>1, KlendRate
      <3>2. y = [cs |-> 1, ts |-> ONE]
        <4> HIDE DEF y
        <4> QED
          BY <3>1
      <3>3. Q = 0
        BY <1>0, <1>7, <2>1
      <3> HIDE DEF y
      <3>4. N \in Nat /\ 1 * (ONE * N) <= Q * ONE
        BY <1>0, <3>2, KlendWithdrawPays
      <3> HIDE DEF N
      <3>5. ONE * N \in Nat /\ 1 * (ONE * N) = ONE * N /\ Q * ONE = 0
        BY <1>0, <3>3, <3>4, SMT
      <3>6. ONE * N = 0
        BY <3>4, <3>5
      <3>7. N = 0
        BY <1>0, <3>4, <3>6, SMT
      <3> QED
        BY <3>7, <1>4
    <2>2. CASE m.supply # 0
      <3> DEFINE U == Klend!total_supply_fraction(m, t)
      <3>1. m.supply > 0 /\ c < s
        BY <1>1, <1>2, <1>7, <2>2
      <3>2. U \in Nat \ {0}
        BY <1>7, <3>1, KlendTotal
      <3>3. y = [cs |-> s - c, ts |-> U]
        <4>1. y = [cs |-> y.cs, ts |-> y.ts] /\ y.cs = s - c /\ y.ts = U
          BY <1>1, <1>7, <3>1, KlendRate
        <4> HIDE DEF y, U, s, c
        <4> QED
          BY <4>1
      <3> HIDE DEF y, T, s, c, p, Q, U
      <3>4. N \in Nat /\ (s - c) * (ONE * N) <= Q * U
        <4>1. s - c \in Nat \ {0}
          BY <1>1, <1>2, <3>1
        <4> DEFINE d == s - c
        <4> HIDE DEF d
        <4>2. N \in Nat /\ d * (ONE * N) <= Q * U
          BY <1>0, <3>2, <3>3, <4>1, KlendWithdrawPays DEF d
        <4> QED
          BY <4>2 DEF d
      <3>5. U = T - ONE * p
        BY <1>1 DEF U, T, p
      <3>6. ONE * p < T
        <4>1. ONE * p \in Nat
          BY <1>0, <1>1, SMT
        <4> QED
          BY <4>1, <1>2, <3>2, <3>5
      <3>7. CASE N = 0
        BY <3>7, <1>4
      <3>8. CASE N # 0
        <4> DEFINE l == N - 1
        <4>1. l \in Nat /\ N = l + 1
          BY <3>4, <3>8
        <4> HIDE DEF l, N
        <4>2. (s - c) * (ONE * (l + 1)) <= Q * (T - ONE * p)
          BY <3>4, <3>5, <4>1
        <4>3. Q <= s - c
          BY <1>1, <1>7
        <4>4. s * (ONE * l) <= Q * T
          BY <1>0, <1>1, <1>2, <1>5, <3>1, <3>6, <4>1, <4>2, <4>3, QueueDearerByOne
        <4>5. l <= L
          BY <1>4, <4>1, <4>4
        <4> QED
          BY <4>1, <4>5, <1>4
      <3> QED
        BY <3>7, <3>8
    <2> QED
      BY <2>1, <2>2
  <1>9. N \in Nat
    <2>1. y = [cs |-> y.cs, ts |-> y.ts] /\ y.cs \in Nat \ {0} /\ y.ts \in Nat \ {0}
      BY <1>7, KlendRate
    <2> DEFINE k == y.cs
               l == y.ts
    <2>2. N = Klend!collateral_to_liquidity(Q, [cs |-> k, ts |-> l])
      BY <2>1
    <2>3. k \in Nat \ {0} /\ l \in Nat \ {0}
      BY <2>1
    <2> HIDE DEF k, l, N, Q
    <2> QED
      BY <1>0, <2>2, <2>3, KlendWithdrawPays
  <1> HIDE DEF N, L
  <1>10. N <= m.available + 1
    BY <1>0, <1>1, <1>4, <1>6, <1>8, <1>9
  <1> QED
    BY <1>1, <1>10 DEF N, y

\* Klend: whatever trades, loans and accruals came before, a withdrawal keeps the
\* interval's total within its cap and leaves the queue what it is owed but for one.
THEOREM OutflowLimitedHolds == Spec => OutflowLimited
  <1>1. ASSUME VaultInv, SourceInv, KlendInv, [Next]_vars,
               source = "Klend", wv'.wrapper_supply < wv.wrapper_supply
        PROVE  /\ pool'.cap.interval > 0 => pool'.cap.current_total <= pool'.cap.capacity
               /\ Klend!collateral_to_liquidity(pool'.queued, Klend!exchange_rate(pool', now'))
                    <= pool'.available + 1
    <2>0. /\ Clock(now) /\ KlendHolds(pool, wv.intermediate_held) /\ VaultTyped
          /\ wv.intermediate_held \in Nat /\ wv.wrapper_supply \in Nat
          /\ pool.cap \in Caps
      BY <1>1 DEF SourceInv, KlendInv, VaultInv, VaultTyped, KlendHolds, Klend!Typed, Caps
    <2>1. wv' # wv
      BY <1>1, <2>0
    <2>2. ASSUME NEW amount \in Amounts, Deposit(amount)
          PROVE  FALSE
      <3>1. PICK q : /\ q = quote_deposit(pool, wv, amount) /\ q # Refused
                     /\ wv' = VaultDeposited(wv, q)
        BY <2>2 DEF Deposit
      <3>2. q = Klend!quote_deposit(pool, now, wv, net_amount(amount))
        BY <1>1, <3>1, QuoteOfTrade DEF source_quote_deposit
      <3>3. q.mint \in 1 .. U64 - 1
        <4>1. KlendDepositTaken(pool, now, wv, net_amount(amount), q)
          BY <2>0, <3>1, <3>2, KlendDepositFacts
        <4> QED
          BY <4>1 DEF KlendDepositTaken
      <3>4. wv'.wrapper_supply = wv.wrapper_supply + q.mint
        BY <1>1, <2>0, <3>1, VaultAfterTrade
      <3> QED
        BY <1>1, <2>0, <3>3, <3>4, U64Assumption
    <2>3. PICK amount \in Amounts : Withdraw(amount)
      BY <1>1, <2>1, <2>2 DEF Next, Tick, Refresh, Switch, Lend, Credit, vars
    <2>4. PICK q : /\ q = quote_withdraw(pool, wv, amount) /\ q # Refused
                   /\ pool' = Withdrawn(pool, wv, q)
      BY <2>3 DEF Withdraw
    <2>5. q = Klend!quote_withdraw(pool, now, wv, amount)
      BY <1>1, <2>4, QuoteOfTrade DEF source_quote_withdraw
    <2>6. pool' = Klend!Withdrawn(pool, now, wv, q) /\ now' = now
      BY <1>1, <2>3, <2>4 DEF Withdrawn, Withdraw
    <2>7. amount \in Nat
      BY AmountsAssumption
    <2>8. Klend!collateral_to_liquidity(pool'.queued, Klend!exchange_rate(pool', now))
            <= pool'.available + 1
      BY <2>0, <2>4, <2>5, <2>6, <2>7, QueueKept
    <2>9. /\ q.pays \in Nat \ {0} /\ q.pays <= Klend!remaining_amount(pool.cap, now)
          /\ pool'.cap = Klend!Counted(pool.cap, now, q.pays)
      <3>1. KlendWithdrawalTaken(pool, now, wv, amount, q)
        BY <2>0, <2>4, <2>5, <2>7, KlendWithdrawFacts
      <3> QED
        BY <3>1, <2>6 DEF KlendWithdrawalTaken
    <2>10. pool'.cap.interval > 0 => pool'.cap.current_total <= pool'.cap.capacity
      BY <2>0, <2>9, CapKept
    <2> QED
      BY <2>6, <2>8, <2>10
  <1>2. VaultInv /\ SourceInv /\ KlendInv /\ [Next]_vars =>
          [source = "Klend" /\ wv'.wrapper_supply < wv.wrapper_supply =>
             /\ pool'.cap.interval > 0 => pool'.cap.current_total <= pool'.cap.capacity
             /\ Klend!collateral_to_liquidity(pool'.queued, Klend!exchange_rate(pool', now'))
                  <= pool'.available + 1]_vars
    BY <1>1
  <1> QED
    BY <1>2, VaultInvHolds, SourceInvInit, SourceInvStep, KlendInvHolds, PTL
       DEF Spec, OutflowLimited

\* Shares minted pro rata redeem at most the position that was brought for them.
LEMMA MintedRedeemBrought ==
    ASSUME NEW S \in Nat, NEW I \in Nat, NEW g \in Nat \ {0}, NEW c \in Nat, NEW b \in Nat,
           S = 0 <=> I = 0, S # 0 => I * g <= c * S, (S + g) * b <= g * (I + c)
    PROVE  b <= c
  <1> DEFINE gI == I * g
             gc == g * c
             cS == c * S
  <1>0. gI \in Nat /\ gc \in Nat /\ cS \in Nat
    BY SMT
  <1>1. g * (I + c) = gI + gc
    BY SMT
  <1>2. gI <= cS
    <2>1. CASE S = 0
      <3>1. I = 0
        BY <2>1
      <3>2. gI = 0
        BY <3>1
      <3> QED
        BY <3>2, <1>0
    <2>2. CASE S # 0
      BY <2>2
    <2> QED
      BY <2>1, <2>2
  <1>3. (S + g) * c = cS + gc
    BY SMT
  <1> DEFINE k == S + g
             kb == k * b
             kc == k * c
  <1>4. k \in Nat \ {0}
    BY SMT
  <1>5. kb \in Nat /\ kc \in Nat
    <2> HIDE DEF k
    <2> QED
      BY <1>4, SMT
  <1>6. kb <= gI + gc /\ kc = cS + gc
    BY <1>1, <1>3
  <1> HIDE DEF kb, kc, gI, gc, cS
  <1>7. kb <= kc
    BY <1>0, <1>2, <1>5, <1>6
  <1>8. k * b <= k * c
    BY <1>7 DEF kb, kc
  <1> HIDE DEF k
  <1> QED
    BY <1>4, <1>8, CancelFactor

\* Liquidity d paid in for collateral c at a rate it is worth covers what the
\* collateral is then redeemed for.
LEMMA PaidInCoversPaidOut ==
    ASSUME NEW s \in Nat, NEW T \in Nat, NEW c \in Nat \ {0}, NEW b \in Nat, b <= c,
           NEW d \in Nat, NEW p \in Nat,
           s # 0 => c * T <= s * (ONE * d),
           s = 0 => T < ONE,
           (s + c) * (ONE * p) <= b * (T + ONE * d)
    PROVE  p <= d
  <1> DEFINE P == ONE * p
             D == ONE * d
             k == s + c
  <1>0. ONE \in Nat \ {0} /\ P \in Nat /\ D \in Nat /\ k \in Nat \ {0}
    BY ScaleAssumption, SMT
  <1> HIDE DEF P, D
  <1>1. k * P <= c * (T + D)
    <2> DEFINE w == T + D
               x == k * P
               y == b * w
               z == c * w
    <2>1. w \in Nat
      BY <1>0
    <2> HIDE DEF w, k
    <2>2. x \in Nat /\ y \in Nat /\ z \in Nat /\ y <= z
      BY <1>0, <2>1, SMT
    <2>3. x <= y
      BY DEF P, D, w, k
    <2> HIDE DEF x, y, z
    <2>4. x <= z
      BY <2>2, <2>3
    <2> QED
      BY <2>4 DEF x, z, w
  <1> DEFINE cT == c * T
             cD == c * D
             sD == s * D
  <1>2. cT \in Nat /\ cD \in Nat /\ sD \in Nat
    BY <1>0, SMT
  <1>3. c * (T + D) = cT + cD /\ k * D = sD + cD
    BY <1>0, SMT
  <1>4. CASE s # 0
    <2>1. cT <= sD
      BY <1>4 DEF D
    <2>2. k * P <= k * D
      <3> DEFINE x == k * P
                 y == k * D
      <3>1. x \in Nat /\ y \in Nat
        <4> HIDE DEF k
        <4> QED
          BY <1>0, SMT
      <3>2. x <= cT + cD /\ y = sD + cD
        BY <1>1, <1>3
      <3> HIDE DEF x, y, cT, cD, sD
      <3>3. x <= y
        BY <1>2, <2>1, <3>1, <3>2
      <3> QED
        BY <3>3 DEF x, y
    <2> HIDE DEF k
    <2>3. P <= D
      BY <1>0, <2>2, CancelFactor
    <2>4. ONE * p <= ONE * d
      BY <2>3 DEF P, D
    <2> QED
      BY <1>0, <2>4, CancelFactor
  <1>5. CASE s = 0
    <2>1. k = c
      BY <1>5
    <2>2. c * P <= c * (T + D)
      BY <1>1, <2>1
    <2> DEFINE w == T + D
    <2>3. w \in Nat
      BY <1>0
    <2> HIDE DEF w
    <2>4. P <= w
      BY <1>0, <2>2, <2>3, CancelFactor DEF w
    <2>5. P < ONE + D
      BY <1>0, <1>5, <2>4 DEF w
    <2> SUFFICES ASSUME d < p PROVE FALSE
      OBVIOUS
    <2>6. ONE * (d + 1) <= ONE * p /\ ONE * (d + 1) = ONE * d + ONE
      BY <1>0, SMT
    <2>7. D + ONE <= P
      BY <2>6 DEF D, P
    <2> QED
      BY <1>0, <2>5, <2>7
  <1> QED
    BY <1>4, <1>5

\* Klend: a reserve that has issued no collateral owns less than a token.
EmptyOwnsDust == pool.supply = 0 => Klend!total_supply_fraction(pool, now) < ONE

\* Klend: depositing and at once burning the shares never pays out more than was
\* paid in, whatever came before, as long as a reserve that has issued no
\* collateral owns less than a token.
THEOREM KlendRoundTrip ==
    Spec => []((source = "Klend" /\ EmptyOwnsDust) => RoundTripNoProfit)
  <1>1. ASSUME VaultInv, SourceInv, KlendInv, source = "Klend", EmptyOwnsDust
        PROVE  RoundTripNoProfit
    <2> SUFFICES ASSUME NEW amount \in Amounts,
                        NEW d, d = quote_deposit(pool, wv, amount), d # Refused,
                        NEW w, w = quote_withdraw(Deposited(pool, wv, d), VaultDeposited(wv, d), d.mint),
                        w # Refused
                 PROVE  w.pays <= amount
      BY DEF RoundTripNoProfit
    <2> DEFINE S == wv.wrapper_supply
               I == wv.intermediate_held
               T == Klend!total_supply_fraction(pool, now)
               x == Klend!exchange_rate(pool, now)
               s == pool.supply
               net == net_amount(amount)
               m == Klend!Deposited(pool, now, wv, d)
               u == VaultDeposited(wv, d)
    <2>0. /\ Clock(now) /\ KlendHolds(pool, I) /\ VaultTyped /\ VaultInv
          /\ I \in Nat /\ S \in Nat /\ (S = 0 <=> I = 0) /\ ONE \in Nat \ {0}
          /\ Klend!Typed(pool) /\ Klend!Solvent(pool) /\ s \in Nat
      BY <1>1, ScaleAssumption DEF SourceInv, KlendInv, VaultInv, VaultTyped, KlendHolds, Klend!Typed
    <2>1. d = source_quote_deposit(pool, wv, net)
      BY QuoteOfTrade
    <2>2. d = Klend!quote_deposit(pool, now, wv, net)
      BY <1>1, <2>1 DEF source_quote_deposit
    <2>3. amount \in Nat /\ net \in Nat /\ net <= amount
      BY <1>1, AmountsAssumption, NetAmount DEF VaultInv
    <2>4. d.mint \in Nat \ {0} /\ d.brought \in Nat \ {0} /\ (S # 0 => I * d.mint <= d.brought * S)
      BY <1>1, <2>0, <2>1, DepositFacts
    <2>5. KlendDepositTaken(pool, now, wv, net, d)
      BY <2>0, <2>2, KlendDepositFacts
    <2>6. /\ d.spends \in Nat /\ d.spends <= net
          /\ d.brought * x.ts <= x.cs * (ONE * d.spends)
          /\ KlendHolds(m, I + d.brought) /\ m.supply = s + d.brought
          /\ Klend!total_supply_fraction(m, now) = T + ONE * d.spends
      BY <2>5 DEF KlendDepositTaken
    <2>7. u.wrapper_supply = S + d.mint /\ u.intermediate_held = I + d.brought
      BY <1>1, <2>0, VaultAfterTrade
    <2>8. w = Klend!quote_withdraw(m, now, u, d.mint)
      <3>1. Deposited(pool, wv, d) = m
        BY <1>1 DEF Deposited
      <3>2. w = CheckedWithdraw(u, d.mint, source_quote_withdraw(m, u, d.mint))
        BY <3>1 DEF quote_withdraw
      <3> DEFINE z == source_quote_withdraw(m, u, d.mint)
      <3>3. z = Klend!quote_withdraw(m, now, u, d.mint)
        BY <1>1 DEF source_quote_withdraw
      <3> HIDE DEF z, m, u
      <3> QED
        BY <3>2, <3>3 DEF CheckedWithdraw, z
    <2>9. T \in Nat /\ x.cs \in Nat \ {0} /\ (s > 0 => x.cs = s /\ x.ts = T)
      BY <2>0, KlendTotal, KlendRate
    <2> HIDE DEF m, u, x, T, net, S, I, s
    <2>10. KlendWithdrawalTaken(m, now, u, d.mint, w)
      <3>1. u.intermediate_held \in Nat /\ u.wrapper_supply \in Nat /\ d.mint \in Nat
        BY <2>0, <2>4, <2>7
      <3>2. KlendHolds(m, u.intermediate_held)
        BY <2>6, <2>7
      <3> QED
        BY <2>0, <2>8, <3>1, <3>2, KlendWithdrawFacts
    <2>11. /\ w.redeemed \in Nat /\ w.pays \in Nat
           /\ u.wrapper_supply * w.redeemed <= d.mint * u.intermediate_held
           /\ m.supply * (ONE * w.pays) <= w.redeemed * Klend!total_supply_fraction(m, now)
      BY <2>10 DEF KlendWithdrawalTaken
    <2> DEFINE g == d.mint
               c == d.brought
               n == d.spends
               b == w.redeemed
               p == w.pays
    <2>12. /\ g \in Nat \ {0} /\ c \in Nat \ {0} /\ n \in Nat /\ b \in Nat /\ p \in Nat
           /\ (S # 0 => I * g <= c * S) /\ (S + g) * b <= g * (I + c)
           /\ (s + c) * (ONE * p) <= b * (T + ONE * n)
           /\ (s # 0 => c * T <= s * (ONE * n))
           /\ (s = 0 => T < ONE)
           /\ n <= net
      <3>1. s # 0 => s > 0
        BY <2>0
      <3> QED
        BY <1>1, <2>4, <2>6, <2>7, <2>9, <2>11, <3>1 DEF s, T, EmptyOwnsDust
    <2> HIDE DEF g, c, n, b, p
    <2>13. b <= c
      BY <2>0, <2>12, MintedRedeemBrought
    <2>14. p <= n
      BY <2>0, <2>9, <2>12, <2>13, PaidInCoversPaidOut
    <2>15. p <= amount
      BY <2>3, <2>12, <2>14
    <2> QED
      BY <2>15 DEF p
  <1> QED
    BY <1>1, VaultInvHolds, SourceInvInit, SourceInvStep, KlendInvHolds, PTL DEF Spec

-----------------------------------------------------------------------------
(* Save: a reserve stays solvent                                            *)

\* Save: the product of two wads is a wad and monotone; one is neutral.
LEMMA WadMul ==
    ASSUME NEW x \in Nat, NEW y \in Nat, NEW u \in Nat, NEW v \in Nat, x <= u, y <= v
    PROVE  /\ Save!wad_mul(x, y) \in Nat
           /\ Save!wad_mul(x, y) <= Save!wad_mul(u, v)
           /\ Save!wad_mul(x, WAD) = x
  <1>0. WAD \in Nat \ {0}
    BY ScaleAssumption
  <1>1. x * y \in Nat /\ u * v \in Nat /\ x * y <= u * v
    BY ProductMonotone
  <1> DEFINE a == x * y
             b == u * v
  <1>2. a \div WAD \in Nat /\ a \div WAD <= b \div WAD
    <2> HIDE DEF a, b
    <2> QED
      BY <1>0, <1>1, FloorMonotone DEF a, b
  <1>3. (x * WAD) \div WAD = x
    BY <1>0, DivExact
  <1> QED
    BY <1>2, <1>3 DEF Save!wad_mul

\* What holds of a number and is passed on to the next one holds up to n.
LEMMA UpTo ==
    ASSUME NEW n \in Nat, NEW S, 0 \in S, \A t \in 0 .. n : t < n /\ t \in S => t + 1 \in S
    PROVE  \A t \in 0 .. n : t \in S
  <1> DEFINE T == {t \in 0 .. n : t \notin S}
  <1> SUFFICES ASSUME T # {} PROVE FALSE
    OBVIOUS
  <1>1. T \subseteq Nat
    OBVIOUS
  <1>2. PICK x \in T : \A y \in T : ~(y < x)
    <2> HIDE DEF T
    <2> QED
      BY <1>1, Least
  <1>3. x \in 0 .. n /\ x \notin S /\ x # 0
    BY <1>2
  <1>4. x - 1 \in 0 .. n /\ x - 1 < n /\ x - 1 < x
    BY <1>3
  <1>5. x - 1 \in S
    BY <1>2, <1>4
  <1>6. (x - 1) + 1 \in S
    BY <1>4, <1>5
  <1> QED
    BY <1>3, <1>6

\* A table that is filled entry by entry, each from the one before.
Table(f, n, V, a, h) ==
    f \in [0 .. n -> V] /\ f[0] = a /\ \A i \in 1 .. n : f[i] = h[i][f[i - 1]]

\* There is such a table.
LEMMA TableExists ==
    ASSUME NEW n \in Nat, NEW V, NEW a \in V, NEW h \in [1 .. n -> [V -> V]]
    PROVE  \E f : Table(f, n, V, a, h)
  <1> DEFINE Filled(f, m) == f[0] = a /\ \A i \in 1 .. m : f[i] = h[i][f[i - 1]]
             S == {m \in 0 .. n : \E f \in [0 .. m -> V] : Filled(f, m)}
  <1>1. 0 \in S
    <2> DEFINE f == [i \in 0 .. 0 |-> a]
    <2>1. f \in [0 .. 0 -> V] /\ f[0] = a
      OBVIOUS
    <2>2. \A i \in 1 .. 0 : FALSE
      OBVIOUS
    <2> HIDE DEF f
    <2> QED
      BY <2>1, <2>2
  <1>2. ASSUME NEW t \in 0 .. n, t < n, t \in S
        PROVE  t + 1 \in S
    <2>1. PICK f \in [0 .. t -> V] : Filled(f, t)
      BY <1>2
    <2> DEFINE z == h[t + 1][f[t]]
               g == [i \in 0 .. t + 1 |-> IF i = t + 1 THEN z ELSE f[i]]
    <2>2. t \in Nat /\ t \in 0 .. t /\ t + 1 \in 0 .. n /\ t + 1 \in 1 .. n
      BY <1>2
    <2>3. z \in V
      BY <2>2
    <2> HIDE DEF z
    <2>4. g \in [0 .. t + 1 -> V]
      <3>1. \A i \in 0 .. t + 1 : i # t + 1 => i \in 0 .. t
        BY <2>2
      <3> QED
        BY <2>3, <3>1
    <2>5. \A i \in 0 .. t : g[i] = f[i]
      BY <2>2
    <2>6. g[t + 1] = z
      <3>1. t + 1 \in 0 .. t + 1
        BY <2>2
      <3> QED
        BY <3>1, Zenon
    <2> HIDE DEF g
    <2>7. g[0] = a
      <3>1. 0 \in 0 .. t
        BY <2>2
      <3> QED
        BY <2>1, <2>5, <3>1
    <2>8. ASSUME NEW i \in 1 .. t + 1
          PROVE  g[i] = h[i][g[i - 1]]
      <3>1. CASE i = t + 1
        <4>1. i - 1 = t
          BY <3>1, <2>2
        <4>2. g[i - 1] = f[t]
          BY <4>1, <2>2, <2>5
        <4> QED
          BY <3>1, <4>2, <2>6 DEF z
      <3>2. CASE i # t + 1
        <4>1. i \in 1 .. t /\ i \in 0 .. t /\ i - 1 \in 0 .. t
          BY <3>2, <2>2
        <4>2. g[i] = f[i] /\ g[i - 1] = f[i - 1]
          BY <4>1, <2>5
        <4> QED
          BY <4>1, <4>2, <2>1
      <3> QED
        BY <3>1, <3>2
    <2>9. Filled(g, t + 1)
      BY <2>7, <2>8
    <2> QED
      BY <2>2, <2>4, <2>9
  <1>3. n \in S
    <2> HIDE DEF S
    <2>1. \A t \in 0 .. n : t \in S
      BY <1>1, <1>2, UpTo
    <2> QED
      BY <2>1
  <1> QED
    BY <1>3 DEF Table

\* Save: wads that are at least one.
AtLeastOne == {x \in Nat : x >= WAD}

\* Save: the product of two wads that are at least one is at least one.
LEMMA ProductAtLeastOne ==
    ASSUME NEW x \in AtLeastOne, NEW y \in AtLeastOne
    PROVE  Save!wad_mul(x, y) \in AtLeastOne
  <1>0. WAD \in Nat /\ x \in Nat /\ y \in Nat /\ WAD <= x /\ WAD <= y /\ x <= x /\ y <= y
    BY ScaleAssumption DEF AtLeastOne
  <1>1. Save!wad_mul(WAD, WAD) = WAD /\ Save!wad_mul(WAD, WAD) <= Save!wad_mul(x, y)
    BY <1>0, WadMul
  <1>2. Save!wad_mul(x, y) \in Nat
    BY <1>0, WadMul
  <1> QED
    BY <1>1, <1>2 DEF AtLeastOne

\* Save: compounding a factor that is at least one gives one.
LEMMA PowAtLeastOne ==
    ASSUME NEW base \in AtLeastOne, NEW e
    PROVE  Save!wad_pow(base, e) \in AtLeastOne
  <1> DEFINE V == AtLeastOne
             n == Bits
             SqEq(f) == f = [i \in 0 .. n |->
                                IF i = 0 THEN base ELSE Save!wad_mul(f[i - 1], f[i - 1])]
             square == CHOOSE f : SqEq(f)
             bit(i) == (e \div 2^i) % 2 = 1
             first == IF bit(0) THEN base ELSE WAD
             RetEq(f) == f = [i \in 0 .. n |->
                                IF i = 0 THEN first
                                ELSE IF bit(i) THEN Save!wad_mul(f[i - 1], square[i]) ELSE f[i - 1]]
             ret == CHOOSE f : RetEq(f)
  <1>0. n \in Nat /\ WAD \in V /\ first \in V
    BY PeriodAssumption, ScaleAssumption DEF AtLeastOne
  <1>1. Save!wad_pow(base, e) = ret[n]
    BY DEF Save!wad_pow
  <1> HIDE DEF V, n, bit, first
  <1>2. ASSUME NEW x \in V, NEW y \in V
        PROVE  Save!wad_mul(x, y) \in V
    BY <1>2, ProductAtLeastOne DEF V
  <1>3. \E f \in [0 .. n -> V] : SqEq(f)
    <2> DEFINE h == [i \in 1 .. n |-> [x \in V |-> Save!wad_mul(x, x)]]
    <2>1. h \in [1 .. n -> [V -> V]]
      BY <1>2
    <2>2. \A i \in 1 .. n, x \in V : h[i][x] = Save!wad_mul(x, x)
      OBVIOUS
    <2> HIDE DEF h
    <2>3. base \in V
      BY DEF V
    <2>a. PICK f : Table(f, n, V, base, h)
      BY <1>0, <2>1, <2>3, TableExists
    <2>4. /\ f \in [0 .. n -> V]
          /\ f[0] = base /\ \A i \in 1 .. n : f[i] = h[i][f[i - 1]]
      BY <2>a DEF Table
    <2>5. \A i \in 0 .. n : f[i] = IF i = 0 THEN base ELSE Save!wad_mul(f[i - 1], f[i - 1])
      <3> TAKE i \in 0 .. n
      <3>1. CASE i = 0
        BY <3>1, <2>4
      <3>2. CASE i # 0
        <4>1. i \in 1 .. n /\ i - 1 \in 0 .. n
          BY <3>2, <1>0
        <4>2. f[i - 1] \in V
          BY <4>1, <2>4
        <4> QED
          BY <3>2, <4>1, <4>2, <2>2, <2>4
      <3> QED
        BY <3>1, <3>2
    <2>6. SqEq(f)
      BY <2>4, <2>5
    <2> QED
      BY <2>4, <2>6
  <1>4. SqEq(square)
    <2> HIDE DEF SqEq
    <2> QED
      BY <1>3, Zenon
  <1>5. \A i \in 0 .. n : square[i] \in V
    <2> DEFINE S == {i \in 0 .. n : square[i] \in V}
    <2> HIDE DEF square
    <2>0. \A i \in 0 .. n :
            square[i] = IF i = 0 THEN base ELSE Save!wad_mul(square[i - 1], square[i - 1])
      BY <1>4
    <2>1. 0 \in S
      <3>1. base \in V /\ 0 \in 0 .. n
        BY <1>0 DEF V
      <3> QED
        BY <2>0, <3>1
    <2>2. ASSUME NEW t \in 0 .. n, t < n, t \in S
          PROVE  t + 1 \in S
      <3>1. t + 1 \in 0 .. n /\ t + 1 # 0 /\ (t + 1) - 1 = t
        BY <2>2, <1>0
      <3>2. square[t + 1] = Save!wad_mul(square[t], square[t])
        BY <2>0, <3>1
      <3> QED
        BY <3>1, <3>2, <2>2, <1>2
    <2> HIDE DEF S
    <2>3. \A t \in 0 .. n : t \in S
      BY <1>0, <2>1, <2>2, UpTo
    <2> QED
      BY <2>3 DEF S
  <1> HIDE DEF square
  <1>6. \E f \in [0 .. n -> V] : RetEq(f)
    <2> DEFINE h == [i \in 1 .. n |->
                        [x \in V |-> IF bit(i) THEN Save!wad_mul(x, square[i]) ELSE x]]
    <2>0. \A i \in 1 .. n : i \in 0 .. n
      BY <1>0
    <2>1. h \in [1 .. n -> [V -> V]]
      BY <1>2, <1>5, <2>0
    <2>2. \A i \in 1 .. n, x \in V : h[i][x] = IF bit(i) THEN Save!wad_mul(x, square[i]) ELSE x
      OBVIOUS
    <2> HIDE DEF h
    <2>a. PICK f : Table(f, n, V, first, h)
      BY <1>0, <2>1, TableExists
    <2>4. /\ f \in [0 .. n -> V]
          /\ f[0] = first /\ \A i \in 1 .. n : f[i] = h[i][f[i - 1]]
      BY <2>a DEF Table
    <2>5. \A i \in 0 .. n : f[i] = IF i = 0 THEN first
                                   ELSE IF bit(i) THEN Save!wad_mul(f[i - 1], square[i]) ELSE f[i - 1]
      <3> TAKE i \in 0 .. n
      <3>1. CASE i = 0
        BY <3>1, <2>4
      <3>2. CASE i # 0
        <4>1. i \in 1 .. n /\ i - 1 \in 0 .. n
          BY <3>2, <1>0
        <4>2. f[i - 1] \in V
          BY <4>1, <2>4
        <4> QED
          BY <3>2, <4>1, <4>2, <2>2, <2>4
      <3> QED
        BY <3>1, <3>2
    <2>6. RetEq(f)
      BY <2>4, <2>5
    <2> QED
      BY <2>4, <2>6
  <1>7. RetEq(ret)
    <2> HIDE DEF RetEq
    <2> QED
      BY <1>6, Zenon
  <1>8. \A i \in 0 .. n : ret[i] \in V
    <2> DEFINE S == {i \in 0 .. n : ret[i] \in V}
    <2> HIDE DEF ret
    <2>0. \A i \in 0 .. n : ret[i] = IF i = 0 THEN first
                              ELSE IF bit(i) THEN Save!wad_mul(ret[i - 1], square[i]) ELSE ret[i - 1]
      BY <1>7
    <2>1. 0 \in S
      <3>1. 0 \in 0 .. n
        BY <1>0
      <3> QED
        BY <1>0, <2>0, <3>1
    <2>2. ASSUME NEW t \in 0 .. n, t < n, t \in S
          PROVE  t + 1 \in S
      <3>1. t + 1 \in 0 .. n /\ t + 1 # 0 /\ (t + 1) - 1 = t
        BY <2>2, <1>0
      <3>2. ret[t + 1] = IF bit(t + 1) THEN Save!wad_mul(ret[t], square[t + 1]) ELSE ret[t]
        BY <2>0, <3>1
      <3> QED
        BY <3>1, <3>2, <2>2, <1>2, <1>5
    <2> HIDE DEF S
    <2>3. \A t \in 0 .. n : t \in S
      BY <1>0, <2>1, <2>2, UpTo
    <2> QED
      BY <2>3 DEF S
  <1>9. ret[n] \in V
    <2> HIDE DEF ret
    <2> QED
      BY <1>0, <1>8
  <1> HIDE DEF ret
  <1> QED
    BY <1>1, <1>9 DEF V

\* Save: the rate on a segment is a wad.
LEMMA SegmentRate ==
    ASSUME NEW util \in Nat, NEW start \in Nat, NEW span \in Nat, NEW low \in Nat, NEW high \in Nat
    PROVE  Save!Segment(util, start, span, low, high) \in Nat
  <1> DEFINE a == Save!saturating_sub(util, start)
             b == Save!saturating_sub(high, low)
             c == Save!wad_div(a, span)
  <1>1. a \in Nat /\ b \in Nat /\ WAD \in Nat \ {0}
    BY ScaleAssumption DEF Save!saturating_sub
  <1>2. CASE span = 0
    BY <1>2 DEF Save!Segment
  <1>3. CASE span # 0
    <2> HIDE DEF a, b
    <2>1. c \in Nat
      <3> DEFINE n == a * WAD
      <3>1. n \in Nat
        BY <1>1, SMT
      <3> HIDE DEF n
      <3>2. n \div span \in Nat
        BY <1>3, <3>1, FloorBelow
      <3> QED
        BY <3>2 DEF Save!wad_div, n
    <2> HIDE DEF c
    <2>2. Save!wad_mul(c, b) \in Nat
      <3>1. c <= c /\ b <= b
        BY <1>1, <2>1
      <3> QED
        BY <1>1, <2>1, <3>1, WadMul
    <2>3. Save!Segment(util, start, span, low, high) = low + Save!wad_mul(c, b)
      BY <1>3 DEF Save!Segment, a, b, c
    <2> QED
      BY <2>2, <2>3
  <1> QED
    BY <1>2, <1>3

\* Save: the borrow rate is a wad.
LEMMA SaveRateTyped ==
    ASSUME NEW r, Save!Typed(r)
    PROVE  Save!current_borrow_rate(r) \in Nat
  <1> DEFINE util == Save!utilization_rate(r)
             g == r.config
  <1>0. /\ WAD \in Nat \ {0} /\ r.available \in Nat /\ r.borrowed \in Nat
        /\ g.optimal_util \in Nat /\ g.max_util \in Nat /\ g.min_rate \in Nat
        /\ g.optimal_rate \in Nat /\ g.max_rate \in Nat /\ g.super_max_rate \in Nat
    BY ScaleAssumption DEF Save!Typed
  <1>1. util \in Nat
    <2>1. CASE r.borrowed = 0
      BY <2>1 DEF Save!utilization_rate
    <2>2. CASE r.borrowed # 0
      <3> DEFINE a == r.available * WAD
                 d == a + r.borrowed
                 n == r.borrowed * WAD
      <3>1. a \in Nat /\ n \in Nat
        BY <1>0, SMT
      <3> HIDE DEF a, n
      <3>2. d \in Nat \ {0}
        BY <1>0, <2>2, <3>1
      <3> HIDE DEF d
      <3>3. n \div d \in Nat
        BY <3>1, <3>2, FloorBelow
      <3> QED
        BY <2>2, <3>3 DEF Save!utilization_rate, Save!wad_div, Save!from_u64, a, n, d
    <2> QED
      BY <2>1, <2>2
  <1>2. ASSUME NEW p \in Nat
        PROVE  Save!from_percent(p) \in Nat
    <2>1. WAD \div 100 \in Nat
      BY <1>0
    <2> DEFINE k == WAD \div 100
    <2> HIDE DEF k
    <2>2. p * k \in Nat
      BY <2>1, SMT DEF k
    <2> QED
      BY <2>2 DEF Save!from_percent, k
  <1>3. ASSUME NEW x \in Nat, NEW y \in Nat
        PROVE  Save!saturating_sub(x, y) \in Nat
    BY <1>3 DEF Save!saturating_sub
  <1> DEFINE ou == Save!from_percent(g.optimal_util)
             mu == Save!from_percent(g.max_util)
             orate == Save!from_percent(g.optimal_rate)
             mr == Save!from_percent(g.max_rate)
             low == Save!from_percent(g.min_rate)
             sr == Save!from_percent(g.super_max_rate)
             w == Save!saturating_sub(mu, ou)
             z == Save!from_percent(Save!saturating_sub(100, g.max_util))
  <1>4. /\ ou \in Nat /\ mu \in Nat /\ orate \in Nat /\ mr \in Nat /\ low \in Nat /\ sr \in Nat
    BY <1>0, <1>2
  <1>5. w \in Nat
    BY <1>3, <1>4
  <1>6. z \in Nat
    <2>1. Save!saturating_sub(100, g.max_util) \in Nat
      BY <1>0, <1>3
    <2> QED
      BY <1>2, <2>1
  <1>7. Save!current_borrow_rate(r) =
          IF util <= ou THEN Save!Segment(util, 0, ou, low, orate)
          ELSE IF util <= mu THEN Save!Segment(util, ou, w, orate, mr)
          ELSE Save!Segment(util, mu, z, mr, sr)
    BY DEF Save!current_borrow_rate, Save!borrow_rate_at
  <1> HIDE DEF util, ou, mu, orate, mr, low, sr, w, z
  <1>8. /\ Save!Segment(util, 0, ou, low, orate) \in Nat
        /\ Save!Segment(util, ou, w, orate, mr) \in Nat
        /\ Save!Segment(util, mu, z, mr, sr) \in Nat
    BY <1>1, <1>4, <1>5, <1>6, SegmentRate
  <1> QED
    BY <1>7, <1>8

\* Save: the fees that accrue are part of the interest that borrowers then owe.
LEMMA SaveAccrual ==
    ASSUME NEW r, Save!Typed(r), r.fees <= r.borrowed, NEW t, Clock(t)
    PROVE  LET a == Save!accrue_interest(r, t)
           IN  a.borrowed \in Nat /\ a.fees \in Nat /\ a.fees <= a.borrowed
  <1> DEFINE a == Save!accrue_interest(r, t)
             e == Save!saturating_sub(t.slot, r.last_update_slot)
             per_slot == WAD + Save!current_borrow_rate(r) \div SAVE_SLOTS_PER_YEAR
             F == Save!wad_pow(per_slot, e)
             B == r.borrowed
             N == Save!wad_mul(B, F)
             take == Save!from_percent(r.config.take_rate)
  <1>0. /\ WAD \in Nat \ {0} /\ B \in Nat /\ r.fees \in Nat /\ r.fees <= B
        /\ r.config.take_rate \in 0 .. 100
    BY ScaleAssumption DEF Save!Typed
  <1>1. CASE e = 0 \/ B = 0
    <2>1. a = [borrowed |-> r.borrowed, fees |-> r.fees]
      BY <1>1 DEF Save!accrue_interest
    <2> HIDE DEF a
    <2> QED
      BY <2>1, <1>0 DEF a
  <1>2. CASE ~(e = 0 \/ B = 0)
    <2>1. per_slot \in AtLeastOne
      <3>1. Save!current_borrow_rate(r) \in Nat /\ SAVE_SLOTS_PER_YEAR \in Nat \ {0}
        BY SaveRateTyped, PeriodAssumption
      <3> DEFINE k == Save!current_borrow_rate(r) \div SAVE_SLOTS_PER_YEAR
      <3>2. k \in Nat
        BY <3>1, FloorBelow
      <3> HIDE DEF k
      <3>3. WAD + k \in AtLeastOne
        BY <1>0, <3>2 DEF AtLeastOne
      <3> QED
        BY <3>3 DEF k
    <2>2. F \in Nat /\ WAD <= F
      <3> HIDE DEF per_slot, e
      <3>1. F \in AtLeastOne
        BY <2>1, PowAtLeastOne
      <3> QED
        BY <1>0, <3>1 DEF AtLeastOne
    <2>3. a = Save!with_new_debt(r, N)
      BY <1>2 DEF Save!accrue_interest
    <2> HIDE DEF a, F
    <2>4. N \in Nat /\ B <= N
      <3>0. B <= B /\ F <= F
        BY <1>0, <2>2
      <3>1. N \in Nat
        BY <1>0, <2>2, <3>0, WadMul
      <3>2. Save!wad_mul(B, WAD) = B /\ Save!wad_mul(B, WAD) <= N
        BY <1>0, <2>2, <3>0, WadMul
      <3> QED
        BY <3>1, <3>2
    <2> HIDE DEF N
    <2>5. take \in Nat /\ take <= WAD
      <3> DEFINE k == WAD \div 100
                 c == r.config.take_rate
      <3>1. k \in Nat /\ 100 * k <= WAD
        BY <1>0
      <3>2. c \in Nat /\ c <= 100
        BY <1>0
      <3> HIDE DEF k, c
      <3>3. c * k \in Nat /\ c * k <= 100 * k
        BY <3>1, <3>2, SMT
      <3>4. c * k <= WAD
        BY <1>0, <3>1, <3>3
      <3> QED
        BY <3>3, <3>4 DEF Save!from_percent, k, c
    <2> HIDE DEF take
    <2> DEFINE I == N - B
               p == Save!wad_mul(I, take)
    <2>6. p \in Nat /\ p <= I
      <3>1. I \in Nat /\ I <= I
        BY <1>0, <2>4
      <3> HIDE DEF I
      <3>2. p \in Nat /\ p <= Save!wad_mul(I, WAD) /\ Save!wad_mul(I, WAD) = I
        BY <1>0, <2>5, <3>1, WadMul
      <3> QED
        BY <3>2
    <2>7. a = [borrowed |-> N, fees |-> r.fees + p]
      <3>1. Save!saturating_sub(N, B) = I
        BY <1>0, <2>4 DEF Save!saturating_sub
      <3> QED
        BY <2>3, <3>1 DEF Save!with_new_debt, take
    <2> HIDE DEF p
    <2>8. r.fees + p \in Nat /\ r.fees + p <= N
      BY <1>0, <2>4, <2>6
    <2> QED
      BY <2>4, <2>7, <2>8 DEF a
  <1> QED
    BY <1>1, <1>2

\* Save: the vault holds collateral the reserve has issued, and fees are part of
\* what borrowers owe.
SaveHolds(r, held) == Save!Typed(r) /\ r.fees <= r.borrowed /\ held <= r.supply

\* Save: accruing keeps that, and the reserve's total is an amount.
LEMMA SaveAccrued ==
    ASSUME NEW r, NEW t, Clock(t), NEW held, SaveHolds(r, held)
    PROVE  LET c == Save!pre_accrue(r, t)
           IN  /\ SaveHolds(c, held)
               /\ c.available = r.available /\ c.supply = r.supply /\ c.config = r.config
               /\ Save!total_supply_wad(r, t) \in Nat
  <1> DEFINE a == Save!accrue_interest(r, t)
             w == Save!with_accrual(r, a)
             c == Save!pre_accrue(r, t)
  <1>0. /\ DOMAIN r = Save!Fields /\ Save!Typed(r) /\ r.available \in Nat /\ r.fees <= r.borrowed
        /\ WAD \in Nat \ {0}
    BY ScaleAssumption DEF SaveHolds, Save!Typed
  <1>1. a.borrowed \in Nat /\ a.fees \in Nat /\ a.fees <= a.borrowed
    BY <1>0, SaveAccrual
  <1>2. w = [r EXCEPT !.borrowed = a.borrowed, !.fees = a.fees]
    BY DEF Save!with_accrual
  <1>3. c = [w EXCEPT !.last_update_slot = t.slot]
    BY DEF Save!pre_accrue
  <1>4. Save!total_supply_wad(r, t) = Save!owned(w)
    BY DEF Save!total_supply_wad
  <1> HIDE DEF a, c, w
  <1>5. /\ DOMAIN w = Save!Fields /\ w.available = r.available /\ w.borrowed = a.borrowed
        /\ w.fees = a.fees
    BY <1>0, <1>2 DEF Save!Fields
  <1>6. /\ DOMAIN c = Save!Fields
        /\ c.available = r.available /\ c.supply = r.supply /\ c.config = r.config
        /\ c.borrowed = a.borrowed /\ c.fees = a.fees /\ c.last_update_slot = t.slot
    BY <1>0, <1>2, <1>3 DEF Save!Fields
  <1>7. Save!Typed(c)
    BY <1>0, <1>1, <1>6 DEF Save!Typed, Clock
  <1>8. SaveHolds(c, held)
    BY <1>1, <1>6, <1>7 DEF SaveHolds
  <1>9. Save!total_supply_wad(r, t) \in Nat
    <2> DEFINE k == r.available * WAD
    <2>1. k \in Nat
      BY <1>0, SMT
    <2>2. Save!owned(w) = k + a.borrowed - a.fees
      BY <1>5 DEF Save!owned, Save!from_u64
    <2> HIDE DEF k
    <2> QED
      BY <1>1, <1>4, <2>1, <2>2
  <1> QED
    BY <1>6, <1>8, <1>9 DEF c

\* Save: the reserve after a deposit, and the shares minted.
LEMMA SaveDepositFacts ==
    ASSUME NEW r, NEW v, NEW t, Clock(t), v.intermediate_held \in Nat, v.wrapper_supply \in Nat,
           SaveHolds(r, v.intermediate_held), NEW net \in Nat,
           NEW q, q = Save!quote_deposit(r, t, v, net), q # Refused
    PROVE  /\ q.mint \in 1 .. U64 - 1 /\ v.wrapper_supply + q.mint < U64
           /\ SaveHolds(Save!Deposited(r, t, v, q), v.intermediate_held + q.brought)
  <1> DEFINE T == Save!total_supply_wad(r, t)
             c == Save!liquidity_to_collateral(net, Save!exchange_rate(r, T))
             g == Save!wrapper_to_mint(c, v, net)
             I == v.intermediate_held
             p == Save!pre_accrue(r, t)
             m == Save!Deposited(r, t, v, q)
  <1>0. U64 \in Nat \ {0}
    BY U64Assumption
  <1>1. /\ Save!DepositChecks(r, T, v, net)
        /\ ~(g \notin 1 .. U64 - 1 \/ v.wrapper_supply + g >= U64)
        /\ q = [mint |-> g, brought |-> c, spends |-> net, before |-> I, after |-> I + c]
    BY DEF Save!quote_deposit, Save!deposit_at_total, Save!Refused, Refused
  <1>2. c \in 1 .. U64 - 1
    BY <1>1 DEF Save!DepositChecks
  <1>3. q.mint = g /\ q.brought = c /\ q.spends = net
    BY <1>1
  <1> HIDE DEF c, g
  <1>4. g \in 1 .. U64 - 1 /\ v.wrapper_supply + g < U64
    BY <1>0, <1>1
  <1>5. SaveHolds(p, I) /\ p.available = r.available /\ p.supply = r.supply
    BY SaveAccrued
  <1>6. m = [p EXCEPT !.available = p.available + net, !.supply = p.supply + c]
    <2>1. DOMAIN p = Save!Fields
      BY <1>5 DEF SaveHolds, Save!Typed
    <2> HIDE DEF p
    <2> QED
      BY <1>3, <2>1 DEF Save!Deposited, Save!Fields, p
  <1> HIDE DEF p, m
  <1>7. /\ DOMAIN p = Save!Fields /\ p.available \in Nat /\ p.supply \in Nat /\ I <= p.supply
        /\ p.fees <= p.borrowed /\ Save!Typed(p)
    BY <1>5 DEF SaveHolds, Save!Typed
  <1>8. /\ DOMAIN m = Save!Fields
        /\ m.available = p.available + net /\ m.supply = p.supply + c
        /\ m.borrowed = p.borrowed /\ m.fees = p.fees /\ m.config = p.config
        /\ m.last_update_slot = p.last_update_slot
    BY <1>6, <1>7 DEF Save!Fields
  <1>9. m.available \in Nat /\ m.supply \in Nat /\ I + c <= m.supply
    BY <1>0, <1>2, <1>7, <1>8
  <1>10. Save!Typed(m)
    BY <1>7, <1>8, <1>9 DEF Save!Typed
  <1>11. SaveHolds(m, I + c)
    BY <1>7, <1>8, <1>9, <1>10 DEF SaveHolds
  <1> QED
    BY <1>3, <1>4, <1>11 DEF m

\* Save: the reserve after a withdrawal.
LEMMA SaveWithdrawFacts ==
    ASSUME NEW r, NEW v, NEW t, Clock(t), v.intermediate_held \in Nat, v.wrapper_supply \in Nat,
           SaveHolds(r, v.intermediate_held), NEW amount \in Nat,
           NEW q, q = Save!quote_withdraw(r, t, v, amount), q # Refused
    PROVE  /\ amount <= v.wrapper_supply
           /\ q.redeemed \in Nat /\ q.redeemed <= v.intermediate_held
           /\ SaveHolds(Save!Withdrawn(r, t, v, q), v.intermediate_held - q.redeemed)
  <1> DEFINE T == Save!total_supply_wad(r, t)
             x == Save!exchange_rate(r, T)
             c == Save!ctokens_to_redeem(v, amount)
             d == Save!collateral_to_liquidity(c, x)
             I == v.intermediate_held
             S == v.wrapper_supply
             p == Save!pre_accrue(r, t)
             m == Save!Withdrawn(r, t, v, q)
  <1>0. U64 \in Nat \ {0} /\ WAD \in Nat \ {0} /\ r.supply \in Nat /\ T \in Nat /\ S \in Nat /\ I \in Nat
    BY U64Assumption, ScaleAssumption, SaveAccrued DEF SaveHolds, Save!Typed
  <1>1. /\ ~(amount = 0 \/ amount > S \/ I = 0)
        /\ ~(T < 0 \/ c \notin 1 .. U64 - 1 \/ x = 0)
        /\ Save!Liquid(r, d)
        /\ q = [pays |-> d, redeemed |-> c, before |-> I, after |-> I - c]
    BY DEF Save!quote_withdraw, Save!withdraw_at_total, Save!Refused, Refused
  <1>2. amount <= S /\ S \in Nat \ {0} /\ I \in Nat \ {0} /\ c \in Nat \ {0} /\ x # 0
    BY <1>0, <1>1
  <1>3. c <= I
    BY <1>2, BurnKeepsValue DEF Save!ctokens_to_redeem
  <1>4. q.pays = d /\ q.redeemed = c
    BY <1>1
  <1> HIDE DEF c
  <1>5. x \in Nat
    <2>1. CASE T = 0 \/ r.supply = 0
      BY <1>0, <2>1 DEF Save!exchange_rate
    <2>2. CASE ~(T = 0 \/ r.supply = 0)
      <3> DEFINE n == (r.supply * WAD) * WAD
      <3>1. r.supply * WAD \in Nat
        BY <1>0, SMT
      <3>2. n \in Nat
        <4> DEFINE k == r.supply * WAD
        <4> HIDE DEF k
        <4>1. k * WAD \in Nat
          BY <1>0, <3>1, SMT DEF k
        <4> QED
          BY <4>1 DEF k
      <3> HIDE DEF n, T
      <3>3. n \div T \in Nat
        BY <1>0, <2>2, <3>2, FloorBelow
      <3> QED
        BY <2>2, <3>3 DEF Save!exchange_rate, Save!wad_div, Save!from_u64, n
    <2> QED
      BY <2>1, <2>2
  <1>6. d \in Nat
    <2> HIDE DEF x
    <2> DEFINE k == c * WAD
               n == k * WAD
               f == n \div x
               h == f \div WAD
    <2>1. k \in Nat
      BY <1>0, <1>2, SMT
    <2> HIDE DEF k
    <2>2. n \in Nat
      BY <1>0, <2>1, SMT
    <2> HIDE DEF n
    <2>3. f \in Nat
      BY <1>2, <1>5, <2>2, FloorBelow
    <2> HIDE DEF f
    <2>4. h \in Nat
      BY <1>0, <2>3, FloorBelow
    <2> HIDE DEF h
    <2>5. h % U64 \in Nat
      BY <1>0, <2>4
    <2> QED
      BY <2>5 DEF Save!collateral_to_liquidity, Save!to_floor_u64, Save!wad_div, Save!from_u64,
                  h, f, n, k
  <1> HIDE DEF d
  <1>7. d <= r.available
    BY <1>1 DEF Save!Liquid
  <1>8. SaveHolds(p, I) /\ p.available = r.available /\ p.supply = r.supply
    BY SaveAccrued
  <1>9. m = [p EXCEPT !.available = p.available - d, !.supply = p.supply - c]
    <2>1. DOMAIN p = Save!Fields
      BY <1>8 DEF SaveHolds, Save!Typed
    <2> HIDE DEF p
    <2> QED
      BY <1>4, <2>1 DEF Save!Withdrawn, Save!Fields, p
  <1> HIDE DEF p, m
  <1>10. /\ DOMAIN p = Save!Fields /\ p.available \in Nat /\ p.supply \in Nat /\ I <= p.supply
         /\ p.fees <= p.borrowed /\ Save!Typed(p)
    BY <1>8 DEF SaveHolds, Save!Typed
  <1>11. /\ DOMAIN m = Save!Fields
         /\ m.available = p.available - d /\ m.supply = p.supply - c
         /\ m.borrowed = p.borrowed /\ m.fees = p.fees /\ m.config = p.config
         /\ m.last_update_slot = p.last_update_slot
    BY <1>9, <1>10 DEF Save!Fields
  <1>12. m.available \in Nat /\ m.supply \in Nat /\ I - c <= m.supply
    <2>1. m.available \in Nat
      BY <1>6, <1>7, <1>8, <1>10, <1>11
    <2>2. m.supply \in Nat /\ I - c <= m.supply
      BY <1>0, <1>2, <1>3, <1>10, <1>11
    <2> QED
      BY <2>1, <2>2
  <1>13. Save!Typed(m)
    BY <1>10, <1>11, <1>12 DEF Save!Typed
  <1>14. SaveHolds(m, I - c)
    BY <1>10, <1>11, <1>12, <1>13 DEF SaveHolds
  <1> QED
    BY <1>2, <1>3, <1>4, <1>14 DEF m

\* Save: the reserve after a loan.
LEMMA SaveLentFacts ==
    ASSUME NEW r, NEW t, Clock(t), NEW held, SaveHolds(r, held),
           NEW amount \in Nat, amount <= r.available
    PROVE  SaveHolds(Save!Lent(r, t, amount), held)
  <1> DEFINE p == Save!pre_accrue(r, t)
             m == Save!Lent(r, t, amount)
             w == amount * WAD
  <1>1. SaveHolds(p, held) /\ p.available = r.available
    BY SaveAccrued
  <1>2. /\ DOMAIN p = Save!Fields /\ p.available \in Nat /\ p.borrowed \in Nat /\ p.fees \in Nat
        /\ p.fees <= p.borrowed /\ Save!Typed(p) /\ held <= p.supply /\ WAD \in Nat \ {0}
    BY <1>1, ScaleAssumption DEF SaveHolds, Save!Typed
  <1>3. m = [p EXCEPT !.available = p.available - amount, !.borrowed = p.borrowed + w]
    <2> HIDE DEF p
    <2> QED
      BY <1>2 DEF Save!Lent, Save!from_u64, Save!Fields, p
  <1> HIDE DEF p, m
  <1>4. /\ DOMAIN m = Save!Fields
        /\ m.available = p.available - amount /\ m.borrowed = p.borrowed + w
        /\ m.supply = p.supply /\ m.fees = p.fees /\ m.config = p.config
        /\ m.last_update_slot = p.last_update_slot
    BY <1>2, <1>3 DEF Save!Fields
  <1>5. w \in Nat
    BY <1>2, SMT
  <1> HIDE DEF w
  <1>6. m.available \in Nat /\ m.borrowed \in Nat /\ m.fees <= m.borrowed
    BY <1>1, <1>2, <1>4, <1>5
  <1>7. Save!Typed(m)
    BY <1>2, <1>4, <1>6 DEF Save!Typed
  <1> QED
    BY <1>2, <1>4, <1>6, <1>7 DEF SaveHolds, m

\* Save: the invariant of the reserve.
SaveInv == source = "Save" => SaveHolds(pool, wv.intermediate_held)

\* Every step keeps it.
LEMMA SaveInvStep == VaultInv /\ SourceInv /\ SaveInv /\ [Next]_vars => SaveInv'
  <1> SUFFICES ASSUME VaultInv, SourceInv, SaveInv, [Next]_vars, source' = "Save"
               PROVE  SaveHolds(pool', wv'.intermediate_held)
    BY DEF SaveInv
  <1>0. source = "Save"
    BY DEF Next, Tick, Refresh, Switch, Lend, Credit, Deposit, Withdraw, vars
  <1>1. /\ Clock(now) /\ SaveHolds(pool, wv.intermediate_held) /\ VaultTyped /\ fees \in Fees
        /\ wv.intermediate_held \in Nat /\ wv.wrapper_supply \in Nat
    BY <1>0 DEF SourceInv, SaveInv, VaultInv, VaultTyped
  <1>2. CASE Tick \/ UNCHANGED vars
    <2>1. pool' = pool /\ wv' = wv
      BY <1>2 DEF Tick, vars
    <2> QED
      BY <2>1, <1>1
  <1>3. CASE Refresh
    <2>1. pool' = Save!pre_accrue(pool, now) /\ wv' = wv
      BY <1>0, <1>3 DEF Refresh, pre_accrue
    <2> QED
      BY <2>1, <1>1, SaveAccrued
  <1>4. CASE Switch
    <2>1. Switches["Save"] = {}
      BY <1>0, SaveAssumption DEF SourceInv
    <2> QED
      BY <1>0, <1>4, <2>1 DEF Switch
  <1>5. ASSUME NEW amount \in Loans[source], Lend(amount)
        PROVE  SaveHolds(pool', wv'.intermediate_held)
    <2>1. pool' = Save!Lent(pool, now, amount) /\ wv' = wv /\ amount <= pool.available
      BY <1>0, <1>5 DEF Lend, Lent, Lendable
    <2>2. amount \in Nat
      BY <1>0, <1>5, AmountsAssumption DEF SourceInv
    <2> QED
      BY <2>1, <2>2, <1>1, SaveLentFacts
  <1>6. ASSUME NEW amount \in Amounts, Deposit(amount)
        PROVE  SaveHolds(pool', wv'.intermediate_held)
    <2>1. PICK q : /\ q = quote_deposit(pool, wv, amount) /\ q # Refused
                   /\ pool' = Deposited(pool, wv, q) /\ wv' = VaultDeposited(wv, q)
      BY <1>6 DEF Deposit
    <2>2. q = Save!quote_deposit(pool, now, wv, net_amount(amount))
      BY <1>0, <2>1, QuoteOfTrade DEF source_quote_deposit
    <2>3. pool' = Save!Deposited(pool, now, wv, q)
      BY <1>0, <2>1 DEF Deposited
    <2>4. wv'.intermediate_held = wv.intermediate_held + q.brought
      BY <1>0, <1>1, <2>1, VaultAfterTrade
    <2>5. net_amount(amount) \in Nat
      BY <1>1, AmountsAssumption, NetAmount
    <2>6. SaveHolds(Save!Deposited(pool, now, wv, q), wv.intermediate_held + q.brought)
      BY <1>1, <2>1, <2>2, <2>5, SaveDepositFacts
    <2> QED
      BY <2>3, <2>4, <2>6
  <1>7. ASSUME NEW amount \in Amounts, Withdraw(amount)
        PROVE  SaveHolds(pool', wv'.intermediate_held)
    <2>1. PICK q : /\ q = quote_withdraw(pool, wv, amount) /\ q # Refused
                   /\ pool' = Withdrawn(pool, wv, q) /\ wv' = VaultWithdrawn(pool, wv, amount, q)
      BY <1>7 DEF Withdraw
    <2>2. q = Save!quote_withdraw(pool, now, wv, amount)
      BY <1>0, <2>1, QuoteOfTrade DEF source_quote_withdraw
    <2>3. pool' = Save!Withdrawn(pool, now, wv, q)
      BY <1>0, <2>1 DEF Withdrawn
    <2>4. wv'.intermediate_held = wv.intermediate_held - q.redeemed
      BY <1>0, <1>1, <2>1, VaultAfterTrade
    <2>5. amount \in Nat
      BY AmountsAssumption
    <2>6. SaveHolds(Save!Withdrawn(pool, now, wv, q), wv.intermediate_held - q.redeemed)
      BY <1>1, <2>1, <2>2, <2>5, SaveWithdrawFacts
    <2> QED
      BY <2>3, <2>4, <2>6
  <1> QED
    BY <1>0, <1>2, <1>3, <1>4, <1>5, <1>6, <1>7 DEF Next, Credit

\* The reserves of the instance at the start.
LEMMA SaveInvInit == Init => SaveInv
  <1> SUFFICES ASSUME Init, source = "Save"
               PROVE  SaveHolds(pool, wv.intermediate_held)
    BY DEF SaveInv
  <1>1. Save!Typed(pool) /\ pool.fees <= pool.borrowed
    BY SaveAssumption DEF Init
  <1>2. wv.intermediate_held = 0 /\ pool.supply \in Nat
    BY <1>1 DEF Init, Save!Typed
  <1> QED
    BY <1>1, <1>2 DEF SaveHolds

\* Save: in every reachable state the fees are part of what borrowers owe.
THEOREM SaveInvHolds == Spec => []SaveInv
  BY SaveInvInit, SaveInvStep, VaultInvInit, VaultInvStep, SourceInvInit, SourceInvStep, PTL
     DEF Spec

-----------------------------------------------------------------------------
(* The books of the lenders, and the supply of shares                       *)

\* Klend and Save: a deposit never needs more than it brings, and the fees never
\* exceed what the reserve owns; Lulo: a payout is covered.
LEMMA BooksOfLenders ==
    ASSUME SourceInv, SaveInv, KlendInv, source \in {"Save", "Klend"}
    PROVE  BooksBalance
  <1>1. Clock(now)
    BY DEF SourceInv
  <1>2. CASE source = "Save"
    <2>1. Save!total_supply_wad(pool, now) \in Nat
      BY <1>1, <1>2, SaveAccrued DEF SaveInv
    <2> QED
      BY <1>2, <2>1 DEF BooksBalance, FeesWithinSupply, DepositWithinNet, PayoutCovered,
                        LendersPaidByBorrowers
  <1>3. CASE source = "Klend"
    <2>1. Klend!Typed(pool) /\ Klend!Solvent(pool)
      BY <1>3 DEF KlendInv, KlendHolds
    <2>2. Klend!total_supply_fraction(pool, now) \in Nat
      BY <1>1, <2>1, KlendTotal
    <2>3. ASSUME NEW x, x = Klend!exchange_rate(pool, now), NEW amount \in Amounts
          PROVE  Klend!liquidity_amount_to_deposit(amount, x) <= amount
      <3>1. x = [cs |-> x.cs, ts |-> x.ts] /\ x.cs \in Nat \ {0} /\ x.ts \in Nat \ {0}
        BY <1>1, <2>1, <2>3, KlendRate
      <3>2. amount \in Nat
        BY AmountsAssumption
      <3>3. Klend!collateral_to_liquidity_ceil(
                Klend!liquidity_to_collateral(amount, [cs |-> x.cs, ts |-> x.ts]),
                [cs |-> x.cs, ts |-> x.ts]) <= amount
        BY <3>1, <3>2, DepositWithinNetAtAnyRate
      <3> QED
        BY <3>1, <3>3 DEF Klend!liquidity_amount_to_deposit
    <2>4. DepositWithinNet
      BY <2>3 DEF DepositWithinNet
    <2> QED
      BY <1>3, <2>2, <2>4 DEF BooksBalance, FeesWithinSupply, PayoutCovered,
                              LendersPaidByBorrowers
  <1> QED
    BY <1>2, <1>3

\* Of a Save or Klend reserve or a Lulo pool, nothing is given away that it does
\* not have: the unsigned subtractions of the total supply never overflow, the
\* error `deposit > net' is never reported and a payout is covered by what was
\* redeemed for it.
THEOREM BooksBalanceHolds == Spec => [](source \in {"Save", "Klend", "Lulo"} => BooksBalance)
  <1>1. SourceInv /\ SaveInv /\ KlendInv /\ source \in {"Save", "Klend"} => BooksBalance
    BY BooksOfLenders
  <1>2. source = "Lulo" /\ PayoutCovered => BooksBalance
    BY DEF BooksBalance, FeesWithinSupply, DepositWithinNet, LendersPaidByBorrowers
  <1>3. SourceInv /\ SaveInv /\ KlendInv /\ (source = "Lulo" => PayoutCovered)
          => (source \in {"Save", "Klend", "Lulo"} => BooksBalance)
    BY <1>1, <1>2
  <1>4. Spec => []SourceInv
    BY SourceInvInit, SourceInvStep, PTL DEF Spec
  <1> QED
    BY <1>3, <1>4, SaveInvHolds, KlendInvHolds, LuloPayoutCovered, PTL

\* No source's quote mints more than the supply of shares can hold.
LEMMA MintFits ==
    ASSUME NEW r, NEW v, NEW net, NEW q, q = source_quote_deposit(r, v, net), q # Refused,
           source \in Sources
    PROVE  ~(v.wrapper_supply + q.mint >= U64)
  <1>1. CASE source = "Save"
    BY <1>1 DEF source_quote_deposit, Save!quote_deposit, Save!deposit_at_total, Save!Refused, Refused
  <1>2. CASE source = "Klend"
    BY <1>2 DEF source_quote_deposit, Klend!quote_deposit, Klend!deposit_at_rate, Klend!Refused, Refused
  <1>3. CASE source = "Marginfi"
    BY <1>3 DEF source_quote_deposit, Marginfi!quote_deposit, Marginfi!deposit_at_value,
                Marginfi!Refused, Refused
  <1>4. CASE source = "Kvault"
    BY <1>4 DEF source_quote_deposit, Kvault!kvault_quote_deposit, Kvault!deposit_at_aum,
                Kvault!Refused, Refused
  <1>5. CASE source = "Lulo"
    BY <1>5 DEF source_quote_deposit, Lulo!quote_deposit, Lulo!deposit_at_value, Lulo!Refused, Refused
  <1> QED
    BY <1>1, <1>2, <1>3, <1>4, <1>5, SourcesAssumption

\* The clock, the trades and the vault's record: the supply of shares fits in its
\* 64 bits, whatever the source.
VaultFits ==
    /\ now.slot \in 0 .. MaxSlot /\ trades \in 0 .. MaxTrades
    /\ wv \in [wrapper_supply : 0 .. U64 - 1, intermediate_held : Nat, free_underlying_held : Nat]

\* Every step keeps it.
LEMMA VaultFitsStep == VaultInv /\ SourceInv /\ VaultFits /\ [Next]_vars => VaultFits'
  <1> SUFFICES ASSUME VaultInv, SourceInv, VaultFits, [Next]_vars
               PROVE  VaultFits'
    OBVIOUS
  <1>0. /\ U64 \in Nat \ {0} /\ VaultTyped /\ VaultTyped' /\ LuloInv' /\ source \in Sources
        /\ MaxSlot \in Nat /\ MaxTrades \in Nat /\ now.slot \in Nat
        /\ now.slot \in 0 .. MaxSlot /\ trades \in 0 .. MaxTrades
    <2>1. VaultInv'
      BY VaultInvStep
    <2> QED
      BY <2>1, U64Assumption, TicksAssumption DEF VaultInv, VaultFits, SourceInv, Clock
  <1>1. wv.wrapper_supply \in 0 .. U64 - 1 /\ wv.intermediate_held \in Nat /\ wv.free_underlying_held \in Nat
    BY DEF VaultFits
  <1>2. CASE UNCHANGED vars
    BY <1>2 DEF vars, VaultFits
  <1>3. CASE Tick
    <2>1. PICK t \in Ticks : /\ now.slot + t.slots <= MaxSlot
                             /\ now' = [slot |-> now.slot + t.slots,
                                        timestamp |-> now.timestamp + t.seconds]
      BY <1>3 DEF Tick
    <2>2. t.slots \in Nat
      BY TicksAssumption
    <2>3. now'.slot \in 0 .. MaxSlot
      BY <1>0, <2>1, <2>2
    <2> QED
      BY <1>3, <2>3 DEF Tick, VaultFits
  <1>4. ASSUME Traded PROVE trades' \in 0 .. MaxTrades
    BY <1>0, <1>4 DEF Traded
  <1>5. CASE Refresh
    BY <1>5 DEF Refresh, VaultFits
  <1>6. CASE Switch
    BY <1>4, <1>6 DEF Switch, VaultFits
  <1>7. ASSUME NEW amount \in Loans[source], Lend(amount)
        PROVE  VaultFits'
    BY <1>4, <1>7 DEF Lend, VaultFits
  <1>10. ASSUME NEW amount \in Loans[source], Credit(amount)
        PROVE  VaultFits'
    BY <1>4, <1>10 DEF Credit, VaultFits
  <1>8. ASSUME NEW amount \in Amounts, Deposit(amount)
        PROVE  VaultFits'
    <2>1. PICK q : /\ q = quote_deposit(pool, wv, amount) /\ q # Refused
                   /\ wv' = VaultDeposited(wv, q)
      BY <1>8 DEF Deposit
    <2>2. q = source_quote_deposit(pool, wv, net_amount(amount))
      BY <2>1, QuoteOfTrade
    <2>3. ~(wv.wrapper_supply + q.mint >= U64)
      BY <1>0, <2>1, <2>2, MintFits
    <2>4. trades' \in 0 .. MaxTrades /\ now' = now
      BY <1>4, <1>8 DEF Deposit
    <2>5. wv'.wrapper_supply = wv.wrapper_supply + q.mint
      BY <1>1, <2>1 DEF VaultDeposited, Lulo!VaultDeposited, VaultFits
    <2>6. wv'.wrapper_supply \in Nat /\ wv'.intermediate_held \in Nat
      BY <1>0 DEF VaultTyped
    <2>7. wv'.wrapper_supply \in 0 .. U64 - 1
      BY <1>0, <2>3, <2>5, <2>6
    <2>8. CASE source = "Lulo"
      <3>1. wv' = [wrapper_supply |-> wv'.wrapper_supply,
                   intermediate_held |-> wv'.intermediate_held, free_underlying_held |-> 0]
        BY <2>1, <2>8 DEF VaultDeposited, Lulo!VaultDeposited
      <3>2. wv' \in [wrapper_supply : 0 .. U64 - 1, intermediate_held : Nat, free_underlying_held : Nat]
        BY <3>1, <2>6, <2>7
      <3> QED
        BY <3>2, <2>4, <1>0 DEF VaultFits
    <2>9. CASE source # "Lulo"
      <3>1. wv' = [wv EXCEPT !.wrapper_supply = wv'.wrapper_supply,
                             !.intermediate_held = wv'.intermediate_held]
        BY <2>1, <2>9 DEF VaultDeposited, VaultFits
      <3>2. wv' \in [wrapper_supply : 0 .. U64 - 1, intermediate_held : Nat, free_underlying_held : Nat]
        BY <3>1, <2>6, <2>7 DEF VaultFits
      <3> QED
        BY <3>2, <2>4, <1>0 DEF VaultFits
    <2> QED
      BY <2>8, <2>9
  <1>9. ASSUME NEW amount \in Amounts, Withdraw(amount)
        PROVE  VaultFits'
    <2>1. PICK q : wv' = VaultWithdrawn(pool, wv, amount, q)
      BY <1>9 DEF Withdraw
    <2>2. amount \in Nat
      BY AmountsAssumption
    <2>4. trades' \in 0 .. MaxTrades /\ now' = now /\ source' = source
      BY <1>4, <1>9 DEF Withdraw
    <2>5. wv'.wrapper_supply = wv.wrapper_supply - amount
      BY <1>1, <2>1 DEF VaultWithdrawn, Lulo!VaultWithdrawn, VaultFits
    <2>6. wv'.wrapper_supply \in Nat /\ wv'.intermediate_held \in Nat
      BY <1>0 DEF VaultTyped
    <2>7. wv'.wrapper_supply \in 0 .. U64 - 1
      BY <1>0, <1>1, <2>2, <2>5, <2>6
    <2>8. CASE source = "Lulo"
      <3>1. wv' = [wrapper_supply |-> wv'.wrapper_supply,
                   intermediate_held |-> wv'.intermediate_held,
                   free_underlying_held |-> wv'.free_underlying_held]
        BY <2>1, <2>8 DEF VaultWithdrawn, Lulo!VaultWithdrawn
      <3>2. wv'.free_underlying_held \in Nat
        BY <1>0, <2>4, <2>8 DEF LuloInv, LuloHolds
      <3>3. wv' \in [wrapper_supply : 0 .. U64 - 1, intermediate_held : Nat, free_underlying_held : Nat]
        BY <3>1, <3>2, <2>6, <2>7
      <3> QED
        BY <3>3, <2>4, <1>0 DEF VaultFits
    <2>9. CASE source # "Lulo"
      <3>1. wv' = [wv EXCEPT !.wrapper_supply = wv'.wrapper_supply,
                             !.intermediate_held = wv'.intermediate_held]
        BY <2>1, <2>9 DEF VaultWithdrawn, VaultFits
      <3>2. wv' \in [wrapper_supply : 0 .. U64 - 1, intermediate_held : Nat, free_underlying_held : Nat]
        BY <3>1, <2>6, <2>7 DEF VaultFits
      <3> QED
        BY <3>2, <2>4, <1>0 DEF VaultFits
    <2> QED
      BY <2>8, <2>9
  <1> QED
    BY <1>2, <1>3, <1>5, <1>6, <1>7, <1>8, <1>9, <1>10 DEF Next

\* An empty vault at slot zero.
LEMMA VaultFitsInit == Init => VaultFits
  BY U64Assumption, TicksAssumption DEF Init, VaultFits

\* Whatever the source: the supply of shares stays within 64 bits, and no trade
\* takes more of the position or of the free tokens than the vault holds.
THEOREM VaultFitsHolds == Spec => []VaultFits
  BY VaultFitsInit, VaultFitsStep, VaultInvInit, VaultInvStep, SourceInvInit, SourceInvStep, PTL
     DEF Spec

-----------------------------------------------------------------------------
(* Kvault: the vault and its reserves stay within what they have            *)

\* Kvault: it computes with Klend reserves as Klend quoting does.
LEMMA ReserveSame ==
    ASSUME NEW r, NEW t
    PROVE  /\ Kvault!accrue_interest(r, t) = Klend!accrue_interest(r, t)
           /\ Kvault!pre_accrue(r, t) = Klend!pre_accrue(r, t)
           /\ Kvault!exchange_rate(r, t) = Klend!exchange_rate(r, t)
           /\ Kvault!known_basis(r) <=> Klend!known_basis(r)
           /\ Kvault!Typed(r) <=> Klend!Typed(r)
           /\ Kvault!Solvent(r) <=> Klend!Solvent(r)
  <1>1. /\ Kvault!known_basis(r) <=> Klend!known_basis(r)
        /\ Kvault!Typed(r) <=> Klend!Typed(r)
        /\ Kvault!Solvent(r) <=> Klend!Solvent(r)
        /\ Kvault!total_supply_fraction_pre(r) = Klend!total_supply_fraction_pre(r)
        /\ Kvault!elapsed_units(r, t) = Klend!elapsed_units(r, t)
    BY DEF Kvault!known_basis, Klend!known_basis, Kvault!Typed, Klend!Typed, Kvault!Fields,
           Klend!Fields, Kvault!Solvent, Klend!Solvent, Kvault!total_supply_fraction_pre,
           Klend!total_supply_fraction_pre, Kvault!total_supply_core, Klend!total_supply_core,
           Kvault!from_num, Klend!from_num, Kvault!elapsed_units, Klend!elapsed_units,
           Kvault!saturating_sub, Klend!saturating_sub, Kvault!INTEREST_RATE_BASIS_LEGACY,
           Klend!INTEREST_RATE_BASIS_LEGACY, Kvault!INTEREST_RATE_BASIS_TRUE_APR,
           Klend!INTEREST_RATE_BASIS_TRUE_APR
  <1>2. \A u : Kvault!util_to_bps(u) = Klend!util_to_bps(u)
    BY DEF Kvault!util_to_bps, Klend!util_to_bps, Kvault!smaller, Klend!smaller
  <1>3. ASSUME NEW c, NEW u
        PROVE  Kvault!lookup_borrow_rate(c, u) = Klend!lookup_borrow_rate(c, u)
    <2>1. ASSUME NEW z, NEW b
          PROVE  Kvault!rate_at(c, z, b) = Klend!rate_at(c, z, b)
      <3>1. /\ \A p, n : Kvault!on_segment(p, n, z) = Klend!on_segment(p, n, z)
            /\ \A p : Kvault!bps_to_fraction(p) = Klend!bps_to_fraction(p)
        BY DEF Kvault!on_segment, Klend!on_segment, Kvault!bps_to_fraction, Klend!bps_to_fraction,
               Kvault!from_num, Klend!from_num, Kvault!saturating_sub, Klend!saturating_sub
      <3> QED
        BY <3>1 DEF Kvault!rate_at, Klend!rate_at
    <2> QED
      BY <1>2, <2>1 DEF Kvault!lookup_borrow_rate, Klend!lookup_borrow_rate, Kvault!smaller,
                        Klend!smaller
  <1>4. \A a, b, c : Kvault!approximate_compounded_interest(a, b, c)
                       = Klend!approximate_compounded_interest(a, b, c)
    BY DEF Kvault!approximate_compounded_interest, Klend!approximate_compounded_interest,
           Kvault!frac_mul, Klend!frac_mul
  <1>5. \A n, b, h : Kvault!compound_interest(r, n, b, h) = Klend!compound_interest(r, n, b, h)
    BY <1>4 DEF Kvault!compound_interest, Klend!compound_interest, Kvault!with_new_debt,
                Klend!with_new_debt, Kvault!frac_mul, Klend!frac_mul, Kvault!percent_to_fraction,
                Klend!percent_to_fraction, Kvault!from_num, Klend!from_num, Kvault!units_per_year,
                Klend!units_per_year, Kvault!INTEREST_RATE_BASIS_LEGACY,
                Klend!INTEREST_RATE_BASIS_LEGACY
  <1>6. Kvault!accrue_interest(r, t) = Klend!accrue_interest(r, t)
    BY <1>1, <1>3, <1>5 DEF Kvault!accrue_interest, Klend!accrue_interest,
                Kvault!utilization_rate, Klend!utilization_rate, Kvault!frac_div, Klend!frac_div,
                Kvault!bps_to_fraction, Klend!bps_to_fraction, Kvault!from_num, Klend!from_num
  <1>7. \A a : Kvault!with_accrual(r, a) = Klend!with_accrual(r, a)
    BY DEF Kvault!with_accrual, Klend!with_accrual
  <1>8. Kvault!pre_accrue(r, t) = Klend!pre_accrue(r, t)
    BY <1>1, <1>6, <1>7 DEF Kvault!pre_accrue, Klend!pre_accrue
  <1>9. \A a : Kvault!total_supply_fraction_pre(a) = Klend!total_supply_fraction_pre(a)
    BY DEF Kvault!total_supply_fraction_pre, Klend!total_supply_fraction_pre,
           Kvault!total_supply_core, Klend!total_supply_core, Kvault!from_num, Klend!from_num
  <1>10. Kvault!exchange_rate(r, t) = Klend!exchange_rate(r, t)
    BY <1>6, <1>7, <1>9 DEF Kvault!exchange_rate, Klend!exchange_rate, Kvault!exchange_rate_pair,
                Klend!exchange_rate_pair, Kvault!total_supply_fraction, Klend!total_supply_fraction
  <1> QED
    BY <1>1, <1>6, <1>8, <1>10

\* Kvault: and it converts collateral as Klend quoting does.
LEMMA ConversionSame ==
    ASSUME NEW n, NEW x
    PROVE  /\ Kvault!collateral_to_liquidity(n, x) = Klend!collateral_to_liquidity(n, x)
           /\ Kvault!liquidity_to_collateral(n, x) = Klend!liquidity_to_collateral(n, x)
  BY DEF Kvault!collateral_to_liquidity, Klend!collateral_to_liquidity,
         Kvault!liquidity_to_collateral, Klend!liquidity_to_collateral, Kvault!floor, Klend!floor,
         Kvault!fraction_collateral_to_liquidity, Klend!fraction_collateral_to_liquidity,
         Kvault!frac_div, Klend!frac_div, Kvault!from_num, Klend!from_num

\* Kvault: a reserve in which an allocation holds ctokens.
LEMMA AllocIsHeld ==
    ASSUME NEW a
    PROVE  Kvault!AllocHolds(a) <=> /\ KlendHolds(a.reserve, a.ctokens)
                                    /\ Klend!known_basis(a.reserve) /\ a.ctokens \in Nat
  BY ReserveSame DEF Kvault!AllocHolds, KlendHolds

\* Kvault: an accrued reserve of which only liquidity and collateral are moved.
LEMMA MovedOnly ==
    ASSUME NEW r, NEW t, Clock(t), Klend!Typed(r), Klend!Solvent(r), NEW na, NEW ns
    PROVE  /\ Klend!pre_accrue(r, t).available = r.available
           /\ Klend!pre_accrue(r, t).supply = r.supply
           /\ [Klend!pre_accrue(r, t) EXCEPT !.available = na, !.supply = ns]
                = Moved(r, t, na, ns, r.cap)
  <1> DEFINE p == Klend!pre_accrue(r, t)
  <1>1. /\ DOMAIN p = Klend!Fields
        /\ p.available = r.available /\ p.supply = r.supply /\ p.cap = r.cap
    BY KlendAccrued DEF Klend!Typed
  <1>2. [p EXCEPT !.available = na, !.supply = ns]
          = [p EXCEPT !.available = na, !.supply = ns, !.cap = p.cap]
    <2> HIDE DEF p
    <2> QED
      BY <1>1 DEF Klend!Fields
  <1> HIDE DEF p
  <1>3. [p EXCEPT !.available = na, !.supply = ns]
          = [p EXCEPT !.available = na, !.supply = ns, !.cap = r.cap]
    BY <1>1, <1>2
  <1> QED
    BY <1>1, <1>3 DEF p, Moved

\* Kvault: an allocation's reserve after ctokens are redeemed there.
LEMMA ReserveRedeemed ==
    ASSUME NEW r, NEW t, Clock(t), NEW h \in Nat, KlendHolds(r, h), Klend!known_basis(r),
           NEW k \in Nat \ {0}, k <= h,
           NEW d, d = Klend!collateral_to_liquidity(k, Klend!exchange_rate(r, t)), d <= r.available,
           NEW m, m = Moved(r, t, r.available - d, r.supply - k, r.cap)
    PROVE  d \in Nat /\ KlendHolds(m, h - k) /\ Klend!known_basis(m)
  <1> DEFINE x == Klend!exchange_rate(r, t)
             T == Klend!total_supply_fraction(r, t)
             na == r.available - d
             ns == r.supply - k
             ncap == r.cap
  <1>0. /\ Klend!Typed(r) /\ Klend!Solvent(r) /\ h + r.queued <= r.supply
        /\ r.available \in Nat /\ r.supply \in Nat /\ r.queued \in Nat /\ r.cap \in Caps
        /\ ONE \in Nat \ {0}
    BY ScaleAssumption DEF KlendHolds, Klend!Typed, Caps
  <1>1. r.supply \in Nat \ {0} /\ k <= r.supply
    BY <1>0
  <1>2. T \in Nat \ {0}
    BY <1>0, <1>1, KlendTotal
  <1>3. x = [cs |-> r.supply, ts |-> T]
    <2>1. x = [cs |-> x.cs, ts |-> x.ts] /\ x.cs = r.supply /\ x.ts = T
      BY <1>0, <1>1, KlendRate
    <2> HIDE DEF x, T
    <2> QED
      BY <2>1
  <1>4. d \in Nat /\ r.supply * (ONE * d) <= k * T
    <2>1. d = Klend!collateral_to_liquidity(k, [cs |-> r.supply, ts |-> T])
      BY <1>3
    <2> HIDE DEF T
    <2> QED
      BY <2>1, <1>1, <1>2, KlendWithdrawPays
  <1>5. na \in Nat /\ ns \in Nat
    BY <1>0, <1>1, <1>4
  <1>6. m = Moved(r, t, na, ns, ncap) /\ ncap \in Caps
    BY <1>0
  <1> HIDE DEF na, ns, ncap
  <1>7. /\ Klend!Typed(m) /\ m.available = na /\ m.supply = ns /\ m.queued = r.queued
        /\ m.config = r.config
        /\ Klend!total_supply_fraction_pre(m) = T + na * ONE - r.available * ONE
    <2>1. Klend!Typed(r) /\ Klend!Solvent(r) /\ na \in Nat /\ ns \in Nat
      BY <1>0, <1>5
    <2> QED
      BY <2>1, <1>6, KlendMoved
  <1> DEFINE w == ONE * d
  <1>8. w \in Nat
    BY <1>0, <1>4, SMT
  <1>9. Klend!total_supply_fraction_pre(m) = T - w
    <2>1. na * ONE = r.available * ONE - w /\ r.available * ONE \in Nat
      BY <1>0, <1>4, SMT DEF na
    <2> DEFINE a == r.available * ONE
    <2>2. T + (a - w) - a = T - w
      <3> HIDE DEF a, w, T
      <3> QED
        BY <2>1, <1>2, <1>8 DEF a
    <2> QED
      BY <1>7, <2>1, <2>2
  <1>10. w <= T /\ (k < r.supply => w < T)
    <2>1. r.supply * w <= k * T
      BY <1>4
    <2> HIDE DEF w, T
    <2> QED
      BY <2>1, <1>1, <1>2, <1>8, LeftOver
  <1>11. Klend!Solvent(m)
    <2>1. m.queued <= m.supply
      BY <1>0, <1>1, <1>7 DEF ns
    <2>2. m.supply > 0 => k < r.supply
      BY <1>1, <1>7 DEF ns
    <2> HIDE DEF w, T
    <2>3. T - w >= IF m.supply > 0 THEN 1 ELSE 0
      BY <2>2, <1>2, <1>8, <1>10
    <2> QED
      BY <2>1, <2>3, <1>9 DEF Klend!Solvent
  <1>12. h - k + m.queued <= m.supply
    BY <1>0, <1>1, <1>7 DEF ns
  <1> QED
    BY <1>4, <1>7, <1>11, <1>12 DEF KlendHolds, Klend!known_basis

\* Kvault: an allocation's reserve after tokens are invested there.
LEMMA ReserveSupplied ==
    ASSUME NEW r, NEW t, Clock(t), NEW h \in Nat, KlendHolds(r, h), Klend!known_basis(r),
           NEW n \in Nat \ {0}, NEW c \in Nat \ {0},
           NEW m, m = Moved(r, t, r.available + n, r.supply + c, r.cap)
    PROVE  KlendHolds(m, h + c) /\ Klend!known_basis(m)
  <1> DEFINE T == Klend!total_supply_fraction(r, t)
             na == r.available + n
             ns == r.supply + c
             ncap == r.cap
  <1>0. /\ Klend!Typed(r) /\ Klend!Solvent(r) /\ h + r.queued <= r.supply
        /\ r.available \in Nat /\ r.supply \in Nat /\ r.queued \in Nat /\ r.cap \in Caps
        /\ ONE \in Nat \ {0}
    BY ScaleAssumption DEF KlendHolds, Klend!Typed, Caps
  <1>1. na \in Nat /\ ns \in Nat
    BY <1>0
  <1>2. T \in Nat
    BY <1>0, KlendTotal
  <1>3. m = Moved(r, t, na, ns, ncap) /\ ncap \in Caps
    BY <1>0
  <1> HIDE DEF na, ns, ncap
  <1>4. /\ Klend!Typed(m) /\ m.available = na /\ m.supply = ns /\ m.queued = r.queued
        /\ m.config = r.config
        /\ Klend!total_supply_fraction_pre(m) = T + na * ONE - r.available * ONE
    <2>1. Klend!Typed(r) /\ Klend!Solvent(r) /\ na \in Nat /\ ns \in Nat
      BY <1>0, <1>1
    <2> QED
      BY <2>1, <1>3, KlendMoved
  <1>5. Klend!total_supply_fraction_pre(m) \in Int /\ Klend!total_supply_fraction_pre(m) >= 1
    <2> DEFINE a == r.available * ONE
               w == n * ONE
    <2>1. na * ONE = a + w /\ a \in Nat /\ w \in Nat /\ w # 0
      BY <1>0, SMT DEF na
    <2>2. T + (a + w) - a >= 1 /\ T + (a + w) - a \in Int
      <3> HIDE DEF a, w, T
      <3> QED
        BY <2>1, <1>2
    <2> QED
      BY <1>4, <2>1, <2>2
  <1>6. Klend!Solvent(m)
    <2>1. m.queued <= m.supply
      BY <1>0, <1>4 DEF ns
    <2>2. Klend!total_supply_fraction_pre(m) >= IF m.supply > 0 THEN 1 ELSE 0
      BY <1>5
    <2> QED
      BY <2>1, <2>2 DEF Klend!Solvent
  <1>7. h + c + m.queued <= m.supply
    BY <1>0, <1>4 DEF ns
  <1> QED
    BY <1>4, <1>6, <1>7 DEF KlendHolds, Klend!known_basis

\* Kvault: a sum of amounts is an amount.
LEMMA SumTyped ==
    ASSUME NEW n \in Nat, NEW s, \A i \in 1 .. n : s[i] \in Nat
    PROVE  Kvault!sum_to(s, n) \in Nat
  <1> DEFINE SumEq(f) == f = [i \in 0 .. n |-> IF i = 0 THEN 0 ELSE f[i - 1] + s[i]]
             sum == CHOOSE f : SumEq(f)
  <1>1. Kvault!sum_to(s, n) = sum[n]
    BY DEF Kvault!sum_to
  <1>2. \E f : SumEq(f)
    <2> DEFINE h == [i \in 1 .. n |-> [x \in Nat |-> x + s[i]]]
    <2>1. h \in [1 .. n -> [Nat -> Nat]]
      OBVIOUS
    <2>2. \A i \in 1 .. n, x \in Nat : h[i][x] = x + s[i]
      OBVIOUS
    <2> HIDE DEF h
    <2>3. PICK f : Table(f, n, Nat, 0, h)
      BY <2>1, TableExists
    <2>4. /\ f \in [0 .. n -> Nat]
          /\ f[0] = 0 /\ \A i \in 1 .. n : f[i] = h[i][f[i - 1]]
      BY <2>3 DEF Table
    <2>5. \A i \in 0 .. n : f[i] = IF i = 0 THEN 0 ELSE f[i - 1] + s[i]
      <3> TAKE i \in 0 .. n
      <3>1. CASE i = 0
        BY <3>1, <2>4
      <3>2. CASE i # 0
        <4>1. i \in 1 .. n /\ i - 1 \in 0 .. n
          BY <3>2
        <4>2. f[i - 1] \in Nat
          BY <4>1, <2>4
        <4> QED
          BY <3>2, <4>1, <4>2, <2>2, <2>4
      <3> QED
        BY <3>1, <3>2
    <2>6. SumEq(f)
      BY <2>4, <2>5
    <2> QED
      BY <2>6
  <1>3. SumEq(sum)
    <2> HIDE DEF SumEq
    <2> QED
      BY <1>2, Zenon
  <1> HIDE DEF sum
  <1>4. \A i \in 0 .. n : sum[i] = IF i = 0 THEN 0 ELSE sum[i - 1] + s[i]
    BY <1>3
  <1> DEFINE S == {i \in 0 .. n : sum[i] \in Nat}
  <1>5. 0 \in S
    BY <1>4
  <1>6. ASSUME NEW t \in 0 .. n, t < n, t \in S
        PROVE  t + 1 \in S
    <2>1. t + 1 \in 0 .. n /\ t + 1 \in 1 .. n /\ t + 1 # 0 /\ (t + 1) - 1 = t
      BY <1>6
    <2>2. sum[t + 1] = sum[t] + s[t + 1]
      BY <1>4, <2>1
    <2> QED
      BY <1>6, <2>1, <2>2
  <1> HIDE DEF S
  <1>7. \A t \in 0 .. n : t \in S
    BY <1>5, <1>6, UpTo
  <1> QED
    BY <1>1, <1>7 DEF S

\* Kvault: of a sequence of amounts one is the largest, or the last of several.
LEMMA LastLargest ==
    ASSUME NEW n \in Nat \ {0}, NEW s, DOMAIN s = 1 .. n, \A i \in 1 .. n : s[i] \in Nat
    PROVE  Kvault!last_largest(s) \in DOMAIN s
  <1> DEFINE Top(i, m) == i \in 1 .. m /\ \A j \in 1 .. m : s[j] < s[i] \/ (s[j] = s[i] /\ j <= i)
             S == {m \in 0 .. n : m = 0 \/ \E i : Top(i, m)}
  <1>1. 0 \in S
    OBVIOUS
  <1>2. ASSUME NEW t \in 0 .. n, t < n, t \in S
        PROVE  t + 1 \in S
    <2>0. t + 1 \in 0 .. n /\ t + 1 \in 1 .. n /\ t + 1 \in 1 .. t + 1
      BY <1>2
    <2>1. CASE t = 0
      <3>1. \A j \in 1 .. t + 1 : j = t + 1
        BY <2>1
      <3>2. Top(t + 1, t + 1)
        BY <2>0, <3>1
      <3> QED
        BY <2>0, <3>2
    <2>2. CASE t # 0
      <3>1. PICK i : Top(i, t)
        BY <1>2, <2>2
      <3>2. i \in 1 .. n /\ s[i] \in Nat /\ s[t + 1] \in Nat /\ i < t + 1
        BY <1>2, <2>0, <3>1
      <3>3. \A j \in 1 .. t + 1 : j \in 1 .. t \/ j = t + 1
        BY <1>2
      <3>4. \A j \in 1 .. t : s[j] \in Nat /\ j <= t + 1
        BY <1>2
      <3>5. CASE s[t + 1] < s[i]
        <4>1. Top(i, t + 1)
          BY <3>1, <3>2, <3>3, <3>5
        <4> QED
          BY <2>0, <4>1
      <3>6. CASE ~(s[t + 1] < s[i])
        <4>1. ASSUME NEW j \in 1 .. t + 1
              PROVE  s[j] < s[t + 1] \/ (s[j] = s[t + 1] /\ j <= t + 1)
          BY <3>1, <3>2, <3>3, <3>4, <3>6
        <4>2. Top(t + 1, t + 1)
          BY <2>0, <4>1
        <4> QED
          BY <2>0, <4>2
      <3> QED
        BY <3>5, <3>6
    <2> QED
      BY <2>1, <2>2
  <1>3. n \in S
    <2> HIDE DEF S
    <2>1. \A t \in 0 .. n : t \in S
      BY <1>1, <1>2, UpTo
    <2> QED
      BY <2>1
  <1>4. \E i \in DOMAIN s : \A j \in DOMAIN s : s[j] < s[i] \/ (s[j] = s[i] /\ j <= i)
    BY <1>3
  <1> QED
    BY <1>4, Zenon DEF Kvault!last_largest

\* Kvault: the account of a Kamino vault whose allocations are in solvent reserves.
KvaultHolds(r) ==
    DOMAIN r = Kvault!KvaultFields /\ Kvault!AllocsTyped(r.allocs) /\ Kvault!KvaultTyped(r)

\* Kvault: the fields of such an account.
LEMMA KvaultFieldsTyped ==
    ASSUME NEW r, KvaultHolds(r)
    PROVE  /\ r.available \in Nat /\ r.shares_issued \in Nat /\ r.pending_fees \in Nat
           /\ r.prev_aum \in Nat /\ r.last_fee_charge_timestamp \in Nat
           /\ r.management_fee_bps \in Nat /\ r.performance_fee_bps \in Nat
           /\ r.crank_fund_fee_per_reserve \in Nat /\ r.penalty_bps \in Nat
           /\ r.penalty_lamports \in Nat /\ r.global_penalty_bps \in Nat
           /\ r.global_penalty_lamports \in Nat
  BY DEF KvaultHolds, Kvault!KvaultTyped, Kvault!Settings, Kvault!Balances

\* Kvault: the allocations of such an account, and the exchange rates of their reserves.
LEMMA AllocsHeld ==
    ASSUME NEW r, KvaultHolds(r), NEW t, Clock(t)
    PROVE  /\ Len(r.allocs) \in Nat /\ DOMAIN r.allocs = 1 .. Len(r.allocs)
           /\ r.allocs # <<>> => Len(r.allocs) # 0
           /\ \A i \in DOMAIN r.allocs :
                 /\ DOMAIN r.allocs[i] = {"weight", "cap", "ctokens", "reserve"}
                 /\ Kvault!AllocHolds(r.allocs[i])
                 /\ KlendHolds(r.allocs[i].reserve, r.allocs[i].ctokens)
                 /\ Klend!known_basis(r.allocs[i].reserve) /\ r.allocs[i].ctokens \in Nat
                 /\ LET x == Kvault!exchange_rate(r.allocs[i].reserve, t)
                    IN  /\ x = [cs |-> x.cs, ts |-> x.ts]
                        /\ x.cs \in Nat \ {0} /\ x.ts \in Nat \ {0}
  <1> DEFINE s == r.allocs
  <1>1. /\ s \in Seq({s[i] : i \in DOMAIN s})
        /\ \A i \in DOMAIN s : DOMAIN s[i] = {"weight", "cap", "ctokens", "reserve"}
    BY DEF KvaultHolds, Kvault!AllocsTyped
  <1>2. \A i \in DOMAIN s : Kvault!AllocHolds(s[i])
    BY DEF KvaultHolds, Kvault!KvaultTyped
  <1> HIDE DEF s
  <1>3. Len(s) \in Nat /\ DOMAIN s = 1 .. Len(s) /\ (s # <<>> => Len(s) # 0)
    <2> DEFINE V == {s[i] : i \in DOMAIN s}
    <2>1. s \in Seq(V)
      BY <1>1
    <2> HIDE DEF V
    <2> QED
      BY <2>1
  <1>4. ASSUME NEW i \in DOMAIN s
        PROVE  /\ KlendHolds(s[i].reserve, s[i].ctokens)
               /\ Klend!known_basis(s[i].reserve) /\ s[i].ctokens \in Nat
               /\ LET x == Kvault!exchange_rate(s[i].reserve, t)
                  IN  /\ x = [cs |-> x.cs, ts |-> x.ts]
                      /\ x.cs \in Nat \ {0} /\ x.ts \in Nat \ {0}
    <2> DEFINE a == s[i]
               y == Klend!exchange_rate(a.reserve, t)
    <2>1. /\ KlendHolds(a.reserve, a.ctokens)
          /\ Klend!known_basis(a.reserve) /\ a.ctokens \in Nat
      BY <1>2, AllocIsHeld
    <2>2. y = [cs |-> y.cs, ts |-> y.ts] /\ y.cs \in Nat \ {0} /\ y.ts \in Nat \ {0}
      BY <2>1, KlendRate DEF KlendHolds
    <2>3. Kvault!exchange_rate(a.reserve, t) = y
      BY ReserveSame
    <2> HIDE DEF y, a
    <2> QED
      BY <2>1, <2>2, <2>3 DEF a
  <1> QED
    BY <1>1, <1>2, <1>3, <1>4 DEF s

\* Kvault: what ctokens are worth at an exchange rate is an amount.
LEMMA CollateralWorth ==
    ASSUME NEW k \in Nat, NEW cs \in Nat \ {0}, NEW ts \in Nat \ {0}
    PROVE  Kvault!fraction_collateral_to_liquidity(k, [cs |-> cs, ts |-> ts]) \in Nat
  <1> DEFINE n == k * ts
  <1>1. n \in Nat
    BY SMT
  <1> HIDE DEF n
  <1>2. n \div cs \in Nat
    BY <1>1, FloorBelow
  <1> QED
    BY <1>2 DEF Kvault!fraction_collateral_to_liquidity, n

\* Kvault: what a vault holds is an amount.
LEMMA HoldingsTyped ==
    ASSUME NEW r, KvaultHolds(r), NEW t, Clock(t)
    PROVE  Kvault!invested_total(r, t) \in Nat /\ Kvault!holdings_total(r, t) \in Nat
  <1> DEFINE s == [i \in DOMAIN r.allocs |->
                      Kvault!invested_for_allocation(Kvault!ctokens_held(r)[i],
                                                     Kvault!reserve_rates(r, t)[i])]
             n == Len(r.allocs)
             a == r.available * ONE
  <1>0. ONE \in Nat /\ r.available \in Nat /\ n \in Nat /\ DOMAIN r.allocs = 1 .. n
    BY ScaleAssumption, KvaultFieldsTyped, AllocsHeld
  <1>1. ASSUME NEW i \in 1 .. n
        PROVE  s[i] \in Nat
    <2> DEFINE k == r.allocs[i].ctokens
               x == Kvault!exchange_rate(r.allocs[i].reserve, t)
    <2>1. s[i] = Kvault!fraction_collateral_to_liquidity(k, x)
      BY <1>0 DEF Kvault!invested_for_allocation, Kvault!ctokens_held, Kvault!reserve_rates
    <2>2. /\ k \in Nat /\ x = [cs |-> x.cs, ts |-> x.ts]
          /\ x.cs \in Nat \ {0} /\ x.ts \in Nat \ {0}
      BY <1>0, AllocsHeld
    <2> HIDE DEF k, x, s
    <2>3. Kvault!fraction_collateral_to_liquidity(k, [cs |-> x.cs, ts |-> x.ts]) \in Nat
      BY <2>2, CollateralWorth
    <2> QED
      BY <2>1, <2>2, <2>3
  <1>2. Kvault!invested_total(r, t) = Kvault!sum_to(s, n)
    BY DEF Kvault!invested_total
  <1> HIDE DEF s, n
  <1>3. Kvault!invested_total(r, t) \in Nat
    BY <1>0, <1>1, <1>2, SumTyped
  <1>4. a \in Nat
    BY <1>0, SMT
  <1> HIDE DEF a
  <1> QED
    BY <1>3, <1>4 DEF Kvault!holdings_total, Kvault!from_num, a

\* Kvault: the product of two fractions.
LEMMA FractionProduct ==
    ASSUME NEW x \in Nat, NEW y \in Nat
    PROVE  Kvault!frac_mul(x, y) \in Nat
  <1>1. Klend!frac_mul(x, y) \in Nat
    BY FracMul
  <1> QED
    BY <1>1 DEF Kvault!frac_mul, Klend!frac_mul

\* Kvault: the fees of a vault are an amount.
LEMMA FeesTyped ==
    ASSUME NEW r, KvaultHolds(r), NEW t, Clock(t), NEW h \in Nat
    PROVE  Kvault!charged_pending_fees(r, t, h) \in Nat
  <1> DEFINE sec == Kvault!saturating_sub(t.timestamp, r.last_fee_charge_timestamp)
             new == Kvault!saturating_sub(h, r.pending_fees)
             mb == Kvault!bps_to_fraction(r.management_fee_bps)
             pb == Kvault!bps_to_fraction(r.performance_fee_bps)
             year == (mb * sec) \div KVAULT_YEAR
             mgmt == Kvault!frac_mul(r.prev_aum, year)
             gain == Kvault!saturating_sub(new, r.prev_aum)
             perf == Kvault!frac_mul(pb, gain)
  <1>0. /\ r.pending_fees \in Nat /\ r.prev_aum \in Nat /\ r.last_fee_charge_timestamp \in Nat
        /\ r.management_fee_bps \in Nat /\ r.performance_fee_bps \in Nat /\ t.timestamp \in Nat
        /\ KVAULT_YEAR \in Nat \ {0}
    BY KvaultFieldsTyped, PeriodAssumption DEF Clock
  <1>1. sec \in Nat /\ new \in Nat /\ gain \in Nat
    BY <1>0 DEF Kvault!saturating_sub
  <1>2. mb \in Nat /\ pb \in Nat
    <2>1. Klend!bps_to_fraction(r.management_fee_bps) \in Nat
      BY <1>0, BpsToFraction
    <2>2. Klend!bps_to_fraction(r.performance_fee_bps) \in Nat
      BY <1>0, BpsToFraction
    <2> QED
      BY <2>1, <2>2 DEF Kvault!bps_to_fraction, Klend!bps_to_fraction, Kvault!from_num,
                        Klend!from_num
  <1> HIDE DEF sec, new, gain, mb, pb
  <1>3. year \in Nat
    <2> DEFINE n == mb * sec
    <2>1. n \in Nat
      BY <1>1, <1>2, SMT
    <2> HIDE DEF n
    <2>2. n \div KVAULT_YEAR \in Nat
      BY <1>0, <2>1, FloorBelow
    <2> QED
      BY <2>2 DEF n
  <1> HIDE DEF year
  <1>4. mgmt \in Nat /\ perf \in Nat
    BY <1>0, <1>1, <1>2, <1>3, FractionProduct
  <1>5. Kvault!charged_pending_fees(r, t, h)
          = IF r.last_fee_charge_timestamp = 0 THEN r.pending_fees
            ELSE r.pending_fees + Kvault!smaller(mgmt + perf, new)
    BY DEF Kvault!charged_pending_fees, year, sec, new, mb, pb, gain
  <1> HIDE DEF mgmt, perf
  <1>6. Kvault!smaller(mgmt + perf, new) \in Nat
    BY <1>1, <1>4 DEF Kvault!smaller
  <1> QED
    BY <1>0, <1>5, <1>6

\* Kvault: balances of a vault may change to other amounts, and its farm.
LEMMA BalancesChanged ==
    ASSUME NEW r, KvaultHolds(r), NEW c, DOMAIN c = Kvault!KvaultFields, c.allocs = r.allocs,
           \A f \in Kvault!Settings : c[f] \in Nat,
           c.available \in Nat, c.shares_issued \in Nat, c.pending_fees \in Nat,
           c.prev_aum \in Nat, c.last_fee_charge_timestamp \in Nat
    PROVE  KvaultHolds(c)
  <1>1. Kvault!AllocsTyped(c.allocs) /\ \A i \in DOMAIN c.allocs : Kvault!AllocHolds(c.allocs[i])
    BY DEF KvaultHolds, Kvault!KvaultTyped
  <1>2. \A f \in Kvault!Settings \cup Kvault!Balances : c[f] \in Nat
    BY DEF Kvault!Balances
  <1> QED
    BY <1>1, <1>2 DEF KvaultHolds, Kvault!KvaultTyped

\* Kvault: the settings are kept by what changes only other fields.
LEMMA SettingsTyped ==
    ASSUME NEW r, KvaultHolds(r), NEW c, \A f \in Kvault!Settings : c[f] = r[f]
    PROVE  \A f \in Kvault!Settings : c[f] \in Nat
  BY DEF KvaultHolds, Kvault!KvaultTyped

\* Kvault: charging the fees.
LEMMA ChargedHolds ==
    ASSUME NEW r, KvaultHolds(r), NEW t, Clock(t)
    PROVE  LET c == Kvault!Charged(r, t)
           IN  /\ KvaultHolds(c)
               /\ c.available = r.available /\ c.shares_issued = r.shares_issued
               /\ c.allocs = r.allocs
  <1> DEFINE c == Kvault!Charged(r, t)
             n == Kvault!charged_pending_fees(r, t, Kvault!holdings_total(r, t))
  <1>0. DOMAIN r = Kvault!KvaultFields /\ t.timestamp \in Nat
    BY DEF KvaultHolds, Clock
  <1>1. n \in Nat
    BY HoldingsTyped, FeesTyped
  <1>2. c = [r EXCEPT !.pending_fees = n, !.last_fee_charge_timestamp = t.timestamp]
    BY DEF Kvault!Charged
  <1> HIDE DEF n, c
  <1>3. /\ DOMAIN c = Kvault!KvaultFields
        /\ c.available = r.available /\ c.shares_issued = r.shares_issued /\ c.allocs = r.allocs
        /\ c.prev_aum = r.prev_aum /\ c.pending_fees = n
        /\ c.last_fee_charge_timestamp = t.timestamp
    BY <1>0, <1>2 DEF Kvault!KvaultFields
  <1>4. \A f \in Kvault!Settings : c[f] = r[f]
    BY <1>0, <1>2 DEF Kvault!KvaultFields, Kvault!Settings
  <1>5. \A f \in Kvault!Settings : c[f] \in Nat
    BY <1>4, SettingsTyped
  <1>6. r.available \in Nat /\ r.shares_issued \in Nat /\ r.prev_aum \in Nat
    BY KvaultFieldsTyped
  <1>7. KvaultHolds(c)
    BY <1>0, <1>1, <1>3, <1>5, <1>6, BalancesChanged
  <1> QED
    BY <1>3, <1>7 DEF c

\* Kvault: recording the assets.
LEMMA SettledHolds ==
    ASSUME NEW r, KvaultHolds(r), NEW t, Clock(t)
    PROVE  LET c == Kvault!Settled(r, t)
           IN  /\ KvaultHolds(c)
               /\ c.available = r.available /\ c.shares_issued = r.shares_issued
  <1> DEFINE c == Kvault!Settled(r, t)
             h == Kvault!holdings_total(r, t)
             n == Kvault!saturating_sub(h, r.pending_fees)
  <1>0. DOMAIN r = Kvault!KvaultFields
    BY DEF KvaultHolds
  <1>1. n \in Nat
    <2>1. h \in Nat /\ r.pending_fees \in Nat
      BY HoldingsTyped, KvaultFieldsTyped
    <2> HIDE DEF h
    <2> QED
      BY <2>1 DEF Kvault!saturating_sub
  <1>2. c = [r EXCEPT !.prev_aum = n]
    BY DEF Kvault!Settled
  <1> HIDE DEF n, c
  <1>3. /\ DOMAIN c = Kvault!KvaultFields
        /\ c.available = r.available /\ c.shares_issued = r.shares_issued /\ c.allocs = r.allocs
        /\ c.prev_aum = n /\ c.pending_fees = r.pending_fees
        /\ c.last_fee_charge_timestamp = r.last_fee_charge_timestamp
    BY <1>0, <1>2 DEF Kvault!KvaultFields
  <1>4. \A f \in Kvault!Settings : c[f] = r[f]
    BY <1>0, <1>2 DEF Kvault!KvaultFields, Kvault!Settings
  <1>5. \A f \in Kvault!Settings : c[f] \in Nat
    BY <1>4, SettingsTyped
  <1>6. /\ r.available \in Nat /\ r.shares_issued \in Nat /\ r.pending_fees \in Nat
        /\ r.last_fee_charge_timestamp \in Nat
    BY KvaultFieldsTyped
  <1>7. KvaultHolds(c)
    BY <1>0, <1>1, <1>3, <1>5, <1>6, BalancesChanged
  <1> QED
    BY <1>3, <1>7 DEF c

\* Kvault: tokens and shares of a vault after a trade.
Rebalanced(r, a, s, farm) == [r EXCEPT !.available = a, !.shares_issued = s, !.farm = farm]

\* Kvault: they are amounts.
LEMMA RebalancedHolds ==
    ASSUME NEW r, KvaultHolds(r), NEW a \in Nat, NEW s \in Nat, NEW farm
    PROVE  LET c == Rebalanced(r, a, s, farm)
           IN  KvaultHolds(c) /\ c.available = a /\ c.shares_issued = s
  <1> DEFINE c == Rebalanced(r, a, s, farm)
  <1>0. DOMAIN r = Kvault!KvaultFields
    BY DEF KvaultHolds
  <1>3. /\ DOMAIN c = Kvault!KvaultFields
        /\ c.available = a /\ c.shares_issued = s /\ c.allocs = r.allocs
        /\ c.prev_aum = r.prev_aum /\ c.pending_fees = r.pending_fees
        /\ c.last_fee_charge_timestamp = r.last_fee_charge_timestamp
    BY <1>0 DEF Kvault!KvaultFields, Rebalanced
  <1>4. \A f \in Kvault!Settings : c[f] = r[f]
    BY <1>0 DEF Kvault!KvaultFields, Kvault!Settings, Rebalanced
  <1> HIDE DEF c
  <1>5. \A f \in Kvault!Settings : c[f] \in Nat
    BY <1>4, SettingsTyped
  <1>6. r.prev_aum \in Nat /\ r.pending_fees \in Nat /\ r.last_fee_charge_timestamp \in Nat
    BY KvaultFieldsTyped
  <1>7. KvaultHolds(c)
    BY <1>0, <1>3, <1>5, <1>6, BalancesChanged
  <1> QED
    BY <1>3, <1>7 DEF c

\* Kvault: tokens moved between a vault and one of its allocations.
Reallocated(r, a, i, e) == [r EXCEPT !.available = a, !.allocs[i] = e]

\* Kvault: the allocations remain in solvent reserves.
LEMMA ReallocatedHolds ==
    ASSUME NEW r, KvaultHolds(r), NEW a \in Nat, NEW i \in DOMAIN r.allocs, NEW e,
           DOMAIN e = {"weight", "cap", "ctokens", "reserve"}, Kvault!AllocHolds(e)
    PROVE  LET c == Reallocated(r, a, i, e)
           IN  KvaultHolds(c) /\ c.available = a /\ c.shares_issued = r.shares_issued
  <1> DEFINE f == [r.allocs EXCEPT ![i] = e]
             c == Reallocated(r, a, i, e)
  <1>0. DOMAIN r = Kvault!KvaultFields /\ Kvault!AllocsTyped(r.allocs)
    BY DEF KvaultHolds
  <1>1. DOMAIN e.reserve = Kvault!Fields
    BY DEF Kvault!AllocHolds, Kvault!Typed
  <1>2. Kvault!AllocsTyped(f)
    BY <1>0, <1>1, AllocsExcept
  <1>3. \A j \in DOMAIN f : Kvault!AllocHolds(f[j])
    <2>1. \A j \in DOMAIN r.allocs : Kvault!AllocHolds(r.allocs[j])
      BY DEF KvaultHolds, Kvault!KvaultTyped
    <2> QED
      BY <2>1
  <1>4. c = [r EXCEPT !.available = a, !.allocs = f]
    BY <1>0 DEF Kvault!KvaultFields, Reallocated
  <1> HIDE DEF f, c
  <1>5. /\ DOMAIN c = Kvault!KvaultFields /\ c.allocs = f
        /\ c.available = a /\ c.shares_issued = r.shares_issued
        /\ c.prev_aum = r.prev_aum /\ c.pending_fees = r.pending_fees
        /\ c.last_fee_charge_timestamp = r.last_fee_charge_timestamp
    BY <1>0, <1>4 DEF Kvault!KvaultFields
  <1>6. \A g \in Kvault!Settings : c[g] = r[g]
    BY <1>0, <1>4 DEF Kvault!KvaultFields, Kvault!Settings
  <1>7. \A g \in Kvault!Settings : c[g] \in Nat
    BY <1>6, SettingsTyped
  <1>8. /\ r.shares_issued \in Nat /\ r.prev_aum \in Nat /\ r.pending_fees \in Nat
        /\ r.last_fee_charge_timestamp \in Nat
    BY KvaultFieldsTyped
  <1>9. \A g \in Kvault!Settings \cup Kvault!Balances : c[g] \in Nat
    BY <1>5, <1>7, <1>8 DEF Kvault!Balances
  <1>10. KvaultHolds(c)
    BY <1>2, <1>3, <1>5, <1>9 DEF KvaultHolds, Kvault!KvaultTyped
  <1> QED
    BY <1>5, <1>10 DEF c

\* Kvault: accruing the reserves keeps them solvent.
LEMMA AccruedReservesHold ==
    ASSUME NEW r, KvaultHolds(r), NEW t, Clock(t)
    PROVE  LET c == Kvault!reserves_accrued(r, t)
           IN  KvaultHolds(c) /\ c.available = r.available /\ c.shares_issued = r.shares_issued
  <1> DEFINE c == Kvault!reserves_accrued(r, t)
             s == r.allocs
             f == [i \in DOMAIN s |-> [s[i] EXCEPT !.reserve = Kvault!pre_accrue(s[i].reserve, t)]]
  <1>0. /\ DOMAIN r = Kvault!KvaultFields /\ Kvault!AllocsTyped(s)
        /\ \A i \in DOMAIN s : Kvault!AllocHolds(s[i])
    BY DEF KvaultHolds, Kvault!KvaultTyped
  <1>1. c = [r EXCEPT !.allocs = f]
    BY DEF Kvault!reserves_accrued
  <1>2. Kvault!AllocsTyped(c.allocs)
    BY <1>0, ReservesAccruedOnce
  <1>3. ASSUME NEW i \in DOMAIN f
        PROVE  Kvault!AllocHolds(f[i])
    <2> DEFINE a == s[i]
               p == Kvault!pre_accrue(a.reserve, t)
               e == [a EXCEPT !.reserve = p]
    <2>1. /\ KlendHolds(a.reserve, a.ctokens) /\ Klend!known_basis(a.reserve) /\ a.ctokens \in Nat
          /\ DOMAIN a = {"weight", "cap", "ctokens", "reserve"}
      BY AllocsHeld
    <2>2. /\ Klend!Typed(p) /\ Klend!Solvent(p)
          /\ p.supply = a.reserve.supply /\ p.queued = a.reserve.queued
          /\ p.config = a.reserve.config
      <3>1. p = Klend!pre_accrue(a.reserve, t)
        BY ReserveSame
      <3> HIDE DEF p, a
      <3> QED
        BY <2>1, <3>1, KlendAccrued DEF KlendHolds
    <2>3. f[i] = e
      OBVIOUS
    <2> HIDE DEF a, p, f
    <2>4. e.reserve = p /\ e.ctokens = a.ctokens
      BY <2>1
    <2> HIDE DEF e
    <2>5. KlendHolds(e.reserve, e.ctokens) /\ Klend!known_basis(e.reserve) /\ e.ctokens \in Nat
      BY <2>1, <2>2, <2>4 DEF KlendHolds, Klend!known_basis
    <2> QED
      BY <2>3, <2>5, AllocIsHeld
  <1> HIDE DEF f, c
  <1>4. /\ DOMAIN c = Kvault!KvaultFields /\ c.allocs = f
        /\ c.available = r.available /\ c.shares_issued = r.shares_issued
        /\ \A g \in Kvault!Settings \cup Kvault!Balances : c[g] = r[g]
    BY <1>0, <1>1 DEF Kvault!KvaultFields, Kvault!Settings, Kvault!Balances
  <1>5. \A g \in Kvault!Settings \cup Kvault!Balances : c[g] \in Nat
    BY <1>4 DEF KvaultHolds, Kvault!KvaultTyped
  <1>6. KvaultHolds(c)
    BY <1>2, <1>3, <1>4, <1>5 DEF KvaultHolds, Kvault!KvaultTyped
  <1> QED
    BY <1>4, <1>6 DEF c

\* Kvault: the crank's funds are an amount.
LEMMA CrankTyped ==
    ASSUME NEW r, KvaultHolds(r), NEW t, Clock(t)
    PROVE  Kvault!crank_funds(r) \in Nat
  <1> DEFINE paying(alloc) == alloc.weight > 0 /\ alloc.cap > 0
             s == [i \in DOMAIN r.allocs |-> IF paying(r.allocs[i]) THEN 1 ELSE 0]
             n == Len(r.allocs)
             m == Kvault!sum_to(s, n)
  <1>1. n \in Nat /\ DOMAIN r.allocs = 1 .. n /\ r.crank_fund_fee_per_reserve \in Nat
    BY KvaultFieldsTyped, AllocsHeld
  <1>2. \A i \in 1 .. n : s[i] \in Nat
    BY <1>1
  <1>3. Kvault!crank_funds(r) = m * r.crank_fund_fee_per_reserve
    BY DEF Kvault!crank_funds
  <1>4. m \in Nat
    <2> HIDE DEF s, n
    <2> QED
      BY <1>1, <1>2, SumTyped
  <1> HIDE DEF m
  <1> QED
    BY <1>1, <1>3, <1>4, SMT

\* Kvault: the vault after a deposit that was quoted.
LEMMA KvaultDepositHolds ==
    ASSUME NEW r, KvaultHolds(r), NEW t, Clock(t), NEW v, NEW net \in Nat,
           NEW q, q = Kvault!kvault_quote_deposit(r, t, v, net), q # Refused
    PROVE  LET c == Kvault!KvaultDeposited(r, t, v, q)
           IN  /\ KvaultHolds(c)
               /\ q.brought \in Nat /\ c.shares_issued = r.shares_issued + q.brought
  <1> DEFINE aum == Kvault!current_aum(r, t)
             funds == Kvault!crank_funds(r)
             left == net - funds
             sh == Kvault!get_shares_to_mint(aum, left, r.shares_issued)
             d == Kvault!Charged(r, t)
             c == Kvault!KvaultDeposited(r, t, v, q)
  <1>1. /\ ~(net = 0 \/ left < 0 \/ left < r.min_deposit_amount)
        /\ sh \in 1 .. U64 - 1
        /\ q.brought = sh /\ q.spends = left
    BY DEF Kvault!kvault_quote_deposit, Kvault!deposit_at_aum, Kvault!Refused, Refused
  <1>2. funds \in Nat /\ U64 \in Nat
    BY CrankTyped, U64Assumption
  <1> HIDE DEF funds, sh
  <1>3. q.spends \in Nat /\ q.brought \in Nat
    BY <1>1, <1>2
  <1>4. /\ KvaultHolds(d) /\ d.available = r.available /\ d.shares_issued = r.shares_issued
    BY ChargedHolds
  <1>5. r.available \in Nat /\ r.shares_issued \in Nat /\ DOMAIN d = Kvault!KvaultFields
    BY <1>4, KvaultFieldsTyped DEF KvaultHolds
  <1> DEFINE a == r.available + q.spends
             s == r.shares_issued + q.brought
             farm == Kvault!Staked(d.farm, q.brought)
             e == Rebalanced(d, a, s, farm)
  <1>6. c = Kvault!Settled(e, t)
    <2> HIDE DEF d
    <2>1. [d EXCEPT !.available = @ + q.spends, !.shares_issued = @ + q.brought,
                    !.farm = Kvault!Staked(@, q.brought)] = e
      BY <1>4, <1>5 DEF Rebalanced, Kvault!KvaultFields
    <2> QED
      BY <2>1 DEF Kvault!KvaultDeposited, d
  <1>7. a \in Nat /\ s \in Nat
    BY <1>3, <1>5
  <1> HIDE DEF a, s, d, farm
  <1>8. KvaultHolds(e) /\ e.shares_issued = s
    BY <1>4, <1>7, RebalancedHolds
  <1> HIDE DEF e
  <1>9. KvaultHolds(Kvault!Settled(e, t)) /\ Kvault!Settled(e, t).shares_issued = s
    BY <1>8, SettledHolds
  <1> QED
    BY <1>3, <1>6, <1>9 DEF s

\* Kvault: the vault after its crank has invested.
LEMMA InvestedHolds ==
    ASSUME NEW r, KvaultHolds(r), NEW t, Clock(t), NEW n \in Nat \ {0}, Kvault!Investable(r, t, n)
    PROVE  LET c == Kvault!Invested(r, t, n)
           IN  KvaultHolds(c) /\ c.shares_issued = r.shares_issued
  <1> DEFINE b == r.allocs[1]
             x == Kvault!exchange_rate(b.reserve, t)
             p == Kvault!pre_accrue(b.reserve, t)
             k == Kvault!liquidity_to_collateral(n, x)
             g == [p EXCEPT !.available = @ + n, !.supply = @ + k]
             e == [[b EXCEPT !.ctokens = @ + k] EXCEPT !.reserve = g]
             a == r.available - n
             c == Kvault!Invested(r, t, n)
  <1>0. r.allocs # <<>> /\ n <= r.available /\ k > 0
    BY DEF Kvault!Investable
  <1>1. r.available \in Nat /\ DOMAIN r = Kvault!KvaultFields /\ ONE \in Nat \ {0}
    BY KvaultFieldsTyped, ScaleAssumption DEF KvaultHolds
  <1>2. 1 \in DOMAIN r.allocs
    <2>1. Len(r.allocs) \in Nat /\ Len(r.allocs) # 0 /\ DOMAIN r.allocs = 1 .. Len(r.allocs)
      BY <1>0, AllocsHeld
    <2> QED
      BY <2>1
  <1>3. /\ DOMAIN b = {"weight", "cap", "ctokens", "reserve"}
        /\ KlendHolds(b.reserve, b.ctokens) /\ Klend!known_basis(b.reserve) /\ b.ctokens \in Nat
        /\ x = [cs |-> x.cs, ts |-> x.ts] /\ x.cs \in Nat \ {0} /\ x.ts \in Nat \ {0}
    BY <1>2, AllocsHeld
  <1>4. p = Klend!pre_accrue(b.reserve, t) /\ Kvault!exchange_rate(p, t) = x
    <2>1. DOMAIN b.reserve = Kvault!Fields
      BY <1>3, ReserveSame DEF KlendHolds, Kvault!Typed
    <2> QED
      BY <2>1, ReserveSame, ReserveAccruedOnce
  <1>5. k \in Nat \ {0}
    <2> DEFINE cs == x.cs
               ts == x.ts
               m == cs * n
               u == m * ONE
               w == u * ONE
               y == w \div ts
               z == y \div ONE
    <2>1. k = z
      BY DEF Kvault!liquidity_to_collateral, Kvault!floor, Kvault!frac_div, Kvault!from_num
    <2>2. cs \in Nat \ {0} /\ ts \in Nat \ {0}
      BY <1>3
    <2> HIDE DEF cs, ts, k
    <2>3. m \in Nat
      BY <2>2, SMT
    <2> HIDE DEF m
    <2>4. u \in Nat
      BY <1>1, <2>3, SMT
    <2> HIDE DEF u
    <2>5. w \in Nat
      BY <1>1, <2>4, SMT
    <2> HIDE DEF w
    <2>6. y \in Nat
      BY <2>2, <2>5, FloorBelow
    <2> HIDE DEF y
    <2>7. z \in Nat
      BY <1>1, <2>6, FloorBelow
    <2> HIDE DEF z
    <2> QED
      BY <1>0, <2>1, <2>7
  <1>6. c = Reallocated(r, a, 1, e)
    <2>1. c = [r EXCEPT !.available = @ - n, !.allocs[1].ctokens = @ + k, !.allocs[1].reserve = g]
      BY <1>4 DEF Kvault!Invested, Kvault!InvestedAt, Kvault!InvestedFor
    <2> HIDE DEF c, p, k, g, x
    <2> QED
      BY <1>1, <2>1 DEF Kvault!KvaultFields, Reallocated
  <1> DEFINE R == b.reserve
  <1>7. g = Moved(R, t, R.available + n, R.supply + k, R.cap)
    <2> DEFINE P == Klend!pre_accrue(R, t)
    <2>1. Klend!Typed(R) /\ Klend!Solvent(R)
      BY <1>3 DEF KlendHolds
    <2>2. /\ P.available = R.available /\ P.supply = R.supply
          /\ [P EXCEPT !.available = R.available + n, !.supply = R.supply + k]
               = Moved(R, t, R.available + n, R.supply + k, R.cap)
      <3> DEFINE na == R.available + n
                 ns == R.supply + k
      <3> HIDE DEF na, ns, R
      <3>1. /\ Klend!pre_accrue(R, t).available = R.available
            /\ Klend!pre_accrue(R, t).supply = R.supply
            /\ [Klend!pre_accrue(R, t) EXCEPT !.available = na, !.supply = ns]
                 = Moved(R, t, na, ns, R.cap)
        BY <2>1, MovedOnly
      <3> QED
        BY <3>1 DEF na, ns
    <2>3. g = [P EXCEPT !.available = P.available + n, !.supply = P.supply + k]
      <3>1. p = P
        BY <1>4
      <3>2. DOMAIN P = Klend!Fields
        BY <2>1, KlendAccrued DEF Klend!Typed
      <3> HIDE DEF p, P, k, R
      <3> QED
        BY <3>1, <3>2 DEF Klend!Fields
    <2> HIDE DEF g, k, P, R
    <2> QED
      BY <2>2, <2>3
  <1>8. e.ctokens = b.ctokens + k /\ e.reserve = g /\ DOMAIN e = {"weight", "cap", "ctokens", "reserve"}
    <2> HIDE DEF b, k, g
    <2> QED
      BY <1>3
  <1> HIDE DEF g, k, e, x, p
  <1>9. KlendHolds(g, b.ctokens + k) /\ Klend!known_basis(g)
    <2> DEFINE h == b.ctokens
    <2>1. KlendHolds(R, h) /\ Klend!known_basis(R) /\ h \in Nat
      BY <1>3
    <2> HIDE DEF R, h
    <2>2. KlendHolds(g, h + k) /\ Klend!known_basis(g)
      BY <2>1, <1>5, <1>7, ReserveSupplied
    <2> QED
      BY <2>2 DEF h
  <1>10. Kvault!AllocHolds(e)
    <2>1. b.ctokens + k \in Nat
      BY <1>3, <1>5
    <2> QED
      BY <1>8, <1>9, <2>1, AllocIsHeld
  <1>11. a \in Nat
    BY <1>0, <1>1
  <1> HIDE DEF a, c
  <1>12. KvaultHolds(c) /\ c.shares_issued = r.shares_issued
    <2>1. DOMAIN e = {"weight", "cap", "ctokens", "reserve"}
      BY <1>8
    <2> DEFINE i == 1
    <2>2. i \in DOMAIN r.allocs /\ c = Reallocated(r, a, i, e)
      BY <1>2, <1>6
    <2> HIDE DEF i
    <2>3. /\ KvaultHolds(Reallocated(r, a, i, e))
          /\ Reallocated(r, a, i, e).shares_issued = r.shares_issued
      BY <2>1, <2>2, <1>10, <1>11, ReallocatedHolds
    <2> QED
      BY <2>2, <2>3
  <1> QED
    BY <1>12 DEF c

\* Kvault: what is disinvested is part of the ctokens held.
LEMMA DisinvestTyped ==
    ASSUME NEW k \in Nat, NEW amount \in Nat, NEW cs \in Nat \ {0}, NEW ts \in Nat \ {0}
    PROVE  LET out == Kvault!disinvest(k, [cs |-> cs, ts |-> ts], amount)
           IN  out.ctokens \in Nat /\ out.ctokens <= k /\ out.sent \in Nat
  <1> DEFINE x == [cs |-> cs, ts |-> ts]
             inres == Kvault!fraction_collateral_to_liquidity(k, x)
             send == Kvault!smaller(inres, amount * ONE)
             whole == send \div ONE
             n == (whole * cs) * ONE
             need == ceil_div(n, ts)
             ctokens == Kvault!smaller(need, k)
             liquidity == Kvault!fraction_collateral_to_liquidity(ctokens, x)
             err == IF liquidity % ONE > 0 /\ liquidity % ONE > send % ONE THEN 1 ELSE 0
             out == Kvault!disinvest(k, x, amount)
  <1>0. ONE \in Nat \ {0} /\ amount * ONE \in Nat
    BY ScaleAssumption, SMT
  <1>1. inres \in Nat
    BY CollateralWorth
  <1>2. /\ send # 0 => out = [ctokens |-> ctokens, sent |-> Kvault!saturating_sub(whole, err)]
        /\ send = 0 => out = [ctokens |-> 0, sent |-> 0]
    BY DEF Kvault!disinvest, Kvault!from_num, Kvault!floor,
           Kvault!fraction_liquidity_to_collateral_ceil, Kvault!ceil_div, ceil_div
  <1>3. err \in {0, 1}
    OBVIOUS
  <1> HIDE DEF inres, err
  <1>4. send \in Nat
    BY <1>0, <1>1 DEF Kvault!smaller
  <1> HIDE DEF send
  <1>5. whole \in Nat
    BY <1>0, <1>4, FloorBelow
  <1> HIDE DEF whole
  <1>6. n \in Nat
    BY <1>0, <1>5, SMT
  <1> HIDE DEF n
  <1>7. need \in Nat
    BY <1>6, CeilAbove
  <1> HIDE DEF need
  <1>8. ctokens \in Nat /\ ctokens <= k
    BY <1>7 DEF Kvault!smaller
  <1>9. Kvault!saturating_sub(whole, err) \in Nat
    BY <1>3, <1>5 DEF Kvault!saturating_sub
  <1> HIDE DEF ctokens, out
  <1>10. out.ctokens \in Nat /\ out.ctokens <= k /\ out.sent \in Nat
    BY <1>2, <1>8, <1>9
  <1> QED
    BY <1>10 DEF out

\* Kvault: what a withdrawal of total tokens takes out of the primary allocation
\* covers what is sent beyond the vault's own tokens.
LEMMA PrimaryCovers ==
    ASSUME NEW r, KvaultHolds(r), NEW t, Clock(t), r.allocs # <<>>, NEW amount \in Nat
    PROVE  LET i == Kvault!primary(r)
               out == Kvault!disinvest_primary(r, t, amount)
               x == Kvault!exchange_rate(r.allocs[i].reserve, t)
           IN  /\ i \in DOMAIN r.allocs
               /\ out = Kvault!disinvest(r.allocs[i].ctokens, x, amount)
               /\ out.ctokens \in Nat /\ out.ctokens <= r.allocs[i].ctokens /\ out.sent \in Nat
               /\ out.sent <= Kvault!collateral_to_liquidity(out.ctokens, x)
  <1> DEFINE s == Kvault!ctokens_held(r)
             i == Kvault!primary(r)
             n == Len(r.allocs)
             k == r.allocs[i].ctokens
             x == Kvault!exchange_rate(r.allocs[i].reserve, t)
             out == Kvault!disinvest_primary(r, t, amount)
  <1>1. /\ n \in Nat \ {0} /\ DOMAIN r.allocs = 1 .. n
        /\ \A j \in 1 .. n : r.allocs[j].ctokens \in Nat
    BY AllocsHeld
  <1>2. DOMAIN s = 1 .. n /\ \A j \in 1 .. n : s[j] \in Nat
    BY <1>1 DEF Kvault!ctokens_held
  <1>3. i \in DOMAIN r.allocs
    <2> HIDE DEF s, n
    <2>1. Kvault!last_largest(s) \in DOMAIN s
      BY <1>1, <1>2, LastLargest
    <2> QED
      BY <1>1, <1>2, <2>1 DEF Kvault!primary, s
  <1>4. k \in Nat /\ x = [cs |-> x.cs, ts |-> x.ts] /\ x.cs \in Nat \ {0} /\ x.ts \in Nat \ {0}
    BY <1>3, AllocsHeld
  <1>5. out = Kvault!disinvest(k, x, amount)
    <2>1. Kvault!ctokens_held(r)[i] = k /\ Kvault!reserve_rates(r, t)[i] = x
      BY <1>3 DEF Kvault!ctokens_held, Kvault!reserve_rates
    <2> HIDE DEF k, x
    <2> QED
      BY <2>1 DEF Kvault!disinvest_primary
  <1> DEFINE cs == x.cs
             ts == x.ts
  <1>6. /\ cs \in Nat \ {0} /\ ts \in Nat \ {0} /\ x = [cs |-> cs, ts |-> ts] /\ k \in Nat
    BY <1>4
  <1> HIDE DEF cs, ts, x, k, out, i
  <1> DEFINE o == Kvault!disinvest(k, [cs |-> cs, ts |-> ts], amount)
  <1>7. o.ctokens \in Nat /\ o.ctokens <= k /\ o.sent \in Nat
    BY <1>6, DisinvestTyped
  <1>8. o.sent <= Kvault!collateral_to_liquidity(o.ctokens, [cs |-> cs, ts |-> ts])
    BY <1>6, DisinvestCovered
  <1>9. out = o
    BY <1>5, <1>6
  <1> HIDE DEF o
  <1>10. /\ out.ctokens \in Nat /\ out.ctokens <= k /\ out.sent \in Nat
         /\ out.sent <= Kvault!collateral_to_liquidity(out.ctokens, x)
    BY <1>6, <1>7, <1>8, <1>9
  <1> QED
    BY <1>3, <1>5, <1>10 DEF out, i, k, x

\* Kvault: the vault after ctokens of its primary allocation were redeemed.
LEMMA DisinvestedHolds ==
    ASSUME NEW r, KvaultHolds(r), NEW t, Clock(t), r.allocs # <<>>, NEW k \in Nat,
           LET a == r.allocs[Kvault!primary(r)]
           IN  k <= a.ctokens /\ Kvault!Redeemable(a.reserve, t, k)
    PROVE  LET a == r.allocs[Kvault!primary(r)]
               c == Kvault!Disinvested(r, t, k)
               d == Kvault!collateral_to_liquidity(k, Kvault!exchange_rate(a.reserve, t))
           IN  /\ KvaultHolds(c) /\ c.shares_issued = r.shares_issued
               /\ d \in Nat /\ c.available = r.available + d
  <1> DEFINE i == Kvault!primary(r)
             b == r.allocs[i]
             R == b.reserve
             h == b.ctokens
             x == Kvault!exchange_rate(R, t)
             p == Kvault!pre_accrue(R, t)
             d == Kvault!collateral_to_liquidity(k, x)
             c == Kvault!Disinvested(r, t, k)
             g == [p EXCEPT !.available = @ - d, !.supply = @ - k]
             e == [b EXCEPT !.ctokens = @ - k, !.reserve = g]
             a == r.available + d
  <1>0. k <= h /\ (k > 0 => d <= R.available)
    BY DEF Kvault!Redeemable
  <1>1. i \in DOMAIN r.allocs
    BY PrimaryCovers
  <1>2. r.available \in Nat /\ DOMAIN r = Kvault!KvaultFields /\ ONE \in Nat \ {0}
    BY KvaultFieldsTyped, ScaleAssumption DEF KvaultHolds
  <1>3. /\ DOMAIN b = {"weight", "cap", "ctokens", "reserve"}
        /\ KlendHolds(R, h) /\ Klend!known_basis(R) /\ h \in Nat
        /\ x = [cs |-> x.cs, ts |-> x.ts] /\ x.cs \in Nat \ {0} /\ x.ts \in Nat \ {0}
    BY <1>1, AllocsHeld
  <1>4. p = Klend!pre_accrue(R, t) /\ Kvault!exchange_rate(p, t) = x /\ x = Klend!exchange_rate(R, t)
    <2>1. DOMAIN R = Kvault!Fields
      BY <1>3, ReserveSame DEF KlendHolds, Kvault!Typed
    <2> HIDE DEF R
    <2> QED
      BY <2>1, ReserveSame, ReserveAccruedOnce
  <1>5. d = Klend!collateral_to_liquidity(k, Klend!exchange_rate(R, t))
    <2> HIDE DEF x
    <2> QED
      BY <1>4, ConversionSame
  <1>6. CASE k = 0
    <2>1. c = r
      BY <1>6 DEF Kvault!Disinvested
    <2>2. d = 0
      <3> DEFINE cs == x.cs
                 ts == x.ts
      <3>1. d = ((0 * ts) \div cs) \div ONE
        BY <1>6 DEF Kvault!collateral_to_liquidity, Kvault!fraction_collateral_to_liquidity,
                    Kvault!floor
      <3>2. cs \in Nat \ {0} /\ ts \in Nat \ {0}
        BY <1>3
      <3> HIDE DEF d, cs, ts
      <3>3. ((0 * ts) \div cs) \div ONE = 0
        BY <3>2, <1>2, SMT
      <3> QED
        BY <3>1, <3>3
    <2> HIDE DEF c, d
    <2> QED
      BY <2>1, <2>2, <1>2 DEF c, d
  <1>7. CASE k # 0
    <2>1. c = Reallocated(r, a, i, e)
      <3>1. c = Kvault!Redeemed(r, i, p, k, d)
        BY <1>4, <1>7 DEF Kvault!Disinvested, Kvault!RedeemedAt
      <3> HIDE DEF i, p, d, c
      <3> QED
        BY <3>1, <1>2 DEF Kvault!Redeemed, Kvault!AllocRedeemed, Reallocated, Kvault!KvaultFields
    <2> HIDE DEF x, d
    <2> DEFINE na == R.available - d
               ns == R.supply - k
    <2>2. g = Moved(R, t, na, ns, R.cap)
      <3> DEFINE P == Klend!pre_accrue(R, t)
      <3>1. Klend!Typed(R) /\ Klend!Solvent(R)
        BY <1>3 DEF KlendHolds
      <3>2. /\ P.available = R.available /\ P.supply = R.supply
            /\ [P EXCEPT !.available = na, !.supply = ns] = Moved(R, t, na, ns, R.cap)
        <4> HIDE DEF na, ns, R
        <4> QED
          BY <3>1, MovedOnly
      <3>3. g = [P EXCEPT !.available = P.available - d, !.supply = P.supply - k]
        <4>1. p = P
          BY <1>4
        <4>2. DOMAIN P = Klend!Fields
          BY <3>1, KlendAccrued DEF Klend!Typed
        <4> HIDE DEF p, P, R
        <4> QED
          BY <4>1, <4>2 DEF Klend!Fields
      <3> HIDE DEF g, P, R
      <3> QED
        BY <3>2, <3>3
    <2>3. e.ctokens = h - k /\ e.reserve = g /\ DOMAIN e = {"weight", "cap", "ctokens", "reserve"}
      <3> HIDE DEF b, g
      <3> QED
        BY <1>3 DEF h
    <2> HIDE DEF g, e, p
    <2>4. d \in Nat /\ KlendHolds(g, h - k) /\ Klend!known_basis(g)
      <3>1. KlendHolds(R, h) /\ Klend!known_basis(R) /\ h \in Nat /\ k \in Nat \ {0} /\ k <= h
        BY <1>0, <1>3, <1>7
      <3>2. d <= R.available
        BY <1>0, <1>7
      <3> HIDE DEF R, h
      <3>3. g = Moved(R, t, R.available - d, R.supply - k, R.cap)
        BY <2>2
      <3> QED
        BY <3>1, <3>2, <3>3, <1>5, ReserveRedeemed
    <2>5. Kvault!AllocHolds(e)
      <3>1. h - k \in Nat
        BY <1>0, <1>3
      <3> QED
        BY <2>3, <2>4, <3>1, AllocIsHeld
    <2>6. a \in Nat
      BY <1>2, <2>4
    <2>7. /\ KvaultHolds(Reallocated(r, a, i, e))
          /\ Reallocated(r, a, i, e).shares_issued = r.shares_issued
          /\ Reallocated(r, a, i, e).available = a
      <3> HIDE DEF a, i
      <3> QED
        BY <2>3, <2>5, <2>6, <1>1, ReallocatedHolds
    <2> HIDE DEF c
    <2> QED
      BY <2>1, <2>4, <2>7 DEF c, d, x
  <1> QED
    BY <1>6, <1>7

\* Kvault: the assets of a vault, if known.
LEMMA AssetsTyped ==
    ASSUME NEW r, KvaultHolds(r), r.cached_aum = Kvault!None, NEW t, Clock(t),
           Kvault!current_aum(r, t) # Kvault!None
    PROVE  Kvault!current_aum(r, t) \in Nat
  <1> DEFINE h == Kvault!holdings_total(r, t)
             f == Kvault!charged_pending_fees(r, t, h)
  <1>1. h \in Nat
    BY HoldingsTyped
  <1>2. f \in Nat
    BY <1>1, FeesTyped
  <1>3. Kvault!current_aum(r, t) = Kvault!aum_of(r, h, f)
    BY DEF Kvault!current_aum, Kvault!compute_current_aum, Kvault!aum_after_fees
  <1> HIDE DEF h, f
  <1> QED
    BY <1>1, <1>2, <1>3 DEF Kvault!aum_of

\* Kvault: what shares are worth, and the penalty on it.
LEMMA PenaltyTyped ==
    ASSUME NEW r, KvaultHolds(r), NEW aum \in Nat, NEW sh \in Nat, r.shares_issued # 0,
           NEW total, total = Kvault!total_with_penalty(r, aum, sh)
    PROVE  total \in Nat /\ Kvault!withdrawal_penalty(r, total) \in Nat
  <1>0. /\ ONE \in Nat \ {0} /\ FULL_BPS \in Nat \ {0} /\ r.shares_issued \in Nat \ {0}
        /\ r.penalty_bps \in Nat /\ r.penalty_lamports \in Nat /\ r.global_penalty_bps \in Nat
        /\ r.global_penalty_lamports \in Nat
    BY ScaleAssumption, BpsAssumption, KvaultFieldsTyped
  <1>1. total \in Nat
    <2> DEFINE n == aum * sh
               m == n \div r.shares_issued
    <2>1. total = aum \div ONE \/ total = m \div ONE
      BY DEF Kvault!total_with_penalty, Kvault!floor, Kvault!fraction_full_mul_int_ratio
    <2>2. n \in Nat
      BY SMT
    <2> HIDE DEF n
    <2>3. m \in Nat
      BY <1>0, <2>2, FloorBelow
    <2> HIDE DEF m
    <2>4. aum \div ONE \in Nat /\ m \div ONE \in Nat
      BY <1>0, <2>3, FloorBelow
    <2> QED
      BY <2>1, <2>4
  <1>2. Kvault!withdrawal_penalty(r, total) \in Nat
    <2> DEFINE b == Kvault!larger(r.penalty_bps, r.global_penalty_bps)
               l == Kvault!larger(r.penalty_lamports, r.global_penalty_lamports)
               n == total * b
               p == ceil_div(n, FULL_BPS)
    <2>1. b \in Nat /\ l \in Nat
      BY <1>0 DEF Kvault!larger
    <2> HIDE DEF b, l
    <2>2. n \in Nat
      BY <1>1, <2>1, SMT
    <2> HIDE DEF n
    <2>3. p \in Nat
      BY <1>0, <2>2, CeilAbove
    <2> HIDE DEF p
    <2>4. Kvault!larger(p, l) \in Nat
      BY <2>1, <2>3 DEF Kvault!larger
    <2> QED
      BY <2>4 DEF Kvault!withdrawal_penalty, Kvault!ceil_div, ceil_div, p, n, b, l
  <1> QED
    BY <1>1, <1>2

\* Kvault: the quote of a withdrawal: the shares redeemed, what they are worth
\* after the penalty, and what of that is paid.
LEMMA KvaultQuoteFacts ==
    ASSUME NEW r, KvaultHolds(r), r.cached_aum = Kvault!None, NEW t, Clock(t), NEW v, NEW amount,
           v.intermediate_held \in Nat,
           NEW q, q = Kvault!kvault_quote_withdraw(r, t, v, amount), q # Refused
    PROVE  /\ q.redeemed \in Nat /\ q.redeemed <= v.intermediate_held
           /\ q.total \in Nat /\ q.pays = Kvault!final_for_user(r, t, q.total)
           /\ q.total > r.available => r.allocs # <<>>
  <1> DEFINE aum == Kvault!current_aum(r, t)
             sh == Kvault!kvault_shares_to_redeem(r, v, amount)
             total == Kvault!total_with_penalty(r, aum, sh)
             pen == Kvault!withdrawal_penalty(r, total)
             u == total - pen
  <1>1. /\ sh \in 1 .. U64 - 1 /\ ~(aum \in {Kvault!None, 0}) /\ r.shares_issued # 0
        /\ q = Kvault!pay_for_user(r, t, v, sh, u)
    BY DEF Kvault!kvault_quote_withdraw, Kvault!withdraw_at_aum, Kvault!Refused, Refused
  <1>2. U64 \in Nat
    BY U64Assumption
  <1>3. aum \in Nat /\ sh \in Nat
    <2>1. aum \in Nat
      BY <1>1, AssetsTyped
    <2> HIDE DEF sh, aum
    <2> QED
      BY <1>1, <1>2, <2>1
  <1>4. total \in Nat /\ pen \in Nat
    <2> HIDE DEF aum, sh
    <2> QED
      BY <1>1, <1>3, PenaltyTyped
  <1> HIDE DEF aum, sh, total, pen
  <1>5. u \in Int
    BY <1>4
  <1> HIDE DEF u
  <1> DEFINE final == Kvault!final_for_user(r, t, u)
  <1>6. /\ ~(u <= 0 \/ (u > r.available /\ r.allocs = <<>>))
        /\ q = Kvault!pay_out(r, v, sh, u, final)
    BY <1>1 DEF Kvault!pay_for_user, Kvault!Refused, Refused
  <1> HIDE DEF final
  <1>7. /\ ~(sh > v.intermediate_held)
        /\ q.pays = final /\ q.redeemed = sh /\ q.total = u
    BY <1>6 DEF Kvault!pay_out, Kvault!Refused, Refused
  <1>8. u \in Nat /\ sh <= v.intermediate_held
    BY <1>3, <1>5, <1>6, <1>7
  <1> QED
    BY <1>3, <1>6, <1>7, <1>8 DEF final

\* Kvault: the vault after a withdrawal that was quoted, and for which the reserve
\* has the liquidity.
LEMMA KvaultWithdrawHolds ==
    ASSUME NEW r, KvaultHolds(r), r.cached_aum = Kvault!None, NEW t, Clock(t), NEW v, NEW amount,
           v.intermediate_held \in Nat, v.intermediate_held <= r.shares_issued,
           NEW q, q = Kvault!kvault_quote_withdraw(r, t, v, amount), q # Refused,
           Kvault!ReserveLiquid(r, t, q)
    PROVE  LET c == Kvault!KvaultWithdrawn(r, t, v, q)
           IN  /\ KvaultHolds(c)
               /\ q.redeemed \in Nat /\ q.redeemed <= v.intermediate_held
               /\ c.shares_issued = r.shares_issued - q.redeemed
  <1> DEFINE u == q.total
             out == Kvault!TakenOut(r, t, q)
             k == out.ctokens
             b == Kvault!Charged(r, t)
             d == Kvault!Disinvested(b, t, k)
             c == Kvault!KvaultWithdrawn(r, t, v, q)
  <1>1. /\ q.redeemed \in Nat /\ q.redeemed <= v.intermediate_held
        /\ u \in Nat /\ q.pays = Kvault!final_for_user(r, t, u)
        /\ u > r.available => r.allocs # <<>>
    BY KvaultQuoteFacts
  <1>2. r.available \in Nat /\ r.shares_issued \in Nat
    BY KvaultFieldsTyped
  <1>3. /\ KvaultHolds(b) /\ b.available = r.available /\ b.shares_issued = r.shares_issued
        /\ b.allocs = r.allocs
    BY ChargedHolds
  <1>4. /\ KvaultHolds(d) /\ d.shares_issued = r.shares_issued /\ d.available \in Nat
        /\ q.pays \in Nat /\ q.pays <= d.available
    <2>1. CASE u <= r.available
      <3>1. k = 0
        BY <2>1 DEF Kvault!TakenOut
      <3>2. d = b
        <4> HIDE DEF k, b
        <4> QED
          BY <3>1 DEF Kvault!Disinvested
      <3>3. Kvault!available_to_send(r, u) = u
        BY <1>1, <1>2, <2>1 DEF Kvault!available_to_send, Kvault!smaller
      <3>4. q.pays = u
        BY <1>1, <3>3 DEF Kvault!final_for_user
      <3> HIDE DEF d, b, u
      <3> QED
        BY <3>2, <3>4, <1>1, <1>2, <1>3, <2>1
    <2>2. CASE ~(u <= r.available)
      <3> DEFINE i == Kvault!primary(r)
                 more == u - r.available
                 o == Kvault!disinvest_primary(r, t, more)
                 a == r.allocs[i]
                 liq == Kvault!collateral_to_liquidity(k, Kvault!exchange_rate(a.reserve, t))
      <3>1. r.allocs # <<>> /\ more \in Nat
        BY <1>1, <1>2, <2>2
      <3>2. out = o
        BY <2>2 DEF Kvault!TakenOut
      <3>3. /\ i \in DOMAIN r.allocs
            /\ o.ctokens \in Nat /\ o.ctokens <= a.ctokens /\ o.sent \in Nat
            /\ o.sent <= Kvault!collateral_to_liquidity(o.ctokens,
                             Kvault!exchange_rate(a.reserve, t))
        <4> HIDE DEF more
        <4> QED
          BY <3>1, PrimaryCovers
      <3>4. Kvault!Redeemable(a.reserve, t, k)
        BY DEF Kvault!ReserveLiquid
      <3>5. Kvault!primary(b) = i
        BY <1>3 DEF Kvault!primary, Kvault!ctokens_held
      <3>6. q.pays = r.available + o.sent
        <4>1. Kvault!available_to_send(r, u) = r.available
          BY <1>1, <1>2, <2>2 DEF Kvault!available_to_send, Kvault!smaller
        <4> QED
          BY <1>1, <2>2, <4>1 DEF Kvault!final_for_user
      <3> HIDE DEF o, out, b, i
      <3>7. k \in Nat /\ k <= a.ctokens /\ o.sent <= liq
        BY <3>2, <3>3
      <3>8. b.allocs[Kvault!primary(b)] = a /\ b.allocs # <<>>
        BY <1>3, <3>1, <3>5
      <3> HIDE DEF a, k
      <3>9. /\ KvaultHolds(d) /\ d.shares_issued = b.shares_issued
            /\ liq \in Nat /\ d.available = b.available + liq
        <4>1. /\ k <= b.allocs[Kvault!primary(b)].ctokens
              /\ Kvault!Redeemable(b.allocs[Kvault!primary(b)].reserve, t, k)
          BY <3>4, <3>7, <3>8
        <4> DEFINE D == Kvault!Disinvested(b, t, k)
                   L == Kvault!collateral_to_liquidity(k,
                            Kvault!exchange_rate(b.allocs[Kvault!primary(b)].reserve, t))
        <4>2. /\ KvaultHolds(D) /\ D.shares_issued = b.shares_issued
              /\ L \in Nat /\ D.available = b.available + L
          BY <4>1, <3>7, <3>8, <1>3, DisinvestedHolds
        <4>3. L = liq
          BY <3>8
        <4> HIDE DEF L, D
        <4> QED
          BY <4>2, <4>3 DEF D
      <3> HIDE DEF d, liq
      <3> QED
        BY <1>2, <1>3, <3>3, <3>6, <3>7, <3>9
    <2> QED
      BY <2>1, <2>2
  <1> DEFINE na == d.available - q.pays
             ns == r.shares_issued - q.redeemed
             farm == Kvault!Staked(d.farm, -q.redeemed)
             e == Rebalanced(d, na, ns, farm)
  <1>5. c = Kvault!Settled(e, t)
    <2>1. DOMAIN d = Kvault!KvaultFields
      BY <1>4 DEF KvaultHolds
    <2> HIDE DEF d
    <2>2. [d EXCEPT !.available = @ - q.pays, !.shares_issued = @ - q.redeemed,
                    !.farm = Kvault!Staked(@, -q.redeemed)] = e
      BY <1>4, <2>1 DEF Rebalanced, Kvault!KvaultFields
    <2> QED
      BY <2>2 DEF Kvault!KvaultWithdrawn, d, b, k, out
  <1> HIDE DEF d
  <1>6. na \in Nat /\ ns \in Nat
    BY <1>1, <1>2, <1>4
  <1> HIDE DEF na, ns, farm
  <1>7. KvaultHolds(e) /\ e.shares_issued = ns
    BY <1>4, <1>6, RebalancedHolds
  <1> HIDE DEF e
  <1>8. KvaultHolds(Kvault!Settled(e, t)) /\ Kvault!Settled(e, t).shares_issued = ns
    BY <1>7, SettledHolds
  <1> QED
    BY <1>1, <1>5, <1>8 DEF ns

\* Kvault: the vault's allocations are in solvent reserves and its balances are
\* amounts; the wrapper's position is shares that the vault has issued.
KvaultInv ==
    source = "Kvault" => KvaultHolds(pool) /\ wv.intermediate_held <= pool.shares_issued

\* The vaults of the instance are as the assumption says.
LEMMA KvaultInvInit == Init => KvaultInv
  <1> SUFFICES ASSUME Init, source = "Kvault"
               PROVE  KvaultHolds(pool) /\ wv.intermediate_held <= pool.shares_issued
    BY DEF KvaultInv
  <1>1. pool \in Pools["Kvault"] /\ "Kvault" \in Sources /\ wv.intermediate_held = 0
    BY DEF Init
  <1>2. DOMAIN pool = Kvault!KvaultFields
    BY <1>1, PoolsAssumption DEF Fields
  <1>3. KvaultHolds(pool)
    BY <1>1, <1>2, KvaultAssumption DEF KvaultHolds
  <1>4. pool.shares_issued \in Nat
    BY <1>3, KvaultFieldsTyped
  <1> QED
    BY <1>1, <1>3, <1>4

\* A switch changes settings only.
LEMMA KvaultSwitchHolds ==
    ASSUME NEW r, KvaultHolds(r), "Kvault" \in Sources, NEW change \in Switches["Kvault"],
           NEW c, c = [f \in DOMAIN r |-> IF f \in DOMAIN change THEN change[f] ELSE r[f]]
    PROVE  KvaultHolds(c) /\ c.shares_issued = r.shares_issued
  <1>1. DOMAIN r = Kvault!KvaultFields
    BY DEF KvaultHolds
  <1>2. /\ {"allocs", "cached_aum"} \cap DOMAIN change = {}
        /\ Kvault!Balances \cap DOMAIN change = {}
        /\ \A f \in Kvault!Settings \cap DOMAIN change : change[f] \in Nat
    BY KvaultAssumption
  <1>3. DOMAIN c = Kvault!KvaultFields
    BY <1>1
  <1>4. c.allocs = r.allocs
    BY <1>1, <1>2 DEF Kvault!KvaultFields
  <1>5. \A f \in Kvault!Balances : c[f] = r[f]
    BY <1>1, <1>2 DEF Kvault!KvaultFields, Kvault!Balances
  <1>6. \A f \in Kvault!Settings : c[f] \in Nat
    <2> SUFFICES ASSUME NEW f \in Kvault!Settings PROVE c[f] \in Nat
      OBVIOUS
    <2>1. f \in DOMAIN r
      BY <1>1 DEF Kvault!KvaultFields, Kvault!Settings
    <2>2. c[f] = IF f \in DOMAIN change THEN change[f] ELSE r[f]
      BY <2>1
    <2>3. r[f] \in Nat
      BY DEF KvaultHolds, Kvault!KvaultTyped
    <2> QED
      BY <1>2, <2>2, <2>3
  <1> HIDE DEF KvaultHolds
  <1>7. /\ c.available = r.available /\ c.shares_issued = r.shares_issued
        /\ c.pending_fees = r.pending_fees /\ c.prev_aum = r.prev_aum
        /\ c.last_fee_charge_timestamp = r.last_fee_charge_timestamp
    BY <1>5 DEF Kvault!Balances
  <1>8. /\ r.available \in Nat /\ r.shares_issued \in Nat /\ r.pending_fees \in Nat
        /\ r.prev_aum \in Nat /\ r.last_fee_charge_timestamp \in Nat
    BY KvaultFieldsTyped
  <1>9. KvaultHolds(c)
    BY <1>3, <1>4, <1>6, <1>7, <1>8, BalancesChanged
  <1> QED
    BY <1>7, <1>9

\* Every step of the vault, its crank or its reserves keeps it so.
LEMMA KvaultInvStep == VaultInv /\ SourceInv /\ KvaultInv /\ [Next]_vars => KvaultInv'
  <1> SUFFICES ASSUME VaultInv, SourceInv, KvaultInv, [Next]_vars, source' = "Kvault"
               PROVE  KvaultHolds(pool') /\ wv'.intermediate_held <= pool'.shares_issued
    BY DEF KvaultInv
  <1>0. source = "Kvault"
    BY DEF Next, Tick, Refresh, Switch, Lend, Credit, Deposit, Withdraw, vars
  <1>1. /\ Clock(now) /\ KvaultHolds(pool) /\ VaultTyped
        /\ wv.intermediate_held \in Nat /\ wv.intermediate_held <= pool.shares_issued
        /\ pool.cached_aum = Kvault!None /\ source \in Sources
    BY <1>0 DEF SourceInv, KvaultInv, VaultInv, VaultTyped
  <1>2. CASE Tick \/ UNCHANGED vars
    <2>1. pool' = pool /\ wv' = wv
      BY <1>2 DEF Tick, vars
    <2> QED
      BY <2>1, <1>1
  <1>3. CASE Refresh
    <2>1. pool' = Kvault!reserves_accrued(pool, now) /\ wv' = wv
      BY <1>0, <1>3 DEF Refresh
    <2>2. KvaultHolds(pool') /\ pool'.shares_issued = pool.shares_issued
      BY <2>1, <1>1, AccruedReservesHold
    <2> QED
      BY <2>1, <2>2, <1>1
  <1>4. CASE Switch
    <2>1. PICK change \in Switches["Kvault"] :
             pool' = [f \in DOMAIN pool |-> IF f \in DOMAIN change THEN change[f] ELSE pool[f]]
      BY <1>0, <1>4 DEF Switch
    <2>2. KvaultHolds(pool') /\ pool'.shares_issued = pool.shares_issued
      BY <2>1, <1>0, <1>1, KvaultSwitchHolds
    <2>3. wv' = wv
      BY <1>4 DEF Switch
    <2> QED
      BY <2>2, <2>3, <1>1
  <1>5. ASSUME NEW amount \in Loans[source], Lend(amount)
        PROVE  KvaultHolds(pool') /\ wv'.intermediate_held <= pool'.shares_issued
    <2>1. /\ pool' = Kvault!Invested(pool, now, amount) /\ wv' = wv
          /\ Kvault!Investable(pool, now, amount) /\ 0 < amount
      BY <1>0, <1>5 DEF Lend, Lent, Lendable
    <2>2. amount \in Nat \ {0}
      BY <1>1, <1>5, <2>1, AmountsAssumption
    <2>3. KvaultHolds(pool') /\ pool'.shares_issued = pool.shares_issued
      BY <2>1, <2>2, <1>1, InvestedHolds
    <2> QED
      BY <2>1, <2>3, <1>1
  <1>6. ASSUME NEW amount \in Amounts, Deposit(amount)
        PROVE  KvaultHolds(pool') /\ wv'.intermediate_held <= pool'.shares_issued
    <2>1. PICK q : /\ q = quote_deposit(pool, wv, amount) /\ q # Refused
                   /\ pool' = Deposited(pool, wv, q) /\ wv' = VaultDeposited(wv, q)
      BY <1>6 DEF Deposit
    <2>2. q = Kvault!kvault_quote_deposit(pool, now, wv, net_amount(amount))
      BY <1>0, <2>1, QuoteOfTrade DEF source_quote_deposit
    <2>3. pool' = Kvault!KvaultDeposited(pool, now, wv, q)
      BY <1>0, <2>1 DEF Deposited
    <2>4. wv'.intermediate_held = wv.intermediate_held + q.brought
      BY <1>0, <1>1, <2>1, VaultAfterTrade
    <2>5. net_amount(amount) \in Nat
      BY AmountsAssumption, NetAmount DEF VaultInv
    <2>6. /\ KvaultHolds(pool')
          /\ q.brought \in Nat /\ pool'.shares_issued = pool.shares_issued + q.brought
      BY <1>1, <2>1, <2>2, <2>3, <2>5, KvaultDepositHolds
    <2>7. pool.shares_issued \in Nat
      BY <1>1, KvaultFieldsTyped
    <2> QED
      BY <1>1, <2>4, <2>6, <2>7
  <1>7. ASSUME NEW amount \in Amounts, Withdraw(amount)
        PROVE  KvaultHolds(pool') /\ wv'.intermediate_held <= pool'.shares_issued
    <2>1. PICK q : /\ q = quote_withdraw(pool, wv, amount) /\ q # Refused /\ Executable(pool, q)
                   /\ pool' = Withdrawn(pool, wv, q) /\ wv' = VaultWithdrawn(pool, wv, amount, q)
      BY <1>7 DEF Withdraw
    <2>2. q = Kvault!kvault_quote_withdraw(pool, now, wv, amount)
      BY <1>0, <2>1, QuoteOfTrade DEF source_quote_withdraw
    <2>3. pool' = Kvault!KvaultWithdrawn(pool, now, wv, q) /\ Kvault!ReserveLiquid(pool, now, q)
      BY <1>0, <2>1 DEF Withdrawn, Executable
    <2>4. wv'.intermediate_held = wv.intermediate_held - q.redeemed
      BY <1>0, <1>1, <2>1, VaultAfterTrade
    <2>5. /\ KvaultHolds(pool')
          /\ q.redeemed \in Nat /\ pool'.shares_issued = pool.shares_issued - q.redeemed
      BY <1>1, <2>1, <2>2, <2>3, KvaultWithdrawHolds
    <2>6. pool.shares_issued \in Nat
      BY <1>1, KvaultFieldsTyped
    <2> QED
      BY <1>1, <2>4, <2>5, <2>6
  <1>8. ASSUME NEW amount \in Loans[source], Credit(amount)
        PROVE  KvaultHolds(pool') /\ wv'.intermediate_held <= pool'.shares_issued
    <2>1. pool' = [pool EXCEPT !.farm.idle = @ + amount] /\ wv' = wv
      BY <1>8 DEF Credit
    <2>2. /\ DOMAIN pool' = DOMAIN pool
          /\ \A f \in DOMAIN pool \ {"farm"} : pool'[f] = pool[f]
      BY <2>1
    <2>3. /\ "allocs" \in Kvault!KvaultFields \ {"farm"}
          /\ "shares_issued" \in Kvault!KvaultFields \ {"farm"}
          /\ Kvault!Settings \cup Kvault!Balances \subseteq Kvault!KvaultFields \ {"farm"}
      BY DEF Kvault!KvaultFields, Kvault!Settings, Kvault!Balances
    <2>4. /\ pool'.allocs = pool.allocs /\ pool'.shares_issued = pool.shares_issued
          /\ \A f \in Kvault!Settings \cup Kvault!Balances : pool'[f] = pool[f]
      BY <1>1, <2>2, <2>3 DEF KvaultHolds
    <2>5. KvaultHolds(pool')
      BY <1>1, <2>2, <2>4 DEF KvaultHolds, Kvault!KvaultTyped
    <2> QED
      BY <1>1, <2>1, <2>4, <2>5
  <1> QED
    BY <1>2, <1>3, <1>4, <1>5, <1>6, <1>7, <1>8 DEF Next

\* A Kamino vault stays within what it has: no deposit, withdrawal, investment or
\* accrual makes a balance negative, takes more ctokens than an allocation holds or
\* leaves one of its reserves insolvent, and the wrapper's shares are part of those
\* that the vault has issued.
THEOREM KvaultInvHolds == Spec => []KvaultInv
  BY KvaultInvInit, KvaultInvStep, VaultInvInit, VaultInvStep, SourceInvInit, SourceInvStep, PTL
     DEF Spec

\* Whatever the source: what is paid out for a withdrawal is covered by what is
\* redeemed for it, rounding included.
THEOREM PayoutCoveredHolds == Spec => []PayoutCovered
  <1>1. ASSUME SourceInv, KvaultInv, source = "Kvault", pool.allocs # <<>>,
               NEW amount \in Amounts
        PROVE  LET alloc == pool.allocs[Kvault!primary(pool)]
                   x == Kvault!exchange_rate(alloc.reserve, now)
                   out == Kvault!disinvest(alloc.ctokens, x, amount)
               IN  out.sent <= Kvault!collateral_to_liquidity(out.ctokens, x)
    <2>1. amount \in Nat /\ KvaultHolds(pool) /\ Clock(now)
      BY <1>1, AmountsAssumption DEF KvaultInv, SourceInv
    <2> DEFINE i == Kvault!primary(pool)
               x == Kvault!exchange_rate(pool.allocs[i].reserve, now)
               out == Kvault!disinvest_primary(pool, now, amount)
    <2>2. /\ out = Kvault!disinvest(pool.allocs[i].ctokens, x, amount)
          /\ out.sent <= Kvault!collateral_to_liquidity(out.ctokens, x)
      BY <1>1, <2>1, PrimaryCovers
    <2> HIDE DEF out
    <2> QED
      BY <2>2
  <1>2. SourceInv /\ KvaultInv /\ source = "Kvault" => PayoutCovered
    BY <1>1 DEF PayoutCovered
  <1>3. SourceInv /\ KvaultInv /\ (source = "Lulo" => PayoutCovered) => PayoutCovered
    BY <1>2 DEF PayoutCovered
  <1>4. Spec => []SourceInv
    BY SourceInvInit, SourceInvStep, PTL DEF Spec
  <1> QED
    BY <1>3, <1>4, KvaultInvHolds, LuloPayoutCovered, PTL

-----------------------------------------------------------------------------
(* The types of every source but Marginfi                                   *)

\* Of a Save or Klend reserve, a Kamino vault or a Lulo pool, no trade, loan,
\* investment or accrual takes more than is there, and the wrapper's supply stays
\* within 64 bits.
THEOREM TypeOKHolds == Spec => [](source \in {"Save", "Klend", "Kvault", "Lulo"} => TypeOK)
  <1>1. ASSUME VaultInv, SourceInv, SaveInv, KlendInv, KvaultInv, VaultFits,
               source \in {"Save", "Klend", "Kvault", "Lulo"}
        PROVE  TypeOK
    <2>1. source \in Sources /\ fees \in Fees /\ now.timestamp \in Nat
      BY <1>1 DEF VaultInv, SourceInv, Clock
    <2>2. CASE source = "Save"
      <3>1. pool.available \in Nat /\ pool.borrowed \in Nat /\ pool.supply \in Nat
        BY <1>1, <2>2 DEF SaveInv, SaveHolds, Save!Typed
      <3> QED
        BY <1>1, <2>1, <2>2, <3>1 DEF TypeOK, VaultFits
    <2>3. CASE source = "Klend"
      <3>1. pool.available \in Nat /\ pool.borrowed \in Nat /\ pool.supply \in Nat
        BY <1>1, <2>3 DEF KlendInv, KlendHolds, Klend!Typed
      <3> QED
        BY <1>1, <2>1, <2>3, <3>1 DEF TypeOK, VaultFits
    <2>4. CASE source = "Lulo"
      <3>1. pool.protected_amount \in Nat /\ pool.protected_total_supply \in Nat
        BY <1>1, <2>4 DEF VaultInv, LuloInv, LuloHolds, Lulo!Typed
      <3> QED
        BY <1>1, <2>1, <2>4, <3>1 DEF TypeOK, VaultFits
    <2>5. CASE source = "Kvault"
      <3>1. pool.available \in Nat /\ pool.shares_issued \in Nat
        BY <1>1, <2>5, KvaultFieldsTyped DEF KvaultInv
      <3> QED
        BY <1>1, <2>1, <2>5, <3>1 DEF TypeOK, VaultFits
    <2> QED
      BY <1>1, <2>2, <2>3, <2>4, <2>5
  <1>2. VaultInv /\ SourceInv /\ SaveInv /\ KlendInv /\ KvaultInv /\ VaultFits
          => (source \in {"Save", "Klend", "Kvault", "Lulo"} => TypeOK)
    BY <1>1
  <1>3. Spec => []SourceInv
    BY SourceInvInit, SourceInvStep, PTL DEF Spec
  <1> QED
    BY <1>2, <1>3, VaultInvHolds, SaveInvHolds, KlendInvHolds, KvaultInvHolds, VaultFitsHolds, PTL

-----------------------------------------------------------------------------
(* Marginfi: shares are worth something, and a round trip                   *)

\* Marginfi: products and quotients of fractions are fractions.
LEMMA FixTyped ==
    ASSUME NEW x \in Nat, NEW y \in Nat
    PROVE  /\ Marginfi!fix(x) \in Nat /\ Marginfi!fix_mul(x, y) \in Nat
           /\ y # 0 => Marginfi!fix_div(x, y) \in Nat
           /\ x # 0 => Marginfi!fix(x) # 0
  <1> DEFINE p == x * y
             q == x * FIX
  <1>1. FIX \in Nat \ {0} /\ p \in Nat /\ q \in Nat
    BY ScaleAssumption, SMT
  <1>2. x # 0 => q # 0
    BY <1>1, SMT
  <1> HIDE DEF p, q
  <1>3. p \div FIX \in Nat /\ (y # 0 => q \div y \in Nat)
    BY <1>1, FloorBelow
  <1> QED
    BY <1>1, <1>2, <1>3 DEF Marginfi!fix, Marginfi!fix_mul, Marginfi!fix_div, p, q

\* Marginfi: the points of the curve.
LEMMA PointsTyped ==
    ASSUME NEW n \in Nat
    PROVE  Marginfi!rate_from_u32(n) \in Nat /\ Marginfi!util_from_u32(n) \in Nat
  <1> DEFINE a == Marginfi!fix(n)
             b == Marginfi!fix(U32_MAX)
             e == Marginfi!fix(10)
             d == Marginfi!fix_div(a, b)
  <1>1. a \in Nat /\ b \in Nat /\ b # 0 /\ e \in Nat
    BY FixTyped, PeriodAssumption
  <1> HIDE DEF a, b, e
  <1>2. d \in Nat
    BY <1>1, FixTyped
  <1> HIDE DEF d
  <1>3. Marginfi!fix_mul(d, e) \in Nat
    BY <1>1, <1>2, FixTyped
  <1> QED
    BY <1>2, <1>3 DEF Marginfi!rate_from_u32, Marginfi!util_from_u32, a, b, d, e

\* Marginfi: utilization and rate of a point, the two ends of the curve included.
LEMMA CurvePointTyped ==
    ASSUME NEW c, Marginfi!CurveTyped(c), NEW i \in Nat
    PROVE  Marginfi!point_util(c, i) \in Nat /\ Marginfi!point_rate(c, i) \in Nat
  <1>1. /\ c.zero_util_rate \in Nat /\ c.hundred_util_rate \in Nat /\ FIX \in Nat
        /\ c.points \in Seq([util : Nat, rate : Nat])
    BY ScaleAssumption DEF Marginfi!CurveTyped
  <1>2. ASSUME i # 0, ~(i > Len(c.points))
        PROVE  c.points[i].util \in Nat /\ c.points[i].rate \in Nat
    <2>1. i \in 1 .. Len(c.points)
      BY <1>1, <1>2
    <2> DEFINE s == c.points
               P == [util : Nat, rate : Nat]
    <2>2. s \in Seq(P) /\ i \in 1 .. Len(s)
      BY <1>1, <2>1
    <2> HIDE DEF s, P
    <2>3. s[i] \in P
      BY <2>2
    <2> QED
      BY <2>3 DEF s, P
  <1>3. Marginfi!point_util(c, i) \in Nat
    BY <1>1, <1>2, PointsTyped DEF Marginfi!point_util
  <1> DEFINE y == IF i = 0 THEN c.zero_util_rate
                  ELSE IF i > Len(c.points) THEN c.hundred_util_rate
                  ELSE c.points[i].rate
  <1>4. y \in Nat
    BY <1>1, <1>2
  <1>5. Marginfi!point_rate(c, i) = Marginfi!rate_from_u32(y)
    BY DEF Marginfi!point_rate
  <1> HIDE DEF y
  <1> QED
    BY <1>3, <1>4, <1>5, PointsTyped

\* Marginfi: every utilization is on a segment.
LEMMA SegmentFound ==
    ASSUME NEW c, Marginfi!CurveTyped(c), NEW ur \in Nat
    PROVE  /\ Marginfi!segment_end(c, ur) \in Nat
           /\ Marginfi!segment_start(c, Marginfi!segment_end(c, ur)) \in Nat
  <1> DEFINE n == Len(c.points)
             U == Marginfi!used_points(c)
             End(i) == /\ i <= n => ur <= Marginfi!point_util(c, i)
                       /\ \A j \in U : j < i => ur > Marginfi!point_util(c, j)
             z == Marginfi!segment_end(c, ur)
             Start(i) == i < z /\ \A j \in U : j < z => j <= i
  <1>1. n \in Nat
    BY DEF Marginfi!CurveTyped
  <1>2. U \subseteq 1 .. n
    BY DEF Marginfi!used_points
  <1>12. \A i \in U : i \in Nat
    BY <1>1, <1>2
  <1>3. \A i \in Nat : Marginfi!point_util(c, i) \in Nat
    BY CurvePointTyped
  <1>4. z = CHOOSE i \in U \cup {n + 1} : End(i)
    BY DEF Marginfi!segment_end
  <1>5. Marginfi!segment_start(c, z) = CHOOSE i \in U \cup {0} : Start(i)
    BY DEF Marginfi!segment_start
  <1> HIDE DEF n, U, z
  <1>6. \E i \in U \cup {n + 1} : End(i)
    <2> DEFINE B == {i \in U \cup {n + 1} : i <= n => ur <= Marginfi!point_util(c, i)}
    <2>1. n + 1 \in Nat /\ ~(n + 1 <= n)
      BY <1>1
    <2>5. n + 1 \in B
      BY <2>1
    <2>6. B \subseteq Nat
      BY <2>1, <1>12
    <2> HIDE DEF B
    <2>2. PICK e \in B : \A j \in B : ~(j < e)
      BY <2>5, <2>6, Least
    <2>3. e \in U \cup {n + 1} /\ (e <= n => ur <= Marginfi!point_util(c, e))
      BY DEF B
    <2>4. ASSUME NEW j \in U, j < e PROVE ur > Marginfi!point_util(c, j)
      <3>1. j \notin B
        BY <2>2, <2>4
      <3>2. j \in Nat /\ ~(ur <= Marginfi!point_util(c, j))
        BY <1>2, <3>1 DEF B
      <3>3. Marginfi!point_util(c, j) \in Nat
        BY <1>3, <3>2
      <3> QED
        BY <3>2, <3>3
    <2> QED
      BY <2>3, <2>4
  <1>7. z \in U \cup {n + 1}
    <2> HIDE DEF End
    <2> QED
      BY <1>4, <1>6, Zenon
  <1>8. z \in Nat /\ z > 0
    BY <1>1, <1>2, <1>7
  <1>9. \E i \in U \cup {0} : Start(i)
    <2> DEFINE D == {m \in 0 .. n : n - m \in U \cup {0} /\ n - m < z}
    <2>1. D \subseteq Nat /\ n \in D
      BY <1>1, <1>8
    <2> HIDE DEF D
    <2>2. PICK m \in D : \A j \in D : ~(j < m)
      BY <2>1, Least
    <2>3. m \in 0 .. n /\ n - m \in U \cup {0} /\ n - m < z
      BY DEF D
    <2>4. ASSUME NEW j \in U, j < z PROVE j <= n - m
      <3>1. j \in 1 .. n
        BY <1>2
      <3>2. n - j \in 0 .. n /\ n - (n - j) = j
        BY <1>1, <3>1
      <3>3. n - j \in D
        BY <2>4, <3>2 DEF D
      <3>4. ~(n - j < m)
        BY <2>2, <3>3
      <3> QED
        BY <1>1, <2>3, <3>1, <3>4
    <2> QED
      BY <2>3, <2>4
  <1>10. Marginfi!segment_start(c, z) \in U \cup {0}
    <2> HIDE DEF Start
    <2> QED
      BY <1>5, <1>9, Zenon
  <1>11. Marginfi!segment_start(c, z) \in Nat
    BY <1>10, <1>12
  <1> QED
    BY <1>8, <1>11 DEF z

\* Marginfi: a rate between two points.
LEMMA LerpTyped ==
    ASSUME NEW a \in Nat, NEW b \in Nat, NEW c \in Nat, NEW d \in Nat, NEW e \in Nat,
           NEW y, y = Marginfi!lerp(a, b, c, d, e), y # Marginfi!NoRate
    PROVE  y \in Nat
  <1> DEFINE h == d - b
             g == Marginfi!fix_div(e - a, c - a)
  <1>1. CASE c <= a
    BY <1>1 DEF Marginfi!lerp
  <1>2. CASE ~(c <= a)
    <2>1. ~(e < a \/ e > c \/ d < b)
      BY <1>2 DEF Marginfi!lerp
    <2>2. y = b + Marginfi!fix_mul(h, g)
      BY <1>2, <2>1 DEF Marginfi!lerp
    <2>3. h \in Nat /\ e - a \in Nat /\ c - a \in Nat \ {0}
      BY <1>2, <2>1
    <2>4. g \in Nat
      BY <2>3, FixTyped
    <2> HIDE DEF h, g
    <2>5. Marginfi!fix_mul(h, g) \in Nat
      BY <2>3, <2>4, FixTyped
    <2> QED
      BY <2>2, <2>5
  <1> QED
    BY <1>1, <1>2

\* Marginfi: the base rate, if there is one.
LEMMA BaseRateTyped ==
    ASSUME NEW c, Marginfi!CurveTyped(c), NEW ur \in Nat,
           NEW y, y = Marginfi!base_rate_apr(c, ur), y # Marginfi!NoRate
    PROVE  y \in Nat
  <1>0. /\ c.optimal_utilization_rate \in Nat /\ c.plateau_interest_rate \in Nat
        /\ c.max_interest_rate \in Nat /\ FIX \in Nat
        /\ c.optimal_utilization_rate <= FIX /\ c.plateau_interest_rate <= c.max_interest_rate
    BY ScaleAssumption DEF Marginfi!CurveTyped
  <1>1. CASE y = Marginfi!interest_rate_curve(c, ur)
    <2> DEFINE o == c.optimal_utilization_rate
               p == c.plateau_interest_rate
               h == c.max_interest_rate - p
               f == Marginfi!fix_div(ur, o)
               g == Marginfi!fix_div(ur - o, FIX - o)
    <2>1. CASE ur <= o
      <3>1. o # 0 /\ y = Marginfi!fix_mul(f, p)
        BY <1>1, <2>1 DEF Marginfi!interest_rate_curve
      <3>2. f \in Nat
        BY <1>0, <3>1, FixTyped
      <3> HIDE DEF f
      <3> QED
        BY <1>0, <3>1, <3>2, FixTyped
    <2>2. CASE ~(ur <= o)
      <3>1. o # FIX /\ y = Marginfi!fix_mul(g, h) + p
        BY <1>1, <2>2 DEF Marginfi!interest_rate_curve
      <3>2. ur - o \in Nat /\ FIX - o \in Nat \ {0} /\ h \in Nat
        BY <1>0, <2>2, <3>1
      <3>3. g \in Nat
        BY <3>2, FixTyped
      <3> HIDE DEF g, h
      <3>4. Marginfi!fix_mul(g, h) \in Nat
        BY <3>2, <3>3, FixTyped
      <3> QED
        BY <1>0, <3>1, <3>4
    <2> QED
      BY <2>1, <2>2
  <1>2. CASE y = Marginfi!interest_rate_multipoint_curve(c, ur)
    <2> DEFINE u == Marginfi!smaller(ur, FIX)
               e == Marginfi!segment_end(c, u)
               s == Marginfi!segment_start(c, e)
    <2>1. u \in Nat
      BY <1>0 DEF Marginfi!smaller
    <2>2. y = Marginfi!lerp(Marginfi!point_util(c, s), Marginfi!point_rate(c, s),
                            Marginfi!point_util(c, e), Marginfi!point_rate(c, e), u)
      BY <1>2 DEF Marginfi!interest_rate_multipoint_curve
    <2> HIDE DEF u
    <2>3. e \in Nat /\ s \in Nat
      BY <2>1, SegmentFound
    <2> HIDE DEF e, s
    <2> DEFINE a1 == Marginfi!point_util(c, s)
               a2 == Marginfi!point_rate(c, s)
               a3 == Marginfi!point_util(c, e)
               a4 == Marginfi!point_rate(c, e)
    <2>4. a1 \in Nat /\ a2 \in Nat /\ a3 \in Nat /\ a4 \in Nat
      BY <2>3, CurvePointTyped
    <2>5. y = Marginfi!lerp(a1, a2, a3, a4, u)
      BY <2>2
    <2> HIDE DEF a1, a2, a3, a4
    <2> QED
      BY <2>1, <2>4, <2>5, LerpTyped
  <1>3. \/ y = Marginfi!interest_rate_curve(c, ur)
        \/ y = Marginfi!interest_rate_multipoint_curve(c, ur)
    BY DEF Marginfi!base_rate_apr
  <1> QED
    BY <1>1, <1>2, <1>3

\* Marginfi: interest only adds to the value of a share.
LEMMA InterestAdds ==
    ASSUME NEW apr \in Nat, NEW n \in Nat, NEW v \in Nat
    PROVE  LET w == Marginfi!calc_accrued_interest_payment_per_period(apr, n, v)
           IN  w \in Nat /\ v <= w
  <1> DEFINE k == apr * n
             i == k \div YEAR
             f == FIX + i
             p == v * f
             w == Marginfi!calc_accrued_interest_payment_per_period(apr, n, v)
  <1>1. FIX \in Nat \ {0} /\ YEAR \in Nat \ {0} /\ k \in Nat
    BY ScaleAssumption, PeriodAssumption, SMT
  <1>2. w = p \div FIX
    BY DEF Marginfi!calc_accrued_interest_payment_per_period, Marginfi!fix_mul
  <1> HIDE DEF k
  <1>3. i \in Nat
    BY <1>1, FloorBelow
  <1> HIDE DEF i
  <1>4. p \in Nat /\ FIX * v <= p
    <2>1. v * i \in Nat /\ p = v * FIX + v * i /\ v * FIX \in Nat /\ v * FIX = FIX * v
      BY <1>1, <1>3, SMT
    <2> DEFINE x == v * FIX
               y == v * i
    <2>2. x \in Nat /\ y \in Nat /\ p = x + y /\ x = FIX * v
      BY <2>1
    <2> HIDE DEF x, y, p
    <2>3. p \in Nat /\ x <= p
      BY <2>2
    <2> QED
      BY <2>2, <2>3
  <1> HIDE DEF p, f
  <1>5. p \div FIX \in Nat /\ v <= p \div FIX
    BY <1>1, <1>4, FloorBelow, FloorAbove
  <1> QED
    BY <1>2, <1>5

\* Marginfi: values of shares after accrual.
LEMMA ShareValuesTyped ==
    ASSUME NEW r, Marginfi!Typed(r), NEW t, Clock(t), ~Marginfi!AccrualFails(r, t)
    PROVE  LET a == Marginfi!accrue_share_values(r, t)
           IN  a.asset \in Nat /\ a.liability \in Nat \ {0}
  <1> DEFINE A == Marginfi!total_assets(r)
             L == Marginfi!total_liabilities(r)
             ur == Marginfi!utilization(r)
             base == Marginfi!base_rate_apr(r.config, ur)
             n == t.timestamp - r.last_update
             a == Marginfi!accrue_share_values(r, t)
             lend == Marginfi!lending_rate_apr(base, ur)
             borrow == Marginfi!borrowing_rate_apr(r, base)
  <1>0. /\ r.asset_share_value \in Nat /\ r.asset_shares \in Nat /\ r.liability_shares \in Nat
        /\ r.liability_share_value \in Nat \ {0} /\ r.last_update \in Int
        /\ Marginfi!CurveTyped(r.config) /\ t.timestamp \in Nat /\ FIX \in Nat \ {0}
    BY ScaleAssumption DEF Marginfi!Typed, Clock
  <1>1. CASE Marginfi!Dormant(r, t)
    <2>1. a = [asset |-> r.asset_share_value, liability |-> r.liability_share_value]
      BY <1>1 DEF Marginfi!accrue_share_values
    <2> HIDE DEF a
    <2>2. a.asset \in Nat /\ a.liability \in Nat \ {0}
      BY <1>0, <2>1
    <2> QED
      BY <2>2 DEF a
  <1>2. CASE ~Marginfi!Dormant(r, t)
    <2>1. /\ ~(t.timestamp <= r.last_update) /\ A # 0 /\ base # Marginfi!NoRate
          /\ a = Marginfi!share_values_after(r, base, ur, n)
      BY <1>2 DEF Marginfi!Dormant, Marginfi!AccrualFails, Marginfi!accrue_share_values
    <2>2. n \in Nat
      BY <1>0, <2>1
    <2>3. A \in Nat /\ L \in Nat
      BY <1>0, FixTyped DEF Marginfi!total_assets, Marginfi!total_liabilities
    <2>4. ur = Marginfi!fix_div(L, A)
      BY DEF Marginfi!utilization
    <2> HIDE DEF A, L, n
    <2>5. ur \in Nat
      BY <2>1, <2>3, <2>4, FixTyped
    <2> HIDE DEF ur
    <2>6. base \in Nat
      BY <1>0, <2>1, <2>5, BaseRateTyped
    <2> HIDE DEF base
    <2>7. lend \in Nat
      BY <2>5, <2>6, FixTyped DEF Marginfi!lending_rate_apr
    <2>8. borrow \in Nat
      <3> DEFINE f == Marginfi!fee_ir(r)
                 g == Marginfi!fee_fixed(r)
                 k == FIX + f
                 w == Marginfi!fix_mul(base, k)
      <3>1. f \in Nat /\ g \in Nat
        BY DEF Marginfi!Typed, Marginfi!FeesTyped, Marginfi!fee_ir, Marginfi!fee_fixed
      <3>2. borrow = w + g
        BY DEF Marginfi!borrowing_rate_apr
      <3>3. k \in Nat
        BY <1>0, <3>1
      <3> HIDE DEF f, g, k
      <3>4. w \in Nat
        BY <2>6, <3>3, FixTyped
      <3> HIDE DEF w
      <3> QED
        BY <3>1, <3>2, <3>4
    <2>9. a = [asset |-> Marginfi!calc_accrued_interest_payment_per_period(
                             lend, n, r.asset_share_value),
               liability |-> Marginfi!calc_accrued_interest_payment_per_period(
                             borrow, n, r.liability_share_value)]
      BY <2>1 DEF Marginfi!share_values_after
    <2> HIDE DEF lend, borrow, a
    <2> DEFINE x == Marginfi!calc_accrued_interest_payment_per_period(
                        lend, n, r.asset_share_value)
               y == Marginfi!calc_accrued_interest_payment_per_period(
                        borrow, n, r.liability_share_value)
    <2>10. x \in Nat /\ y \in Nat /\ r.liability_share_value <= y
      BY <1>0, <2>2, <2>7, <2>8, InterestAdds
    <2>11. a = [asset |-> x, liability |-> y]
      BY <2>9
    <2> HIDE DEF x, y
    <2>12. a.asset \in Nat /\ a.liability \in Nat \ {0}
      BY <1>0, <2>10, <2>11
    <2> QED
      BY <2>12 DEF a
  <1> QED
    BY <1>1, <1>2

\* Marginfi: a bank of which only numbers of shares and liquidity changed.
LEMMA MarginfiMoved ==
    ASSUME NEW r, Marginfi!Typed(r), NEW c, DOMAIN c = Marginfi!Fields,
           c.config = r.config, c.group = r.group, c.last_update = r.last_update,
           c.asset_share_value = r.asset_share_value,
           c.liability_share_value = r.liability_share_value,
           c.asset_shares \in Nat, c.liability_shares \in Nat
    PROVE  Marginfi!Typed(c)
  BY DEF Marginfi!Typed, Marginfi!FeesTyped

\* Marginfi: the bank after accrual.
LEMMA MarginfiAccrued ==
    ASSUME NEW r, Marginfi!Typed(r), NEW t, Clock(t)
    PROVE  LET c == Marginfi!pre_accrue(r, t)
           IN  /\ Marginfi!Typed(c)
               /\ c.asset_shares = r.asset_shares /\ c.liability_shares = r.liability_shares
               /\ ~Marginfi!AccrualFails(r, t) =>
                     /\ c.asset_share_value = Marginfi!accrue_share_values(r, t).asset
                     /\ c.last_update = t.timestamp
  <1> DEFINE c == Marginfi!pre_accrue(r, t)
             a == Marginfi!accrue_share_values(r, t)
  <1>1. CASE Marginfi!AccrualFails(r, t)
    <2>1. c = r
      BY <1>1 DEF Marginfi!pre_accrue
    <2> QED
      BY <1>1, <2>1
  <1>2. CASE ~Marginfi!AccrualFails(r, t)
    <2>1. a.asset \in Nat /\ a.liability \in Nat \ {0}
      BY <1>2, ShareValuesTyped
    <2>2. c = [r EXCEPT !.asset_share_value = a.asset, !.liability_share_value = a.liability,
                        !.last_update = t.timestamp]
      BY <1>2 DEF Marginfi!pre_accrue, Marginfi!with_share_values
    <2>3. DOMAIN r = Marginfi!Fields /\ t.timestamp \in Int
      BY DEF Marginfi!Typed, Clock
    <2> HIDE DEF c, a
    <2>4. /\ DOMAIN c = Marginfi!Fields
          /\ c.asset_share_value = a.asset /\ c.liability_share_value = a.liability
          /\ c.last_update = t.timestamp /\ c.config = r.config /\ c.group = r.group
          /\ c.asset_shares = r.asset_shares /\ c.liability_shares = r.liability_shares
      BY <2>2, <2>3 DEF Marginfi!Fields
    <2>5. Marginfi!Typed(c)
      BY <2>1, <2>3, <2>4 DEF Marginfi!Typed, Marginfi!FeesTyped
    <2> QED
      BY <2>4, <2>5 DEF c, a
  <1> QED
    BY <1>1, <1>2

\* Marginfi: values and rates of the bank are not negative, and the wrapper's
\* position is part of the bank's asset shares.
MarginfiInv ==
    source = "Marginfi" =>
        Marginfi!Typed(pool) /\ wv.intermediate_held <= pool.asset_shares

\* The banks of the instance are as the assumption says.
LEMMA MarginfiInvInit == Init => MarginfiInv
  <1> SUFFICES ASSUME Init, source = "Marginfi"
               PROVE  Marginfi!Typed(pool) /\ wv.intermediate_held <= pool.asset_shares
    BY DEF MarginfiInv
  <1>1. Marginfi!Typed(pool) /\ wv.intermediate_held = 0
    BY MarginfiAssumption DEF Init
  <1> QED
    BY <1>1 DEF Marginfi!Typed

\* Marginfi: a deposit.
LEMMA MarginfiDeposited ==
    ASSUME NEW r, Marginfi!Typed(r), NEW t, Clock(t), NEW v, NEW q, q.brought \in Nat
    PROVE  LET c == Marginfi!Deposited(r, t, v, q)
           IN  /\ Marginfi!Typed(c) /\ c.asset_shares = r.asset_shares + q.brought
               /\ ~Marginfi!AccrualFails(r, t) =>
                     /\ c.asset_share_value = Marginfi!accrue_share_values(r, t).asset
                     /\ c.last_update = t.timestamp
  <1> DEFINE p == Marginfi!pre_accrue(r, t)
             c == Marginfi!Deposited(r, t, v, q)
  <1>1. /\ Marginfi!Typed(p) /\ p.asset_shares = r.asset_shares
        /\ ~Marginfi!AccrualFails(r, t) =>
              /\ p.asset_share_value = Marginfi!accrue_share_values(r, t).asset
              /\ p.last_update = t.timestamp
    BY MarginfiAccrued
  <1>2. c = [p EXCEPT !.available = @ + q.spends, !.asset_shares = @ + q.brought]
    BY DEF Marginfi!Deposited
  <1> HIDE DEF p, c
  <1>3. DOMAIN p = Marginfi!Fields /\ p.asset_shares \in Nat /\ p.liability_shares \in Nat
    BY <1>1 DEF Marginfi!Typed
  <1>4. /\ DOMAIN c = Marginfi!Fields /\ c.config = p.config /\ c.group = p.group
        /\ c.last_update = p.last_update /\ c.asset_share_value = p.asset_share_value
        /\ c.liability_share_value = p.liability_share_value
        /\ c.asset_shares = p.asset_shares + q.brought /\ c.liability_shares = p.liability_shares
    BY <1>2, <1>3 DEF Marginfi!Fields
  <1>5. c.asset_shares \in Nat /\ c.liability_shares \in Nat
    BY <1>3, <1>4
  <1>6. Marginfi!Typed(c)
    BY <1>1, <1>4, <1>5, MarginfiMoved
  <1> QED
    BY <1>1, <1>4, <1>6 DEF c

\* Marginfi: a withdrawal of shares that are the bank's.
LEMMA MarginfiWithdrawn ==
    ASSUME NEW r, Marginfi!Typed(r), NEW t, Clock(t), NEW v, NEW q, q.redeemed \in Nat,
           q.redeemed <= r.asset_shares
    PROVE  LET c == Marginfi!Withdrawn(r, t, v, q)
           IN  Marginfi!Typed(c) /\ c.asset_shares = r.asset_shares - q.redeemed
  <1> DEFINE p == Marginfi!pre_accrue(r, t)
             c == Marginfi!Withdrawn(r, t, v, q)
  <1>1. Marginfi!Typed(p) /\ p.asset_shares = r.asset_shares
    BY MarginfiAccrued
  <1>2. c = [p EXCEPT !.available = @ - q.pays, !.asset_shares = @ - q.redeemed]
    BY DEF Marginfi!Withdrawn
  <1> HIDE DEF p, c
  <1>3. DOMAIN p = Marginfi!Fields /\ p.asset_shares \in Nat /\ p.liability_shares \in Nat
    BY <1>1 DEF Marginfi!Typed
  <1>4. /\ DOMAIN c = Marginfi!Fields /\ c.config = p.config /\ c.group = p.group
        /\ c.last_update = p.last_update /\ c.asset_share_value = p.asset_share_value
        /\ c.liability_share_value = p.liability_share_value
        /\ c.asset_shares = p.asset_shares - q.redeemed /\ c.liability_shares = p.liability_shares
    BY <1>2, <1>3 DEF Marginfi!Fields
  <1>5. c.asset_shares \in Nat /\ c.liability_shares \in Nat
    BY <1>1, <1>3, <1>4
  <1>6. Marginfi!Typed(c)
    BY <1>1, <1>4, <1>5, MarginfiMoved
  <1> QED
    BY <1>1, <1>4, <1>6 DEF c

\* Marginfi: a loan.
LEMMA MarginfiLent ==
    ASSUME NEW r, Marginfi!Typed(r), NEW t, Clock(t), NEW amount \in Nat
    PROVE  LET c == Marginfi!Lent(r, t, amount)
           IN  Marginfi!Typed(c) /\ c.asset_shares = r.asset_shares
  <1> DEFINE p == Marginfi!pre_accrue(r, t)
             c == Marginfi!Lent(r, t, amount)
             n == Marginfi!fix(amount) * FIX
             d == Marginfi!ceil_div(n, p.liability_share_value)
  <1>1. Marginfi!Typed(p) /\ p.asset_shares = r.asset_shares
    BY MarginfiAccrued
  <1>2. c = [p EXCEPT !.available = @ - amount, !.liability_shares = @ + d]
    BY DEF Marginfi!Lent, Marginfi!Borrowed
  <1>3. n \in Nat
    <2>1. Marginfi!fix(amount) \in Nat /\ FIX \in Nat
      BY FixTyped, ScaleAssumption
    <2> QED
      BY <2>1, SMT
  <1> HIDE DEF p, c, n
  <1>4. /\ DOMAIN p = Marginfi!Fields /\ p.asset_shares \in Nat /\ p.liability_shares \in Nat
        /\ p.liability_share_value \in Nat \ {0}
    BY <1>1 DEF Marginfi!Typed
  <1>5. d \in Nat
    BY <1>3, <1>4, CeilAbove DEF Marginfi!ceil_div, ceil_div
  <1> HIDE DEF d
  <1>6. /\ DOMAIN c = Marginfi!Fields /\ c.config = p.config /\ c.group = p.group
        /\ c.last_update = p.last_update /\ c.asset_share_value = p.asset_share_value
        /\ c.liability_share_value = p.liability_share_value
        /\ c.asset_shares = p.asset_shares /\ c.liability_shares = p.liability_shares + d
    BY <1>2, <1>4 DEF Marginfi!Fields
  <1>7. c.asset_shares \in Nat /\ c.liability_shares \in Nat
    BY <1>4, <1>5, <1>6
  <1>8. Marginfi!Typed(c)
    BY <1>1, <1>6, <1>7, MarginfiMoved
  <1> QED
    BY <1>1, <1>6, <1>8 DEF c

\* Shares of a part of the supply redeem at most the position.
LEMMA PartOfPosition ==
    ASSUME NEW S \in Nat, NEW I \in Nat, NEW a \in Nat, a > 0, a <= S
    PROVE  (a * I) \div S \in Nat /\ (a * I) \div S <= I
  <1> DEFINE n == a * I
             b == n \div S
             si == S * I
             sb == S * b
  <1>1. n \in Nat /\ si \in Nat /\ n <= si /\ S # 0
    BY SMT
  <1> HIDE DEF n
  <1>2. b \in Nat /\ sb <= n
    BY <1>1, FloorBelow
  <1>3. sb \in Nat
    <2> HIDE DEF b
    <2> QED
      BY <1>2, SMT
  <1>4. sb <= si
    <2> HIDE DEF sb, si
    <2> QED
      BY <1>1, <1>2, <1>3
  <1> HIDE DEF b
  <1>5. b <= I
    BY <1>1, <1>2, <1>4, CancelFactor
  <1> QED
    BY <1>2, <1>5 DEF b, n

\* Every step keeps the bank so.
LEMMA MarginfiInvStep == VaultInv /\ SourceInv /\ MarginfiInv /\ [Next]_vars => MarginfiInv'
  <1> SUFFICES ASSUME VaultInv, SourceInv, MarginfiInv, [Next]_vars, source' = "Marginfi"
               PROVE  Marginfi!Typed(pool') /\ wv'.intermediate_held <= pool'.asset_shares
    BY DEF MarginfiInv
  <1>0. source = "Marginfi"
    BY DEF Next, Tick, Refresh, Switch, Lend, Credit, Deposit, Withdraw, vars
  <1>1. /\ Clock(now) /\ Marginfi!Typed(pool) /\ VaultTyped /\ source \in Sources
        /\ wv.intermediate_held \in Nat /\ wv.wrapper_supply \in Nat
        /\ wv.intermediate_held <= pool.asset_shares /\ pool.asset_shares \in Nat
        /\ DOMAIN pool = Marginfi!Fields
    BY <1>0 DEF SourceInv, MarginfiInv, VaultInv, VaultTyped, Marginfi!Typed
  <1>2. CASE Tick \/ UNCHANGED vars
    <2>1. pool' = pool /\ wv' = wv
      BY <1>2 DEF Tick, vars
    <2> QED
      BY <2>1, <1>1
  <1>3. CASE Refresh
    <2>1. pool' = Marginfi!pre_accrue(pool, now) /\ wv' = wv
      BY <1>0, <1>3 DEF Refresh, pre_accrue
    <2>2. Marginfi!Typed(pool') /\ pool'.asset_shares = pool.asset_shares
      BY <2>1, <1>1, MarginfiAccrued
    <2> QED
      BY <2>1, <2>2, <1>1
  <1>4. CASE Switch
    <2>1. PICK change \in Switches["Marginfi"] :
             pool' = [f \in DOMAIN pool |-> IF f \in DOMAIN change THEN change[f] ELSE pool[f]]
      BY <1>0, <1>4 DEF Switch
    <2>2. DOMAIN change \subseteq {"operational_state"}
      BY <1>0, <1>1, MarginfiAssumption
    <2>3. /\ DOMAIN pool' = Marginfi!Fields
          /\ \A f \in Marginfi!Fields \ {"operational_state"} : pool'[f] = pool[f]
      BY <2>1, <2>2, <1>1
    <2>4. /\ pool'.config = pool.config /\ pool'.group = pool.group
          /\ pool'.last_update = pool.last_update
          /\ pool'.asset_share_value = pool.asset_share_value
          /\ pool'.liability_share_value = pool.liability_share_value
          /\ pool'.asset_shares = pool.asset_shares
          /\ pool'.liability_shares = pool.liability_shares
      BY <2>3 DEF Marginfi!Fields
    <2>5. wv' = wv
      BY <1>4 DEF Switch
    <2>6. pool'.asset_shares \in Nat /\ pool'.liability_shares \in Nat
      BY <1>1, <2>4 DEF Marginfi!Typed
    <2>7. Marginfi!Typed(pool')
      BY <1>1, <2>3, <2>4, <2>6, MarginfiMoved
    <2> QED
      BY <2>4, <2>5, <2>7, <1>1
  <1>5. ASSUME NEW amount \in Loans[source], Lend(amount)
        PROVE  Marginfi!Typed(pool') /\ wv'.intermediate_held <= pool'.asset_shares
    <2>1. pool' = Marginfi!Lent(pool, now, amount) /\ wv' = wv
      BY <1>0, <1>5 DEF Lend, Lent
    <2>2. amount \in Nat
      BY <1>1, <1>5, AmountsAssumption
    <2>3. Marginfi!Typed(pool') /\ pool'.asset_shares = pool.asset_shares
      BY <2>1, <2>2, <1>1, MarginfiLent
    <2> QED
      BY <2>1, <2>3, <1>1
  <1>6. ASSUME NEW amount \in Amounts, Deposit(amount)
        PROVE  Marginfi!Typed(pool') /\ wv'.intermediate_held <= pool'.asset_shares
    <2>1. PICK q : /\ q = quote_deposit(pool, wv, amount) /\ q # Refused
                   /\ pool' = Deposited(pool, wv, q) /\ wv' = VaultDeposited(wv, q)
      BY <1>6 DEF Deposit
    <2>2. q = source_quote_deposit(pool, wv, net_amount(amount))
      BY <2>1, QuoteOfTrade
    <2>3. pool' = Marginfi!Deposited(pool, now, wv, q)
      BY <1>0, <2>1 DEF Deposited
    <2>4. wv'.intermediate_held = wv.intermediate_held + q.brought
      BY <1>0, <1>1, <2>1, VaultAfterTrade
    <2>5. q.brought \in Nat
      BY <1>0, <2>1, <2>2, DepositFacts
    <2>6. Marginfi!Typed(pool') /\ pool'.asset_shares = pool.asset_shares + q.brought
      BY <1>1, <2>3, <2>5, MarginfiDeposited
    <2> QED
      BY <1>1, <2>4, <2>5, <2>6
  <1>7. ASSUME NEW amount \in Amounts, Withdraw(amount)
        PROVE  Marginfi!Typed(pool') /\ wv'.intermediate_held <= pool'.asset_shares
    <2>1. PICK q : /\ q = quote_withdraw(pool, wv, amount) /\ q # Refused
                   /\ pool' = Withdrawn(pool, wv, q) /\ wv' = VaultWithdrawn(pool, wv, amount, q)
      BY <1>7 DEF Withdraw
    <2>2. q = source_quote_withdraw(pool, wv, amount)
      BY <2>1, QuoteOfTrade
    <2>3. pool' = Marginfi!Withdrawn(pool, now, wv, q)
      BY <1>0, <2>1 DEF Withdrawn
    <2>4. wv'.intermediate_held = wv.intermediate_held - q.redeemed
      BY <1>0, <1>1, <2>1, VaultAfterTrade
    <2>5. amount \in Nat
      BY AmountsAssumption
    <2>6. /\ amount > 0 /\ amount <= wv.wrapper_supply
          /\ q.redeemed = (amount * wv.intermediate_held) \div wv.wrapper_supply
      <3>1. wv.intermediate_held + Strays = wv.intermediate_held
        BY <1>0, <1>1 DEF Strays
      <3> QED
        BY <1>0, <2>1, <2>2, <2>5, <3>1, WithdrawFacts
    <2>7. q.redeemed \in Nat /\ q.redeemed <= wv.intermediate_held
      BY <1>1, <2>5, <2>6, PartOfPosition
    <2>8. q.redeemed <= pool.asset_shares
      BY <1>1, <2>7
    <2>9. Marginfi!Typed(pool') /\ pool'.asset_shares = pool.asset_shares - q.redeemed
      BY <1>1, <2>3, <2>7, <2>8, MarginfiWithdrawn
    <2> QED
      BY <1>1, <2>4, <2>7, <2>9
  <1> QED
    BY <1>0, <1>2, <1>3, <1>4, <1>5, <1>6, <1>7 DEF Next, Credit

\* A Marginfi bank: a share never has a negative value, a liability share is always
\* worth something, and a withdrawal never takes more asset shares than the bank
\* has.
THEOREM MarginfiInvHolds == Spec => []MarginfiInv
  BY MarginfiInvInit, MarginfiInvStep, VaultInvInit, VaultInvStep, SourceInvInit, SourceInvStep,
     PTL DEF Spec

\* What at most c shares pay at the value v that c of them were bought for with n.
LEMMA BoughtPayBack ==
    ASSUME NEW n \in Nat, NEW v \in Nat \ {0}, NEW c \in Nat, NEW b \in Nat, b <= c,
           c = ((n * FIX) * FIX) \div v
    PROVE  ((b * v) \div FIX) \div FIX <= n
  <1> DEFINE k == n * FIX
             m == k * FIX
             vc == v * c
             bv == b * v
             x == bv \div FIX
             p == x \div FIX
             fx == FIX * x
             fp == FIX * p
             fk == FIX * k
             fn == FIX * n
  <1>0. FIX \in Nat \ {0} /\ k \in Nat /\ k = fn
    BY ScaleAssumption, SMT
  <1>1. m \in Nat /\ m = fk
    <2> HIDE DEF k
    <2> QED
      BY <1>0, SMT
  <1>2. vc <= m
    <2>1. c = m \div v
      OBVIOUS
    <2> HIDE DEF m
    <2> QED
      BY <1>1, <2>1, FloorBelow
  <1>3. bv \in Nat /\ vc \in Nat /\ bv <= vc
    BY SMT
  <1> HIDE DEF vc, m, k, fn
  <1>4. bv <= fk
    <2> HIDE DEF bv, fk
    <2> QED
      BY <1>1, <1>2, <1>3
  <1> HIDE DEF bv
  <1>5. x \in Nat /\ fx <= bv
    BY <1>0, <1>3, FloorBelow
  <1> HIDE DEF x
  <1>6. fx \in Nat /\ fk \in Nat
    BY <1>0, <1>5, SMT
  <1>7. fx <= fk
    <2> HIDE DEF fx, fk
    <2> QED
      BY <1>3, <1>4, <1>5, <1>6
  <1>8. x <= k
    BY <1>0, <1>5, <1>7, CancelFactor
  <1>9. p \in Nat /\ fp <= x
    BY <1>0, <1>5, FloorBelow
  <1> HIDE DEF p
  <1>10. fp \in Nat
    BY <1>0, <1>9, SMT
  <1>11. fp <= fn
    <2> HIDE DEF fp
    <2> QED
      BY <1>0, <1>5, <1>8, <1>9, <1>10
  <1>12. FIX * p <= FIX * n
    BY <1>11 DEF fn
  <1>13. p <= n
    BY <1>0, <1>9, <1>12, CancelFactor
  <1> QED
    BY <1>13 DEF p, x, bv

\* Marginfi: depositing and at once burning the shares never pays out more than was
\* paid in, whatever came before.
THEOREM MarginfiRoundTrip == Spec => [](source = "Marginfi" => RoundTripNoProfit)
  <1>1. ASSUME VaultInv, SourceInv, MarginfiInv, source = "Marginfi"
        PROVE  RoundTripNoProfit
    <2> SUFFICES ASSUME NEW amount \in Amounts,
                        NEW d, d = quote_deposit(pool, wv, amount), d # Refused,
                        NEW w, w = quote_withdraw(Deposited(pool, wv, d), VaultDeposited(wv, d), d.mint),
                        w # Refused
                 PROVE  w.pays <= amount
      BY DEF RoundTripNoProfit
    <2> DEFINE S == wv.wrapper_supply
               I == wv.intermediate_held
               net == net_amount(amount)
               V == Marginfi!accrue_share_values(pool, now).asset
               m == Marginfi!Deposited(pool, now, wv, d)
               u == VaultDeposited(wv, d)
               g == d.mint
               c == d.brought
               b == Marginfi!shares_pro_rata(u, g)
    <2>0. /\ Clock(now) /\ Marginfi!Typed(pool) /\ VaultTyped
          /\ I \in Nat /\ S \in Nat /\ (S = 0 <=> I = 0)
      BY <1>1 DEF SourceInv, MarginfiInv, VaultInv, VaultTyped
    <2>1. d = source_quote_deposit(pool, wv, net)
      BY QuoteOfTrade
    <2>2. d = Marginfi!quote_deposit(pool, now, wv, net)
      BY <1>1, <2>1 DEF source_quote_deposit
    <2>3. amount \in Nat /\ net \in Nat /\ net <= amount
      BY <1>1, AmountsAssumption, NetAmount DEF VaultInv
    <2>4. g \in Nat \ {0} /\ c \in Nat \ {0} /\ (S # 0 => I * g <= c * S)
      BY <1>1, <2>1, DepositFacts
    <2>5. /\ ~Marginfi!AccrualFails(pool, now)
          /\ d = Marginfi!deposit_at_value(pool, V, wv, net)
      BY <2>2 DEF Marginfi!quote_deposit, Marginfi!Refused, Refused
    <2>6. V \in Nat
      BY <2>0, <2>5, ShareValuesTyped
    <2>7. V # 0 /\ c = ((net * FIX) * FIX) \div V
      <3> HIDE DEF V, net
      <3> QED
        BY <2>5 DEF Marginfi!deposit_at_value, Marginfi!shares_delta, Marginfi!fix_div,
                    Marginfi!fix, Marginfi!Refused, Refused
    <2>8. m.asset_share_value = V /\ m.last_update = now.timestamp
      BY <2>0, <2>4, <2>5, MarginfiDeposited
    <2>9. u.wrapper_supply = S + g /\ u.intermediate_held = I + c
      BY <1>1, <2>0, VaultAfterTrade
    <2>10. w = Marginfi!quote_withdraw(m, now, u, g)
      <3>1. Deposited(pool, wv, d) = m
        BY <1>1 DEF Deposited
      <3>2. w = CheckedWithdraw(u, g, source_quote_withdraw(m, u, g))
        BY <3>1 DEF quote_withdraw
      <3> DEFINE z == source_quote_withdraw(m, u, g)
      <3>3. z = Marginfi!quote_withdraw(m, now, u, g)
        BY <1>1 DEF source_quote_withdraw
      <3> HIDE DEF z, m, u, g
      <3> QED
        BY <3>2, <3>3 DEF CheckedWithdraw, z
    <2> HIDE DEF m, u, V, net, g, c
    <2>11. Marginfi!accrue_share_values(m, now).asset = V
      <3>1. now.timestamp <= m.last_update
        BY <2>0, <2>8 DEF Clock
      <3>2. Marginfi!Dormant(m, now)
        BY <3>1 DEF Marginfi!Dormant
      <3>3. Marginfi!accrue_share_values(m, now)
              = [asset |-> m.asset_share_value, liability |-> m.liability_share_value]
        BY <3>2 DEF Marginfi!accrue_share_values
      <3> QED
        BY <2>8, <3>3
    <2>12. w.pays = ((b * V) \div FIX) \div FIX
      <3> DEFINE a == Marginfi!accrue_share_values(m, now)
      <3>1. w = Marginfi!withdraw_at_values(m, a, u, b)
        BY <2>10 DEF Marginfi!quote_withdraw, Marginfi!Refused, Refused
      <3> HIDE DEF a, b
      <3>2. w.pays = Marginfi!fix_mul(b, a.asset) \div FIX
        BY <3>1 DEF Marginfi!withdraw_at_values, Marginfi!Refused, Refused
      <3>3. a.asset = V
        BY <2>11 DEF a
      <3> QED
        BY <3>2, <3>3 DEF Marginfi!fix_mul
    <2>13. b = (g * (I + c)) \div (S + g)
      BY <2>9 DEF Marginfi!shares_pro_rata
    <2>14. b \in Nat /\ (S + g) * b <= g * (I + c)
      <3> DEFINE n == g * (I + c)
                 k == S + g
      <3>1. n \in Nat /\ k \in Nat \ {0}
        BY <2>0, <2>4, SMT
      <3>2. b = n \div k
        BY <2>13
      <3> HIDE DEF n, k, b
      <3>3. b \in Nat /\ k * b <= n
        BY <3>1, <3>2, FloorBelow
      <3> QED
        BY <3>3 DEF n, k
    <2> HIDE DEF b, S, I
    <2>15. b <= c
      BY <2>0, <2>4, <2>14, MintedRedeemBrought
    <2>16. w.pays <= net
      BY <2>3, <2>4, <2>6, <2>7, <2>12, <2>14, <2>15, BoughtPayBack
    <2>17. w.pays \in Int
      <3>1. w = Marginfi!quote_withdraw(m, now, u, g)
        BY <2>10
      <3> DEFINE a == Marginfi!accrue_share_values(m, now)
                 z == Marginfi!shares_pro_rata(u, g)
                 y == Marginfi!fix_mul(z, a.asset) \div FIX
      <3>2. w = Marginfi!withdraw_at_values(m, a, u, z)
        BY <3>1 DEF Marginfi!quote_withdraw, Marginfi!Refused, Refused
      <3> HIDE DEF a, z
      <3>3. w.pays = y /\ y \in 1 .. U64 - 1
        BY <3>2 DEF Marginfi!withdraw_at_values, Marginfi!Refused, Refused
      <3> QED
        BY <3>3, U64Assumption
    <2> QED
      BY <2>3, <2>16, <2>17
  <1> QED
    BY <1>1, VaultInvHolds, SourceInvInit, SourceInvStep, MarginfiInvHolds, PTL DEF Spec

-----------------------------------------------------------------------------
(* Kvault: a round trip                                                     *)

\* Kvault: a withdrawal sends no more of the primary allocation than is wanted.
LEMMA DisinvestAtMost ==
    ASSUME NEW k \in Nat, NEW amount \in Nat, NEW cs \in Nat \ {0}, NEW ts \in Nat \ {0}
    PROVE  Kvault!disinvest(k, [cs |-> cs, ts |-> ts], amount).sent <= amount
  <1> DEFINE x == [cs |-> cs, ts |-> ts]
             inres == Kvault!fraction_collateral_to_liquidity(k, x)
             m == amount * ONE
             send == Kvault!smaller(inres, m)
             whole == send \div ONE
             ctokens == Kvault!smaller(
                            Kvault!fraction_liquidity_to_collateral_ceil(whole, x), k)
             liquidity == Kvault!fraction_collateral_to_liquidity(ctokens, x)
             err == IF liquidity % ONE > 0 /\ liquidity % ONE > send % ONE THEN 1 ELSE 0
             out == Kvault!disinvest(k, x, amount)
  <1>0. ONE \in Nat \ {0} /\ m \in Nat /\ m = ONE * amount
    BY ScaleAssumption, SMT
  <1>1. inres \in Nat
    <2>1. k * ts \in Nat
      BY SMT
    <2>2. inres = (k * ts) \div cs
      BY DEF Kvault!fraction_collateral_to_liquidity
    <2> DEFINE n == k * ts
    <2> HIDE DEF n, inres
    <2> QED
      BY <2>1, <2>2, FloorBelow DEF n
  <1>2. out.sent = IF send = 0 THEN 0 ELSE Kvault!saturating_sub(whole, err)
    BY DEF Kvault!disinvest, Kvault!from_num, Kvault!floor
  <1> HIDE DEF inres, m
  <1>3. send \in Nat /\ send <= m
    BY <1>0, <1>1 DEF Kvault!smaller
  <1> HIDE DEF send
  <1>4. whole \in Nat /\ ONE * whole <= send
    BY <1>0, <1>3, FloorBelow
  <1> HIDE DEF whole
  <1> DEFINE ow == ONE * whole
             oa == ONE * amount
  <1>5. ow \in Nat /\ oa \in Nat
    BY <1>0, <1>4, SMT
  <1>6. ow <= oa
    <2> HIDE DEF ow, oa
    <2> QED
      BY <1>0, <1>3, <1>4, <1>5 DEF ow, oa
  <1>7. whole <= amount
    BY <1>0, <1>4, <1>6, CancelFactor
  <1>8. err \in Nat
    OBVIOUS
  <1> HIDE DEF err, out
  <1>9. out.sent <= amount
    BY <1>2, <1>4, <1>7, <1>8 DEF Kvault!saturating_sub
  <1> QED
    BY <1>9 DEF out, x

\* Kvault: the user gets no more than the shares are worth.
LEMMA FinalAtMost ==
    ASSUME NEW r, KvaultHolds(r), NEW t, Clock(t), NEW total \in Nat,
           total > r.available => r.allocs # <<>>
    PROVE  Kvault!final_for_user(r, t, total) \in Nat /\ Kvault!final_for_user(r, t, total) <= total
  <1> DEFINE sent == Kvault!available_to_send(r, total)
             i == Kvault!primary(r)
             x == Kvault!exchange_rate(r.allocs[i].reserve, t)
             left == total - sent
             out == Kvault!disinvest_primary(r, t, left)
  <1>1. r.available \in Nat
    BY KvaultFieldsTyped
  <1>2. sent \in Nat /\ sent <= total /\ (total > sent => total > r.available) /\ left \in Nat
    BY <1>1 DEF Kvault!available_to_send, Kvault!smaller
  <1>3. CASE total <= sent
    BY <1>3 DEF Kvault!final_for_user
  <1>4. CASE ~(total <= sent)
    <2>1. r.allocs # <<>>
      BY <1>2, <1>4
    <2>2. Kvault!final_for_user(r, t, total) = sent + out.sent
      BY <1>4 DEF Kvault!final_for_user
    <2> HIDE DEF sent, left
    <2>3. /\ i \in DOMAIN r.allocs /\ out.sent \in Nat
          /\ out = Kvault!disinvest(r.allocs[i].ctokens, x, left)
      BY <1>2, <2>1, PrimaryCovers
    <2>4. r.allocs[i].ctokens \in Nat /\ x = [cs |-> x.cs, ts |-> x.ts]
          /\ x.cs \in Nat \ {0} /\ x.ts \in Nat \ {0}
      BY <2>3, AllocsHeld
    <2> DEFINE k == r.allocs[i].ctokens
    <2> HIDE DEF out, i, x
    <2>5. Kvault!disinvest(k, [cs |-> x.cs, ts |-> x.ts], left).sent <= left
      BY <1>2, <2>4, DisinvestAtMost
    <2>6. out.sent <= left
      BY <2>3, <2>4, <2>5
    <2>7. left = total - sent
      BY DEF left
    <2> QED
      BY <1>2, <2>2, <2>3, <2>6, <2>7
  <1> QED
    BY <1>3, <1>4

\* Kvault: shares bought with n tokens are worth at most n at the assets they were
\* bought at.
LEMMA SharesAreBought ==
    ASSUME NEW T \in Nat, NEW n \in Nat, NEW s \in Nat \ {0},
           NEW k \in Nat, k = Kvault!get_shares_to_mint(T, n, s), T # 0
    PROVE  k * T <= s * (ONE * n)
  <1> DEFINE u == Kvault!ceil(T)
             so == s * ONE
             m == so * n
             z == m \div u
             uo == ONE * u
  <1>0. ONE \in Nat \ {0} /\ so \in Nat
    BY ScaleAssumption, SMT
  <1>1. k = z \div ONE
    BY DEF Kvault!get_shares_to_mint, Kvault!floor, Kvault!fraction_full_mul_int_ratio,
           Kvault!from_num
  <1>2. u \in Nat /\ T <= uo
    BY <1>0, CeilAbove DEF Kvault!ceil, Kvault!ceil_div, ceil_div
  <1> HIDE DEF u
  <1>3. u # 0
    <2> SUFFICES ASSUME u = 0 PROVE FALSE
      OBVIOUS
    <2>1. uo = 0
      BY <1>0, SMT
    <2> QED
      BY <1>2, <2>1
  <1>4. m \in Nat /\ m = s * (ONE * n)
    <2>1. m = s * (ONE * n)
      BY <1>0, SMT
    <2> HIDE DEF so
    <2> QED
      BY <1>0, <2>1, SMT
  <1> HIDE DEF m
  <1>5. z \in Nat /\ u * z <= m
    BY <1>2, <1>3, <1>4, FloorBelow
  <1> HIDE DEF z
  <1>6. ONE * k <= z
    BY <1>0, <1>1, <1>5, FloorBelow
  <1> DEFINE kt == k * T
             ku == k * uo
             ok == ONE * k
             uok == u * ok
             uz == u * z
  <1>7. uo \in Nat /\ ok \in Nat
    BY <1>0, <1>2, SMT
  <1>8. ku = uok
    BY <1>0, <1>2, SMT
  <1>9. kt \in Nat /\ ku \in Nat /\ kt <= ku
    <2> HIDE DEF uo
    <2> QED
      BY <1>2, <1>7, SMT
  <1>10. uok \in Nat /\ uz \in Nat /\ uok <= uz
    <2>1. ok <= z
      BY <1>6
    <2> HIDE DEF ok
    <2> QED
      BY <1>2, <1>5, <1>7, <2>1, SMT
  <1> HIDE DEF kt, ku, uok, uz
  <1>11. kt <= m
    BY <1>4, <1>5, <1>8, <1>9, <1>10 DEF uz
  <1> QED
    BY <1>4, <1>11 DEF kt

\* Kvault: what b of s shares are worth is at most their part of the assets.
LEMMA PartOfAssets ==
    ASSUME NEW r, NEW aum \in Nat, NEW b \in Nat, r.shares_issued \in Nat \ {0},
           NEW p \in Nat, p <= Kvault!total_with_penalty(r, aum, b)
    PROVE  r.shares_issued * (ONE * p) <= b * aum
  <1> DEFINE s == r.shares_issued
             n == aum * b
             z == IF b = s THEN aum ELSE n \div s
             f == z \div ONE
             op == ONE * p
             of == ONE * f
  <1>0. ONE \in Nat \ {0} /\ n \in Nat /\ n = b * aum
    BY ScaleAssumption, SMT
  <1>1. Kvault!total_with_penalty(r, aum, b) = f
    BY DEF Kvault!total_with_penalty, Kvault!floor, Kvault!fraction_full_mul_int_ratio
  <1> HIDE DEF n
  <1>2. z \in Nat /\ s * z <= n
    <2>1. CASE b = s
      <3>1. z = aum /\ s * aum = n
        BY <1>0, <2>1
      <3> QED
        BY <1>0, <3>1
    <2>2. CASE b # s
      BY <1>0, <2>2, FloorBelow
    <2> QED
      BY <2>1, <2>2
  <1> HIDE DEF z
  <1>3. f \in Nat /\ of <= z
    BY <1>0, <1>2, FloorBelow
  <1>4. p <= f
    BY <1>1
  <1> HIDE DEF f, s
  <1>5. op \in Nat /\ of \in Nat /\ op <= of
    BY <1>0, <1>3, <1>4, SMT
  <1>6. s \in Nat
    BY DEF s
  <1> HIDE DEF op, of
  <1>7. op <= z
    BY <1>2, <1>3, <1>5
  <1> DEFINE a == s * op
             c == s * z
  <1>8. a \in Nat /\ c \in Nat /\ a <= c
    BY <1>2, <1>5, <1>6, <1>7, SMT
  <1> HIDE DEF a, c
  <1>9. a <= n
    BY <1>0, <1>2, <1>8 DEF c
  <1> QED
    BY <1>0, <1>9 DEF a, op, s

\* Kvault: what a vault holds depends on its tokens and its allocations only.
LEMMA HoldingsOf ==
    ASSUME NEW r, NEW c, c.allocs = r.allocs, NEW t
    PROVE  Kvault!holdings_total(c, t) = c.available * ONE + Kvault!invested_total(r, t)
  <1>1. Kvault!ctokens_held(c) = Kvault!ctokens_held(r)
        /\ Kvault!reserve_rates(c, t) = Kvault!reserve_rates(r, t)
    BY DEF Kvault!ctokens_held, Kvault!reserve_rates
  <1>2. Kvault!invested_total(c, t) = Kvault!invested_total(r, t)
    BY <1>1 DEF Kvault!invested_total
  <1> QED
    BY <1>2 DEF Kvault!holdings_total, Kvault!from_num

\* Kvault: fees that were charged at t, on the assets of that time, are not charged
\* again.
LEMMA FeesChargedOnce ==
    ASSUME NEW r, KvaultHolds(r), NEW t, Clock(t), NEW h \in Nat,
           r.last_fee_charge_timestamp = t.timestamp,
           r.prev_aum = Kvault!saturating_sub(h, r.pending_fees)
    PROVE  Kvault!charged_pending_fees(r, t, h) = r.pending_fees
  <1> DEFINE sec == Kvault!saturating_sub(t.timestamp, r.last_fee_charge_timestamp)
             new == Kvault!saturating_sub(h, r.pending_fees)
             mb == Kvault!bps_to_fraction(r.management_fee_bps)
             pb == Kvault!bps_to_fraction(r.performance_fee_bps)
             year == (mb * sec) \div KVAULT_YEAR
             mgmt == Kvault!frac_mul(r.prev_aum, year)
             gain == Kvault!saturating_sub(new, r.prev_aum)
             perf == Kvault!frac_mul(pb, gain)
  <1>0. /\ r.pending_fees \in Nat /\ r.prev_aum \in Nat /\ t.timestamp \in Nat
        /\ r.management_fee_bps \in Nat /\ r.performance_fee_bps \in Nat
        /\ KVAULT_YEAR \in Nat \ {0} /\ ONE \in Nat \ {0}
    BY KvaultFieldsTyped, PeriodAssumption, ScaleAssumption DEF Clock
  <1>1. sec = 0 /\ gain = 0 /\ new \in Nat
    BY <1>0 DEF Kvault!saturating_sub
  <1>2. mb \in Nat /\ pb \in Nat
    <2>1. Klend!bps_to_fraction(r.management_fee_bps) \in Nat
      BY <1>0, BpsToFraction
    <2>2. Klend!bps_to_fraction(r.performance_fee_bps) \in Nat
      BY <1>0, BpsToFraction
    <2> QED
      BY <2>1, <2>2 DEF Klend!bps_to_fraction, Kvault!bps_to_fraction, Klend!from_num,
                        Kvault!from_num
  <1>3. Kvault!charged_pending_fees(r, t, h)
          = IF r.last_fee_charge_timestamp = 0 THEN r.pending_fees
            ELSE r.pending_fees + Kvault!smaller(mgmt + perf, new)
    BY DEF Kvault!charged_pending_fees
  <1> HIDE DEF mb, pb, sec, gain, new
  <1>4. year = 0
    <2>1. mb * sec = 0
      BY <1>1, <1>2, SMT
    <2> QED
      BY <1>0, <2>1
  <1> HIDE DEF year
  <1>5. mgmt = 0 /\ perf = 0
    <2>1. r.prev_aum * year = 0 /\ pb * gain = 0
      BY <1>0, <1>1, <1>2, <1>4, SMT
    <2> QED
      BY <1>0, <2>1 DEF Kvault!frac_mul
  <1> HIDE DEF mgmt, perf
  <1> QED
    BY <1>0, <1>1, <1>3, <1>5 DEF Kvault!smaller

\* Kvault: a deposit adds to the assets exactly what it pays in.
AssetsPaidIn(r, t, v, net, q) ==
    LET aum == Kvault!current_aum(r, t)
        c == Kvault!KvaultDeposited(r, t, v, q)
    IN  /\ aum \in Nat /\ q.spends \in Nat /\ q.spends <= net
        /\ q.brought = Kvault!get_shares_to_mint(aum, q.spends, r.shares_issued)
        /\ r.shares_issued > 0 => aum # 0
        /\ c.cached_aum = Kvault!None /\ c.farm = Kvault!Staked(r.farm, q.brought)
        /\ Kvault!current_aum(c, t) = aum + ONE * q.spends

\* Kvault: that is what a deposit that was quoted does.
LEMMA DepositPaysIn ==
    ASSUME NEW r, KvaultHolds(r), r.cached_aum = Kvault!None, NEW t, Clock(t), NEW v,
           NEW net \in Nat, NEW q, q = Kvault!kvault_quote_deposit(r, t, v, net), q # Refused
    PROVE  AssetsPaidIn(r, t, v, net, q)
  <1> DEFINE aum == Kvault!current_aum(r, t)
             funds == Kvault!crank_funds(r)
             left == net - funds
             sh == Kvault!get_shares_to_mint(aum, left, r.shares_issued)
             h == Kvault!holdings_total(r, t)
             f == Kvault!charged_pending_fees(r, t, h)
             c == Kvault!KvaultDeposited(r, t, v, q)
             n == q.spends
             H == Kvault!holdings_total(c, t)
             I == Kvault!invested_total(r, t)
  <1>1. /\ ~(net = 0 \/ left < 0 \/ left < r.min_deposit_amount)
        /\ aum # Kvault!None /\ ~(r.shares_issued > 0 /\ aum = 0)
        /\ q.brought = sh /\ n = left
    BY DEF Kvault!kvault_quote_deposit, Kvault!deposit_at_aum, Kvault!Refused, Refused
  <1>2. funds \in Nat /\ ONE \in Nat \ {0}
    BY CrankTyped, ScaleAssumption
  <1> HIDE DEF funds
  <1>3. n \in Nat /\ n <= net
    BY <1>1, <1>2
  <1>4. h \in Nat
    BY HoldingsTyped
  <1>5. f \in Nat
    BY <1>4, FeesTyped
  <1>6. aum \in Nat
    BY <1>1, AssetsTyped
  <1>7. aum = Kvault!aum_of(r, h, f)
    BY DEF Kvault!current_aum, Kvault!compute_current_aum, Kvault!aum_after_fees
  <1>8. ~Kvault!reserve_not_cached(r) /\ ~(h < f) /\ aum = h - f
    <2> HIDE DEF aum, h, f
    <2> QED
      BY <1>1, <1>7 DEF Kvault!aum_of
  <1>9. KvaultHolds(c) /\ DOMAIN r = Kvault!KvaultFields /\ r.available \in Nat
    BY KvaultDepositHolds, KvaultFieldsTyped DEF KvaultHolds
  <1> DEFINE e == [Kvault!Charged(r, t) EXCEPT
                     !.available = @ + n, !.shares_issued = @ + q.brought,
                     !.farm = Kvault!Staked(@, q.brought)]
  <1>10. c = Kvault!Settled(e, t)
    BY DEF Kvault!KvaultDeposited
  <1>11. /\ DOMAIN e = Kvault!KvaultFields /\ e.available = r.available + n
         /\ e.allocs = r.allocs /\ e.pending_fees = f /\ e.cached_aum = r.cached_aum
         /\ e.missing = r.missing /\ e.farm = Kvault!Staked(r.farm, q.brought)
         /\ e.last_fee_charge_timestamp = t.timestamp
    <2> HIDE DEF f
    <2> QED
      BY <1>9 DEF Kvault!Charged, Kvault!KvaultFields, f, h
  <1> HIDE DEF e, c, h, f
  <1>12. c = [e EXCEPT !.prev_aum
                = Kvault!saturating_sub(Kvault!holdings_total(e, t), e.pending_fees)]
    BY <1>10 DEF Kvault!Settled
  <1>13. /\ c.available = e.available /\ c.allocs = r.allocs /\ c.pending_fees = f
         /\ c.cached_aum = r.cached_aum /\ c.missing = r.missing /\ c.farm = e.farm
         /\ c.last_fee_charge_timestamp = t.timestamp
         /\ c.prev_aum = Kvault!saturating_sub(Kvault!holdings_total(e, t), f)
    BY <1>11, <1>12 DEF Kvault!KvaultFields
  <1>14. /\ H = c.available * ONE + I /\ Kvault!holdings_total(e, t) = e.available * ONE + I
         /\ h = r.available * ONE + I
    BY <1>11, <1>13, HoldingsOf DEF h
  <1>15. H \in Nat
    BY <1>9, HoldingsTyped
  <1>16. Kvault!holdings_total(e, t) = H
    BY <1>13, <1>14
  <1> DEFINE ra == r.available * ONE
             on == ONE * n
  <1>17. c.available * ONE = ra + on /\ ra \in Nat /\ on \in Nat
    <2>1. c.available = r.available + n
      BY <1>11, <1>13
    <2>2. (r.available + n) * ONE = ra + on /\ ra \in Nat /\ on \in Nat
      BY <1>2, <1>3, <1>9, SMT
    <2> QED
      BY <2>1, <2>2
  <1> HIDE DEF H, I
  <1>18. H = h + on
    <2> HIDE DEF ra, on
    <2>1. h = ra + I
      BY <1>14 DEF ra
    <2>2. H = ra + on + I
      BY <1>14, <1>17
    <2>3. I \in Int
      <3>1. Kvault!invested_total(r, t) \in Nat
        BY HoldingsTyped
      <3> QED
        BY <3>1 DEF I
    <2> QED
      BY <1>17, <2>1, <2>2, <2>3
  <1>19. Kvault!charged_pending_fees(c, t, H) = f
    BY <1>9, <1>13, <1>15, <1>16, FeesChargedOnce
  <1>20. Kvault!current_aum(c, t) = Kvault!aum_of(c, H, f)
    BY <1>13, <1>19 DEF Kvault!current_aum, Kvault!compute_current_aum, Kvault!aum_after_fees, H
  <1>21. ~Kvault!reserve_not_cached(c)
    BY <1>8, <1>13 DEF Kvault!reserve_not_cached
  <1>22. Kvault!current_aum(c, t) = aum + on
    <2>1. ~(H < f) /\ H - f = aum + on
      <3> HIDE DEF aum, on
      <3> QED
        BY <1>4, <1>5, <1>6, <1>8, <1>17, <1>18
    <2> QED
      BY <1>20, <1>21, <2>1 DEF Kvault!aum_of
  <1>23. q.brought = Kvault!get_shares_to_mint(aum, n, r.shares_issued)
    BY <1>1
  <1> QED
    BY <1>1, <1>3, <1>6, <1>11, <1>13, <1>22, <1>23 DEF AssetsPaidIn, c

\* Kvault: what a withdrawal pays is at most its shares' part of the assets.
LEMMA PaysPartOfAssets ==
    ASSUME NEW r, KvaultHolds(r), r.cached_aum = Kvault!None, NEW t, Clock(t), NEW v, NEW amount,
           v.intermediate_held \in Nat,
           NEW q, q = Kvault!kvault_quote_withdraw(r, t, v, amount), q # Refused
    PROVE  /\ q.redeemed = (amount * Kvault!position_kvault_shares(r, v)) \div v.wrapper_supply
           /\ q.redeemed \in Nat /\ q.pays \in Nat
           /\ r.shares_issued * (ONE * q.pays) <= q.redeemed * Kvault!current_aum(r, t)
  <1> DEFINE aum == Kvault!current_aum(r, t)
             sh == Kvault!kvault_shares_to_redeem(r, v, amount)
             total == Kvault!total_with_penalty(r, aum, sh)
             pen == Kvault!withdrawal_penalty(r, total)
             u == total - pen
  <1>1. /\ sh \in 1 .. U64 - 1 /\ ~(aum \in {Kvault!None, 0}) /\ r.shares_issued # 0
        /\ q = Kvault!pay_for_user(r, t, v, sh, u)
    BY DEF Kvault!kvault_quote_withdraw, Kvault!withdraw_at_aum, Kvault!Refused, Refused
  <1>2. U64 \in Nat /\ r.shares_issued \in Nat \ {0}
    BY <1>1, U64Assumption, KvaultFieldsTyped
  <1>3. aum \in Nat /\ sh \in Nat
    <2>1. aum \in Nat
      BY <1>1, AssetsTyped
    <2> HIDE DEF sh, aum
    <2> QED
      BY <1>1, <1>2, <2>1
  <1>4. total \in Nat /\ pen \in Nat
    <2> HIDE DEF aum, sh
    <2> QED
      BY <1>1, <1>3, PenaltyTyped
  <1>5. sh = (amount * Kvault!position_kvault_shares(r, v)) \div v.wrapper_supply
    BY DEF Kvault!kvault_shares_to_redeem
  <1> HIDE DEF aum, sh, total, pen
  <1> DEFINE final == Kvault!final_for_user(r, t, u)
  <1>6. q.pays = final /\ q.redeemed = sh /\ q.total = u
    <2> HIDE DEF u
    <2>1. q = Kvault!pay_out(r, v, sh, u, final)
      BY <1>1 DEF Kvault!pay_for_user, Kvault!Refused, Refused
    <2> HIDE DEF final
    <2> QED
      BY <2>1 DEF Kvault!pay_out, Kvault!Refused, Refused
  <1>7. u \in Nat /\ (u > r.available => r.allocs # <<>>)
    BY <1>6, KvaultQuoteFacts
  <1>8. u <= total
    BY <1>4
  <1> HIDE DEF u
  <1>9. final \in Nat /\ final <= u
    BY <1>7, FinalAtMost
  <1> HIDE DEF final
  <1>10. final <= Kvault!total_with_penalty(r, aum, sh)
    <2>1. final <= total
      BY <1>4, <1>7, <1>8, <1>9
    <2> QED
      BY <2>1 DEF total
  <1>11. r.shares_issued * (ONE * final) <= sh * aum
    BY <1>2, <1>3, <1>9, <1>10, PartOfAssets
  <1> QED
    BY <1>3, <1>5, <1>6, <1>9, <1>11 DEF aum

\* Kvault: a vault that has issued no shares has assets of less than a token.
EmptyKeepsDust == pool.shares_issued = 0 => Kvault!current_aum(pool, now) < ONE

\* Kvault: depositing and at once burning the shares never pays out more than was
\* paid in, whatever came before and whatever fees are due, as long as a vault that
\* has issued no shares has assets of less than a token.
THEOREM KvaultRoundTrip ==
    Spec => []((source = "Kvault" /\ EmptyKeepsDust) => RoundTripNoProfit)
  <1>1. ASSUME VaultInv, SourceInv, KvaultInv, source = "Kvault", EmptyKeepsDust
        PROVE  RoundTripNoProfit
    <2> SUFFICES ASSUME NEW amount \in Amounts,
                        NEW d, d = quote_deposit(pool, wv, amount), d # Refused,
                        NEW w, w = quote_withdraw(Deposited(pool, wv, d), VaultDeposited(wv, d), d.mint),
                        w # Refused
                 PROVE  w.pays <= amount
      BY DEF RoundTripNoProfit
    <2> DEFINE S == wv.wrapper_supply
               I == wv.intermediate_held
               T == Kvault!current_aum(pool, now)
               s == pool.shares_issued
               net == net_amount(amount)
               m == Kvault!KvaultDeposited(pool, now, wv, d)
               u == VaultDeposited(wv, d)
               g == d.mint
               c == d.brought
               n == d.spends
               b == w.redeemed
               p == w.pays
    <2>0. /\ Clock(now) /\ KvaultHolds(pool) /\ VaultTyped /\ pool.cached_aum = Kvault!None
          /\ I \in Nat /\ S \in Nat /\ (S = 0 <=> I = 0) /\ s \in Nat /\ ONE \in Nat \ {0}
          /\ FarmAgrees(pool.farm, I)
      BY <1>1, ScaleAssumption, KvaultFieldsTyped
         DEF SourceInv, KvaultInv, VaultInv, VaultTyped, FarmInv
    <2>1. d = source_quote_deposit(pool, wv, net)
      BY QuoteOfTrade
    <2>2. d = Kvault!kvault_quote_deposit(pool, now, wv, net)
      BY <1>1, <2>1 DEF source_quote_deposit
    <2>3. amount \in Nat /\ net \in Nat /\ net <= amount
      BY <1>1, AmountsAssumption, NetAmount DEF VaultInv
    <2>4. g \in Nat \ {0} /\ c \in Nat \ {0} /\ (S # 0 => I * g <= c * S)
      BY <1>1, <2>1, DepositFacts
    <2>5. AssetsPaidIn(pool, now, wv, net, d)
      BY <2>0, <2>2, <2>3, DepositPaysIn
    <2>6. /\ T \in Nat /\ n \in Nat /\ n <= net
          /\ c = Kvault!get_shares_to_mint(T, n, s) /\ (s > 0 => T # 0)
          /\ m.cached_aum = Kvault!None /\ m.farm = Kvault!Staked(pool.farm, c)
          /\ Kvault!current_aum(m, now) = T + ONE * n
      BY <2>5 DEF AssetsPaidIn
    <2>7. KvaultHolds(m) /\ m.shares_issued = s + c
      BY <2>0, <2>2, <2>3, KvaultDepositHolds
    <2>8. u.wrapper_supply = S + g /\ u.intermediate_held = I + c
      BY <1>1, <2>0, VaultAfterTrade
    <2>9. w = Kvault!kvault_quote_withdraw(m, now, u, g) /\ WithdrawKeepsValue(u, g, w)
      <3>1. Deposited(pool, wv, d) = m
        BY <1>1 DEF Deposited
      <3>2. w = CheckedWithdraw(u, g, source_quote_withdraw(m, u, g))
        BY <3>1 DEF quote_withdraw
      <3> DEFINE z == source_quote_withdraw(m, u, g)
      <3>3. z = Kvault!kvault_quote_withdraw(m, now, u, g)
        BY <1>1 DEF source_quote_withdraw
      <3> HIDE DEF z, m, u, g
      <3> QED
        BY <3>2, <3>3 DEF CheckedWithdraw, z
    <2>10. FarmAgrees(Kvault!Staked(pool.farm, c), I + c)
      BY <2>0, <2>4, StakedAgrees
    <2> HIDE DEF m, u, T, net, S, I, s, g, c, n
    <2>11. u.intermediate_held \in Nat
      BY <2>0, <2>4, <2>8
    <2>12. Kvault!position_kvault_shares(m, u) = I + c
      <3> DEFINE D == IF m.farm.used THEN m.farm.idle ELSE 0
                 J == I + c
                 Q == S + g
      <3>1. /\ Kvault!position_kvault_shares(m, u) = J + D
            /\ D \in Nat /\ J \in Nat /\ Q \in Nat /\ g \in Nat
            /\ u.wrapper_supply = Q /\ u.intermediate_held = J
        BY <2>0, <2>4, <2>6, <2>8, <2>10, <2>11, PositionCounted DEF FarmAgrees
      <3> HIDE DEF D, J, Q
      <3>2. /\ g > 0 /\ g <= Q
            /\ w.redeemed = (g * (J + D)) \div Q /\ w.redeemed <= J
            /\ w.before = J + D /\ w.after = J - w.redeemed
        BY <2>9, <3>1
        DEF Kvault!kvault_quote_withdraw, Kvault!withdraw_at_aum, Kvault!pay_for_user,
            Kvault!pay_out, Kvault!kvault_shares_to_redeem, Kvault!Refused, Refused
      <3>3. no_value_per_share_loss(J + D, Q, J - w.redeemed, Q - g)
        BY <2>9, <3>1, <3>2 DEF WithdrawKeepsValue
      <3>4. D = 0
        BY <3>1, <3>2, <3>3, StrayCheck
      <3> QED
        BY <3>1, <3>4 DEF J
    <2>13. /\ b = (g * (I + c)) \div (S + g) /\ b \in Nat /\ p \in Nat
           /\ (s + c) * (ONE * p) <= b * (T + ONE * n)
      BY <2>0, <2>6, <2>7, <2>8, <2>9, <2>11, <2>12, PaysPartOfAssets
    <2>14. (S + g) * b <= g * (I + c)
      <3> DEFINE x == g * (I + c)
                 k == S + g
      <3>1. x \in Nat /\ k \in Nat \ {0}
        BY <2>0, <2>4, SMT
      <3>2. b = x \div k
        BY <2>13
      <3> HIDE DEF x, k, b
      <3>3. k * b <= x
        BY <3>1, <3>2, FloorBelow
      <3> QED
        BY <3>3 DEF x, k
    <2> HIDE DEF b, p
    <2>15. b <= c
      BY <2>0, <2>4, <2>13, <2>14, MintedRedeemBrought
    <2>16. s # 0 => c * T <= s * (ONE * n)
      <3> SUFFICES ASSUME s # 0 PROVE c * T <= s * (ONE * n)
        OBVIOUS
      <3>1. s \in Nat \ {0} /\ T # 0
        BY <2>0, <2>6
      <3> QED
        BY <2>4, <2>6, <3>1, SharesAreBought
    <2>17. s = 0 => T < ONE
      BY <1>1 DEF EmptyKeepsDust, s, T
    <2>20. /\ s \in Nat /\ T \in Nat /\ c \in Nat \ {0} /\ b \in Nat /\ b <= c
           /\ n \in Nat /\ p \in Nat
           /\ (s # 0 => c * T <= s * (ONE * n)) /\ (s = 0 => T < ONE)
           /\ (s + c) * (ONE * p) <= b * (T + ONE * n)
      BY <2>0, <2>4, <2>6, <2>13, <2>15, <2>16, <2>17
    <2>18. p <= n
      BY <2>20, PaidInCoversPaidOut
    <2>19. p <= amount
      BY <2>3, <2>6, <2>13, <2>18
    <2> QED
      BY <2>19 DEF p
  <1> QED
    BY <1>1, VaultInvHolds, SourceInvInit, SourceInvStep, KvaultInvHolds, PTL DEF Spec
=============================================================================
