-------------------------- MODULE RaydiumAmmProofs --------------------------
(***************************************************************************)
(* For every pool, fee and sequence of swaps, fetches and failed updates: an *)
(* initialised venue quotes, reserves fetched at one moment are the pool's   *)
(* of that moment, and the constant product never falls.  For any reserves a *)
(* venue can hold, of one moment or of several: the quotable inputs are an   *)
(* interval on which the output rises, the price brackets the rate, and an   *)
(* exact-out quote suffices when quoted forward.                             *)
(***************************************************************************)
EXTENDS RaydiumAmm, TLAPS

-----------------------------------------------------------------------------
(* Arithmetic *)

\* The division of the fee returns a number.
LEMMA CeilDivType ==
    ASSUME NEW a \in Nat, NEW b \in Nat \ {0}
    PROVE  checked_ceil_div(a, b) \in Nat
  <1>1. (a + b - 1) \div b \in Nat
    OBVIOUS
  <1> QED
    BY <1>1 DEF checked_ceil_div

\* A swap that adds at least the amount the output was computed for keeps the
\* constant product.
LEMMA BaseInKeepsProduct ==
    ASSUME NEW x \in Nat, NEW y \in Nat, NEW a \in Nat, NEW added \in Nat,
           a <= added, x + a # 0
    PROVE  LET out == swap_token_amount_base_in(a, x, y)
           IN  out \in Nat /\ out <= y /\ x * y <= (x + added) * (y - out)
  <1> DEFINE s == x + a
             out == (y * a) \div s
  <1>1. s \in Nat \ {0} /\ y * a \in Nat
    BY SMT
  <1>2. out \in Nat /\ s * out <= y * a
    BY <1>1, SMT
  <1>3. out <= y
    <2> SUFFICES ASSUME y < out PROVE FALSE
      BY <1>2, SMT
    <2> HIDE DEF out
    <2>1. s * (y + 1) <= s * out
      BY <1>1, <1>2, SMT
    <2>2. y * a < s * (y + 1)
      BY <1>1, SMT
    <2> QED
      BY <1>1, <1>2, <2>1, <2>2, SMT
  <1>4. x * y <= (x + added) * (y - out)
    <2> HIDE DEF out
    <2>1. s * (y - out) = x * y + (y * a - s * out)
      BY <1>1, <1>2, SMT
    <2>2. y - out \in Nat /\ s <= x + added
      BY <1>2, <1>3, SMT
    <2>3. s * (y - out) <= (x + added) * (y - out)
      BY <1>1, <2>2, SMT
    <2>4. s * out \in Int /\ x * y \in Int /\ s * (y - out) \in Int
      BY <1>1, <1>2, SMT
    <2> QED
      BY <1>1, <1>2, <2>1, <2>3, <2>4, SMT
  <1> QED
    BY <1>1, <1>2, <1>3, <1>4 DEF swap_token_amount_base_in

-----------------------------------------------------------------------------
(* States of the pool *)

\* New vault balances make a state of the pool.
LEMMA VaultsSet ==
    ASSUME NEW p \in Pool, NEW a \in Nat, NEW b \in Nat
    PROVE  LET q == WithVaults(p, a, b)
           IN  /\ q \in Pool
               /\ q.pc = a /\ q.coin = b
               /\ q.pnl_pc = p.pnl_pc /\ q.pnl_coin = p.pnl_coin
               /\ q.accruals = p.accruals /\ q.num = p.num /\ q.den = p.den
  BY DEF Pool, WithVaults

\* So does a new profit.
LEMMA PnlSet ==
    ASSUME NEW p \in Pool, NEW a \in Nat, NEW b \in Nat
    PROVE  LET q == WithPnl(p, a, b)
           IN  /\ q \in Pool
               /\ q.pc = p.pc /\ q.coin = p.coin
               /\ q.pnl_pc = a /\ q.pnl_coin = b
               /\ q.accruals = p.accruals /\ q.num = p.num /\ q.den = p.den
  BY DEF Pool, WithPnl

-----------------------------------------------------------------------------
(* The inductive invariant *)

\* A state of the pool owes no more profit than it holds.
Solvent(p) == p \in Pool /\ p.pnl_pc <= p.pc /\ p.pnl_coin <= p.coin

\* Later states of the pool have accrued at least as often, and have at least
\* the product if no more often.
Ordered ==
    \A i, j \in DOMAIN past : i < j =>
        /\ past[i].accruals <= past[j].accruals
        /\ past[i].accruals = past[j].accruals => Product(past[i]) <= Product(past[j])

PoolInv ==
    /\ past \in Seq(Pool) /\ Len(past) > 0
    /\ \A i \in DOMAIN past : Solvent(past[i])
    /\ Ordered

VenueInv ==
    /\ \A k \in Keys : cache[k] = NotCached \/ cache[k].at \in 1 .. Len(past)
    /\ calculate_result # None => read \in (1 .. Len(past)) \X (1 .. Len(past)) \X (1 .. Len(past))
    /\ OneMoment
    /\ found_all_pubkeys => calculate_result # None

Inv == PoolInv /\ VenueInv

-----------------------------------------------------------------------------
\* A positive output comes from the curve, for what the fee leaves.
LEMMA ExactInPays ==
    ASSUME NEW r, NEW d, NEW amount, exact_in(r, d, amount) > 0
    PROVE  /\ r.den # 0 /\ ~(swap_fee(r, amount) > amount)
           /\ exact_in(r, d, amount) =
                swap_token_amount_base_in(amount - swap_fee(r, amount), ReserveIn(r, d), ReserveOut(r, d))
  BY DEF exact_in, Err

\* A swap leaves the pool solvent and its product at least what it was.
LEMMA SwapStep ==
    ASSUME NEW p, Solvent(p), NEW d \in Directions, NEW amount \in Nat \ {0},
           exact_in(Reserves(p), d, amount) > 0
    PROVE  LET out == exact_in(Reserves(p), d, amount)
               q == IF d = "PC2Coin" THEN WithVaults(p, p.pc + amount, p.coin - out)
                    ELSE WithVaults(p, p.pc - out, p.coin + amount)
           IN  Solvent(q) /\ q.accruals = p.accruals /\ Product(p) <= Product(q)
  <1> DEFINE r == Reserves(p)
             fee == swap_fee(r, amount)
             a == amount - fee
             x == ReserveIn(r, d)
             y == ReserveOut(r, d)
             out == exact_in(r, d, amount)
             q == IF d = "PC2Coin" THEN WithVaults(p, p.pc + amount, p.coin - out)
                    ELSE WithVaults(p, p.pc - out, p.coin + amount)
  <1> SUFFICES Solvent(q) /\ q.accruals = p.accruals /\ Product(p) <= Product(q)
    OBVIOUS
  <1>1. r.pc \in Nat /\ r.coin \in Nat /\ r.num \in Nat /\ r.den \in Nat
    BY DEF Reserves, Solvent, Pool
  <1>2. r.den # 0 /\ ~(fee > amount) /\ out = swap_token_amount_base_in(a, x, y)
    BY ExactInPays
  <1>3. fee \in Nat
    <2>1. amount * r.num \in Nat
      BY <1>1, SMT
    <2> QED
      BY <1>1, <1>2, <2>1, CeilDivType DEF swap_fee
  <1>4. a \in Nat /\ a <= amount
    BY <1>2, <1>3
  <1>5. x \in Nat /\ y \in Nat
    BY <1>1 DEF ReserveIn, ReserveOut
  <1>6. x + a # 0
    BY <1>2 DEF swap_token_amount_base_in, Panic
  <1>7. out \in Nat /\ out <= y /\ x * y <= (x + amount) * (y - out)
    <2> HIDE DEF a, x, y, r, fee, out
    <2> QED
      BY <1>2, <1>4, <1>5, <1>6, BaseInKeepsProduct
  <1> HIDE DEF out
  <1>8. CASE d = "PC2Coin"
    <2>1. x = p.pc - p.pnl_pc /\ y = p.coin - p.pnl_coin
      BY <1>8 DEF Reserves, ReserveIn, ReserveOut
    <2>3. /\ p \in Pool /\ p.pc \in Nat /\ p.coin \in Nat
          /\ p.pnl_pc \in Nat /\ p.pnl_coin \in Nat
          /\ p.pnl_pc <= p.pc /\ p.pnl_coin <= p.coin
      BY DEF Solvent, Pool
    <2> DEFINE newPc == p.pc + amount
               newCoin == p.coin - out
    <2>2. q = WithVaults(p, newPc, newCoin)
      BY <1>8
    <2>4. /\ newPc \in Nat /\ newCoin \in Nat
          /\ p.pnl_pc <= newPc /\ p.pnl_coin <= newCoin
      <3> HIDE DEF x, y
      <3> QED
        BY <1>5, <1>7, <2>1, <2>3
    <2>5. /\ q \in Pool
          /\ q.pc = newPc /\ q.coin = newCoin
          /\ q.pnl_pc = p.pnl_pc /\ q.pnl_coin = p.pnl_coin /\ q.accruals = p.accruals
      <3> DEFINE w == WithVaults(p, newPc, newCoin)
      <3>1. p \in Pool /\ newPc \in Nat /\ newCoin \in Nat
        BY <2>3, <2>4
      <3> HIDE DEF newPc, newCoin
      <3>2. /\ w \in Pool
            /\ w.pc = newPc /\ w.coin = newCoin
            /\ w.pnl_pc = p.pnl_pc /\ w.pnl_coin = p.pnl_coin /\ w.accruals = p.accruals
        BY <3>1, VaultsSet
      <3>3. q = w
        BY <2>2
      <3> HIDE DEF q, w
      <3> QED
        BY <3>2, <3>3
    <2>6. Solvent(q)
      <3> HIDE DEF q, newPc, newCoin
      <3> QED
        BY <2>4, <2>5 DEF Solvent
    <2>7. Reserves(q).pc = x + amount /\ Reserves(q).coin = y - out
      <3> HIDE DEF q, x, y, r
      <3> QED
        BY <1>5, <1>7, <2>1, <2>3, <2>5 DEF Reserves
    <2>8. Product(p) = x * y /\ Product(q) = (x + amount) * (y - out)
      <3> HIDE DEF q, x, y, r
      <3> QED
        BY <2>1, <2>7 DEF Product, Reserves
    <2> QED
      <3> HIDE DEF q, x, y, r
      <3> QED
        BY <1>7, <2>5, <2>6, <2>8
  <1>9. CASE d = "Coin2PC"
    <2>1. x = p.coin - p.pnl_coin /\ y = p.pc - p.pnl_pc
      BY <1>9 DEF Reserves, ReserveIn, ReserveOut
    <2>3. /\ p \in Pool /\ p.pc \in Nat /\ p.coin \in Nat
          /\ p.pnl_pc \in Nat /\ p.pnl_coin \in Nat
          /\ p.pnl_pc <= p.pc /\ p.pnl_coin <= p.coin
      BY DEF Solvent, Pool
    <2> DEFINE newPc == p.pc - out
               newCoin == p.coin + amount
    <2>2. q = WithVaults(p, newPc, newCoin)
      BY <1>9
    <2>4. /\ newPc \in Nat /\ newCoin \in Nat
          /\ p.pnl_pc <= newPc /\ p.pnl_coin <= newCoin
      <3> HIDE DEF x, y
      <3> QED
        BY <1>5, <1>7, <2>1, <2>3
    <2>5. /\ q \in Pool
          /\ q.pc = newPc /\ q.coin = newCoin
          /\ q.pnl_pc = p.pnl_pc /\ q.pnl_coin = p.pnl_coin /\ q.accruals = p.accruals
      <3> DEFINE w == WithVaults(p, newPc, newCoin)
      <3>1. p \in Pool /\ newPc \in Nat /\ newCoin \in Nat
        BY <2>3, <2>4
      <3> HIDE DEF newPc, newCoin
      <3>2. /\ w \in Pool
            /\ w.pc = newPc /\ w.coin = newCoin
            /\ w.pnl_pc = p.pnl_pc /\ w.pnl_coin = p.pnl_coin /\ w.accruals = p.accruals
        BY <3>1, VaultsSet
      <3>3. q = w
        BY <2>2
      <3> HIDE DEF q, w
      <3> QED
        BY <3>2, <3>3
    <2>6. Solvent(q)
      <3> HIDE DEF q, newPc, newCoin
      <3> QED
        BY <2>4, <2>5 DEF Solvent
    <2>7. Reserves(q).coin = x + amount /\ Reserves(q).pc = y - out
      <3> HIDE DEF q, x, y, r
      <3> QED
        BY <1>5, <1>7, <2>1, <2>3, <2>5 DEF Reserves
    <2>8. Product(p) = y * x /\ Product(q) = (y - out) * (x + amount)
      <3> HIDE DEF q, x, y, r
      <3> QED
        BY <2>1, <2>7 DEF Product, Reserves
    <2>9. y * x = x * y /\ (y - out) * (x + amount) = (x + amount) * (y - out)
      <3> HIDE DEF x, y
      <3> QED
        BY <1>5, <1>7, SMT
    <2> QED
      <3> HIDE DEF q, x, y, r
      <3> QED
        BY <1>7, <2>5, <2>6, <2>8, <2>9
  <1> QED
    BY <1>8, <1>9 DEF Directions

\* A state that is solvent, and follows the last one in the order, extends the
\* history; what the venue read stays what it was.
LEMMA ChangeStep ==
    ASSUME Inv, NEW p, Changes(p), Solvent(p),
           Now.accruals <= p.accruals,
           Now.accruals = p.accruals => Product(Now) <= Product(p)
    PROVE  Inv'
  <1> DEFINE n == Len(past)
  <1>1. n \in Nat /\ n > 0 /\ past' \in Seq(Pool) /\ Len(past') = n + 1
    BY DEF Inv, PoolInv, Changes, Solvent
  <1>2. /\ past'[n + 1] = p
        /\ \A i \in 1 .. n : past'[i] = past[i]
        /\ DOMAIN past = 1 .. n /\ DOMAIN past' = 1 .. n + 1
    BY <1>1 DEF Inv, PoolInv, Changes, Solvent
  <1>3. \A i \in 1 .. n + 1 : Solvent(past'[i])
    BY <1>1, <1>2 DEF Inv, PoolInv
  <1>4. \A i \in 1 .. n + 1 : past'[i].accruals \in Nat /\ Product(past'[i]) \in Int
    <2> SUFFICES ASSUME NEW i \in 1 .. n + 1
                 PROVE  past'[i].accruals \in Nat /\ Product(past'[i]) \in Int
      OBVIOUS
    <2> DEFINE s == past'[i]
    <2>0. Solvent(s)
      BY <1>3
    <2> HIDE DEF s
    <2>1. s.pc - s.pnl_pc \in Int /\ s.coin - s.pnl_coin \in Int /\ s.accruals \in Nat
      BY <2>0 DEF Solvent, Pool
    <2>2. (s.pc - s.pnl_pc) * (s.coin - s.pnl_coin) \in Int
      BY <2>1, SMT
    <2> QED
      BY <2>1, <2>2 DEF Product, Reserves, s
  <1>5. Ordered'
    <2> SUFFICES ASSUME NEW i \in 1 .. n + 1, NEW j \in 1 .. n + 1, i < j
                 PROVE  /\ past'[i].accruals <= past'[j].accruals
                        /\ past'[i].accruals = past'[j].accruals
                             => Product(past'[i]) <= Product(past'[j])
      BY <1>2 DEF Ordered, Product, Reserves
    <2>1. CASE j <= n
      BY <1>1, <1>2, <2>1 DEF Inv, PoolInv, Ordered
    <2>2. CASE j = n + 1 /\ i = n
      BY <1>1, <1>2, <2>2 DEF Now
    <2>3. CASE j = n + 1 /\ i < n
      <3>1. /\ past'[i].accruals <= past'[n].accruals
            /\ past'[i].accruals = past'[n].accruals => Product(past'[i]) <= Product(past'[n])
        BY <1>1, <1>2, <2>3 DEF Inv, PoolInv, Ordered
      <3>2. /\ past'[n].accruals <= past'[j].accruals
            /\ past'[n].accruals = past'[j].accruals => Product(past'[n]) <= Product(past'[j])
        BY <1>1, <1>2, <2>3 DEF Now
      <3>3. n \in 1 .. n + 1
        BY <1>1
      <3> QED
        BY <1>4, <3>1, <3>2, <3>3
    <2> QED
      BY <1>1, <2>1, <2>2, <2>3
  <1>6. PoolInv'
    BY <1>1, <1>2, <1>3, <1>5 DEF PoolInv
  <1>7. UNCHANGED <<cache, venue>>
    BY DEF Changes
  <1>8. OneMoment'
    <2> SUFFICES ASSUME calculate_result # None, read[1] = read[2], read[2] = read[3]
                 PROVE  calculate_result = Reserves(past'[read[1]])
      BY <1>7 DEF OneMoment, venue, Reserves
    <2>1. read[1] \in 1 .. n
      BY DEF Inv, VenueInv
    <2> QED
      BY <1>2, <2>1 DEF Inv, VenueInv, OneMoment
  <1>9. VenueInv'
    <2>1. \A m \in 1 .. n : m \in 1 .. n + 1
      BY <1>1
    <2> QED
      BY <1>1, <1>7, <1>8, <2>1 DEF Inv, VenueInv, venue
  <1> QED
    BY <1>6, <1>9 DEF Inv

-----------------------------------------------------------------------------
\* An update keeps the invariant whatever accounts it gets.
LEMMA UpdateStep ==
    ASSUME Inv, UpdateState
    PROVE  Inv'
  <1>1. PICK is \in Replies :
          LET got == get_accounts(is)
              result == calculate_pool_vault_amounts(got)
          IN  /\ cache' = got
              /\ calculate_result' = IF result = None THEN calculate_result ELSE result
              /\ read' = IF result = None THEN read
                         ELSE <<got["pool"].at, got["pc_vault"].at, got["coin_vault"].at>>
              /\ found_all_pubkeys' =
                   (found_all_pubkeys \/ (result # None /\ got["mints"].is # "bad"))
              /\ UNCHANGED past
    BY DEF UpdateState
  <1> DEFINE got == get_accounts(is)
             result == calculate_pool_vault_amounts(got)
             n == Len(past)
  <1>2. n \in Nat /\ n \in 1 .. n
    BY DEF Inv, PoolInv
  <1>3. \A k \in Keys : got[k].at \in 1 .. n
    BY <1>2 DEF Inv, VenueInv, get_accounts
  <1>4. {"pool", "pc_vault", "coin_vault", "mints"} = Keys
    BY DEF Keys
  <1>5. PoolInv'
    BY <1>1 DEF Inv, PoolInv, Ordered, Product, Reserves
  <1>6. CASE result = None
    <2>1. /\ calculate_result' = calculate_result /\ read' = read
          /\ past' = past /\ cache' = got
      BY <1>1, <1>6
    <2>0. found_all_pubkeys' => found_all_pubkeys
      BY <1>1, <1>6
    <2>2. OneMoment'
      BY <2>1 DEF Inv, VenueInv, OneMoment, Reserves
    <2>3. VenueInv'
      BY <1>3, <2>0, <2>1, <2>2 DEF Inv, VenueInv
    <2> QED
      BY <1>5, <2>3 DEF Inv
  <1>7. CASE result # None
    <2>1. /\ calculate_result' = result /\ past' = past /\ cache' = got
          /\ read' = <<got["pool"].at, got["pc_vault"].at, got["coin_vault"].at>>
      BY <1>1, <1>7
    <2>2. ASSUME got["pool"].at = got["pc_vault"].at, got["pc_vault"].at = got["coin_vault"].at
          PROVE  result = Reserves(past[got["pool"].at])
      BY <1>7, <2>2 DEF calculate_pool_vault_amounts, calc_total_without_take_pnl, Reserves
    <2>3. OneMoment'
      <3> HIDE DEF got, result
      <3> QED
        BY <2>1, <2>2 DEF OneMoment, Reserves
    <2>4. read' \in (1 .. n) \X (1 .. n) \X (1 .. n)
      <3> HIDE DEF got
      <3> QED
        BY <1>3, <1>4, <2>1
    <2>5. VenueInv'
      <3> HIDE DEF got, result
      <3> QED
        BY <1>3, <1>7, <2>1, <2>3, <2>4 DEF VenueInv
    <2> QED
      BY <1>5, <2>5 DEF Inv
  <1> QED
    BY <1>6, <1>7

\* So does an update that panics: the venue keeps its reserves.
LEMMA UpdatePanicsStep ==
    ASSUME Inv, UpdateStatePanics
    PROVE  Inv'
  <1>1. PICK is \in Replies :
          /\ cache' = get_accounts(is)
          /\ UNCHANGED <<past, calculate_result, found_all_pubkeys, read>>
    BY DEF UpdateStatePanics
  <1>2. \A k \in Keys : get_accounts(is)[k].at \in 1 .. Len(past)
    BY DEF Inv, PoolInv, VenueInv, get_accounts
  <1>3. PoolInv'
    BY <1>1 DEF Inv, PoolInv, Ordered, Product, Reserves
  <1>4. OneMoment'
    BY <1>1 DEF Inv, VenueInv, OneMoment, Reserves
  <1>5. VenueInv'
    BY <1>1, <1>2, <1>4 DEF Inv, VenueInv
  <1> QED
    BY <1>3, <1>5 DEF Inv

\* Every step keeps the invariant.
LEMMA InvStep == Inv /\ [Next]_vars => Inv'
  <1> SUFFICES ASSUME Inv, [Next]_vars PROVE Inv'
    OBVIOUS
  <1>0. Solvent(Now) /\ Len(past) \in 1 .. Len(past)
    BY DEF Inv, PoolInv, Now
  <1>1. CASE UpdateState
    BY <1>1, UpdateStep
  <1>9. CASE UpdateStatePanics
    BY <1>9, UpdatePanicsStep
  <1>2. CASE \E k \in Prefetched : Prefetch(k)
    BY <1>0, <1>2 DEF Prefetch, Inv, PoolInv, VenueInv, Ordered, OneMoment, Product, Reserves, venue
  <1>3. CASE ResetCache
    BY <1>3 DEF ResetCache, Inv, PoolInv, VenueInv, Ordered, OneMoment, Product, Reserves, venue
  <1>4. CASE \E d \in Directions, amount \in Trades : ProgramSwap(d, amount)
    <2> PICK d \in Directions, amount \in Trades : ProgramSwap(d, amount)
      BY <1>4
    <2>1. amount \in Nat \ {0}
      BY TradesAssumption
    <2> DEFINE out == exact_in(Reserves(Now), d, amount)
               q == IF d = "PC2Coin" THEN WithVaults(Now, Now.pc + amount, Now.coin - out)
                    ELSE WithVaults(Now, Now.pc - out, Now.coin + amount)
    <2>2. out > 0 /\ Changes(q)
      BY DEF ProgramSwap
    <2>3. Solvent(q) /\ q.accruals = Now.accruals /\ Product(Now) <= Product(q)
      BY <1>0, <2>1, <2>2, SwapStep
    <2>4. Now.accruals \in Nat
      BY <1>0 DEF Solvent, Pool
    <2> HIDE DEF q
    <2> QED
      BY <2>2, <2>3, <2>4, ChangeStep
  <1>5. CASE AccruePnl
    <2> DEFINE a == Now.pnl_pc + 1
               b == Now.pnl_coin + 1
               w == WithPnl(Now, a, b)
               q == [w EXCEPT !.accruals = @ + 1]
    <2>1. Changes(q)
      BY <1>5 DEF AccruePnl
    <2>2. /\ Now \in Pool /\ a \in Nat /\ b \in Nat /\ Now.accruals \in Nat
          /\ a <= Now.pc /\ b <= Now.coin
      BY <1>0, <1>5 DEF Solvent, Pool, AccruePnl
    <2>3. /\ w \in Pool /\ w.pc = Now.pc /\ w.coin = Now.coin
          /\ w.pnl_pc = a /\ w.pnl_coin = b /\ w.accruals = Now.accruals
      <3> HIDE DEF a, b
      <3> QED
        BY <2>2, PnlSet
    <2>4. Solvent(q) /\ q.accruals = Now.accruals + 1
      <3> HIDE DEF w, a, b
      <3> QED
        BY <2>2, <2>3 DEF Solvent, Pool
    <2> HIDE DEF q
    <2> QED
      BY <2>1, <2>2, <2>4, ChangeStep
  <1>6. CASE TakePnl
    <2> DEFINE a == Now.pc - Now.pnl_pc
               b == Now.coin - Now.pnl_coin
               w == WithVaults(Now, a, b)
               q == WithPnl(w, 0, 0)
    <2>1. Changes(q)
      BY <1>6 DEF TakePnl
    <2>0. Now \in Pool /\ Now.accruals \in Nat /\ a \in Nat /\ b \in Nat
      BY <1>0 DEF Solvent, Pool
    <2>5. /\ q \in Pool
          /\ q.pc = a /\ q.coin = b /\ q.pnl_pc = 0 /\ q.pnl_coin = 0
          /\ q.accruals = Now.accruals /\ q.num = Now.num /\ q.den = Now.den
      <3> HIDE DEF a, b
      <3>1. /\ w \in Pool /\ w.pc = a /\ w.coin = b
            /\ w.accruals = Now.accruals /\ w.num = Now.num /\ w.den = Now.den
        BY <2>0, VaultsSet
      <3> HIDE DEF w
      <3>2. /\ q \in Pool /\ q.pc = w.pc /\ q.coin = w.coin
            /\ q.pnl_pc = 0 /\ q.pnl_coin = 0
            /\ q.accruals = w.accruals /\ q.num = w.num /\ q.den = w.den
        BY <3>1, PnlSet
      <3> HIDE DEF q
      <3> QED
        BY <3>1, <3>2
    <2>2. Solvent(q) /\ q.accruals = Now.accruals /\ Now.accruals \in Nat
      <3> HIDE DEF a, b, q
      <3> QED
        BY <2>0, <2>5 DEF Solvent
    <2>3. Reserves(q) = Reserves(Now)
      <3>1. Reserves(q) = [pc |-> a - 0, coin |-> b - 0, num |-> Now.num, den |-> Now.den]
        <4> HIDE DEF a, b, q
        <4> QED
          BY <2>5 DEF Reserves
      <3> QED
        BY <2>0, <3>1 DEF Reserves
    <2>4. Product(q) = Product(Now) /\ Product(Now) \in Int
      <3>1. Reserves(Now).pc \in Int /\ Reserves(Now).coin \in Int
        BY <1>0 DEF Solvent, Pool, Reserves
      <3>2. Reserves(Now).pc * Reserves(Now).coin \in Int
        BY <3>1, SMT
      <3> QED
        BY <2>3, <3>2 DEF Product
    <2> HIDE DEF q
    <2> QED
      BY <2>1, <2>2, <2>4, ChangeStep
  <1>7. CASE SetStatus
    <2> PICK s \in {"SwapOnly", "OrderBookOnly"} : Changes([Now EXCEPT !.status = s])
      BY <1>7 DEF SetStatus
    <2> DEFINE q == [Now EXCEPT !.status = s]
    <2>2. Solvent(q) /\ q.accruals = Now.accruals /\ Now.accruals \in Nat
      BY <1>0 DEF Solvent, Pool, Statuses
    <2>3. Reserves(q) = Reserves(Now)
      BY <1>0 DEF Solvent, Pool, Reserves
    <2>4. Product(q) = Product(Now) /\ Product(Now) \in Int
      <3>1. Reserves(Now).pc \in Int /\ Reserves(Now).coin \in Int
        BY <1>0 DEF Solvent, Pool, Reserves
      <3>2. Reserves(Now).pc * Reserves(Now).coin \in Int
        BY <3>1, SMT
      <3> QED
        BY <2>3, <3>2 DEF Product
    <2>5. Changes(q)
      OBVIOUS
    <2> HIDE DEF q
    <2> QED
      BY <2>2, <2>4, <2>5, ChangeStep
  <1>8. CASE UNCHANGED vars
    BY <1>8 DEF vars, Inv, PoolInv, VenueInv, Ordered, OneMoment, Product, Reserves, venue
  <1> QED
    BY <1>1, <1>2, <1>3, <1>4, <1>5, <1>6, <1>7, <1>8, <1>9 DEF Next

\* The venue as from_account builds it satisfies the invariant.
LEMMA InvInit == Init => Inv
  <1> SUFFICES ASSUME Init PROVE Inv
    OBVIOUS
  <1>1. PICK p \in InitialPools : past = <<p>>
    BY DEF Init
  <1>2. Solvent(p)
    BY PoolsAssumption DEF Solvent
  <1>3. past \in Seq(Pool) /\ Len(past) = 1 /\ past[1] = p /\ DOMAIN past = {1}
    BY <1>1, <1>2 DEF Solvent
  <1>4. PoolInv
    BY <1>2, <1>3 DEF PoolInv, Ordered
  <1>5. VenueInv
    BY DEF Init, VenueInv, OneMoment
  <1> QED
    BY <1>4, <1>5 DEF Inv

\* The inductive invariant holds of every behaviour.
THEOREM InvHolds == Spec => []Inv
  BY InvInit, InvStep, PTL DEF Spec

\* Reserves read at one moment are the pool's of that moment.
THEOREM OneMomentHolds == Spec => []OneMoment
  <1>1. Inv => OneMoment
    BY DEF Inv, VenueInv
  <1> QED
    BY <1>1, InvHolds, PTL

\* No sequence of swaps, of any amounts and at any fee, lowers the product.
THEOREM ProductNeverFallsHolds == Spec => []ProductNeverFalls
  <1>1. Inv => ProductNeverFalls
    BY DEF Inv, PoolInv, Ordered, ProductNeverFalls
  <1> QED
    BY <1>1, InvHolds, PTL

-----------------------------------------------------------------------------
(* The shape of the quotes: arithmetic *)

\* The division that rounds a small quotient to the nearest number and any
\* other up: where it is positive it is the quotient rounded up.
LEMMA CeilDivFacts ==
    ASSUME NEW a \in Nat, NEW b \in Nat \ {0}
    PROVE  LET q == checked_ceil_div(a, b)
           IN  /\ q \in Nat
               /\ q = 0 <=> 2 * a < b
               /\ q > 0 => a <= b * q /\ b * (q - 1) < a
  <1> DEFINE c == (a + b - 1) \div b
  <1>1. c \in Nat /\ b * c <= a + b - 1 /\ a + b - 1 < b * c + b
    BY SMT
  <1>2. CASE a < b
    <2>1. checked_ceil_div(a, b) = IF 2 * a >= b THEN 1 ELSE 0
      BY <1>2 DEF checked_ceil_div
    <2> QED
      BY <1>2, <2>1
  <1>3. CASE ~(a < b)
    <2>1. checked_ceil_div(a, b) = c
      BY <1>3 DEF checked_ceil_div
    <2> HIDE DEF c
    <2>2. b * (c - 1) = b * c - b /\ b * c \in Nat
      BY <1>1, SMT
    <2>3. c > 0
      <3>1. c = 0 => b * c = 0
        BY SMT
      <3> QED
        BY <1>1, <1>3, <2>2, <3>1
    <2> QED
      BY <1>1, <1>3, <2>1, <2>2, <2>3
  <1> QED
    BY <1>2, <1>3

\* It does not fall as its dividend grows.
LEMMA CeilDivMono ==
    ASSUME NEW a \in Nat, NEW c \in Nat, NEW b \in Nat \ {0}, a <= c
    PROVE  checked_ceil_div(a, b) <= checked_ceil_div(c, b)
  <1> DEFINE p == checked_ceil_div(a, b)
             q == checked_ceil_div(c, b)
  <1>1. /\ p \in Nat /\ (p = 0 <=> 2 * a < b) /\ (p > 0 => b * (p - 1) < a)
    BY CeilDivFacts
  <1>2. /\ q \in Nat /\ (q = 0 <=> 2 * c < b) /\ (q > 0 => c <= b * q)
    BY CeilDivFacts
  <1> HIDE DEF p, q
  <1> SUFFICES ASSUME q < p PROVE FALSE
    BY <1>1, <1>2 DEF p, q
  <1>3. q > 0
    BY <1>1, <1>2
  <1>4. b * q <= b * (p - 1)
    BY <1>1, <1>2, SMT
  <1>5. b * q \in Int /\ b * (p - 1) \in Int
    BY <1>1, <1>2, SMT
  <1> QED
    BY <1>1, <1>2, <1>3, <1>4, <1>5

\* What the fee leaves does not fall as the amount grows.
LEMMA KeptMono ==
    ASSUME NEW s \in Nat, NEW t \in Nat, s <= t, NEW num \in Nat, NEW den \in Nat \ {0}, num <= den,
           NEW f \in Nat, NEW g \in Nat, s * num <= den * f, den * (g - 1) < t * num
    PROVE  s - f <= t - g
  <1> SUFFICES ASSUME t - g < s - f PROVE FALSE
    OBVIOUS
  <1>1. t - s + f <= g - 1
    OBVIOUS
  <1>2. den * (t - s) + den * f <= den * (g - 1)
    <2>1. den * (t - s + f) <= den * (g - 1)
      BY <1>1, SMT
    <2>2. den * (t - s + f) = den * (t - s) + den * f
      BY SMT
    <2> QED
      BY <2>1, <2>2
  <1>3. num * (t - s) <= den * (t - s)
    BY SMT
  <1>4. num * (t - s) = t * num - s * num
    BY SMT
  <1>5. /\ den * (t - s) \in Int /\ den * f \in Int /\ den * (g - 1) \in Int
        /\ t * num \in Int /\ s * num \in Int /\ num * (t - s) \in Int
    BY SMT
  <1> QED
    BY <1>2, <1>3, <1>4, <1>5

\* The curve does not fall.
LEMMA CurveMono ==
    ASSUME NEW x \in Nat, NEW y \in Nat, NEW a \in Nat, NEW b \in Nat, a <= b, x + a # 0
    PROVE  /\ (y * a) \div (x + a) \in Nat
           /\ (y * a) \div (x + a) <= (y * b) \div (x + b)
  <1> DEFINE o == (y * a) \div (x + a)
             p == (y * b) \div (x + b)
  <1>1. x + a \in Nat \ {0} /\ x + b \in Nat \ {0} /\ y * a \in Nat /\ y * b \in Nat
    BY SMT
  <1>2. o \in Nat /\ o * (x + a) <= y * a
    BY <1>1, SMT
  <1>3. p \in Nat /\ y * b < (p + 1) * (x + b)
    BY <1>1, SMT
  <1>4. o <= y
    BY BaseInKeepsProduct DEF swap_token_amount_base_in
  <1> HIDE DEF o, p
  <1> SUFFICES ASSUME p < o PROVE FALSE
    BY <1>2, <1>3 DEF o, p
  <1>5. o * x <= (y - o) * a
    <2>1. o * (x + a) = o * x + o * a /\ (y - o) * a = y * a - o * a
      BY <1>2, SMT
    <2>2. o * x \in Int /\ o * a \in Int
      BY <1>2, SMT
    <2> QED
      BY <1>1, <1>2, <2>1, <2>2
  <1>6. (y - o) * a <= (y - o) * b
    BY <1>2, <1>4, SMT
  <1>7. o * (x + b) <= y * b
    <2>1. o * (x + b) = o * x + o * b /\ (y - o) * b = y * b - o * b
      BY <1>2, SMT
    <2>2. o * x \in Int /\ o * b \in Int /\ (y - o) * a \in Int
      BY <1>2, SMT
    <2> QED
      BY <1>1, <1>5, <1>6, <2>1, <2>2
  <1>8. (p + 1) * (x + b) <= o * (x + b)
    BY <1>1, <1>2, <1>3, SMT
  <1>9. (p + 1) * (x + b) \in Int /\ o * (x + b) \in Int
    BY <1>1, <1>2, <1>3, SMT
  <1> QED
    BY <1>1, <1>3, <1>7, <1>8, <1>9

-----------------------------------------------------------------------------
(* The second layer: types, and a fee below one half *)

\* A fee below one half, as Raydium's is; no fee was ever set if den is 0.
FeeSmall(r) == r.den = 0 \/ 2 * r.num < r.den

TInv ==
    /\ TypeOK
    /\ \A i \in DOMAIN past : FeeSmall(past[i])
    /\ calculate_result # None => FeeSmall(calculate_result)

\* A sequence over a set is one over a larger set.
LEMMA SeqMono ==
    ASSUME NEW S, NEW T, S \subseteq T, NEW s \in Seq(S)
    PROVE  s \in Seq(T)
  OBVIOUS

\* A new state of the pool with the same fee keeps the second layer.
LEMMA ChangeTyped ==
    ASSUME TInv, NEW p \in Pool, Changes(p), p.num = Now.num, p.den = Now.den
    PROVE  TInv'
  <1> DEFINE n == Len(past)
  <1>1. past \in Seq(Pool) /\ n \in Nat /\ n > 0 /\ DOMAIN past = 1 .. n
    BY DEF TInv, TypeOK
  <1>2. past' \in Seq(Pool) /\ Len(past') = n + 1 /\ DOMAIN past' = 1 .. n + 1
        /\ past'[n + 1] = p /\ \A i \in 1 .. n : past'[i] = past[i]
    BY <1>1 DEF Changes
  <1>3. UNCHANGED <<cache, calculate_result, pc_balance, coin_balance, token_info,
                    found_all_pubkeys, read>>
    BY DEF Changes, venue
  <1>4. FeeSmall(p)
    <2>1. FeeSmall(past[n])
      BY <1>1 DEF TInv
    <2> QED
      BY <2>1 DEF FeeSmall, Now
  <1>5. \A i \in DOMAIN past' : FeeSmall(past'[i])
    BY <1>1, <1>2, <1>4 DEF TInv
  <1>6. 1 .. n \subseteq 1 .. n + 1
    BY <1>1
  <1>7. Entries \subseteq Entries'
    BY <1>2, <1>6 DEF Entries
  <1>8. cache' \in [Keys -> Entries']
    BY <1>3, <1>7 DEF TInv, TypeOK
  <1>9. read' \in Seq(1 .. Len(past'))
    BY <1>2, <1>3, <1>6, SeqMono DEF TInv, TypeOK
  <1> QED
    BY <1>1, <1>2, <1>3, <1>5, <1>8, <1>9 DEF TInv, TypeOK, FeeSmall

\* The accounts an update gets are of states the pool has been in.
LEMMA GotTyped ==
    ASSUME TInv, NEW is \in Replies
    PROVE  /\ get_accounts(is) \in [Keys -> [at : 1 .. Len(past), is : Answers]]
           /\ get_accounts(is) \in [Keys -> Entries]
  <1> DEFINE n == Len(past)
             Entry == [at : 1 .. n, is : Answers]
  <1>1. n \in 1 .. n
    BY DEF TInv, TypeOK
  <1>2. ASSUME NEW k \in Keys
        PROVE  (IF cache[k] = NotCached THEN [at |-> n, is |-> is[k]] ELSE cache[k]) \in Entry
    <2>1. cache[k] \in Entry \cup {NotCached}
      BY DEF TInv, TypeOK, Entries
    <2>2. is[k] \in Answers
      BY DEF Replies
    <2> QED
      BY <1>1, <2>1, <2>2
  <1> QED
    BY <1>2 DEF get_accounts, Entries

\* A balance is a number whatever the bytes it was read from.
LEMMA BalancesTyped ==
    ASSUME NEW entry, NEW old \in Nat, NEW amount \in Nat,
           NEW b \in Balances(entry, old, amount)
    PROVE  b \in Nat
  <1>1. CASE entry.is = "found"
    BY <1>1 DEF Balances
  <1>2. CASE entry.is = "bad"
    BY <1>2, JunkAssumption DEF Balances
  <1>3. CASE entry.is # "found" /\ entry.is # "bad"
    BY <1>3 DEF Balances
  <1> QED
    BY <1>1, <1>2, <1>3

\* An update reads what some state of the pool held, never a negative reserve.
LEMMA UpdateTyped ==
    ASSUME Inv, TInv, UpdateState
    PROVE  TInv'
  <1> DEFINE n == Len(past)
  <1>1. PICK is \in Replies :
          LET got == get_accounts(is)
              result == calculate_pool_vault_amounts(got)
          IN  /\ cache' = got
              /\ pc_balance' \in Balances(got["pc_vault"], pc_balance, past[got["pc_vault"].at].pc)
              /\ coin_balance' \in Balances(got["coin_vault"], coin_balance,
                                           past[got["coin_vault"].at].coin)
              /\ calculate_result' = IF result = None THEN calculate_result ELSE result
              /\ read' = IF result = None THEN read
                         ELSE <<got["pool"].at, got["pc_vault"].at, got["coin_vault"].at>>
              /\ token_info' = (token_info \/ (result # None /\ got["mints"].is = "found"))
              /\ found_all_pubkeys' =
                   (found_all_pubkeys \/ (result # None /\ got["mints"].is # "bad"))
              /\ UNCHANGED past
    BY DEF UpdateState
  <1> DEFINE got == get_accounts(is)
             result == calculate_pool_vault_amounts(got)
             Entry == [at : 1 .. n, is : Answers]
  <1>2. past \in Seq(Pool) /\ n \in 1 .. n /\ DOMAIN past = 1 .. n /\ \A i \in 1 .. n : past[i] \in Pool
    BY DEF TInv, TypeOK
  <1>3. got \in [Keys -> Entry] /\ got \in [Keys -> Entries]
    BY GotTyped
  <1>4. got["pool"] \in Entry /\ got["pc_vault"] \in Entry /\ got["coin_vault"] \in Entry
    BY <1>3 DEF Keys
  <1> HIDE DEF got
  <1>5. /\ past[got["pool"].at] \in Pool /\ past[got["pc_vault"].at] \in Pool
        /\ past[got["coin_vault"].at] \in Pool
    BY <1>2, <1>4
  <1>6. cache' \in [Keys -> Entries']
    BY <1>1, <1>3 DEF got, Entries
  <1>7. pc_balance' \in Nat /\ coin_balance' \in Nat
    <2>1. past[got["pc_vault"].at].pc \in Nat /\ past[got["coin_vault"].at].coin \in Nat
      BY <1>5 DEF Pool
    <2>2. pc_balance \in Nat /\ coin_balance \in Nat
      BY DEF TInv, TypeOK
    <2>3. /\ pc_balance' \in Balances(got["pc_vault"], pc_balance, past[got["pc_vault"].at].pc)
          /\ coin_balance' \in Balances(got["coin_vault"], coin_balance, past[got["coin_vault"].at].coin)
      BY <1>1 DEF got
    <2> QED
      BY <2>1, <2>2, <2>3, BalancesTyped
  <1>8. result # None => result \in CalculateResult /\ FeeSmall(result)
    <2> SUFFICES ASSUME result # None PROVE result \in CalculateResult /\ FeeSmall(result)
      OBVIOUS
    <2> DEFINE amm == past[got["pool"].at]
               a == past[got["pc_vault"].at].pc
               b == past[got["coin_vault"].at].coin
    <2>1. /\ result = [pc |-> a - amm.pnl_pc, coin |-> b - amm.pnl_coin,
                       num |-> amm.num, den |-> amm.den]
          /\ ~(a - amm.pnl_pc < 0) /\ ~(b - amm.pnl_coin < 0)
      BY DEF calculate_pool_vault_amounts, calc_total_without_take_pnl
    <2>2. /\ a \in Nat /\ b \in Nat /\ amm.pnl_pc \in Nat /\ amm.pnl_coin \in Nat
          /\ amm.num \in Nat /\ amm.den \in Nat
      BY <1>5 DEF Pool
    <2>3. FeeSmall(amm)
      BY <1>2, <1>4 DEF TInv
    <2> HIDE DEF amm, a, b, result
    <2> QED
      BY <2>1, <2>2, <2>3 DEF CalculateResult, FeeSmall
  <1>9. /\ calculate_result' \in CalculateResult \cup {None}
        /\ calculate_result' # None => FeeSmall(calculate_result)'
    <2>1. calculate_result' = IF result = None THEN calculate_result ELSE result
      BY <1>1 DEF got
    <2> HIDE DEF result
    <2> QED
      BY <1>8, <2>1 DEF TInv, TypeOK, FeeSmall
  <1>10. read' \in Seq(1 .. Len(past'))
    <2>1. /\ past' = past
          /\ read' = IF result = None THEN read
                     ELSE <<got["pool"].at, got["pc_vault"].at, got["coin_vault"].at>>
      BY <1>1 DEF got
    <2>2. got["pool"].at \in 1 .. n /\ got["pc_vault"].at \in 1 .. n /\ got["coin_vault"].at \in 1 .. n
      BY <1>4
    <2>3. <<got["pool"].at, got["pc_vault"].at, got["coin_vault"].at>> \in Seq(1 .. n)
      BY <2>2
    <2> HIDE DEF result
    <2> QED
      BY <2>1, <2>3 DEF TInv, TypeOK
  <1>11. token_info' \in BOOLEAN /\ found_all_pubkeys' \in BOOLEAN /\ past' = past
    BY <1>1
  <1> QED
    BY <1>6, <1>7, <1>9, <1>10, <1>11 DEF TInv, TypeOK, FeeSmall

\* An update that panics leaves at most a new balance of the pc vault.
LEMMA UpdatePanicsTyped ==
    ASSUME TInv, UpdateStatePanics
    PROVE  TInv'
  <1>1. PICK is \in Replies :
          LET got == get_accounts(is)
          IN  /\ cache' = got
              /\ pc_balance' \in Balances(got["pc_vault"], pc_balance, past[got["pc_vault"].at].pc)
              /\ UNCHANGED <<past, calculate_result, coin_balance, token_info, found_all_pubkeys, read>>
    BY DEF UpdateStatePanics
  <1> DEFINE got == get_accounts(is)
             n == Len(past)
  <1>2. got \in [Keys -> [at : 1 .. n, is : Answers]] /\ got \in [Keys -> Entries]
    BY GotTyped
  <1>3. got["pc_vault"].at \in 1 .. n
    <2> HIDE DEF got
    <2> QED
      BY <1>2 DEF Keys
  <1>4. past[got["pc_vault"].at].pc \in Nat /\ pc_balance \in Nat
    <2>1. \A i \in 1 .. n : past[i] \in Pool
      BY DEF TInv, TypeOK
    <2>2. past[got["pc_vault"].at] \in Pool
      BY <1>3, <2>1, Zenon
    <2>3. \A p \in Pool : p.pc \in Nat
      BY DEF Pool
    <2>4. past[got["pc_vault"].at].pc \in Nat
      BY <2>2, <2>3, Zenon
    <2> QED
      BY <2>4 DEF TInv, TypeOK
  <1>5. pc_balance' \in Balances(got["pc_vault"], pc_balance, past[got["pc_vault"].at].pc)
    BY <1>1
  <1> HIDE DEF got
  <1>6. pc_balance' \in Nat
    BY <1>4, <1>5, BalancesTyped
  <1>7. cache' \in [Keys -> Entries']
    BY <1>1, <1>2 DEF got, Entries
  <1> QED
    BY <1>1, <1>6, <1>7 DEF TInv, TypeOK, FeeSmall

\* Every step keeps the second layer, given the first.
LEMMA TInvStep == Inv /\ TInv /\ [Next]_vars => TInv'
  <1> SUFFICES ASSUME Inv, TInv, [Next]_vars PROVE TInv'
    OBVIOUS
  <1>0. Now \in Pool /\ Len(past) \in 1 .. Len(past) /\ Solvent(Now)
    BY DEF Inv, PoolInv, Now, Solvent
  <1>1. CASE UpdateState
    BY <1>1, UpdateTyped
  <1>9. CASE UpdateStatePanics
    BY <1>9, UpdatePanicsTyped
  <1>2. CASE \E k \in Prefetched : Prefetch(k)
    <2> PICK k \in Prefetched : Prefetch(k)
      BY <1>2
    <2>1. [at |-> Len(past), is |-> "found"] \in Entries
      BY <1>0 DEF Entries, Answers
    <2>2. cache' \in [Keys -> Entries]
      BY <2>1 DEF Prefetch, TInv, TypeOK
    <2>3. UNCHANGED <<past, calculate_result, pc_balance, coin_balance, token_info,
                      found_all_pubkeys, read>>
      BY DEF Prefetch, venue
    <2> QED
      BY <2>2, <2>3 DEF TInv, TypeOK, FeeSmall, Entries
  <1>3. CASE ResetCache
    <2>1. cache' \in [Keys -> Entries]
      BY <1>3 DEF ResetCache, Entries
    <2>2. UNCHANGED <<past, calculate_result, pc_balance, coin_balance, token_info,
                      found_all_pubkeys, read>>
      BY <1>3 DEF ResetCache, venue
    <2> QED
      BY <2>1, <2>2 DEF TInv, TypeOK, FeeSmall, Entries
  <1>4. CASE \E d \in Directions, amount \in Trades : ProgramSwap(d, amount)
    <2> PICK d \in Directions, amount \in Trades : ProgramSwap(d, amount)
      BY <1>4
    <2> DEFINE out == exact_in(Reserves(Now), d, amount)
               q == IF d = "PC2Coin" THEN WithVaults(Now, Now.pc + amount, Now.coin - out)
                    ELSE WithVaults(Now, Now.pc - out, Now.coin + amount)
    <2>1. out > 0 /\ Changes(q) /\ amount \in Nat \ {0}
      BY TradesAssumption DEF ProgramSwap
    <2>2. q \in Pool
      <3>1. Solvent(q)
        BY <1>0, <2>1, SwapStep
      <3> HIDE DEF q
      <3> QED
        BY <3>1 DEF Solvent
    <2>3. q.num = Now.num /\ q.den = Now.den
      BY <1>0 DEF WithVaults, Pool
    <2> HIDE DEF q
    <2> QED
      BY <2>1, <2>2, <2>3, ChangeTyped
  <1>5. CASE AccruePnl
    <2> DEFINE a == Now.pnl_pc + 1
               b == Now.pnl_coin + 1
               v == WithPnl(Now, a, b)
               q == [v EXCEPT !.accruals = @ + 1]
    <2>1. Changes(q)
      BY <1>5 DEF AccruePnl
    <2>0. a \in Nat /\ b \in Nat
      BY <1>0 DEF Pool
    <2>3. v \in Pool /\ v.num = Now.num /\ v.den = Now.den
      <3> HIDE DEF a, b
      <3> QED
        BY <1>0, <2>0, PnlSet
    <2>2. q \in Pool /\ q.num = Now.num /\ q.den = Now.den
      <3> HIDE DEF v
      <3> QED
        BY <2>3 DEF Pool
    <2> HIDE DEF q
    <2> QED
      BY <2>1, <2>2, ChangeTyped
  <1>6. CASE TakePnl
    <2> DEFINE a == Now.pc - Now.pnl_pc
               b == Now.coin - Now.pnl_coin
               q == WithPnl(WithVaults(Now, a, b), 0, 0)
    <2>1. Changes(q)
      BY <1>6 DEF TakePnl
    <2>2. a \in Nat /\ b \in Nat
      BY <1>0 DEF Solvent, Pool
    <2>3. q \in Pool /\ q.num = Now.num /\ q.den = Now.den
      <3> HIDE DEF a, b
      <3> QED
        BY <1>0, <2>2 DEF WithPnl, WithVaults, Pool
    <2> HIDE DEF q
    <2> QED
      BY <2>1, <2>3, ChangeTyped
  <1>7. CASE SetStatus
    <2> PICK s \in {"SwapOnly", "OrderBookOnly"} : Changes([Now EXCEPT !.status = s])
      BY <1>7 DEF SetStatus
    <2> DEFINE q == [Now EXCEPT !.status = s]
    <2>1. Changes(q)
      OBVIOUS
    <2>2. q \in Pool /\ q.num = Now.num /\ q.den = Now.den
      BY <1>0 DEF Pool, Statuses
    <2> HIDE DEF q
    <2> QED
      BY <2>1, <2>2, ChangeTyped
  <1>8. CASE UNCHANGED vars
    BY <1>8 DEF vars, venue, TInv, TypeOK, FeeSmall, Entries
  <1> QED
    BY <1>1, <1>2, <1>3, <1>4, <1>5, <1>6, <1>7, <1>8, <1>9 DEF Next

\* The venue as it is built has the types.
LEMMA TInvInit == Init => TInv
  <1> SUFFICES ASSUME Init PROVE TInv
    OBVIOUS
  <1>1. PICK p \in InitialPools : past = <<p>>
    BY DEF Init
  <1>2. p \in Pool /\ FeeSmall(p)
    BY PoolsAssumption DEF FeeSmall
  <1>3. past \in Seq(Pool) /\ Len(past) = 1 /\ past[1] = p /\ DOMAIN past = {1}
    BY <1>1, <1>2
  <1>4. cache \in [Keys -> Entries]
    BY DEF Init, Entries
  <1>5. read \in Seq(1 .. Len(past))
    BY DEF Init
  <1>6. calculate_result = None /\ None \in CalculateResult \cup {None}
    BY DEF Init
  <1>7. /\ pc_balance \in Nat /\ coin_balance \in Nat
        /\ token_info \in BOOLEAN /\ found_all_pubkeys \in BOOLEAN
    BY DEF Init
  <1>8. \A i \in DOMAIN past : FeeSmall(past[i])
    BY <1>2, <1>3
  <1>9. TypeOK
    <2>1. Len(past) > 0 /\ calculate_result \in CalculateResult \cup {None}
      BY <1>3, <1>6
    <2> QED
      BY <1>3, <1>4, <1>5, <1>7, <2>1 DEF TypeOK
  <1> QED
    BY <1>6, <1>8, <1>9 DEF TInv

\* The second layer holds of every behaviour.
THEOREM TInvHolds == Spec => []TInv
  BY TInvInit, TInvStep, InvHolds, PTL DEF Spec

\* The venue never holds a negative reserve or balance, whatever moments the
\* accounts of an update are of and whichever of them is missing or damaged.
THEOREM TypeCorrect == Spec => []TypeOK
  <1>1. TInv => TypeOK
    BY DEF TInv
  <1> QED
    BY <1>1, TInvHolds, PTL

\* The factors of a spot price are positive: in numbers.
LEMMA PositivePrice ==
    ASSUME NEW x \in Nat \ {0}, NEW y \in Nat \ {0}, NEW kept \in Nat \ {0}, NEW scale \in Nat \ {0}
    PROVE  y * kept * x * scale > 0 /\ (x * scale + kept * 0) * (x * scale + kept * 0) > 0
  <1>1. y * kept \in Nat \ {0} /\ x * scale \in Nat \ {0} /\ kept * 0 = 0
    BY SMT
  <1> DEFINE a == y * kept
             b == x * scale
  <1>2. a \in Nat \ {0} /\ b \in Nat \ {0}
    BY <1>1
  <1> HIDE DEF a, b
  <1>3. a * x \in Nat \ {0} /\ (b + kept * 0) * (b + kept * 0) > 0
    BY <1>1, <1>2, SMT
  <1> DEFINE c == a * x
  <1>4. c \in Nat \ {0}
    BY <1>3
  <1> HIDE DEF c
  <1>5. c * scale > 0
    BY <1>4, SMT
  <1> QED
    BY <1>3, <1>5 DEF a, b, c

\* A venue that says it is initialised answers a zero quote in both directions,
\* whichever updates failed before and after, with a positive spot price exactly
\* if no side of the pool is empty.
THEOREM InitializedQuotesHolds == Spec => []InitializedQuotes
  <1>1. Inv /\ TInv => InitializedQuotes
    <2> SUFFICES ASSUME Inv, TInv, found_all_pubkeys, NEW d \in Directions
                 PROVE  /\ quote(d, 0, TRUE) = 0
                        /\ SpotPrice(d).num > 0 /\ SpotPrice(d).den > 0
                              <=> calculate_result.pc > 0 /\ calculate_result.coin > 0
      BY DEF InitializedQuotes
    <2> DEFINE r == calculate_result
               x == ReserveIn(r, d)
               y == ReserveOut(r, d)
               scale == IF r.den = 0 THEN 1 ELSE r.den
               kept == IF r.den = 0 THEN 1 ELSE r.den - r.num
    <2>1. r # None
      BY DEF Inv, VenueInv
    <2>2. quote(d, 0, TRUE) = 0
      BY <2>1 DEF quote
    <2>3. r \in CalculateResult /\ FeeSmall(r)
      BY <2>1 DEF TInv, TypeOK
    <2>4. ASSUME r.pc > 0, r.coin > 0
          PROVE  SpotPrice(d).num > 0 /\ SpotPrice(d).den > 0
      <3>1. scale \in Nat \ {0} /\ kept \in Nat \ {0}
        BY <2>3 DEF CalculateResult, FeeSmall
      <3>2. x \in Nat \ {0} /\ y \in Nat \ {0}
        BY <2>3, <2>4 DEF CalculateResult, ReserveIn, ReserveOut
      <3>3. /\ SpotPrice(d).num = y * kept * x * scale
            /\ SpotPrice(d).den = (x * scale + kept * 0) * (x * scale + kept * 0)
        BY DEF SpotPrice, price
      <3> HIDE DEF x, y, scale, kept
      <3> QED
        BY <3>1, <3>2, <3>3, PositivePrice
    <2>5. ASSUME ~(r.pc > 0 /\ r.coin > 0)
          PROVE  ~(SpotPrice(d).num > 0)
      <3>1. scale \in Nat /\ kept \in Nat
        BY <2>3 DEF CalculateResult, FeeSmall
      <3>2. x \in Nat /\ y \in Nat /\ (x = 0 \/ y = 0)
        BY <2>3, <2>5 DEF CalculateResult, ReserveIn, ReserveOut, Directions
      <3>3. SpotPrice(d).num = y * kept * x * scale
        BY DEF SpotPrice, price
      <3> HIDE DEF x, y, scale, kept
      <3>4. y * kept * x * scale = 0
        <4>1. y * kept \in Nat /\ (y = 0 => y * kept = 0)
          BY <3>1, <3>2, SMT
        <4> DEFINE a == y * kept
        <4>2. a \in Nat /\ (x = 0 \/ a = 0)
          BY <3>2, <4>1
        <4> HIDE DEF a
        <4>3. a * x = 0
          BY <3>2, <4>2, SMT
        <4>4. 0 * scale = 0
          BY <3>1, SMT
        <4> QED
          BY <4>3, <4>4 DEF a
      <3> QED
        BY <3>3, <3>4
    <2> QED
      BY <2>2, <2>4, <2>5
  <1> QED
    BY <1>1, InvHolds, TInvHolds, PTL

-----------------------------------------------------------------------------
(* The shape of the quotes *)

\* What the fee leaves of an amount, and what the curve pays for that.
Kept(r, amount) == amount - swap_fee(r, amount)
CurveOut(r, d, amount) ==
    (ReserveOut(r, d) * Kept(r, amount)) \div (ReserveIn(r, d) + Kept(r, amount))

\* The conditions under which an amount is quoted.
Quotable(balance, r, d, amount) ==
    /\ r.den # 0 /\ swap_fee(r, amount) > 0 /\ balance + amount < U64
    /\ CurveOut(r, d, amount) < ReserveOut(r, d)

\* The numbers of a result.
LEMMA ResultTypes ==
    ASSUME NEW r \in CalculateResult, NEW d
    PROVE  r.num \in Nat /\ r.den \in Nat /\ ReserveIn(r, d) \in Nat /\ ReserveOut(r, d) \in Nat
  BY DEF CalculateResult, ReserveIn, ReserveOut

\* A fee that is charged is the exact fee rounded up, and less than the amount.
LEMMA FeeFacts ==
    ASSUME NEW r \in CalculateResult, FeeSmall(r), r.den # 0, NEW amount \in Nat,
           swap_fee(r, amount) > 0
    PROVE  LET fee == swap_fee(r, amount)
           IN  /\ fee \in Nat /\ amount * r.num <= r.den * fee
               /\ r.den * (fee - 1) < amount * r.num
               /\ fee < amount
               /\ Kept(r, amount) \in Nat \ {0}
  <1> DEFINE num == r.num
             den == r.den
             fee == swap_fee(r, amount)
  <1>1. num \in Nat /\ den \in Nat \ {0} /\ 2 * num < den
    BY ResultTypes DEF FeeSmall
  <1>2. amount * num \in Nat
    BY <1>1, SMT
  <1>3. /\ fee \in Nat /\ (fee = 0 <=> 2 * (amount * num) < den)
        /\ amount * num <= den * fee /\ den * (fee - 1) < amount * num
    BY <1>1, <1>2, CeilDivFacts DEF swap_fee
  <1> HIDE DEF num, den, fee
  <1>4. fee > 0
    BY DEF fee
  <1>5. amount >= 2
    <2>1. amount = 0 => amount * num = 0
      BY <1>1, SMT
    <2>2. amount = 1 => amount * num = num
      BY <1>1, SMT
    <2> QED
      BY <1>1, <1>3, <1>4, <2>1, <2>2
  <1>6. fee < amount
    <2> SUFFICES ASSUME amount <= fee PROVE FALSE
      BY <1>3
    <2>1. den * (amount - 1) <= den * (fee - 1)
      BY <1>1, <1>3, <1>5, SMT
    <2>2. 2 * (amount * num) <= amount * den
      <3>1. amount * (2 * num) <= amount * den
        BY <1>1, SMT
      <3>2. amount * (2 * num) = 2 * (amount * num)
        BY <1>1, SMT
      <3> QED
        BY <3>1, <3>2
    <2>3. den * (amount - 1) = amount * den - den /\ amount * den \in Nat /\ den * (fee - 1) \in Int
      BY <1>1, <1>3, SMT
    <2>4. 2 * den <= amount * den
      BY <1>1, <1>5, SMT
    <2> QED
      BY <1>1, <1>2, <1>3, <2>1, <2>2, <2>3, <2>4
  <1>7. amount - fee \in Nat \ {0}
    BY <1>3, <1>6
  <1> QED
    BY <1>3, <1>6, <1>7 DEF fee, num, den, Kept

\* ExactIn: an error, or what the curve pays, and never a panic.
LEMMA ExactInQuote ==
    ASSUME NEW r \in CalculateResult, FeeSmall(r), NEW d, NEW amount \in Nat, NEW balance \in Nat
    PROVE  LET v == swap_with_slippage(balance, r, d, amount, TRUE)
           IN  /\ Quotable(balance, r, d, amount) => v = CurveOut(r, d, amount) /\ v \in Nat
               /\ ~Quotable(balance, r, d, amount) => v = Err
  <1> DEFINE x == ReserveIn(r, d)
             y == ReserveOut(r, d)
             fee == swap_fee(r, amount)
             e == exact_in(r, d, amount)
             o == CurveOut(r, d, amount)
             v == swap_with_slippage(balance, r, d, amount, TRUE)
  <1>1. x \in Nat /\ y \in Nat /\ r.num \in Nat /\ r.den \in Nat
    BY ResultTypes
  <1>2. v = IF balance + amount >= U64 THEN Err
            ELSE IF e = Err THEN Err
            ELSE IF e = Panic THEN Panic
            ELSE IF e >= y THEN Err
            ELSE e
    BY DEF swap_with_slippage
  <1>3. balance + amount \in Nat /\ U64 \in Nat
    BY U64Assumption
  <1>4. r.den # 0 => fee \in Nat
    <2>1. amount * r.num \in Nat
      BY <1>1, SMT
    <2> QED
      BY <1>1, <2>1, CeilDivType DEF swap_fee
  <1>5. CASE r.den = 0 \/ fee = 0
    <2>1. e = Err /\ ~Quotable(balance, r, d, amount)
      BY <1>5 DEF exact_in, Quotable
    <2> HIDE DEF e, o, v, x, y, fee
    <2> QED
      BY <1>2, <2>1 DEF v
  <1>6. CASE r.den # 0 /\ fee # 0
    <2>1. fee > 0
      BY <1>4, <1>6
    <2>2. fee < amount /\ Kept(r, amount) \in Nat \ {0} /\ fee \in Nat
      BY <1>6, <2>1, FeeFacts
    <2>3. e = swap_token_amount_base_in(amount - fee, x, y)
      <3> HIDE DEF fee, x, y
      <3>1. ~(fee = 0 \/ fee > amount)
        BY <2>1, <2>2
      <3> QED
        BY <1>6, <3>1 DEF exact_in, fee, x, y
    <2>4. x + Kept(r, amount) # 0 /\ x + Kept(r, amount) \in Nat \ {0}
      <3> HIDE DEF x
      <3> QED
        BY <1>1, <2>2
    <2>5. e = o
      BY <2>3, <2>4 DEF swap_token_amount_base_in, Kept, CurveOut
    <2>6. o \in Nat
      <3> HIDE DEF x, y
      <3>1. y * Kept(r, amount) \in Nat
        BY <1>1, <2>2, SMT
      <3>2. (y * Kept(r, amount)) \div (x + Kept(r, amount)) \in Nat
        BY <2>4, <3>1, SMT
      <3> QED
        BY <3>2 DEF CurveOut, x, y
    <2>7. Quotable(balance, r, d, amount) <=> balance + amount < U64 /\ o < y
      BY <1>6, <2>1 DEF Quotable
    <2> HIDE DEF e, o, v, x, y, fee
    <2>8. v = IF balance + amount >= U64 \/ o >= y THEN Err ELSE o
      BY <1>2, <2>5, <2>6 DEF Err, Panic
    <2>9. CASE balance + amount < U64 /\ o < y
      <3>1. v = o
        BY <1>1, <1>3, <2>6, <2>8, <2>9
      <3> QED
        BY <2>6, <2>7, <2>9, <3>1 DEF v, o
    <2>10. CASE ~(balance + amount < U64 /\ o < y)
      <3>1. v = Err
        BY <1>1, <1>3, <2>6, <2>8, <2>10
      <3> QED
        BY <2>7, <2>10, <3>1 DEF v
    <2> QED
      BY <2>9, <2>10
  <1> QED
    BY <1>5, <1>6

\* Both the fee and what the curve pays do not fall as the amount grows.
LEMMA CurveOutMono ==
    ASSUME NEW r \in CalculateResult, FeeSmall(r), r.den # 0, NEW d,
           NEW s \in Nat, NEW t \in Nat, s <= t, swap_fee(r, s) > 0
    PROVE  swap_fee(r, t) > 0 /\ CurveOut(r, d, s) <= CurveOut(r, d, t)
  <1>1. r.num \in Nat /\ r.den \in Nat \ {0} /\ ReserveIn(r, d) \in Nat /\ ReserveOut(r, d) \in Nat
    BY ResultTypes
  <1>2. s * r.num \in Nat /\ t * r.num \in Nat /\ s * r.num <= t * r.num
    BY <1>1, SMT
  <1>3. swap_fee(r, s) <= swap_fee(r, t) /\ swap_fee(r, s) \in Nat /\ swap_fee(r, t) \in Nat
    BY <1>1, <1>2, CeilDivMono, CeilDivType DEF swap_fee
  <1>4. swap_fee(r, t) > 0
    BY <1>3
  <1>5. /\ s * r.num <= r.den * swap_fee(r, s) /\ Kept(r, s) \in Nat \ {0}
        /\ r.den * (swap_fee(r, t) - 1) < t * r.num /\ Kept(r, t) \in Nat \ {0}
    BY <1>4, FeeFacts
  <1>6. r.num <= r.den
    BY <1>1 DEF FeeSmall
  <1>7. Kept(r, s) <= Kept(r, t)
    BY <1>1, <1>3, <1>5, <1>6, KeptMono DEF Kept
  <1>8. ReserveIn(r, d) + Kept(r, s) # 0
    BY <1>1, <1>5
  <1> QED
    BY <1>1, <1>4, <1>5, <1>7, <1>8, CurveMono DEF CurveOut

\* What quote answers for a positive amount.
LEMMA QuoteValue ==
    ASSUME TInv, NEW d \in Directions, NEW amount \in Nat, calculate_result # None, amount # 0
    PROVE  \E balance \in Nat :
              /\ balance = IF d = "PC2Coin" THEN pc_balance ELSE coin_balance
              /\ \A base_in \in BOOLEAN :
                    quote(d, amount, base_in)
                      = swap_with_slippage(balance, calculate_result, d, amount, base_in)
  BY DEF TInv, TypeOK, quote

\* On every state of the venue the quotable amounts are an interval and the
\* output does not fall on it.
LEMMA CurveShape == TInv => QuotableCurve
  <1> SUFFICES ASSUME TInv, NEW d \in Directions
               PROVE  LET f == [amount \in Requests |-> quote(d, amount, TRUE)]
                          valid == {amount \in Requests : f[amount] > 0}
                      IN  /\ \A gap \in Requests \ valid :
                                (\A amount \in valid : amount < gap) \/ (\A amount \in valid : amount > gap)
                          /\ \A lo, hi \in valid : lo < hi => f[lo] <= f[hi]
    BY DEF QuotableCurve
  <1> DEFINE r == calculate_result
             balance == IF d = "PC2Coin" THEN pc_balance ELSE coin_balance
             Good(a) == a # 0 /\ r # None /\ Quotable(balance, r, d, a) /\ CurveOut(r, d, a) > 0
  <1>0. \A z : z = Err \/ z = 0 => ~(z > 0)
    BY DEF Err
  <1>1. Requests \subseteq Nat /\ balance \in Nat
    BY TradesAssumption DEF TInv, TypeOK
  <1>2. r # None => r \in CalculateResult /\ FeeSmall(r)
    BY DEF TInv, TypeOK
  <1>3. ASSUME NEW a \in Nat
        PROVE  /\ quote(d, a, TRUE) > 0 <=> Good(a)
               /\ Good(a) => quote(d, a, TRUE) = CurveOut(r, d, a)
    <2>1. CASE r = None \/ a = 0
      <3>1. quote(d, a, TRUE) = Err \/ quote(d, a, TRUE) = 0
        BY <2>1 DEF quote
      <3>2. ~(quote(d, a, TRUE) > 0)
        BY <1>0, <3>1, Zenon
      <3> QED
        BY <2>1, <3>2
    <2>2. CASE r # None /\ a # 0
      <3>1. quote(d, a, TRUE) = swap_with_slippage(balance, r, d, a, TRUE)
        BY <2>2, QuoteValue
      <3> HIDE DEF r, balance
      <3>2. /\ Quotable(balance, r, d, a) => quote(d, a, TRUE) = CurveOut(r, d, a)
            /\ ~Quotable(balance, r, d, a) => quote(d, a, TRUE) = Err
        BY <1>1, <1>2, <2>2, <3>1, ExactInQuote
      <3>3. CASE Quotable(balance, r, d, a)
        BY <2>2, <3>2, <3>3
      <3>4. CASE ~Quotable(balance, r, d, a)
        <4>1. quote(d, a, TRUE) = Err
          BY <3>2, <3>4
        <4>2. ~(quote(d, a, TRUE) > 0)
          BY <1>0, <4>1, Zenon
        <4> QED
          BY <3>4, <4>2
      <3> QED
        BY <3>3, <3>4
    <2> QED
      BY <2>1, <2>2
  <1>4. ASSUME NEW s \in Nat, NEW t \in Nat, s <= t, Good(s), Good(t)
        PROVE  CurveOut(r, d, s) <= CurveOut(r, d, t)
    BY <1>2, <1>4, CurveOutMono DEF Quotable
  <1>5. ASSUME NEW s \in Nat, NEW g \in Nat, NEW t \in Nat, s < g, g < t, Good(s), Good(t)
        PROVE  Good(g)
    <2> HIDE DEF r, balance
    <2>1. r \in CalculateResult /\ FeeSmall(r) /\ r.den # 0 /\ swap_fee(r, s) > 0
      BY <1>2, <1>5 DEF Quotable
    <2>2. swap_fee(r, g) > 0 /\ CurveOut(r, d, s) <= CurveOut(r, d, g)
      BY <1>5, <2>1, CurveOutMono
    <2>3. CurveOut(r, d, g) <= CurveOut(r, d, t)
      BY <1>5, <2>1, <2>2, CurveOutMono
    <2>4. balance + g < U64
      BY <1>1, <1>5, U64Assumption DEF Quotable
    <2>5. CurveOut(r, d, s) \in Nat /\ CurveOut(r, d, g) \in Int /\ CurveOut(r, d, t) \in Nat
          /\ ReserveOut(r, d) \in Nat
      <3>1. CurveOut(r, d, s) \in Nat /\ CurveOut(r, d, t) \in Nat
        BY <1>1, <1>5, <2>1, ExactInQuote
      <3>2. Kept(r, g) \in Nat \ {0} /\ ReserveIn(r, d) \in Nat /\ ReserveOut(r, d) \in Nat
        BY <2>1, <2>2, FeeFacts, ResultTypes
      <3>3. ReserveIn(r, d) + Kept(r, g) # 0
        BY <3>2
      <3>4. CurveOut(r, d, g) \in Nat
        BY <3>2, <3>3, CurveMono DEF CurveOut
      <3> QED
        BY <3>1, <3>2, <3>4
    <2>6. CurveOut(r, d, t) < ReserveOut(r, d) /\ CurveOut(r, d, s) > 0
      BY <1>5 DEF Quotable
    <2> QED
      BY <1>5, <2>1, <2>2, <2>3, <2>4, <2>5, <2>6 DEF Quotable
  <1> HIDE DEF r, balance, Good
  <1> DEFINE valid == {a \in Requests : quote(d, a, TRUE) > 0}
  <1>6. ASSUME NEW gap \in Requests \ valid, NEW lo \in valid, NEW hi \in valid, lo < gap, gap < hi
        PROVE  FALSE
    BY <1>1, <1>3, <1>5, <1>6
  <1>7. ASSUME NEW lo \in valid, NEW hi \in valid, lo < hi
        PROVE  quote(d, lo, TRUE) <= quote(d, hi, TRUE)
    <2>1. Good(lo) /\ Good(hi) /\ lo \in Nat /\ hi \in Nat
      BY <1>1, <1>3
    <2>2. quote(d, lo, TRUE) = CurveOut(r, d, lo) /\ quote(d, hi, TRUE) = CurveOut(r, d, hi)
      BY <1>3, <2>1
    <2>3. lo <= hi
      BY <1>7, <2>1
    <2>4. CurveOut(r, d, lo) <= CurveOut(r, d, hi)
      BY <1>4, <2>1, <2>3
    <2> QED
      BY <2>2, <2>4
  <1>8. ASSUME NEW gap \in Requests \ valid
        PROVE  (\A a \in valid : a < gap) \/ (\A a \in valid : a > gap)
    <2>1. gap \in Nat /\ \A a \in valid : a \in Nat /\ a # gap
      BY <1>1, <1>8
    <2>2. \A lo, hi \in valid : ~(lo < gap /\ gap < hi)
      BY <1>6, <1>8
    <2> HIDE DEF valid
    <2>3. \A a \in valid : a < gap \/ gap < a
      BY <2>1
    <2>4. \A a \in valid : gap < a => a > gap
      BY <2>1
    <2> QED
      BY <2>2, <2>3, <2>4
  <1> QED
    BY <1>7, <1>8

\* The amounts a venue quotes are an interval on which the output never falls:
\* the bisection of the boundary search is sound on every pool.
THEOREM QuotableCurveHolds == Spec => []QuotableCurve
  BY CurveShape, TInvHolds, PTL

\* The bracket in numbers: k is what is kept of den parts, a what the fee
\* leaves of the amount, o what the curve pays.
LEMMA BracketArith ==
    ASSUME NEW x \in Nat, NEW y \in Nat, NEW a \in Nat \ {0}, NEW o \in Nat,
           NEW k \in Nat, NEW den \in Nat \ {0}, NEW amount \in Nat,
           den * a <= k * amount, k * amount <= den * (a + 1),
           o * (x + a) <= y * a, y * a < (o + 1) * (x + a)
    PROVE  /\ o * ((x * den) * (x * den)) <= (((y * k) * x) * den) * amount
           /\ ((((y * k) * x) * den) * amount) * x
                <= ((o + 1) * x + y) * ((x * den + k * amount) * (x * den + k * amount))
  <1> DEFINE B == k * amount
             X == x * den
             P == (o + 1) * x + y
  <1>1. B \in Nat /\ X \in Nat /\ P \in Nat
    BY SMT
  <1>2. o * (x * x) * den <= y * x * B
    <2>1. o * x \in Nat /\ o * a \in Nat /\ o * (x + a) = o * x + o * a /\ y * a \in Nat
      BY SMT
    <2>2. o * x <= y * a
      BY <2>1
    <2>3. (o * x) * (x * den) <= (y * a) * (x * den)
      <3> DEFINE u == o * x
                 v == y * a
                 m == x * den
      <3>1. u \in Nat /\ v \in Nat /\ m \in Nat /\ u <= v
        BY <1>1, <2>1, <2>2
      <3> HIDE DEF u, v, m
      <3>2. u * m <= v * m
        BY <3>1, SMT
      <3> QED
        BY <3>2 DEF u, v, m
    <2>4. (y * a) * (x * den) = (y * x) * (den * a) /\ (o * x) * (x * den) = o * (x * x) * den
      BY SMT
    <2>5. (y * x) * (den * a) <= (y * x) * B
      <3> DEFINE u == y * x
                 v == den * a
      <3>1. u \in Nat /\ v \in Nat /\ v <= B
        BY SMT
      <3> HIDE DEF u, v, B
      <3>2. u * v <= u * B
        BY <1>1, <3>1, SMT
      <3> QED
        BY <3>2 DEF u, v
    <2>6. (o * x) * (x * den) \in Int /\ (y * x) * (den * a) \in Int /\ (y * x) * B \in Int
      BY <1>1, SMT
    <2> QED
      BY <2>3, <2>4, <2>5, <2>6
  <1>3. o * (X * X) <= (((y * k) * x) * den) * amount
    <2>1. o * (X * X) = (o * (x * x) * den) * den
      BY SMT
    <2>2. (((y * k) * x) * den) * amount = (y * x * B) * den
      BY SMT
    <2> DEFINE u == o * (x * x) * den
               v == y * x * B
    <2>3. u \in Int /\ v \in Int /\ u <= v
      BY <1>1, <1>2, SMT
    <2> HIDE DEF u, v, B, X
    <2>4. u * den <= v * den
      BY <2>3, SMT
    <2> QED
      BY <2>1, <2>2, <2>4 DEF u, v
  <1>4. P * (x + a) >= (y * x) * (a + 1)
    <2>1. P * (x + a) = x * ((o + 1) * (x + a)) + y * (x + a)
      BY SMT
    <2>2. x * ((o + 1) * (x + a)) >= x * (y * a)
      <3> DEFINE u == (o + 1) * (x + a)
                 v == y * a
      <3>1. u \in Int /\ v \in Int /\ v <= u
        BY SMT
      <3> HIDE DEF u, v
      <3>2. x * u >= x * v
        BY <3>1, SMT
      <3> QED
        BY <3>2 DEF u, v
    <2>3. y * (x + a) = y * x + y * a /\ y * a >= 0 /\ (y * x) * (a + 1) = x * (y * a) + y * x
      BY SMT
    <2>4. x * ((o + 1) * (x + a)) \in Int /\ x * (y * a) \in Int /\ y * x \in Int /\ y * a \in Int
      BY SMT
    <2> QED
      BY <2>1, <2>2, <2>3, <2>4
  <1>5. P * (X + B) >= (y * x) * B
    <2>1. P * (X + B) >= P * (den * (x + a))
      <3>1. den * (x + a) = X + den * a /\ den * a \in Nat
        BY SMT
      <3>2. den * (x + a) <= X + B
        BY <1>1, <3>1
      <3> DEFINE u == den * (x + a)
                 v == X + B
      <3>3. u \in Int /\ v \in Int /\ u <= v
        BY <1>1, <3>1, <3>2
      <3> HIDE DEF u, v, P
      <3>4. P * u <= P * v
        BY <1>1, <3>3, SMT
      <3> QED
        BY <3>4 DEF u, v
    <2>2. P * (den * (x + a)) = den * (P * (x + a))
      <3> HIDE DEF P
      <3> QED
        BY <1>1, SMT
    <2>3. den * (P * (x + a)) >= den * ((y * x) * (a + 1))
      <3> DEFINE u == P * (x + a)
                 v == (y * x) * (a + 1)
      <3>1. u \in Int /\ v \in Int /\ v <= u
        BY <1>1, <1>4, SMT
      <3> HIDE DEF u, v
      <3>2. den * u >= den * v
        BY <3>1, SMT
      <3> QED
        BY <3>2 DEF u, v
    <2>4. den * ((y * x) * (a + 1)) = (y * x) * (den * (a + 1))
      BY SMT
    <2>5. (y * x) * (den * (a + 1)) >= (y * x) * B
      <3> DEFINE u == y * x
                 v == den * (a + 1)
      <3>1. u \in Nat /\ v \in Nat /\ B <= v
        BY SMT
      <3> HIDE DEF u, v, B
      <3>2. u * v >= u * B
        BY <1>1, <3>1, SMT
      <3> QED
        BY <3>2 DEF u, v
    <2>6. /\ P * (X + B) \in Int /\ P * (den * (x + a)) \in Int /\ den * ((y * x) * (a + 1)) \in Int
          /\ (y * x) * B \in Int
      <3> HIDE DEF P, X, B
      <3> QED
        BY <1>1, SMT
    <2> QED
      BY <2>1, <2>2, <2>3, <2>4, <2>5, <2>6
  <1>6. P * ((X + B) * (X + B)) >= ((y * x) * B) * X
    <2> DEFINE u == P * (X + B)
               v == (y * x) * B
    <2>1. u \in Int /\ v \in Nat /\ v <= u
      BY <1>1, <1>5, SMT
    <2>2. P * ((X + B) * (X + B)) = u * (X + B)
      <3> HIDE DEF P, X, B
      <3> QED
        BY <1>1, SMT
    <2> HIDE DEF u, v, P, X, B
    <2>3. u * (X + B) >= v * (X + B)
      BY <1>1, <2>1, SMT
    <2>4. v * (X + B) = v * X + v * B /\ v * B >= 0 /\ v * X \in Int /\ v * B \in Int
      BY <1>1, <2>1, SMT
    <2>5. u * (X + B) \in Int
      BY <1>1, <2>1, SMT
    <2>6. u * (X + B) >= v * X
      BY <2>3, <2>4, <2>5
    <2> QED
      BY <2>2, <2>6 DEF v
  <1>7. ((y * x) * B) * X = ((((y * k) * x) * den) * amount) * x
    BY SMT
  <1> HIDE DEF P
  <1> QED
    BY <1>3, <1>6, <1>7 DEF P

\* What the fee leaves is what is kept, rounded down, and the curve pays the
\* exact output, rounded down.
LEMMA CurveFacts ==
    ASSUME NEW r \in CalculateResult, FeeSmall(r), r.den # 0, NEW d, NEW amount \in Nat,
           swap_fee(r, amount) > 0
    PROVE  LET a == Kept(r, amount)
               o == CurveOut(r, d, amount)
               x == ReserveIn(r, d)
               y == ReserveOut(r, d)
               k == r.den - r.num
           IN  /\ k \in Nat \ {0} /\ a \in Nat \ {0} /\ o \in Nat
               /\ r.den * a <= k * amount /\ k * amount < r.den * (a + 1)
               /\ o * (x + a) <= y * a /\ y * a < (o + 1) * (x + a)
  <1> DEFINE a == Kept(r, amount)
             o == CurveOut(r, d, amount)
             x == ReserveIn(r, d)
             y == ReserveOut(r, d)
             num == r.num
             den == r.den
             fee == swap_fee(r, amount)
             k == den - num
  <1>1. num \in Nat /\ den \in Nat \ {0} /\ x \in Nat /\ y \in Nat /\ 2 * num < den
    BY ResultTypes DEF FeeSmall
  <1>2. /\ fee \in Nat /\ amount * num <= den * fee /\ den * (fee - 1) < amount * num
        /\ a \in Nat \ {0}
    BY FeeFacts
  <1>3. a = amount - fee
    BY DEF Kept
  <1>4. o = (y * a) \div (x + a)
    BY DEF CurveOut
  <1> HIDE DEF a, o, x, y, num, den, fee
  <1>5. k \in Nat \ {0}
    BY <1>1
  <1>6. den * a <= k * amount /\ k * amount < den * (a + 1)
    <2>1. /\ k * amount = den * amount - amount * num
          /\ den * (amount - fee) = den * amount - den * fee
          /\ den * (amount - fee + 1) = den * amount - den * (fee - 1)
      BY <1>1, <1>2, SMT
    <2>2. /\ den * amount \in Int /\ amount * num \in Int
          /\ den * fee \in Int /\ den * (fee - 1) \in Int
      BY <1>1, <1>2, SMT
    <2> QED
      BY <1>2, <1>3, <2>1, <2>2
  <1>7. y * a \in Nat /\ x + a \in Nat \ {0}
    BY <1>1, <1>2, SMT
  <1>8. o \in Nat /\ o * (x + a) <= y * a /\ y * a < (o + 1) * (x + a)
    BY <1>4, <1>7, SMT
  <1> QED
    BY <1>2, <1>5, <1>6, <1>8 DEF a, o, x, y, num, den

\* out is what the curve pays for an amount that is charged a fee.
PaidByCurve(d, amount, out) ==
    /\ calculate_result \in CalculateResult /\ FeeSmall(calculate_result)
    /\ calculate_result.den # 0 /\ swap_fee(calculate_result, amount) > 0
    /\ out = CurveOut(calculate_result, d, amount)

\* What quote answers an ExactIn request with.
LEMMA QuoteIn ==
    ASSUME TInv, NEW d \in Directions, NEW amount \in Nat,
           NEW out, out = quote(d, amount, TRUE)
    PROVE  out = Err \/ (out = 0 /\ amount = 0) \/ PaidByCurve(d, amount, out)
  <1> DEFINE r == calculate_result
  <1>1. CASE r = None \/ amount = 0
    BY <1>1 DEF quote
  <1>2. CASE r # None /\ amount # 0
    <2>1. r \in CalculateResult /\ FeeSmall(r)
      BY <1>2 DEF TInv, TypeOK
    <2>2. PICK balance \in Nat : out = swap_with_slippage(balance, r, d, amount, TRUE)
      BY <1>2, QuoteValue
    <2> HIDE DEF r
    <2>3. /\ Quotable(balance, r, d, amount) => out = CurveOut(r, d, amount)
          /\ ~Quotable(balance, r, d, amount) => out = Err
      BY <2>1, <2>2, ExactInQuote
    <2>4. Quotable(balance, r, d, amount) => r.den # 0 /\ swap_fee(r, amount) > 0
      BY DEF Quotable
    <2> QED
      BY <2>1, <2>3, <2>4, Zenon DEF r, PaidByCurve
  <1> QED
    BY <1>1, <1>2

\* On every state of the venue the prices bracket the rates.
LEMMA PriceBracket == TInv => PriceBracketsRate
  <1> DEFINE r == calculate_result
  <1> SUFFICES ASSUME TInv, NEW d \in Directions, NEW amount \in Requests,
                      NEW out, out = quote(d, amount, TRUE), out > 0
               PROVE  /\ out * price(r, d, 0).den <= price(r, d, 0).num * amount
                      /\ price(r, d, amount).num * amount * ReserveIn(r, d)
                           <= ((out + 1) * ReserveIn(r, d) + ReserveOut(r, d)) * price(r, d, amount).den
    BY DEF PriceBracketsRate
  <1> DEFINE x == ReserveIn(r, d)
             y == ReserveOut(r, d)
             den == r.den
             k == r.den - r.num
             a == Kept(r, amount)
  <1>1. amount \in Nat
    BY TradesAssumption
  <1>2. out # Err /\ out # 0
    <2>1. \A z : z = Err \/ z = 0 => ~(z > 0)
      BY DEF Err
    <2> QED
      BY <2>1, Zenon
  <1>3. /\ r \in CalculateResult /\ FeeSmall(r) /\ den # 0 /\ swap_fee(r, amount) > 0
        /\ out = CurveOut(r, d, amount)
    <2>1. PaidByCurve(d, amount, out)
      BY <1>1, <1>2, QuoteIn
    <2> QED
      BY <2>1 DEF PaidByCurve
  <1>4. /\ k \in Nat \ {0} /\ a \in Nat \ {0} /\ out \in Nat
        /\ den * a <= k * amount /\ k * amount < den * (a + 1)
        /\ out * (x + a) <= y * a /\ y * a < (out + 1) * (x + a)
    <2> HIDE DEF r
    <2> QED
      BY <1>1, <1>3, CurveFacts
  <1>5. x \in Nat /\ y \in Nat /\ den \in Nat \ {0}
    BY <1>3, ResultTypes
  <1>6. /\ out * ((x * den) * (x * den)) <= (((y * k) * x) * den) * amount
        /\ ((((y * k) * x) * den) * amount) * x
             <= ((out + 1) * x + y) * ((x * den + k * amount) * (x * den + k * amount))
    <2> HIDE DEF x, y, den, k, a
    <2>1. k * amount \in Int /\ den * (a + 1) \in Int
      BY <1>1, <1>4, <1>5, SMT
    <2>2. k * amount <= den * (a + 1)
      BY <1>4, <2>1
    <2> QED
      BY <1>1, <1>4, <1>5, <2>2, BracketArith
  <1>7. /\ price(r, d, 0).num = ((y * k) * x) * den
        /\ price(r, d, 0).den = (x * den + k * 0) * (x * den + k * 0)
        /\ price(r, d, amount).num = ((y * k) * x) * den
        /\ price(r, d, amount).den = (x * den + k * amount) * (x * den + k * amount)
    BY <1>3 DEF price
  <1> HIDE DEF r, x, y, den, k, a
  <1>8. x * den + k * 0 = x * den
    BY <1>4, <1>5, SMT
  <1>9. price(r, d, 0).den = (x * den) * (x * den)
    BY <1>7, <1>8
  <1> QED
    BY <1>6, <1>7, <1>9 DEF x, y

\* The reported price brackets what the venue really quotes, on every pool: no
\* quote beats the spot price, none falls short by more than the two roundings.
THEOREM PriceBracketsRateHolds == Spec => []PriceBracketsRate
  BY PriceBracket, TInvHolds, PTL

\* ExactOut: the input before the fee, and the input.
Before(r, d, amount) ==
    checked_ceil_div(ReserveIn(r, d) * amount, ReserveOut(r, d) - amount)
After(r, d, amount) == checked_ceil_div(Before(r, d, amount) * r.den, r.den - r.num)

\* Both divisions of an ExactOut quote that is not nothing round up.
LEMMA ExactOutFacts ==
    ASSUME NEW r \in CalculateResult, NEW d, NEW amount \in Nat,
           amount < ReserveOut(r, d), r.num < r.den
    PROVE  LET x == ReserveIn(r, d)
               left == ReserveOut(r, d) - amount
               k == r.den - r.num
               b == Before(r, d, amount)
               in == After(r, d, amount)
           IN  /\ left \in Nat \ {0} /\ k \in Nat \ {0} /\ b \in Nat /\ in \in Nat
               /\ in > 0 => /\ b > 0 /\ x * amount <= left * b /\ left * (b - 1) < x * amount
                            /\ b * r.den <= k * in /\ k * (in - 1) < b * r.den
  <1> DEFINE x == ReserveIn(r, d)
             y == ReserveOut(r, d)
             den == r.den
             num == r.num
             left == y - amount
             k == den - num
             b == Before(r, d, amount)
             in == After(r, d, amount)
  <1>1. x \in Nat /\ y \in Nat /\ num \in Nat /\ den \in Nat
    BY ResultTypes
  <1>2. amount < y /\ num < den
    OBVIOUS
  <1>3. b = checked_ceil_div(x * amount, left) /\ in = checked_ceil_div(b * den, k)
    BY DEF Before, After
  <1> HIDE DEF x, y, den, num, b, in
  <1>4. left \in Nat \ {0} /\ k \in Nat \ {0}
    BY <1>1, <1>2
  <1> HIDE DEF left, k
  <1>5. x * amount \in Nat
    BY <1>1, SMT
  <1>6. b \in Nat /\ (b > 0 => x * amount <= left * b /\ left * (b - 1) < x * amount)
    BY <1>3, <1>4, <1>5, CeilDivFacts
  <1>7. b * den \in Nat
    BY <1>1, <1>6, SMT
  <1>8. /\ in \in Nat /\ (in = 0 <=> 2 * (b * den) < k)
        /\ (in > 0 => b * den <= k * in /\ k * (in - 1) < b * den)
    BY <1>3, <1>4, <1>7, CeilDivFacts
  <1>9. in > 0 => b > 0
    <2>1. b = 0 => b * den = 0
      BY <1>1, SMT
    <2> QED
      BY <1>4, <1>6, <1>8, <2>1
  <1> QED
    BY <1>4, <1>6, <1>8, <1>9 DEF x, y, den, num, left, k, b, in

\* ExactOut: an error, a panic, or the input after the fee.
LEMMA ExactOutQuote ==
    ASSUME NEW r \in CalculateResult, NEW d, NEW amount \in Nat, NEW balance,
           NEW v, v = swap_with_slippage(balance, r, d, amount, FALSE)
    PROVE  LET payable == amount < ReserveOut(r, d) /\ r.num < r.den
           IN  \/ v = Err
               \/ /\ v = Panic
                  /\ \/ ~(amount < ReserveOut(r, d))
                     \/ payable /\ After(r, d, amount) >= U64
               \/ v = After(r, d, amount) /\ payable
  <1> DEFINE x == ReserveIn(r, d)
             y == ReserveOut(r, d)
             e == exact_out(r, d, amount)
             bf == swap_token_amount_base_out(amount, x, y)
  <1>1. x \in Nat /\ y \in Nat /\ r.num \in Nat /\ r.den \in Nat
    BY ResultTypes
  <1>2. v = Err \/ v = e
    BY DEF swap_with_slippage
  <1>3. CASE ~(amount < y)
    <2>1. amount >= y
      BY <1>1, <1>3
    <2>2. e = Panic
      BY <2>1 DEF exact_out, swap_token_amount_base_out
    <2> QED
      BY <1>2, <1>3, <2>2
  <1>4. CASE amount < y
    <2>1. bf = Before(r, d, amount)
      <3>1. ~(amount >= y)
        BY <1>1, <1>4
      <3> QED
        BY <3>1 DEF swap_token_amount_base_out, Before
    <2>2. bf # Panic
      <3>1. y - amount \in Nat \ {0}
        BY <1>1, <1>4
      <3>2. x * amount \in Nat
        BY <1>1, SMT
      <3>3. Before(r, d, amount) \in Nat
        BY <3>1, <3>2, CeilDivFacts DEF Before
      <3> QED
        BY <2>1, <3>3 DEF Panic
    <2>3. e = IF bf * r.den >= U64 * U64 \/ r.den <= r.num THEN Err
              ELSE IF After(r, d, amount) >= U64 THEN Panic
              ELSE After(r, d, amount)
      BY <2>1, <2>2 DEF exact_out, After
    <2> HIDE DEF e, bf
    <2>4. CASE bf * r.den >= U64 * U64 \/ r.den <= r.num
      BY <1>2, <2>3, <2>4
    <2>5. CASE ~(bf * r.den >= U64 * U64 \/ r.den <= r.num)
      <3>1. r.num < r.den
        BY <1>1, <2>5
      <3>2. (e = Panic /\ After(r, d, amount) >= U64) \/ e = After(r, d, amount)
        BY <2>3, <2>5
      <3> QED
        BY <1>2, <1>4, <3>1, <3>2
    <2> QED
      BY <2>4, <2>5
  <1> QED
    BY <1>3, <1>4

\* The input bought at least the output: in numbers.
LEMMA BuysEnough ==
    ASSUME NEW x \in Nat, NEW y \in Nat, NEW amount \in Nat, amount < y,
           NEW den \in Nat \ {0}, NEW k \in Nat, NEW b \in Nat, NEW in \in Nat,
           NEW a \in Nat \ {0}, NEW o \in Nat,
           x * amount <= (y - amount) * b, b * den <= k * in,
           k * in < den * (a + 1), y * a < (o + 1) * (x + a)
    PROVE  amount <= o
  <1>1. b <= a
    <2> SUFFICES ASSUME a + 1 <= b PROVE FALSE
      OBVIOUS
    <2>1. den * (a + 1) <= b * den
      BY SMT
    <2>2. den * (a + 1) \in Int /\ b * den \in Int /\ k * in \in Int
      BY SMT
    <2> QED
      BY <2>1, <2>2
  <1>2. (y - amount) * b <= (y - amount) * a
    BY <1>1, SMT
  <1>3. amount * (x + a) <= y * a
    <2>1. amount * (x + a) = x * amount + amount * a /\ (y - amount) * a = y * a - amount * a
      BY SMT
    <2>2. /\ x * amount \in Int /\ amount * a \in Int /\ y * a \in Int
          /\ (y - amount) * b \in Int /\ (y - amount) * a \in Int
      BY SMT
    <2> QED
      BY <1>2, <2>1, <2>2
  <1> SUFFICES ASSUME o + 1 <= amount PROVE FALSE
    OBVIOUS
  <1>4. (o + 1) * (x + a) <= amount * (x + a)
    BY SMT
  <1>5. (o + 1) * (x + a) \in Int /\ amount * (x + a) \in Int /\ y * a \in Int
    BY SMT
  <1> QED
    BY <1>3, <1>4, <1>5

\* The input is beyond a u64: in numbers.
LEMMA BeyondU64 ==
    ASSUME NEW p \in Nat, NEW left \in Nat \ {0}, NEW den \in Nat \ {0}, NEW k \in Nat,
           NEW b \in Nat, NEW in \in Nat, NEW U \in Nat, U <= in,
           left * (b - 1) < p, k * (in - 1) < b * den
    PROVE  (p + left) * den > left * ((U - 1) * k)
  <1>1. (U - 1) * k < b * den
    <2>1. (U - 1) * k <= k * (in - 1)
      BY SMT
    <2>2. (U - 1) * k \in Int /\ k * (in - 1) \in Int /\ b * den \in Int
      BY SMT
    <2> QED
      BY <2>1, <2>2
  <1>2. left * b < p + left
    <2>1. left * (b - 1) = left * b - left /\ left * b \in Int
      BY SMT
    <2> QED
      BY <2>1
  <1>3. left * ((U - 1) * k) < left * (b * den)
    <2> DEFINE u == (U - 1) * k
               w == b * den
    <2>1. u \in Int /\ w \in Int /\ u < w
      BY <1>1, SMT
    <2> HIDE DEF u, w
    <2>2. left * u < left * w
      BY <2>1, SMT
    <2> QED
      BY <2>2 DEF u, w
  <1>4. (left * b) * den < (p + left) * den
    <2> DEFINE u == left * b
    <2>1. u \in Int /\ u < p + left
      BY <1>2, SMT
    <2> HIDE DEF u
    <2>2. u * den < (p + left) * den
      BY <2>1, SMT
    <2> QED
      BY <2>2 DEF u
  <1>5. left * (b * den) = (left * b) * den
    BY SMT
  <1>6. left * ((U - 1) * k) \in Int /\ (left * b) * den \in Int /\ (p + left) * den \in Int
    BY SMT
  <1> QED
    BY <1>3, <1>4, <1>5, <1>6

\* What quote answers an ExactOut request with.
AskedFor(d, amount, in) ==
    /\ calculate_result \in CalculateResult
    /\ amount < ReserveOut(calculate_result, d) /\ calculate_result.num < calculate_result.den
    /\ in = After(calculate_result, d, amount)
OutOfReach(d, amount) ==
    /\ calculate_result \in CalculateResult
    /\ \/ ~(amount < ReserveOut(calculate_result, d))
       \/ AskedFor(d, amount, After(calculate_result, d, amount))
          /\ After(calculate_result, d, amount) >= U64

\* The four answers of an exact-out quote.
LEMMA QuoteOut ==
    ASSUME TInv, NEW d \in Directions, NEW amount \in Nat,
           NEW in, in = quote(d, amount, FALSE)
    PROVE  \/ in = Err \/ in = 0
           \/ in = Panic /\ OutOfReach(d, amount)
           \/ AskedFor(d, amount, in)
  <1> DEFINE r == calculate_result
  <1>1. CASE r = None \/ amount = 0
    <2>1. in = Err \/ in = 0
      BY <1>1 DEF quote
    <2> QED
      BY <2>1, Zenon
  <1>2. CASE r # None /\ amount # 0
    <2>1. r \in CalculateResult
      BY <1>2 DEF TInv, TypeOK
    <2>2. PICK balance \in Nat : in = swap_with_slippage(balance, r, d, amount, FALSE)
      BY <1>2, QuoteValue
    <2> HIDE DEF r
    <2>3. \/ in = Err
          \/ /\ in = Panic
             /\ \/ ~(amount < ReserveOut(r, d))
                \/ /\ amount < ReserveOut(r, d) /\ r.num < r.den
                   /\ After(r, d, amount) >= U64
          \/ /\ in = After(r, d, amount)
             /\ amount < ReserveOut(r, d) /\ r.num < r.den
      BY <2>1, <2>2, ExactOutQuote
    <2> QED
      BY <2>1, <2>3, Zenon DEF r, AskedFor, OutOfReach
  <1> QED
    BY <1>1, <1>2

\* On every state of the venue ExactOut asks for enough.
LEMMA ExactOutBuys ==
    ASSUME TInv, NEW d \in Directions, NEW amount \in Nat,
           NEW in, AskedFor(d, amount, in), in > 0,
           NEW out, PaidByCurve(d, in, out)
    PROVE  out \in Nat /\ amount <= out
  <1> DEFINE r == calculate_result
             x == ReserveIn(r, d)
             y == ReserveOut(r, d)
             den == r.den
             k == r.den - r.num
             b == Before(r, d, amount)
             a == Kept(r, in)
  <1>1. r \in CalculateResult /\ amount < y /\ r.num < r.den /\ in = After(r, d, amount)
    BY DEF AskedFor
  <1>2. FeeSmall(r) /\ r.den # 0 /\ swap_fee(r, in) > 0 /\ out = CurveOut(r, d, in)
    BY DEF PaidByCurve
  <1>3. x \in Nat /\ y \in Nat /\ den \in Nat \ {0}
    BY <1>1, <1>2, ResultTypes
  <1> HIDE DEF r
  <1>4. /\ k \in Nat /\ b \in Nat /\ in \in Nat
        /\ x * amount <= (y - amount) * b /\ b * den <= k * in
    BY <1>1, ExactOutFacts
  <1>5. /\ a \in Nat \ {0} /\ out \in Nat
        /\ k * in < den * (a + 1) /\ y * a < (out + 1) * (x + a)
    BY <1>1, <1>2, <1>4, CurveFacts
  <1>6. amount < y
    BY <1>1
  <1> HIDE DEF x, y, den, k, b, a
  <1> QED
    BY <1>3, <1>4, <1>5, <1>6, BuysEnough

\* On every state of the venue an ExactOut quote panics only out of reach.
LEMMA ExactOutPanics ==
    ASSUME TInv, NEW d \in Directions, NEW amount \in Nat, OutOfReach(d, amount)
    PROVE  ~Servable(d, amount)
  <1> DEFINE r == calculate_result
             x == ReserveIn(r, d)
             y == ReserveOut(r, d)
             left == y - amount
             den == r.den
             k == r.den - r.num
             b == Before(r, d, amount)
             in == After(r, d, amount)
  <1>1. x \in Nat /\ y \in Nat /\ r.num \in Nat /\ den \in Nat /\ r \in CalculateResult
    BY ResultTypes DEF OutOfReach
  <1>2. CASE ~(amount < y)
    <2> HIDE DEF x, y, r
    <2>1. ~(left > 0)
      BY <1>1, <1>2
    <2> QED
      BY <2>1 DEF Servable, x, y, r
  <1>3. CASE amount < y
    <2>1. r.num < r.den /\ in >= U64
      BY <1>3 DEF OutOfReach, AskedFor
    <2> HIDE DEF r
    <2>2. /\ left \in Nat \ {0} /\ k \in Nat \ {0} /\ b \in Nat /\ in \in Nat
      BY <1>1, <1>3, <2>1, ExactOutFacts
    <2>3. in > 0 /\ U64 <= in /\ U64 \in Nat
      BY <2>1, <2>2, U64Assumption
    <2>4. left * (b - 1) < x * amount /\ k * (in - 1) < b * den
      BY <1>1, <1>3, <2>1, <2>3, ExactOutFacts
    <2>5. x * amount \in Nat /\ den \in Nat \ {0}
      <3>1. den # 0
        BY <1>1, <2>1
      <3> HIDE DEF x, den
      <3> QED
        BY <1>1, <3>1, SMT
    <2> HIDE DEF x, y, left, den, k, b, in
    <2>6. (x * amount + left) * den > left * ((U64 - 1) * k)
      BY <2>2, <2>3, <2>4, <2>5, BeyondU64
    <2>7. (x * amount + left) * den \in Int /\ left * ((U64 - 1) * k) \in Int
      BY <1>1, <2>2, <2>3, <2>5, SMT
    <2>8. ~((x * amount + left) * den <= left * ((U64 - 1) * k))
      BY <2>6, <2>7
    <2> QED
      BY <2>8 DEF Servable, x, y, left, den, k, r
  <1> QED
    BY <1>2, <1>3

\* Quoting forward what was quoted backward returns at least what was asked.
LEMMA ExactOutGood == TInv => ExactOutSound
  <1> SUFFICES ASSUME TInv, NEW d \in Directions, NEW amount \in Requests,
                      NEW in, in = quote(d, amount, FALSE)
               PROVE  /\ in > 0 /\ quote(d, in, TRUE) >= 0 => quote(d, in, TRUE) >= amount
                      /\ calculate_result # None /\ Servable(d, amount) => in # Panic
                      /\ quote(d, amount, TRUE) # Panic
    BY DEF ExactOutSound
  <1>0. /\ \A z : z = Err \/ z = 0 \/ z = Panic => ~(z > 0)
        /\ \A z : z = Err => ~(z >= 0)
        /\ Err # Panic /\ 0 # Panic
    BY DEF Err, Panic
  <1>1. amount \in Nat
    BY TradesAssumption
  <1>2. \/ in = Err \/ in = 0
        \/ in = Panic /\ OutOfReach(d, amount)
        \/ AskedFor(d, amount, in)
    BY <1>1, QuoteOut
  <1>3. ASSUME AskedFor(d, amount, in) PROVE in \in Nat
    BY <1>1, <1>3, ExactOutFacts DEF AskedFor
  <1>4. ASSUME in > 0, quote(d, in, TRUE) >= 0
        PROVE  quote(d, in, TRUE) >= amount
    <2>1. AskedFor(d, amount, in)
      BY <1>0, <1>2, <1>4, Zenon
    <2>2. in \in Nat /\ in # 0
      BY <1>0, <1>3, <1>4, <2>1, Zenon
    <2>3. PICK out : out = quote(d, in, TRUE)
      OBVIOUS
    <2>4. out # Err
      BY <1>0, <1>4, <2>3, Zenon
    <2>5. PaidByCurve(d, in, out)
      BY <2>2, <2>3, <2>4, QuoteIn, Zenon
    <2>6. out \in Nat /\ amount <= out
      BY <1>1, <1>4, <2>1, <2>5, ExactOutBuys
    <2>7. out >= amount
      BY <1>1, <2>6
    <2> QED
      BY <2>3, <2>7, Zenon
  <1>5. quote(d, amount, TRUE) # Panic
    <2>1. PICK out : out = quote(d, amount, TRUE)
      OBVIOUS
    <2>2. out = Err \/ out = 0 \/ PaidByCurve(d, amount, out)
      BY <1>1, <2>1, QuoteIn, Zenon
    <2>3. PaidByCurve(d, amount, out) => out \in Nat
      BY <1>1, CurveFacts DEF PaidByCurve
    <2>4. \A z \in Nat : z # Panic
      BY DEF Panic
    <2> QED
      BY <1>0, <2>1, <2>2, <2>3, <2>4, Zenon
  <1>6. ASSUME in = Panic PROVE OutOfReach(d, amount)
    <2>1. \A z \in Nat : z # Panic
      BY DEF Panic
    <2> QED
      BY <1>0, <1>2, <1>3, <1>6, <2>1, Zenon
  <1>7. in = Panic => ~Servable(d, amount)
    BY <1>1, <1>6, ExactOutPanics
  <1> QED
    BY <1>4, <1>5, <1>7, Zenon

\* An ExactOut quote asks for enough to buy what was wanted; it does not panic
\* for an output the pool can serve, and an ExactIn quote never does.
THEOREM ExactOutSoundHolds == Spec => []ExactOutSound
  BY ExactOutGood, TInvHolds, PTL
=============================================================================
