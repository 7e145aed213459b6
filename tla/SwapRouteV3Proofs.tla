------------------------- MODULE SwapRouteV3Proofs --------------------------
(***************************************************************************)
(* Custody theorems of the router program: for every set of mints, every    *)
(* route, every number of legs and any behaviour of the venues on the        *)
(* accounts they are given, a committed route leaves the balances that       *)
(* earlier transactions left in the PDA, and the closing check fires only    *)
(* when some venue took more than its input.  A second invariant, on top of  *)
(* that one, follows accounts and payments: no account is closed with tokens *)
(* in it, the user pays exactly the amount asked for, and a route that       *)
(* spends all it gets leaves nothing behind.                                 *)
(***************************************************************************)
EXTENDS SwapRouteV3, WellFoundedInduction, TLAPS

\* The instruction has started and not ended; the balances are recorded.
Running == pc \in {"create", "snapshot", "fund", "legs", "settle", "check"}
Recorded == pc \in {"fund", "legs", "settle", "check"}

\* Nothing has moved before the balances are recorded.
Untouched == pc \in {"create", "snapshot"} => pda = saved.pda

\* What is recorded is what the transaction found, under both of the keys the
\* code uses: position in the mint list and account.
RecordsStart ==
    Recorded =>
        /\ reserved = [i \in 1 .. Len(route.mints) |-> saved.pda[route.mints[i]]]
        /\ RouteMints(route) \subseteq DOMAIN snapshot /\ DOMAIN snapshot \subseteq Mints
        /\ \A m \in DOMAIN snapshot : snapshot[m] = saved.pda[m]

\* Every account that a venue can be given is recorded ...
ExtraRecorded ==
    pc \in {"fund", "legs"} =>
        \A x \in route.extra : pdaOpen[x] => x \in DOMAIN snapshot

\* ... and an account that is not recorded never loses anything.
UnrecordedKeep ==
    Recorded => \A m \in Mints \ DOMAIN snapshot : pda[m] >= saved.pda[m]

\* While the venues are honest no account does.
HonestKeep ==
    Recorded /\ honest => \A m \in Mints : pda[m] >= saved.pda[m]

\* The locals of the next transaction are those of a fresh one.
CreatedIdle == pc \in {"idle", "create"} => created = {}
LegFirst == pc \in {"idle", "create", "snapshot", "fund"} => leg = 1

\* A ledger that is read is a readable one.
LedgerUsable == Running => ledger # WrongLedger

IInv ==
    /\ TypeOK
    /\ Running => WellFormed(route)
    /\ pc = "legs" => leg \in 1 .. Len(route.legs)
    /\ Untouched /\ RecordsStart /\ ExtraRecorded /\ UnrecordedKeep /\ HonestKeep
    /\ Running <=> outcome = "running"
    /\ CreatedIdle /\ LegFirst /\ LedgerUsable
    /\ ReservedNeverTaken
    /\ HonestNeverViolates

-----------------------------------------------------------------------------
\* A weight of at most the unit never asks for more than is available.
LEMMA MulMono ==
    ASSUME NEW a \in Nat, NEW w \in Nat, NEW u \in Nat, w <= u
    PROVE  a * w \in Nat /\ a * w <= a * u
BY SMT

\* Flooring division undoes the multiplication that bounds its argument.
LEMMA DivLe ==
    ASSUME NEW a \in Nat, NEW x \in Nat, NEW u \in Nat \ {0}, x <= a * u
    PROVE  x \div u \in Nat /\ x \div u <= a
<1>1. PICK q \in Int : q = x \div u  OBVIOUS
<1>2. q * u <= x /\ x < (q + 1) * u  BY <1>1, SMT
<1>3. q >= 0  BY <1>2, SMT
<1>4. q <= a  BY <1>2, SMT
<1> QED  BY <1>1, <1>3, <1>4

\* The components of a route.
LEMMA RouteParts ==
    ASSUME NEW r \in Routes, WellFormed(r)
    PROVE  /\ Len(r.mints) \in Nat /\ Len(r.legs) \in Nat \ {0}
           /\ \A i \in 1 .. Len(r.mints) : r.mints[i] \in RouteMints(r)
           /\ RouteMints(r) \subseteq Mints
           /\ 1 \in 1 .. Len(r.mints)
           /\ r.extra \subseteq Mints
           /\ \A k \in 1 .. Len(r.legs) :
                 /\ r.legs[k] \in Leg
                 /\ r.legs[k].from \in 1 .. Len(r.mints)
                 /\ r.legs[k].to \in 1 .. Len(r.mints)
<1>1. r \in Route  BY RoutesAssumption
<1>2. r.mints \in Seq(Mints) /\ r.legs \in Seq(Leg) /\ r.extra \subseteq Mints
  BY <1>1 DEF Route
<1>3. Len(r.mints) \in Nat /\ Len(r.legs) \in Nat \ {0} /\ Len(r.mints) > 1
  BY <1>2 DEF WellFormed
<1>4. \A i \in 1 .. Len(r.mints) : r.mints[i] \in RouteMints(r) /\ r.mints[i] \in Mints
  BY <1>2 DEF RouteMints
<1>5. RouteMints(r) \subseteq Mints  BY <1>4 DEF RouteMints
<1>6. \A k \in 1 .. Len(r.legs) : r.legs[k] \in Leg  BY <1>2
<1>7. \A k \in 1 .. Len(r.legs) : r.legs[k].from \in 1 .. Len(r.mints)
                               /\ r.legs[k].to \in 1 .. Len(r.mints)
  BY <1>3, <1>6 DEF WellFormed, Leg
<1> QED  BY <1>2, <1>3, <1>4, <1>5, <1>6, <1>7

\* A withheld fee is at most what is transferred.
LEMMA FeeBound ==
    ASSUME NEW m, NEW x \in Nat
    PROVE  Fee(m, x) \in Nat /\ Fee(m, x) <= x
BY DEF Fee

\* Adding to one balance changes that one only.
LEMMA AddBalance ==
    ASSUME NEW f \in Balances, NEW m \in Mints, NEW x \in Int, f[m] + x \in Nat
    PROVE  /\ Add(f, m, x) \in Balances
           /\ Add(f, m, x)[m] = f[m] + x
           /\ \A y \in Mints \ {m} : Add(f, m, x)[y] = f[y]
BY DEF Balances, Add

\* In the leg phase, both ends of the leg are recorded accounts, and a leg
\* spends at most what the input account holds above its recorded balance.
LEMMA LegFacts ==
    ASSUME IInv, pc = "legs"
    PROVE  /\ Swap \in Leg
           /\ FromMint \in Mints /\ ToMint \in Mints
           /\ FromMint \in DOMAIN snapshot /\ ToMint \in DOMAIN snapshot
           /\ reserved[Swap.from] = saved.pda[FromMint]
           /\ available_balance \in Nat
           /\ available_balance = saturating_sub(pda[FromMint], saved.pda[FromMint])
           /\ input_amount \in Nat /\ input_amount <= available_balance
<1>1. /\ TypeOK /\ WellFormed(route) /\ leg \in 1 .. Len(route.legs) /\ RecordsStart
  BY DEF IInv, Running
<1>2. route \in Routes  BY <1>1 DEF TypeOK
<1>3. /\ Swap \in Leg /\ Swap.from \in 1 .. Len(route.mints) /\ Swap.to \in 1 .. Len(route.mints)
  BY <1>1, <1>2, RouteParts DEF Swap
<1>4. /\ FromMint \in RouteMints(route) /\ ToMint \in RouteMints(route)
      /\ RouteMints(route) \subseteq Mints
  BY <1>1, <1>2, <1>3, RouteParts DEF FromMint, ToMint
<1>5. /\ reserved = [i \in 1 .. Len(route.mints) |-> saved.pda[route.mints[i]]]
      /\ RouteMints(route) \subseteq DOMAIN snapshot
  BY <1>1 DEF RecordsStart, Recorded
<1>6. reserved[Swap.from] = saved.pda[FromMint]
  BY <1>3, <1>5 DEF FromMint
<1>7. pda[FromMint] \in Nat /\ saved.pda[FromMint] \in Nat
  BY <1>1, <1>4 DEF TypeOK, Balances
<1>8. available_balance = saturating_sub(pda[FromMint], saved.pda[FromMint])
  BY <1>6 DEF available_balance
<1>9. available_balance \in Nat
  BY <1>7, <1>8 DEF saturating_sub
<1>10. Weight \in Nat /\ Weight <= WeightUnit
  BY <1>3, WeightAssumption DEF Weight, Leg
<1>11. input_amount \in Nat /\ input_amount <= available_balance
  <2>1. /\ available_balance * Weight \in Nat
        /\ available_balance * Weight <= available_balance * WeightUnit
    BY <1>9, <1>10, MulMono, WeightAssumption
  <2> QED  BY <2>1, <1>9, DivLe, WeightAssumption DEF input_amount
<1> QED  BY <1>3, <1>4, <1>5, <1>6, <1>8, <1>9, <1>11

\* The final check and every error leave the invariant: an error restores the
\* accounts, a success changes none.
LEMMA EndIInv ==
    ASSUME IInv, NEW how \in {"Ok", "Err", "ReservedBalanceViolation"},
           End(how), UNCHANGED <<saved, args, honest>>,
           how = "Ok" => \A m \in Mints : pda[m] >= saved.pda[m],
           how = "ReservedBalanceViolation" => ~honest
    PROVE  IInv'
<1>1. TypeOK  BY DEF IInv
<1>2. TypeOK'
  <2>1. saved' = saved /\ route' = route /\ amount' = amount /\ ledger' = ledger /\ honest' = honest
    BY DEF args
  <2>2. CASE how = "Ok"
    BY <1>1, <2>1, <2>2 DEF TypeOK, End, bank, Balances
  <2>3. CASE how # "Ok"
    <3>1. /\ pda' = saved.pda /\ pdaOpen' = saved.pdaOpen
          /\ user' = saved.user /\ userOpen' = saved.userOpen
          /\ pool' = saved.pool /\ withheld' = saved.withheld /\ lamports' = saved.lamports
      BY <2>3 DEF End
    <3> QED  BY <1>1, <2>1, <3>1 DEF TypeOK, End
  <2> QED  BY <2>2, <2>3
<1>3. ~Running' /\ ~Recorded' /\ pc' = "idle"  BY DEF End, Running, Recorded
<1>4. ReservedNeverTaken'
  <2>1. CASE how = "Ok"
    BY <2>1 DEF ReservedNeverTaken, Committed, End, bank
  <2>2. CASE how # "Ok"
    BY <2>2 DEF ReservedNeverTaken, Committed, End
  <2> QED  BY <2>1, <2>2
<1>5. HonestNeverViolates'  BY DEF HonestNeverViolates, End
<1>6. outcome' # "running"  BY DEF End
<1> QED
  BY <1>2, <1>3, <1>4, <1>5, <1>6
  DEF IInv, Untouched, RecordsStart, ExtraRecorded, UnrecordedKeep, HonestKeep,
      CreatedIdle, LegFirst, LedgerUsable, End

-----------------------------------------------------------------------------
\* Every initial state satisfies the invariant.
LEMMA InitIInv == Init => IInv
<1> SUFFICES ASSUME Init PROVE IInv  OBVIOUS
<1>1. /\ pda \in Balances /\ user \in Balances
  BY InitialAssumption DEF Init, Balances
<1>2. /\ pool \in Balances /\ withheld \in Balances /\ lamports \in Nat
      /\ userOpen \in [Mints -> BOOLEAN] /\ pdaOpen \in [Mints -> BOOLEAN]
  BY InitialAssumption DEF Init, Balances
<1>3. saved \in [pda: Balances, pdaOpen: [Mints -> BOOLEAN], user: Balances,
                  userOpen: [Mints -> BOOLEAN], pool: Balances, withheld: Balances,
                  lamports: Nat]
  BY <1>1, <1>2 DEF Init, Bank
<1>4. route \in Routes /\ amount \in Amounts /\ ledger \in Ledgers
  BY RoutesAssumption, AmountsAssumption, LedgersAssumption DEF Init
<1>5. TypeOK  BY <1>1, <1>2, <1>3, <1>4 DEF Init, TypeOK
<1> QED
  BY <1>5 DEF Init, IInv, Running, Recorded, Untouched, RecordsStart, ExtraRecorded, CreatedIdle, LegFirst, LedgerUsable,
              UnrecordedKeep, HonestKeep, ReservedNeverTaken, HonestNeverViolates, Committed

\* A submission records the accounts to return to and touches none.
LEMMA SubmitIInv == IInv /\ Submit => IInv'
<1> SUFFICES ASSUME IInv, Submit PROVE IInv'  OBVIOUS
<1> USE DEF Submit
<1>1. TypeOK  BY DEF IInv
<1>2. PICK r \in Routes, a \in Amounts, l \in Ledgers :
          /\ route' = r /\ amount' = a /\ ledger' = l
          /\ IF WellFormed(r) /\ l # WrongLedger
               THEN pc' = "create" /\ outcome' = "running"
               ELSE pc' = "idle" /\ outcome' = "Err"
  OBVIOUS
<1>3. /\ pda' = pda /\ pdaOpen' = pdaOpen /\ user' = user /\ userOpen' = userOpen
      /\ pool' = pool /\ withheld' = withheld /\ lamports' = lamports
      /\ created' = created /\ leg' = leg /\ pos' = pos
  BY DEF bank, progress
<1>4. saved'.pda = pda  BY DEF Bank
<1>5. saved' \in [pda: Balances, pdaOpen: [Mints -> BOOLEAN], user: Balances,
                  userOpen: [Mints -> BOOLEAN], pool: Balances, withheld: Balances,
                  lamports: Nat]
  BY <1>1 DEF Bank, TypeOK
<1>6. created' = {}  BY <1>3 DEF IInv, CreatedIdle
<1>7. TypeOK'  BY <1>1, <1>2, <1>3, <1>5, <1>6 DEF TypeOK
<1>8. Running' => WellFormed(route')  BY <1>2 DEF Running
<1> QED
  BY <1>2, <1>3, <1>4, <1>6, <1>7, <1>8 
  DEF IInv, Running, Recorded, Untouched, RecordsStart, ExtraRecorded, CreatedIdle, LegFirst, LedgerUsable,
      UnrecordedKeep, HonestKeep, ReservedNeverTaken, HonestNeverViolates, Committed

\* Creating accounts moves no tokens.
LEMMA CreateIInv == IInv /\ CreateAtas => IInv'
<1> SUFFICES ASSUME IInv, CreateAtas PROVE IInv'  OBVIOUS
<1> USE DEF CreateAtas, args
<1>1. TypeOK /\ WellFormed(route) /\ pda = saved.pda
  BY DEF IInv, Running, Untouched
<1>2. pdaOpen' \in [Mints -> BOOLEAN]  BY <1>1 DEF TypeOK
<1>3. created' \subseteq 1 .. Len(route'.mints)  OBVIOUS
<1>4. TypeOK'  BY <1>1, <1>2, <1>3 DEF TypeOK
<1>5. WellFormed(route')  BY <1>1
<1> QED
  BY <1>1, <1>4, <1>5
  DEF IInv, Running, Recorded, Untouched, RecordsStart, ExtraRecorded, CreatedIdle, LegFirst, LedgerUsable,
      UnrecordedKeep, HonestKeep, ReservedNeverTaken, HonestNeverViolates, Committed

\* The recording is made before anything moves, so it is of the balances found.
LEMMA SnapshotIInv == IInv /\ Snapshot => IInv'
<1> SUFFICES ASSUME IInv, Snapshot PROVE IInv'  OBVIOUS
<1> USE DEF Snapshot, args, bank
<1>1. TypeOK /\ WellFormed(route) /\ pda = saved.pda /\ route \in Routes
  BY DEF IInv, Running, Untouched, TypeOK
<1>2. TypeOK'  BY <1>1 DEF TypeOK
<1>3. RouteMints(route) \subseteq Mints /\ route.extra \subseteq Mints
  BY <1>1, RouteParts
<1>4. /\ DOMAIN snapshot' = RouteMints(route) \cup {x \in route.extra : pdaOpen[x]}
      /\ \A m \in DOMAIN snapshot' : snapshot'[m] = saved.pda[m]
  BY <1>1
<1>5. RecordsStart'
  BY <1>1, <1>3, <1>4 DEF RecordsStart
<1>6. ExtraRecorded'  BY <1>4 DEF ExtraRecorded
<1>7. UnrecordedKeep' /\ HonestKeep'
  BY <1>1 DEF UnrecordedKeep, HonestKeep, TypeOK, Balances
<1>8. WellFormed(route')  BY <1>1
<1> QED
  BY <1>2, <1>5, <1>6, <1>7, <1>8
  DEF IInv, Running, Untouched, CreatedIdle, LegFirst, LedgerUsable, ReservedNeverTaken, HonestNeverViolates, Committed

\* The input only adds to the account it is sent to.
LEMMA FundIInv == IInv /\ Fund => IInv'
<1> SUFFICES ASSUME IInv, Fund PROVE IInv'  OBVIOUS
<1> DEFINE m == InputMint
           e == effective_amount
           fee == Fee(m, e)
<1>1. /\ TypeOK /\ WellFormed(route) /\ route \in Routes
      /\ RecordsStart /\ ExtraRecorded /\ UnrecordedKeep /\ HonestKeep
  BY DEF IInv, Running, TypeOK, Fund
<1>2. m \in Mints  BY <1>1, RouteParts DEF InputMint
<1>3. user[m] \in Nat /\ amount \in Nat /\ (ledger # NoLedger => ledger \in Nat \cup {WrongLedger})
  BY <1>1, <1>2, AmountsAssumption, LedgersAssumption DEF TypeOK, Balances
<1>4. e \in Nat
  <2>1. CASE ledger = NoLedger  BY <1>3, <2>1 DEF effective_amount
  <2>2. CASE ledger # NoLedger
    <3>1. ledger \in Nat  BY <1>1, <1>3, <2>2 DEF LedgerUsable, IInv, Fund, Running
    <3>2. e \in Int  BY <1>3, <2>2, <3>1 DEF effective_amount
    <3>3. ~(e <= 0)  BY <2>2 DEF Fund, FundFails
    <3> QED  BY <3>2, <3>3
  <2> QED  BY <2>1, <2>2
<1>5. Deficit \in Nat
  BY <1>3, <1>4 DEF Deficit, saturating_sub
<1>6. lamports - Deficit \in Nat
  BY <1>1, <1>5 DEF Fund, FundFails, TypeOK
<1>7. user[m] + (Deficit - e) \in Nat
  BY <1>3, <1>4, <1>5 DEF Fund, FundFails
<1>8. fee \in Nat /\ fee <= e  BY <1>4, FeeBound
<1> HIDE DEF m, e, fee
<1>9. /\ lamports' = lamports - Deficit
      /\ user' = Add(user, m, Deficit - e)
      /\ pda' = Add(pda, m, e - fee)
      /\ withheld' = Add(withheld, m, fee)
  BY DEF Fund, m, e, fee
<1>10. /\ pda' \in Balances /\ user' \in Balances /\ withheld' \in Balances
  <2>1. pda[m] + (e - fee) \in Nat /\ withheld[m] + fee \in Nat /\ e - fee \in Int /\ Deficit - e \in Int
    BY <1>1, <1>2, <1>4, <1>5, <1>8 DEF TypeOK, Balances
  <2>2. pda \in Balances /\ user \in Balances /\ withheld \in Balances  BY <1>1 DEF TypeOK
  <2>3. Add(pda, m, e - fee) \in Balances  BY <1>2, <2>1, <2>2, AddBalance
  <2>4. Add(user, m, Deficit - e) \in Balances  BY <1>2, <1>7, <2>1, <2>2, AddBalance
  <2>5. Add(withheld, m, fee) \in Balances  BY <1>2, <1>8, <2>1, <2>2, AddBalance
  <2> QED  BY <1>9, <2>3, <2>4, <2>5
<1>11. TypeOK'
  BY <1>1, <1>6, <1>9, <1>10 DEF TypeOK, Fund, args, progress
<1>12. \A x \in Mints : pda[x] \in Nat /\ pda'[x] \in Nat /\ pda'[x] >= pda[x] /\ saved.pda[x] \in Nat
  <2>1. pda \in Balances /\ saved.pda \in Balances  BY <1>1 DEF TypeOK
  <2>2. pda[m] \in Nat  BY <1>2, <2>1 DEF Balances
  <2>3. e - fee \in Nat /\ pda[m] + (e - fee) \in Nat  BY <1>4, <1>8, <2>2
  <2>4. pda'[m] = pda[m] + (e - fee) /\ \A y \in Mints \ {m} : pda'[y] = pda[y]
    BY <1>2, <1>9, <2>1, <2>3, AddBalance
  <2> QED  BY <1>10, <2>1, <2>2, <2>3, <2>4 DEF Balances
<1>13. UNCHANGED <<saved, route, reserved, snapshot, pdaOpen, honest, outcome, created, ledger, leg>>
       /\ pc = "fund" /\ pc' = "legs"
  BY DEF Fund, args, progress
<1>14. RecordsStart' /\ ExtraRecorded'
  BY <1>1, <1>13 DEF RecordsStart, ExtraRecorded, Recorded
<1>15. UnrecordedKeep' /\ HonestKeep'
  BY <1>1, <1>12, <1>13 DEF UnrecordedKeep, HonestKeep, Recorded
<1>16. leg' \in 1 .. Len(route'.legs)
  BY <1>1, <1>13, RouteParts DEF IInv, LegFirst
<1>17. WellFormed(route')  BY <1>1, <1>13
<1> QED
  BY <1>11, <1>13, <1>14, <1>15, <1>16, <1>17
  DEF IInv, Running, Untouched, CreatedIdle, LegFirst, LedgerUsable, ReservedNeverTaken,
      HonestNeverViolates, Committed

-----------------------------------------------------------------------------
\* What every leg that goes on leaves alone, and where it goes.
LegFrame ==
    /\ pc = "legs" /\ NextLeg
    /\ UNCHANGED <<pdaOpen, user, userOpen, withheld, lamports, saved, args,
                   created, reserved, snapshot, outcome>>

\* A leg preserves the invariant if it moves balances of recorded accounts
\* only, and leaves the found balances unless its venue misbehaves.
LEMMA LegStepIInv ==
    ASSUME IInv, LegFrame, honest' \in BOOLEAN, honest' => honest,
           pda' \in Balances, pool' \in Balances,
           \A m \in Mints \ DOMAIN snapshot : pda'[m] = pda[m],
           honest' => \A m \in Mints : pda[m] >= saved.pda[m] => pda'[m] >= saved.pda[m]
    PROVE  IInv'
<1> USE DEF LegFrame, args
<1>1. /\ TypeOK /\ WellFormed(route) /\ route \in Routes /\ leg \in 1 .. Len(route.legs)
      /\ RecordsStart /\ ExtraRecorded /\ UnrecordedKeep /\ HonestKeep
  BY DEF IInv, Running, TypeOK
<1>2. /\ pc' \in {"legs", "settle"} /\ leg' \in Nat \ {0}
      /\ pc' = "legs" => leg' \in 1 .. Len(route.legs)
      /\ pos' \in Nat
  <2>1. Len(route.legs) \in Nat  BY <1>1, RouteParts
  <2>2. Swap.n \in Nat  BY LegFacts DEF Leg
  <2> QED  BY <1>1, <2>1, <2>2 DEF NextLeg, TypeOK
<1>3. TypeOK'  BY <1>1, <1>2 DEF TypeOK
<1>4. RecordsStart'  BY <1>1, <1>2 DEF RecordsStart, Recorded
<1>5. ExtraRecorded'  BY <1>1, <1>2 DEF ExtraRecorded
<1>6. UnrecordedKeep' /\ HonestKeep'
  BY <1>1, <1>2 DEF UnrecordedKeep, HonestKeep, Recorded
<1>7. WellFormed(route')  BY <1>1
<1> QED
  BY <1>2, <1>3, <1>4, <1>5, <1>6, <1>7
  DEF IInv, Running, Untouched, CreatedIdle, LegFirst, LedgerUsable, ReservedNeverTaken,
      HonestNeverViolates, Committed

\* A leg with nothing to spend moves nothing.
LEMMA SkipIInv == IInv /\ SkipLeg => IInv'
<1> SUFFICES ASSUME IInv, SkipLeg PROVE IInv'  OBVIOUS
<1>1. TypeOK  BY DEF IInv
<1>2. LegFrame /\ honest' = honest /\ pda' = pda /\ pool' = pool
  BY DEF SkipLeg, LegFrame, bank
<1> QED  BY <1>1, <1>2, LegStepIInv DEF TypeOK

\* An honest venue takes what the leg offers, so no found balance is spent.
LEMMA CpiSwapIInv == IInv /\ CpiSwap => IInv'
<1> SUFFICES ASSUME IInv, CpiSwap PROVE IInv'  OBVIOUS
<1>1. TypeOK /\ pc = "legs"  BY DEF IInv, CpiSwap
<1>2. PICK out \in 0 .. pool[ToMint] :
          /\ pda' = Add(Add(pda, FromMint, - input_amount), ToMint, out)
          /\ pool' = Add(Add(pool, FromMint, input_amount), ToMint, - out)
  BY DEF CpiSwap
<1> DEFINE f == FromMint
           t == ToMint
           x == input_amount
           p1 == Add(pda, f, - x)
           q1 == Add(pool, f, x)
<1>3. /\ f \in Mints /\ t \in Mints /\ f \in DOMAIN snapshot /\ t \in DOMAIN snapshot
      /\ x \in Nat /\ x <= saturating_sub(pda[f], saved.pda[f])
  BY <1>1, LegFacts
<1>4. /\ pda \in Balances /\ pool \in Balances /\ saved.pda \in Balances /\ honest \in BOOLEAN
  BY <1>1 DEF TypeOK
<1>5. /\ pda[f] \in Nat /\ pool[f] \in Nat /\ pool[t] \in Nat /\ saved.pda[f] \in Nat
      /\ saved.pda[t] \in Nat
  BY <1>3, <1>4 DEF Balances
<1>6. out \in Nat /\ out <= pool[t]  BY <1>2, <1>5
<1>7. LegFrame /\ honest' = honest  BY DEF CpiSwap, LegFrame
<1>8. pda' = Add(p1, t, out) /\ pool' = Add(q1, t, - out)  BY <1>2
<1> HIDE DEF f, t, x
<1>9. pda[f] + (- x) \in Nat /\ (pda[f] >= saved.pda[f] => pda[f] + (- x) >= saved.pda[f])
  BY <1>3, <1>5 DEF saturating_sub
<1>10. /\ p1 \in Balances /\ p1[f] = pda[f] + (- x)
       /\ \A y \in Mints \ {f} : p1[y] = pda[y]
  BY <1>3, <1>4, <1>9, AddBalance
<1>11. /\ q1 \in Balances /\ q1[f] = pool[f] + x
       /\ \A y \in Mints \ {f} : q1[y] = pool[y]
  BY <1>3, <1>4, <1>5, AddBalance
<1> HIDE DEF p1, q1
<1>12. p1[t] \in Nat /\ q1[t] \in Nat /\ q1[t] >= pool[t]
  BY <1>3, <1>5, <1>10, <1>11 DEF Balances
<1>13. /\ pda' \in Balances /\ pda'[t] = p1[t] + out
       /\ \A y \in Mints \ {t} : pda'[y] = p1[y]
  BY <1>3, <1>6, <1>8, <1>10, <1>12, AddBalance
<1>14. pool' \in Balances
  BY <1>3, <1>5, <1>6, <1>8, <1>11, <1>12, AddBalance
<1>15. \A m \in Mints \ DOMAIN snapshot : pda'[m] = pda[m]
  BY <1>3, <1>10, <1>13
<1>16. \A m \in Mints : pda[m] >= saved.pda[m] => p1[m] >= saved.pda[m]
  BY <1>9, <1>10
<1>17. \A m \in Mints : p1[m] >= saved.pda[m] => pda'[m] >= saved.pda[m]
  BY <1>3, <1>5, <1>6, <1>12, <1>13
<1> QED  BY <1>4, <1>7, <1>13, <1>14, <1>15, <1>16, <1>17, LegStepIInv

\* A venue that misbehaves reaches recorded accounts only.
LEMMA MisbehavesIInv == IInv /\ CpiMisbehaves => IInv'
<1> SUFFICES ASSUME IInv, CpiMisbehaves PROVE IInv'  OBVIOUS
<1>1. TypeOK /\ pc = "legs" /\ ExtraRecorded /\ RecordsStart
  BY DEF IInv, CpiMisbehaves
<1>2. PICK left \in [Reach -> Leaves] :
          /\ \A m \in Reach : left[m] <= pda[m] + pool[m]
          /\ pda' = [m \in Mints |-> IF m \in Reach THEN left[m] ELSE pda[m]]
          /\ pool' = [m \in Mints |->
                        IF m \in Reach THEN pool[m] + pda[m] - left[m] ELSE pool[m]]
  BY DEF CpiMisbehaves
<1>3. Reach \subseteq DOMAIN snapshot
  BY <1>1, LegFacts DEF Reach, ExtraRecorded
<1>4. pda \in Balances /\ pool \in Balances  BY <1>1 DEF TypeOK
<1>5. \A m \in Reach : left[m] \in Nat
  BY <1>2, LeavesAssumption
<1>6. pda' \in Balances /\ \A m \in Mints \ DOMAIN snapshot : pda'[m] = pda[m]
  BY <1>2, <1>3, <1>4, <1>5 DEF Balances
<1>7. pool' \in Balances
  <2>1. ASSUME NEW m \in Mints, m \in Reach
        PROVE  pool[m] + pda[m] - left[m] \in Nat
    BY <1>2, <1>4, <1>5, <2>1 DEF Balances
  <2> QED  BY <1>2, <1>4, <2>1 DEF Balances
<1>8. LegFrame /\ honest' = FALSE  BY DEF CpiMisbehaves, LegFrame
<1> QED  BY <1>6, <1>7, <1>8, LegStepIInv

-----------------------------------------------------------------------------
\* The output transfer takes only what exceeds the found balance.
LEMMA SettleIInv == IInv /\ Settle => IInv'
<1> SUFFICES ASSUME IInv, Settle PROVE IInv'  OBVIOUS
<1> DEFINE m == OutputMint
           out == traded_output_amount
           fee == Fee(m, out)
<1>1. /\ TypeOK /\ WellFormed(route) /\ route \in Routes
      /\ RecordsStart /\ UnrecordedKeep /\ HonestKeep
  BY DEF IInv, Running, TypeOK, Settle
<1>2. OutputIndex \in 1 .. Len(route.mints)
  BY <1>1, RouteParts DEF OutputIndex
<1>3. m \in Mints /\ m \in DOMAIN snapshot
  BY <1>1, <1>2, RouteParts DEF OutputMint, RecordsStart, Recorded, Settle
<1>4. reserved[OutputIndex] = saved.pda[m]
  BY <1>1, <1>2 DEF OutputMint, RecordsStart, Recorded, Settle
<1>5. /\ pda \in Balances /\ user \in Balances /\ withheld \in Balances /\ saved.pda \in Balances
  BY <1>1 DEF TypeOK
<1>6. pda[m] \in Nat /\ user[m] \in Nat /\ withheld[m] \in Nat /\ saved.pda[m] \in Nat
  BY <1>3, <1>5 DEF Balances
<1>7. out = saturating_sub(pda[m], saved.pda[m])
  BY <1>4 DEF traded_output_amount
<1>8. out \in Nat /\ out <= pda[m] /\ (pda[m] >= saved.pda[m] => pda[m] + (- out) >= saved.pda[m])
  BY <1>6, <1>7 DEF saturating_sub
<1>9. fee \in Nat /\ fee <= out  BY <1>8, FeeBound
<1>10. /\ pda' = Add(pda, m, - out)
       /\ user' = Add(user, m, out - fee)
       /\ withheld' = Add(withheld, m, fee)
       /\ userOpen' = [userOpen EXCEPT ![m] = TRUE]
  BY DEF Settle
<1> HIDE DEF m, out, fee
<1>11. /\ pda' \in Balances /\ pda'[m] = pda[m] + (- out)
       /\ \A y \in Mints \ {m} : pda'[y] = pda[y]
  BY <1>3, <1>5, <1>6, <1>8, <1>10, AddBalance
<1>12. user' \in Balances  BY <1>3, <1>5, <1>6, <1>8, <1>9, <1>10, AddBalance
<1>13. withheld' \in Balances  BY <1>3, <1>5, <1>6, <1>9, <1>10, AddBalance
<1>14. userOpen' \in [Mints -> BOOLEAN]  BY <1>1, <1>10 DEF TypeOK
<1>15. pdaOpen' \in [Mints -> BOOLEAN]  BY <1>1 DEF Settle, TypeOK
<1>16. UNCHANGED <<pool, lamports, saved, route, amount, ledger, created, reserved, snapshot,
                   leg, pos, outcome, honest>> /\ pc = "settle" /\ pc' = "check"
  BY DEF Settle, args, progress
<1>17. TypeOK'
  BY <1>1, <1>11, <1>12, <1>13, <1>14, <1>15, <1>16 DEF TypeOK
<1>18. \A y \in Mints : pda[y] >= saved.pda[y] => pda'[y] >= saved.pda[y]
  BY <1>8, <1>11
<1>19. RecordsStart'  BY <1>1, <1>16 DEF RecordsStart, Recorded
<1>20. UnrecordedKeep' /\ HonestKeep'
  BY <1>1, <1>16, <1>18 DEF UnrecordedKeep, HonestKeep, Recorded
<1>21. WellFormed(route')  BY <1>1, <1>16
<1> QED
  BY <1>16, <1>17, <1>19, <1>20, <1>21
  DEF IInv, Running, Untouched, ExtraRecorded, CreatedIdle, LegFirst, LedgerUsable,
      ReservedNeverTaken, HonestNeverViolates, Committed

\* The check covers exactly the accounts that may have lost something.
LEMMA CheckIInv == IInv /\ Check => IInv'
<1> SUFFICES ASSUME IInv, Check PROVE IInv'  OBVIOUS
<1> DEFINE ok == \A m \in DOMAIN snapshot : pda[m] >= snapshot[m]
           how == IF ok THEN "Ok" ELSE "ReservedBalanceViolation"
<1>1. RecordsStart /\ UnrecordedKeep /\ HonestKeep /\ pc = "check"
  BY DEF IInv, Check
<1>2. /\ DOMAIN snapshot \subseteq Mints
      /\ \A m \in DOMAIN snapshot : snapshot[m] = saved.pda[m]
      /\ \A m \in Mints \ DOMAIN snapshot : pda[m] >= saved.pda[m]
      /\ honest => \A m \in Mints : pda[m] >= saved.pda[m]
  BY <1>1 DEF RecordsStart, UnrecordedKeep, HonestKeep, Recorded
<1>3. ok => \A m \in Mints : pda[m] >= saved.pda[m]  BY <1>2
<1>4. ~ok => ~honest  BY <1>2
<1>5. End(how) /\ UNCHANGED <<saved, args, honest>>  BY DEF Check
<1>6. CASE ok
  <2>1. End("Ok")  BY <1>5, <1>6
  <2> QED  BY <1>3, <1>5, <1>6, <2>1, EndIInv
<1>7. CASE ~ok
  <2>1. End("ReservedBalanceViolation")  BY <1>5, <1>7
  <2> QED  BY <1>4, <1>5, <1>7, <2>1, EndIInv
<1> QED  BY <1>6, <1>7

\* Every step, and every stuttering step, preserves the invariant.
LEMMA NextIInv == IInv /\ [Next]_vars => IInv'
<1> SUFFICES ASSUME IInv, [Next]_vars PROVE IInv'  OBVIOUS
<1>1. CASE SnapshotError  BY <1>1, EndIInv DEF SnapshotError
<1>2. CASE FundError  BY <1>2, EndIInv DEF FundError
<1>3. CASE LegError  BY <1>3, EndIInv DEF LegError
<1>5. CASE CloseError  BY <1>5, EndIInv DEF CloseError
<1>4. CASE UNCHANGED vars
  BY <1>4 DEF vars, bank, args, progress, IInv, TypeOK, Running, Recorded, Untouched, RecordsStart,
      ExtraRecorded, CreatedIdle, LegFirst, LedgerUsable, UnrecordedKeep, HonestKeep,
      ReservedNeverTaken, HonestNeverViolates, Committed, Balances
<1> QED
  BY <1>1, <1>2, <1>3, <1>4, <1>5, SubmitIInv, CreateIInv, SnapshotIInv, FundIInv, SkipIInv,
     CpiSwapIInv, MisbehavesIInv, SettleIInv, CheckIInv
  DEF Next

\* The invariant holds in every reachable state.
THEOREM RouteIInv == Spec => []IInv
<1>1. Init => IInv  BY InitIInv
<1>2. IInv /\ [Next]_vars => IInv'  BY NextIInv
<1> QED  BY <1>1, <1>2, PTL DEF Spec

\* Balances stay natural numbers: no transfer of the instruction underflows.
THEOREM TypeCorrect == Spec => []TypeOK
<1>1. IInv => TypeOK  BY DEF IInv
<1> QED  BY <1>1, RouteIInv, PTL

\* No committed route has spent what it found in any account of the PDA,
\* whatever the venues did with its signature.
THEOREM ReservedNeverTakenHolds == Spec => []ReservedNeverTaken
<1>1. IInv => ReservedNeverTaken  BY DEF IInv
<1> QED  BY <1>1, RouteIInv, PTL

\* The closing check never rejects a route whose venues took their input only.
THEOREM HonestNeverViolatesHolds == Spec => []HonestNeverViolates
<1>1. IInv => HonestNeverViolates  BY DEF IInv
<1> QED  BY <1>1, RouteIInv, PTL

-----------------------------------------------------------------------------
(* The second layer: which accounts are open, what the user paid and what   *)
(* the legs leave behind, each relative to the state before the transaction. *)

\* A closed account holds nothing, now and in the state a rollback restores.
ClosedEmpty ==
    \A m \in Mints : /\ pda[m] > 0 => pdaOpen[m]
                     /\ user[m] > 0 => userOpen[m]
                     /\ saved.pda[m] > 0 => saved.pdaOpen[m]
                     /\ saved.user[m] > 0 => saved.userOpen[m]

\* Until the accounts of the route are settled all of them are open, and those
\* that were not before are the ones in the list of created accounts.
RouteOpen ==
    pc \in {"snapshot", "fund", "legs", "settle"} =>
        /\ \A m \in RouteMints(route) : pdaOpen[m]
        /\ \A m \in Mints : pdaOpen[m] /\ ~saved.pdaOpen[m] =>
               \E i \in created : route.mints[i] = m

NotYetCreated == pc = "create" => pdaOpen = saved.pdaOpen

\* Once they are settled, what is open and was not before holds tokens.
NewHold ==
    pc = "check" \/ Committed =>
        \A m \in Mints : pdaOpen[m] /\ ~saved.pdaOpen[m] => pda[m] > 0

\* No balance changes until the input is transferred ...
NothingMoved ==
    pc \in {"create", "snapshot", "fund"} =>
        /\ pda = saved.pda /\ user = saved.user
        /\ userOpen = saved.userOpen /\ lamports = saved.lamports

\* ... which takes what it should and nothing else; it stays so, but for an
\* output paid into the same account.
PaidAfterFunding ==
    /\ pc \in {"legs", "settle"} => Paid
    /\ (pc = "check" \/ Committed) /\ InputMint # OutputMint => Paid

\* Leg j names the account of m.
TouchedBy(j, m) ==
    m \in {route.mints[route.legs[j].from], route.mints[route.legs[j].to]}

\* In a route that spends everything, an account other than the output's that
\* differs from what was found has a leg before it that will spend it.
PendingLeg ==
    /\ pc = "legs" /\ honest /\ SpendsAll =>
         \A m \in Mints \ {OutputMint} :
             pda[m] = saved.pda[m] \/ \E j \in leg .. Len(route.legs) : TouchedBy(j, m)
    /\ pc = "settle" /\ honest /\ SpendsAll =>
         \A m \in Mints \ {OutputMint} : pda[m] = saved.pda[m]
    /\ (pc = "check" \/ Committed) /\ honest /\ SpendsAll => pda = saved.pda

AInv ==
    /\ ClosedEmpty /\ RouteOpen /\ NotYetCreated /\ NewHold
    /\ NothingMoved /\ PaidAfterFunding
    /\ PendingLeg

-----------------------------------------------------------------------------
\* The Boolean maps and the records of balances, read at one mint.
LEMMA BankTypes ==
    ASSUME TypeOK, NEW m \in Mints
    PROVE  /\ pda[m] \in Nat /\ user[m] \in Nat /\ saved.pda[m] \in Nat /\ saved.user[m] \in Nat
           /\ pdaOpen[m] \in BOOLEAN /\ userOpen[m] \in BOOLEAN
           /\ saved.pdaOpen[m] \in BOOLEAN /\ saved.userOpen[m] \in BOOLEAN
           /\ lamports \in Nat /\ saved.lamports \in Nat
BY DEF TypeOK, Balances

\* A non-empty set of natural numbers has a least element.
LEMMA Least ==
    ASSUME NEW T, T \subseteq Nat, T # {}
    PROVE  \E x \in T : \A y \in T : ~(y < x)
<1> DEFINE R == {ss \in Nat \X Nat : ss[1] < ss[2]}
<1>1. IsWellFoundedOn(R, Nat)
  BY NatLessThanWellFounded DEF OpToRel
<1>2. PICK x \in T : \A y \in T : ~(<<y, x>> \in R)
  <2> HIDE DEF R
  <2> QED BY <1>1, WFMin
<1> QED BY <1>2

\* The accounts of a route's input and output, and the sizes of its lists.
LEMMA Ends ==
    ASSUME IInv, Running
    PROVE  /\ route \in Routes /\ WellFormed(route)
           /\ InputMint \in Mints /\ InputMint \in RouteMints(route)
           /\ OutputIndex \in 1 .. Len(route.mints)
           /\ OutputMint \in Mints /\ OutputMint \in RouteMints(route)
           /\ Len(route.legs) \in Nat \ {0}
<1>1. route \in Routes /\ WellFormed(route)  BY DEF IInv, TypeOK
<1>2. OutputIndex \in 1 .. Len(route.mints)
  BY <1>1, RouteParts DEF OutputIndex
<1> QED  BY <1>1, <1>2, RouteParts DEF InputMint, OutputMint

\* The end of a transaction: a rollback restores a good state, and a success
\* finds the conditions of the last phase.
LEMMA EndAInv ==
    ASSUME IInv, AInv, NEW how \in {"Ok", "Err", "ReservedBalanceViolation"},
           End(how), UNCHANGED <<saved, args, honest>>, how = "Ok" => pc = "check"
    PROVE  AInv'
<1>1. /\ pc' = "idle" /\ outcome' = how /\ saved' = saved /\ honest' = honest
      /\ route' = route /\ amount' = amount /\ ledger' = ledger
  BY DEF End, args
<1>2. ~(pc' \in {"create", "snapshot", "fund", "legs", "settle", "check"})  BY <1>1
<1>3. Committed' => how = "Ok"  BY <1>1 DEF Committed
<1>4. how = "Ok" => /\ pda' = pda /\ pdaOpen' = pdaOpen /\ user' = user /\ userOpen' = userOpen
                    /\ lamports' = lamports /\ pc = "check"
  BY DEF End, bank
<1>5. how # "Ok" => /\ pda' = saved.pda /\ pdaOpen' = saved.pdaOpen
                    /\ user' = saved.user /\ userOpen' = saved.userOpen
  BY DEF End
<1>6. ClosedEmpty'  BY <1>1, <1>4, <1>5 DEF AInv, ClosedEmpty
<1>7. NewHold'  BY <1>1, <1>2, <1>3, <1>4 DEF AInv, NewHold
<1>8. PaidAfterFunding'
  BY <1>1, <1>2, <1>3, <1>4 DEF AInv, PaidAfterFunding, Paid, InputMint, OutputMint, OutputIndex
<1>9. PendingLeg'
  BY <1>1, <1>2, <1>3, <1>4 DEF AInv, PendingLeg, SpendsAll, OutputMint, OutputIndex
<1> QED
  BY <1>2, <1>6, <1>7, <1>8, <1>9 DEF AInv, RouteOpen, NotYetCreated, NothingMoved

\* Every initial state satisfies the second layer.
LEMMA InitAInv == Init => AInv
<1> SUFFICES ASSUME Init PROVE AInv  OBVIOUS
<1>1. pc = "idle" /\ ~Committed  BY DEF Init, Committed
<1>2. /\ saved.pda = pda /\ saved.pdaOpen = pdaOpen /\ saved.user = user
      /\ saved.userOpen = userOpen
  BY DEF Init, Bank
<1>3. \A m \in Mints : (pda[m] > 0 => pdaOpen[m]) /\ (user[m] > 0 => userOpen[m])
  BY DEF Init
<1> QED
  BY <1>1, <1>2, <1>3 DEF AInv, ClosedEmpty, RouteOpen, NotYetCreated, NewHold, NothingMoved,
     PaidAfterFunding, PendingLeg

\* A submission starts from the state it records.
LEMMA SubmitAInv == IInv /\ AInv /\ Submit => AInv'
<1> SUFFICES ASSUME IInv, AInv, Submit PROVE AInv'  OBVIOUS
<1>1. pc' \in {"create", "idle"} /\ outcome' # "Ok"  BY DEF Submit
<1>2. /\ pda' = pda /\ pdaOpen' = pdaOpen /\ user' = user /\ userOpen' = userOpen
      /\ lamports' = lamports
  BY DEF Submit, bank
<1>3. /\ saved'.pda = pda /\ saved'.pdaOpen = pdaOpen /\ saved'.user = user
      /\ saved'.userOpen = userOpen /\ saved'.lamports = lamports
  BY DEF Submit, Bank
<1>4. ClosedEmpty'  BY <1>2, <1>3 DEF AInv, ClosedEmpty
<1>5. ~Committed'  BY <1>1 DEF Committed
<1> QED
  BY <1>1, <1>2, <1>3, <1>4, <1>5
  DEF AInv, RouteOpen, NotYetCreated, NewHold, NothingMoved, PaidAfterFunding, PendingLeg

\* An account that is missing is created at the first place that lists it.
LEMMA CreateAInv == IInv /\ AInv /\ CreateAtas => AInv'
<1> SUFFICES ASSUME IInv, AInv, CreateAtas PROVE AInv'  OBVIOUS
<1>1. /\ pc = "create" /\ pc' = "snapshot" /\ route' = route /\ saved' = saved
      /\ pda' = pda /\ user' = user /\ userOpen' = userOpen /\ lamports' = lamports
      /\ pdaOpen' = [m \in Mints |-> pdaOpen[m] \/ m \in RouteMints(route)]
      /\ created' = {i \in 1 .. Len(route.mints) :
                      /\ ~pdaOpen[route.mints[i]]
                      /\ \A j \in 1 .. i - 1 : route.mints[j] # route.mints[i]}
  BY DEF CreateAtas, args
<1>2. TypeOK /\ WellFormed(route) /\ route \in Routes /\ RouteMints(route) \subseteq Mints
      /\ Len(route.mints) \in Nat
  BY <1>1, RouteParts DEF IInv, Running, TypeOK
<1>3. pdaOpen = saved.pdaOpen  BY <1>1 DEF AInv, NotYetCreated
<1>4. ClosedEmpty'  BY <1>1, <1>2, BankTypes DEF AInv, ClosedEmpty
<1>5. \A m \in RouteMints(route) : pdaOpen'[m]  BY <1>1, <1>2
<1>6. ASSUME NEW m \in Mints, pdaOpen'[m], ~saved.pdaOpen[m]
      PROVE  \E i \in created' : route.mints[i] = m
  <2>1. m \in RouteMints(route) /\ ~pdaOpen[m]  BY <1>1, <1>3, <1>6
  <2> DEFINE T == {i \in 1 .. Len(route.mints) : route.mints[i] = m}
  <2>2. T \subseteq Nat /\ T # {}  BY <1>2, <2>1 DEF RouteMints
  <2>3. PICK i \in T : \A y \in T : ~(y < i)
    <3> HIDE DEF T
    <3> QED  BY <2>2, Least
  <2>4. \A j \in 1 .. i - 1 : route.mints[j] # route.mints[i]
    BY <1>2, <2>3
  <2> QED  BY <1>1, <2>1, <2>3, <2>4
<1>7. RouteOpen'  BY <1>1, <1>5, <1>6 DEF RouteOpen
<1> QED
  BY <1>1, <1>4, <1>7
  DEF AInv, NotYetCreated, NewHold, NothingMoved, PaidAfterFunding, PendingLeg, Committed

\* Recording changes no account.
LEMMA SnapshotAInv == IInv /\ AInv /\ Snapshot => AInv'
<1> SUFFICES ASSUME IInv, AInv, Snapshot PROVE AInv'  OBVIOUS
<1>1. /\ pc = "snapshot" /\ pc' = "fund" /\ route' = route /\ saved' = saved
      /\ pda' = pda /\ user' = user /\ userOpen' = userOpen /\ lamports' = lamports
      /\ pdaOpen' = pdaOpen /\ created' = created
  BY DEF Snapshot, args, bank
<1> QED
  BY <1>1
  DEF AInv, ClosedEmpty, RouteOpen, NotYetCreated, NewHold, NothingMoved, PaidAfterFunding,
      PendingLeg, Committed

\* The funding transfer takes the amount: from the token account as far as it
\* goes, the rest from the user's SOL.  It moves no other account.
LEMMA FundAInv == IInv /\ AInv /\ Fund => AInv'
<1> SUFFICES ASSUME IInv, AInv, Fund PROVE AInv'  OBVIOUS
<1> DEFINE m == InputMint
           e == effective_amount
           fee == Fee(m, e)
           d == Deficit
<1>1. /\ pc = "fund" /\ pc' = "legs" /\ UNCHANGED <<saved, route, amount, ledger, created, leg>>
      /\ pdaOpen' = pdaOpen /\ userOpen' = userOpen /\ outcome' = outcome /\ ~FundFails
      /\ lamports' = lamports - d
      /\ user' = Add(user, m, d - e)
      /\ pda' = Add(pda, m, e - fee)
  BY DEF Fund, args, progress
<1>2. TypeOK /\ Running /\ ledger # WrongLedger
  BY <1>1 DEF IInv, Running, LedgerUsable
<1>3. m \in Mints /\ m \in RouteMints(route) /\ route \in Routes /\ WellFormed(route)
  BY <1>2, Ends
<1>4. /\ user[m] \in Nat /\ amount \in Nat /\ lamports \in Nat /\ userOpen[m] \in BOOLEAN
      /\ pda[m] \in Nat /\ user \in Balances /\ pda \in Balances
      /\ (ledger # NoLedger => ledger \in Nat)
  BY <1>2, <1>3, BankTypes, AmountsAssumption, LedgersAssumption DEF TypeOK
<1>5. /\ user = saved.user /\ userOpen = saved.userOpen /\ lamports = saved.lamports
      /\ pda[m] > 0 => pdaOpen[m]
      /\ user[m] > 0 => userOpen[m]
      /\ pdaOpen[m]
  BY <1>1, <1>3 DEF AInv, NothingMoved, ClosedEmpty, RouteOpen
<1>6. e \in Nat
  BY <1>1, <1>4 DEF effective_amount, FundFails
<1>7. d \in Nat
  BY <1>4, <1>6 DEF Deficit, saturating_sub
<1>8. user[m] + (d - e) \in Nat /\ d <= lamports
  BY <1>1, <1>4, <1>6, <1>7 DEF FundFails
<1>9. fee \in Nat /\ fee <= e  BY <1>6, FeeBound
<1>10. ~userOpen[m] => user[m] + (d - e) = 0
  <2> SUFFICES ASSUME ~userOpen[m] PROVE user[m] + (d - e) = 0  OBVIOUS
  <2>1. user[m] = 0  BY <1>4, <1>5
  <2>2. ledger = NoLedger  BY <1>1 DEF FundFails
  <2>3. CASE Wraps
    BY <2>1, <2>3, <1>6 DEF Deficit
  <2>4. CASE ~Wraps
    <3>1. ~(e > 0)  BY <1>1, <2>4 DEF FundFails
    <3> QED  BY <1>6, <2>1, <2>4, <3>1 DEF Deficit
  <2> QED  BY <2>3, <2>4
<1>11. d > 0 => user[m] + (d - e) = 0
  <2> SUFFICES ASSUME d > 0, userOpen[m] PROVE user[m] + (d - e) = 0  BY <1>10
  <2>1. d = saturating_sub(e, user[m])  BY DEF Deficit
  <2> QED  BY <1>4, <1>6, <1>7, <2>1 DEF saturating_sub
<1>12. ledger = NoLedger => e = amount  BY DEF effective_amount
<1> HIDE DEF m, e, fee, d
<1>13. /\ user'[m] = user[m] + (d - e)
       /\ \A y \in Mints \ {m} : user'[y] = user[y]
  BY <1>1, <1>3, <1>4, <1>6, <1>7, <1>8, AddBalance
<1>14. \A y \in Mints \ {m} : pda'[y] = pda[y]
  <2>1. pda[m] + (e - fee) \in Nat /\ e - fee \in Int  BY <1>4, <1>6, <1>9
  <2> QED  BY <1>1, <1>3, <1>4, <2>1, AddBalance
<1>15. ClosedEmpty'
  BY <1>1, <1>4, <1>5, <1>8, <1>10, <1>13, <1>14 DEF AInv, ClosedEmpty
<1>16. RouteOpen'  BY <1>1 DEF AInv, RouteOpen
<1>17. InputMint' = m  BY <1>1 DEF InputMint, m
<1>18. ASSUME ledger = NoLedger PROVE PaidAfterFunding'
  <2>1. /\ saved'.user[InputMint'] = user[m] /\ saved'.lamports = lamports
        /\ user'[InputMint'] = user[m] + (d - e) /\ lamports' = lamports - d /\ amount' = e
    BY <1>1, <1>5, <1>12, <1>13, <1>17, <1>18
  <2>2. user[m] + lamports - (user[m] + (d - e)) - (lamports - d) = e
    BY <1>4, <1>6, <1>7
  <2>3. lamports - d < lamports => user[m] + (d - e) = 0
    BY <1>4, <1>7, <1>11
  <2>4. Paid'  BY <1>1, <1>18, <2>1, <2>2, <2>3 DEF Paid
  <2> QED  BY <1>1, <2>4 DEF PaidAfterFunding, Committed
<1>21. ASSUME ledger # NoLedger PROVE PaidAfterFunding'
  <2>1. d = 0 /\ e = user[m] - ledger /\ ~(e <= 0)
    BY <1>1, <1>21 DEF d, e, m, Deficit, Wraps, effective_amount, FundFails
  <2>2. ledger \in Nat /\ user[m] > ledger /\ user[m] + (d - e) = ledger /\ lamports - d = lamports
    BY <1>4, <1>21, <2>1
  <2>3. Paid'  BY <1>1, <1>5, <1>13, <1>17, <1>21, <2>2 DEF Paid
  <2> QED  BY <1>1, <2>3 DEF PaidAfterFunding, Committed
<1>19. PaidAfterFunding'  BY <1>18, <1>21
<1>20. PendingLeg'
  <2>1. leg = 1 /\ Len(route.legs) \in Nat \ {0} /\ route.legs[1].from = 1
    BY <1>1, <1>2, <1>3, Ends DEF IInv, LegFirst, WellFormed
  <2>2. TouchedBy(1, m)  BY <2>1 DEF TouchedBy, InputMint, m
  <2>3. ASSUME NEW y \in Mints
        PROVE  pda'[y] = saved'.pda[y] \/ \E j \in leg' .. Len(route'.legs) : TouchedBy(j, y)'
    <3>1. CASE y = m
      <4>1. TouchedBy(1, y)'  BY <1>1, <2>2, <3>1 DEF TouchedBy
      <4>2. 1 \in leg' .. Len(route'.legs)  BY <1>1, <2>1
      <4> QED  BY <4>1, <4>2
    <3>2. CASE y # m
      BY <1>1, <1>14, <3>2 DEF AInv, NothingMoved
    <3> QED  BY <3>1, <3>2
  <2> QED  BY <1>1, <2>3 DEF PendingLeg, Committed
<1> QED
  BY <1>1, <1>15, <1>16, <1>19, <1>20 DEF AInv, NotYetCreated, NewHold, NothingMoved, Committed

-----------------------------------------------------------------------------
\* Division undoes multiplication.
LEMMA DivExact ==
    ASSUME NEW a \in Nat, NEW u \in Nat \ {0}
    PROVE  (a * u) \div u = a
<1>1. PICK x \in Nat : x = a * u  BY SMT
<1>2. PICK q \in Int : q = x \div u  OBVIOUS
<1>3. q * u <= x /\ x < (q + 1) * u  BY <1>2, SMT
<1>4. q <= a  BY <1>1, <1>3, SMT
<1>5. a <= q  BY <1>1, <1>3, SMT
<1> QED  BY <1>1, <1>2, <1>4, <1>5

\* A leg of full weight offers all that its input account holds above the
\* balance found.
LEMMA FullLeg ==
    ASSUME IInv, pc = "legs", honest, Swap.weight >= WeightUnit
    PROVE  input_amount = pda[FromMint] - saved.pda[FromMint]
<1>1. /\ FromMint \in Mints /\ Swap \in Leg /\ available_balance \in Nat
      /\ available_balance = saturating_sub(pda[FromMint], saved.pda[FromMint])
  BY LegFacts
<1>2. TypeOK /\ pda[FromMint] >= saved.pda[FromMint]
  BY <1>1 DEF IInv, HonestKeep, Recorded
<1>3. pda[FromMint] \in Nat /\ saved.pda[FromMint] \in Nat  BY <1>1, <1>2, BankTypes
<1>4. available_balance = pda[FromMint] - saved.pda[FromMint]
  BY <1>1, <1>2, <1>3 DEF saturating_sub
<1>5. Weight = WeightUnit  BY <1>1, WeightAssumption DEF Weight, Leg
<1>6. input_amount = available_balance
  BY <1>1, <1>5, DivExact, WeightAssumption DEF input_amount
<1> QED  BY <1>4, <1>6

\* A leg preserves the second layer if it changes balances of open accounts
\* only and, while the venues are honest, those of its own two mints only,
\* leaving the balance found in the input account of a leg of full weight.
LEMMA LegStepAInv ==
    ASSUME IInv, AInv, LegFrame, honest' => honest,
           \A m \in Mints : pda'[m] = pda[m] \/ pdaOpen[m],
           honest' => \A m \in Mints : m \notin {FromMint, ToMint} => pda'[m] = pda[m],
           honest' /\ FromMint # ToMint /\ Swap.weight >= WeightUnit =>
               pda'[FromMint] = saved.pda[FromMint]
    PROVE  AInv'
<1>1. /\ pc = "legs" /\ UNCHANGED <<saved, route, amount, ledger, created, outcome>>
      /\ pdaOpen' = pdaOpen /\ user' = user /\ userOpen' = userOpen /\ lamports' = lamports
  BY DEF LegFrame, args
<1>2. /\ leg \in 1 .. Len(route.legs) /\ Len(route.legs) \in Nat
  BY <1>1, Ends DEF IInv, Running
<1>3. /\ pc' = IF leg = Len(route.legs) THEN "settle" ELSE "legs"
      /\ leg' = IF leg = Len(route.legs) THEN leg ELSE leg + 1
  BY DEF LegFrame, NextLeg
<1>4. ~Committed' /\ pc' \in {"legs", "settle"}  BY <1>3 DEF Committed
<1>5. ClosedEmpty'  BY <1>1 DEF AInv, ClosedEmpty
<1>6. RouteOpen'  BY <1>1, <1>4 DEF AInv, RouteOpen
<1>7. PaidAfterFunding'
  BY <1>1, <1>4 DEF AInv, PaidAfterFunding, Paid, InputMint
<1>8. SpendsAll' <=> SpendsAll  BY <1>1 DEF SpendsAll, OutputMint, OutputIndex
<1>9. OutputMint' = OutputMint  BY <1>1 DEF OutputMint, OutputIndex
<1>10. ASSUME honest', SpendsAll, NEW m \in Mints \ {OutputMint}
       PROVE  pda'[m] = saved.pda[m] \/ \E j \in leg + 1 .. Len(route.legs) : TouchedBy(j, m)
  <2>1. SUFFICES ASSUME \A j \in leg + 1 .. Len(route.legs) : ~TouchedBy(j, m)
                 PROVE  pda'[m] = saved.pda[m]
    OBVIOUS
  <2>2. TouchedBy(leg, m) <=> m \in {FromMint, ToMint}
    BY DEF TouchedBy, FromMint, ToMint, Swap
  <2>3. CASE TouchedBy(leg, m)
    <3>1. FromMint = m /\ ToMint # m /\ Swap.weight >= WeightUnit
      BY <1>2, <1>10, <2>1, <2>3 DEF SpendsAll, TouchedBy, FromMint, ToMint, Swap
    <3> QED  BY <1>10, <3>1
  <2>4. CASE ~TouchedBy(leg, m)
    <3>1. pda'[m] = pda[m]  BY <1>10, <2>2, <2>4
    <3>2. \A j \in leg .. Len(route.legs) : ~TouchedBy(j, m)
      <4> SUFFICES ASSUME NEW j \in leg .. Len(route.legs) PROVE ~TouchedBy(j, m)  OBVIOUS
      <4>1. j = leg \/ j \in leg + 1 .. Len(route.legs)  BY <1>2
      <4> QED  BY <2>1, <2>4, <4>1
    <3>3. pda[m] = saved.pda[m]
      BY <1>1, <1>10, <3>2 DEF AInv, PendingLeg
    <3> QED  BY <3>1, <3>3
  <2> QED  BY <2>3, <2>4
<1>11. PendingLeg'
  <2>1. \A j, m : TouchedBy(j, m)' <=> TouchedBy(j, m)
    BY <1>1 DEF TouchedBy
  <2>2. CASE leg = Len(route.legs)
    <3>1. pc' = "settle" /\ leg + 1 .. Len(route.legs) = {}  BY <1>2, <1>3, <2>2
    <3> QED  BY <1>1, <1>4, <1>8, <1>9, <1>10, <3>1 DEF PendingLeg
  <2>3. CASE leg # Len(route.legs)
    <3>1. pc' = "legs" /\ leg' = leg + 1  BY <1>3, <2>3
    <3>2. ASSUME honest', SpendsAll, NEW m \in Mints \ {OutputMint}
          PROVE  pda'[m] = saved'.pda[m] \/ \E j \in leg' .. Len(route'.legs) : TouchedBy(j, m)'
      BY <1>1, <1>10, <2>1, <3>1, <3>2
    <3> QED  BY <1>4, <1>8, <1>9, <3>1, <3>2 DEF PendingLeg
  <2> QED  BY <2>2, <2>3
<1> QED
  BY <1>4, <1>5, <1>6, <1>7, <1>11 DEF AInv, NotYetCreated, NewHold, NothingMoved

\* Both ends of a leg are open accounts.
LEMMA LegOpen ==
    ASSUME IInv, AInv, pc = "legs"
    PROVE  pdaOpen[FromMint] /\ pdaOpen[ToMint]
<1>1. /\ route \in Routes /\ WellFormed(route) /\ leg \in 1 .. Len(route.legs)
  BY DEF IInv, Running, TypeOK
<1>2. FromMint \in RouteMints(route) /\ ToMint \in RouteMints(route)
  BY <1>1, RouteParts DEF FromMint, ToMint, Swap
<1> QED  BY <1>2 DEF AInv, RouteOpen

\* A leg with nothing to spend: at full weight its account is at what was found.
LEMMA SkipAInv == IInv /\ AInv /\ SkipLeg => AInv'
<1> SUFFICES ASSUME IInv, AInv, SkipLeg PROVE AInv'  OBVIOUS
<1>1. LegFrame /\ honest' = honest /\ pda' = pda /\ pc = "legs" /\ input_amount = 0
  BY DEF SkipLeg, LegFrame, bank
<1>2. FromMint \in Mints /\ TypeOK  BY <1>1, LegFacts DEF IInv
<1>3. honest /\ Swap.weight >= WeightUnit => pda[FromMint] = saved.pda[FromMint]
  BY <1>1, <1>2, FullLeg, BankTypes
<1> QED  BY <1>1, <1>3, LegStepAInv

\* An honest venue changes the leg's two accounts.
LEMMA CpiSwapAInv == IInv /\ AInv /\ CpiSwap => AInv'
<1> SUFFICES ASSUME IInv, AInv, CpiSwap PROVE AInv'  OBVIOUS
<1>1. LegFrame /\ honest' = honest /\ pc = "legs" /\ TypeOK
  BY DEF CpiSwap, LegFrame, IInv
<1>2. PICK out \in 0 .. pool[ToMint] :
          pda' = Add(Add(pda, FromMint, - input_amount), ToMint, out)
  BY DEF CpiSwap
<1>3. FromMint \in Mints /\ ToMint \in Mints  BY <1>1, LegFacts
<1>4. pda \in [Mints -> Nat]  BY <1>1 DEF TypeOK, Balances
<1>5. \A m \in Mints : m \notin {FromMint, ToMint} => pda'[m] = pda[m]
  BY <1>2, <1>3, <1>4 DEF Add
<1>6. FromMint # ToMint => pda'[FromMint] = pda[FromMint] + (- input_amount)
  BY <1>2, <1>3, <1>4 DEF Add
<1>7. ASSUME honest', FromMint # ToMint, Swap.weight >= WeightUnit
      PROVE  pda'[FromMint] = saved.pda[FromMint]
  <2>1. input_amount = pda[FromMint] - saved.pda[FromMint]
    BY <1>1, <1>7, FullLeg
  <2> QED  BY <1>1, <1>3, <1>6, <1>7, <2>1, BankTypes
<1>8. \A m \in Mints : pda'[m] = pda[m] \/ pdaOpen[m]
  BY <1>1, <1>5, LegOpen
<1> QED  BY <1>1, <1>5, <1>7, <1>8, LegStepAInv

\* A venue is given open accounts only.
LEMMA MisbehavesAInv == IInv /\ AInv /\ CpiMisbehaves => AInv'
<1> SUFFICES ASSUME IInv, AInv, CpiMisbehaves PROVE AInv'  OBVIOUS
<1>1. LegFrame /\ ~honest' /\ pc = "legs" /\ TypeOK
  BY DEF CpiMisbehaves, LegFrame, IInv
<1>2. PICK left \in [Reach -> Leaves] :
          pda' = [m \in Mints |-> IF m \in Reach THEN left[m] ELSE pda[m]]
  BY DEF CpiMisbehaves
<1>3. \A m \in Reach : pdaOpen[m]  BY <1>1, LegOpen DEF Reach
<1>4. \A m \in Mints : pda'[m] = pda[m] \/ pdaOpen[m]  BY <1>2, <1>3
<1> QED  BY <1>1, <1>4, LegStepAInv

-----------------------------------------------------------------------------
\* The output leaves the PDA's account at what was found there, and the created
\* accounts that are empty are closed.
LEMMA SettleAInv == IInv /\ AInv /\ Settle => AInv'
<1> SUFFICES ASSUME IInv, AInv, Settle PROVE AInv'  OBVIOUS
<1> DEFINE m == OutputMint
           out == traded_output_amount
           fee == Fee(m, out)
<1>1. /\ pc = "settle" /\ pc' = "check"
      /\ UNCHANGED <<lamports, saved, route, amount, ledger, created, outcome, honest>>
      /\ pda' = Add(pda, m, - out)
      /\ user' = Add(user, m, out - fee)
      /\ userOpen' = [userOpen EXCEPT ![m] = TRUE]
      /\ pdaOpen' = [y \in Mints |->
                      pdaOpen[y] /\ ~(pda'[y] = 0 /\ \E i \in created : route.mints[i] = y)]
  BY DEF Settle, args, progress
<1>2. TypeOK /\ Running /\ Recorded /\ RecordsStart /\ HonestKeep
  BY <1>1 DEF IInv, Running, Recorded
<1>3. m \in Mints /\ OutputIndex \in 1 .. Len(route.mints) /\ InputMint \in Mints
  BY <1>2, Ends
<1>4. /\ pda[m] \in Nat /\ saved.pda[m] \in Nat /\ user[m] \in Nat
      /\ pda \in Balances /\ user \in Balances /\ saved.pda \in Balances
      /\ pdaOpen \in [Mints -> BOOLEAN] /\ userOpen \in [Mints -> BOOLEAN]
  BY <1>2, <1>3, BankTypes DEF TypeOK
<1>5. out = saturating_sub(pda[m], saved.pda[m])
  BY <1>2, <1>3 DEF RecordsStart, traded_output_amount, OutputMint
<1>6. out \in Nat /\ out <= pda[m] /\ (pda[m] >= saved.pda[m] => pda[m] + (- out) = saved.pda[m])
  BY <1>4, <1>5 DEF saturating_sub
<1>7. fee \in Nat /\ fee <= out  BY <1>6, FeeBound
<1> HIDE DEF m, out, fee
<1>8. /\ pda' \in Balances /\ pda'[m] = pda[m] + (- out)
      /\ \A y \in Mints \ {m} : pda'[y] = pda[y]
  BY <1>1, <1>3, <1>4, <1>6, AddBalance
<1>9. \A y \in Mints \ {m} : user'[y] = user[y]
  BY <1>1, <1>3, <1>4, <1>6, <1>7, AddBalance
<1>10. \A y \in Mints : pda'[y] \in Nat /\ (pda'[y] > 0 => pda[y] > 0)
  <2> SUFFICES ASSUME NEW y \in Mints PROVE pda'[y] \in Nat /\ (pda'[y] > 0 => pda[y] > 0)
    OBVIOUS
  <2>1. pda'[y] \in Nat  BY <1>8 DEF Balances
  <2>2. CASE y = m  BY <1>4, <1>6, <1>8, <2>1, <2>2
  <2>3. CASE y # m  BY <1>8, <2>1, <2>3
  <2> QED  BY <2>2, <2>3
<1>11. \A y \in Mints : pdaOpen'[y] <=>
          pdaOpen[y] /\ ~(pda'[y] = 0 /\ \E i \in created : route.mints[i] = y)
  BY <1>1, <1>4, Zenon
<1>12. userOpen'[m] /\ \A y \in Mints \ {m} : userOpen'[y] = userOpen[y]
  BY <1>1, <1>3, <1>4
<1>13. ClosedEmpty'
  <2> SUFFICES ASSUME NEW y \in Mints
               PROVE  /\ pda'[y] > 0 => pdaOpen'[y]
                      /\ user'[y] > 0 => userOpen'[y]
                      /\ saved'.pda[y] > 0 => saved'.pdaOpen[y]
                      /\ saved'.user[y] > 0 => saved'.userOpen[y]
    BY DEF ClosedEmpty
  <2>1. /\ pda[y] > 0 => pdaOpen[y]
        /\ user[y] > 0 => userOpen[y]
        /\ saved.pda[y] > 0 => saved.pdaOpen[y]
        /\ saved.user[y] > 0 => saved.userOpen[y]
    BY DEF AInv, ClosedEmpty
  <2>2. pda'[y] > 0 => pda'[y] # 0  BY <1>10
  <2>3. pda'[y] > 0 => pdaOpen'[y]  BY <1>10, <1>11, <2>1, <2>2
  <2>4. user'[y] > 0 => userOpen'[y]  BY <1>9, <1>12, <2>1
  <2> QED  BY <1>1, <2>1, <2>3, <2>4
<1>14. NewHold'
  <2> SUFFICES ASSUME NEW y \in Mints, pdaOpen'[y], ~saved'.pdaOpen[y]
               PROVE  pda'[y] > 0
    BY DEF NewHold
  <2>1. pdaOpen[y] /\ ~saved.pdaOpen[y]  BY <1>1, <1>11
  <2>2. \E i \in created : route.mints[i] = y
    BY <1>1, <2>1 DEF AInv, RouteOpen
  <2>3. pda'[y] # 0  BY <1>11, <2>2
  <2> QED  BY <1>10, <2>3
<1>15. PaidAfterFunding'
  <2>1. /\ InputMint' = InputMint /\ OutputMint' = m
    BY <1>1 DEF InputMint, OutputMint, OutputIndex, m
  <2>2. Paid  BY <1>1 DEF AInv, PaidAfterFunding
  <2>3. InputMint # m => user'[InputMint] = user[InputMint]  BY <1>3, <1>9
  <2>4. InputMint # m => Paid'
    BY <1>1, <2>1, <2>2, <2>3 DEF Paid
  <2> QED  BY <1>1, <2>1, <2>4 DEF PaidAfterFunding
<1>16. PendingLeg'
  <2>1. SpendsAll' <=> SpendsAll  BY <1>1 DEF SpendsAll, OutputMint, OutputIndex
  <2>2. ASSUME honest, SpendsAll PROVE pda' = saved.pda
    <3>1. \A y \in Mints \ {m} : pda[y] = saved.pda[y]
      BY <1>1, <2>2 DEF AInv, PendingLeg, m
    <3>2. pda[m] >= saved.pda[m]  BY <1>2, <1>3, <2>2 DEF HonestKeep
    <3>3. \A y \in Mints : pda'[y] = saved.pda[y]  BY <1>6, <1>8, <3>1, <3>2
    <3> QED  BY <1>4, <1>8, <3>3 DEF Balances
  <2> QED  BY <1>1, <2>1, <2>2 DEF PendingLeg
<1> QED
  BY <1>1, <1>13, <1>14, <1>15, <1>16 DEF AInv, RouteOpen, NotYetCreated, NothingMoved

\* The closing check changes no account unless it rolls all of them back.
LEMMA CheckAInv == IInv /\ AInv /\ Check => AInv'
<1> SUFFICES ASSUME IInv, AInv, Check PROVE AInv'  OBVIOUS
<1> DEFINE ok == \A m \in DOMAIN snapshot : pda[m] >= snapshot[m]
<1>1. /\ pc = "check" /\ UNCHANGED <<saved, args, honest>>
      /\ End(IF ok THEN "Ok" ELSE "ReservedBalanceViolation")
  BY DEF Check
<1>2. CASE ok
  <2>1. End("Ok")  BY <1>1, <1>2
  <2> QED  BY <1>1, <2>1, EndAInv
<1>3. CASE ~ok
  <2>1. End("ReservedBalanceViolation")  BY <1>1, <1>3
  <2> QED  BY <1>1, <2>1, EndAInv
<1> QED  BY <1>2, <1>3

\* Every step preserves the second layer, given the first.
LEMMA NextAInv == IInv /\ AInv /\ [Next]_vars => AInv'
<1> SUFFICES ASSUME IInv, AInv, [Next]_vars PROVE AInv'  OBVIOUS
<1>1. CASE SnapshotError  BY <1>1, EndAInv DEF SnapshotError
<1>2. CASE FundError  BY <1>2, EndAInv DEF FundError
<1>3. CASE LegError  BY <1>3, EndAInv DEF LegError
<1>5. CASE CloseError  BY <1>5, EndAInv DEF CloseError
<1>4. CASE UNCHANGED vars
  <2>1. UNCHANGED <<pda, pdaOpen, user, userOpen, lamports, saved, pc, route, amount, ledger,
                    created, leg, outcome, honest>>
    BY <1>4 DEF vars, bank, args, progress
  <2>2. ClosedEmpty' /\ RouteOpen' /\ NotYetCreated' /\ NewHold' /\ NothingMoved'
    BY <2>1 DEF AInv, ClosedEmpty, RouteOpen, NotYetCreated, NewHold, NothingMoved, Committed
  <2>3. PaidAfterFunding'
    BY <2>1 DEF AInv, PaidAfterFunding, Paid, Committed, InputMint, OutputMint, OutputIndex
  <2>4. PendingLeg'
    BY <2>1 DEF AInv, PendingLeg, SpendsAll, TouchedBy, Committed, OutputMint, OutputIndex
  <2> QED  BY <2>2, <2>3, <2>4 DEF AInv
<1> QED
  BY <1>1, <1>2, <1>3, <1>4, <1>5, SubmitAInv, CreateAInv, SnapshotAInv, FundAInv, SkipAInv,
     CpiSwapAInv, MisbehavesAInv, SettleAInv, CheckAInv
  DEF Next

\* Both layers hold in every reachable state.
THEOREM RouteAInv == Spec => []AInv
<1>1. Init => AInv  BY InitAInv
<1>2. IInv /\ AInv /\ [Next]_vars => AInv'  BY NextAInv
<1> QED  BY <1>1, <1>2, RouteIInv, PTL DEF Spec

\* The PDA's accounts: none is closed with tokens in it, and a committed route
\* leaves open only those of the accounts it created that hold tokens.
THEOREM NoAccountLeakHolds == Spec => []NoAccountLeak
<1>1. AInv => NoAccountLeak  BY DEF AInv, ClosedEmpty, NewHold, NoAccountLeak
<1> QED  BY <1>1, RouteAInv, PTL

\* A committed route cost the user the amount asked for, wrapped SOL included,
\* and SOL was wrapped only for what the token account lacked; with a token
\* ledger it cost what had arrived since the ledger was set.
THEOREM UserPaysExactlyHolds == Spec => []UserPaysExactly
<1>1. AInv => UserPaysExactly
  BY DEF AInv, PaidAfterFunding, UserPaysExactly
<1> QED  BY <1>1, RouteAInv, PTL

\* A committed route whose last leg on each mint spends all of it leaves every
\* PDA account as it was, with any number of legs, splits, joins and cycles.
THEOREM NothingStrandedHolds == Spec => []NothingStranded
<1>1. AInv => NothingStranded  BY DEF AInv, PendingLeg, NothingStranded
<1> QED  BY <1>1, RouteAInv, PTL
=============================================================================
