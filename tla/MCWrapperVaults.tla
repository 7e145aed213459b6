-------------------------- MODULE MCWrapperVaults ---------------------------
(***************************************************************************)
(* Small sources for TLC: few slots in a year at high rates, so that every   *)
(* slot compounds a visible interest, and fees that step often.              *)
(***************************************************************************)
EXTENDS WrapperVaults

MCAmounts == 1 .. 4
MCLoans == [Save |-> {2}, Klend |-> {2}, Marginfi |-> {2}, Kvault |-> {1, 2}, Lulo |-> {2, 7}]
MCFees == {[protocol |-> 0, creator |-> 0], [protocol |-> 2500, creator |-> 2500]}
MCTicks == {[slots |-> 2, seconds |-> 1], [slots |-> 5, seconds |-> 4]}

SaveSteep ==
    [optimal_util |-> 40, max_util |-> 70, min_rate |-> 20, optimal_rate |-> 60,
     max_rate |-> 120, super_max_rate |-> 250, take_rate |-> 30, deposit_limit |-> 11]
\* A straight curve whose interest all goes to the protocol.
SaveFlat ==
    [optimal_util |-> 0, max_util |-> 100, min_rate |-> 0, optimal_rate |-> 100,
     max_rate |-> 100, super_max_rate |-> 100, take_rate |-> 100, deposit_limit |-> 8]
SavePools ==
    {[available |-> 0, borrowed |-> 0, fees |-> 0, supply |-> 0, last_update_slot |-> 0,
      config |-> SaveSteep],
     [available |-> 3, borrowed |-> 4 * WAD + 3, fees |-> WAD \div 3, supply |-> 5,
      last_update_slot |-> 0, config |-> SaveFlat],
     [available |-> 3, borrowed |-> 4 * WAD + 3, fees |-> WAD \div 3, supply |-> 5,
      last_update_slot |-> 0, config |-> SaveSteep]}

KlendCurve == <<[util |-> 0, rate |-> 1000], [util |-> 5000, rate |-> 6000],
                [util |-> 10000, rate |-> 30000]>>
KlendConfig(basis) ==
    [basis |-> basis, host_fixed_interest_rate_bps |-> 1500, protocol_take_rate_pct |-> 30,
     curve |-> KlendCurve, deposit_limit |-> 11]
NoCap == [interval |-> 0, capacity |-> 0, current_total |-> 0, start |-> 0]
Cap == [interval |-> 2, capacity |-> 2, current_total |-> 0, start |-> 0]
KlendPools ==
    {[available |-> 0, borrowed |-> 0, fees |-> 0, referrer_fees |-> 0, supply |-> 0,
      last_update_slot |-> 0, last_update_timestamp |-> 0, queued |-> 0, cap |-> NoCap,
      flags |-> {}, config |-> KlendConfig(0)],
     [available |-> 3, borrowed |-> 4 * ONE + 3, fees |-> ONE \div 3, referrer_fees |-> 7,
      supply |-> 5, last_update_slot |-> 0, last_update_timestamp |-> 1, queued |-> 2,
      cap |-> Cap, flags |-> {}, config |-> KlendConfig(1)]}

MarginfiCurve(type) ==
    [optimal_utilization_rate |-> FIX \div 2, plateau_interest_rate |-> FIX \div 4,
     max_interest_rate |-> 2 * FIX, insurance_fee_fixed_apr |-> 0,
     insurance_ir_fee |-> FIX \div 10, protocol_fixed_fee_apr |-> FIX \div 50,
     protocol_ir_fee |-> FIX \div 10, zero_util_rate |-> 0, hundred_util_rate |-> 60,
     points |-> <<[util |-> 128, rate |-> 10], [util |-> 0, rate |-> 0]>>,
     curve_type |-> type, deposit_limit |-> IF type = 0 THEN 9 ELSE 0, drift |-> FALSE]
NoFees == [enabled |-> FALSE, fee_rate |-> 0, fee_fixed |-> 0]
GroupFees == [enabled |-> TRUE, fee_rate |-> FIX \div 20, fee_fixed |-> FIX \div 20]
MarginfiPools ==
    {[available |-> 0, asset_share_value |-> FIX, liability_share_value |-> FIX,
      asset_shares |-> 0, liability_shares |-> 0, last_update |-> 0,
      operational_state |-> "Operational", config |-> MarginfiCurve(0), group |-> NoFees],
     [available |-> 3, asset_share_value |-> FIX + FIX \div 7,
      liability_share_value |-> FIX + FIX \div 5, asset_shares |-> 5 * FIX,
      liability_shares |-> 2 * FIX, last_update |-> 1,
      operational_state |-> "Operational", config |-> MarginfiCurve(1), group |-> GroupFees]}

KvaultReserve ==
    [available |-> 2, borrowed |-> 4 * ONE + 3, fees |-> 0, referrer_fees |-> 0, supply |-> 5,
     last_update_slot |-> 0, last_update_timestamp |-> 0, queued |-> 0, cap |-> NoCap,
     flags |-> {}, config |-> KlendConfig(0)]
Alloc(weight, ctokens) ==
    [weight |-> weight, cap |-> 20, ctokens |-> ctokens, reserve |-> KvaultReserve]
NoFarm == [used |-> FALSE, idle |-> 0, stake |-> 0, total_stake |-> 0, total_amount |-> 0]
Farm == [used |-> TRUE, idle |-> 0, stake |-> 0, total_stake |-> 6, total_amount |-> 3]
KvaultPools ==
    {[available |-> 0, shares_issued |-> 0, pending_fees |-> 0, prev_aum |-> 0,
      last_fee_charge_timestamp |-> 0, management_fee_bps |-> 0, performance_fee_bps |-> 0,
      min_deposit_amount |-> 1, min_withdraw_amount |-> 0, deposit_cap |-> 0,
      crank_fund_fee_per_reserve |-> 0, penalty_bps |-> 0, penalty_lamports |-> 0,
      global_penalty_bps |-> 0, global_penalty_lamports |-> 0,
      missing |-> FALSE, cached_aum |-> -1, allocs |-> <<>>, farm |-> NoFarm],
     [available |-> 1, shares_issued |-> 4, pending_fees |-> ONE \div 8, prev_aum |-> 4 * ONE,
      last_fee_charge_timestamp |-> 1, management_fee_bps |-> 2000, performance_fee_bps |-> 3000,
      min_deposit_amount |-> 0, min_withdraw_amount |-> 0, deposit_cap |-> 12,
      crank_fund_fee_per_reserve |-> 1, penalty_bps |-> 0, penalty_lamports |-> 0,
      global_penalty_bps |-> 1000, global_penalty_lamports |-> 0,
      missing |-> FALSE, cached_aum |-> -1, allocs |-> <<Alloc(1, 2), Alloc(0, 2)>>, farm |-> Farm]}

LuloPools ==
    {[protected_amount |-> 3, protected_total_supply |-> 3, deposit_limit |-> 60, halted |-> FALSE,
      ref_bps |-> 5000, charged_q60 |-> 0, avg_q60 |-> 0],
     [protected_amount |-> 7, protected_total_supply |-> 5, deposit_limit |-> 15, halted |-> FALSE,
      ref_bps |-> 3000, charged_q60 |-> Q60, avg_q60 |-> Q60]}

MCPools ==
    [Save |-> SavePools, Klend |-> KlendPools, Marginfi |-> MarginfiPools,
     Kvault |-> KvaultPools, Lulo |-> LuloPools]
MCSwitches ==
    [Save |-> {},
     Klend |-> {[flags |-> {"block_ctoken_usage"}], [flags |-> {"emergency_mode"}]},
     Marginfi |-> {[operational_state |-> "ReduceOnly"], [operational_state |-> "Paused"]},
     Kvault |-> {[missing |-> TRUE]},
     Lulo |-> {[halted |-> TRUE]}]
=============================================================================
