--------------------------- MODULE RpcClientCache ---------------------------
(***************************************************************************)
(* The RPC-backed account cache that venues refresh from                    *)
(* (src/account_caching/rpc_cache.rs), used by several tasks at once through *)
(* &self.  The DashMap is concurrent but only per entry: each lookup and     *)
(* each insert is one step, and a call is suspended while its RPC request    *)
(* is in flight.  reset_cache takes &mut self, so it runs only when no call  *)
(* is in progress.                                                          *)
(*                                                                          *)
(* The cluster is external: `ledger' is the sequence of account states by   *)
(* slot, and one RPC request is answered from the slot at which the node    *)
(* handles it.  An account's data is the slot that last wrote it.  Every    *)
(* cached value carries, as history only, the slot `at' it was read from.   *)
(***************************************************************************)
EXTENDS Naturals, Sequences

CONSTANTS
    Keys,       \* pubkeys
    Tasks,      \* concurrent callers
    Requests,   \* argument lists of get_accounts
    MaxSlot     \* bound on the slots explored

Missing == 0                       \* an account that does not exist

ASSUME RequestsAssumption == Requests \subseteq Seq(Keys) \ {<<>>}
ASSUME MaxSlotAssumption == MaxSlot \in Nat \ {0}

VARIABLES
    ledger,      \* account states by slot (external)
    cache,       \* DashMap<Pubkey, Option<Account>>
    pc,          \* where each task is in its call
    op,          \* which method the task is in
    pubkeys,     \* its argument
    pos,         \* its position in the loop it is in
    keys,        \* the cache misses collected so far
    result_map,  \* the results collected so far
    response,    \* answer of the RPC node, aligned with `keys'
    reply,       \* what the last finished call returned
    resetAt      \* slot of the last reset_cache (history)

taskVars == <<pc, op, pubkeys, pos, keys, result_map, response, reply>>
vars == <<ledger, cache, taskVars, resetAt>>

Slot == Len(ledger)
Version == 0 .. MaxSlot
Entry == [val: Version, at: 1 .. MaxSlot]
Empty == [k \in {} |-> 0]
NoReply == <<>>

\* DashMap::insert, AHashMap::insert
Put(map, k, v) == [x \in DOMAIN map \cup {k} |-> IF x = k THEN v ELSE map[x]]

-----------------------------------------------------------------------------
Init ==
    /\ ledger \in {<<accounts>> : accounts \in [Keys -> {Missing, 1}]}
    /\ cache = Empty
    /\ pc = [t \in Tasks |-> "idle"]
    /\ op = [t \in Tasks |-> "get_account"]
    /\ pubkeys = [t \in Tasks |-> <<>>]
    /\ pos = [t \in Tasks |-> 1]
    /\ keys = [t \in Tasks |-> <<>>]
    /\ result_map = [t \in Tasks |-> Empty]
    /\ response = [t \in Tasks |-> <<>>]
    /\ reply = [t \in Tasks |-> NoReply]
    /\ resetAt = 1

\* External: a transaction writes or closes an account in a new slot.
ChainWrite(k) ==
    /\ Slot < MaxSlot
    /\ \E v \in {Missing, Slot + 1} :
           ledger' = Append(ledger, [ledger[Slot] EXCEPT ![k] = v])
    /\ UNCHANGED <<cache, taskVars, resetAt>>

Begin(t, method, args) ==
    /\ pc[t] = "idle"
    /\ pc' = [pc EXCEPT ![t] = "scan"]
    /\ op' = [op EXCEPT ![t] = method]
    /\ pubkeys' = [pubkeys EXCEPT ![t] = args]
    /\ pos' = [pos EXCEPT ![t] = 1]
    /\ keys' = [keys EXCEPT ![t] = <<>>]
    /\ result_map' = [result_map EXCEPT ![t] = Empty]
    /\ response' = [response EXCEPT ![t] = <<>>]
    /\ reply' = [reply EXCEPT ![t] = NoReply]
    /\ UNCHANGED <<ledger, cache, resetAt>>

CallGetAccount(t) == \E k \in Keys : Begin(t, "get_account", <<k>>)
CallGetAccounts(t) == \E args \in Requests : Begin(t, "get_accounts", args)

\* The call ends; its locals are dropped.
Finish(t, value) ==
    /\ pc' = [pc EXCEPT ![t] = "idle"]
    /\ reply' = [reply EXCEPT ![t] = value]
    /\ pos' = [pos EXCEPT ![t] = 1]
    /\ keys' = [keys EXCEPT ![t] = <<>>]
    /\ result_map' = [result_map EXCEPT ![t] = Empty]
    /\ response' = [response EXCEPT ![t] = <<>>]
    /\ UNCHANGED <<op, pubkeys>>

\* cache.get(pubkey) for the next pubkey; a cached None is a hit.
Scan(t) ==
    LET k == pubkeys[t][pos[t]]
        misses == IF k \in DOMAIN cache THEN keys[t] ELSE Append(keys[t], k)
        last == pos[t] = Len(pubkeys[t])
    IN  /\ pc[t] = "scan"
        /\ IF op[t] = "get_account" /\ k \in DOMAIN cache
             THEN Finish(t, <<cache[k]>>)
             ELSE /\ keys' = [keys EXCEPT ![t] = misses]
                  /\ result_map' =
                        IF k \in DOMAIN cache
                          THEN [result_map EXCEPT ![t] = Put(@, k, cache[k])]
                          ELSE result_map
                  /\ pc' = [pc EXCEPT ![t] = IF ~last THEN "scan"
                                             ELSE IF misses = <<>> THEN "assemble"
                                             ELSE "rpc"]
                  /\ pos' = [pos EXCEPT ![t] = IF last THEN 1 ELSE @ + 1]
                  /\ UNCHANGED <<op, pubkeys, response, reply>>
        /\ UNCHANGED <<ledger, cache, resetAt>>

\* External: the node answers the one request of the call from one slot.
RpcAnswer(t) ==
    /\ pc[t] = "rpc"
    /\ response' = [response EXCEPT ![t] =
                        [i \in 1 .. Len(keys[t]) |->
                            [val |-> ledger[Slot][keys[t][i]], at |-> Slot]]]
    /\ pc' = [pc EXCEPT ![t] = "insert"]
    /\ UNCHANGED <<ledger, cache, op, pubkeys, pos, keys, result_map, reply, resetAt>>

\* Deliberate errors: a failed request starts the call again, without a limit;
\* a failed request clears the cache.
RpcErrorRetries(t) ==
    /\ pc[t] = "rpc"
    /\ pc' = [pc EXCEPT ![t] = "scan"]
    /\ pos' = [pos EXCEPT ![t] = 1]
    /\ keys' = [keys EXCEPT ![t] = <<>>]
    /\ result_map' = [result_map EXCEPT ![t] = Empty]
    /\ UNCHANGED <<ledger, cache, op, pubkeys, response, reply, resetAt>>

RpcErrorClears(t) ==
    /\ pc[t] = "rpc"
    /\ Finish(t, NoReply)
    /\ cache' = Empty
    /\ UNCHANGED <<ledger, resetAt>>

\* The request fails or times out: `?' returns FailedToFetchAccount.
RpcError(t) ==
    /\ pc[t] = "rpc"
    /\ Finish(t, NoReply)
    /\ UNCHANGED <<ledger, cache, resetAt>>

\* get_account: the RPC client reports a missing account as an error, and
\* nothing is cached; otherwise the account is cached and returned.
StoreOne(t) ==
    /\ pc[t] = "insert" /\ op[t] = "get_account"
    /\ LET account == response[t][1]
       IN  IF account.val = Missing
             THEN Finish(t, NoReply) /\ UNCHANGED cache
             ELSE /\ cache' = Put(cache, pubkeys[t][1], account)
                  /\ Finish(t, <<account>>)
    /\ UNCHANGED <<ledger, resetAt>>

\* Deliberate error: accounts the node does not know are skipped, as if the
\* response were flattened.
StoreManySkipsMissing(t) ==
    /\ pc[t] = "insert" /\ op[t] = "get_accounts"
    /\ LET k == keys[t][pos[t]]
           account == response[t][pos[t]]
           last == pos[t] = Len(keys[t])
       IN  /\ cache' = IF account.val = Missing THEN cache ELSE Put(cache, k, account)
           /\ result_map' = IF account.val = Missing THEN result_map
                            ELSE [result_map EXCEPT ![t] = Put(@, k, account)]
           /\ pos' = [pos EXCEPT ![t] = IF last THEN 1 ELSE @ + 1]
           /\ pc' = [pc EXCEPT ![t] = IF last THEN "assemble" ELSE "insert"]
    /\ UNCHANGED <<ledger, op, pubkeys, keys, response, reply, resetAt>>

\* get_accounts: one iteration of keys.zip(response), missing accounts included.
StoreMany(t) ==
    /\ pc[t] = "insert" /\ op[t] = "get_accounts"
    /\ LET k == keys[t][pos[t]]
           account == response[t][pos[t]]
           last == pos[t] = Len(keys[t])
       IN  /\ cache' = Put(cache, k, account)
           /\ result_map' = [result_map EXCEPT ![t] = Put(@, k, account)]
           /\ pos' = [pos EXCEPT ![t] = IF last THEN 1 ELSE @ + 1]
           /\ pc' = [pc EXCEPT ![t] = IF last THEN "assemble" ELSE "insert"]
    /\ UNCHANGED <<ledger, op, pubkeys, keys, response, reply, resetAt>>

\* Deliberate error: the cached accounts come first, then the fetched ones.
AssembleHitsFirst(t) ==
    /\ pc[t] = "assemble"
    /\ LET IsMiss(k) == \E i \in 1 .. Len(keys[t]) : keys[t][i] = k
           IsHit(k) == ~IsMiss(k)
           order == SelectSeq(pubkeys[t], IsHit) \o SelectSeq(pubkeys[t], IsMiss)
       IN  Finish(t, [i \in 1 .. Len(order) |-> result_map[t][order[i]]])
    /\ UNCHANGED <<ledger, cache, resetAt>>

\* get_accounts: results in input order; result_map.get(pubkey).unwrap().
Assemble(t) ==
    /\ pc[t] = "assemble"
    /\ Finish(t, [i \in 1 .. Len(pubkeys[t]) |-> result_map[t][pubkeys[t][i]]])
    /\ UNCHANGED <<ledger, cache, resetAt>>

\* Deliberate error: reset_cache takes &self and runs beside calls in flight.
ResetCacheShared ==
    /\ DOMAIN cache # {}
    /\ cache' = Empty
    /\ resetAt' = Slot
    /\ UNCHANGED <<ledger, taskVars>>

\* reset_cache(&mut self): the borrow checker excludes calls in progress.
ResetCache ==
    /\ \A t \in Tasks : pc[t] = "idle"
    /\ DOMAIN cache # {}
    /\ cache' = Empty
    /\ resetAt' = Slot
    /\ UNCHANGED <<ledger, taskVars>>

TaskStep(t) ==
    Scan(t) \/ RpcAnswer(t) \/ RpcError(t) \/ StoreOne(t) \/ StoreMany(t) \/ Assemble(t)

Next ==
    \/ \E k \in Keys : ChainWrite(k)
    \/ \E t \in Tasks : CallGetAccount(t) \/ CallGetAccounts(t) \/ TaskStep(t)
    \/ ResetCache

Spec == Init /\ [][Next]_vars

\* The runtime polls every task that can make progress, and the RPC client
\* gives up on a request after its timeout.
FairSpec == Spec /\ \A t \in Tasks : WF_vars(TaskStep(t))

-----------------------------------------------------------------------------
\* get_multiple: what a reader that never fetches sees.
get_multiple(ks) ==
    [i \in 1 .. Len(ks) |->
        IF ks[i] \in DOMAIN cache THEN cache[ks[i]].val ELSE Missing]

\* Partial maps from keys to entries that the ledger really held.
IsMap(m) == DOMAIN m \subseteq Keys /\ \A k \in DOMAIN m : m[k] \in Entry

\* Types of the shared map and of the locals of each call.
Typed ==
    /\ ledger \in Seq([Keys -> Version]) /\ Slot \in 1 .. MaxSlot
    /\ IsMap(cache)
    /\ pc \in [Tasks -> {"idle", "scan", "rpc", "insert", "assemble"}]
    /\ op \in [Tasks -> {"get_account", "get_accounts"}]
    /\ pubkeys \in [Tasks -> Seq(Keys)]
    /\ pos \in [Tasks -> Nat \ {0}]
    /\ keys \in [Tasks -> Seq(Keys)]
    /\ DOMAIN result_map = Tasks /\ \A t \in Tasks : IsMap(result_map[t])
    /\ response \in [Tasks -> Seq(Entry)]
    /\ reply \in [Tasks -> Seq(Entry)]
    /\ resetAt \in 1 .. Slot

\* The state is well-typed, and a call that has collected its results has one
\* for each pubkey of its argument, cached, fetched or missing on the chain:
\* the reassembly's result_map.get(pubkey).unwrap() cannot panic.
TypeOK ==
    /\ Typed
    /\ \A t \in Tasks : pc[t] = "assemble" =>
           \A i \in 1 .. Len(pubkeys[t]) : pubkeys[t][i] \in DOMAIN result_map[t]

\* An entry for k was on the ledger, under k, at the slot it was read from.
Genuine(k, e) == e.at \in 1 .. Slot /\ e.val = ledger[e.at][k]

\* Every account a call hands back belongs to the pubkey in the same position
\* of its argument, whatever other calls inserted meanwhile: "get_accounts()
\* must return accounts in the same order as the input pubkeys".
ReplyInOrder ==
    \A t \in Tasks : reply[t] # NoReply =>
        /\ Len(reply[t]) = Len(pubkeys[t])
        /\ \A i \in 1 .. Len(reply[t]) : Genuine(pubkeys[t][i], reply[t][i])

\* Nothing read before the last reset_cache can be served, or written back by
\* a call that was in flight: a reset really starts a new view of the chain,
\* and what get_multiple reports was on the ledger since then.
FreshAfterReset ==
    /\ \A k \in DOMAIN cache : resetAt <= cache[k].at
    /\ \A t \in Tasks : pc[t] # "idle" =>
           /\ \A k \in DOMAIN result_map[t] : resetAt <= result_map[t][k].at
           /\ \A i \in 1 .. Len(response[t]) : resetAt <= response[t][i].at
    /\ \A k \in Keys : LET seen == get_multiple(<<k>>)[1]
                       IN  seen # Missing => \E s \in resetAt .. Slot : seen = ledger[s][k]

\* A cached account changes only by a reset or by the insert of a call that
\* missed that same key: readers that only hit share one view.
StableWithoutFetch ==
    [][\A k \in DOMAIN cache :
          \/ k \in DOMAIN cache' /\ cache'[k] = cache[k]
          \/ cache' = Empty /\ \A t \in Tasks : pc[t] = "idle"
          \/ \E t \in Tasks : pc[t] = "insert" /\ \E i \in 1 .. Len(keys[t]) : keys[t][i] = k]_vars

\* Every call returns, with accounts or with an error.
CallsReturn == \A t \in Tasks : pc[t] # "idle" ~> pc[t] = "idle"
=============================================================================
