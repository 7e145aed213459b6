------------------------ MODULE RpcClientCacheProofs ------------------------
(***************************************************************************)
(* Theorems about the shared account cache, for every set of keys, tasks    *)
(* and argument lists and every number of slots: calls that interleave       *)
(* entry by entry still answer in the order of their arguments, nothing read *)
(* before a reset survives it, and a cached account changes only by a reset  *)
(* or by a call that missed it.                                              *)
(***************************************************************************)
EXTENDS RpcClientCache, TLAPS

\* An entry for k that was really read, and not before the last reset.
Fresh(k, e) == Genuine(k, e) /\ resetAt <= e.at
FreshMap(m) == \A k \in DOMAIN m : Fresh(k, m[k])

\* The answer of the node is aligned with the misses it was asked for.
Aligned(t) ==
    /\ Len(response[t]) = Len(keys[t])
    /\ \A i \in 1 .. Len(keys[t]) : Fresh(keys[t][i], response[t][i])

\* Argument i of the call has its result, or is still among the misses from
\* position n on.
Covered(t, i, n) ==
    \/ pubkeys[t][i] \in DOMAIN result_map[t]
    \/ \E j \in n .. Len(keys[t]) : keys[t][j] = pubkeys[t][i]

\* What a finished call returned belongs to its argument, position by position.
ReplyOK(t) ==
    reply[t] # NoReply =>
        /\ Len(reply[t]) = Len(pubkeys[t])
        /\ \A i \in 1 .. Len(reply[t]) : Genuine(pubkeys[t][i], reply[t][i])

\* A call in progress has an argument and has not replied; get_account asks
\* for one key, and what it fetches is that key.
CallOK(t) ==
    pc[t] # "idle" =>
        /\ Len(pubkeys[t]) >= 1 /\ reply[t] = NoReply
        /\ FreshMap(result_map[t])
        /\ op[t] = "get_account" => Len(pubkeys[t]) = 1

ScanOK(t) ==
    pc[t] = "scan" =>
        /\ pos[t] \in 1 .. Len(pubkeys[t]) /\ response[t] = <<>>
        /\ pos[t] = 1 => keys[t] = <<>>
        /\ \A i \in 1 .. pos[t] - 1 : Covered(t, i, 1)

RpcOK(t) ==
    pc[t] = "rpc" =>
        /\ pos[t] = 1 /\ Len(keys[t]) >= 1 /\ response[t] = <<>>
        /\ \A i \in 1 .. Len(pubkeys[t]) : Covered(t, i, 1)
        /\ op[t] = "get_account" => keys[t][1] = pubkeys[t][1]

InsertOK(t) ==
    pc[t] = "insert" =>
        /\ pos[t] \in 1 .. Len(keys[t]) /\ Aligned(t)
        /\ \A i \in 1 .. Len(pubkeys[t]) : Covered(t, i, pos[t])
        /\ op[t] = "get_account" => keys[t][1] = pubkeys[t][1]

AssembleOK(t) ==
    pc[t] = "assemble" =>
        /\ Aligned(t)
        /\ \A i \in 1 .. Len(pubkeys[t]) : pubkeys[t][i] \in DOMAIN result_map[t]

TaskOK(t) ==
    ReplyOK(t) /\ CallOK(t) /\ ScanOK(t) /\ RpcOK(t) /\ InsertOK(t) /\ AssembleOK(t)

\* The inductive invariant.
IInv == Typed /\ FreshMap(cache) /\ \A t \in Tasks : TaskOK(t)

-----------------------------------------------------------------------------
\* The ledger is only ever extended.
Grows == /\ Slot \in Nat /\ Slot' \in Nat /\ Slot <= Slot'
         /\ \A s \in 1 .. Slot : ledger'[s] = ledger[s]

\* Every local of task u keeps its value.
Same(u) ==
    /\ pc'[u] = pc[u] /\ op'[u] = op[u] /\ pubkeys'[u] = pubkeys[u]
    /\ pos'[u] = pos[u] /\ keys'[u] = keys[u] /\ result_map'[u] = result_map[u]
    /\ response'[u] = response[u] /\ reply'[u] = reply[u]

\* What was genuine stays genuine as the ledger grows.
LEMMA GenuineStays ==
    ASSUME NEW k, NEW e, Grows, Genuine(k, e)
    PROVE  Genuine(k, e)'
  BY DEF Grows, Genuine

\* A fresh entry stays fresh until the next reset.
LEMMA FreshStays ==
    ASSUME NEW k, NEW e, Grows, resetAt' = resetAt, Fresh(k, e)
    PROVE  Fresh(k, e)'
  BY GenuineStays DEF Fresh

\* An insert of a fresh entry into a map of fresh entries gives such a map.
LEMMA PutFresh ==
    ASSUME NEW m, IsMap(m), FreshMap(m), NEW k \in Keys, NEW e \in Entry, Fresh(k, e)
    PROVE  /\ IsMap(Put(m, k, e)) /\ FreshMap(Put(m, k, e))
           /\ DOMAIN Put(m, k, e) = DOMAIN m \cup {k}
  BY DEF IsMap, FreshMap, Put

\* The empty map and the empty sequences.
LEMMA EmptyMap == IsMap(Empty) /\ DOMAIN Empty = {} /\ FreshMap(Empty)
  BY DEF IsMap, Empty, FreshMap

\* The invariant holds of a task that did nothing.
LEMMA FrameTask ==
    ASSUME NEW u \in Tasks, TaskOK(u), Grows, Same(u), resetAt' = resetAt
    PROVE  TaskOK(u)'
  <1> USE DEF Same
  <1>1. ReplyOK(u)'
    BY GenuineStays DEF TaskOK, ReplyOK
  <1>2. CallOK(u)'
    BY FreshStays DEF TaskOK, CallOK, FreshMap
  <1>3. \A i, n : Covered(u, i, n) => Covered(u, i, n)'
    BY DEF Covered
  <1>4. Aligned(u) => Aligned(u)'
    BY FreshStays DEF Aligned
  <1>5. ScanOK(u)' /\ RpcOK(u)'
    BY <1>3 DEF TaskOK, ScanOK, RpcOK
  <1>6. InsertOK(u)' /\ AssembleOK(u)'
    BY <1>3, <1>4 DEF TaskOK, InsertOK, AssembleOK
  <1>7. QED
    BY <1>1, <1>2, <1>5, <1>6 DEF TaskOK

\* The cache is fresh after a step that leaves it alone.
LEMMA FrameCache ==
    ASSUME FreshMap(cache), Grows, cache' = cache, resetAt' = resetAt
    PROVE  FreshMap(cache)'
  BY FreshStays DEF FreshMap

\* A ledger that does not change has grown by nothing.
LEMMA SameLedger ==
    ASSUME Typed, UNCHANGED ledger
    PROVE  Grows
  BY DEF Grows, Typed, Slot

-----------------------------------------------------------------------------
\* Initially nothing is cached and every task is idle.
LEMMA InitInv == Init => IInv
  <1> SUFFICES ASSUME Init PROVE IInv
    OBVIOUS
  <1>1. PICK accounts \in [Keys -> {Missing, 1}] : ledger = <<accounts>>
    BY DEF Init
  <1>2. ledger \in Seq([Keys -> Version]) /\ Slot = 1
    <2>1. accounts \in [Keys -> Version]
      BY <1>1, MaxSlotAssumption DEF Missing, Version
    <2>2. QED
      BY <1>1, <2>1 DEF Slot
  <1>3. Typed
    BY <1>2, EmptyMap, MaxSlotAssumption DEF Init, Typed, NoReply
  <1>4. FreshMap(cache)
    BY EmptyMap DEF Init
  <1>5. ASSUME NEW t \in Tasks PROVE TaskOK(t)
    BY DEF Init, TaskOK, ReplyOK, CallOK, ScanOK, RpcOK, InsertOK, AssembleOK
  <1>6. QED
    BY <1>3, <1>4, <1>5 DEF IInv

\* A write to the chain extends the ledger and touches no call.
LEMMA ChainWriteInv ==
    ASSUME IInv, NEW k \in Keys, ChainWrite(k)
    PROVE  IInv'
  <1>1. PICK v \in {Missing, Slot + 1} :
            ledger' = Append(ledger, [ledger[Slot] EXCEPT ![k] = v])
    BY DEF ChainWrite
  <1> DEFINE accounts == [ledger[Slot] EXCEPT ![k] = v]
  <1>2. ledger \in Seq([Keys -> Version]) /\ Slot \in 1 .. MaxSlot /\ Slot < MaxSlot
    BY DEF IInv, Typed, ChainWrite
  <1>3. accounts \in [Keys -> Version]
    <2>1. ledger[Slot] \in [Keys -> Version]
      BY <1>2 DEF Slot
    <2>2. v \in Version
      BY <1>1, <1>2, MaxSlotAssumption DEF Version, Missing
    <2>3. QED
      BY <2>1, <2>2
  <1>4. ledger' = Append(ledger, accounts)
    BY <1>1
  <1> HIDE DEF accounts
  <1>5. /\ ledger' \in Seq([Keys -> Version]) /\ Slot' = Slot + 1
        /\ \A s \in 1 .. Slot : ledger'[s] = ledger[s]
    BY <1>2, <1>3, <1>4 DEF Slot
  <1>6. Grows /\ Slot' \in 1 .. MaxSlot
    BY <1>2, <1>5, MaxSlotAssumption DEF Grows
  <1>7. UNCHANGED <<cache, pc, op, pubkeys, pos, keys, result_map, response, reply, resetAt>>
    BY DEF ChainWrite, taskVars
  <1>8. Typed'
    <2>1. resetAt' \in 1 .. Slot'
      BY <1>2, <1>5, <1>7 DEF IInv, Typed
    <2>2. IsMap(cache)' /\ \A t \in Tasks : IsMap(result_map[t])'
      BY <1>7 DEF IInv, Typed, IsMap
    <2>3. QED
      BY <1>5, <1>6, <1>7, <2>1, <2>2 DEF IInv, Typed
  <1>9. FreshMap(cache)'
    BY <1>6, <1>7, FrameCache DEF IInv
  <1>10. ASSUME NEW t \in Tasks PROVE TaskOK(t)'
    BY <1>6, <1>7, FrameTask DEF IInv, Same
  <1>11. QED
    BY <1>8, <1>9, <1>10 DEF IInv

\* The empty sequence is a sequence over anything.
LEMMA EmptyTyped == <<>> \in Seq(Keys) /\ <<>> \in Seq(Entry)
  OBVIOUS

\* A call starts with the arguments it is given and with no result.
LEMMA BeginInv ==
    ASSUME IInv, NEW t \in Tasks, NEW method \in {"get_account", "get_accounts"},
           NEW args \in Seq(Keys), Len(args) >= 1,
           method = "get_account" => Len(args) = 1,
           Begin(t, method, args)
    PROVE  IInv'
  <1>1. Grows
    BY SameLedger DEF Begin, IInv
  <1>2. Typed'
    BY EmptyMap, EmptyTyped DEF Begin, IInv, Typed, NoReply, Slot, IsMap
  <1>3. FreshMap(cache)'
    BY <1>1, FrameCache DEF Begin, IInv
  <1>4. TaskOK(t)'
    <2>1. /\ pc'[t] = "scan" /\ op'[t] = method /\ pubkeys'[t] = args /\ pos'[t] = 1
          /\ keys'[t] = <<>> /\ result_map'[t] = Empty /\ response'[t] = <<>>
          /\ reply'[t] = NoReply
      BY DEF Begin, IInv, Typed
    <2>2. FreshMap(result_map[t])'
      BY <2>1, EmptyMap DEF FreshMap
    <2>3. ReplyOK(t)' /\ CallOK(t)'
      BY <2>1, <2>2 DEF ReplyOK, CallOK
    <2>4. ScanOK(t)' /\ RpcOK(t)' /\ InsertOK(t)' /\ AssembleOK(t)'
      BY <2>1 DEF ScanOK, RpcOK, InsertOK, AssembleOK
    <2>5. QED
      BY <2>3, <2>4 DEF TaskOK
  <1>5. ASSUME NEW u \in Tasks, u # t PROVE TaskOK(u)'
    <2>1. Same(u) /\ resetAt' = resetAt
      BY <1>5 DEF Begin, IInv, Typed, Same
    <2>2. QED
      BY <1>1, <2>1, FrameTask DEF IInv
  <1>6. QED
    BY <1>2, <1>3, <1>4, <1>5 DEF IInv

\* A call ends with a value that belongs to its arguments, or with none.
LEMMA FinishInv ==
    ASSUME IInv, NEW t \in Tasks, NEW value \in Seq(Entry), Finish(t, value),
           UNCHANGED <<ledger, resetAt>>,
           IsMap(cache'), FreshMap(cache)',
           value # NoReply =>
               /\ Len(value) = Len(pubkeys[t])
               /\ \A i \in 1 .. Len(value) : Genuine(pubkeys[t][i], value[i])
    PROVE  IInv'
  <1>1. Grows
    BY SameLedger DEF IInv
  <1>2. Typed'
    BY EmptyMap, EmptyTyped DEF Finish, IInv, Typed, Slot, IsMap
  <1>3. TaskOK(t)'
    <2>1. pc'[t] = "idle" /\ reply'[t] = value /\ pubkeys'[t] = pubkeys[t]
      BY DEF Finish, IInv, Typed
    <2>2. ReplyOK(t)'
      BY <1>1, <2>1, GenuineStays DEF ReplyOK
    <2>3. QED
      BY <2>1, <2>2 DEF TaskOK, CallOK, ScanOK, RpcOK, InsertOK, AssembleOK
  <1>4. ASSUME NEW u \in Tasks, u # t PROVE TaskOK(u)'
    <2>1. Same(u) /\ resetAt' = resetAt
      BY <1>4 DEF Finish, IInv, Typed, Same
    <2>2. QED
      BY <1>1, <2>1, FrameTask DEF IInv
  <1>5. QED
    BY <1>2, <1>3, <1>4 DEF IInv

\* One lookup: a hit is copied, a miss is collected, whatever the others insert.
LEMMA ScanInv ==
    ASSUME IInv, NEW t \in Tasks, Scan(t)
    PROVE  IInv'
  <1> DEFINE k == pubkeys[t][pos[t]]
             hit == k \in DOMAIN cache
             misses == IF hit THEN keys[t] ELSE Append(keys[t], k)
             last == pos[t] = Len(pubkeys[t])
  <1>1. /\ pc[t] = "scan" /\ pos[t] \in 1 .. Len(pubkeys[t]) /\ response[t] = <<>>
        /\ \A i \in 1 .. pos[t] - 1 : Covered(t, i, 1)
        /\ pos[t] = 1 => keys[t] = <<>>
        /\ Len(pubkeys[t]) >= 1 /\ reply[t] = NoReply /\ FreshMap(result_map[t])
        /\ op[t] = "get_account" => Len(pubkeys[t]) = 1
    BY DEF Scan, IInv, TaskOK, CallOK, ScanOK
  <1>2. /\ pubkeys[t] \in Seq(Keys) /\ keys[t] \in Seq(Keys) /\ k \in Keys
        /\ Len(pubkeys[t]) \in Nat /\ Len(keys[t]) \in Nat
    BY <1>1 DEF IInv, Typed
  <1>3. hit => cache[k] \in Entry /\ Fresh(k, cache[k])
    BY DEF IInv, Typed, IsMap, FreshMap
  <1>4. UNCHANGED <<ledger, cache, resetAt>> /\ Grows
    BY SameLedger DEF Scan, IInv
  <1>5. IsMap(cache') /\ FreshMap(cache)'
    BY <1>4, FrameCache DEF IInv, Typed
  <1>6. CASE op[t] = "get_account" /\ hit
    <2>1. Finish(t, <<cache[k]>>)
      BY <1>6 DEF Scan
    <2>2. pos[t] = 1 /\ Len(pubkeys[t]) = 1
      BY <1>1, <1>6
    <2>3. Genuine(pubkeys[t][1], cache[k])
      BY <1>3, <1>6, <2>2 DEF Fresh
    <2>4. <<cache[k]>> \in Seq(Entry) /\ Len(<<cache[k]>>) = 1 /\ <<cache[k]>>[1] = cache[k]
      BY <1>3, <1>6
    <2> DEFINE value == <<cache[k]>>
    <2>5. /\ Finish(t, value) /\ value \in Seq(Entry) /\ Len(value) = Len(pubkeys[t])
          /\ \A i \in 1 .. Len(value) : Genuine(pubkeys[t][i], value[i])
      BY <2>1, <2>2, <2>3, <2>4
    <2> HIDE DEF value
    <2>6. QED
      BY <1>4, <1>5, <2>5, FinishInv
  <1>7. CASE ~(op[t] = "get_account" /\ hit)
    <2>1. /\ keys' = [keys EXCEPT ![t] = misses]
          /\ result_map' = IF hit THEN [result_map EXCEPT ![t] = Put(@, k, cache[k])]
                           ELSE result_map
          /\ pc' = [pc EXCEPT ![t] = IF ~last THEN "scan"
                                     ELSE IF misses = <<>> THEN "assemble" ELSE "rpc"]
          /\ pos' = [pos EXCEPT ![t] = IF last THEN 1 ELSE @ + 1]
          /\ UNCHANGED <<op, pubkeys, response, reply>>
      BY <1>7 DEF Scan
    <2>2. /\ misses \in Seq(Keys) /\ Len(misses) \in Nat /\ Len(misses) >= Len(keys[t])
          /\ \A j \in 1 .. Len(keys[t]) : misses[j] = keys[t][j]
          /\ ~hit => Len(misses) = Len(keys[t]) + 1 /\ misses[Len(misses)] = k
      BY <1>2
    <2>3. /\ IsMap(result_map'[t]) /\ FreshMap(result_map[t])'
          /\ DOMAIN result_map[t] \subseteq DOMAIN result_map'[t]
          /\ hit => k \in DOMAIN result_map'[t]
      <3>1. CASE hit
        <4> DEFINE m == Put(result_map[t], k, cache[k])
        <4>1. result_map'[t] = m
          BY <2>1, <3>1 DEF IInv, Typed
        <4>2. IsMap(result_map[t])
          BY DEF IInv, Typed
        <4>3. IsMap(m) /\ FreshMap(m) /\ DOMAIN m = DOMAIN result_map[t] \cup {k}
          BY <1>1, <1>2, <1>3, <3>1, <4>2, PutFresh
        <4> HIDE DEF m
        <4>4. FreshMap(result_map[t])'
          BY <1>4, <4>1, <4>3, FreshStays DEF FreshMap
        <4>5. QED
          BY <4>1, <4>3, <4>4
      <3>2. CASE ~hit
        BY <1>1, <1>4, <2>1, <3>2, FreshStays DEF IInv, Typed, FreshMap
      <3>3. QED
        BY <3>1, <3>2
    <2>4. /\ keys'[t] = misses /\ pos'[t] = (IF last THEN 1 ELSE pos[t] + 1)
          /\ pc'[t] = (IF ~last THEN "scan" ELSE IF misses = <<>> THEN "assemble" ELSE "rpc")
          /\ op'[t] = op[t] /\ pubkeys'[t] = pubkeys[t]
          /\ response'[t] = <<>> /\ reply'[t] = NoReply
      BY <1>1, <2>1 DEF IInv, Typed
    <2>5. Typed'
      <3>1. \A u \in Tasks : IsMap(result_map'[u])
        BY <2>1, <2>3 DEF IInv, Typed
      <3>2. DOMAIN result_map' = Tasks
        BY <2>1 DEF IInv, Typed
      <3>3. keys' \in [Tasks -> Seq(Keys)] /\ pos' \in [Tasks -> Nat \ {0}]
        BY <2>1, <2>2 DEF IInv, Typed
      <3>4. pc' \in [Tasks -> {"idle", "scan", "rpc", "insert", "assemble"}]
        BY <2>1 DEF IInv, Typed
      <3>5. QED
        BY <1>4, <2>1, <3>1, <3>2, <3>3, <3>4 DEF IInv, Typed, Slot, IsMap
    <2>6. \A i \in 1 .. pos[t] : Covered(t, i, 1)'
      <3> SUFFICES ASSUME NEW i \in 1 .. pos[t] PROVE Covered(t, i, 1)'
        OBVIOUS
      <3>1. CASE i = pos[t]
        <4>1. CASE hit
          BY <2>3, <2>4, <3>1, <4>1 DEF Covered
        <4>2. CASE ~hit
          BY <2>2, <2>4, <3>1, <4>2, <1>2 DEF Covered
        <4>3. QED
          BY <4>1, <4>2
      <3>2. CASE i # pos[t]
        <4>1. Covered(t, i, 1)
          BY <1>1, <1>2, <3>2
        <4>2. QED
          BY <1>2, <2>2, <2>3, <2>4, <4>1 DEF Covered
      <3>3. QED
        BY <3>1, <3>2
    <2>7. TaskOK(t)'
      <3>1. ReplyOK(t)' /\ CallOK(t)' /\ InsertOK(t)'
        BY <1>1, <2>3, <2>4 DEF ReplyOK, CallOK, InsertOK
      <3>2. ScanOK(t)'
        BY <1>1, <1>2, <2>4, <2>6 DEF ScanOK
      <3>3. RpcOK(t)'
        <4> SUFFICES ASSUME last, misses # <<>> PROVE RpcOK(t)'
          BY <2>4 DEF RpcOK
        <4>1. Len(misses) >= 1
          BY <2>2
        <4>2. op[t] = "get_account" => misses[1] = pubkeys[t][1]
          <5> SUFFICES ASSUME op[t] = "get_account" PROVE misses[1] = pubkeys[t][1]
            OBVIOUS
          <5>1. ~hit /\ pos[t] = 1
            BY <1>1, <1>7
          <5>2. keys[t] = <<>>
            BY <1>1, <5>1
          <5>3. QED
            BY <5>1, <5>2
        <4>3. QED
          BY <2>4, <2>6, <4>1, <4>2 DEF RpcOK
      <3>4. AssembleOK(t)'
        <4> SUFFICES ASSUME last, misses = <<>> PROVE AssembleOK(t)'
          BY <2>4 DEF AssembleOK
        <4>1. Aligned(t)'
          BY <2>4 DEF Aligned
        <4>2. \A i \in 1 .. Len(pubkeys[t]) : pubkeys'[t][i] \in DOMAIN result_map'[t]
          BY <2>4, <2>6 DEF Covered
        <4>3. QED
          BY <2>4, <4>1, <4>2 DEF AssembleOK
      <3>5. QED
        BY <3>1, <3>2, <3>3, <3>4 DEF TaskOK
    <2>8. ASSUME NEW u \in Tasks, u # t PROVE TaskOK(u)'
      <3>1. Same(u)
        BY <2>1, <2>8 DEF IInv, Typed, Same
      <3>2. QED
        BY <1>4, <3>1, FrameTask DEF IInv
    <2>9. QED
      BY <1>5, <2>5, <2>7, <2>8 DEF IInv
  <1>8. QED
    BY <1>6, <1>7

\* The node answers from the current slot, which no reset has passed.
LEMMA RpcAnswerInv ==
    ASSUME IInv, NEW t \in Tasks, RpcAnswer(t)
    PROVE  IInv'
  <1> DEFINE answer == [i \in 1 .. Len(keys[t]) |->
                            [val |-> ledger[Slot][keys[t][i]], at |-> Slot]]
  <1>1. /\ pc[t] = "rpc" /\ pos[t] = 1 /\ Len(keys[t]) >= 1
        /\ \A i \in 1 .. Len(pubkeys[t]) : Covered(t, i, 1)
        /\ Len(pubkeys[t]) >= 1 /\ reply[t] = NoReply /\ FreshMap(result_map[t])
        /\ op[t] = "get_account" => Len(pubkeys[t]) = 1 /\ keys[t][1] = pubkeys[t][1]
    BY DEF RpcAnswer, IInv, TaskOK, CallOK, RpcOK
  <1>2. /\ UNCHANGED <<ledger, cache, op, pubkeys, pos, keys, result_map, reply, resetAt>>
        /\ response' = [response EXCEPT ![t] = answer]
        /\ pc' = [pc EXCEPT ![t] = "insert"]
    BY DEF RpcAnswer
  <1>3. Grows
    BY <1>2, SameLedger DEF IInv
  <1>4. keys[t] \in Seq(Keys) /\ ledger[Slot] \in [Keys -> Version] /\ Slot \in 1 .. MaxSlot
        /\ resetAt <= Slot
    BY DEF IInv, Typed, Slot
  <1>5. \A i \in 1 .. Len(keys[t]) :
            [val |-> ledger[Slot][keys[t][i]], at |-> Slot] \in Entry
    BY <1>4 DEF Entry
  <1>6. answer \in Seq(Entry) /\ Len(answer) = Len(keys[t])
    BY <1>4, <1>5
  <1>7. \A i \in 1 .. Len(keys[t]) : Fresh(keys[t][i], answer[i])
    BY <1>4 DEF Fresh, Genuine
  <1> HIDE DEF answer
  <1>8. Typed'
    BY <1>2, <1>6 DEF IInv, Typed, Slot, IsMap
  <1>9. FreshMap(cache)'
    BY <1>2, <1>3, FrameCache DEF IInv
  <1>10. TaskOK(t)'
    <2>1. pc'[t] = "insert" /\ response'[t] = answer
      BY <1>2 DEF IInv, Typed
    <2>2. Aligned(t)'
      BY <1>2, <1>3, <1>6, <1>7, <2>1, FreshStays DEF Aligned
    <2>3. FreshMap(result_map[t])'
      BY <1>1, <1>2, <1>3, FreshStays DEF FreshMap
    <2>4. \A i \in 1 .. Len(pubkeys[t]) : Covered(t, i, 1)'
      BY <1>1, <1>2 DEF Covered
    <2>5. ReplyOK(t)' /\ CallOK(t)'
      BY <1>1, <1>2, <2>3 DEF ReplyOK, CallOK
    <2>6. ScanOK(t)' /\ RpcOK(t)' /\ AssembleOK(t)'
      BY <2>1 DEF ScanOK, RpcOK, AssembleOK
    <2>7. InsertOK(t)'
      BY <1>1, <1>2, <1>4, <2>1, <2>2, <2>4 DEF InsertOK
    <2>8. QED
      BY <2>5, <2>6, <2>7 DEF TaskOK
  <1>11. ASSUME NEW u \in Tasks, u # t PROVE TaskOK(u)'
    <2>1. Same(u)
      BY <1>2, <1>11 DEF IInv, Typed, Same
    <2>2. QED
      BY <1>2, <1>3, <2>1, FrameTask DEF IInv
  <1>12. QED
    BY <1>8, <1>9, <1>10, <1>11 DEF IInv

\* A failed request ends the call without an answer.
LEMMA RpcErrorInv ==
    ASSUME IInv, NEW t \in Tasks, RpcError(t)
    PROVE  IInv'
  <1>1. Finish(t, NoReply) /\ UNCHANGED <<ledger, cache, resetAt>>
    BY DEF RpcError
  <1>2. IsMap(cache') /\ FreshMap(cache)'
    BY <1>1, SameLedger, FrameCache DEF IInv, Typed
  <1>3. NoReply \in Seq(Entry)
    BY EmptyTyped DEF NoReply
  <1>4. QED
    BY <1>1, <1>2, <1>3, FinishInv

\* An insert into the cache of a fresh entry.
LEMMA CachePut ==
    ASSUME IInv, NEW k \in Keys, NEW e \in Entry, Fresh(k, e),
           cache' = Put(cache, k, e), UNCHANGED <<ledger, resetAt>>
    PROVE  IsMap(cache') /\ FreshMap(cache)'
  <1> DEFINE m == Put(cache, k, e)
  <1>1. IsMap(m) /\ FreshMap(m)
    BY PutFresh DEF IInv, Typed
  <1>2. cache' = m
    OBVIOUS
  <1> HIDE DEF m
  <1>3. Grows
    BY SameLedger DEF IInv
  <1>4. QED
    BY <1>1, <1>2, <1>3, FreshStays DEF FreshMap

\* get_account caches and returns what it fetched, under the key it was asked for.
LEMMA StoreOneInv ==
    ASSUME IInv, NEW t \in Tasks, StoreOne(t)
    PROVE  IInv'
  <1> DEFINE account == response[t][1]
  <1>1. /\ pc[t] = "insert" /\ op[t] = "get_account" /\ Aligned(t) /\ Len(keys[t]) >= 1
        /\ Len(pubkeys[t]) = 1 /\ keys[t][1] = pubkeys[t][1]
    BY DEF StoreOne, IInv, Typed, TaskOK, CallOK, InsertOK
  <1>2. /\ response[t] \in Seq(Entry) /\ keys[t] \in Seq(Keys)
        /\ UNCHANGED <<ledger, resetAt>>
    BY DEF StoreOne, IInv, Typed
  <1>3. account \in Entry /\ pubkeys[t][1] \in Keys /\ Fresh(pubkeys[t][1], account)
    BY <1>1, <1>2 DEF Aligned
  <1>4. CASE account.val = Missing
    <2>1. Finish(t, NoReply) /\ cache' = cache
      BY <1>4 DEF StoreOne
    <2>2. IsMap(cache') /\ FreshMap(cache)'
      BY <1>2, <2>1, SameLedger, FrameCache DEF IInv, Typed
    <2>3. NoReply \in Seq(Entry)
      BY EmptyTyped DEF NoReply
    <2>4. QED
      BY <1>2, <2>1, <2>2, <2>3, FinishInv
  <1>5. CASE account.val # Missing
    <2> DEFINE value == <<account>>
    <2>1. Finish(t, value) /\ cache' = Put(cache, pubkeys[t][1], account)
      BY <1>5 DEF StoreOne
    <2>2. /\ value \in Seq(Entry) /\ Len(value) = Len(pubkeys[t])
          /\ \A i \in 1 .. Len(value) : Genuine(pubkeys[t][i], value[i])
      BY <1>1, <1>3 DEF Fresh
    <2> HIDE DEF value, account
    <2>3. IsMap(cache') /\ FreshMap(cache)'
      BY <1>2, <1>3, <2>1, CachePut
    <2>4. QED
      BY <1>2, <2>1, <2>2, <2>3, FinishInv
  <1>6. QED
    BY <1>4, <1>5

\* get_accounts moves one fetched account into the cache and into its results.
LEMMA StoreManyInv ==
    ASSUME IInv, NEW t \in Tasks, StoreMany(t)
    PROVE  IInv'
  <1> DEFINE k == keys[t][pos[t]]
             account == response[t][pos[t]]
             last == pos[t] = Len(keys[t])
             m == Put(result_map[t], k, account)
  <1>1. /\ pc[t] = "insert" /\ op[t] = "get_accounts"
        /\ pos[t] \in 1 .. Len(keys[t]) /\ Aligned(t)
        /\ \A i \in 1 .. Len(pubkeys[t]) : Covered(t, i, pos[t])
        /\ Len(pubkeys[t]) >= 1 /\ reply[t] = NoReply /\ FreshMap(result_map[t])
    BY DEF StoreMany, IInv, TaskOK, CallOK, InsertOK
  <1>2. /\ cache' = Put(cache, k, account)
        /\ result_map' = [result_map EXCEPT ![t] = m]
        /\ pos' = [pos EXCEPT ![t] = IF last THEN 1 ELSE @ + 1]
        /\ pc' = [pc EXCEPT ![t] = IF last THEN "assemble" ELSE "insert"]
        /\ UNCHANGED <<ledger, op, pubkeys, keys, response, reply, resetAt>>
    BY DEF StoreMany, IInv, Typed
  <1>3. response[t] \in Seq(Entry) /\ keys[t] \in Seq(Keys) /\ Len(keys[t]) \in Nat
    BY DEF IInv, Typed
  <1>4. k \in Keys /\ account \in Entry /\ Fresh(k, account)
    BY <1>1, <1>3 DEF Aligned
  <1>5. IsMap(cache') /\ FreshMap(cache)'
    BY <1>2, <1>4, CachePut
  <1>6. IsMap(m) /\ FreshMap(m) /\ DOMAIN m = DOMAIN result_map[t] \cup {k}
    <2>1. IsMap(result_map[t])
      BY DEF IInv, Typed
    <2>2. QED
      BY <1>1, <1>4, <2>1, PutFresh
  <1> HIDE DEF m
  <1>7. Grows
    BY <1>2, SameLedger DEF IInv
  <1>8. Typed'
    <2>1. DOMAIN result_map' = Tasks /\ \A u \in Tasks : IsMap(result_map'[u])
      BY <1>2, <1>6 DEF IInv, Typed
    <2>2. pos' \in [Tasks -> Nat \ {0}]
      BY <1>2 DEF IInv, Typed
    <2>3. pc' \in [Tasks -> {"idle", "scan", "rpc", "insert", "assemble"}]
      BY <1>2 DEF IInv, Typed
    <2>4. QED
      BY <1>2, <1>5, <2>1, <2>2, <2>3 DEF IInv, Typed, Slot, IsMap
  <1>9. TaskOK(t)'
    <2>1. /\ result_map'[t] = m /\ pos'[t] = (IF last THEN 1 ELSE pos[t] + 1)
          /\ pc'[t] = (IF last THEN "assemble" ELSE "insert")
      BY <1>2 DEF IInv, Typed
    <2>2. FreshMap(result_map[t])'
      BY <1>2, <1>6, <1>7, <2>1, FreshStays DEF FreshMap
    <2>3. Aligned(t)'
      BY <1>1, <1>2, <1>7, FreshStays DEF Aligned
    <2>4. ReplyOK(t)' /\ CallOK(t)'
      BY <1>1, <1>2, <2>2 DEF ReplyOK, CallOK
    <2>5. ScanOK(t)' /\ RpcOK(t)'
      BY <2>1 DEF ScanOK, RpcOK
    <2>6. ASSUME NEW i \in 1 .. Len(pubkeys[t])
          PROVE  \/ pubkeys[t][i] \in DOMAIN m
                 \/ ~last /\ \E j \in pos[t] + 1 .. Len(keys[t]) : keys[t][j] = pubkeys[t][i]
      BY <1>1, <1>3, <1>6 DEF Covered
    <2>7. InsertOK(t)'
      BY <1>1, <1>2, <1>3, <2>1, <2>3, <2>6 DEF InsertOK, Covered
    <2>8. AssembleOK(t)'
      BY <1>1, <1>2, <1>3, <2>1, <2>3, <2>6 DEF AssembleOK
    <2>9. QED
      BY <2>4, <2>5, <2>7, <2>8 DEF TaskOK
  <1>10. ASSUME NEW u \in Tasks, u # t PROVE TaskOK(u)'
    <2>1. Same(u)
      BY <1>2, <1>10 DEF IInv, Typed, Same
    <2>2. QED
      BY <1>2, <1>7, <2>1, FrameTask DEF IInv
  <1>11. QED
    BY <1>5, <1>8, <1>9, <1>10 DEF IInv

\* Reassembly finds every key, in the order of the argument.
LEMMA AssembleInv ==
    ASSUME IInv, NEW t \in Tasks, Assemble(t)
    PROVE  IInv'
  <1> DEFINE value == [i \in 1 .. Len(pubkeys[t]) |-> result_map[t][pubkeys[t][i]]]
  <1>1. Finish(t, value) /\ UNCHANGED <<ledger, cache, resetAt>>
    BY DEF Assemble
  <1>2. /\ FreshMap(result_map[t]) /\ IsMap(result_map[t]) /\ pubkeys[t] \in Seq(Keys)
        /\ \A i \in 1 .. Len(pubkeys[t]) : pubkeys[t][i] \in DOMAIN result_map[t]
    BY DEF Assemble, IInv, Typed, TaskOK, CallOK, AssembleOK
  <1>3. \A i \in 1 .. Len(pubkeys[t]) :
            /\ result_map[t][pubkeys[t][i]] \in Entry
            /\ Genuine(pubkeys[t][i], result_map[t][pubkeys[t][i]])
    BY <1>2 DEF IsMap, FreshMap, Fresh
  <1>4. /\ value \in Seq(Entry) /\ Len(value) = Len(pubkeys[t])
        /\ \A i \in 1 .. Len(value) : Genuine(pubkeys[t][i], value[i])
    BY <1>2, <1>3
  <1> HIDE DEF value
  <1>5. IsMap(cache') /\ FreshMap(cache)'
    BY <1>1, SameLedger, FrameCache DEF IInv, Typed
  <1>6. QED
    BY <1>1, <1>4, <1>5, FinishInv

\* A reset finds no call in progress, so nothing older can be written back.
LEMMA ResetInv ==
    ASSUME IInv, ResetCache
    PROVE  IInv'
  <1>1. /\ \A t \in Tasks : pc[t] = "idle"
        /\ cache' = Empty /\ resetAt' = Slot
        /\ UNCHANGED <<ledger, pc, op, pubkeys, pos, keys, result_map, response, reply>>
    BY DEF ResetCache, taskVars
  <1>2. Grows
    BY <1>1, SameLedger DEF IInv
  <1>3. IsMap(cache') /\ FreshMap(cache)'
    BY <1>1, EmptyMap DEF FreshMap
  <1>4. Typed'
    BY <1>1, <1>3 DEF IInv, Typed, Slot, IsMap
  <1>5. ASSUME NEW t \in Tasks PROVE TaskOK(t)'
    <2>1. ReplyOK(t)'
      BY <1>1, <1>2, GenuineStays DEF IInv, TaskOK, ReplyOK
    <2>2. QED
      BY <1>1, <2>1 DEF TaskOK, CallOK, ScanOK, RpcOK, InsertOK, AssembleOK
  <1>6. QED
    BY <1>3, <1>4, <1>5 DEF IInv

-----------------------------------------------------------------------------
\* Every step keeps the invariant.
LEMMA StepInv == IInv /\ [Next]_vars => IInv'
  <1> SUFFICES ASSUME IInv, [Next]_vars PROVE IInv'
    OBVIOUS
  <1>1. ASSUME NEW k \in Keys, ChainWrite(k) PROVE IInv'
    BY <1>1, ChainWriteInv
  <1>2. ASSUME NEW t \in Tasks, CallGetAccount(t) PROVE IInv'
    <2>1. PICK k \in Keys : Begin(t, "get_account", <<k>>)
      BY <1>2 DEF CallGetAccount
    <2> DEFINE args == <<k>>
    <2>2. args \in Seq(Keys) /\ Len(args) = 1 /\ Begin(t, "get_account", args)
      BY <2>1
    <2> HIDE DEF args
    <2>3. QED
      BY <2>2, BeginInv
  <1>3. ASSUME NEW t \in Tasks, CallGetAccounts(t) PROVE IInv'
    <2>1. PICK args \in Requests : Begin(t, "get_accounts", args)
      BY <1>3 DEF CallGetAccounts
    <2>2. args \in Seq(Keys) /\ Len(args) >= 1
      BY RequestsAssumption
    <2>3. QED
      BY <2>1, <2>2, BeginInv
  <1>4. ASSUME NEW t \in Tasks, TaskStep(t) PROVE IInv'
    BY <1>4, ScanInv, RpcAnswerInv, RpcErrorInv, StoreOneInv, StoreManyInv, AssembleInv
    DEF TaskStep
  <1>5. CASE ResetCache
    BY <1>5, ResetInv
  <1>6. CASE UNCHANGED vars
    <2>1. UNCHANGED <<ledger, cache, pc, op, pubkeys, pos, keys, result_map, response,
                      reply, resetAt>>
      BY <1>6 DEF vars, taskVars
    <2>2. Grows
      BY <2>1, SameLedger DEF IInv
    <2>3. Typed'
      BY <2>1 DEF IInv, Typed, Slot, IsMap
    <2>4. FreshMap(cache)'
      BY <2>1, <2>2, FrameCache DEF IInv
    <2>5. ASSUME NEW t \in Tasks PROVE TaskOK(t)'
      BY <2>1, <2>2, FrameTask DEF IInv, Same
    <2>6. QED
      BY <2>3, <2>4, <2>5 DEF IInv
  <1>7. QED
    BY <1>1, <1>2, <1>3, <1>4, <1>5, <1>6 DEF Next

\* The inductive invariant holds throughout.
LEMMA Invariance == Spec => []IInv
  BY InitInv, StepInv, PTL DEF Spec

\* Type correctness of the shared map and of the locals of every call; the
\* unwrap of the reassembly in get_accounts never meets a missing key.
THEOREM TypeCorrect == Spec => []TypeOK
  <1>1. IInv => TypeOK
    BY DEF IInv, TaskOK, AssembleOK, TypeOK
  <1>2. QED
    BY <1>1, Invariance, PTL

\* get_account and get_accounts: whatever other calls insert between two steps
\* of a call, its answer is aligned with its argument and every account in it
\* is one the chain held under that key.
THEOREM RepliesInOrder == Spec => []ReplyInOrder
  <1>1. IInv => ReplyInOrder
    BY DEF IInv, TaskOK, ReplyOK, ReplyInOrder
  <1>2. QED
    BY <1>1, Invariance, PTL

\* reset_cache: nothing read before it is in the cache, in the results of a
\* call or in an answer about to be inserted.
THEOREM ResetIsFresh == Spec => []FreshAfterReset
  <1>1. IInv => FreshAfterReset
    <2> SUFFICES ASSUME IInv PROVE FreshAfterReset
      OBVIOUS
    <2>1. \A k \in DOMAIN cache : resetAt <= cache[k].at
      BY DEF IInv, FreshMap, Fresh
    <2>2. ASSUME NEW t \in Tasks, pc[t] # "idle"
          PROVE  /\ \A k \in DOMAIN result_map[t] : resetAt <= result_map[t][k].at
                 /\ \A i \in 1 .. Len(response[t]) : resetAt <= response[t][i].at
      <3>1. \A k \in DOMAIN result_map[t] : resetAt <= result_map[t][k].at
        BY <2>2 DEF IInv, TaskOK, CallOK, FreshMap, Fresh
      <3>2. response[t] = <<>> \/ Aligned(t)
        BY <2>2 DEF IInv, Typed, TaskOK, ScanOK, RpcOK, InsertOK, AssembleOK
      <3>3. QED
        BY <3>1, <3>2 DEF Aligned, Fresh
    <2>3. ASSUME NEW k \in Keys, get_multiple(<<k>>)[1] # Missing
          PROVE  \E s \in resetAt .. Slot : get_multiple(<<k>>)[1] = ledger[s][k]
      <3>1. get_multiple(<<k>>)[1] = IF k \in DOMAIN cache THEN cache[k].val ELSE Missing
        BY DEF get_multiple
      <3>2. k \in DOMAIN cache /\ get_multiple(<<k>>)[1] = cache[k].val
        BY <2>3, <3>1
      <3>3. cache[k].at \in resetAt .. Slot /\ cache[k].val = ledger[cache[k].at][k]
        BY <3>2 DEF IInv, Typed, FreshMap, Fresh, Genuine
      <3>4. QED
        BY <3>2, <3>3
    <2>4. QED
      BY <2>1, <2>2, <2>3 DEF FreshAfterReset
  <1>2. QED
    BY <1>1, Invariance, PTL

\* The step of StableWithoutFetch, for one key.
StableKey(k) ==
    \/ k \in DOMAIN cache' /\ cache'[k] = cache[k]
    \/ cache' = Empty /\ \A t \in Tasks : pc[t] = "idle"
    \/ \E t \in Tasks : pc[t] = "insert" /\ \E i \in 1 .. Len(keys[t]) : keys[t][i] = k

\* A cached account is replaced only by a call that missed that key, and lost
\* only to a reset.
THEOREM CacheStable == Spec => StableWithoutFetch
  <1>1. ASSUME IInv, [Next]_vars PROVE \A k \in DOMAIN cache : StableKey(k)
    <2> SUFFICES ASSUME NEW k \in DOMAIN cache PROVE StableKey(k)
      OBVIOUS
    <2>1. CASE cache' = cache
      BY <2>1 DEF StableKey
    <2>2. ASSUME NEW t \in Tasks, StoreOne(t) PROVE StableKey(k)
      <3>1. /\ pc[t] = "insert" /\ 1 \in 1 .. Len(keys[t]) /\ keys[t][1] = pubkeys[t][1]
        BY <1>1, <2>2 DEF StoreOne, IInv, Typed, TaskOK, InsertOK
      <3>2. cache' = cache \/ cache' = Put(cache, pubkeys[t][1], response[t][1])
        BY <2>2 DEF StoreOne
      <3>3. CASE k # keys[t][1]
        BY <3>1, <3>2, <3>3 DEF StableKey, Put
      <3>4. CASE k = keys[t][1]
        BY <3>1, <3>4 DEF StableKey
      <3>5. QED
        BY <3>3, <3>4
    <2>3. ASSUME NEW t \in Tasks, StoreMany(t) PROVE StableKey(k)
      <3>1. pc[t] = "insert" /\ pos[t] \in 1 .. Len(keys[t])
        BY <1>1, <2>3 DEF StoreMany, IInv, TaskOK, InsertOK
      <3>2. cache' = Put(cache, keys[t][pos[t]], response[t][pos[t]])
        BY <2>3 DEF StoreMany
      <3>3. CASE k # keys[t][pos[t]]
        BY <3>2, <3>3 DEF StableKey, Put
      <3>4. CASE k = keys[t][pos[t]]
        BY <3>1, <3>4 DEF StableKey
      <3>5. QED
        BY <3>3, <3>4
    <2>4. CASE ResetCache
      BY <2>4 DEF ResetCache, StableKey
    <2>5. QED
      BY <1>1, <2>1, <2>2, <2>3, <2>4
      DEF Next, ChainWrite, CallGetAccount, CallGetAccounts, Begin, TaskStep, Scan,
          RpcAnswer, RpcError, Assemble, vars
  <1>2. IInv /\ [Next]_vars =>
            [\A k \in DOMAIN cache :
                \/ k \in DOMAIN cache' /\ cache'[k] = cache[k]
                \/ cache' = Empty /\ \A t \in Tasks : pc[t] = "idle"
                \/ \E t \in Tasks :
                       pc[t] = "insert" /\ \E i \in 1 .. Len(keys[t]) : keys[t][i] = k]_vars
    BY <1>1 DEF StableKey
  <1>3. QED
    BY <1>2, Invariance, PTL DEF Spec, StableWithoutFetch

=============================================================================
