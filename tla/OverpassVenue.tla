--------------------------- MODULE OverpassVenue ----------------------------
(***************************************************************************)
(* One venue and its refresh: OverpassVenue::update_state                    *)
(* (src/your_venue/mod.rs) with the update of each of the five sources.      *)
(*                                                                          *)
(* update_state holds &mut self across its awaits, so nothing reads the      *)
(* venue while it runs; but it returns at the first error, and the caller    *)
(* may drop its future at an await (a timeout), and both leave what was      *)
(* already assigned in place.  One action is the synchronous code from one   *)
(* await to the next, ended early by an error or not.                        *)
(*                                                                          *)
(* An account's content is the version of the chain it was read at, so that  *)
(* the properties can tell which data a quote mixes.  The cache may answer   *)
(* each key with any version since its last reset: that is what              *)
(* RpcClientCache guarantees (FreshAfterReset), and no more.                 *)
(***************************************************************************)
EXTENDS Naturals, Sequences

CONSTANTS
    Protocols,    \* the wrapped protocols of the instance
    MayFollow,    \* pairs of protocol bytes: how the vault account may change
    UseFarms,     \* Kvault: protocol_data[48] # 0
    MaxVersion    \* bound on the chain versions explored

ASSUME ProtocolsAssumption ==
    /\ Protocols \subseteq {"Klend", "Kvault", "Save", "Marginfi", "Lulo"}
    /\ Protocols # {}
ASSUME UseFarmsAssumption == UseFarms \in BOOLEAN
ASSUME MaxVersionAssumption == MaxVersion \in Nat \ {0}

Unset == 0                      \* None, Pubkey::default(), a Default state
UnknownProtocol == "unknown"    \* a protocol byte above 4

VARIABLES
    chain,          \* protocol byte of the vault account by version (external)
    resetAt,        \* version at the cache's last reset (external)
    wrapper_vault,  \* version of the committed WrapperVault
    global_config,  \* version of the committed GlobalConfig
    token_info,     \* for each mint, the version of the vault that named it
    source,         \* the Source
    parts,          \* what parts_deposit and parts_withdraw were built from
    pc,             \* the await update_state is suspended at
    stage,          \* which await of the source's update
    wv, gc, read,   \* locals: vault, config and accounts read by the source
    returned,       \* how the last update_state ended: failed = error or dropped
    since,          \* resetAt when it started (history)
    required,       \* get_required_pubkeys_for_update() when it started (history)
    fetched         \* keys it asked the cache for (history)

external == <<chain, resetAt>>
committed == <<wrapper_vault, global_config, parts>>
locals == <<wv, gc, read, stage>>
history == <<since, required, fetched>>
vars == <<external, committed, token_info, source, pc, locals, returned, history>>

Now == Len(chain)
Version == 1 .. MaxVersion
OptVersion == {Unset} \cup Version
Bytes == Protocols \cup {UnknownProtocol}

-----------------------------------------------------------------------------
(* The sources.                                                              *)

Farm(S) == IF UseFarms THEN S ELSE {}

\* The parts of a source that are read from accounts.
FieldsOf(kind) ==
    CASE kind = "Save"     -> {"pool", "slot"}
      [] kind = "Klend"    -> {"pool", "slot", "time"}
      [] kind = "Marginfi" -> {"pool", "position", "group", "time"}
      [] kind = "Lulo"     -> {"pool", "basis", "charged", "referrer"}
      [] kind = "Kvault"   -> {"pool", "penalty", "reserves", "slot", "time"}
                                \cup Farm({"farm", "shares"})

\* The account each part is read from.
AccountOf(field) ==
    CASE field \in {"slot", "time"}              -> "clock"
      [] field \in {"basis", "charged", "farm"}  -> "position"
      [] field = "penalty"                       -> "kvaultConfig"
      [] OTHER                                   -> field

\* accrued: pre_accrue has run on the pool.
SourceOK(s) ==
    /\ s.kind \in Protocols
    /\ s.at \in [FieldsOf(s.kind) -> OptVersion]
    /\ s.accrued \in BOOLEAN

make_source(protocol) ==
    [kind |-> protocol, at |-> [x \in FieldsOf(protocol) |-> Unset], accrued |-> FALSE]

\* update::run of each source: the keys of each await, and what the code up to
\* the next await assigns, in order.  Each assignment can be the first one not
\* reached: the fetch, a decoder, the clock or the accrual before it fails.
\* {} assigns nothing and only fails.
SaveRun ==
    <<[keys |-> {"pool", "clock"},
       assigns |-> <<{"pool"}, {"slot"}, {"accrue"}>>]>>

KlendRun ==
    <<[keys |-> {"pool", "clock"},
       assigns |-> <<{"pool"}, {"slot"}, {"time"}, {"accrue"}>>]>>

MarginfiRun ==
    <<[keys |-> {"pool", "position", "group", "clock"},
       assigns |-> <<{"time"}, {"pool", "position", "group"}, {"accrue"}>>]>>

LuloRun ==
    <<[keys |-> {"pool"},     assigns |-> <<{"pool", "accrue"}>>],
      [keys |-> {"position"}, assigns |-> <<{"basis"}, {"charged"}>>],
      [keys |-> {"referrer"}, assigns |-> <<{"referrer"}>>]>>

\* Kvault builds its new state aside and replaces the old one at the end, but
\* stores the clock as soon as it has read it.
KvaultRun ==
    LET replace == {"pool", "penalty", "reserves", "accrue"} \cup Farm({"farm", "shares"})
        vault == [keys |-> {"pool"}, assigns |-> <<{}>>]
        reserves == {"kvaultConfig", "clock", "reserves"} \cup Farm({"position"})
    IN  IF UseFarms
          THEN <<vault,
                 [keys |-> reserves, assigns |-> <<{"slot"}, {"time"}, {}>>],
                 [keys |-> {"shares"}, assigns |-> <<replace>>]>>
          ELSE <<vault, [keys |-> reserves, assigns |-> <<{"slot"}, {"time"}, replace>>]>>

Run(kind) ==
    CASE kind = "Save"     -> SaveRun
      [] kind = "Klend"    -> KlendRun
      [] kind = "Marginfi" -> MarginfiRun
      [] kind = "Lulo"     -> LuloRun
      [] kind = "Kvault"   -> KvaultRun

\* Accounts the source's update does without when they do not exist.
Optional(kind) ==
    CASE kind = "Marginfi" -> {"position"}
      [] kind = "Kvault"   -> {"kvaultConfig", "reserves", "position", "shares"}
      [] OTHER             -> {}

\* Kvault keeps the previous value of what it could not read.
Carried == {"penalty", "reserves", "farm"}

\* Deliberate error: the fields that are not assigned are lost.
AssignDropsOthers(s, fields, from) ==
    [s EXCEPT !.at = [x \in fields \cap DOMAIN @ |-> from[AccountOf(x)]],
              !.accrued = "accrue" \in fields]

\* One assignment.  Lulo's `*s = decode(..)' resets its other fields.
Assign(s, fields, from) ==
    [s EXCEPT
        !.at = [x \in DOMAIN @ |->
                    IF x \in fields
                      THEN IF x \in Carried /\ from[AccountOf(x)] = Unset
                             THEN @[x] ELSE from[AccountOf(x)]
                      ELSE IF s.kind = "Lulo" /\ "pool" \in fields THEN Unset ELSE @[x]],
        !.accrued = "accrue" \in fields \/ (@ /\ "pool" \notin fields)]

\* The source after the first n assignments.
After(s, assigns, from, n) ==
    LET upTo[i \in 0 .. Len(assigns)] ==
            IF i = 0 THEN s ELSE Assign(upTo[i - 1], assigns[i], from)
    IN  upTo[n]

required_pubkeys(s) ==
    CASE s.kind \in {"Save", "Klend"} -> {"pool", "clock"}
      [] s.kind = "Marginfi" -> {"pool", "position", "group", "clock"}
      [] s.kind = "Lulo"     -> {"pool", "position", "referrer"}
      [] s.kind = "Kvault"   ->
            {"pool", "kvaultConfig", "clock"} \cup Farm({"position"})
              \cup (IF s.at["pool"] # Unset THEN {"reserves"} ELSE {})

\* "shares" is the vault's share account and its farms user state.
Accounts == {"pool", "position", "group", "clock", "referrer", "kvaultConfig",
             "reserves", "shares"}
VenueKeys == {"vault", "config", "underlyingMint", "wrapperMint"}
NothingRead == [k \in Accounts |-> Unset]

-----------------------------------------------------------------------------
\* from_account: the vault is decoded and its source created, nothing more.
Init ==
    \E p \in Protocols :
        /\ chain = <<p>>
        /\ resetAt = 1
        /\ wrapper_vault = 1
        /\ global_config = Unset
        /\ token_info = <<Unset, Unset>>
        /\ source = make_source(p)
        /\ parts = [vault |-> Unset, config |-> Unset, source |-> make_source(p)]
        /\ pc = "idle"
        /\ stage = 1 /\ wv = Unset /\ gc = Unset /\ read = NothingRead
        /\ returned = "none"
        /\ since = 1 /\ required = {} /\ fetched = {}

\* External: the chain moves on; the vault may come back with another protocol.
ChainAdvance ==
    /\ Now < MaxVersion
    /\ \E p \in Bytes : <<chain[Now], p>> \in MayFollow /\ chain' = Append(chain, p)
    /\ UNCHANGED <<resetAt, committed, token_info, source, pc, locals, returned,
                   history>>

\* External: reset_cache, never while an update borrows the cache.
ResetCache ==
    /\ pc = "idle" /\ resetAt < Now
    /\ resetAt' = Now
    /\ UNCHANGED <<chain, committed, token_info, source, pc, locals, returned,
                   history>>

\* External: what the cache may hold for a key.
Cached == resetAt .. Now

\* update_state up to its first await; the prefetch list was asked for before.
BeginUpdate ==
    /\ pc = "idle"
    /\ pc' = "vault"
    /\ since' = resetAt
    /\ required' = VenueKeys \cup required_pubkeys(source)
    /\ fetched' = {"vault"}
    /\ returned' = "running"
    /\ UNCHANGED <<external, committed, token_info, source, locals>>

\* The function ends and its locals go; history is kept for the calls that
\* succeed only.
Return(how) ==
    /\ pc' = "idle"
    /\ returned' = how
    /\ IF how = "Ok" THEN UNCHANGED history
                     ELSE since' = 1 /\ required' = {} /\ fetched' = {}
    /\ wv' = Unset /\ gc' = Unset /\ read' = NothingRead /\ stage' = 1

\* Deliberate error: the vault is stored as soon as it is decoded.
FetchVaultStoresIt ==
    /\ pc = "vault"
    /\ wv' \in Cached
    /\ wrapper_vault' = wv'
    /\ pc' = "config"
    /\ UNCHANGED <<external, global_config, parts, token_info, source, gc, read, stage,
                   returned, history>>

\* The vault arrives and decodes; the config and the mints are asked for.
FetchVault ==
    /\ pc = "vault"
    /\ wv' \in Cached
    /\ pc' = "config"
    /\ fetched' = fetched \cup {"config", "underlyingMint", "wrapperMint"}
    /\ UNCHANGED <<external, committed, token_info, source, gc, read, stage,
                   returned, since, required>>

\* The vault cannot be fetched or decoded.
FetchVaultError ==
    /\ pc = "vault"
    /\ Return("failed")
    /\ UNCHANGED <<external, committed, token_info, source>>

\* Deliberate error: the source of the old protocol is kept.
FetchConfigNoRebuild ==
    /\ pc = "config"
    /\ chain[wv] # UnknownProtocol
    /\ gc' \in Cached
    /\ token_info' = <<wv, wv>>
    /\ pc' = "source" /\ stage' = 1
    /\ UNCHANGED <<external, committed, source, wv, read, returned, history>>

\* Config and mints arrive; a changed protocol gets a new, empty source; the
\* source asks for its first accounts.
FetchConfig ==
    /\ pc = "config"
    /\ chain[wv] # UnknownProtocol
    /\ gc' \in Cached
    /\ token_info' = <<wv, wv>>
    /\ source' = IF source.kind = chain[wv] THEN source ELSE make_source(chain[wv])
    /\ pc' = "source" /\ stage' = 1
    /\ fetched' = fetched \cup Run(chain[wv])[1].keys
    /\ UNCHANGED <<external, committed, wv, read, returned, since, required>>

\* An error before the mints are stored, at the second mint, or at the
\* protocol byte.
FetchConfigError ==
    /\ pc = "config"
    /\ \/ UNCHANGED token_info
       \/ token_info' = [token_info EXCEPT ![1] = wv]
       \/ chain[wv] = UnknownProtocol /\ token_info' = <<wv, wv>>
    /\ Return("failed")
    /\ UNCHANGED <<external, committed, source>>

\* External: one answer of the cache to the keys of the current await.
Answers ==
    LET keys == Run(source.kind)[stage].keys
    IN  {a \in [keys -> {Unset} \cup Cached] :
            \A k \in keys \ Optional(source.kind) : a[k] # Unset}

WithAnswer(a) == [k \in Accounts |-> IF k \in DOMAIN a THEN a[k] ELSE read[k]]

\* The source runs to its next await.
SourceStep ==
    /\ pc = "source" /\ stage < Len(Run(source.kind))
    /\ LET assigns == Run(source.kind)[stage].assigns
       IN  \E a \in Answers :
              /\ read' = WithAnswer(a)
              /\ source' = After(source, assigns, WithAnswer(a), Len(assigns))
    /\ stage' = stage + 1
    /\ fetched' = fetched \cup Run(source.kind)[stage + 1].keys
    /\ UNCHANGED <<external, committed, token_info, pc, wv, gc, returned, since,
                   required>>

\* The source fails at one of its assignments: the ones before it stay.
SourceError ==
    /\ pc = "source"
    /\ LET assigns == Run(source.kind)[stage].assigns
       IN  \E a \in Answers, n \in 0 .. Len(assigns) - 1 :
              source' = After(source, assigns, WithAnswer(a), n)
    /\ Return("failed")
    /\ UNCHANGED <<external, committed, token_info>>

\* Kvault with farms needs a FarmState, read now or kept from before.
FarmKnown(from) ==
    source.kind = "Kvault" /\ UseFarms =>
        from["position"] # Unset \/ source.at["farm"] # Unset

\* The source's last stage succeeds, and the rest of update_state cannot fail:
\* the vault and the config are stored and both price tables rebuilt from them.
Commit ==
    /\ pc = "source" /\ stage = Len(Run(source.kind))
    /\ LET assigns == Run(source.kind)[stage].assigns
       IN  \E a \in Answers :
              /\ FarmKnown(WithAnswer(a))
              /\ source' = After(source, assigns, WithAnswer(a), Len(assigns))
    /\ wrapper_vault' = wv
    /\ global_config' = gc
    /\ parts' = [vault |-> wv, config |-> gc, source |-> source']
    /\ Return("Ok")
    /\ UNCHANGED <<external, token_info>>

\* The caller drops the suspended future.
Cancel ==
    /\ pc # "idle"
    /\ Return("failed")
    /\ UNCHANGED <<external, committed, token_info, source>>

UpdateStep ==
    \/ FetchVault \/ FetchVaultError \/ FetchConfig \/ FetchConfigError
    \/ SourceStep \/ SourceError \/ Commit

Next == ChainAdvance \/ ResetCache \/ BeginUpdate \/ UpdateStep \/ Cancel

Spec == Init /\ [][Next]_vars

-----------------------------------------------------------------------------
(* The read-only methods.                                                    *)

initialized ==
    global_config # Unset /\ token_info[1] # Unset /\ source.kind # "Lulo"

\* The empty source of every protocol refuses every amount; so does a Kvault
\* without its reserves.
Refuses(s) ==
    s.at["pool"] = Unset \/ (s.kind = "Kvault" /\ s.at["reserves"] = Unset)

quote ==
    IF source.kind = "Lulo" THEN "UnsupportedVenue"
    ELSE IF global_config = Unset THEN "NotInitialized"
    ELSE IF Refuses(source) THEN "not_enough_liquidity"
    ELSE "priced"

-----------------------------------------------------------------------------
\* Types; every version named anywhere is one the chain has reached.
TypeOK ==
    /\ chain \in Seq(Bytes) /\ Now \in Version
    /\ resetAt \in 1 .. Now /\ since \in 1 .. resetAt
    /\ wrapper_vault \in 1 .. Now
    /\ global_config \in 0 .. Now /\ gc \in 0 .. Now /\ wv \in 0 .. Now
    /\ token_info \in (0 .. Now) \X (0 .. Now)
    /\ SourceOK(source) /\ SourceOK(parts.source)
    /\ parts.vault \in 0 .. Now /\ parts.config \in 0 .. Now
    /\ pc \in {"idle", "vault", "config", "source"}
    /\ stage \in 1 .. Len(Run(source.kind))
    /\ read \in [Accounts -> 0 .. Now]
    /\ returned \in {"none", "running", "Ok", "failed"}
    /\ required \cup fetched \subseteq VenueKeys \cup Accounts

\* The vault and the config that quotes read, and the price tables, always
\* come from one and the same completed update: neither an error after some
\* assignments nor a dropped future splits them, and the table never belongs
\* to another protocol than the vault.
CommitTogether ==
    global_config # Unset =>
        /\ parts.vault = wrapper_vault
        /\ parts.config = global_config
        /\ parts.source.kind = chain[wrapper_vault]

\* After an Ok nothing a quote reads is older than the cache's last reset
\* before the call, the source is of the vault's protocol and accrued, and the
\* price tables were built from exactly this source: an Ok repairs whatever
\* earlier failed or dropped updates left.  (Only the accounts Kvault and
\* Marginfi do without may be older.)
OkMeansFresh ==
    returned = "Ok" =>
        /\ since <= wrapper_vault /\ since <= global_config
        /\ token_info = <<wrapper_vault, wrapper_vault>>
        /\ \A x \in DOMAIN source.at :
               since <= source.at[x] \/ AccountOf(x) \in Optional(source.kind)
        /\ source.accrued
        /\ source.kind = chain[wrapper_vault]
        /\ parts.source = source

-----------------------------------------------------------------------------
(* What the TradingVenue trait asks of a venue and this one does not keep.   *)

\* trading_venue/mod.rs:248: the quote function "and the price ... it reports
\* must be mutually consistent": a priced quote and its price come from the
\* same source.
DocPriceMatchesQuote ==
    pc = "idle" /\ initialized /\ quote = "priced" => parts.source = source

\* trading_venue/mod.rs:223: get_required_pubkeys_for_update "Returns the
\* minimal set of pubkeys required to update venue state.  Titan will prefetch
\* these accounts before calling `update_state()`".
DocRequiredCoversFetched ==
    returned = "Ok" => fetched \subseteq required
=============================================================================
