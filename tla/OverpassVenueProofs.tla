------------------------ MODULE OverpassVenueProofs -------------------------
(***************************************************************************)
(* Theorems about the refresh of a venue, for every set of protocols, every  *)
(* way the vault account may change and any number of versions of the chain: *)
(* what an update commits it commits together, and an Ok repairs everything  *)
(* that failed and dropped updates left behind.                              *)
(***************************************************************************)
EXTENDS OverpassVenue, TLAPS

\* The keys asked for, and the parts assigned, before await n of a source.
KeysBefore(kind, n) == UNION {Run(kind)[i].keys : i \in 1 .. n - 1}
FieldsBefore(kind, n) ==
    {x \in FieldsOf(kind) : \E i \in 1 .. n - 1 :
        \E j \in 1 .. Len(Run(kind)[i].assigns) : x \in Run(kind)[i].assigns[j]}

\* Read since the reset this update started from, or an account to do without.
GoodRead(kind, from, k) == since <= from[k] \/ k \in Optional(kind)
GoodField(s, x) == since <= s.at[x] \/ AccountOf(x) \in Optional(s.kind)

\* How far the source's own update has come.
Progress ==
    /\ \A k \in KeysBefore(source.kind, stage) : GoodRead(source.kind, read, k)
    /\ \A x \in FieldsBefore(source.kind, stage) : GoodField(source, x)
    /\ source.kind = "Lulo" /\ stage > 1 => source.accrued

\* A source is a record, and its parts are as SourceOK says.
IsSource(s) ==
    SourceOK(s) /\ s = [kind |-> s.kind, at |-> s.at, accrued |-> s.accrued]

\* An update in progress has not returned, and its cache is not reset.
RunningOK == pc # "idle" => returned = "running" /\ since = resetAt

\* Its locals are at least as recent as that cache.
LocalsOK ==
    /\ pc \in {"config", "source"} => wv \in since .. Now
    /\ pc = "source" => /\ gc \in since .. Now /\ token_info = <<wv, wv>>
                        /\ source.kind = chain[wv] /\ Progress

\* The inductive invariant.
IInv == TypeOK /\ IsSource(source) /\ RunningOK /\ LocalsOK /\ CommitTogether /\ OkMeansFresh

-----------------------------------------------------------------------------
\* What After is meant to compute.
Unfolds(s, assigns, from) ==
    /\ After(s, assigns, from, 0) = s
    /\ \A n \in 1 .. Len(assigns) :
          After(s, assigns, from, n)
              = Assign(After(s, assigns, from, n - 1), assigns[n], from)

\* The recursion of After, which is never longer than four assignments.
LEMMA AfterStep ==
    ASSUME NEW s, NEW assigns, NEW from, Len(assigns) \in 0 .. 4
    PROVE  Unfolds(s, assigns, from)
  <1> DEFINE F(f) == [i \in 0 .. Len(assigns) |->
                        IF i = 0 THEN s ELSE Assign(f[i - 1], assigns[i], from)]
             a1 == Assign(s, assigns[1], from)
             a2 == Assign(a1, assigns[2], from)
             a3 == Assign(a2, assigns[3], from)
             a4 == Assign(a3, assigns[4], from)
             w == [i \in 0 .. Len(assigns) |->
                     IF i = 0 THEN s ELSE IF i = 1 THEN a1 ELSE IF i = 2 THEN a2
                     ELSE IF i = 3 THEN a3 ELSE a4]
             g == CHOOSE f : f = F(f)
  <1>1. w = F(w)
    <2>1. ASSUME NEW i \in 0 .. Len(assigns)
          PROVE  w[i] = F(w)[i]
      <3> HIDE DEF a1, a2, a3, a4
      <3>1. CASE i = 0
        BY <3>1
      <3>2. CASE i = 1
        BY <3>2 DEF a1
      <3>3. CASE i = 2
        BY <3>3 DEF a2
      <3>4. CASE i = 3
        BY <3>4 DEF a3
      <3>5. CASE i = 4
        BY <3>5 DEF a4
      <3>6. QED
        BY <3>1, <3>2, <3>3, <3>4, <3>5
    <2> HIDE DEF a1, a2, a3, a4
    <2>2. QED
      BY <2>1
  <1>2. g = F(g)
    BY <1>1
  <1>3. \A n : After(s, assigns, from, n) = g[n]
    BY DEF After
  <1> HIDE DEF g
  <1>4. /\ g[0] = s
        /\ \A n \in 1 .. Len(assigns) : g[n] = Assign(g[n - 1], assigns[n], from)
    BY <1>2
  <1>5. QED
    BY <1>3, <1>4, Zenon DEF Unfolds

-----------------------------------------------------------------------------
(* The shape of the five update functions.                                   *)

\* Stage i of an update: its keys are accounts, its assignments are at most
\* four, what they assign was asked for by then; only the first assignment of
\* Lulo starts its state over.
StageShape(kind, i) ==
    /\ Run(kind)[i].keys \subseteq Accounts
    /\ Len(Run(kind)[i].assigns) \in 1 .. 4
    /\ \A n \in 1 .. Len(Run(kind)[i].assigns) :
          /\ \A x \in Run(kind)[i].assigns[n] \cap FieldsOf(kind) :
                AccountOf(x) \in KeysBefore(kind, i + 1)
          /\ kind = "Lulo" /\ "pool" \in Run(kind)[i].assigns[n] => i = 1 /\ n = 1

\* An update assigns every part of its source, and ends in an accrual or, for
\* Lulo, starts with one.
AssignsAll(kind) ==
    \A x \in FieldsOf(kind) : \E i \in 1 .. Len(Run(kind)) :
        \E n \in 1 .. Len(Run(kind)[i].assigns) : x \in Run(kind)[i].assigns[n]

EndsAccrued(kind) ==
    LET last == Run(kind)[Len(Run(kind))].assigns
    IN  "accrue" \in last[Len(last)]

RunShape(kind) ==
    /\ Len(Run(kind)) \in 1 .. 3
    /\ \A i \in 1 .. Len(Run(kind)) : StageShape(kind, i)
    /\ AssignsAll(kind)
    /\ kind # "Lulo" => EndsAccrued(kind)
    /\ kind = "Lulo" => Len(Run(kind)) = 3 /\ Run(kind)[1].assigns = <<{"pool", "accrue"}>>

\* The account of each part.
LEMMA AccountOfFields ==
    /\ AccountOf("slot") = "clock" /\ AccountOf("time") = "clock"
    /\ AccountOf("basis") = "position" /\ AccountOf("charged") = "position"
    /\ AccountOf("farm") = "position" /\ AccountOf("penalty") = "kvaultConfig"
    /\ AccountOf("pool") = "pool" /\ AccountOf("position") = "position"
    /\ AccountOf("group") = "group" /\ AccountOf("referrer") = "referrer"
    /\ AccountOf("reserves") = "reserves" /\ AccountOf("shares") = "shares"
  BY DEF AccountOf

\* The stages of an update with one, two or three awaits.
LEMMA UpToThree ==
    /\ \A n : n = 1 => n \in 1 .. 3 /\ \A i \in 1 .. n : i = 1
    /\ \A n : n = 2 => n \in 1 .. 3 /\ \A i \in 1 .. n : i = 1 \/ i = 2
    /\ \A n : n = 3 => n \in 1 .. 3 /\ \A i \in 1 .. n : i = 1 \/ i = 2 \/ i = 3
  OBVIOUS

\* Save: one await.
LEMMA SaveShape == RunShape("Save")
  <1> DEFINE A == SaveRun[1].assigns
  <1>1. Run("Save") = SaveRun /\ FieldsOf("Save") = {"pool", "slot"}
    BY DEF Run, FieldsOf
  <1>2. /\ Len(SaveRun) = 1 /\ SaveRun[1].keys = {"pool", "clock"} /\ Len(A) = 3
        /\ A[1] = {"pool"} /\ A[2] = {"slot"} /\ A[3] = {"accrue"}
    BY DEF SaveRun
  <1>3. KeysBefore("Save", 2) = {"pool", "clock"}
    BY <1>1, <1>2 DEF KeysBefore
  <1> HIDE DEF A
  <1>4. StageShape("Save", 1)
    <2>1. \A n \in 1 .. 3 : A[n] = {"pool"} \/ A[n] = {"slot"} \/ A[n] = {"accrue"}
      BY <1>2
    <2>2. \A n \in 1 .. 3 : \A x \in A[n] \cap {"pool", "slot"} :
              AccountOf(x) \in {"pool", "clock"}
      BY <2>1, AccountOfFields
    <2>3. QED
      BY <1>1, <1>2, <1>3, <2>2 DEF StageShape, Accounts, A
  <1>5. AssignsAll("Save")
    <2>1. /\ 1 \in 1 .. Len(Run("Save")) /\ 1 \in 1 .. Len(A) /\ 2 \in 1 .. Len(A)
          /\ Run("Save")[1].assigns = A
      BY <1>1, <1>2 DEF A
    <2>2. QED
      BY <1>1, <1>2, <2>1 DEF AssignsAll
  <1>6. EndsAccrued("Save")
    BY <1>1, <1>2 DEF EndsAccrued, A
  <1>7. Len(Run("Save")) = 1
    BY <1>1, <1>2
  <1>8. Len(Run("Save")) \in 1 .. 3 /\ \A i \in 1 .. Len(Run("Save")) : i = 1
    BY <1>7, UpToThree, Zenon
  <1>9. QED
    BY <1>4, <1>5, <1>6, <1>8, Zenon DEF RunShape

\* Klend: one await.
LEMMA KlendShape == RunShape("Klend")
  <1> DEFINE A == KlendRun[1].assigns
  <1>1. Run("Klend") = KlendRun /\ FieldsOf("Klend") = {"pool", "slot", "time"}
    BY DEF Run, FieldsOf
  <1>2. /\ Len(KlendRun) = 1 /\ Len(A) = 4
        /\ KlendRun[1].keys = {"pool", "clock"}
        /\ A[1] = {"pool"} /\ A[2] = {"slot"} /\ A[3] = {"time"} /\ A[4] = {"accrue"}
    BY DEF KlendRun
  <1>3. KeysBefore("Klend", 2) = {"pool", "clock"}
    BY <1>1, <1>2 DEF KeysBefore
  <1> HIDE DEF A
  <1>4. StageShape("Klend", 1)
    <2>1. \A n \in 1 .. 4 :
              \/ A[n] = {"pool"}
              \/ A[n] = {"slot"}
              \/ A[n] = {"time"}
              \/ A[n] = {"accrue"}
      BY <1>2
    <2>2. \A n \in 1 .. 4 : \A x \in A[n] \cap {"pool", "slot", "time"} :
              AccountOf(x) \in {"pool", "clock"}
      BY <2>1, AccountOfFields
    <2>3. QED
      BY <1>1, <1>2, <1>3, <2>2 DEF StageShape, Accounts, A
  <1>5. AssignsAll("Klend")
    <2>1. /\ 1 \in 1 .. Len(Run("Klend")) /\ Run("Klend")[1].assigns = A
          /\ 1 \in 1 .. Len(A) /\ 2 \in 1 .. Len(A) /\ 3 \in 1 .. Len(A)
      BY <1>1, <1>2 DEF A
    <2>2. QED
      BY <1>1, <1>2, <2>1 DEF AssignsAll
  <1>6. EndsAccrued("Klend")
    BY <1>1, <1>2 DEF EndsAccrued, A
  <1>7. Len(Run("Klend")) = 1
    BY <1>1, <1>2
  <1>8. Len(Run("Klend")) \in 1 .. 3 /\ \A i \in 1 .. Len(Run("Klend")) : i = 1
    BY <1>7, UpToThree, Zenon
  <1>9. QED
    BY <1>4, <1>5, <1>6, <1>8, Zenon DEF RunShape

\* Marginfi: one await.
LEMMA MarginfiShape == RunShape("Marginfi")
  <1> DEFINE A == MarginfiRun[1].assigns
  <1>1. Run("Marginfi") = MarginfiRun /\ FieldsOf("Marginfi") = {"pool", "position", "group", "time"}
    BY DEF Run, FieldsOf
  <1>2. /\ Len(MarginfiRun) = 1 /\ Len(A) = 3
        /\ MarginfiRun[1].keys = {"pool", "position", "group", "clock"}
        /\ A[1] = {"time"} /\ A[2] = {"pool", "position", "group"} /\ A[3] = {"accrue"}
    BY DEF MarginfiRun
  <1>3. KeysBefore("Marginfi", 2) = {"pool", "position", "group", "clock"}
    BY <1>1, <1>2 DEF KeysBefore
  <1> HIDE DEF A
  <1>4. StageShape("Marginfi", 1)
    <2>1. \A n \in 1 .. 3 :
              \/ A[n] = {"time"}
              \/ A[n] = {"pool", "position", "group"}
              \/ A[n] = {"accrue"}
      BY <1>2
    <2>2. \A n \in 1 .. 3 : \A x \in A[n] \cap {"pool", "position", "group", "time"} :
              AccountOf(x) \in {"pool", "position", "group", "clock"}
      BY <2>1, AccountOfFields
    <2>3. QED
      BY <1>1, <1>2, <1>3, <2>2 DEF StageShape, Accounts, A
  <1>5. AssignsAll("Marginfi")
    <2>1. /\ 1 \in 1 .. Len(Run("Marginfi")) /\ Run("Marginfi")[1].assigns = A
          /\ 1 \in 1 .. Len(A) /\ 2 \in 1 .. Len(A)
      BY <1>1, <1>2 DEF A
    <2>2. QED
      BY <1>1, <1>2, <2>1 DEF AssignsAll
  <1>6. EndsAccrued("Marginfi")
    BY <1>1, <1>2 DEF EndsAccrued, A
  <1>7. Len(Run("Marginfi")) = 1
    BY <1>1, <1>2
  <1>8. Len(Run("Marginfi")) \in 1 .. 3 /\ \A i \in 1 .. Len(Run("Marginfi")) : i = 1
    BY <1>7, UpToThree, Zenon
  <1>9. QED
    BY <1>4, <1>5, <1>6, <1>8, Zenon DEF RunShape

\* Lulo: three awaits; the first one starts its state over and accrues.
LEMMA LuloShape == RunShape("Lulo")
  <1> DEFINE A1 == LuloRun[1].assigns
             A2 == LuloRun[2].assigns
             A3 == LuloRun[3].assigns
             F == {"pool", "basis", "charged", "referrer"}
  <1>1. Run("Lulo") = LuloRun /\ FieldsOf("Lulo") = F
    BY DEF Run, FieldsOf
  <1>2. /\ Len(LuloRun) = 3 /\ Len(A1) = 1 /\ Len(A2) = 2 /\ Len(A3) = 1
        /\ LuloRun[1].keys = {"pool"} /\ LuloRun[2].keys = {"position"}
        /\ LuloRun[3].keys = {"referrer"}
        /\ A1 = <<{"pool", "accrue"}>> /\ A1[1] = {"pool", "accrue"}
        /\ A2[1] = {"basis"} /\ A2[2] = {"charged"} /\ A3[1] = {"referrer"}
    BY DEF LuloRun
  <1>3. /\ KeysBefore("Lulo", 2) = {"pool"}
        /\ KeysBefore("Lulo", 3) = {"pool", "position"}
        /\ KeysBefore("Lulo", 4) = {"pool", "position", "referrer"}
    <2>1. 1 .. 2 - 1 = {1} /\ 1 .. 3 - 1 = {1, 2} /\ 1 .. 4 - 1 = {1, 2, 3}
      OBVIOUS
    <2>2. QED
      BY <1>1, <1>2, <2>1 DEF KeysBefore
  <1> HIDE DEF A1, A2, A3
  <1>4. StageShape("Lulo", 1)
    <2>1. \A n \in 1 .. 1 : n = 1 /\ \A x \in A1[n] \cap F : AccountOf(x) \in {"pool"}
      BY <1>2, AccountOfFields
    <2>2. /\ Run("Lulo")[1].assigns = A1 /\ Len(A1) = 1
          /\ Run("Lulo")[1].keys \subseteq Accounts
      BY <1>1, <1>2 DEF Accounts, A1
    <2>3. QED
      BY <1>1, <1>3, <2>1, <2>2 DEF StageShape
  <1>5. StageShape("Lulo", 2)
    <2>1. \A n \in 1 .. 2 : /\ "pool" \notin A2[n]
                            /\ \A x \in A2[n] \cap F : AccountOf(x) \in {"pool", "position"}
      <3>1. \A n \in 1 .. 2 : A2[n] = {"basis"} \/ A2[n] = {"charged"}
        BY <1>2
      <3>2. QED
        BY <3>1, AccountOfFields
    <2>2. QED
      BY <1>1, <1>2, <1>3, <2>1 DEF StageShape, Accounts, A2
  <1>6. StageShape("Lulo", 3)
    <2>1. \A n \in 1 .. 1 : /\ "pool" \notin A3[n]
                            /\ \A x \in A3[n] \cap F :
                                  AccountOf(x) \in {"pool", "position", "referrer"}
      BY <1>2, AccountOfFields
    <2>2. QED
      BY <1>1, <1>2, <1>3, <2>1 DEF StageShape, Accounts, A3
  <1>7. AssignsAll("Lulo")
    <2>1. /\ 1 \in 1 .. Len(Run("Lulo")) /\ 2 \in 1 .. Len(Run("Lulo"))
          /\ 3 \in 1 .. Len(Run("Lulo"))
          /\ Run("Lulo")[1].assigns = A1 /\ Run("Lulo")[2].assigns = A2
          /\ Run("Lulo")[3].assigns = A3
          /\ 1 \in 1 .. Len(A1) /\ 1 \in 1 .. Len(A2) /\ 2 \in 1 .. Len(A2)
          /\ 1 \in 1 .. Len(A3)
      BY <1>1, <1>2 DEF A1, A2, A3
    <2>2. QED
      BY <1>1, <1>2, <2>1 DEF AssignsAll
  <1>8. QED
    <2>1. Len(Run("Lulo")) = 3 /\ Run("Lulo")[1].assigns = <<{"pool", "accrue"}>>
      BY <1>1, <1>2 DEF A1
    <2>2. /\ Len(Run("Lulo")) \in 1 .. 3
          /\ \A i \in 1 .. Len(Run("Lulo")) : i = 1 \/ i = 2 \/ i = 3
      BY <2>1, UpToThree, Zenon
    <2>3. QED
      BY <1>4, <1>5, <1>6, <1>7, <2>1, <2>2, Zenon DEF RunShape

\* Kvault: the vault, the reserves and, with farms, the shares; the new state
\* replaces the old one in the last assignment.
LEMMA KvaultShape == RunShape("Kvault")
  <1> DEFINE replace == {"pool", "penalty", "reserves", "accrue"} \cup Farm({"farm", "shares"})
             more == {"kvaultConfig", "clock", "reserves"} \cup Farm({"position"})
             F == {"pool", "penalty", "reserves", "slot", "time"} \cup Farm({"farm", "shares"})
             A1 == KvaultRun[1].assigns
             A2 == KvaultRun[2].assigns
             A3 == KvaultRun[3].assigns
  <1>1. Run("Kvault") = KvaultRun /\ FieldsOf("Kvault") = F
    BY DEF Run, FieldsOf
  <1>2. CASE UseFarms
    <2>1. /\ Len(KvaultRun) = 3 /\ Len(A1) = 1 /\ Len(A2) = 3 /\ Len(A3) = 1
          /\ KvaultRun[1].keys = {"pool"} /\ KvaultRun[2].keys = more
          /\ KvaultRun[3].keys = {"shares"}
          /\ A1[1] = {} /\ A2[1] = {"slot"} /\ A2[2] = {"time"} /\ A2[3] = {}
          /\ A3[1] = replace
      BY <1>2 DEF KvaultRun
    <2>2. /\ replace = {"pool", "penalty", "reserves", "accrue", "farm", "shares"}
          /\ more = {"kvaultConfig", "clock", "reserves", "position"}
          /\ F = {"pool", "penalty", "reserves", "slot", "time", "farm", "shares"}
      BY <1>2 DEF Farm
    <2> HIDE DEF A1, A2, A3, replace, more, F
    <2>3. /\ KeysBefore("Kvault", 2) = {"pool"}
          /\ KeysBefore("Kvault", 3) = {"pool"} \cup more
          /\ KeysBefore("Kvault", 4) = {"pool", "shares"} \cup more
      <3>1. 1 .. 2 - 1 = {1} /\ 1 .. 3 - 1 = {1, 2} /\ 1 .. 4 - 1 = {1, 2, 3}
        OBVIOUS
      <3>2. QED
        BY <1>1, <2>1, <3>1 DEF KeysBefore
    <2>4. StageShape("Kvault", 1)
      <3>1. \A n \in 1 .. 1 : \A x \in A1[n] \cap F : AccountOf(x) \in {"pool"}
        BY <2>1
      <3>2. QED
        BY <1>1, <2>1, <2>3, <3>1 DEF StageShape, Accounts, A1
    <2>5. StageShape("Kvault", 2)
      <3>1. \A n \in 1 .. 3 : A2[n] = {"slot"} \/ A2[n] = {"time"} \/ A2[n] = {}
        BY <2>1
      <3>2. \A n \in 1 .. 3 : \A x \in A2[n] \cap F : AccountOf(x) \in {"pool"} \cup more
        BY <2>2, <3>1, AccountOfFields
      <3>3. more \subseteq Accounts
        BY <2>2 DEF Accounts
      <3>4. QED
        BY <1>1, <2>1, <2>3, <3>2, <3>3 DEF StageShape, A2
    <2>6. StageShape("Kvault", 3)
      <3>1. \A x \in replace \cap F : AccountOf(x) \in {"pool", "shares"} \cup more
        BY <2>2, AccountOfFields
      <3>2. \A n \in 1 .. 1 : \A x \in A3[n] \cap F :
                AccountOf(x) \in {"pool", "shares"} \cup more
        BY <2>1, <3>1
      <3>3. QED
        BY <1>1, <2>1, <2>3, <3>2 DEF StageShape, Accounts, A3
    <2>7. AssignsAll("Kvault")
      <3>1. /\ 2 \in 1 .. Len(Run("Kvault")) /\ 3 \in 1 .. Len(Run("Kvault"))
            /\ Run("Kvault")[2].assigns = A2 /\ Run("Kvault")[3].assigns = A3
            /\ 1 \in 1 .. Len(A2) /\ 2 \in 1 .. Len(A2) /\ 1 \in 1 .. Len(A3)
        BY <1>1, <2>1 DEF A2, A3
      <3>2. QED
        BY <1>1, <2>1, <2>2, <3>1 DEF AssignsAll
    <2>8. EndsAccrued("Kvault")
      BY <1>1, <2>1, <2>2 DEF EndsAccrued, A3
    <2>9. /\ Len(Run("Kvault")) \in 1 .. 3
          /\ \A i \in 1 .. Len(Run("Kvault")) : i = 1 \/ i = 2 \/ i = 3
      <3>1. Len(Run("Kvault")) = 3
        BY <1>1, <2>1
      <3>2. QED
        BY <3>1, UpToThree, Zenon
    <2>10. QED
      BY <2>4, <2>5, <2>6, <2>7, <2>8, <2>9, Zenon DEF RunShape
  <1>3. CASE ~UseFarms
    <2>1. /\ Len(KvaultRun) = 2 /\ Len(A1) = 1 /\ Len(A2) = 3
          /\ KvaultRun[1].keys = {"pool"} /\ KvaultRun[2].keys = more
          /\ A1[1] = {} /\ A2[1] = {"slot"} /\ A2[2] = {"time"} /\ A2[3] = replace
      BY <1>3 DEF KvaultRun
    <2>2. /\ replace = {"pool", "penalty", "reserves", "accrue"}
          /\ more = {"kvaultConfig", "clock", "reserves"}
          /\ F = {"pool", "penalty", "reserves", "slot", "time"}
      BY <1>3 DEF Farm
    <2> HIDE DEF A1, A2, A3, replace, more, F
    <2>3. /\ KeysBefore("Kvault", 2) = {"pool"}
          /\ KeysBefore("Kvault", 3) = {"pool"} \cup more
      <3>1. 1 .. 2 - 1 = {1} /\ 1 .. 3 - 1 = {1, 2}
        OBVIOUS
      <3>2. QED
        BY <1>1, <2>1, <3>1 DEF KeysBefore
    <2>4. StageShape("Kvault", 1)
      <3>1. \A n \in 1 .. 1 : \A x \in A1[n] \cap F : AccountOf(x) \in {"pool"}
        BY <2>1
      <3>2. QED
        BY <1>1, <2>1, <2>3, <3>1 DEF StageShape, Accounts, A1
    <2>5. StageShape("Kvault", 2)
      <3>1. \A n \in 1 .. 3 : A2[n] = {"slot"} \/ A2[n] = {"time"} \/ A2[n] = replace
        BY <2>1
      <3>2. \A n \in 1 .. 3 : \A x \in A2[n] \cap F : AccountOf(x) \in {"pool"} \cup more
        BY <2>2, <3>1, AccountOfFields
      <3>3. more \subseteq Accounts
        BY <2>2 DEF Accounts
      <3>4. QED
        BY <1>1, <2>1, <2>3, <3>2, <3>3 DEF StageShape, A2
    <2>6. AssignsAll("Kvault")
      <3>1. /\ 2 \in 1 .. Len(Run("Kvault")) /\ Run("Kvault")[2].assigns = A2
            /\ 1 \in 1 .. Len(A2) /\ 2 \in 1 .. Len(A2) /\ 3 \in 1 .. Len(A2)
        BY <1>1, <2>1 DEF A2
      <3>2. QED
        BY <1>1, <2>1, <2>2, <3>1 DEF AssignsAll
    <2>7. EndsAccrued("Kvault")
      BY <1>1, <2>1, <2>2 DEF EndsAccrued, A2
    <2>8. /\ Len(Run("Kvault")) \in 1 .. 3
          /\ \A i \in 1 .. Len(Run("Kvault")) : i = 1 \/ i = 2
      <3>1. Len(Run("Kvault")) = 2
        BY <1>1, <2>1
      <3>2. QED
        BY <3>1, UpToThree, Zenon
    <2>9. QED
      BY <2>4, <2>5, <2>6, <2>7, <2>8, Zenon DEF RunShape
  <1>4. QED
    BY <1>2, <1>3

\* Every protocol's update has that shape.
LEMMA Shape == \A kind \in Protocols : RunShape(kind)
  BY ProtocolsAssumption, SaveShape, KlendShape, MarginfiShape, LuloShape, KvaultShape

-----------------------------------------------------------------------------
(* What assignments do to a source.                                          *)

IsAnswer(from) == \A k \in Accounts : from[k] \in OptVersion

\* Every part is read from one of the accounts.
LEMMA FieldAccounts ==
    \A kind \in Protocols : \A x \in FieldsOf(kind) : AccountOf(x) \in Accounts
  <1> SUFFICES ASSUME NEW kind \in Protocols, NEW x \in FieldsOf(kind)
               PROVE  AccountOf(x) \in Accounts
    OBVIOUS
  <1>1. x \in {"pool", "slot", "time", "position", "group", "basis", "charged", "referrer",
               "penalty", "reserves", "farm", "shares"}
    BY ProtocolsAssumption DEF FieldsOf, Farm
  <1>2. QED
    BY <1>1, AccountOfFields DEF Accounts

\* The value one assignment leaves in part x.
Assigned(s, fields, from, x) ==
    IF x \in fields
      THEN IF x \in Carried /\ from[AccountOf(x)] = Unset
             THEN s.at[x] ELSE from[AccountOf(x)]
      ELSE IF s.kind = "Lulo" /\ "pool" \in fields THEN Unset ELSE s.at[x]

\* Replacing two components of a source.
LEMMA SourceUpdate ==
    ASSUME NEW s, NEW k, NEW a, NEW c, s = [kind |-> k, at |-> a, accrued |-> c],
           NEW at, NEW accrued
    PROVE  [s EXCEPT !.at = at, !.accrued = accrued]
               = [kind |-> k, at |-> at, accrued |-> accrued]
  <1> DEFINE t == [s EXCEPT !.at = at, !.accrued = accrued]
  <1>1. DOMAIN s = {"kind", "at", "accrued"} /\ s.kind = k
    OBVIOUS
  <1>2. DOMAIN t = {"kind", "at", "accrued"} /\ t = [f \in DOMAIN t |-> t[f]]
    BY <1>1
  <1>3. t.kind = k /\ t.at = at /\ t.accrued = accrued
    BY <1>1
  <1> HIDE DEF t
  <1>4. t = [kind |-> k, at |-> at, accrued |-> accrued]
    BY <1>2, <1>3
  <1>5. QED
    BY <1>4 DEF t

\* One assignment, component by component.
LEMMA AssignParts ==
    ASSUME NEW s, IsSource(s), NEW fields, NEW from, IsAnswer(from)
    PROVE  /\ IsSource(Assign(s, fields, from))
           /\ Assign(s, fields, from).kind = s.kind
           /\ \A x \in FieldsOf(s.kind) :
                 Assign(s, fields, from).at[x] = Assigned(s, fields, from, x)
           /\ "accrue" \in fields => Assign(s, fields, from).accrued
           /\ s.accrued /\ "pool" \notin fields => Assign(s, fields, from).accrued
  <1> DEFINE at == [x \in FieldsOf(s.kind) |-> Assigned(s, fields, from, x)]
             accrued == "accrue" \in fields \/ (s.accrued /\ "pool" \notin fields)
             r == [kind |-> s.kind, at |-> at, accrued |-> accrued]
  <1>1. s.kind \in Protocols /\ s.at \in [FieldsOf(s.kind) -> OptVersion] /\ s.accrued \in BOOLEAN
    BY DEF IsSource, SourceOK
  <1>2. Assign(s, fields, from) = r
    <2>1. DOMAIN s.at = FieldsOf(s.kind)
      BY <1>1
    <2>2. Assign(s, fields, from) = [s EXCEPT !.at = at, !.accrued = accrued]
      BY <2>1 DEF Assign, Assigned
    <2> HIDE DEF at, accrued
    <2>3. QED
      BY <2>2, SourceUpdate DEF IsSource
  <1>3. at \in [FieldsOf(s.kind) -> OptVersion]
    <2> SUFFICES ASSUME NEW x \in FieldsOf(s.kind)
                 PROVE  Assigned(s, fields, from, x) \in OptVersion
      OBVIOUS
    <2>1. from[AccountOf(x)] \in OptVersion /\ s.at[x] \in OptVersion /\ Unset \in OptVersion
      BY <1>1, FieldAccounts DEF IsAnswer, OptVersion
    <2>2. QED
      BY <2>1 DEF Assigned
  <1>4. accrued \in BOOLEAN
    OBVIOUS
  <1>5. \A x \in FieldsOf(s.kind) : at[x] = Assigned(s, fields, from, x)
    OBVIOUS
  <1>6. ("accrue" \in fields => accrued) /\ (s.accrued /\ "pool" \notin fields => accrued)
    OBVIOUS
  <1> HIDE DEF at, accrued
  <1>7. IsSource(r) /\ r.kind = s.kind /\ r.at = at /\ r.accrued = accrued
    BY <1>1, <1>3, <1>4 DEF IsSource, SourceOK
  <1> HIDE DEF r
  <1>8. QED
    BY <1>2, <1>5, <1>6, <1>7

\* Induction over at most four steps.
LEMMA FourSteps ==
    ASSUME NEW D, NEW L \in 0 .. 4, 0 \in D, \A n \in 1 .. L : n - 1 \in D => n \in D
    PROVE  \A n \in 0 .. L : n \in D
  <1>1. (L >= 1 => 1 \in D) /\ (L >= 2 => 2 \in D)
    OBVIOUS
  <1>2. (L >= 3 => 3 \in D) /\ (L >= 4 => 4 \in D)
    BY <1>1
  <1>3. QED
    BY <1>1, <1>2

\* A run of assignments keeps a source a source, of the same kind.
LEMMA AfterParts ==
    ASSUME NEW s, IsSource(s), NEW assigns, NEW from, IsAnswer(from), Len(assigns) \in 1 .. 4
    PROVE  \A n \in 0 .. Len(assigns) :
               /\ IsSource(After(s, assigns, from, n))
               /\ After(s, assigns, from, n).kind = s.kind
  <1> DEFINE u(n) == After(s, assigns, from, n)
             D == {n \in 0 .. Len(assigns) : IsSource(u(n)) /\ u(n).kind = s.kind}
  <1>1. Len(assigns) \in 0 .. 4 /\ 0 \in 0 .. Len(assigns)
    OBVIOUS
  <1>2. 0 \in D
    <2>1. u(0) = s
      BY <1>1, AfterStep DEF Unfolds
    <2>2. QED
      BY <1>1, <2>1
  <1>3. ASSUME NEW n \in 1 .. Len(assigns), n - 1 \in D
        PROVE  n \in D
    <2>1. u(n) = Assign(u(n - 1), assigns[n], from)
      <3>1. Unfolds(s, assigns, from)
        BY <1>1, AfterStep
      <3>2. QED
        BY <3>1, Zenon DEF Unfolds
    <2>2. IsSource(u(n - 1)) /\ u(n - 1).kind = s.kind
      BY <1>3
    <2>3. n \in 0 .. Len(assigns)
      BY <1>1
    <2> HIDE DEF u
    <2>4. IsSource(u(n)) /\ u(n).kind = s.kind
      BY <2>1, <2>2, AssignParts
    <2>5. QED
      BY <2>3, <2>4
  <1> HIDE DEF D
  <1>4. \A n \in 0 .. Len(assigns) : n \in D
    BY <1>1, <1>2, <1>3, FourSteps
  <1>5. QED
    BY <1>4 DEF D

\* An assignment from good reads leaves good parts, and keeps the good ones.
LEMMA AssignGood ==
    ASSUME NEW s, IsSource(s), NEW fields, NEW from, IsAnswer(from),
           NEW F, since \in Nat \ {0},
           \A x \in F \cap FieldsOf(s.kind) : GoodField(s, x),
           \A x \in fields \cap FieldsOf(s.kind) : GoodRead(s.kind, from, AccountOf(x)),
           s.kind = "Lulo" /\ "pool" \in fields => F \cap FieldsOf(s.kind) = {}
    PROVE  \A x \in (F \cup fields) \cap FieldsOf(s.kind) :
               GoodField(Assign(s, fields, from), x)
  <1> SUFFICES ASSUME NEW x \in (F \cup fields) \cap FieldsOf(s.kind)
               PROVE  GoodField(Assign(s, fields, from), x)
    OBVIOUS
  <1> DEFINE t == Assign(s, fields, from)
  <1>1. t.at[x] = Assigned(s, fields, from, x) /\ t.kind = s.kind
    BY AssignParts
  <1>2. CASE x \in fields
    <2>1. GoodRead(s.kind, from, AccountOf(x))
      BY <1>2
    <2>2. CASE from[AccountOf(x)] = Unset
      <3>1. ~(since <= from[AccountOf(x)])
        BY <2>2 DEF Unset
      <3>2. AccountOf(x) \in Optional(s.kind)
        BY <2>1, <3>1 DEF GoodRead
      <3>3. QED
        BY <1>1, <3>2 DEF GoodField
    <2>3. CASE from[AccountOf(x)] # Unset
      <3>1. t.at[x] = from[AccountOf(x)]
        BY <1>1, <1>2, <2>3 DEF Assigned
      <3>2. QED
        BY <1>1, <2>1, <3>1 DEF GoodRead, GoodField
    <2>4. QED
      BY <2>2, <2>3
  <1>3. CASE x \notin fields
    <2>1. x \in F \cap FieldsOf(s.kind) /\ GoodField(s, x)
      BY <1>3
    <2>2. ~(s.kind = "Lulo" /\ "pool" \in fields)
      BY <2>1
    <2>3. t.at[x] = s.at[x]
      BY <1>1, <1>3, <2>2 DEF Assigned
    <2>4. QED
      BY <1>1, <2>1, <2>3 DEF GoodField
  <1>4. QED
    BY <1>2, <1>3

\* A stage that runs to its end leaves every part it assigns good.
LEMMA StageGood ==
    ASSUME NEW s, IsSource(s), NEW from, IsAnswer(from), since \in Nat \ {0},
           NEW i \in Nat \ {0}, StageShape(s.kind, i),
           \A k \in KeysBefore(s.kind, i + 1) : GoodRead(s.kind, from, k),
           \A x \in FieldsBefore(s.kind, i) : GoodField(s, x)
    PROVE  LET assigns == Run(s.kind)[i].assigns
           IN  \A x \in FieldsBefore(s.kind, i + 1) :
                   GoodField(After(s, assigns, from, Len(assigns)), x)
  <1> DEFINE assigns == Run(s.kind)[i].assigns
             u(n) == After(s, assigns, from, n)
             F(n) == FieldsBefore(s.kind, i) \cup UNION {assigns[j] : j \in 1 .. n}
             D == {n \in 0 .. Len(assigns) :
                     \A x \in F(n) \cap FieldsOf(s.kind) : GoodField(u(n), x)}
  <1>1. Len(assigns) \in 1 .. 4 /\ Len(assigns) \in 0 .. 4 /\ 0 \in 0 .. Len(assigns)
    BY DEF StageShape
  <1>2. 0 \in D
    <2>1. F(0) = FieldsBefore(s.kind, i)
      OBVIOUS
    <2>2. u(0) = s
      BY <1>1, AfterStep DEF Unfolds
    <2>3. QED
      BY <1>1, <2>1, <2>2
  <1>3. ASSUME NEW n \in 1 .. Len(assigns), n - 1 \in D
        PROVE  n \in D
    <2>1. u(n) = Assign(u(n - 1), assigns[n], from)
      <3>1. Unfolds(s, assigns, from)
        BY <1>1, AfterStep
      <3>2. QED
        BY <3>1, Zenon DEF Unfolds
    <2>2. n - 1 \in 0 .. Len(assigns) /\ n \in 0 .. Len(assigns)
      BY <1>1
    <2>3. IsSource(u(n - 1)) /\ u(n - 1).kind = s.kind
      BY <1>1, <2>2, AfterParts
    <2>4. \A x \in assigns[n] \cap FieldsOf(s.kind) : GoodRead(s.kind, from, AccountOf(x))
      BY DEF StageShape
    <2>5. s.kind = "Lulo" /\ "pool" \in assigns[n] => F(n - 1) \cap FieldsOf(s.kind) = {}
      <3> SUFFICES ASSUME s.kind = "Lulo", "pool" \in assigns[n]
                   PROVE  F(n - 1) = {}
        OBVIOUS
      <3>1. i = 1 /\ n = 1
        BY DEF StageShape
      <3>2. FieldsBefore(s.kind, i) = {}
        BY <3>1 DEF FieldsBefore
      <3>3. QED
        BY <3>1, <3>2
    <2>6. F(n) = F(n - 1) \cup assigns[n]
      <3>1. 1 .. n = 1 .. n - 1 \cup {n}
        BY <1>1
      <3>2. QED
        BY <3>1
    <2>7. \A x \in F(n - 1) \cap FieldsOf(s.kind) : GoodField(u(n - 1), x)
      BY <1>3
    <2> HIDE DEF u, F, assigns
    <2>8. \A x \in (F(n - 1) \cup assigns[n]) \cap FieldsOf(s.kind) :
              GoodField(Assign(u(n - 1), assigns[n], from), x)
      BY <2>3, <2>4, <2>5, <2>7, AssignGood
    <2>9. QED
      BY <2>1, <2>2, <2>6, <2>8
  <1> HIDE DEF D
  <1>4. Len(assigns) \in D
    <2>1. Len(assigns) \in 0 .. Len(assigns)
      BY <1>1
    <2>2. QED
      BY <1>1, <1>2, <1>3, <2>1, FourSteps
  <1>5. ASSUME NEW x \in FieldsBefore(s.kind, i + 1)
        PROVE  x \in F(Len(assigns)) \cap FieldsOf(s.kind)
    <2>1. x \in FieldsOf(s.kind)
      BY <1>5 DEF FieldsBefore
    <2>2. PICK h \in 1 .. i :
              \E j \in 1 .. Len(Run(s.kind)[h].assigns) : x \in Run(s.kind)[h].assigns[j]
      BY <1>5 DEF FieldsBefore
    <2>3. CASE h = i
      BY <2>1, <2>2, <2>3
    <2>4. CASE h # i
      <3>1. h \in 1 .. i - 1
        BY <2>4
      <3>2. QED
        BY <2>1, <2>2, <3>1 DEF FieldsBefore
    <2>5. QED
      BY <2>3, <2>4
  <1>6. QED
    BY <1>4, <1>5 DEF D

\* A stage of Lulo that keeps the accrual of the first one.
LEMMA LuloAccrued ==
    ASSUME NEW s, IsSource(s), s.kind = "Lulo", NEW from, IsAnswer(from),
           NEW i \in 1 .. 3, StageShape("Lulo", i), i > 1 => s.accrued,
           Run("Lulo")[1].assigns = <<{"pool", "accrue"}>>
    PROVE  LET assigns == Run("Lulo")[i].assigns
           IN  After(s, assigns, from, Len(assigns)).accrued
  <1> DEFINE assigns == Run("Lulo")[i].assigns
             u(n) == After(s, assigns, from, n)
             D == {n \in 0 .. Len(assigns) : u(n).accrued}
  <1>1. Len(assigns) \in 1 .. 4 /\ Len(assigns) \in 0 .. 4 /\ 0 \in 0 .. Len(assigns)
    BY DEF StageShape
  <1>2. Unfolds(s, assigns, from)
    BY <1>1, AfterStep
  <1>3. \A n \in 1 .. Len(assigns) : u(n) = Assign(u(n - 1), assigns[n], from)
    BY <1>2 DEF Unfolds
  <1>4. u(0) = s
    BY <1>2 DEF Unfolds
  <1>5. CASE i = 1
    <2>1. Len(assigns) = 1 /\ assigns[1] = {"pool", "accrue"}
      BY <1>5
    <2>2. u(1) = Assign(s, assigns[1], from)
      BY <1>3, <1>4, <2>1
    <2>3. Assign(s, assigns[1], from).accrued
      BY <2>1, AssignParts
    <2>4. QED
      BY <2>1, <2>2, <2>3
  <1>6. CASE i # 1
    <2>1. 0 \in D
      BY <1>1, <1>4, <1>6
    <2>2. ASSUME NEW n \in 1 .. Len(assigns), n - 1 \in D
          PROVE  n \in D
      <3>1. "pool" \notin assigns[n]
        BY <1>6 DEF StageShape
      <3>2. n - 1 \in 0 .. Len(assigns) /\ n \in 0 .. Len(assigns)
        BY <1>1
      <3>3. IsSource(u(n - 1))
        BY <1>1, <3>2, AfterParts
      <3>4. u(n - 1).accrued /\ u(n) = Assign(u(n - 1), assigns[n], from)
        BY <1>3, <2>2
      <3> HIDE DEF u, assigns
      <3>5. u(n).accrued
        BY <3>1, <3>3, <3>4, AssignParts
      <3>6. QED
        BY <3>2, <3>5
    <2> HIDE DEF D
    <2>3. Len(assigns) \in 0 .. Len(assigns)
      BY <1>1
    <2>4. Len(assigns) \in D
      BY <1>1, <2>1, <2>2, <2>3, FourSteps
    <2>5. QED
      BY <2>4 DEF D
  <1>7. QED
    BY <1>5, <1>6

\* The last assignment of the other protocols accrues.
LEMMA LastAccrued ==
    ASSUME NEW s, IsSource(s), NEW from, IsAnswer(from), EndsAccrued(s.kind),
           NEW i, i = Len(Run(s.kind)), StageShape(s.kind, i)
    PROVE  LET assigns == Run(s.kind)[i].assigns
           IN  After(s, assigns, from, Len(assigns)).accrued
  <1> DEFINE assigns == Run(s.kind)[i].assigns
             u(n) == After(s, assigns, from, n)
             L == Len(assigns)
  <1>1. L \in 1 .. 4 /\ L \in 0 .. 4 /\ L - 1 \in 0 .. L /\ L \in 1 .. L
    <2>1. L \in 1 .. 4
      BY Zenon DEF StageShape
    <2> HIDE DEF L
    <2>2. QED
      BY <2>1
  <1>2. Unfolds(s, assigns, from)
    BY <1>1, AfterStep
  <1>3. u(L) = Assign(u(L - 1), assigns[L], from)
    BY <1>1, <1>2, Zenon DEF Unfolds
  <1>4. IsSource(u(L - 1))
    BY <1>1, AfterParts
  <1>5. "accrue" \in assigns[L]
    BY DEF EndsAccrued
  <1> HIDE DEF u, assigns, L
  <1>6. u(L).accrued
    BY <1>3, <1>4, <1>5, AssignParts
  <1>7. QED
    BY <1>6 DEF u, assigns, L

-----------------------------------------------------------------------------
(* The steps.                                                                *)

\* The new source of a protocol.
LEMMA MakeSource ==
    ASSUME NEW p \in Protocols
    PROVE  IsSource(make_source(p)) /\ make_source(p).kind = p
  BY DEF IsSource, SourceOK, make_source, OptVersion, Unset

\* What from_account builds.
LEMMA InitInv == Init => IInv
  <1> SUFFICES ASSUME Init PROVE IInv
    OBVIOUS
  <1>1. PICK p \in Protocols :
            /\ chain = <<p>> /\ source = make_source(p)
            /\ parts = [vault |-> Unset, config |-> Unset, source |-> make_source(p)]
    BY DEF Init
  <1>2. IsSource(source) /\ source.kind = p /\ SourceOK(source) /\ SourceOK(parts.source)
    BY <1>1, MakeSource DEF IsSource
  <1>3. chain \in Seq(Bytes) /\ Now = 1
    BY <1>1 DEF Bytes, Now
  <1>4. Len(Run(source.kind)) \in 1 .. 3
    BY <1>2, Shape DEF RunShape
  <1>5. TypeOK
    <2>1. 1 \in 1 .. Len(Run(source.kind))
      BY <1>4
    <2>2. NothingRead \in [Accounts -> 0 .. Now]
      BY <1>3 DEF NothingRead, Unset
    <2>3. QED
      BY <1>1, <1>2, <1>3, <2>1, <2>2, MaxVersionAssumption
      DEF Init, TypeOK, Version, Unset, VenueKeys
  <1>6. QED
    BY <1>2, <1>5
    DEF Init, IInv, RunningOK, LocalsOK, CommitTogether, OkMeansFresh, Unset

\* The chain only grows.
ChainKept ==
    /\ Now' \in Nat /\ Now <= Now'
    /\ \A v \in 1 .. Now : chain'[v] = chain[v]

\* A chain that does not change has kept its versions.
LEMMA ChainSame ==
    ASSUME TypeOK, chain' = chain
    PROVE  ChainKept /\ Now' = Now
  BY DEF TypeOK, ChainKept, Now, Version

\* A committed state that is not touched stays committed together.
LEMMA CommittedKept ==
    ASSUME IInv, ChainKept, UNCHANGED committed
    PROVE  CommitTogether'
  <1>1. wrapper_vault \in 1 .. Now /\ chain'[wrapper_vault] = chain[wrapper_vault]
    BY DEF IInv, TypeOK, ChainKept
  <1>2. QED
    BY <1>1 DEF IInv, CommitTogether, committed

\* What an Ok left stays fresh while nothing touches it.
LEMMA OkKept ==
    ASSUME IInv, ChainKept, UNCHANGED <<committed, token_info, source, returned, since>>
    PROVE  OkMeansFresh'
  <1>1. wrapper_vault \in 1 .. Now /\ chain'[wrapper_vault] = chain[wrapper_vault]
    BY DEF IInv, TypeOK, ChainKept
  <1>2. QED
    BY <1>1 DEF IInv, OkMeansFresh, committed

\* What an update has read so far stays good while it is suspended.
LEMMA ProgressKept ==
    ASSUME Progress, UNCHANGED <<source, stage, read, since>>
    PROVE  Progress'
  BY DEF Progress, GoodRead, GoodField

\* The chain moves on: every version stays where it was.
LEMMA ChainAdvanceInv ==
    ASSUME IInv, ChainAdvance
    PROVE  IInv'
  <1>1. PICK p \in Bytes : chain' = Append(chain, p)
    BY DEF ChainAdvance
  <1>2. chain \in Seq(Bytes) /\ Now \in Version /\ Now < MaxVersion
    BY DEF IInv, TypeOK, ChainAdvance
  <1>3. chain' \in Seq(Bytes) /\ Now' = Now + 1 /\ Now' \in Version /\ ChainKept
    BY <1>1, <1>2, MaxVersionAssumption DEF Now, Version, ChainKept
  <1>4. UNCHANGED <<resetAt, wrapper_vault, global_config, parts, token_info, source, pc,
                    wv, gc, read, stage, returned, since, required, fetched>>
    BY DEF ChainAdvance, committed, locals, history
  <1>5. TypeOK'
    <2>1. 0 .. Now \subseteq 0 .. Now' /\ 1 .. Now \subseteq 1 .. Now'
      BY <1>2, <1>3 DEF Version
    <2>2. read' \in [Accounts -> 0 .. Now']
      BY <1>4, <2>1 DEF IInv, TypeOK
    <2>3. token_info' \in (0 .. Now') \X (0 .. Now')
      BY <1>4, <2>1 DEF IInv, TypeOK
    <2>4. QED
      BY <1>3, <1>4, <2>1, <2>2, <2>3 DEF IInv, TypeOK, SourceOK
  <1>6. RunningOK'
    BY <1>4 DEF IInv, RunningOK
  <1>7. LocalsOK'
    <2>1. pc \in {"config", "source"} => wv \in 1 .. Now /\ wv \in since .. Now
      BY DEF IInv, LocalsOK, TypeOK, Version
    <2>2. pc \in {"config", "source"} => wv' \in since' .. Now' /\ chain'[wv] = chain[wv]
      BY <1>2, <1>3, <1>4, <2>1 DEF ChainKept, Version
    <2>3. pc = "source" => Progress'
      BY <1>4, ProgressKept DEF IInv, LocalsOK
    <2>4. pc = "source" => gc' \in since' .. Now'
      BY <1>2, <1>3, <1>4 DEF IInv, LocalsOK, TypeOK, Version
    <2>5. QED
      BY <1>4, <2>2, <2>3, <2>4 DEF IInv, LocalsOK
  <1>8. CommitTogether' /\ OkMeansFresh'
    BY <1>3, <1>4, CommittedKept, OkKept DEF committed
  <1>9. IsSource(source')
    BY <1>4 DEF IInv
  <1>10. QED
    BY <1>4, <1>5, <1>6, <1>7, <1>8, <1>9 DEF IInv

\* A reset finds no update in progress.
LEMMA ResetInv ==
    ASSUME IInv, ResetCache
    PROVE  IInv'
  <1>1. /\ pc = "idle" /\ resetAt < Now /\ resetAt' = Now
        /\ UNCHANGED <<chain, wrapper_vault, global_config, parts, token_info, source, pc,
                       wv, gc, read, stage, returned, since, required, fetched>>
    BY DEF ResetCache, committed, locals, history
  <1>2. ChainKept /\ Now' = Now
    BY <1>1, ChainSame DEF IInv
  <1>3. TypeOK'
    BY <1>1, <1>2 DEF IInv, TypeOK, SourceOK, Version
  <1>4. CommitTogether' /\ OkMeansFresh'
    BY <1>1, <1>2, CommittedKept, OkKept DEF committed
  <1>5. IsSource(source') /\ source' = source
    BY <1>1 DEF IInv
  <1>6. QED
    BY <1>1, <1>3, <1>4, <1>5 DEF IInv, RunningOK, LocalsOK

\* The keys a source names are accounts.
LEMMA RequiredAccounts ==
    ASSUME NEW s, s.kind \in Protocols
    PROVE  required_pubkeys(s) \subseteq Accounts
  BY ProtocolsAssumption DEF required_pubkeys, Accounts, Farm

\* update_state starts from the cache of the last reset.
LEMMA BeginInv ==
    ASSUME IInv, BeginUpdate
    PROVE  IInv'
  <1>1. /\ pc' = "vault" /\ since' = resetAt /\ returned' = "running"
        /\ required' = VenueKeys \cup required_pubkeys(source)
        /\ fetched' = {"vault"}
        /\ UNCHANGED <<chain, resetAt, wrapper_vault, global_config, parts, token_info,
                       source, wv, gc, read, stage>>
    BY DEF BeginUpdate, committed, locals, external
  <1>2. ChainKept /\ Now' = Now
    BY <1>1, ChainSame DEF IInv
  <1>3. TypeOK'
    <2>1. required' \cup fetched' \subseteq VenueKeys \cup Accounts
      <3>1. required_pubkeys(source) \subseteq Accounts
        BY RequiredAccounts DEF IInv, TypeOK, SourceOK
      <3>2. QED
        BY <1>1, <3>1 DEF VenueKeys
    <2>2. QED
      BY <1>1, <1>2, <2>1 DEF IInv, TypeOK, SourceOK, Version
  <1>4. CommitTogether'
    BY <1>1, <1>2, CommittedKept DEF committed
  <1>5. IsSource(source') /\ source' = source
    BY <1>1 DEF IInv
  <1>6. QED
    BY <1>1, <1>3, <1>4, <1>5 DEF IInv, RunningOK, LocalsOK, OkMeansFresh

\* However an update fails, what it committed before stays as it was.
LEMMA FailInv ==
    ASSUME IInv, Return("failed"), UNCHANGED <<external, committed>>,
           token_info' \in (0 .. Now) \X (0 .. Now), IsSource(source')
    PROVE  IInv'
  <1>1. /\ pc' = "idle" /\ returned' = "failed" /\ since' = 1 /\ required' = {}
        /\ fetched' = {} /\ wv' = Unset /\ gc' = Unset /\ read' = NothingRead /\ stage' = 1
        /\ UNCHANGED <<chain, resetAt, wrapper_vault, global_config, parts>>
    BY DEF Return, external, committed
  <1>2. ChainKept /\ Now' = Now
    BY <1>1, ChainSame DEF IInv
  <1>3. 1 \in 1 .. Len(Run(source'.kind))
    <2>1. Len(Run(source'.kind)) \in 1 .. 3
      BY Shape DEF RunShape, IsSource, SourceOK
    <2>2. QED
      BY <2>1
  <1>4. TypeOK'
    <2>1. SourceOK(source') /\ SourceOK(parts'.source)
      BY <1>1 DEF IInv, TypeOK, IsSource
    <2>2. NothingRead \in [Accounts -> 0 .. Now]
      BY DEF IInv, TypeOK, NothingRead, Unset, Version
    <2>3. QED
      BY <1>1, <1>2, <1>3, <2>1, <2>2 DEF IInv, TypeOK, Unset, Version
  <1>5. CommitTogether'
    BY <1>1, <1>2, CommittedKept DEF committed
  <1>6. QED
    BY <1>1, <1>4, <1>5 DEF IInv, RunningOK, LocalsOK, OkMeansFresh

\* An update without a vault, or a dropped one, changes nothing.
LEMMA FetchVaultErrorInv ==
    ASSUME IInv, FetchVaultError \/ Cancel
    PROVE  IInv'
  <1>1. Return("failed") /\ UNCHANGED <<external, committed>> /\ token_info' = token_info
        /\ source' = source
    BY DEF FetchVaultError, Cancel
  <1>2. token_info' \in (0 .. Now) \X (0 .. Now) /\ IsSource(source')
    BY <1>1 DEF IInv, TypeOK
  <1>3. QED
    BY <1>1, <1>2, FailInv

\* An update may fail after it has stored its mints.
LEMMA FetchConfigErrorInv ==
    ASSUME IInv, FetchConfigError
    PROVE  IInv'
  <1>1. Return("failed") /\ UNCHANGED <<external, committed>> /\ source' = source
    BY DEF FetchConfigError
  <1>2. wv \in 0 .. Now /\ token_info \in (0 .. Now) \X (0 .. Now)
    BY DEF IInv, TypeOK
  <1>3. token_info' \in (0 .. Now) \X (0 .. Now)
    BY <1>2 DEF FetchConfigError
  <1>4. IsSource(source')
    BY <1>1 DEF IInv
  <1>5. QED
    BY <1>1, <1>3, <1>4, FailInv

\* The vault arrives, no older than the cache.
LEMMA FetchVaultInv ==
    ASSUME IInv, FetchVault
    PROVE  IInv'
  <1>1. /\ pc = "vault" /\ pc' = "config" /\ wv' \in resetAt .. Now
        /\ fetched' = fetched \cup {"config", "underlyingMint", "wrapperMint"}
        /\ UNCHANGED <<chain, resetAt, wrapper_vault, global_config, parts, token_info,
                       source, gc, read, stage, returned, since, required>>
    BY DEF FetchVault, committed, external, Cached
  <1>2. ChainKept /\ Now' = Now
    BY <1>1, ChainSame DEF IInv
  <1>3. TypeOK'
    <2>1. required' \cup fetched' \subseteq VenueKeys \cup Accounts
      BY <1>1 DEF IInv, TypeOK, VenueKeys
    <2>2. wv' \in 0 .. Now
      BY <1>1 DEF IInv, TypeOK, Version
    <2>3. QED
      BY <1>1, <1>2, <2>1, <2>2 DEF IInv, TypeOK, SourceOK
  <1>4. CommitTogether' /\ OkMeansFresh'
    BY <1>1, <1>2, CommittedKept, OkKept DEF committed
  <1>5. IsSource(source') /\ RunningOK' /\ LocalsOK'
    <2>1. IsSource(source') /\ RunningOK'
      BY <1>1 DEF IInv, RunningOK
    <2>2. since' = resetAt
      BY <1>1 DEF IInv, RunningOK
    <2>3. QED
      BY <1>1, <1>2, <2>1, <2>2 DEF LocalsOK
  <1>6. source' = source
    BY <1>1
  <1>7. QED
    BY <1>3, <1>4, <1>5, <1>6 DEF IInv

\* The config and the mints arrive; the source is of the vault's protocol.
LEMMA FetchConfigInv ==
    ASSUME IInv, FetchConfig
    PROVE  IInv'
  <1>1. /\ pc = "config" /\ pc' = "source" /\ gc' \in resetAt .. Now /\ stage' = 1
        /\ token_info' = <<wv, wv>> /\ chain[wv] # UnknownProtocol
        /\ source' = IF source.kind = chain[wv] THEN source ELSE make_source(chain[wv])
        /\ fetched' = fetched \cup Run(chain[wv])[1].keys
        /\ UNCHANGED <<chain, resetAt, wrapper_vault, global_config, parts, wv, read,
                       returned, since, required>>
    BY DEF FetchConfig, committed, external, Cached
  <1>2. ChainKept /\ Now' = Now
    BY <1>1, ChainSame DEF IInv
  <1>3. /\ wv \in 1 .. Now /\ wv \in since .. Now /\ since = resetAt /\ returned = "running"
        /\ Now \in Nat /\ since \in Nat \ {0}
    BY <1>1 DEF IInv, LocalsOK, RunningOK, TypeOK, Version
  <1>4. chain[wv] \in Protocols
    <2>1. chain[wv] \in Bytes
      BY <1>3 DEF IInv, TypeOK, Now
    <2>2. QED
      BY <1>1, <2>1 DEF Bytes
  <1>5. IsSource(source') /\ source'.kind = chain[wv]
    BY <1>1, <1>4, MakeSource DEF IInv
  <1>6. RunShape(chain[wv])
    BY <1>4, Shape
  <1>7. TypeOK'
    <2>1. 1 \in 1 .. Len(Run(source'.kind)) /\ StageShape(chain[wv], 1)
      <3>1. Len(Run(chain[wv])) \in 1 .. 3
        BY <1>6 DEF RunShape
      <3>2. 1 \in 1 .. Len(Run(chain[wv]))
        BY <3>1
      <3>3. QED
        BY <1>5, <1>6, <3>2, Zenon DEF RunShape
    <2>2. required' \cup fetched' \subseteq VenueKeys \cup Accounts
      <3>1. Run(chain[wv])[1].keys \subseteq Accounts
        BY <2>1, Zenon DEF StageShape
      <3>2. QED
        BY <1>1, <3>1 DEF IInv, TypeOK
    <2>3. SourceOK(source') /\ SourceOK(parts'.source)
      BY <1>1, <1>5 DEF IInv, TypeOK, IsSource
    <2>4. gc' \in 0 .. Now' /\ token_info' \in (0 .. Now') \X (0 .. Now')
      BY <1>1, <1>2, <1>3
    <2>5. QED
      BY <1>1, <1>2, <2>1, <2>2, <2>3, <2>4 DEF IInv, TypeOK
  <1>8. LocalsOK'
    <2>1. KeysBefore(source'.kind, 1) = {} /\ FieldsBefore(source'.kind, 1) = {}
      BY DEF KeysBefore, FieldsBefore
    <2>2. Progress'
      BY <1>1, <2>1 DEF Progress
    <2>3. QED
      BY <1>1, <1>2, <1>3, <1>5, <2>2 DEF LocalsOK
  <1>9. CommitTogether'
    BY <1>1, <1>2, CommittedKept DEF committed
  <1>10. RunningOK' /\ OkMeansFresh'
    BY <1>1, <1>3 DEF RunningOK, OkMeansFresh
  <1>11. QED
    BY <1>5, <1>7, <1>8, <1>9, <1>10 DEF IInv

\* The shape of the current stage.
LEMMA StageNow ==
    ASSUME IInv
    PROVE  /\ RunShape(source.kind) /\ StageShape(source.kind, stage)
           /\ stage \in Nat \ {0} /\ stage <= Len(Run(source.kind))
           /\ Len(Run(source.kind)) \in 1 .. 3
           /\ Len(Run(source.kind)[stage].assigns) \in 1 .. 4
  <1>1. source.kind \in Protocols /\ stage \in 1 .. Len(Run(source.kind))
    BY DEF IInv, TypeOK, SourceOK
  <1>2. RunShape(source.kind)
    BY <1>1, Shape
  <1>3. StageShape(source.kind, stage)
    BY <1>1, <1>2, Zenon DEF RunShape
  <1>4. Len(Run(source.kind)) \in 1 .. 3
    BY <1>2 DEF RunShape
  <1>5. stage \in Nat \ {0} /\ stage <= Len(Run(source.kind))
    BY <1>1, <1>4
  <1>6. Len(Run(source.kind)[stage].assigns) \in 1 .. 4
    BY <1>3, Zenon DEF StageShape
  <1>7. QED
    BY <1>2, <1>3, <1>4, <1>5, <1>6

\* An answer of the cache is good, and what was read before it still is.
LEMMA AnswerGood ==
    ASSUME IInv, pc = "source", NEW a \in Answers
    PROVE  /\ WithAnswer(a) \in [Accounts -> 0 .. Now] /\ IsAnswer(WithAnswer(a))
           /\ \A k \in KeysBefore(source.kind, stage + 1) :
                 GoodRead(source.kind, WithAnswer(a), k)
  <1> DEFINE keys == Run(source.kind)[stage].keys
             w == WithAnswer(a)
  <1>1. /\ a \in [keys -> {Unset} \cup (resetAt .. Now)]
        /\ \A k \in keys \ Optional(source.kind) : a[k] # Unset
    BY DEF Answers, Cached
  <1>2. keys \subseteq Accounts /\ stage \in Nat \ {0}
    BY StageNow DEF StageShape
  <1>3. /\ resetAt \in 1 .. Now /\ Now \in 1 .. MaxVersion /\ since = resetAt
        /\ read \in [Accounts -> 0 .. Now]
    BY DEF IInv, TypeOK, RunningOK, Version
  <1> HIDE DEF keys
  <1>4. /\ \A k \in keys : w[k] = a[k]
        /\ \A k \in Accounts \ keys : w[k] = read[k]
        /\ DOMAIN w = Accounts /\ w = [k \in Accounts |-> w[k]]
    BY <1>1, <1>2 DEF WithAnswer
  <1> HIDE DEF w
  <1>5. \A k \in keys : a[k] \in 0 .. Now /\ (k \notin Optional(source.kind) => since <= a[k])
    BY <1>1, <1>3 DEF Unset
  <1>6. \A k \in Accounts : w[k] \in 0 .. Now
    BY <1>3, <1>4, <1>5
  <1>7. w \in [Accounts -> 0 .. Now]
    BY <1>4, <1>6
  <1>8. IsAnswer(w)
    BY <1>3, <1>6, MaxVersionAssumption DEF IsAnswer, OptVersion, Version, Unset
  <1>9. ASSUME NEW k \in KeysBefore(source.kind, stage + 1)
        PROVE  GoodRead(source.kind, w, k)
    <2>1. CASE k \in keys
      BY <1>4, <1>5, <2>1 DEF GoodRead
    <2>2. CASE k \notin keys
      <3>1. PICK i \in 1 .. stage : k \in Run(source.kind)[i].keys
        BY <1>2, <1>9 DEF KeysBefore
      <3>2. i # stage
        BY <2>2, <3>1 DEF keys
      <3>3. i \in 1 .. stage - 1
        BY <1>2, <3>2
      <3>4. k \in KeysBefore(source.kind, stage)
        BY <3>1, <3>3 DEF KeysBefore
      <3>5. GoodRead(source.kind, read, k)
        BY <3>4 DEF IInv, LocalsOK, Progress
      <3>6. k \in Accounts
        <4>1. i \in 1 .. Len(Run(source.kind))
          BY <3>1, StageNow
        <4>2. StageShape(source.kind, i)
          BY <4>1, StageNow, Zenon DEF RunShape
        <4>3. QED
          BY <3>1, <4>2, Zenon DEF StageShape
      <3>7. w[k] = read[k]
        BY <1>4, <2>2, <3>6
      <3>8. QED
        BY <3>5, <3>7 DEF GoodRead
    <2>3. QED
      BY <2>1, <2>2
  <1>10. QED
    BY <1>7, <1>8, <1>9 DEF w

\* A source that fails keeps the assignments it has made.
LEMMA SourceErrorInv ==
    ASSUME IInv, SourceError
    PROVE  IInv'
  <1> DEFINE assigns == Run(source.kind)[stage].assigns
  <1>1. /\ pc = "source" /\ Return("failed") /\ UNCHANGED <<external, committed>>
        /\ token_info' = token_info
    BY DEF SourceError
  <1>2. PICK a \in Answers, n \in 0 .. Len(assigns) - 1 :
            source' = After(source, assigns, WithAnswer(a), n)
    BY DEF SourceError
  <1>3. Len(assigns) \in 1 .. 4
    BY StageNow
  <1>4. n \in 0 .. Len(assigns)
    BY <1>3
  <1>5. IsAnswer(WithAnswer(a))
    BY <1>1, AnswerGood
  <1> HIDE DEF assigns
  <1>6. IsSource(source')
    BY <1>2, <1>3, <1>4, <1>5, AfterParts DEF IInv
  <1>7. token_info' \in (0 .. Now) \X (0 .. Now)
    BY <1>1 DEF IInv, TypeOK
  <1>8. QED
    BY <1>1, <1>6, <1>7, FailInv

\* What a completed stage makes of the source.
LEMMA StageDone ==
    ASSUME IInv, pc = "source", NEW a \in Answers,
           LET assigns == Run(source.kind)[stage].assigns
           IN  source' = After(source, assigns, WithAnswer(a), Len(assigns))
    PROVE  /\ IsSource(source') /\ source'.kind = source.kind
           /\ \A x \in FieldsBefore(source.kind, stage + 1) : GoodField(source', x)
           /\ source.kind = "Lulo" => source'.accrued
           /\ source.kind # "Lulo" /\ stage = Len(Run(source.kind)) => source'.accrued
  <1> DEFINE assigns == Run(source.kind)[stage].assigns
             w == WithAnswer(a)
  <1>1. source' = After(source, assigns, w, Len(assigns))
    OBVIOUS
  <1>2. IsSource(source) /\ since \in Nat \ {0}
    BY DEF IInv, TypeOK, Version
  <1>3. IsAnswer(w) /\ \A k \in KeysBefore(source.kind, stage + 1) : GoodRead(source.kind, w, k)
    BY AnswerGood
  <1>4. /\ Len(assigns) \in 1 .. 4 /\ StageShape(source.kind, stage) /\ stage \in Nat \ {0}
        /\ RunShape(source.kind)
    BY StageNow
  <1>5. Len(assigns) \in 0 .. Len(assigns)
    BY <1>4
  <1>6. \A x \in FieldsBefore(source.kind, stage) : GoodField(source, x)
    BY DEF IInv, LocalsOK, Progress
  <1> HIDE DEF w
  <1>7. \A x \in FieldsBefore(source.kind, stage + 1) : GoodField(source', x)
    BY <1>1, <1>2, <1>3, <1>4, <1>6, StageGood
  <1>8. IsSource(source') /\ source'.kind = source.kind
    <2> HIDE DEF assigns
    <2>1. QED
      BY <1>1, <1>2, <1>3, <1>4, <1>5, AfterParts
  <1>9. ASSUME source.kind = "Lulo" PROVE source'.accrued
    <2>1. stage > 1 => source.accrued
      BY <1>9 DEF IInv, LocalsOK, Progress
    <2>2. Len(Run("Lulo")) = 3 /\ Run("Lulo")[1].assigns = <<{"pool", "accrue"}>>
      BY <1>4, <1>9 DEF RunShape
    <2>3. stage \in 1 .. 3
      BY <1>9, <2>2, StageNow
    <2>4. QED
      BY <1>1, <1>2, <1>3, <1>4, <1>9, <2>1, <2>2, <2>3, LuloAccrued
  <1>10. ASSUME source.kind # "Lulo", stage = Len(Run(source.kind)) PROVE source'.accrued
    <2>1. EndsAccrued(source.kind)
      BY <1>4, <1>10 DEF RunShape
    <2>2. QED
      BY <1>1, <1>2, <1>3, <1>4, <1>10, <2>1, LastAccrued
  <1>11. QED
    BY <1>7, <1>8, <1>9, <1>10

\* The source runs to its next await.
LEMMA SourceStepInv ==
    ASSUME IInv, SourceStep
    PROVE  IInv'
  <1>1. /\ pc = "source" /\ stage < Len(Run(source.kind)) /\ stage' = stage + 1
        /\ fetched' = fetched \cup Run(source.kind)[stage + 1].keys
        /\ UNCHANGED <<chain, resetAt, wrapper_vault, global_config, parts, token_info, pc,
                       wv, gc, returned, since, required>>
    BY DEF SourceStep, committed, external
  <1>2. PICK a \in Answers :
            /\ read' = WithAnswer(a)
            /\ source' = After(source, Run(source.kind)[stage].assigns, WithAnswer(a),
                               Len(Run(source.kind)[stage].assigns))
    BY DEF SourceStep
  <1>3. /\ IsSource(source') /\ source'.kind = source.kind
        /\ \A x \in FieldsBefore(source.kind, stage + 1) : GoodField(source', x)
        /\ source.kind = "Lulo" => source'.accrued
    BY <1>1, <1>2, StageDone
  <1>4. /\ read' \in [Accounts -> 0 .. Now]
        /\ \A k \in KeysBefore(source.kind, stage + 1) : GoodRead(source.kind, read', k)
    BY <1>1, <1>2, AnswerGood
  <1>5. ChainKept /\ Now' = Now
    BY <1>1, ChainSame DEF IInv
  <1>6. stage + 1 \in 1 .. Len(Run(source.kind))
    BY <1>1, StageNow
  <1>7. TypeOK'
    <2>1. required' \cup fetched' \subseteq VenueKeys \cup Accounts
      <3>1. StageShape(source.kind, stage + 1)
        BY <1>6, StageNow, Zenon DEF RunShape
      <3>2. Run(source.kind)[stage + 1].keys \subseteq Accounts
        BY <3>1, Zenon DEF StageShape
      <3>3. QED
        BY <1>1, <3>2 DEF IInv, TypeOK
    <2>2. SourceOK(source') /\ SourceOK(parts'.source)
      BY <1>1, <1>3 DEF IInv, TypeOK, IsSource
    <2>3. stage' \in 1 .. Len(Run(source'.kind))
      BY <1>1, <1>3, <1>6
    <2>4. QED
      BY <1>1, <1>4, <1>5, <2>1, <2>2, <2>3 DEF IInv, TypeOK
  <1>8. Progress'
    <2>1. \A k \in KeysBefore(source'.kind, stage') : GoodRead(source.kind, read, k)'
      BY <1>1, <1>3, <1>4 DEF GoodRead
    <2>2. \A x \in FieldsBefore(source'.kind, stage') : GoodField(source, x)'
      BY <1>1, <1>3 DEF GoodField
    <2>3. QED
      BY <1>3, <2>1, <2>2 DEF Progress
  <1>9. LocalsOK'
    BY <1>1, <1>3, <1>5, <1>8 DEF IInv, LocalsOK
  <1>10. CommitTogether'
    BY <1>1, <1>5, CommittedKept DEF committed
  <1>11. RunningOK' /\ OkMeansFresh'
    BY <1>1 DEF IInv, RunningOK, OkMeansFresh
  <1>12. QED
    BY <1>3, <1>7, <1>9, <1>10, <1>11 DEF IInv

\* The last stage succeeds and everything is committed.
LEMMA CommitInv ==
    ASSUME IInv, Commit
    PROVE  IInv'
  <1>1. /\ pc = "source" /\ stage = Len(Run(source.kind))
        /\ wrapper_vault' = wv /\ global_config' = gc
        /\ parts' = [vault |-> wv, config |-> gc, source |-> source']
        /\ pc' = "idle" /\ returned' = "Ok" /\ wv' = Unset /\ gc' = Unset
        /\ read' = NothingRead /\ stage' = 1
        /\ UNCHANGED <<chain, resetAt, token_info, since, required, fetched>>
    BY DEF Commit, Return, external, history
  <1>2. PICK a \in Answers :
            source' = After(source, Run(source.kind)[stage].assigns, WithAnswer(a),
                            Len(Run(source.kind)[stage].assigns))
    BY DEF Commit
  <1>3. /\ IsSource(source') /\ source'.kind = source.kind
        /\ \A x \in FieldsBefore(source.kind, stage + 1) : GoodField(source', x)
        /\ source'.accrued
    BY <1>1, <1>2, StageDone
  <1>4. /\ wv \in since .. Now /\ gc \in since .. Now /\ token_info = <<wv, wv>>
        /\ source.kind = chain[wv] /\ since \in 1 .. resetAt /\ Now \in 1 .. MaxVersion
    BY <1>1 DEF IInv, LocalsOK, TypeOK, Version
  <1>5. wv \in 1 .. Now /\ gc \in 1 .. Now
    BY <1>4, MaxVersionAssumption DEF IInv, TypeOK
  <1>6. ChainKept /\ Now' = Now
    BY <1>1, ChainSame DEF IInv
  <1>7. TypeOK'
    <2>1. 1 \in 1 .. Len(Run(source'.kind))
      <3>1. Len(Run(source'.kind)) \in 1 .. 3
        BY <1>3, StageNow
      <3>2. \A L \in 1 .. 3 : 1 \in 1 .. L
        OBVIOUS
      <3>3. QED
        BY <3>1, <3>2, Zenon
    <2>2. SourceOK(source') /\ SourceOK(parts'.source)
      BY <1>1, <1>3 DEF IsSource
    <2>3. NothingRead \in [Accounts -> 0 .. Now]
      BY <1>4 DEF NothingRead, Unset
    <2>4. parts'.vault \in 0 .. Now /\ parts'.config \in 0 .. Now
      BY <1>1, <1>4, <1>5
    <2>5. wrapper_vault' \in 1 .. Now /\ global_config' \in 0 .. Now
      BY <1>1, <1>4, <1>5
    <2>6. QED
      BY <1>1, <1>4, <1>6, <2>1, <2>2, <2>3, <2>4, <2>5 DEF IInv, TypeOK, Unset
  <1>8. parts'.vault = wv /\ parts'.config = gc /\ parts'.source = source'
    BY <1>1
  <1>9. CommitTogether'
    BY <1>1, <1>3, <1>4, <1>8 DEF CommitTogether
  <1>10. OkMeansFresh'
    <2>1. \A x \in FieldsOf(source.kind) : x \in FieldsBefore(source.kind, stage + 1)
      <3>1. AssignsAll(source.kind) /\ stage \in Nat
        BY StageNow DEF RunShape
      <3>2. 1 .. Len(Run(source.kind)) = 1 .. (stage + 1) - 1
        BY <1>1, <3>1
      <3>3. QED
        BY <3>1, <3>2 DEF AssignsAll, FieldsBefore
    <2>2. DOMAIN source'.at = FieldsOf(source.kind)
      BY <1>3 DEF IsSource, SourceOK
    <2>3. \A x \in DOMAIN source'.at :
              since <= source'.at[x] \/ AccountOf(x) \in Optional(source'.kind)
      BY <1>3, <2>1, <2>2 DEF GoodField
    <2>4. since <= wv /\ since <= gc
      BY <1>4
    <2>5. QED
      BY <1>1, <1>3, <1>4, <1>8, <2>3, <2>4 DEF OkMeansFresh
  <1>11. QED
    BY <1>1, <1>3, <1>7, <1>9, <1>10 DEF IInv, RunningOK, LocalsOK

-----------------------------------------------------------------------------
\* Every step keeps the invariant.
LEMMA StepInv == IInv /\ [Next]_vars => IInv'
  <1> SUFFICES ASSUME IInv, [Next]_vars PROVE IInv'
    OBVIOUS
  <1>1. CASE ChainAdvance \/ ResetCache \/ BeginUpdate
    BY <1>1, ChainAdvanceInv, ResetInv, BeginInv
  <1>2. CASE FetchVault \/ FetchVaultError \/ FetchConfig \/ FetchConfigError
    BY <1>2, FetchVaultInv, FetchVaultErrorInv, FetchConfigInv, FetchConfigErrorInv
  <1>3. CASE SourceStep \/ SourceError \/ Commit
    BY <1>3, SourceStepInv, SourceErrorInv, CommitInv
  <1>4. CASE Cancel
    BY <1>4, FetchVaultErrorInv
  <1>5. CASE UNCHANGED vars
    <2>1. UNCHANGED <<chain, resetAt, wrapper_vault, global_config, parts, token_info, source,
                      pc, wv, gc, read, stage, returned, since, required, fetched>>
      BY <1>5 DEF vars, external, committed, locals, history
    <2>2. ChainKept /\ Now' = Now
      BY <2>1, ChainSame DEF IInv
    <2>3. TypeOK'
      BY <2>1, <2>2 DEF IInv, TypeOK, SourceOK
    <2>4. CommitTogether' /\ OkMeansFresh'
      BY <2>1, <2>2, CommittedKept, OkKept DEF committed
    <2>5. RunningOK' /\ LocalsOK' /\ IsSource(source')
      BY <2>1, <2>2, ProgressKept DEF IInv, RunningOK, LocalsOK
    <2>6. source' = source
      BY <2>1
    <2>7. QED
      BY <2>3, <2>4, <2>5, <2>6 DEF IInv
  <1>6. QED
    BY <1>1, <1>2, <1>3, <1>4, <1>5 DEF Next, UpdateStep

\* The inductive invariant holds throughout.
LEMMA Invariance == Spec => []IInv
  BY InitInv, StepInv, PTL DEF Spec

\* Type correctness of the venue and of the locals of update_state; every
\* version it names is one the chain has reached.
THEOREM TypeCorrect == Spec => []TypeOK
  <1>1. IInv => TypeOK
    BY DEF IInv
  <1>2. QED
    BY <1>1, Invariance, PTL

\* update_state: wherever it fails or is dropped, the vault, the config and
\* the price tables that quotes read come from one completed update, and the
\* tables are of the vault's protocol.
THEOREM CommitsTogether == Spec => []CommitTogether
  <1>1. IInv => CommitTogether
    BY DEF IInv
  <1>2. QED
    BY <1>1, Invariance, PTL

\* update_state: an Ok leaves a source that is of the vault's protocol, accrued
\* and read in full since the cache's last reset, whatever failed and dropped
\* updates and changes of protocol came before it.
THEOREM OkIsFresh == Spec => []OkMeansFresh
  <1>1. IInv => OkMeansFresh
    BY DEF IInv
  <1>2. QED
    BY <1>1, Invariance, PTL

=============================================================================
