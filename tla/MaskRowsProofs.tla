---------------------------- MODULE MaskRowsProofs ----------------------------
(***************************************************************************)
(* Theorems about mask_rows for results of any size, with any values and   *)
(* any set of roles.                                                       *)
(***************************************************************************)
EXTENDS MaskRows, AccessPolicyProofs, FiniteSetTheorems, WellFoundedInduction

\* What mask_rows answers to a call.
Answer(c) ==
    IF mask_rows_raises(c.columns, c.rows, c.tier)
    THEN [raised |-> TRUE, records |-> <<>>, accessed |-> {}]
    ELSE [raised |-> FALSE,
          records |-> masked_records(c.columns, c.rows, c.tier),
          accessed |-> accessed_sensitive(c.columns, c.tier)]

AnswerInv ==
    /\ call = NULL => result = NULL
    /\ call # NULL => call \in Calls /\ (result = NULL \/ result = Answer(call))

LEMMA AnswerInvHolds == Spec => []AnswerInv
<1>1. Init => AnswerInv BY DEF Init, AnswerInv
<1>2. AnswerInv /\ [Next]_vars => AnswerInv'
    <2> SUFFICES ASSUME AnswerInv, [Next]_vars PROVE AnswerInv' OBVIOUS
    <2>1. CASE Enter BY <2>1 DEF Enter, AnswerInv
    <2>2. CASE mask_rows BY <2>2 DEF mask_rows, AnswerInv, Answer
    <2>3. CASE Leave BY <2>3 DEF Leave, AnswerInv
    <2>4. CASE UNCHANGED vars BY <2>4 DEF vars, AnswerInv
    <2> QED BY <2>1, <2>2, <2>3, <2>4 DEF Next
<1> QED BY <1>1, <1>2, PTL DEF Spec

LEMMA ReturnedIs ==
    ASSUME AnswerInv, Returned
    PROVE  /\ call \in Calls
           /\ result.records = masked_records(call.columns, call.rows, call.tier)
           /\ result.accessed = accessed_sensitive(call.columns, call.tier)
<1>1. result # NULL /\ ~result.raised BY DEF Returned
<1>2. call \in Calls /\ result = Answer(call) BY <1>1 DEF AnswerInv
<1>3. ~mask_rows_raises(call.columns, call.rows, call.tier)
    BY <1>1, <1>2 DEF Answer
<1> QED BY <1>2, <1>3 DEF Answer

LEMMA RecordIs ==
    ASSUME AnswerInv, Returned, NEW r \in DOMAIN call.rows, NEW col \in ColumnNames(call.columns)
    PROVE  result.records[r][col] = MaskValue(col, call.tier, Raw(r, col))
BY ReturnedIs DEF masked_records, Raw

-----------------------------------------------------------------------------
(* The policy *)

LEMMA PolicyRows ==
    ASSUME NEW col \in SENSITIVE_COLUMNS
    PROVE  /\ DOMAIN MASKING_POLICY[col] = Tiers
           /\ MASKING_POLICY[col]["db_admin"] = "pass"
           /\ MASKING_POLICY[col]["db_readonly"] = "redact"
           /\ MASKING_POLICY[col]["db_analyst"]
                  \in {"pass", "redact", "last4", "truthy4", "first4", "phone", "email", "cut40"}
BY DEF SENSITIVE_COLUMNS, MASKING_POLICY, Tiers

\* Every mask shows part of the value.
LEMMA ShownIsPart ==
    ASSUME NEW v, IsText(v),
           NEW fn \in {"pass", "redact", "last4", "truthy4", "first4", "phone", "email", "cut40"}
    PROVE  Shown(fn, v) \subseteq Whole(v)
<1> USE DEF IsText, Whole, Shown
<1>1. CASE fn \in {"pass", "redact"} BY <1>1
<1>2. CASE fn \in {"last4", "truthy4"} BY <1>2 DEF Last4, Truthy4
<1>3. CASE fn = "first4" BY <1>3 DEF First4
<1>4. CASE fn = "phone" BY <1>4 DEF LastDigits
<1>5. CASE fn = "email" BY <1>5 DEF EmailParts
<1>6. CASE fn = "cut40" BY <1>6 DEF Cut40
<1> QED BY <1>1, <1>2, <1>3, <1>4, <1>5, <1>6

LEMMA ShownEnds ==
    ASSUME NEW v
    PROVE  Shown("pass", v) = Whole(v) /\ Shown("redact", v) = {}
BY DEF Shown

-----------------------------------------------------------------------------
(* No mask of mask_rows hides a character without the report that goes to  *)
(* the audit log naming its column, whatever the query returned.           *)
THEOREM HiddenIsReportedHolds == Spec => []HiddenIsReported
<1>1. AnswerInv => HiddenIsReported
    <2> SUFFICES ASSUME AnswerInv, Returned,
                        NEW r \in DOMAIN call.rows, NEW col \in ColumnNames(call.columns),
                        HasValue(r, col), result.records[r][col] # Whole(Raw(r, col))
                 PROVE  col \in result.accessed
        BY DEF HiddenIsReported
    <2>1. MaskValue(col, call.tier, Raw(r, col)) # Whole(Raw(r, col)) BY RecordIs
    <2>2. mask_fn(col, call.tier) # "pass"
        BY <2>1, ShownEnds DEF MaskValue, HasValue, Raw
    <2>3. col \in SENSITIVE_COLUMNS BY <2>2 DEF mask_fn
    <2> QED BY <2>2, <2>3, ReturnedIs DEF accessed_sensitive
<1> QED BY <1>1, AnswerInvHolds, PTL

(* No character of a sensitive value goes to a caller whose tier is        *)
(* neither analyst nor admin, for any tier mask_rows may be given.         *)
THEOREM ReadonlySeesNoSensitiveHolds == Spec => []ReadonlySeesNoSensitive
<1>1. AnswerInv => ReadonlySeesNoSensitive
    <2> SUFFICES ASSUME AnswerInv, Returned, call.tier \notin {"db_admin", "db_analyst"},
                        NEW r \in DOMAIN call.rows,
                        NEW col \in ColumnNames(call.columns) \cap SENSITIVE_COLUMNS
                 PROVE  result.records[r][col] = IF HasValue(r, col) THEN {} ELSE NULL
        BY DEF ReadonlySeesNoSensitive
    <2>1. EffectiveTier(call.tier) = "db_readonly" BY DEF EffectiveTier, Tiers
    <2>2. mask_fn(col, call.tier) = "redact" BY <2>1, PolicyRows DEF mask_fn
    <2>3. result.records[r][col] = MaskValue(col, call.tier, Raw(r, col)) BY RecordIs
    <2>4. HasValue(r, col) <=> Raw(r, col) # NULL BY DEF HasValue, Raw
    <2> QED BY <2>2, <2>3, <2>4, ShownEnds DEF MaskValue
<1> QED BY <1>1, AnswerInvHolds, PTL

(* describe_table calls a column masked exactly when mask_rows masks it,   *)
(* for every column name and every tier.                                   *)
THEOREM DescribeAgreesHolds == Spec => []DescribeAgrees
<1>1. AnswerInv => DescribeAgrees
    <2> SUFFICES ASSUME AnswerInv, Returned, call.tier \in Tiers,
                        NEW col \in ColumnNames(call.columns)
                 PROVE  described_as_masked(col, call.tier) <=> col \in result.accessed
        BY DEF DescribeAgrees
    <2>1. EffectiveTier(call.tier) = call.tier BY DEF EffectiveTier
    <2> QED BY <2>1, ReturnedIs, PolicyRows DEF described_as_masked, accessed_sensitive, mask_fn
<1> QED BY <1>1, AnswerInvHolds, PTL

-----------------------------------------------------------------------------
(* The order of the roles *)

LEMMA LastOfMany ==
    ASSUME NEW n \in Nat, NEW D \in SUBSET (1 .. n), NEW e \in D
    PROVE  \E c \in D : \A d \in D : d <= c
<1> DEFINE T == {k \in Nat : n - k \in D}
<1>1. T \subseteq Nat /\ n - e \in T /\ T # {} OBVIOUS
<1> HIDE DEF T
<1>2. PICK k \in T : \A j \in T : ~(<<j, k>> \in OpToRel(<, Nat))
    BY <1>1, WFMin, NatLessThanWellFounded, Zenon
<1>3. \A j \in T : ~(j < k)
    BY <1>1, <1>2, Zenon DEF OpToRel
<1> USE DEF T
<1>4. n - k \in D BY <1>2
<1>5. \A d \in D : n - d \in T OBVIOUS
<1>6. ASSUME NEW d \in D PROVE d <= n - k
    <2>1. ~(n - d < k) BY <1>3, <1>5
    <2>2. d \in Int OBVIOUS
    <2>3. k \in Nat BY <1>2
    <2> HIDE DEF T
    <2> QED BY <2>1, <2>2, <2>3
<1> QED BY <1>4, <1>6

LEMMA KeptIsText ==
    ASSUME NEW c \in Calls, NEW r \in DOMAIN c.rows, NEW col \in ColumnNames(c.columns)
    PROVE  c.rows[r][KeptIndex(c.columns, col)] = NULL
               \/ IsText(c.rows[r][KeptIndex(c.columns, col)])
<1> DEFINE D == {i \in DOMAIN c.columns : c.columns[i] = col}
<1>1. PICK e \in DOMAIN c.columns : c.columns[e] = col BY DEF ColumnNames
<1>2. PICK n \in Nat : DOMAIN c.columns = 1 .. n BY CallsAssumption
<1>3. D \in SUBSET (1 .. n) /\ e \in D BY <1>1, <1>2
<1>4. PICK k \in D : \A d \in D : d <= k BY <1>3, LastOfMany
<1>5. KeptIndex(c.columns, col) \in DOMAIN c.columns
    BY <1>4 DEF KeptIndex
<1> QED BY <1>5, CallsAssumption

LEMMA LevelOrdersTiers ==
    ASSUME NEW mine, NEW theirs, user_level(mine) <= user_level(theirs)
    PROVE  /\ {role_tier(mine), role_tier(theirs)} \subseteq Tiers
           /\ role_tier(mine) = "db_admin" => role_tier(theirs) = "db_admin"
           /\ role_tier(mine) = "db_analyst" => role_tier(theirs) \in {"db_admin", "db_analyst"}
<1>1. /\ user_level(mine) \in Nat /\ user_level(theirs) \in Nat
      /\ role_tier(mine) = "db_admin" => user_level(mine) >= 3
      /\ role_tier(mine) = "db_analyst" => user_level(mine) >= 2
      /\ user_level(theirs) >= 3 => role_tier(theirs) = "db_admin"
      /\ user_level(theirs) >= 2 => role_tier(theirs) \in {"db_admin", "db_analyst"}
    BY LevelMatchesTier DEF can_access_admin, can_access_sensitive
<1>2. {role_tier(mine), role_tier(theirs)} \subseteq Tiers BY DEF role_tier, Tiers
<1> QED BY <1>1, <1>2

(* What mask_rows shows to one caller it shows to every caller of at least *)
(* the same rank, for every value and every two sets of roles.             *)
THEOREM HigherRoleSeesMoreHolds == Spec => []HigherRoleSeesMore
<1>1. AnswerInv => HigherRoleSeesMore
    <2> SUFFICES ASSUME AnswerInv, Returned,
                        NEW mine \in RoleSets, NEW theirs \in RoleSets,
                        role_tier(mine) = call.tier, user_level(mine) <= user_level(theirs),
                        NEW r \in DOMAIN call.rows, NEW col \in ColumnNames(call.columns),
                        HasValue(r, col)
                 PROVE  MaskValue(col, call.tier, Raw(r, col))
                            \subseteq MaskValue(col, role_tier(theirs), Raw(r, col))
        BY RecordIs DEF HigherRoleSeesMore
    <2> DEFINE v == Raw(r, col)
               tier == role_tier(theirs)
    <2>1. v # NULL /\ IsText(v) BY ReturnedIs, KeptIsText DEF HasValue, Raw
    <2>2. /\ MaskValue(col, call.tier, v) = Shown(mask_fn(col, call.tier), v)
          /\ MaskValue(col, tier, v) = Shown(mask_fn(col, tier), v)
        BY <2>1 DEF MaskValue
    <2>3. call.tier \in Tiers /\ tier \in Tiers BY LevelOrdersTiers
    <2>4. CASE col \notin SENSITIVE_COLUMNS BY <2>2, <2>4 DEF mask_fn
    <2>5. CASE col \in SENSITIVE_COLUMNS
        <3>1. /\ mask_fn(col, call.tier) = MASKING_POLICY[col][call.tier]
              /\ mask_fn(col, tier) = MASKING_POLICY[col][tier]
            BY <2>3, <2>5 DEF mask_fn, EffectiveTier
        <3>2. CASE call.tier = "db_readonly"
            BY <2>2, <2>5, <3>1, <3>2, PolicyRows, ShownEnds
        <3>3. CASE tier = "db_admin"
            <4>1. Shown(mask_fn(col, tier), v) = Whole(v) BY <2>5, <3>1, <3>3, PolicyRows, ShownEnds
            <4>2. mask_fn(col, call.tier)
                      \in {"pass", "redact", "last4", "truthy4", "first4", "phone", "email", "cut40"}
                BY <2>3, <2>5, <3>1, PolicyRows DEF Tiers
            <4> QED BY <2>1, <2>2, <4>1, <4>2, ShownIsPart
        <3>4. CASE call.tier = tier BY <3>4
        <3> QED BY <2>3, <3>2, <3>3, <3>4, LevelOrdersTiers DEF Tiers
    <2> QED BY <2>4, <2>5
<1> QED BY <1>1, AnswerInvHolds, PTL

-----------------------------------------------------------------------------
(* How much an analyst's masks show *)

LEMMA FirstOfMany ==
    ASSUME NEW S \in SUBSET Nat, S # {}
    PROVE  \E m \in S : \A x \in S : m <= x
<1>1. PICK m \in S : \A x \in S : ~(<<x, m>> \in OpToRel(<, Nat))
    BY WFMin, NatLessThanWellFounded, Zenon
<1>2. \A x \in S : ~(x < m)
    BY <1>1, Zenon DEF OpToRel
<1>3. \A x \in S : x \in Nat OBVIOUS
<1> QED BY <1>2, <1>3

LEMMA CountUpTo == \A k \in Nat : Cardinality(1 .. k) = k
<1> SUFFICES ASSUME NEW k \in Nat PROVE Cardinality(1 .. k) = k OBVIOUS
<1>1. k \in Int /\ 1 \in Int OBVIOUS
<1> QED BY <1>1, FS_Interval

\* The last four digits are at most four.
LEMMA FourDigitsAtMost ==
    ASSUME NEW v, IsText(v)
    PROVE  Cardinality(LastDigits(v)) <= 4 /\ (v.len < 4 => LastDigits(v) = {})
<1> DEFINE After(m) == {q \in v.digits : q > m}
           S == {p \in v.digits : Cardinality(After(p)) < 4}
<1>1. /\ v.digits \in SUBSET (1 .. v.len) /\ v.digits \in SUBSET Nat /\ v.len \in Nat
      /\ IsFiniteSet(1 .. v.len) /\ Cardinality(1 .. v.len) = v.len
    <2>1. v.digits \in SUBSET (1 .. v.len) /\ v.len \in Nat BY DEF IsText
    <2>2. IsFiniteSet(1 .. v.len) /\ Cardinality(1 .. v.len) = v.len BY <2>1, FS_Interval
    <2> QED BY <2>1, <2>2
<1>2. IsFiniteSet(v.digits) /\ Cardinality(v.digits) <= v.len /\ Cardinality(v.digits) \in Nat
    BY <1>1, FS_Subset, FS_CardinalityType
<1>3. IsFiniteSet(S) /\ S \in SUBSET Nat /\ S \subseteq v.digits
    BY <1>1, <1>2, FS_Subset
<1>4. Cardinality(S) <= 4
    <2>1. CASE S = {}
        <3>1. Cardinality({}) = 0 BY FS_EmptySet
        <3>2. Cardinality(S) = 0 BY <2>1, <3>1, Zenon
        <3> QED BY <3>2
    <2>2. CASE S # {}
        <3>1. PICK m \in S : \A x \in S : m <= x BY <1>3, <2>2, FirstOfMany
        <3>2. S \ {m} \subseteq After(m)
            <4>1. \A x \in S : x \in v.digits /\ x \in Nat BY <1>3
            <4> HIDE DEF S
            <4> QED BY <3>1, <4>1
        <3>3. IsFiniteSet(After(m)) BY <1>2, FS_Subset
        <3>4. Cardinality(S \ {m}) <= Cardinality(After(m)) /\ IsFiniteSet(S \ {m})
            BY <3>2, <3>3, FS_Subset
        <3>5. Cardinality(After(m)) \in Nat /\ Cardinality(After(m)) < 4
            BY <3>1, <3>3, FS_CardinalityType
        <3>6. Cardinality(S \ {m}) = Cardinality(S) - 1 /\ Cardinality(S) \in Nat
            BY <1>3, <3>1, FS_RemoveElement, FS_CardinalityType
        <3>7. Cardinality(S \ {m}) \in Nat BY <3>4, FS_CardinalityType
        <3>8. PICK a, b, c : /\ a = Cardinality(S) /\ b = Cardinality(S \ {m})
                             /\ c = Cardinality(After(m))
            OBVIOUS
        <3>9. a \in Nat /\ b \in Nat /\ c \in Nat /\ b = a - 1 /\ b <= c /\ c < 4
            BY <3>4, <3>5, <3>6, <3>7, <3>8
        <3>10. a <= 4 BY <3>9
        <3> QED BY <3>8, <3>10
    <2> QED BY <2>1, <2>2
<1>5. LastDigits(v) = IF ~v.falsy /\ Cardinality(v.digits) >= 4 THEN S ELSE {}
    BY DEF LastDigits
<1>6. Cardinality({}) = 0 BY FS_EmptySet
<1> HIDE DEF S
<1>7. v.len < 4 => LastDigits(v) = {} BY <1>1, <1>2, <1>5
<1> QED BY <1>4, <1>5, <1>6, <1>7

LEMMA FourPlacesAtMost ==
    ASSUME NEW v, IsText(v), NEW fn \in {"last4", "truthy4", "first4", "phone"}
    PROVE  Cardinality(Shown(fn, v)) <= 4 /\ (v.len < 4 => Shown(fn, v) = {})
<1>1. v.len \in Nat BY DEF IsText
<1>2. Cardinality({}) = 0 BY FS_EmptySet
<1>3. Cardinality(1 .. 4) = 4 BY CountUpTo
<1>4. v.len >= 4 => Cardinality(v.len - 3 .. v.len) = 4 BY <1>1, FS_Interval
<1>5. CASE fn = "phone" BY <1>5, FourDigitsAtMost DEF Shown
<1>6. CASE fn = "first4" BY <1>1, <1>2, <1>3, <1>6 DEF Shown, First4
<1>7. CASE fn \in {"last4", "truthy4"} BY <1>1, <1>2, <1>4, <1>7 DEF Shown, Last4, Truthy4
<1> QED BY <1>5, <1>6, <1>7

LEMMA FortyAtMost ==
    ASSUME NEW v, IsText(v) PROVE Cardinality(Shown("cut40", v)) <= 40
<1>1. v.len \in Nat /\ (v.falsy => v.len <= 40) BY DEF IsText
<1>2. Cardinality(1 .. 40) = 40 BY CountUpTo
<1>3. Cardinality(Whole(v)) = v.len BY <1>1, FS_Interval DEF Whole
<1> QED BY <1>1, <1>2, <1>3 DEF Shown, Cut40

LEMMA AnalystsMasks ==
    ASSUME NEW col
    PROVE  /\ col \in {"ssn", "phone", "date_of_birth", "account_number", "national_id"} =>
                  mask_fn(col, "db_analyst") \in {"last4", "truthy4", "first4", "phone"}
           /\ col \in {"email", "personal_email"} => mask_fn(col, "db_analyst") = "email"
           /\ col = "merchant_raw" => mask_fn(col, "db_analyst") = "cut40"
           /\ col = "salary" => mask_fn(col, "db_analyst") = "redact"
<1>1. EffectiveTier("db_analyst") = "db_analyst" BY DEF EffectiveTier, Tiers
<1> QED BY <1>1 DEF mask_fn, SENSITIVE_COLUMNS, MASKING_POLICY

(* An analyst reads at most four characters of an identifier, none of one  *)
(* too short to hide the rest, of an address not what stands between its   *)
(* first character and the "@", and at most 40 characters of merchant_raw, *)
(* whatever the length, the digits and the type of the value.              *)
THEOREM PartialMasksHideHolds == Spec => []PartialMasksHide
<1>1. AnswerInv => PartialMasksHide
    <2> SUFFICES ASSUME AnswerInv, Returned, call.tier = "db_analyst",
                        NEW r \in DOMAIN call.rows, NEW col \in ColumnNames(call.columns),
                        HasValue(r, col)
                 PROVE  HidesEnough(col, Raw(r, col), MaskValue(col, "db_analyst", Raw(r, col)))
        BY RecordIs DEF PartialMasksHide
    <2>1. PICK v : v = Raw(r, col) /\ v # NULL /\ IsText(v)
        BY ReturnedIs, KeptIsText DEF HasValue, Raw
    <2>2. PICK fn : fn = mask_fn(col, "db_analyst") OBVIOUS
    <2>3. MaskValue(col, "db_analyst", v) = Shown(fn, v) BY <2>1, <2>2 DEF MaskValue
    <2>4. ASSUME NEW p \in Shown("email", v) PROVE v.at # 0 /\ p \notin 2 .. v.at - 1
        <3>1. v.at \in Nat /\ v.len \in Nat BY <2>1 DEF IsText
        <3>2. v.at # 0 /\ (p = 1 \/ p \in v.at .. v.len) BY <2>4 DEF Shown, EmailParts
        <3> QED BY <3>1, <3>2
    <2>5. Shown("redact", v) = {} BY ShownEnds
    <2>6. HidesEnough(col, v, Shown(fn, v))
        BY <2>1, <2>2, <2>4, <2>5, AnalystsMasks, FourPlacesAtMost, FortyAtMost DEF HidesEnough
    <2> QED BY <2>1, <2>3, <2>6
<1> QED BY <1>1, AnswerInvHolds, PTL

-----------------------------------------------------------------------------
(* When mask_rows fails *)

EmailColumns == {col \in SENSITIVE_COLUMNS : MASKING_POLICY[col]["db_analyst"] = "email"}

\* Result column i of row r is an e-mail column and its text begins with "@".
BeginsWithAt(c, r, i) ==
    /\ c.columns[i] \in EmailColumns
    /\ c.rows[r][i] # NULL /\ c.rows[r][i].at = 1

LEMMA EmailMaskIsAnalysts ==
    ASSUME NEW col, NEW tier
    PROVE  mask_fn(col, tier) = "email" <=> tier = "db_analyst" /\ col \in EmailColumns
<1>1. EffectiveTier(tier) \in Tiers /\ (EffectiveTier(tier) = "db_analyst" <=> tier = "db_analyst")
    BY DEF EffectiveTier, Tiers
<1> QED BY <1>1, PolicyRows DEF mask_fn, EmailColumns, Tiers

(* Exactly which calls fail: an analyst's, whose result has in an e-mail   *)
(* column of any row a text that begins with "@".  No other tier, column,  *)
(* value or NULL makes a mask raise.                                       *)
THEOREM RaisesExactly ==
    Spec => [](result # NULL =>
                  (result.raised <=>
                      /\ call.tier = "db_analyst"
                      /\ \E r \in DOMAIN call.rows, i \in DOMAIN call.columns :
                            BeginsWithAt(call, r, i)))
<1>1. ASSUME AnswerInv, result # NULL
      PROVE  result.raised <=>
                 /\ call.tier = "db_analyst"
                 /\ \E r \in DOMAIN call.rows, i \in DOMAIN call.columns :
                        BeginsWithAt(call, r, i)
    <2>1. result = Answer(call) BY <1>1 DEF AnswerInv
    <2>2. result.raised <=> mask_rows_raises(call.columns, call.rows, call.tier)
        BY <2>1 DEF Answer
    <2> QED BY <2>2, EmailMaskIsAnalysts DEF mask_rows_raises, Raises, BeginsWithAt
<1> QED BY <1>1, AnswerInvHolds, PTL

(* So mask_rows does return records for every result, as its documentation *)
(* has it, where no e-mail column of a table holds such a text.            *)
THEOREM MaskingTotalWithoutAt ==
    ASSUME \A c \in Calls : \A r \in DOMAIN c.rows, i \in DOMAIN c.columns :
               ~BeginsWithAt(c, r, i)
    PROVE  Spec => []MaskingTotal
<1>1. ASSUME AnswerInv, result # NULL PROVE ~result.raised
    <2>1. call \in Calls /\ result = Answer(call) BY <1>1 DEF AnswerInv
    <2>2. ~mask_rows_raises(call.columns, call.rows, call.tier)
        BY <2>1, EmailMaskIsAnalysts DEF mask_rows_raises, Raises, BeginsWithAt
    <2> QED BY <2>1, <2>2 DEF Answer
<1>2. AnswerInv => MaskingTotal BY <1>1 DEF MaskingTotal, Returned
<1> QED BY <1>2, AnswerInvHolds, PTL
===============================================================================
