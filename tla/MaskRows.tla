------------------------------- MODULE MaskRows --------------------------------
(***************************************************************************)
(* One call of mask_rows at a time, on every result a query can return.    *)
(* The function is synchronous and keeps nothing between calls.            *)
(***************************************************************************)
EXTENDS Masking, AccessPolicy

CONSTANTS
  Calls,        \* the arguments: [columns, rows, tier], each row as long as columns
  RoleSets      \* sets of db_ roles, whose tiers are compared

\* A value's text: its length, where its first "@" is (0: none), which of its
\* characters are digits, and whether the value is false (see Masking); what
\* Python counts as false prints as a few characters.
IsText(v) ==
    /\ v.len \in Nat /\ v.at \in 0 .. v.len /\ v.digits \subseteq 1 .. v.len
    /\ v.falsy \in BOOLEAN /\ (v.falsy => v.len <= 40)

ASSUME CallsAssumption ==
    \A c \in Calls :
        /\ Len(c.columns) \in Nat /\ DOMAIN c.columns = 1 .. Len(c.columns)
        /\ \A r \in DOMAIN c.rows, i \in DOMAIN c.columns :
               c.rows[r][i] = NULL \/ IsText(c.rows[r][i])

VARIABLES
  call,         \* the arguments of the call in progress, or NULL
  result        \* what it returned: [records, accessed], "raised", or NULL

vars == <<call, result>>

Init == call = NULL /\ result = NULL

Enter ==
    /\ call = NULL
    /\ call' \in Calls
    /\ UNCHANGED result

mask_rows ==
    /\ call # NULL /\ result = NULL
    /\ result' = IF mask_rows_raises(call.columns, call.rows, call.tier)
                 THEN [raised |-> TRUE, records |-> <<>>, accessed |-> {}]
                 ELSE [raised |-> FALSE,
                       records |-> masked_records(call.columns, call.rows, call.tier),
                       accessed |-> accessed_sensitive(call.columns, call.tier)]
    /\ UNCHANGED call

Leave ==
    /\ result # NULL
    /\ call' = NULL
    /\ result' = NULL

Next == Enter \/ mask_rows \/ Leave

Spec == Init /\ [][Next]_vars

-----------------------------------------------------------------------------
Returned == IF result = NULL THEN FALSE ELSE ~result.raised

\* Row r of the call holds a value, not NULL, in the column its record keeps.
HasValue(r, col) == call.rows[r][KeptIndex(call.columns, col)] # NULL

Raw(r, col) == call.rows[r][KeptIndex(call.columns, col)]

(* A column of which any value lost a character is named in the report    *)
(* that goes to the audit log: nothing is hidden silently.                *)
HiddenIsReported ==
    Returned =>
        \A r \in DOMAIN call.rows : \A col \in ColumnNames(call.columns) :
            (HasValue(r, col) /\ result.records[r][col] # Whole(Raw(r, col)))
                => col \in result.accessed

(* A caller whose tier is neither analyst nor admin, an unknown tier       *)
(* included, reads no character of any sensitive value; NULL stays NULL.   *)
ReadonlySeesNoSensitive ==
    (Returned /\ call.tier \notin {"db_admin", "db_analyst"}) =>
        \A r \in DOMAIN call.rows :
            \A col \in ColumnNames(call.columns) \cap SENSITIVE_COLUMNS :
                result.records[r][col] = IF HasValue(r, col) THEN {} ELSE NULL

(* Masks respect the order of the roles: what this call shows, the same    *)
(* result shows too to every caller whose level is at least as high.       *)
HigherRoleSeesMore ==
    Returned =>
        \A mine \in RoleSets, theirs \in RoleSets :
            (role_tier(mine) = call.tier /\ user_level(mine) <= user_level(theirs)) =>
                \A r \in DOMAIN call.rows : \A col \in ColumnNames(call.columns) :
                    HasValue(r, col) =>
                        result.records[r][col] \subseteq
                            MaskValue(col, role_tier(theirs), Raw(r, col))

\* How much of a value an analyst may read, column by column: four characters
\* of an identifier and none of one too short to hide the rest, the first
\* character and the domain of an address, 40 characters of a bank's text.
HidesEnough(col, v, shown) ==
    /\ col \in {"ssn", "phone", "date_of_birth", "account_number", "national_id"} =>
           Cardinality(shown) <= 4 /\ (v.len < 4 => shown = {})
    /\ col \in {"email", "personal_email"} =>
           \A p \in shown : v.at # 0 /\ p \notin 2 .. v.at - 1
    /\ col = "merchant_raw" => Cardinality(shown) <= 40
    /\ col = "salary" => shown = {}

(* engine.py:9: "partial masks on PII": the masks cut texts by position,   *)
(* and no length, position of the "@", number of digits or false value     *)
(* makes a slice show an analyst more than the mask is meant to.           *)
PartialMasksHide ==
    (Returned /\ call.tier = "db_analyst") =>
        \A r \in DOMAIN call.rows : \A col \in ColumnNames(call.columns) :
            HasValue(r, col) => HidesEnough(col, Raw(r, col), result.records[r][col])

(* describe_table calls a column masked exactly when mask_rows masks it    *)
(* for a caller of that tier, though each reads the policy on its own.     *)
DescribeAgrees ==
    (Returned /\ call.tier \in Tiers) =>
        \A col \in ColumnNames(call.columns) :
            described_as_masked(col, call.tier) <=> col \in result.accessed

-----------------------------------------------------------------------------
(* What the repository says, refuted by the runs marked "violation" *)

(* engine.py:129: "Apply masking policies to query results": mask_rows     *)
(* returns records for every result, it never raises.                      *)
MaskingTotal == result # NULL => Returned
=============================================================================
