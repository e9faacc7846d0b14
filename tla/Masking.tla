------------------------------- MODULE Masking --------------------------------
(***************************************************************************)
(* masking/engine.py: the policy and what each mask lets through.          *)
(*                                                                         *)
(* A value is the text str(v), abstracted to what the masks look at: its   *)
(* length (len), the position of its first "@" (at, 0 if there is none),   *)
(* the positions of its digits, and whether Python counts v as false       *)
(* (falsy: "", 0, timedelta(0)).  What a mask returns is abstracted to     *)
(* the set of positions of the value that are still readable in it; the    *)
(* filler characters carry nothing.  NULL is Python's None.                *)
(***************************************************************************)
EXTENDS Naturals, Sequences, FiniteSets

CONSTANT NULL

Tiers == {"db_admin", "db_analyst", "db_readonly"}

\* "pass" is None: the value goes through.  "redact" stands for every mask
\* that returns a constant, whatever the constant.
MASKING_POLICY ==
    [ssn            |-> [db_admin |-> "pass", db_analyst |-> "last4",  db_readonly |-> "redact"],
     email          |-> [db_admin |-> "pass", db_analyst |-> "email",  db_readonly |-> "redact"],
     phone          |-> [db_admin |-> "pass", db_analyst |-> "phone",  db_readonly |-> "redact"],
     date_of_birth  |-> [db_admin |-> "pass", db_analyst |-> "first4", db_readonly |-> "redact"],
     account_number |-> [db_admin |-> "pass", db_analyst |-> "last4",  db_readonly |-> "redact"],
     balance        |-> [db_admin |-> "pass", db_analyst |-> "pass",   db_readonly |-> "redact"],
     merchant_raw   |-> [db_admin |-> "pass", db_analyst |-> "cut40",  db_readonly |-> "redact"],
     card_last4     |-> [db_admin |-> "pass", db_analyst |-> "pass",   db_readonly |-> "redact"],
     salary         |-> [db_admin |-> "pass", db_analyst |-> "redact", db_readonly |-> "redact"],
     national_id    |-> [db_admin |-> "pass", db_analyst |-> "truthy4", db_readonly |-> "redact"],
     personal_email |-> [db_admin |-> "pass", db_analyst |-> "email",  db_readonly |-> "redact"]]

SENSITIVE_COLUMNS == DOMAIN MASKING_POLICY

-----------------------------------------------------------------------------
(* What is left of a value *)

Whole(v) == 1 .. v.len

\* Faulty variant: the test is forgotten, and s[-4:] of a short text is all of it.
BugShortShown(v) == IF v.len >= 4 THEN v.len - 3 .. v.len ELSE Whole(v)

\* s[-4:] and s[:4], behind the test len(s) >= 4.
Last4(v) == IF v.len >= 4 THEN v.len - 3 .. v.len ELSE {}
First4(v) == IF v.len >= 4 THEN 1 .. 4 ELSE {}

\* national_id's own mask tests v itself first.
Truthy4(v) == IF v.falsy THEN {} ELSE Last4(v)

\* The digits that have fewer than four digits after them, if there are four;
\* of a false value, "v or ''" leaves none.
LastDigits(v) ==
    IF ~v.falsy /\ Cardinality(v.digits) >= 4
    THEN {p \in v.digits : Cardinality({q \in v.digits : q > p}) < 4}
    ELSE {}

\* The first character and the domain; a text without "@" is replaced.
EmailParts(v) == IF v.at = 0 THEN {} ELSE {1} \cup v.at .. v.len

Cut40(v) == IF ~v.falsy /\ v.len > 40 THEN 1 .. 40 ELSE Whole(v)

Shown(fn, v) ==
    CASE fn = "pass" -> Whole(v)
      [] fn = "redact" -> {}
      [] fn = "last4" -> Last4(v)
      [] fn = "first4" -> First4(v)
      [] fn = "truthy4" -> Truthy4(v)
      [] fn = "phone" -> LastDigits(v)
      [] fn = "email" -> EmailParts(v)
      [] fn = "cut40" -> Cut40(v)

\* local[0] of _partial_email, when nothing precedes the "@".
Raises(fn, v) == fn = "email" /\ v.at = 1

-----------------------------------------------------------------------------
(* mask_rows *)

\* Faulty variant: an unknown tier is treated as the analyst's.
BugDefaultAnalyst(tier) == IF tier \in Tiers THEN tier ELSE "db_analyst"

EffectiveTier(tier) == IF tier \in Tiers THEN tier ELSE "db_readonly"

\* The entry of mask_fns for a result column; other columns have none.
mask_fn(col, tier) ==
    IF col \in SENSITIVE_COLUMNS
    THEN MASKING_POLICY[col][EffectiveTier(tier)]
    ELSE "pass"

MaskValue(col, tier, v) ==
    IF v = NULL THEN NULL ELSE Shown(mask_fn(col, tier), v)

\* Masks run on every non-NULL value, so one bad value fails the whole call.
mask_rows_raises(columns, rows, tier) ==
    \E r \in DOMAIN rows, c \in DOMAIN columns :
        rows[r][c] # NULL /\ Raises(mask_fn(columns[c], tier), rows[r][c])

\* A record is a dict: of two result columns with one name the last one stays.
KeptIndex(columns, col) ==
    CHOOSE c \in DOMAIN columns :
        /\ columns[c] = col
        /\ \A d \in DOMAIN columns : columns[d] = col => d <= c

ColumnNames(columns) == {columns[c] : c \in DOMAIN columns}

masked_records(columns, rows, tier) ==
    [r \in DOMAIN rows |->
        [col \in ColumnNames(columns) |->
            MaskValue(col, tier, rows[r][KeptIndex(columns, col)])]]

\* Faulty variant: only columns redacted as a whole are reported.
BugReportsRedactedOnly(columns, tier) ==
    {col \in ColumnNames(columns) \cap SENSITIVE_COLUMNS : mask_fn(col, tier) = "redact"}

\* The second result: the sensitive columns that this tier has a mask for.
accessed_sensitive(columns, tier) ==
    {col \in ColumnNames(columns) \cap SENSITIVE_COLUMNS : mask_fn(col, tier) # "pass"}

-----------------------------------------------------------------------------
(* describe_table in tools/db_tools.py reads the policy by itself *)

\* Faulty variant: every column with a policy is described as masked.
BugDescribesPolicy(col, tier) == col \in SENSITIVE_COLUMNS

described_as_masked(col, tier) ==
    /\ col \in SENSITIVE_COLUMNS
    /\ tier \in DOMAIN MASKING_POLICY[col]
    /\ MASKING_POLICY[col][tier] # "pass"
=============================================================================
