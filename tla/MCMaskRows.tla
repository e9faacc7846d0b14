------------------------------ MODULE MCMaskRows -------------------------------
(* Result sets of one or two columns for TLC. *)
EXTENDS MaskRows

Text(len, at, digits) == [len |-> len, at |-> at, digits |-> digits, falsy |-> len = 0]

\* Lengths around the thresholds 4 and 40, an "@" first, inside or absent,
\* fewer than, exactly and more than four digits, and a false 0:00:00.
Values ==
    {Text(n, 0, {}) : n \in {0, 3, 4, 5, 40, 41}}
    \cup {Text(n, 0, 1 .. n) : n \in {3, 4, 6}}
    \cup {Text(5, at, {2, 4} \ {at}) : at \in {1, 3, 5}}
    \cup {[Text(7, 0, {1, 3, 4, 6, 7}) EXCEPT !.falsy = TRUE]}

Cells == Values \cup {NULL}

\* first_name stands for the columns without a policy.
Columns == SENSITIVE_COLUMNS \cup {"first_name"}

\* The tiers, and one that no property of identity.py returns.
AnyTier == Tiers \cup {"db_guest"}

OneColumn ==
    {[columns |-> <<col>>, rows |-> rows, tier |-> tier] :
        col \in Columns, tier \in AnyTier,
        rows \in {<<>>} \cup {<<<<x>>>> : x \in Cells}
                 \cup {<<<<x>>, <<y>>>> : x \in {NULL, Text(5, 1, {})}, y \in Cells}}

\* Two columns, often of the same name.
TwoColumns ==
    {[columns |-> <<c, d>>, rows |-> <<<<x, y>>>>, tier |-> tier] :
        c \in {"email", "first_name"}, d \in Columns, tier \in AnyTier,
        x \in {NULL, Text(5, 3, {}), Text(5, 1, {})}, y \in Cells}

MCCalls == OneColumn \cup TwoColumns

MCDbRoles == KnownRoles \cup {"db_guest"}

AllRoleSets == SUBSET MCDbRoles
===============================================================================
