---------------------------- MODULE StreamContract ----------------------------
(***************************************************************************)
(* How a row of an event stream is found valid, and the reason it is       *)
(* quarantined for.  A row's fields are "ok", "null" (absent or not        *)
(* parsable), "blank", or "other": present, but not what the contract      *)
(* names.  Comparisons with a null are unknown, as in SQL.                 *)
(***************************************************************************)
CONSTANTS
    Fields,             \* columns of the envelope
    RequiredFields      \* contract.required_fields

ASSUME ContractAssumption ==
    /\ {"event_id", "event_ts", "event_type", "schema_version"} \subseteq Fields
    /\ RequiredFields \subseteq Fields

Condition == {"ok", "null", "blank", "other"}

Missing(row) == \E f \in RequiredFields : row.fields[f] \in {"null", "blank"}

\* Column f compared with the value that the contract names.
Compared(row, f) ==
    CASE row.fields[f] = "null" -> "unknown"
      [] row.fields[f] = "ok" -> "true"
      [] OTHER -> "false"

Truth(b) == IF b THEN "true" ELSE "false"

\* The conjuncts of _dq_valid.
Checks(row) ==
    {Truth(~Missing(row)),
     Compared(row, "event_type"),
     Compared(row, "schema_version"),
     Truth(row.fields["event_id"] # "null"),
     Truth(row.fields["event_ts"] # "null")}

\* Conjunction in three-valued logic.
Validity(row) ==
    IF "false" \in Checks(row) THEN "false"
    ELSE IF "unknown" \in Checks(row) THEN "unknown" ELSE "true"

\* The filters of the clean and of the quarantine output keep a row only if their
\* condition is true.
IsClean(row) == Validity(row) = "true"
IsRefused(row) == Validity(row) = "false"

\* The first WHEN whose condition is true.
Reason(row) ==
    IF row.fields["event_id"] = "null" THEN "MISSING_EVENT_ID"
    ELSE IF row.fields["event_ts"] = "null" THEN "MISSING_EVENT_TIME"
    ELSE IF Missing(row) THEN "MISSING_REQUIRED_FIELD"
    ELSE IF Compared(row, "event_type") = "false" THEN "INVALID_EVENT_TYPE"
    ELSE IF Compared(row, "schema_version") = "false" THEN "UNSUPPORTED_SCHEMA_VERSION"
    ELSE "none"

\* The contracts of default_specs require the columns that validity compares.
ComparesOnlyRequired == {"event_type", "schema_version"} \subseteq RequiredFields
===============================================================================
