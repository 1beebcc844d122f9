------------------------------ MODULE Routing ------------------------------
(***************************************************************************)
(* The routing table of the model gateway: what a purpose_routing.yaml     *)
(* document must satisfy before router.load_routing_table publishes it.    *)
(*                                                                         *)
(* A document is what the file holds at the moment it is read: the first   *)
(* of the early checks it fails ("none" when it passes them all) and, for  *)
(* a document that gets that far, its parsed rows by purpose key.  A row   *)
(* as parsed is any record; its numbers are scalars of whatever YAML type  *)
(* they were written in.  RoutingEntry is what pydantic makes of the rows  *)
(* it accepts, with temperatures in tenths.                                *)
(***************************************************************************)
EXTENDS Integers

CONSTANTS
    Purpose,               \* the members of LLMPurpose
    Model,                 \* model names a row may hold, known to the code or not
    MODEL_CAPABILITIES,    \* what each known model can do
    PURPOSE_REQUIREMENTS,  \* what each purpose needs
    MinTimeout, MaxTimeout, MaxRetries, MaxTemperature,  \* the bounds of a row
    Document,              \* what the file may hold when it is read
    None                   \* Python's None

RoutingEntry ==
    [primary : Model, fallback : Model,
     timeout_ms : MinTimeout .. MaxTimeout,
     max_retries : 0 .. MaxRetries,
     temperature : 0 .. MaxTemperature]

ASSUME RoutingAssumption ==
    /\ MinTimeout \in Nat \ {0} /\ MaxTimeout \in Nat
    /\ MaxRetries \in Nat /\ MaxTemperature \in Nat
    /\ None \notin [Purpose -> RoutingEntry]

-----------------------------------------------------------------------------
(* Checks made before any row is looked at.                                *)

EarlyFault ==
    {"unreadable", "not_utf8", "yaml_syntax", "bad_scalar", "not_a_mapping",
     "no_version", "unsupported_version", "no_routes", "routes_not_a_mapping"}

-----------------------------------------------------------------------------
(* Checks on the rows.                                                     *)

KnownPurposes(rows) == DOMAIN rows \subseteq Purpose

(* A scalar and the number it reads as, in tenths: pydantic's lax mode     *)
(* takes 3000, 3000.0, "3000" and, as one, True alike.                     *)
Scalar == [type : {"int", "float", "str", "bool"}, tenths : Int \cup {None}]

IsNumber(s) == s \in Scalar /\ s.tenths # None
IsWhole(s) == IsNumber(s) /\ s.tenths % 10 = 0

(* extra="forbid": exactly the fields of RoutingEntry, each of its type.   *)
Parses(row) ==
    /\ DOMAIN row = {"primary", "fallback", "timeout_ms", "max_retries", "temperature"}
    /\ row.primary \in Model /\ row.fallback \in Model
    /\ IsWhole(row.timeout_ms) /\ IsWhole(row.max_retries)
    /\ IsNumber(row.temperature)

(* The row with its numbers converted.                                     *)
model_validate(row) ==
    [primary |-> row.primary, fallback |-> row.fallback,
     timeout_ms |-> row.timeout_ms.tenths \div 10,
     max_retries |-> row.max_retries.tenths \div 10,
     temperature |-> row.temperature.tenths]

(* Mutant: Field() without its bounds.                                     *)
ValidRows_unbounded(rows) == \A p \in DOMAIN rows : Parses(rows[p])

ValidRows(rows) ==
    \A p \in DOMAIN rows : Parses(rows[p]) /\ model_validate(rows[p]) \in RoutingEntry

Complete(rows) == Purpose \subseteq DOMAIN rows

(* Mutant: a model nobody has listed taken to be capable.                  *)
Serves_unlisted(model, purpose) ==
    model \in DOMAIN MODEL_CAPABILITIES
        => PURPOSE_REQUIREMENTS[purpose] \subseteq MODEL_CAPABILITIES[model]

(* A model serves a purpose when it is known and lacks nothing it needs.   *)
Serves(model, purpose) ==
    /\ model \in DOMAIN MODEL_CAPABILITIES
    /\ PURPOSE_REQUIREMENTS[purpose] \subseteq MODEL_CAPABILITIES[model]

(* Mutant: the fallback not checked.                                       *)
validate_primary_only(table) ==
    \A p \in DOMAIN table :
        p \in DOMAIN PURPOSE_REQUIREMENTS /\ Serves(table[p].primary, p)

validate_routing_capabilities(table) ==
    \A p \in DOMAIN table :
        /\ p \in DOMAIN PURPOSE_REQUIREMENTS
        /\ Serves(table[p].primary, p)
        /\ Serves(table[p].fallback, p)

(* The dict load_routing_table builds row by row from a document.          *)
Table(doc) == [p \in DOMAIN doc.rows |-> model_validate(doc.rows[p])]

(* Mutant: the capability check skipped.                                   *)
Loadable_unvalidated(doc) ==
    /\ doc.fault = "none"
    /\ KnownPurposes(doc.rows)
    /\ ValidRows(doc.rows)
    /\ Complete(doc.rows)

Loadable(doc) ==
    /\ doc.fault = "none"
    /\ KnownPurposes(doc.rows)
    /\ ValidRows(doc.rows)
    /\ Complete(doc.rows)
    /\ validate_routing_capabilities(Table(doc))

(* What is caught around read_text is OSError, and around safe_load        *)
(* YAMLError: a decoding error escapes the one, and the other the          *)
(* ValueError of a scalar that has a type but no value (a 30 February).    *)
Escaping == [not_utf8 |-> "UnicodeDecodeError", bad_scalar |-> "ValueError"]

(* The exception that leaves load_routing_table for a document it refuses. *)
LoadError(doc) ==
    IF doc.fault \in DOMAIN Escaping THEN Escaping[doc.fault] ELSE "RoutingConfigError"

-----------------------------------------------------------------------------
(* What every published table must be.                                     *)

ValidTable(table) ==
    /\ table \in [Purpose -> RoutingEntry]
    /\ validate_routing_capabilities(table)

=============================================================================
