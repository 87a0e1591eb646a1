------------------------------ MODULE Contract ------------------------------
(***************************************************************************)
(* The configuration contract of the benchmark: which value each of the    *)
(* ten fields may take, what makes a configuration executable, and which   *)
(* gold labels are consistent with it.  A configuration is a function from *)
(* the field names it gives to their values.  A value that is malformed,   *)
(* whatever its JSON type, is an integer below the range of its field or a *)
(* model value; ranges and ratios are integers.                            *)
(***************************************************************************)
EXTENDS Integers, Sequences, FiniteSets

CONSTANTS
  Catalogue,      \* topology -> its working period and communication range
  Ratios,         \* interference ratios of the profile: {1}, or all from 1 on
  Null,           \* JSON null
  NotAnObject,    \* anything that is neither an object nor null
  Malformed,      \* an invalid-field entry without observed value or reason
  Structured      \* an observed value that is no scalar

Actions == {"EXECUTE", "CLARIFY", "REJECT", "UNSUPPORTED"}

AnnotationKeys == {"invalid_fields", "unresolved", "also_missing", "also_invalid",
                   "unsupported_capability", "configuration_bundle", "notes"}

(* The values a field may have in a configuration with these fields: the   *)
(* working period and the range are those of the topology it names.        *)
Supported(fields) ==
  LET topology == IF "topology_id" \in DOMAIN fields
                  THEN {fields["topology_id"]} \cap DOMAIN Catalogue ELSE {}
  IN [topology_id          |-> DOMAIN Catalogue,
      workload             |-> {"one_shot"},
      objective            |-> {"minimize_latency"},
      channels             |-> Nat \ {0},
      interference_ratio   |-> Ratios,
      collision_model      |-> {"legacy_neighbor", "interference_range"},
      latency_target_slots |-> {Null} \cup (Nat \ {0}),
      seed                 |-> Nat,
      working_period       |-> IF topology = {} THEN Nat \ {0}
                               ELSE {Catalogue[t].working_period : t \in topology},
      communication_range  |-> IF topology = {} THEN Nat \ {0}
                               ELSE {Catalogue[t].communication_range : t \in topology}]

ContractFields ==
  {"topology_id", "workload", "objective", "channels", "interference_ratio",
   "collision_model", "latency_target_slots", "seed", "working_period",
   "communication_range"}

ContractPart(fields) ==
  IF fields \in {Null, NotAnObject} THEN <<>>
  ELSE [f \in DOMAIN fields \cap ContractFields |-> fields[f]]

Violations(fields) ==
  {f \in DOMAIN fields \cap ContractFields : fields[f] \notin Supported(fields)[f]}

(* A complete configuration without a violation or an unknown field.       *)
Executable(fields) ==
  /\ fields \notin {Null, NotAnObject}
  /\ ContractFields \subseteq DOMAIN fields
  /\ DOMAIN fields \subseteq ContractFields \cup AnnotationKeys
  /\ Violations(fields) = {}

(* The names of invalid whose value, put into the configuration, violates  *)
(* nothing; a structured value cannot be checked.                          *)
Unconfirmed(fields, invalid) ==
  LET base == ContractPart(fields)
      probe(f) == [g \in DOMAIN base \cup {f} |-> IF g = f THEN invalid[f] ELSE base[g]]
  IN {f \in DOMAIN invalid :
        \/ f \notin ContractFields
        \/ invalid[f] # Structured /\ f \notin Violations(probe(f))}

(* The label is consistent: an EXECUTE label carries an executable         *)
(* configuration, a REJECT label at least one invalid field that the       *)
(* contract confirms, and no other label an invalid field.                 *)
GoldSound(action, fields, invalid) ==
  CASE action = "EXECUTE" -> Executable(fields) /\ DOMAIN invalid = {}
    [] action = "REJECT" ->
         /\ fields # NotAnObject
         /\ DOMAIN invalid # {}
         /\ \A f \in DOMAIN invalid : invalid[f] # Malformed
         /\ Unconfirmed(fields, invalid) # DOMAIN invalid
    [] OTHER -> fields # NotAnObject /\ DOMAIN invalid = {}
=============================================================================
