--------------------------- MODULE MappingRepair ---------------------------
(***************************************************************************)
(* How a protocol mapping learns the fields it lacked.  A translation that *)
(* fails logs its fields and applies confident suggestions of the model    *)
(* (app/services/mapping_failures.py), a user corrects one, and the repair *)
(* loop works off the failures that are still open                         *)
(* (app/reconciliation/engine.py).                                         *)
(*                                                                         *)
(* One pair of protocols; a row is the set of fields it maps.  The ORM     *)
(* writes the JSON column when it was given another value: a dictionary    *)
(* that is changed in place and assigned again is not written, an empty    *)
(* one is, because `or {}` has replaced it.  The database is PostgreSQL,   *)
(* which refuses a name that is not in its enumeration of protocols.       *)
(***************************************************************************)
EXTENDS Integers, FiniteSets

CONSTANTS
  Fields,      \* the fields that translations fail on, one failure each
  Foreign,     \* those whose source protocol is not a ProtocolType
  Servers,     \* requests being served
  MaxMappings  \* bound: rows ever created

ASSUME MappingAssumption == Foreign \subseteq Fields

VARIABLES
  mappings,    \* the active rows of protocol_mapping for the pair, by id
  failures,    \* table mapping_failure_logs, by field
  work,        \* what each server is doing
  healed,      \* history: failures the repair loop marked as applied
  overwritten  \* history: fields a commit dropped that it had not read

mappingVars == <<mappings, failures, work, healed, overwritten>>

MappingIds == 1 .. MaxMappings

\* Confidence of the suggestion: below 0.70, from there, and from 0.85 on.
Bands == {"unsure", "likely", "sure"}
Failure == [logged: BOOLEAN, band: Bands, applied: BOOLEAN]

Mapping == [exists: BOOLEAN, fields: SUBSET Fields]
NoMapping == [exists |-> FALSE, fields |-> {}]

\* todo: failures still to be handled; done: those handled; row and seen: the
\* mapping that was read, 0 for none, and its fields.
Work == [at: {"idle", "translating", "correcting", "healing", "updating"}, todo: SUBSET Fields,
         done: SUBSET Fields, row: MappingIds \cup {0}, seen: SUBSET Fields]
NoWork == [at |-> "idle", todo |-> {}, done |-> {}, row |-> 0, seen |-> {}]

MappingTypeOK ==
  /\ mappings \in [MappingIds -> Mapping]
  /\ failures \in [Fields -> Failure]
  /\ work \in [Servers -> Work]
  /\ healed \subseteq Fields /\ overwritten \subseteq Fields

\* A mapping may have been seeded, with equivalents or without.
MappingInit ==
  /\ \E first \in {NoMapping, [exists |-> TRUE, fields |-> {}]} :
       mappings = [m \in MappingIds |-> IF m = 1 THEN first ELSE NoMapping]
  /\ \E band \in [Fields -> Bands] :
       failures = [f \in Fields |-> [logged |-> FALSE, band |-> band[f], applied |-> FALSE]]
  /\ work = [s \in Servers |-> NoWork]
  /\ healed = {}
  /\ overwritten = {}

-----------------------------------------------------------------------------

Active == {m \in MappingIds : mappings[m].exists}
Mapped == UNION {mappings[m].fields : m \in Active}

\* The row that `first()` returns and its fields; 0 if there is none.
Readings == IF Active = {} THEN {<<0, {}>>} ELSE {<<m, mappings[m].fields>> : m \in Active}

\* The commit of a server that read `row` and found `seen` in it: the column is
\* written as a whole.
Written(row, seen, fields) ==
  LET m == IF row = 0 THEN Cardinality(Active) + 1 ELSE row IN
  /\ m \in MappingIds
  /\ mappings' = [mappings EXCEPT ![m] = [exists |-> TRUE, fields |-> seen \cup fields]]
  /\ overwritten' = (overwritten \cup (mappings[m].fields \ seen)) \ fields

\* Nothing to write: the dictionary was changed in place.
InPlace == UNCHANGED <<mappings, overwritten>>

\* POST /beta/translate fails: the mapping is read for the fields the model is
\* sure of.
TranslationFails(s) ==
  /\ work[s].at = "idle"
  /\ \E fs \in SUBSET {f \in Fields : ~failures[f].logged} \ {{}}, read \in Readings :
       work' = [work EXCEPT ![s] = [at |-> "translating", todo |-> fs, done |-> {}, row |-> read[1], seen |-> read[2]]]
  /\ UNCHANGED <<mappings, failures, healed, overwritten>>

\* apply_ml_suggestion and the commit.  Only the first suggestion for a mapping
\* without equivalents is written; all of them are marked as applied.
ApplySuggestions(s) ==
  /\ work[s].at = "translating"
  /\ LET sure == {f \in work[s].todo : failures[f].band = "sure"} \ Foreign IN
     /\ IF sure # {} /\ work[s].seen = {} THEN \E f \in sure : Written(work[s].row, {}, {f}) ELSE InPlace
     /\ failures' = [f \in Fields |->
          IF f \in work[s].todo THEN [failures[f] EXCEPT !.logged = TRUE, !.applied = @ \/ f \in sure] ELSE failures[f]]
  /\ work' = [work EXCEPT ![s] = NoWork]
  /\ UNCHANGED healed

\* POST /beta/mapping-failures/{id}/correct reads the failure and the mapping;
\* a failure of an unknown protocol is left as it is.
CorrectRead(s) ==
  /\ work[s].at = "idle"
  /\ \E f \in Fields \ Foreign, read \in Readings :
       /\ failures[f].logged
       /\ work' = [work EXCEPT ![s] = [at |-> "correcting", todo |-> {f}, done |-> {}, row |-> read[1], seen |-> read[2]]]
  /\ UNCHANGED <<mappings, failures, healed, overwritten>>

CorrectCommit(s) ==
  /\ work[s].at = "correcting"
  /\ IF work[s].seen = {} THEN Written(work[s].row, {}, work[s].todo) ELSE InPlace
  /\ failures' = [f \in Fields |-> IF f \in work[s].todo THEN [failures[f] EXCEPT !.applied = TRUE] ELSE failures[f]]
  /\ work' = [work EXCEPT ![s] = NoWork]
  /\ UNCHANGED healed

\* repair_loop selects the open failures; it passes over those below 0.70.
HealStart(s) ==
  /\ work[s].at = "idle"
  /\ LET eligible == {f \in Fields : failures[f].logged /\ ~failures[f].applied /\ failures[f].band # "unsure"} IN
     /\ eligible # {}
     /\ work' = [work EXCEPT ![s] = [NoWork EXCEPT !.at = "healing", !.todo = eligible]]
  /\ UNCHANGED <<mappings, failures, healed, overwritten>>

\* _update_mapping, in a session of its own, reads the mapping ...
HealRead(s) ==
  /\ work[s].at = "healing" /\ work[s].todo \ Foreign # {}
  /\ \E read \in Readings : work' = [work EXCEPT ![s].at = "updating", ![s].row = read[1], ![s].seen = read[2]]
  /\ UNCHANGED <<mappings, failures, healed, overwritten>>

\* (mutant) The equivalents are changed in place, as the other two paths do.
UpdateInPlace(row, seen, f) == IF seen = {} THEN Written(row, seen, {f}) ELSE InPlace

\* ... and commits a copy of its equivalents with the field added.
UpdateMapping(row, seen, f) == Written(row, seen, {f})

HealUpdate(s) ==
  /\ work[s].at = "updating"
  /\ \E f \in work[s].todo \ Foreign :
       /\ UpdateMapping(work[s].row, work[s].seen, f)
       /\ work' = [work EXCEPT ![s] = [NoWork EXCEPT !.at = "healing", !.todo = work[s].todo \ {f},
                                                     !.done = work[s].done \cup {f}]]
  /\ UNCHANGED <<failures, healed>>

\* A protocol the database does not know ends the loop before its commit, and so
\* does a crash: the mappings stay, the failures stay open.
HealAborted(s) ==
  /\ work[s].at \in {"healing", "updating"}
  /\ work' = [work EXCEPT ![s] = NoWork]
  /\ UNCHANGED <<mappings, failures, healed, overwritten>>

\* The loop's one commit marks what it has handled.
HealCommit(s) ==
  /\ work[s].at = "healing" /\ work[s].todo = {}
  /\ failures' = [f \in Fields |-> IF f \in work[s].done THEN [failures[f] EXCEPT !.applied = TRUE] ELSE failures[f]]
  /\ healed' = healed \cup work[s].done
  /\ work' = [work EXCEPT ![s] = NoWork]
  /\ UNCHANGED <<mappings, overwritten>>

MappingNext ==
  \E s \in Servers :
    \/ TranslationFails(s) \/ ApplySuggestions(s) \/ CorrectRead(s) \/ CorrectCommit(s)
    \/ HealStart(s) \/ HealRead(s) \/ HealUpdate(s) \/ HealAborted(s) \/ HealCommit(s)

MappingSpec == MappingInit /\ [][MappingNext]_mappingVars
-----------------------------------------------------------------------------

\* A failure the repair loop has marked as applied is mapped, also when the loop
\* was cut short before and its session is not the one that writes the mapping,
\* unless a server that had read the row earlier wrote it since.
HealedIsMapped == healed \subseteq Mapped \cup overwritten
=============================================================================
