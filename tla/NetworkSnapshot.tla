--------------------------- MODULE NetworkSnapshot ---------------------------
(***************************************************************************)
(* Export of the runtime state of one P4Runtime switch into a network      *)
(* archive (capture_runtime, sanitize_dependencies) while another client   *)
(* edits the switch, and what an import demands of the archive             *)
(* (validate_entities).                                                    *)
(*                                                                         *)
(* Entities are atoms; Needs[e] are the entities that e refers to: the     *)
(* members of a group, the member or group of a table entry, the table     *)
(* entry of a direct meter or counter.                                     *)
(***************************************************************************)
EXTENDS Integers, Sequences, FiniteSets

CONSTANTS
  Entities,
  CategoryOf,   \* [Entities -> category]
  Needs,        \* [Entities -> SUBSET Entities]
  ConstEntries, \* table entries that come with the pipeline
  MaxEdits      \* bound of the model: edits by other clients

\* Faulty: table entries before the groups they may refer to.
TablesFirst == <<"members", "tables", "groups", "direct", "other">>

\* The order of capture and of restoration.  "direct" stands for direct
\* meters and counters, "other" for what refers to nothing: registers,
\* counters, meters, replication and digests.
Categories == <<"members", "groups", "tables", "direct", "other">>

Of(S, category) == {e \in S : CategoryOf[e] = category}

ASSUME EntitiesAssumption ==
  /\ CategoryOf \in [Entities -> {Categories[i] : i \in DOMAIN Categories}]
  /\ Needs \in [Entities -> SUBSET Entities]
  /\ ConstEntries \subseteq Of(Entities, "tables")
  /\ \A e \in ConstEntries : Needs[e] = {}
  /\ \A e \in Of(Entities, "members") \cup Of(Entities, "other") : Needs[e] = {}
  /\ \A e \in Of(Entities, "groups") : Needs[e] \subseteq Of(Entities, "members")
  /\ \A e \in Of(Entities, "tables") :
        Needs[e] \subseteq Of(Entities, "members") \cup Of(Entities, "groups")
  /\ \A e \in Of(Entities, "direct") :
        Needs[e] # {} /\ Needs[e] \subseteq Of(Entities, "tables")

ASSUME MaxEditsAssumption == MaxEdits \in Nat

VARIABLES
  source,   \* what the switch holds
  owed,     \* what it has held since the capture began, then also what was
            \* read: what a complete restoration owes (history)
  edits,    \* edits by other clients
  captured, \* categories read
  rows,     \* entities of the archive
  ok,       \* every category of the archive has the status `ok`
  exported  \* the archive is complete

exportVars == <<source, owed, edits, captured, rows, ok, exported>>

\* What a device can hold: it refuses dangling references, and a table entry
\* has its direct resources as long as it lives.
Contents ==
  {S \in SUBSET Entities :
     /\ ConstEntries \subseteq S
     /\ \A e \in S : Needs[e] \subseteq S
     /\ \A e \in Of(Entities, "direct") : Needs[e] \subseteq S => e \in S}

ExportTypeOK ==
  /\ source \in SUBSET Entities /\ owed \in SUBSET Entities /\ rows \in SUBSET Entities
  /\ edits \in 0..MaxEdits /\ captured \in 0..Len(Categories)
  /\ ok \in BOOLEAN /\ exported \in BOOLEAN

ExportInit ==
  /\ source \in Contents /\ owed = source /\ edits = 0
  /\ captured = 0 /\ rows = {} /\ ok = TRUE /\ exported = FALSE

\* One entity comes or goes, with the direct resources it has.
Edit ==
  /\ ~exported /\ edits < MaxEdits
  /\ \E e \in Entities \ Of(Entities, "direct"), S \in Contents :
        LET direct == {d \in Of(Entities, "direct") : e \in Needs[d]} IN
        /\ S = IF e \in source THEN source \ ({e} \cup direct) ELSE source \cup {e} \cup direct
        /\ source' = S /\ owed' = owed \cap S
  /\ edits' = edits + 1
  /\ UNCHANGED <<captured, rows, ok, exported>>

\* The next category.  Reads that fail, or the time budget, leave a part of
\* it, and the status says so.
ReadEntities ==
  /\ captured < Len(Categories)
  /\ LET present == Of(source, Categories[captured + 1]) IN
     \E got \in SUBSET present :
        /\ rows' = rows \cup got
        /\ ok' \in {FALSE} \cup (IF got = present THEN {ok} ELSE {})
  /\ captured' = captured + 1
  /\ UNCHANGED <<source, owed, edits, exported>>

\* Faulty: direct meters and counters are kept without their table entries.
SanitizedButDirect(S) ==
  LET members == Of(S, "members")
      groups  == {e \in Of(S, "groups") : Needs[e] \subseteq members}
      tables  == {e \in Of(S, "tables") : Needs[e] \subseteq members \cup groups}
  IN members \cup groups \cup tables \cup Of(S, "direct") \cup Of(S, "other")

\* Entries whose references were not captured are omitted, in this order:
\* an omitted group takes its table entries with it, and these their direct
\* resources.
Sanitized(S) ==
  LET members == Of(S, "members")
      groups  == {e \in Of(S, "groups") : Needs[e] \subseteq members}
      tables  == {e \in Of(S, "tables") : Needs[e] \subseteq members \cup groups}
      direct  == {e \in Of(S, "direct") : Needs[e] \subseteq tables}
  IN members \cup groups \cup tables \cup direct \cup Of(S, "other")

\* Faulty: omitted entries leave the status of their category as it was.
ForgetfulSanitize ==
  /\ captured = Len(Categories) /\ ~exported
  /\ rows' = Sanitized(rows) /\ exported' = TRUE
  /\ source' = {} /\ edits' = 0 /\ owed' = IF ok THEN owed \cup rows ELSE {}
  /\ UNCHANGED <<captured, ok>>

\* What happens to the switch after this is nobody's concern here.
Sanitize ==
  /\ captured = Len(Categories) /\ ~exported
  /\ rows' = Sanitized(rows)
  /\ ok' = (ok /\ rows' = rows)
  /\ exported' = TRUE
  /\ source' = {} /\ edits' = 0 /\ owed' = IF ok' THEN owed \cup rows ELSE {}
  /\ UNCHANGED captured

Export == Edit \/ ReadEntities \/ Sanitize

\* What validate_entities accepts: every reference resolves in the archive.
Valid(S) == \A e \in S : Needs[e] \subseteq S
------------------------------------------------------------------------------
\* Whatever reads failed and whatever other clients changed between the reads
\* of two categories, the references of the entries in an export all resolve:
\* sanitize_dependencies omits each entry whose reference validate_entities
\* would reject. Nothing is said of the values that an import checks as well.
ExportedIsImportable == exported => Valid(rows)
==============================================================================
