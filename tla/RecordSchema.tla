---------------------------- MODULE RecordSchema ----------------------------
(***************************************************************************)
(* validate_record of src/src/wcd/record_schema.py: what a reader of a     *)
(* transaction record asks of it, by itself and against the capability     *)
(* text and the run-sheet bytes it claims.  A JSON object is a function of *)
(* its keys; None stands for a value that is not given.  That texts are    *)
(* texts and lists are lists, and how long they may be, is left out.       *)
(***************************************************************************)
EXTENDS Naturals, SequencesExt

CONSTANT None

\* A SHA-256 tells every two contents apart.
Digest(content) == <<"sha256", content>>

\* _keys: the required keys are there, and no key that is not allowed.
Keys(object, required, allowed) ==
    required \subseteq DOMAIN object /\ DOMAIN object \subseteq allowed

TopLevelKeys == {"state", "verdict", "envelope_result", "events", "provenance"}

RecordStates     == {"verified", "disproven", "indeterminate"}
EventStates      == {"prepared", "armed", "commit_attempted"} \cup RecordStates
EnvelopeStatuses == {"satisfied", "disproven", "indeterminate"}
DeltaKinds       == {"added", "changed", "removed"}

StampKeys   == {"schema", "schema_version"}
BaseKeys    == {"capability", "run_sheet", "transaction_id", "console",
                "steps", "cleanup", "notes"}
BindingKeys == {"capability_revision", "capability_sha256"}

\* _record_version: the version a provenance is stamped as, if any.  Legacy
\* records, which are version 0, carry no part of a stamp.
StampedAs(provenance, legacy) ==
    LET stamped == StampKeys \cap DOMAIN provenance IN
    {v \in 0..3 : \/ v = 0 /\ legacy /\ stamped = {}
                  \/ /\ v > 0 /\ stamped = StampKeys
                     /\ provenance.schema = <<"transaction-record-schema", v>>
                     /\ provenance.schema_version = v}

ValidDelta(delta) ==
    \A i \in 1..Len(delta) :
        /\ Keys(delta[i], {"key", "kind", "before", "after"},
                          {"key", "kind", "before", "after"})
        /\ delta[i].kind \in DeltaKinds

\* _validate_envelope: empty only for an indeterminate early stop.
ValidEnvelope(envelope, version, recordState) ==
    \/ DOMAIN envelope = {} /\ recordState = "indeterminate"
    \/ LET always == {"status", "satisfied", "violated", "unclassified",
                      "characterization"}
           later  == {"unresolved", "delta"}
       IN  /\ Keys(envelope, IF version = 0 THEN always ELSE always \cup later,
                             always \cup later)
           /\ envelope.status \in EnvelopeStatuses
           /\ "delta" \in DOMAIN envelope => ValidDelta(envelope.delta)

ValidEvents(log) ==
    \A i \in 1..Len(log) :
        /\ Keys(log[i], {"sequence", "from_state", "to_state", "reason"},
                        {"sequence", "from_state", "to_state", "reason"})
        /\ log[i].sequence >= 1
        /\ log[i].from_state \in EventStates \cup {None}
        /\ log[i].to_state \in EventStates

\* _validate_invocation: every digest recomputes from what the record carries.
ValidInvocation(invocation) ==
    LET keys      == {"arguments", "arguments_sha256", "run_sheet_sha256",
                      "setup_manifest"}
        entryKeys == {"script", "stdout_lines", "stdout_sha256"}
    IN  /\ Keys(invocation, keys, keys)
        /\ invocation.arguments_sha256 = Digest(invocation.arguments)
        /\ \A i \in 1..Len(invocation.setup_manifest) :
              LET entry == invocation.setup_manifest[i] IN
              /\ Keys(entry, entryKeys, entryKeys)
              /\ entry.stdout_sha256 = Digest(entry.stdout_lines)

\* _validate_provenance: each version has its keys, no more and no less.
ValidProvenance(provenance, version) ==
    LET keys == BaseKeys
                  \cup (IF version >= 1 THEN StampKeys ELSE {})
                  \cup (IF version >= 2 THEN BindingKeys ELSE {})
                  \cup (IF version = 3 THEN {"invocation"} ELSE {})
    IN  /\ Keys(provenance, keys, keys)
        /\ version >= 2 => provenance.capability_revision >= 1
        /\ version = 3 => ValidInvocation(provenance.invocation)

\* _verify_capability_binding: against the text itself, never the record's word.
BindsCapability(provenance, text) ==
    /\ provenance.capability_sha256 = Digest(text)
    /\ provenance.capability_revision = text.revision

\* The elements of s at these indices, in their order.
At(s, indices) ==
    [n \in 1..Cardinality(indices) |->
        s[CHOOSE i \in indices : Cardinality({j \in indices : j <= i}) = n]]

\* The scripts among these steps.  (SelectSeq, spelled out for the provers.)
ScriptsOf(steps) == At(steps, {i \in 1..Len(steps) : steps[i].kind = "guest"})

\* _verify_run_sheet_binding: the setup scripts of the run sheet in order, all
\* of them unless setup may have stopped early.
BindsRunSheet(provenance, sheet, recordState) ==
    LET invocation == provenance.invocation
        expected   == ScriptsOf(sheet.setup)
        scripts    == [i \in 1..Len(invocation.setup_manifest) |->
                          invocation.setup_manifest[i].script]
    IN  /\ invocation.run_sheet_sha256 = Digest(sheet)
        /\ provenance.run_sheet = sheet.name
        /\ IF recordState \in {"verified", "disproven"}
             THEN scripts = expected ELSE IsPrefix(scripts, expected)

\* validate_record.  The text and the sheet are given or None; legacy is an
\* explicit opt-in or a committed source.
Accepts(rec, legacy, text, sheet) ==
    /\ Keys(rec, TopLevelKeys, TopLevelKeys)
    /\ rec.state \in RecordStates
    /\ \E version \in StampedAs(rec.provenance, legacy) :
          /\ ValidEnvelope(rec.envelope_result, version, rec.state)
          /\ ValidEvents(rec.events)
          /\ ValidProvenance(rec.provenance, version)
          /\ version >= 2 /\ text # None => BindsCapability(rec.provenance, text)
          /\ sheet # None =>
                version = 3 /\ BindsRunSheet(rec.provenance, sheet, rec.state)

=============================================================================
