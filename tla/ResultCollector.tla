--------------------------- MODULE ResultCollector ---------------------------
(***************************************************************************)
(* The result of one query, kept while it arrives row by row (the          *)
(* ResultCollector of libpq.rs and the loop that feeds it), under the      *)
(* limits on rows, columns, cells and the bytes of its canonical JSON      *)
(* (QueryResult::validate in protocol.rs).                                 *)
(*                                                                         *)
(* Of a text only its length matters, and its length in JSON, where quotes *)
(* and escapes count.  The keys and brackets that every result has are     *)
(* left out of the limit on bytes.                                         *)
(***************************************************************************)
EXTENDS Naturals, Sequences, SequencesExt

CONSTANTS
  Text,         \* names, cells and tags
  Count,        \* texts that are decimal numbers
  Null,         \* a cell, or a count of affected rows, that is not there
  Raw,          \* text |-> its bytes
  Encoded,      \* text or Null |-> the bytes of its JSON
  ColumnKeys,   \* bytes of a column's JSON besides its name
  MaxColumns, MaxRows,   \* bounds: columns and rows of a result
  ByteLimits    \* limits on bytes

Cell == Text \cup {Null}

ASSUME ResultAssumption ==
  /\ Null \notin Text /\ Count \subseteq Text
  /\ Raw \in [Text -> Nat]
  /\ Encoded \in [Cell -> Nat]
  /\ \A text \in Text : Encoded[text] >= 2   \* its quotes
  /\ ColumnKeys \in Nat
  /\ MaxColumns \in Nat /\ MaxRows \in Nat /\ ByteLimits \subseteq Nat

\* What a statement returns: columns and rows, none of them for a command.
Results ==
  UNION {[columns : TupleOf(Text, n), rows : BoundedSeq(TupleOf(Cell, n), MaxRows),
          tag : Text, affected : Count \cup {Null}] : n \in 0..MaxColumns}

Limits ==
  [columns : 1..MaxColumns, rows : 1..MaxRows, cell : {Raw[t] : t \in Text},
   bytes : ByteLimits]

VARIABLES
  limits,       \* QueryLimits
  whole,        \* what the server returns
  sent,         \* rows of it that arrived
  retained,     \* the collector
  firstError,   \* first_error of collect_results
  pc,           \* "rows", "drained" once the statement ended, "returned"
  outcome       \* "ok" with what is retained, or an error

vars == <<limits, whole, sent, retained, firstError, pc, outcome>>

\* The collector before anything arrived.
NoResult == [columns |-> <<>>, rows |-> <<>>, tag |-> Null, affected |-> Null]

-----------------------------------------------------------------------------
(* QueryResult::validate.                                                  *)

Sum(lengths) ==
  LET total[n \in 0..Len(lengths)] == IF n = 0 THEN 0 ELSE total[n - 1] + lengths[n]
  IN  total[Len(lengths)]

\* A JSON array: brackets, and commas between its elements.
Array(lengths) == 2 + Sum(lengths) + (IF lengths = <<>> THEN 0 ELSE Len(lengths) - 1)

\* A tag that is not there is empty.
EncodedTag(tag) == IF tag = Null THEN 2 ELSE Encoded[tag]

Bytes(r) ==
  LET column(name) == ColumnKeys + Encoded[name]
      row(cells) == Array([i \in DOMAIN cells |-> Encoded[cells[i]]])
  IN  Encoded[r.affected] + EncodedTag(r.tag)
        + Array([i \in DOMAIN r.columns |-> column(r.columns[i])])
        + Array([i \in DOMAIN r.rows |-> row(r.rows[i])])

\* No limit on bytes is so low that the empty result exceeds it (config.rs:39).
ASSUME ByteLimitAssumption == \A n \in ByteLimits : Bytes(NoResult) <= n

CellsFit(cells) == \A cell \in ToSet(cells) : cell = Null \/ Raw[cell] <= limits.cell

Fits(r) ==
  /\ Len(r.columns) <= limits.columns
  /\ Len(r.rows) <= limits.rows
  /\ CellsFit(r.columns \o <<r.tag, r.affected>>)
  /\ \A row \in ToSet(r.rows) : Len(row) = Len(r.columns) /\ CellsFit(row)
  /\ Bytes(r) <= limits.bytes

-----------------------------------------------------------------------------
(* ResultCollector: what is kept, and the error that stopped it.           *)

Arrived == [kept |-> retained, error |-> "none"]
Refuse(step, error) == [step EXCEPT !.error = error]

\* Mutant: a candidate that does not fit stays.
KeepAnyway(step, candidate) ==
  [kept |-> candidate, error |-> IF Fits(candidate) THEN "none" ELSE "limit"]

\* A candidate stays if it fits with all that is there (ensure_candidate_fits).
Keep(step, candidate) ==
  IF Fits(candidate) THEN [step EXCEPT !.kept = candidate] ELSE Refuse(step, "limit")

\* Mutant: one row too early.
AddRowBelowLimit(step, row) ==
  CASE step.error # "none" -> step
    [] step.error = "none" /\ Len(step.kept.rows) + 1 >= limits.rows -> Refuse(step, "limit")
    [] OTHER -> Keep(step, [step.kept EXCEPT !.rows = Append(@, row)])

AddRow(step, row) ==
  IF step.error # "none" THEN step
  ELSE Keep(step, [step.kept EXCEPT !.rows = Append(@, row)])

\* Columns are kept one by one, up to the first that does not fit.
AddColumns(step) ==
  LET first(n) == [step.kept EXCEPT !.columns = SubSeq(whole.columns, 1, n)]
      fitting == {n \in 0..Len(whole.columns) : \A m \in 1..n : Fits(first(m))}
      kept == CHOOSE n \in fitting : n + 1 \notin fitting
  IN  [kept |-> first(kept), error |-> IF kept = Len(whole.columns) THEN "none" ELSE "limit"]

\* The columns are taken from the first result that has any; the others have to
\* have as many.
Columns(step) ==
  LET fields == Len(whole.columns)
      kept == Len(step.kept.columns)
  IN  CASE fields > limits.columns -> Refuse(step, "limit")
        [] fields <= limits.columns /\ kept = 0 -> AddColumns(step)
        [] fields <= limits.columns /\ kept \notin {0, fields} -> Refuse(step, "shape")
        [] fields <= limits.columns /\ kept = fields /\ kept # 0 -> step

\* consume_command: the tag first, with the count still null.
AddCommand(step) ==
  LET tagged == Keep(step, [step.kept EXCEPT !.tag = whole.tag])
  IN  IF step.error # "none" THEN step
      ELSE IF tagged.error # "none" \/ whole.affected = Null THEN tagged
      ELSE Keep(tagged, [tagged.kept EXCEPT !.affected = whole.affected])

-----------------------------------------------------------------------------
(* collect_results.                                                        *)

Init ==
  /\ limits \in Limits
  /\ whole \in Results
  /\ sent = 0
  /\ retained = NoResult
  /\ firstError = "none"
  /\ pc = "rows"
  /\ outcome = "none"

\* Mutant: an overflow only stops what is kept.
TakeSilently(step) ==
  /\ retained' = step.kept
  /\ firstError' = firstError

\* Mutant: the last error stands.
TakeLastError(step) ==
  /\ retained' = step.kept
  /\ firstError' = IF step.error = "none" THEN firstError ELSE step.error

\* The first error stands; results are consumed to the end nevertheless.
Take(step) ==
  /\ retained' = step.kept
  /\ firstError' = IF firstError = "none" THEN step.error ELSE firstError

\* PGRES_SINGLE_TUPLE
SingleTuple ==
  /\ pc = "rows"
  /\ sent < Len(whole.rows)
  /\ sent' = sent + 1
  /\ Take(AddRow(Columns(Arrived), whole.rows[sent + 1]))
  /\ UNCHANGED <<limits, whole, pc, outcome>>

\* PGRES_TUPLES_OK, which has the columns but no row, or PGRES_COMMAND_OK.
Completed ==
  /\ pc = "rows"
  /\ sent = Len(whole.rows)
  /\ Take(AddCommand(Columns(Arrived)))
  /\ pc' = "drained"
  /\ UNCHANGED <<limits, whole, sent, outcome>>

\* The statement fails, perhaps after some rows.
StatementFails ==
  /\ pc = "rows"
  /\ Take(Refuse(Arrived, "database"))
  /\ pc' = "drained"
  /\ UNCHANGED <<limits, whole, sent, outcome>>

\* Stop, cancellation or the deadline: a cancel goes out, and what still comes is
\* consumed.
Interrupt ==
  /\ pc = "rows"
  /\ firstError = "none"
  /\ firstError' = "interrupted"
  /\ UNCHANGED <<limits, whole, sent, retained, pc, outcome>>

Return(result) ==
  /\ outcome' = result
  /\ pc' = "returned"
  /\ UNCHANGED <<limits, whole, sent, retained, firstError>>

\* The final NULL.
Finish == pc = "drained" /\ Return(IF firstError = "none" THEN "ok" ELSE firstError)

\* Mutant: there is always a first error.
LoseWithFirstError == pc = "rows" /\ Return(firstError)

\* The connection is lost, which is the error unless there was one before it and
\* the wait for the socket noticed.
Lose ==
  /\ pc = "rows"
  /\ \E error \in {"lost", firstError} \ {"none"} : Return(error)

Next ==
  SingleTuple \/ Completed \/ StatementFails \/ Interrupt \/ Finish \/ Lose

Spec == Init /\ [][Next]_vars

-----------------------------------------------------------------------------
(* Properties.                                                             *)

TypeOK ==
  /\ limits \in Limits
  /\ whole \in Results
  /\ sent \in 0..Len(whole.rows)
  /\ ToSet(retained.columns) \subseteq Text
  /\ \A row \in ToSet(retained.rows) : ToSet(row) \subseteq Cell
  /\ retained.tag \in Cell /\ retained.affected \in Cell
  /\ firstError \in {"none", "limit", "shape", "database", "interrupted"}
  /\ pc \in {"rows", "drained", "returned"}
  /\ outcome \in {"none", "ok", "limit", "shape", "database", "interrupted", "lost"}
  /\ outcome = "none" <=> pc # "returned"

\* At no time is more retained than a result may have, even while the rest of an
\* overflowing one is drained (DESIGN.md:45); so the check of the worker on the
\* finished result (worker.rs:1243) never refuses one.
RetainedFits == Fits(retained)

\* "No partial result is returned" (DESIGN.md:45): a row that was refused, a
\* column that did not fit, or an error after some rows leaves no success.
OnlyWholeResults == outcome = "ok" => retained = whole

\* A result that overflows is reported as such, not by an error that the columns
\* or rows left out of it cause further on (get_or_insert in collect_results).
OverflowIsNamed == outcome # "shape" /\ (outcome = "ok" => Fits(whole))

\* A result is refused only if it is too large, but for one byte: it is also
\* checked with its tag and no count yet, and null takes more than one digit.
RefusedResultsOverflow ==
  outcome = "limit" => ~Fits(whole) \/ ~Fits([whole EXCEPT !.affected = Null])

=============================================================================
