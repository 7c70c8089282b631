----------------------------- MODULE StepArguments -----------------------------
(***************************************************************************)
(* The data table or doc string of a step: what user code is given of it   *)
(* (src/src/step_arguments.ts, models/data_table.ts) and what reports tell *)
(* (formatter/helpers/step_argument_formatter.ts, json_formatter.ts).      *)
(*                                                                         *)
(* The argument of a pickle step is a sequence of one or none.  A table is *)
(* of rows of cells, and a cell a sequence of characters.                  *)
(***************************************************************************)
EXTENDS Naturals, SequencesExt

Backslash == "\\"

Newline == "\n"

(* A row of an object by its keys; the last of equal keys counts.          *)
HashOf(keys, values) ==
    [key \in ToSet(keys) |-> values[Max({i \in DOMAIN keys : keys[i] = key})]]

Raw(table) == table.rows

DataRows(table) == Tail(table.rows)

Hashes(table) ==
    LET values == DataRows(table)
    IN [i \in DOMAIN values |-> HashOf(Head(table.rows), values[i])]

Column(table, i) == [j \in DOMAIN table.rows |-> table.rows[j][i]]

(* It throws, here giving nothing, if a row has not two columns.           *)
RowsHash(table) ==
    IF \E row \in ToSet(table.rows) : Len(row) # 2 THEN <<>>
    ELSE <<HashOf(Column(table, 1), Column(table, 2))>>

Transpose(table) ==
    [table EXCEPT !.rows = [i \in DOMAIN Head(table.rows) |-> Column(table, i)]]

-----------------------------------------------------------------------------
(* Backslashes are doubled, and then newlines written with one.            *)
\* Wrong variant: the other way round.
EscapeCell_NewlinesFirst(cell) ==
    FlattenSeq([i \in DOMAIN cell |->
        CASE cell[i] = Backslash -> <<Backslash, Backslash>>
          [] cell[i] = Newline -> <<Backslash, Backslash, "n">>
          [] OTHER -> <<cell[i]>>])

EscapeCell(cell) ==
    FlattenSeq([i \in DOMAIN cell |->
        CASE cell[i] = Backslash -> <<Backslash, Backslash>>
          [] cell[i] = Newline -> <<Backslash, "n">>
          [] OTHER -> <<cell[i]>>])

FormatDataTable(table) ==
    [i \in DOMAIN table.rows |->
        [j \in DOMAIN table.rows[i] |-> EscapeCell(table.rows[i][j])]]

(* What an issue prints of the argument of a step.                         *)
FormatStepArgument(argument) ==
    [i \in DOMAIN argument |->
        IF argument[i].kind = "dataTable" THEN FormatDataTable(argument[i]) ELSE <<argument[i].content>>]

(* What the JSON report says of it; a doc string is at its line.           *)
FormatStepArgumentJson(argument, gherkinStep) ==
    [i \in DOMAIN argument |->
        IF argument[i].kind = "dataTable" THEN [rows |-> Raw(argument[i])]
        ELSE [content |-> argument[i].content, line |-> gherkinStep.argument[1].line]]
=============================================================================
