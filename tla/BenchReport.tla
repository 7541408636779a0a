------------------------------ MODULE BenchReport ------------------------------
(***************************************************************************)
(* The bench's table on its way to standard output (cmd/bench/report.go):  *)
(* the note and the warning above it, the context line, the rows.  Any     *)
(* write may fail, and the renderer returns the first error.  In text the  *)
(* table waits in a tabwriter until its Flush, in markdown each row is     *)
(* written at once.                                                        *)
(*                                                                         *)
(* A line is what it says and whether it is a row with denials; blank      *)
(* lines and the layout of the cells are left out.                         *)
(***************************************************************************)
EXTENDS Integers, Sequences, FiniteSets

VARIABLES
    form,   \* the flags -format and -percentiles
    phase,  \* where run is
    rows,   \* the results measured so far, a line each
    todo,   \* lines yet to be written, in order
    out     \* lines on standard output

Form == [markdown : BOOLEAN, percentiles : BOOLEAN]

Line(text) == [text |-> text, denied |-> FALSE]

(* Mutant: only the first row is looked at.                                *)
CountDeniedOfFirst(rs) == IF rs # <<>> /\ Head(rs).denied THEN 1 ELSE 0

CountDenied(rs) == Cardinality({i \in DOMAIN rs : rs[i].denied})

Preamble ==
    (IF form.percentiles THEN <<Line("note")>> ELSE <<>>)
    \o (IF CountDenied(rows) > 0 THEN <<Line("warning")>> ELSE <<>>)
    \o <<Line("context")>>

(* renderText or renderMarkdown is called with the rows.                   *)
BeginReport ==
    /\ todo'  = Preamble \o (IF form.markdown
                             THEN <<Line("header"), Line("separator")>> \o rows
                             ELSE <<>>)
    /\ phase' = "writing"
    /\ UNCHANGED <<form, rows, out>>

(* The header and the rows go through the tabwriter, which holds on to     *)
(* them until tw.Flush() sends all of them.                                *)
Flush ==
    /\ phase = "writing" /\ todo = <<>> /\ ~form.markdown
    /\ todo'  = <<Line("header")>> \o rows
    /\ phase' = "flushing"
    /\ UNCHANGED <<form, rows, out>>

Writing == phase \in {"writing", "flushing"}

(* A line reaches the output.                                              *)
Write ==
    /\ Writing /\ todo # <<>>
    /\ out'  = Append(out, Head(todo))
    /\ todo' = Tail(todo)
    /\ UNCHANGED <<form, phase, rows>>

(* Mutant: the error is dropped, and the line with it.                     *)
WriteFailsUnnoticed ==
    /\ Writing /\ todo # <<>>
    /\ todo' = Tail(todo)
    /\ UNCHANGED <<form, phase, rows, out>>

(* It does not, and the renderer returns the error.                        *)
WriteFails ==
    /\ Writing /\ todo # <<>>
    /\ phase' = "failed"
    /\ UNCHANGED <<form, rows, todo, out>>

(* The renderer returns nil.                                               *)
EndReport ==
    /\ phase = (IF form.markdown THEN "writing" ELSE "flushing")
    /\ todo = <<>>
    /\ phase' = "rendered"
    /\ UNCHANGED <<form, rows, todo, out>>

ReportInit ==
    /\ form \in Form
    /\ rows = <<>> /\ todo = <<>> /\ out = <<>>

ReportStep == Flush \/ Write \/ WriteFails \/ EndReport

--------------------------------------------------------------------------------
(* A row with denials never reaches the reader without the warning above   *)
(* it, wherever the output breaks off (report.go:34-45).                   *)
WarnedBeforeRows ==
    \A i \in DOMAIN out : out[i].denied =>
        \E j \in 1..(i - 1) : out[j] = Line("warning")

(* The whole of the table, as a reader should get it                       *)
Table ==
    Preamble \o (IF form.markdown THEN <<Line("header"), Line("separator")>> \o rows
                                  ELSE <<Line("header")>> \o rows)

(* What has been written is the beginning of the table, and run reports    *)
(* success only for all of it: the lines above it, the header and every    *)
(* row that was measured, in order (main.go:218-241, report.go:204-272).   *)
CompleteOrError ==
    /\ out = SubSeq(Table, 1, Len(out))
    /\ phase = "rendered" => out = Table
================================================================================
