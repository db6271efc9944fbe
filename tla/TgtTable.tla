------------------------------ MODULE TgtTable ------------------------------
(***************************************************************************)
(* The sqlite table TGT of UniqueAuthDatabase (uniqueAuthDatabase.cpp): a  *)
(* sequence of rows in ID order.  A select without ORDER BY walks the rows *)
(* in that order and calls TGTCallback once per row; every call overwrites *)
(* the result, so the last matching row wins.  An empty TGT is NoTgt, and  *)
(* a result that is empty counts as "no ticket".                           *)
(*                                                                         *)
(* The values go into the SQL text as they came.  The operators assume     *)
(* that none holds a quote and that the text fits into BUFSIZ; a text that *)
(* is cut there is a statement that fails, a fault of SsoSession.          *)
(***************************************************************************)
EXTENDS Integers, Sequences

NoTgt == 0      \* the empty string; tickets themselves are positive numbers

Row(App, Mark, Tgt) == [app : App, mark : Mark, tgt : Tgt]

\* The row that the last call of TGTCallback saw (no element, or one).
Newest(ids) == {i \in ids : \A j \in ids : j <= i}

\* What a select over the rows "ids" leaves in strTGT.
Selected(rows, ids) ==
    IF ids = {} THEN {NoTgt} ELSE {rows[i].tgt : i \in Newest(ids)}

\* Mutants of QueryLocalTGT: the application is not compared; nothing is found.
QueryByMark(rows, app, mark) ==
    Selected(rows, {i \in DOMAIN rows : rows[i].mark = mark})

QueryNothing(rows, app, mark) == {NoTgt}

\* SELECT TGTDATA from TGT WHERE APPSIGN=... AND SECMARK=...  The user that
\* asks is not part of the key.
QueryLocalTGT(rows, app, mark) ==
    Selected(rows, {i \in DOMAIN rows : rows[i].app = app /\ rows[i].mark = mark})

\* SELECT TGTDATA from TGT: every row of every application.
GetLocalTGT(rows) == Selected(rows, DOMAIN rows)

\* Mutant of InsertTGT: the two columns of the key are swapped.
InsertSwapped(rows, app, mark, tgt) ==
    Append(rows, [app |-> mark, mark |-> app, tgt |-> tgt])

InsertTGT(rows, app, mark, tgt) ==
    Append(rows, [app |-> app, mark |-> mark, tgt |-> tgt])

\* DELETE FROM TGT: no WHERE clause.
DeleteTGT(rows) == << >>
=============================================================================
