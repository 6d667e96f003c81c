----------------------------- MODULE SessionRow -----------------------------
(***************************************************************************)
(* What a row of the sessions table may go through: it is created open, it *)
(* ends at most once, it is closed only after its replay has been          *)
(* published, and a row that failed has no published replay.               *)
(***************************************************************************)
VARIABLES
    status,    \* none (no row yet), open, closed or failed
    published  \* the .cast file is in place under its final name

rowVars == <<status, published>>

RowInit == status = "none" /\ published = FALSE

Create == status = "none" /\ status' = "open" /\ UNCHANGED published

Publish == status = "open" /\ ~published /\ published' = TRUE /\ UNCHANGED status

Close == status = "open" /\ published /\ status' = "closed" /\ UNCHANGED published

Fail == status = "open" /\ ~published /\ status' = "failed" /\ UNCHANGED published

RowNext == Create \/ Publish \/ Close \/ Fail

RowSpec == RowInit /\ [][RowNext]_rowVars
=============================================================================
