----------------------------- MODULE RowStream -----------------------------
(***************************************************************************)
(* What a row reader promises its dataset: the rows of its source, 0, 1,  *)
(* .., source - 1, handed out in order and whole, one or more per call;    *)
(* then the end of the data, reported only once every row was handed out; *)
(* or a failure, after which nothing more is handed out.  A reader that    *)
(* keeps being asked for rows eventually reports the end or fails.         *)
(***************************************************************************)
EXTENDS Integers, Sequences

VARIABLES
  source,  \* number of rows the source holds
  rows,    \* the rows handed out so far, in order
  state    \* "open", "end" or "failed"

vars == <<source, rows, state>>

\* Opening the source may already fail
Init ==
  /\ source \in Nat
  /\ rows = <<>>
  /\ state \in {"open", "failed"}

\* One call hands out the next k rows
Hand ==
  /\ state = "open"
  /\ \E k \in 1 .. source - Len(rows) :
       rows' = rows \o [j \in 1 .. k |-> Len(rows) + j - 1]
  /\ UNCHANGED <<source, state>>

\* The end of the data, once every row is out
End ==
  /\ state = "open"
  /\ Len(rows) = source
  /\ state' = "end"
  /\ UNCHANGED <<source, rows>>

Fail ==
  /\ state = "open"
  /\ state' = "failed"
  /\ UNCHANGED <<source, rows>>

Next == Hand \/ End \/ Fail

Spec == Init /\ [][Next]_vars /\ WF_vars(Hand \/ End)

====
