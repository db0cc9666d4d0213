---------------------------- MODULE VerdictStore ----------------------------
(* What a cell's evidence directory promises the reader of its verdicts: a   *)
(* question is answered at most once.  While a pass runs answers are only     *)
(* added; an answer leaves the store only when it is moved aside between two  *)
(* passes, for a retry that is to answer it again.                            *)
CONSTANT Questions
VARIABLES answered, running

Init == answered = {} /\ running = FALSE

Begin == ~running /\ running' = TRUE /\ UNCHANGED answered

Answer ==
    /\ running
    /\ \E q \in Questions \ answered : answered' = answered \cup {q}
    /\ UNCHANGED running

End == running /\ running' = FALSE /\ UNCHANGED answered

Aside ==
    /\ ~running
    /\ \E gone \in SUBSET answered : answered' = answered \ gone
    /\ UNCHANGED running

Next == Begin \/ Answer \/ End \/ Aside

Spec == Init /\ [][Next]_<<answered, running>>
=============================================================================
