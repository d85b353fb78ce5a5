----------------------------- MODULE WiringReport -----------------------------
(***************************************************************************)
(* What a wiring run promises whoever watches it: every step of the plan is  *)
(* shown, one is running at a time, in order, and each gets one verdict that *)
(* stands.  A run without work says so in one skipped row.                   *)
(***************************************************************************)
EXTENDS Naturals, Sequences

VARIABLE rows

Finals == {"done", "skipped", "error"}

Ended == \A i \in DOMAIN rows : rows[i] \in Finals

Fresh(n) == [i \in 1 .. n |-> IF i = 1 THEN "running" ELSE "waiting"]

Init == rows = <<>>

Begin ==
  /\ Ended
  /\ \/ rows' = <<"skipped">>
     \/ Len(rows') > 0 /\ rows' = Fresh(Len(rows'))

(* A new process takes the run up from its start. *)
StartOver == ~Ended /\ rows' = Fresh(Len(rows))

Verdict ==
  \E i \in DOMAIN rows : \E v \in Finals :
    /\ rows[i] = "running"
    /\ rows' = [j \in DOMAIN rows |-> CASE j = i     -> v
                                        [] j = i + 1 -> "running"
                                        [] OTHER     -> rows[j]]

Next == Begin \/ StartOver \/ Verdict

Safety == Init /\ [][Next]_rows

Spec == Safety /\ WF_rows(Verdict)
==============================================================================
