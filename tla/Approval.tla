------------------------------ MODULE Approval ------------------------------
(***************************************************************************)
(* What the confirmation path promises of one proposed write operation:    *)
(* it waits for a decision, is claimed by one approval, and runs at most   *)
(* once; whatever is dropped (refused, expired, replaced, blocked or lost  *)
(* in a crash) never runs.                                                 *)
(***************************************************************************)
CONSTANT Op

VARIABLE status

States == {"unseen", "pending", "claimed", "executed", "dropped"}

Init == status = [o \in Op |-> "unseen"]

Set(ops, value) == [o \in Op |-> IF o \in ops THEN value ELSE status[o]]
Undecided == {o \in Op : status[o] \in {"pending", "claimed"}}

\* A proposal may replace one that waits under the same event id.
Propose(o, replaced) ==
    /\ status[o] = "unseen"
    /\ \A r \in replaced : status[r] = "pending"
    /\ status' = [Set(replaced, "dropped") EXCEPT ![o] = "pending"]

Claim(o) == status[o] = "pending" /\ status' = Set({o}, "claimed")

Execute(o) == status[o] = "claimed" /\ status' = Set({o}, "executed")

Drop(ops) == ops \subseteq Undecided /\ status' = Set(ops, "dropped")

Next ==
    \/ \E o \in Op, replaced \in SUBSET Op : Propose(o, replaced)
    \/ \E o \in Op : Claim(o)
    \/ \E o \in Op : Execute(o)
    \/ \E ops \in SUBSET Op : Drop(ops)

Spec == Init /\ [][Next]_status

=============================================================================
