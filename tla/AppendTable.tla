------------------------------ MODULE AppendTable ------------------------------
(***************************************************************************)
(* What a commit catalog promises of a table that is only appended to      *)
(* (docs/catalogs.md): each append call takes effect at most once, at one  *)
(* moment; nothing that took effect is taken back; and the answer of a     *)
(* call is the truth.  "failed" is the answer of a call whose exception    *)
(* tells nothing: it may have taken effect, or may yet.                    *)
(***************************************************************************)
CONSTANT Appends

VARIABLES
    table,      \* the appends that have taken effect
    outcome     \* what each append call has answered

vars == <<table, outcome>>

Init ==
    /\ table = {}
    /\ outcome = [a \in Appends |-> "none"]

Start(a) ==
    /\ outcome[a] = "none"
    /\ outcome' = [outcome EXCEPT ![a] = "pending"]
    /\ UNCHANGED table

TakeEffect(a) ==
    /\ outcome[a] \in {"pending", "failed"}
    /\ a \notin table
    /\ table' = table \cup {a}
    /\ UNCHANGED outcome

Answer(a) ==
    /\ outcome[a] = "pending"
    /\ \/ a \in table    /\ outcome' = [outcome EXCEPT ![a] = "committed"]
       \/ a \notin table /\ outcome' = [outcome EXCEPT ![a] = "conflict"]
       \/ outcome' = [outcome EXCEPT ![a] = "failed"]
    /\ UNCHANGED table

Next == \E a \in Appends : Start(a) \/ TakeEffect(a) \/ Answer(a)

Spec == Init /\ [][Next]_vars
================================================================================
