----------------------------- MODULE AtomicStore -----------------------------
(* What RunpodControlStore.mutate promises its callers: each transaction     *)
(* takes effect at once, on the state all earlier ones left, or not at all.  *)
CONSTANT Txn

VARIABLE state   \* the transactions whose effect the state holds

Init == state = {}
Commit(t) == t \notin state /\ state' = state \cup {t}
Next == \E t \in Txn : Commit(t)
Spec == Init /\ [][Next]_state
==============================================================================
