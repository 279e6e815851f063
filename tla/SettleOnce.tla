----------------------------- MODULE SettleOnce -----------------------------
(* What settlement by the hour promises, in metering (vouchers into usage  *)
(* records) and again in billing (usage lines into charges): a group of    *)
(* items is closed after its hour, sealed once with a sum that has every   *)
(* item offered before the closing, and never summed again.  Items that    *)
(* come later may still be in the sum; those that are not are retired      *)
(* without being counted anywhere.  Metering and Charging implement it.    *)
CONSTANTS
    Items,    \* what is summed: requests
    Groups    \* what a sum is of: hours of a key, groups of an hour

VARIABLES
    closed,   \* groups whose hour and grace period are over
    prompt,   \* prompt[g]: items offered before g was closed, not retired
    late,     \* late[g]: items offered after g was closed, not retired
    sealed,   \* groups with a sum
    sums      \* sums[g]: the items of g's sum

svars == <<closed, prompt, late, sealed, sums>>

Nothing == [g \in Groups |-> {}]

Init ==
    /\ closed = {}
    /\ prompt = Nothing
    /\ late = Nothing
    /\ sealed = {}
    /\ sums = Nothing

Close(gs) ==
    /\ closed' = closed \cup gs
    /\ UNCHANGED <<prompt, late, sealed, sums>>

\* An item belongs to one group, whether it waits there or was summed there.
\* It may be offered to that group again.
BelongsTo(i, g) ==
    \A h \in Groups : i \in prompt[h] \cup late[h] \cup sums[h] => h = g

Offer(i, g) ==
    /\ BelongsTo(i, g)
    /\ IF g \in closed
       THEN late' = [late EXCEPT ![g] = @ \cup {i}] /\ UNCHANGED prompt
       ELSE prompt' = [prompt EXCEPT ![g] = @ \cup {i}] /\ UNCHANGED late
    /\ UNCHANGED <<closed, sealed, sums>>

\* The sum is of items that wait: of all the prompt ones and of any late ones.
\* Every item that waits is retired with it.
Seal(g) ==
    /\ g \in closed \ sealed
    /\ \E S \in SUBSET late[g] :
         /\ prompt[g] \cup S # {}
         /\ sums' = [sums EXCEPT ![g] = prompt[g] \cup S]
    /\ sealed' = sealed \cup {g}
    /\ prompt' = [prompt EXCEPT ![g] = {}]
    /\ late' = [late EXCEPT ![g] = {}]
    /\ UNCHANGED closed

\* What comes after the sum is retired uncounted; nothing prompt is.
Retire(g) ==
    /\ g \in sealed
    /\ late' = [late EXCEPT ![g] = {}]
    /\ UNCHANGED <<closed, prompt, sealed, sums>>

Next ==
    \/ \E gs \in SUBSET Groups : Close(gs)
    \/ \E g \in Groups :
         \/ \E i \in Items : Offer(i, g)
         \/ Seal(g)
         \/ Retire(g)

Spec == Init /\ [][Next]_svars

\* No item is in the sums of two groups.
CountedOnce ==
    \A g, h \in Groups : g # h => sums[g] \cap sums[h] = {}
=============================================================================
