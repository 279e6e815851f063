---------------------------- MODULE ChangeStream ----------------------------
(* What the control plane is promised about desired-state changes: the     *)
(* cluster takes them one at a time in the order the broker accepted them, *)
(* and a change is over only when the cluster holds what it asks for, when *)
(* the platform was told that it cannot, or when all that waited was lost  *)
(* with the queue.  Deployment implements it.                              *)
EXTENDS Naturals, Sequences

CONSTANTS Changes   \* what the broker carries: at least an id and the spec asked for

VARIABLES
    waiting,  \* accepted changes that are not over, oldest first
    served,   \* what the cluster runs
    rejected, \* changes the platform was told have failed
    lost      \* changes that went with the queue

svars == <<waiting, served, rejected, lost>>

Init ==
    /\ waiting = <<>>
    /\ served \in {e.spec : e \in Changes}
    /\ rejected = {}
    /\ lost = {}

Ids(s) == {s[i].id : i \in 1 .. Len(s)}

\* A change is accepted once: never again after it failed or was lost.
Accept(e) ==
    /\ e.id \notin Ids(waiting) \cup rejected \cup lost
    /\ waiting' = Append(waiting, e)
    /\ UNCHANGED <<served, rejected, lost>>

Serve ==
    /\ waiting # <<>>
    /\ served' = waiting[1].spec
    /\ UNCHANGED <<waiting, rejected, lost>>

\* It is over, and the platform knows.
Reject ==
    /\ waiting # <<>>
    /\ rejected' = rejected \cup {waiting[1].id}
    /\ waiting' = Tail(waiting)
    /\ UNCHANGED <<served, lost>>

Finish ==
    /\ waiting # <<>>
    /\ served = waiting[1].spec
    /\ waiting' = Tail(waiting)
    /\ UNCHANGED <<served, rejected, lost>>

\* A delete leaves nothing to watch: it is served and over in one step.
ServeAndFinish ==
    /\ waiting # <<>>
    /\ served' = waiting[1].spec
    /\ waiting' = Tail(waiting)
    /\ UNCHANGED <<rejected, lost>>

\* The queue is not durable: all that waits goes with it, and only so is a
\* change over that was neither served nor rejected.
Lose ==
    /\ waiting # <<>>
    /\ lost' = lost \cup Ids(waiting)
    /\ waiting' = <<>>
    /\ UNCHANGED <<served, rejected>>

Next ==
    \/ \E e \in Changes : Accept(e)
    \/ Serve
    \/ Reject
    \/ Finish
    \/ ServeAndFinish
    \/ Lose

Spec == Init /\ [][Next]_svars
=============================================================================
