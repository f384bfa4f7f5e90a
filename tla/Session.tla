------------------------------ MODULE Session -------------------------------
(***************************************************************************)
(* What a connection promises the two applications that share it: each end *)
(* opens at most once and closes at most once, and while it is open it is  *)
(* given the chat messages of the other end in the order in which they     *)
(* were submitted, none twice and none left out but those too long to be   *)
(* sent at all.  Messages under way when the connection ends may be lost.  *)
(***************************************************************************)
EXTENDS Integers, Sequences

Ends == {"client", "server"}

Other(e) == IF e = "client" THEN "server" ELSE "client"

Sizes == {"fits", "too long"}

VARIABLES
    state,      \* of each end: "new", "open" or "closed"
    submitted,  \* the sizes of the messages submitted at each end
    delivered   \* the positions in submitted[Other(e)] of those given to e

vars == <<state, submitted, delivered>>

Init ==
    /\ state = [e \in Ends |-> "new"]
    /\ submitted = [e \in Ends |-> << >>]
    /\ delivered = [e \in Ends |-> << >>]

Open(e) ==
    /\ state[e] = "new"
    /\ state' = [state EXCEPT ![e] = "open"]
    /\ UNCHANGED <<submitted, delivered>>

Close(e) ==
    /\ state[e] # "closed"
    /\ state' = [state EXCEPT ![e] = "closed"]
    /\ UNCHANGED <<submitted, delivered>>

Submit(e, size) ==
    /\ state[e] = "open"
    /\ submitted' = [submitted EXCEPT ![e] = Append(@, size)]
    /\ UNCHANGED <<state, delivered>>

\* The position of the last message given to e, 0 before the first.
LastDelivered(e) ==
    IF delivered[e] = << >> THEN 0 ELSE delivered[e][Len(delivered[e])]

Deliver(e, n) ==
    /\ state[e] = "open"
    /\ n \in DOMAIN submitted[Other(e)]
    /\ n > LastDelivered(e)
    /\ submitted[Other(e)][n] = "fits"
    /\ \A m \in LastDelivered(e) + 1 .. n - 1 :
        submitted[Other(e)][m] = "too long"
    /\ delivered' = [delivered EXCEPT ![e] = Append(@, n)]
    /\ UNCHANGED <<state, submitted>>

Next ==
    \E e \in Ends :
        \/ Open(e)
        \/ Close(e)
        \/ \E size \in Sizes : Submit(e, size)
        \/ \E n \in DOMAIN submitted[Other(e)] : Deliver(e, n)

Spec == Init /\ [][Next]_vars
=============================================================================
