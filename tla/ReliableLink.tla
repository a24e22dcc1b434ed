---------------------------- MODULE ReliableLink -----------------------------
(***************************************************************************)
(* What a link with acknowledgements promises, without packets, numbers,   *)
(* time-outs or repetitions.  The sender hands lines to the channel, the   *)
(* receiver takes those it was sent, and the sender believes a line to be  *)
(* delivered only when the receiver has it; it then believes so for good.  *)
(***************************************************************************)
CONSTANT Lines

VARIABLES
    sent,      \* the lines handed to the channel
    received,  \* those the receiver has acknowledged
    confirmed  \* those the sender counts as delivered

linkVars == <<sent, received, confirmed>>

Init == sent = {} /\ received = {} /\ confirmed = {}

Send(n) ==
    /\ n \notin sent
    /\ sent' = sent \union {n}
    /\ UNCHANGED <<received, confirmed>>

Receive(n) ==
    /\ n \in sent \ received
    /\ received' = received \union {n}
    /\ UNCHANGED <<sent, confirmed>>

Confirm(n) ==
    /\ n \in received \ confirmed
    /\ confirmed' = confirmed \union {n}
    /\ UNCHANGED <<sent, received>>

Next == \E n \in Lines : Send(n) \/ Receive(n) \/ Confirm(n)

Spec == Init /\ [][Next]_linkVars
=============================================================================
