----------------------------- MODULE LockedBuffer ------------------------------
(***************************************************************************)
(* What the secondary transmitter promises of the packets it is            *)
(* responsible for, without queues, slots, stamps or retries.  Packets     *)
(* enter one by one and leave one by one when they are confirmed.  An      *)
(* alarm locks the buffer: from then on nothing enters and nothing leaves  *)
(* until each packet has been settled, by a confirmation or by giving it   *)
(* up, and with the last one the whole buffer is emptied at once.          *)
(***************************************************************************)
EXTENDS Naturals

VARIABLES
  accepted,     \* number of packets that ever entered
  outstanding,  \* the packets in the buffer
  locked,       \* TRUE between an alarm and the last settlement
  open          \* the packets of a locked buffer not yet settled

bufferVars == <<accepted, outstanding, locked, open>>

Init ==
  /\ accepted = 0
  /\ outstanding = {}
  /\ locked = FALSE
  /\ open = {}

Accept ==
  /\ ~locked
  /\ accepted' = accepted + 1
  /\ outstanding' = outstanding \cup {accepted + 1}
  /\ UNCHANGED <<locked, open>>

Confirm(p) ==
  /\ ~locked
  /\ p \in outstanding
  /\ outstanding' = outstanding \ {p}
  /\ UNCHANGED <<accepted, locked, open>>

Lock ==
  /\ ~locked
  /\ outstanding # {}
  /\ locked' = TRUE
  /\ open' = outstanding
  /\ UNCHANGED <<accepted, outstanding>>

Settle(p) ==
  /\ locked
  /\ p \in open /\ open # {p}
  /\ open' = open \ {p}
  /\ UNCHANGED <<accepted, outstanding, locked>>

SettleLast(p) ==
  /\ locked
  /\ open = {p}
  /\ open' = {}
  /\ outstanding' = {}
  /\ locked' = FALSE
  /\ UNCHANGED accepted

Next ==
  \/ Accept
  \/ Lock
  \/ \E p \in outstanding : Confirm(p) \/ Settle(p) \/ SettleLast(p)

Spec == Init /\ [][Next]_bufferVars

================================================================================
