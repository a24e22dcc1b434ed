------------------------------ MODULE SuFeedback -------------------------------
(***************************************************************************)
(* The two stateless blocks of the secondary user's feedback path:         *)
(* su_ctrl (lib/su_ctrl.cc) turns what the receiver heard into a control   *)
(* message, su_tx_helper (lib/su_tx_helper.cc) turns control messages into *)
(* the dictionaries the transmitter takes.  Each is a function from a PDU  *)
(* to the messages published for it, none or one.  PDUs have the shape of  *)
(* PhyCrc!Pdu.                                                             *)
(***************************************************************************)
EXTENDS Naturals

LSASENLEN == 2
LSAMACLEN == 8

\* generate_header for LSA_SEN, the sensing pattern.
SensingPdu == [len |-> LSASENLEN, pattern |-> TRUE, qidx |-> 0, qsize |-> 0,
               base1 |-> 0, base2 |-> 0]

\* generate_header for LSA_CTRL: the base is written twice.
AckPdu(qidx, qsize, base) ==
  [len |-> LSAMACLEN, pattern |-> FALSE, qidx |-> qidx, qsize |-> qsize,
   base1 |-> base, base2 |-> base]

\* su_ctrl: a sensing report is passed on, a packet is acknowledged under its
\* first base; control messages and anything shorter end here.
SuCtrl(m) ==
  IF m.len = LSASENLEN THEN {SensingPdu}
  ELSE IF m.len > LSAMACLEN THEN {AckPdu(m.qidx, m.qsize, m.base1)}
  ELSE {}

SensingDict == [sensing |-> TRUE, qidx |-> 0, qsize |-> 0, base |-> 0]

AckDict(m) == [sensing |-> FALSE, qidx |-> m.qidx, qsize |-> m.qsize,
               base |-> m.base1]

\* su_tx_helper: only messages of the two control lengths go through, an
\* acknowledgement only with equal bases and an index that is 0 or inside the
\* size it comes with.
SuTxHelper(m) ==
  IF m.len = LSASENLEN THEN {SensingDict}
  ELSE IF /\ m.len = LSAMACLEN
          /\ m.qidx = 0 \/ m.qidx < m.qsize
          /\ m.base1 = m.base2
       THEN {AckDict(m)}
  ELSE {}

================================================================================
