----------------------------- MODULE MCIap2Link -----------------------------
EXTENDS Iap2Link

(* What phones send, smaller: a window of two packets.                     *)
TwoLsp == [max_outgoing |-> 2, max_retransmissions |-> 3, max_ack |-> 2]
=============================================================================
