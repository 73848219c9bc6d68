----------------------------- MODULE MCExchange -----------------------------
(* Payloads of one byte, of exactly the limit, and beyond it.              *)
EXTENDS Exchange

MCSizes == {1, MAX_MESSAGE_SIZE, MAX_MESSAGE_SIZE + 1}

=============================================================================
