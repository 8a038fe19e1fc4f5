------------------------------ MODULE MCHostIf ------------------------------
(* A small NIC: one context per ring, two for the rings whose contexts     *)
(* compete.                                                                *)
EXTENDS HostIf

MCRingOf ==
  [c \in Ctx |-> CASE c = 1 -> "rx" [] c = 2 -> "rx_excep" [] c = 3 -> "arx"
                   [] c = 4 -> "atx" [] c = 5 -> "tx" [] c = 6 -> "tx_excep"
                   [] c = 7 -> "rx" [] c = 8 -> "atx"]

(* Received segments; a segment and a bump, whose null descriptor shares   *)
(* the arx DMA with the notification; sent segments; bumps that wrap       *)
(* around the transmit queue.                                              *)
MCTraffic ==
  {[rx |-> 2, tx |-> 0, bump |-> 0], [rx |-> 1, tx |-> 0, bump |-> 1],
   [rx |-> 0, tx |-> 3, bump |-> 0], [rx |-> 0, tx |-> 0, bump |-> 4]}
=============================================================================
