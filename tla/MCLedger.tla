------------------------------ MODULE MCLedger ------------------------------
(* Small instances of Ledger.                                              *)
EXTENDS Ledger

(* Two funding or order events, the second also delivered by EventBridge   *)
(* as a message of its own.                                                *)
EventMessages == {"m1", "m2", "m3"}
EventEntries == {"e1", "e2"}
EventEntriesOf ==
  [m1 |-> <<"e1">>, m2 |-> <<"e2">>, m3 |-> <<"e2">>]
EventSkOrder == [e1 |-> 2, e2 |-> 1]

(* One decision packet with two proposed trades, a simulated stream.       *)
PacketMessages == {"m1"}
PacketEntriesOf == [m1 |-> <<"e1", "e2">>]
PacketSkOrder == [e1 |-> 1, e2 |-> 2]

=============================================================================
