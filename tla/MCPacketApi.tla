---------------------------- MODULE MCPacketApi ----------------------------
(* Instances of PacketApi for TLC: two types, two extended settings.      *)
EXTENDS PacketApi
MCTypes == {0, 1}
MCOptions == {"bandwidth", "nic"}
=============================================================================
