---------------------------- MODULE MCConnection ----------------------------
(* An instance of Connection: the user only receives from the AMDispatcher *)
(* (as examples/amlistener.rs does) and holds both ends of the RawDispatcher.*)
EXTENDS Connection
CONSTANTS am1, raw1
MCHeld == {<<am1, "rx">>, <<raw1, "rx">>, <<raw1, "tx">>}
=============================================================================
