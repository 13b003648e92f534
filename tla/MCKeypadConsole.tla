--------------------------- MODULE MCKeypadConsole ---------------------------
(* A small instance of KeypadConsole: a key with a shift state and one     *)
(* partial keystroke are typed; two clients register one function for that *)
(* key with any shift state and with the one typed.  Registered in one     *)
(* order the first registration covers the second; in the other both match *)
(* and the key is queued twice.                                            *)
EXTENDS KeypadConsole

MCKeyData == [code : {"up", "null"}, shift : {0, 1}]
MCUp == [code |-> "up", shift |-> 0]
MCUpShift == [code |-> "up", shift |-> 1]
MCInputs == {MCUpShift, [code |-> "null", shift |-> 0]}
MCCovering == {MCUp, MCUpShift}
=============================================================================
