---------------------------- MODULE MCKeypadKeys ----------------------------
(* Power and the two volume keys, in the order of KeyList.                 *)
EXTENDS KeypadKeys

MCKeyList == <<"Power", "VolumeUp", "VolumeDown">>
=============================================================================
