------------------------------- MODULE MCI2cQup -------------------------------
(* The callers' transfers, a register address and then a read or a write,  *)
(* and the other arrays of up to two messages whose packing differs.       *)
EXTENDS I2cQup

Message(addr, rd, len) == [addr |-> addr, rd |-> rd, len |-> len]

Write(n) == Message(1, FALSE, n)
Single == {<<Write(9)>>, <<Message(1, TRUE, 5)>>}
WriteRead == {<<Write(n), Message(1, TRUE, 5)>> : n \in {1, 2}} \cup
             {<<Write(n), Message(1, TRUE, 2)>> : n \in {6, 7, 8}} \cup
             {<<Write(n), Message(2, TRUE, 2)>> : n \in {1, 4}}
WriteWrite == {<<Write(1), Write(n)>> : n \in {1, 6}} \cup
              {<<Write(2), Write(6)>>, <<Write(2), Message(2, FALSE, 2)>>}
ReadFirst == {<<Message(1, TRUE, 2), Write(2)>>}

MCTransfers == Single \cup WriteRead \cup WriteWrite \cup ReadFirst
==============================================================================
