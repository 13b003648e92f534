--------------------------- MODULE DropOldestQueue ---------------------------
(***************************************************************************)
(* What a key queue promises to its readers: the last Capacity keys that   *)
(* were pushed and not yet read, in the order they were typed.             *)
(***************************************************************************)
EXTENDS Naturals, Sequences

CONSTANTS
  Key,      \* what can be typed
  Capacity, \* keys it keeps
  NoKey     \* not a key

VARIABLES
  queue,  \* the pending keys, oldest first
  read,   \* the key handed out last; NoKey before the first and after a
          \* read that found the queue empty
  call    \* the operation called last, and the key it was given
queueVars == <<queue, read, call>>

Call(op, k) == [op |-> op, key |-> k]

Init == queue = <<>> /\ read = NoKey /\ call = Call("none", NoKey)

Push ==
  \E k \in Key :
    /\ queue' = Append(IF Len(queue) = Capacity THEN Tail(queue) ELSE queue, k)
    /\ call' = Call("push", k)
    /\ UNCHANGED read

Pop ==
  /\ \/ queue # <<>> /\ read' = Head(queue) /\ queue' = Tail(queue)
     \/ queue = <<>> /\ read' = NoKey /\ UNCHANGED queue
  /\ call' = Call("pop", NoKey)

Clear ==
  /\ queue' = <<>>
  /\ call' = Call("clear", NoKey)
  /\ UNCHANGED read

Next == Push \/ Pop \/ Clear
Spec == Init /\ [][Next]_queueVars
=============================================================================
