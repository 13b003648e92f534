----------------------------- MODULE PacketPipe -----------------------------
(***************************************************************************)
(* What a FIFO of the shared-memory channel promises: packets come out     *)
(* whole, once, and in the order they were put in.  SmdReceive implements  *)
(* it with a ring of words and two indices.                                *)
(***************************************************************************)
EXTENDS Naturals, Sequences

CONSTANT Packets   \* the packets a writer may put

VARIABLES
  pipe,  \* the packets put and not yet taken, oldest first
  taken  \* the packet taken last; <<>> before the first

pipeVars == <<pipe, taken>>

Init == pipe = <<>> /\ taken = <<>>

Put ==
  \E p \in Packets : pipe' = Append(pipe, p) /\ UNCHANGED taken

Take ==
  /\ pipe # <<>>
  /\ taken' = Head(pipe)
  /\ pipe' = Tail(pipe)

Spec == Init /\ [][Put \/ Take]_pipeVars
=============================================================================
