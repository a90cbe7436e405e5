--------------------------------- MODULE Fifo ---------------------------------
(***************************************************************************)
(* What a FIFO of this repository promises its users: a queue of at most   *)
(* Depth words.  A step may put a word at the back, take the word at the   *)
(* front, do both at once (two clocks may tick together) or, when the      *)
(* block is reset, drop everything.                                        *)
(***************************************************************************)
EXTENDS Naturals, Sequences

CONSTANTS Data, Depth

VARIABLE queue

Init == queue = << >>

Put(d) == /\ Len(queue) < Depth
          /\ queue' = Append(queue, d)

Take == /\ queue # << >>
        /\ queue' = Tail(queue)

\* The word taken is one that was there before this step.
PutAndTake(d) == /\ queue # << >>
                 /\ Len(queue) < Depth
                 /\ queue' = Append(Tail(queue), d)

Clear == queue' = << >>

Next == \/ \E d \in Data : Put(d) \/ PutAndTake(d)
        \/ Take
        \/ Clear

Spec == Init /\ [][Next]_queue

===============================================================================
