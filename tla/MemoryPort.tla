------------------------------ MODULE MemoryPort ------------------------------
(***************************************************************************)
(* What a memory behind an AXI4-Lite port promises: every write the bus    *)
(* issues is stored once, in the order of issue, at its own address, with  *)
(* the byte lanes it strobes and no others; every read is answered on the  *)
(* next clock with what its address holds, or is just being given.         *)
(***************************************************************************)
EXTENDS Naturals, Sequences

CONSTANTS Addr, Lanes, Byte

VARIABLES
    store,     \* what each address holds
    issued,    \* writes not stored yet, oldest first
    ask,       \* the read on the bus: << >> or << address >>
    reply      \* the answer to the last one: << >> or << word >>

vars == << store, issued, ask, reply >>

Word == [Lanes -> Byte]

Write == [addr : Addr, data : Word, strb : SUBSET Lanes]

Asks == {<< >>} \union {<< a >> : a \in Addr}

Merge(old, w) == [l \in Lanes |-> IF l \in w.strb THEN w.data[l] ELSE old[l]]

Init == /\ store \in [Addr -> Word] /\ issued = << >>
        /\ ask \in Asks /\ reply = << >>

\* Writes not stored are rest, and perhaps a new one behind it.
Issue(rest) == issued' = rest \/ \E w \in Write : issued' = Append(rest, w)

\* No write is stored; the oldest is.
Keep == UNCHANGED store /\ Issue(issued)
Land == /\ issued # << >>
        /\ LET w == Head(issued)
           IN  store' = [store EXCEPT ![w.addr] = Merge(@, w)]
        /\ Issue(Tail(issued))

Answer == IF ask = << >>
          THEN reply' = << >>
          ELSE reply' \in { << store[ask[1]] >>, << store'[ask[1]] >> }

Tick == (Keep \/ Land) /\ Answer /\ ask' \in Asks

\* Writes under way are dropped; what is stored stays.
Reset == issued' = << >> /\ reply' = << >> /\ ask' \in Asks /\ UNCHANGED store

Next == Tick \/ Reset

Spec == Init /\ [][Next]_vars
===============================================================================
