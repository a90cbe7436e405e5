------------------------------ MODULE RegionScan ------------------------------
(***************************************************************************)
(* What an image channel promises its bus: once started on a region it     *)
(* offers the address of every pixel once, row by row from the first,      *)
(* holding each until the slave is ready, and then goes quiet.             *)
(***************************************************************************)
EXTENDS Naturals

CONSTANTS
    Regions,   \* records with base, pitch, width and height
    AddrMod    \* the number of addresses

VARIABLES
    region,    \* what is being scanned
    nth,       \* pixels accepted so far
    offered,   \* is there a valid address on the bus?
    addr,      \* the address
    ready      \* does the slave accept it?

vars == << region, nth, offered, addr, ready >>

\* The address of the n-th pixel; a pixel takes four bytes.
AddrOf(r, n) ==
    (r.base + (n \div r.width) * r.pitch + 4 * (n % r.width)) % AddrMod

Pixels(r) == r.width * r.height

Quiet == nth' = 0 /\ offered' = FALSE

Offer(r, n) == nth' = n /\ offered' = TRUE /\ addr' = AddrOf(r, n)

Init == /\ region \in Regions
        /\ nth = 0 /\ offered = FALSE /\ addr = 0
        /\ ready \in BOOLEAN

Start == ~offered /\ region' \in Regions /\ Offer(region', 0)

Accept == /\ offered /\ ready
          /\ UNCHANGED region
          /\ IF nth + 1 < Pixels(region) THEN Offer(region, nth + 1) ELSE Quiet

Wait == ~(offered /\ ready) /\ UNCHANGED << region, nth, offered >>
        /\ (offered => UNCHANGED addr)

Reset == region' \in Regions /\ Quiet

Next == ready' \in BOOLEAN /\ (Start \/ Accept \/ Wait \/ Reset)

Spec == Init /\ [][Next]_vars
=============================================================================
