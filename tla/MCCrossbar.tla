----------------------------- MODULE MCCrossbar ------------------------------
EXTENDS Crossbar

\* A word of RAM1, a register, and an address that no one owns.
McAddrs == { Hi(18), Hi(16), Hi(20) }
McJob == << Hi(18) + 4, Hi(18) + 8 >>

\* Every word of a window belongs to its port: that the decoder takes the
\* inclusive ends of the map as exclusive costs the last byte only, and
\* the processor's addresses are those of words.
ASSUME WindowsDecode == \A r \in AXI_AddrMap :
    \A a \in {r.start_addr, r.end_addr - 3} : Decode(AXI_AddrMap, a) = r.port

\* No address of an APB peripheral is one that the crossbar sends to the
\* bridge (BACKBONE.sv:96-97 against Global_define.svh:38-43).
ASSUME ApbUnreachable == \A r \in APB_AddrMap :
    \A a \in {r.start_addr, r.end_addr} : Decode(AXI_AddrMap, a) = "RAM1"

\* The processor and the image master are as the theorems ask.
ASSUME MastersFit == Deep /\ Apart /\ NoneTwice
===============================================================================
