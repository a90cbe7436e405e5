------------------------------ MODULE MCImpScan ------------------------------
(***************************************************************************)
(* The scan engine on 8-value sizes and 16 addresses.                      *)
(***************************************************************************)
EXTENDS ImpScan

Cfg(h, v, x, y, b, p) == [hsize |-> h, vsize |-> v, minx |-> x, miny |-> y,
                          baddr |-> b, pitch |-> p]

\* Sizes that the CPU may change under a running job; a size of 0, which makes
\* the ends wrap, among them.
Changing == { Cfg(h, v, 0, 1, 0, 4) : h \in {0, 2}, v \in {0, 3} }
=============================================================================
