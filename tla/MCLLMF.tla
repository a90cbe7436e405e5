-------------------------------- MODULE MCLLMF --------------------------------
EXTENDS LLMF

\* A window of dark and bright pixels, with bright[i + 1] of them in row i.
Shape(bright) ==
    [i \in Five |-> [j \in Five |-> IF j < bright[i + 1] THEN 1 ELSE 0]]

\* Thirteen bright pixels of twenty-five, in rows that differ.
McInputs == { Shape(<< 5, 5, 2, 1, 0 >>), Shape(<< 3, 3, 3, 2, 2 >>) }
===============================================================================
