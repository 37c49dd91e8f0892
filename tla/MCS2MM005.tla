----------------------------- MODULE MCS2MM005 ------------------------------
(* Sources for model checking S2MM005. *)
EXTENDS S2MM005

Fixed(mv, ma)    == [fixed |-> TRUE, mv |-> mv, ma |-> ma]
Variable(mv, ma) == [fixed |-> FALSE, mv |-> mv, ma |-> ma]

\* A source without PD, and one with the same power at two voltages, a higher
\* voltage that is not taken, and a variable supply with the most power.
SomeSources == {<<>>, <<Fixed(5000, 1800), Variable(9000, 3000), Fixed(9000, 1000),
                        Fixed(15000, 3000)>>}

\* A second source, whose third supply the connector does not take.
TwoSources == SomeSources \union {<<Fixed(5000, 3000), Fixed(9000, 2000), Fixed(15000, 2000)>>}
=============================================================================
