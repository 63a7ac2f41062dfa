----------------------------- MODULE MCQuoting -----------------------------
(* Fourteen ticks, up to five positions, prices on, between and off the ticks *)
EXTENDS Quoting

MCMinTick == -1
MCSqrtAt == [t \in MCMinTick .. 12 |-> <<37, 40, 44, 48, 52, 57, 62, 68, 74, 81, 88, 96, 105, 114>>[t + 2]]
MCPositions ==
    {[lower |-> 0, upper |-> 12, amount |-> 512], [lower |-> 2, upper |-> 8, amount |-> 256],
     [lower |-> 4, upper |-> 6, amount |-> 512], [lower |-> 6, upper |-> 10, amount |-> 300],
     [lower |-> 8, upper |-> 10, amount |-> 212]}
\* One more, that begins where another ends.
MCAbutting == MCPositions \cup {[lower |-> 6, upper |-> 8, amount |-> 512]}
MCStarts == {50, 60, 64, 68, 71, 78}
MCInputs == {1, 60, 170, 330, 450}

=============================================================================
