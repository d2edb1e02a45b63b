------------------------------ MODULE MCRerun ------------------------------
(* Small instances of ActionAudit for TLC. *)
EXTENDS ActionAudit

MCBins == {1, 2}
MCReading(verdict, b, base) ==
    [kind |-> "read", verdict |-> verdict, bin |-> b, base |-> base]
MCReadings ==
    {MCReading("quote", 1, TRUE), MCReading("quote", 2, FALSE),
     MCReading("derisk", 1, TRUE), MCReading("emergency", 2, FALSE),
     MCReading("stop", 2, TRUE)}
MCFresh(path, soak) ==
    [primary |-> NoId, extras |-> <<>>, path |-> path, soak |-> soak]
MCStarts ==
    {MCFresh(TRUE, FALSE), MCFresh(FALSE, TRUE),
     [primary |-> Leg("bid", 1), extras |-> <<Leg("ask", 1)>>,
      path |-> FALSE, soak |-> TRUE]}
=============================================================================
