------------------------------- MODULE MCWire -------------------------------
EXTENDS Wire

\* A message with a body and one without; names of one and two bytes.
Messages ==
    {[exchange |-> 1, routing_key |-> 2, body |-> 0],
     [exchange |-> 1, routing_key |-> 1, body |-> 2]}
=============================================================================
