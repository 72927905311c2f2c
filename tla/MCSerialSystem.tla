--------------------------- MODULE MCSerialSystem ---------------------------
(***************************************************************************)
(* Small instances of SerialSystem: 8-bit words (a body of four 2-bit      *)
(* bytes) and two integers, at addresses 0 and 4.                          *)
(***************************************************************************)
EXTENDS SerialInvariant

OneVal == {3}

\* Calls whose results are the operands of the others.
MCCalls == {[cmd |-> ADD,   first |-> 0, second |-> 4, result |-> 4],
            [cmd |-> DIVP2, first |-> 4, second |-> 0, result |-> 0]}

OneCall == {[cmd |-> MULP2, first |-> 0, second |-> 4, result |-> 4]}

MCUnwritten == {0, 7}
=============================================================================
