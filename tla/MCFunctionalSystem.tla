------------------------- MODULE MCFunctionalSystem -------------------------
(***************************************************************************)
(* Small instances of FunctionalSystem: 8-bit words (bytes of two bits)    *)
(* and two integers, at addresses 0 and 4.  The application makes few      *)
(* calls, each of another kind, or a long row of the same one.             *)
(***************************************************************************)
EXTENDS LinkInvariant

CONSTANT FewCalls

VARIABLE alike      \* constant: this application's calls and words are all alike

\* 250 is -6.
MCVals == {3, 250}
OneVal == {3}

\* Calls whose results are the operands of the others, so that the order in
\* which they are performed shows in the memory.
MCCalls == {[cmd |-> ADD,   first |-> 0, second |-> 4, result |-> 4],
            [cmd |-> MULP2, first |-> 4, second |-> 0, result |-> 0],
            [cmd |-> DIVP2, first |-> 4, second |-> 0, result |-> 4]}

\* One call, made often enough that packet ids and request ids repeat.
OneCall == {[cmd |-> ADD, first |-> 0, second |-> 4, result |-> 4]}

MCUnwritten == {0, 7}
MCGarbage == {0, 5}
OneGarbage == {5}

MCInit ==
    /\ Init
    /\ alike \in BOOLEAN
    /\ alike => cp.op1 \in OneGarbage /\ cp.op2 \in OneGarbage

\* Only what the application does is restricted.
MCNext ==
    /\ Next
    /\ calls' # calls =>
          LET call == calls'[Len(calls')]
          IN  IF alike THEN call \in OneCall
              ELSE Len(calls) < FewCalls /\ \A i \in DOMAIN calls : calls[i] # call
    /\ alike /\ mainPc = "app" =>
          \A a \in Addr : contents'[a] \in OneVal \cup {contents[a]}
    /\ UNCHANGED alike

MCSpec == MCInit /\ [][MCNext]_<<vars, alike>> /\ Fairness
=============================================================================
