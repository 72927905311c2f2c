-------------------------- MODULE MatrixAccelerator --------------------------
(***************************************************************************)
(* What the matrix library promises an application, with no device in it:  *)
(* calls are recorded; between the start and the return of mSync they are  *)
(* performed on the memory one by one, in the order of the calls, each     *)
(* reading its operands as the calls before it left them; mSync returns    *)
(* when every recorded call has been performed.                            *)
(***************************************************************************)
EXTENDS Naturals, Sequences

CONSTANTS
    Address,        \* addresses of integers
    Value,          \* words they hold
    Command,        \* ADD, MULP2 and DIVP2
    Apply(_, _, _)  \* what a command makes of its two operands

VARIABLES
    mem,        \* the integers
    calls,      \* every call recorded so far, in order
    executed,   \* how many of them have been performed
    syncing     \* the application is inside mSync

accelVars == <<mem, calls, executed, syncing>>

Call == [cmd : Command, first : Address, second : Address, result : Address]

Init ==
    /\ mem = [a \in Address |-> 0]
    /\ calls = <<>>
    /\ executed = 0
    /\ syncing = FALSE

RecordCall(c) ==
    /\ ~syncing
    /\ calls' = Append(calls, c)
    /\ UNCHANGED <<mem, executed, syncing>>

Store(a, v) ==
    /\ ~syncing
    /\ mem' = [mem EXCEPT ![a] = v]
    /\ UNCHANGED <<calls, executed, syncing>>

BeginSync ==
    /\ ~syncing
    /\ syncing' = TRUE
    /\ UNCHANGED <<mem, calls, executed>>

Execute ==
    /\ syncing
    /\ executed < Len(calls)
    /\ LET c == calls[executed + 1] IN
       mem' = [mem EXCEPT ![c.result] = Apply(c.cmd, mem[c.first], mem[c.second])]
    /\ executed' = executed + 1
    /\ UNCHANGED <<calls, syncing>>

EndSync ==
    /\ syncing
    /\ executed = Len(calls)
    /\ syncing' = FALSE
    /\ UNCHANGED <<mem, calls, executed>>

Next ==
    \/ \E c \in Call : RecordCall(c)
    \/ \E a \in Address, v \in Value : Store(a, v)
    \/ BeginSync
    \/ Execute
    \/ EndSync

Spec == Init /\ [][Next]_accelVars
==============================================================================
