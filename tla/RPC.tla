-------------------------------- MODULE RPC --------------------------------
(***************************************************************************)
(* What labrpc promises its callers (labrpc.go:29-38): a call is executed  *)
(* at most once, Call returns true only if the server has executed it, and *)
(* false says nothing: the call may have been executed, may still be, or   *)
(* never will.  Module Network implements this.                            *)
(***************************************************************************)
CONSTANT Call

VARIABLE call  \* [Call -> what has become of it]

Known(state, executed, ok) == [state |-> state, executed |-> executed, ok |-> ok]

Init == call = [c \in Call |-> Known("idle", FALSE, FALSE)]

Invoke(c) ==
    /\ call[c].state = "idle"
    /\ call' = [call EXCEPT ![c] = Known("pending", FALSE, FALSE)]

Execute(c) ==
    /\ call[c].state \in {"pending", "returned"} /\ ~call[c].executed
    /\ call' = [call EXCEPT ![c] = Known(call[c].state, TRUE, call[c].ok)]

Return(c, ok) ==
    /\ call[c].state = "pending"
    /\ ok => call[c].executed
    /\ call' = [call EXCEPT ![c] = Known("returned", call[c].executed, ok)]

\* Nothing more will be heard of the call.
Forget(c) ==
    /\ call[c].state = "returned"
    /\ call' = [call EXCEPT ![c] = Known("idle", FALSE, FALSE)]

Next ==
    \E c \in Call :
        Invoke(c) \/ Execute(c) \/ Forget(c) \/ \E ok \in BOOLEAN : Return(c, ok)

Spec == Init /\ [][Next]_call
=============================================================================
