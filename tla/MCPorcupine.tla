---------------------------- MODULE MCPorcupine ----------------------------
(* Requests on two keys, for model checking the checker.                   *)
EXTENDS Porcupine

Req(op, key, value, output) ==
    [Op |-> op, Key |-> key, Value |-> value, Output |-> output]

\* A put, an append and reads of key 1, right and wrong reads of key 2.
Requests ==
    {Req("put", 1, 1, <<>>), Req("append", 1, 1, <<>>), Req("get", 1, 0, <<1>>),
     Req("get", 1, 0, <<>>), Req("get", 2, 0, <<>>), Req("get", 2, 0, <<1>>)}
=============================================================================
