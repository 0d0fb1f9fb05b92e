------------------------------ MODULE Network ------------------------------
(***************************************************************************)
(* labrpc: the way of a call through processReq, between the callers and   *)
(* the servers of module KVHarness, which composes them.  Arguments and    *)
(* replies are opaque; an unreliable network is assumed, which may behave  *)
(* like a reliable one, and delays are not bounded (LongDelays,            *)
(* LongReordering).                                                        *)
(***************************************************************************)
EXTENDS Integers

CONSTANTS
    Call,   \* bound: calls under way at the same time
    Host,   \* server names
    Owner,  \* owners of ClientEnds
    Reply   \* replies of handlers

\* A ClientEnd: its owner and the server that Connect has named for it.  A name that
\* is replaced by a fresh one was disabled before, for good.
End == Owner \X Host
connections(end) == end[2]

NoReply == "none"

VARIABLES
    enabled,  \* the ends that are enabled
    servers,  \* [Host -> the instance registered under the name, or 0]
    net       \* [Call -> the state of processReq and of the handler]

Idle == [stage |-> "free", end |-> <<>>, server |-> 0, running |-> FALSE,
         reply |-> NoReply, ok |-> FALSE]

TypeOKNetwork ==
    /\ enabled \subseteq End
    /\ servers \in [Host -> Nat]
    /\ net \in [Call -> [stage : {"free", "sent", "wait", "reply", "left"},
                         end : End \cup {<<>>}, server : Nat, running : BOOLEAN,
                         reply : Reply \cup {NoReply}, ok : BOOLEAN]]

-----------------------------------------------------------------------------

\* What is known of call c becomes n.
Becomes(c, n) == net' = [net EXCEPT ![c] = n]

\* The request goes to the network's goroutine.
Send(c, e) ==
    /\ net[c].stage = "free"
    /\ Becomes(c, [Idle EXCEPT !.stage = "sent", !.end = e])
    /\ UNCHANGED <<enabled, servers>>

Server(c) == servers[connections(net[c].end)]

\* replyCh <- replyMsg{ok, ...}
Replied(c, ok) == Becomes(c, [net[c] EXCEPT !.stage = "reply", !.ok = ok])

\* readEndnameInfo: the end is enabled and its server is registered.
Reachable(c) == net[c].end \in enabled /\ Server(c) # 0

\* The request is lost, or there is nobody to send it to.
LoseRequest(c) ==
    /\ net[c].stage = "sent"
    /\ Replied(c, FALSE)
    /\ UNCHANGED <<enabled, servers>>

\* The handler starts in a goroutine of its own.
Deliver(c) ==
    /\ net[c].stage = "sent" /\ Reachable(c)
    /\ Becomes(c, [net[c] EXCEPT !.stage = "wait", !.server = Server(c),
                                 !.running = TRUE])
    /\ UNCHANGED <<enabled, servers>>

\* Mutant: the request is dispatched a second time.
HandlerReturnsAgain(c, r) ==
    /\ net[c].running
    /\ Becomes(c, [net[c] EXCEPT !.running = net[c].reply = NoReply,
                                 !.reply = IF @ = NoReply THEN r ELSE NoReply])
    /\ UNCHANGED <<enabled, servers>>

\* dispatch: the handler has executed the call, whether or not somebody still waits.
HandlerReturns(c, r) ==
    /\ net[c].running
    /\ Becomes(c, [net[c] EXCEPT !.running = FALSE, !.reply = r])
    /\ UNCHANGED <<enabled, servers>>

\* The end was disabled, or another instance or none has the server's name.
isServerDead(c) == net[c].end \notin enabled \/ Server(c) # net[c].server

\* Mutant: processReq waits for the handler.
PollNever(c) == FALSE /\ UNCHANGED <<enabled, servers, net>>

\* Every 100 ms the wait ends if the server is dead; the handler goes on.
Poll(c) ==
    /\ net[c].stage = "wait" /\ net[c].running
    /\ isServerDead(c)
    /\ Replied(c, FALSE)
    /\ UNCHANGED <<enabled, servers>>

\* The handler has returned, and the server is not dead.
Finish(c) ==
    /\ net[c].stage = "wait" /\ ~net[c].running
    /\ ~isServerDead(c)
    /\ Replied(c, TRUE)
    /\ UNCHANGED <<enabled, servers>>

\* It is, or the reply is lost.
LoseReply(c) ==
    /\ net[c].stage = "wait" /\ ~net[c].running
    /\ Replied(c, FALSE)
    /\ UNCHANGED <<enabled, servers>>

\* Call returns to its caller.
Return(c) ==
    /\ net[c].stage = "reply"
    /\ Becomes(c, [net[c] EXCEPT !.stage = "left"])
    /\ UNCHANGED <<enabled, servers>>

\* The handler's goroutine has ended, or never will.
Forget(c) ==
    /\ net[c].stage = "left"
    /\ Becomes(c, Idle)
    /\ UNCHANGED <<enabled, servers>>

-----------------------------------------------------------------------------

AddServer(h, instance) == servers' = [servers EXCEPT ![h] = instance]

DeleteServer(h) == servers' = [servers EXCEPT ![h] = 0]

-----------------------------------------------------------------------------

State(stage) ==
    CASE stage = "free" -> "idle"
      [] stage = "left" -> "returned"
      [] OTHER -> "pending"

\* A call of labrpc as module RPC sees it.
Seen(n) ==
    [state |-> State(n.stage), executed |-> n.reply # NoReply,
     ok |-> n.ok /\ State(n.stage) # "pending"]

calls == [c \in Call |-> Seen(net[c])]

Promise == INSTANCE RPC WITH call <- calls
=============================================================================
