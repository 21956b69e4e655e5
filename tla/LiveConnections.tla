--------------------------- MODULE LiveConnections ---------------------------
(***************************************************************************)
(* The listener of the Pub/Sub channel in an API process, and the two      *)
(* managers that it hands a message to: SSEManager and ConnectionManager   *)
(* keep one connection of a user each.                                     *)
(***************************************************************************)
EXTENDS NotificationState

restVars == <<rowVars, jobs, running, accepted, repeated, lost>>

(***************************************************************************)
(* Server-sent events.  connect, disconnect and send have no await.        *)
(***************************************************************************)
Closed(i) == [i2 \in DOMAIN sse |-> IF i2 = i THEN [sse[i] EXCEPT !.closed = TRUE] ELSE sse[i2]]

SSEConnect(u) ==
    /\ MayHappen
    /\ sse' = Append(Closed(sseOf[u]), [user |-> u, closed |-> FALSE, done |-> FALSE, unread |-> FALSE])
    /\ sseOf' = [sseOf EXCEPT ![u] = Len(sse) + 1]
    /\ UNCHANGED <<restVars, published, failures, ws, wsOf, crossed>>

\* A mutant: whatever connection the user has is taken out.
SSEForget(i) == sseOf' = [sseOf EXCEPT ![sse[i].user] = 0]

\* A connection is taken out of the manager only where it is the current one.
SSEDisconnect(i) == sseOf' = [sseOf EXCEPT ![sse[i].user] = IF @ = i THEN 0 ELSE @]

\* subscribe: messages are handed to the client; after a close it leaves the
\* loop, with what is unread.
Receive(i) ==
    /\ ~sse[i].done /\ ~sse[i].closed /\ sse[i].unread
    /\ sse' = [sse EXCEPT ![i].unread = FALSE]
    /\ UNCHANGED <<restVars, published, failures, ws, sseOf, wsOf, crossed>>

\* The generator ends: it finds its connection closed, or the client is gone.
EndStream(i) ==
    /\ ~sse[i].done /\ SSEDisconnect(i)
    /\ sse' = [sse EXCEPT ![i].done = TRUE]
    /\ UNCHANGED <<restVars, published, failures, ws, wsOf, crossed>>

\* Every five minutes connections that are closed, or that had no message for
\* two minutes, are closed and taken out; the same at shutdown.
EvictStale(users) ==
    /\ \E u \in users : sseOf[u] # 0
    /\ sse' = [i \in DOMAIN sse |-> [sse[i] EXCEPT !.closed = @ \/ \E u \in users : sseOf[u] = i]]
    /\ sseOf' = [u \in User |-> IF u \in users THEN 0 ELSE sseOf[u]]
    /\ UNCHANGED <<restVars, published, failures, ws, wsOf, crossed>>

(***************************************************************************)
(* WebSockets.  The connection that a new one replaces is closed, and the  *)
(* new one accepted, before the new one is registered.                     *)
(***************************************************************************)
BeginWSConnect(u) ==
    /\ MayHappen
    /\ ws' = Append([i \in DOMAIN ws |-> IF i = wsOf[u] THEN [ws[i] EXCEPT !.state = "closed"] ELSE ws[i]],
                    [user |-> u, state |-> "connecting"])
    /\ crossed' = IF \E i \in DOMAIN ws : ws[i] = [user |-> u, state |-> "connecting"]
                  THEN crossed \cup {u} ELSE crossed
    /\ UNCHANGED <<restVars, published, failures, sse, sseOf, wsOf>>

WSConnect(i) ==
    /\ ws[i].state = "connecting"
    /\ ws' = [ws EXCEPT ![i].state = "open"]
    /\ wsOf' = [wsOf EXCEPT ![ws[i].user] = i]
    /\ UNCHANGED <<restVars, published, failures, sse, sseOf, crossed>>

WSDisconnect(i) == wsOf' = [wsOf EXCEPT ![ws[i].user] = IF @ = i THEN 0 ELSE @]

\* receive_text raises: the client is gone or the connection was closed.
EndSocket(i) ==
    /\ ws[i].state \in {"open", "closed"} /\ WSDisconnect(i)
    /\ ws' = [ws EXCEPT ![i].state = "done"]
    /\ UNCHANGED <<restVars, published, failures, sse, sseOf, crossed>>

(***************************************************************************)
(* The listener.  A WebSocket that fails to send is taken out.             *)
(***************************************************************************)
DeliverInApp ==
    /\ published # <<>> /\ published' = Tail(published)
    /\ LET u == Head(published)
       IN /\ sse' = [i \in DOMAIN sse |-> [sse[i] EXCEPT !.unread = @ \/ i = sseOf[u]]]
          /\ \/ wsOf' = wsOf
             \/ wsOf[u] # 0 /\ ws[wsOf[u]].state = "closed" /\ WSDisconnect(wsOf[u])
    /\ UNCHANGED <<restVars, failures, ws, sseOf, crossed>>

\* While the listener reconnects to Redis it is not subscribed.
LoseMessage ==
    /\ Count /\ published # <<>> /\ published' = Tail(published)
    /\ UNCHANGED <<restVars, streamVars>>

ConnectionStep ==
    \/ \E u \in Online : SSEConnect(u) \/ BeginWSConnect(u)
    \/ \E i \in DOMAIN sse : Receive(i) \/ EndStream(i)
    \/ \E users \in SUBSET Online : EvictStale(users)
    \/ \E i \in DOMAIN ws : WSConnect(i) \/ EndSocket(i)
    \/ DeliverInApp \/ LoseMessage
=============================================================================
