------------------------ MODULE ObserverSubscriptions ------------------------
(***************************************************************************)
(* Who follows whom: observers subscribe to a connected peer and leave it  *)
(* when it disconnects or falls silent; every node publishes to the peers  *)
(* that subscribed to it (consensus_observer/observer.rs, subscription.rs, *)
(* publisher.rs, network_client.rs).                                       *)
(*                                                                         *)
(* An observer asks one peer after the other and handles nothing else      *)
(* while it waits for an answer; requests to it wait meanwhile.  The       *)
(* publisher's garbage collection runs in a task of its own, and so does   *)
(* every request to unsubscribe.  Which peer is nearer is left open.       *)
(***************************************************************************)
EXTENDS Integers, Sequences, FiniteSets

CONSTANTS
  Nodes, Observers, NoNode,
  ChannelSize,                   \* requests of one peer that wait; more are dropped
  MaxDisconnects, MaxTimeouts    \* bounds

Idle == [peer |-> NoNode, left |-> {}, answered |-> FALSE]

VARIABLES
  active,       \* observer -> the peer of active_observer_subscription, or NoNode
  subscribers,  \* node -> active_subscribers of its publisher
  calling,      \* observer -> the request that it waits for, and the peers to ask after it
  inbox,        \* node -> sender -> the requests that are not handled yet: [kind, live]
  messages,     \* updates in flight: <<publisher, subscriber>>
  connected,    \* pairs of nodes
  disconnects, timeouts

vars == <<active, subscribers, calling, inbox, messages, connected, disconnects, timeouts>>

Pairs == {{n, m} : n, m \in Nodes} \ {{n} : n \in Nodes}
ConnectedPeers(n) == {m \in Nodes : {n, m} \in connected}

Init ==
  /\ active = [n \in Observers |-> NoNode]
  /\ subscribers = [n \in Nodes |-> {}]
  /\ calling = [n \in Observers |-> Idle]
  /\ inbox = [n \in Nodes |-> [m \in Nodes |-> <<>>]]
  /\ messages = {}
  /\ connected = Pairs
  /\ disconnects = 0 /\ timeouts = 0

\* The loop of the node is at its select.
Free(n) == n \in Observers => calling[n] = Idle

----------------------------------------------------------------------------
(* The observer                                                            *)

\* A request to a peer, if it is connected and its channel is not full.
Send(box, n, m, kind) ==
  IF {n, m} \in connected /\ Len(box[m][n]) < ChannelSize
  THEN [box EXCEPT ![m][n] = Append(@, [kind |-> kind, live |-> kind = "subscribe"])] ELSE box

\* unsubscribe_from_peer: nobody waits for the answer.
Unsubscribe(box, n, m) == Send(box, n, m, "unsubscribe")

\* sort_peers_for_subscription, but for the order.
PeersToAsk(n, previous) == (ConnectedPeers(n) \ {previous}) \ subscribers[n]

\* One that times out is still handled by the peer.
Ask(box, n, m) == Send(box, n, m, "subscribe")

\* create_new_observer_subscription, up to the first request.
CreateSubscription(n, previous, box) ==
  IF PeersToAsk(n, previous) = {} THEN inbox' = box /\ UNCHANGED calling
  ELSE \E m \in PeersToAsk(n, previous) :
         /\ calling' = [calling EXCEPT ![n] = [peer |-> m, left |-> PeersToAsk(n, previous) \ {m}, answered |-> FALSE]]
         /\ inbox' = Ask(box, n, m)

\* check_active_subscription fails: the peer is not connected, has sent nothing for long, or the
\* database makes no progress, or there is a better peer.
Unhealthy(n) ==
  \/ /\ active[n] \notin ConnectedPeers(n)
     /\ UNCHANGED timeouts
  \/ /\ active[n] \in ConnectedPeers(n)
     /\ timeouts < MaxTimeouts \/ n \notin subscribers[active[n]]
     /\ timeouts' = IF n \in subscribers[active[n]] THEN timeouts + 1 ELSE timeouts

CheckProgress(n) ==
  /\ Free(n)
  /\ \/ /\ active[n] = NoNode
        /\ CreateSubscription(n, NoNode, inbox)
        /\ UNCHANGED <<active, timeouts>>
     \/ /\ active[n] # NoNode
        /\ Unhealthy(n)
        /\ active' = [active EXCEPT ![n] = NoNode]
        /\ CreateSubscription(n, active[n], Unsubscribe(inbox, n, active[n]))
  /\ UNCHANGED <<subscribers, messages, connected, disconnects>>

Subscribed(n) ==
  /\ calling[n].answered
  /\ active' = [active EXCEPT ![n] = calling[n].peer]
  /\ calling' = [calling EXCEPT ![n] = Idle]
  /\ UNCHANGED <<subscribers, inbox, messages, connected, disconnects, timeouts>>

\* The request fails, because the answer or the request was lost or is late: the next peer.
RequestFails(n) ==
  LET c == calling[n]
      dead == [inbox EXCEPT ![c.peer][n] = [i \in DOMAIN @ |-> [@[i] EXCEPT !.live = FALSE]]]
  IN
  /\ c # Idle
  /\ IF {n, c.peer} \in connected /\ (c.answered \/ Free(c.peer))
     THEN timeouts < MaxTimeouts /\ timeouts' = timeouts + 1
     ELSE UNCHANGED timeouts
  /\ \/ /\ c.left = {}
        /\ calling' = [calling EXCEPT ![n] = Idle]
        /\ inbox' = dead
     \/ \E m \in c.left :
          /\ calling' = [calling EXCEPT ![n] = [peer |-> m, left |-> c.left \ {m}, answered |-> FALSE]]
          /\ inbox' = Ask(dead, n, m)
  /\ UNCHANGED <<active, subscribers, messages, connected, disconnects>>

\* An update of a peer that we do not follow is answered by unsubscribing (process_direct_send_message).
Message(m, n) ==
  /\ <<m, n>> \in messages
  /\ Free(n)
  /\ messages' = messages \ {<<m, n>>}
  /\ inbox' = IF n \in Observers /\ active[n] # m THEN Unsubscribe(inbox, n, m) ELSE inbox
  /\ UNCHANGED <<active, subscribers, calling, connected, disconnects, timeouts>>

----------------------------------------------------------------------------
(* The publisher                                                           *)

\* handle_subscription_request.
Request(n, m) ==
  LET r == Head(inbox[n][m]) IN
  /\ inbox[n][m] # <<>>
  /\ Free(n)
  /\ inbox' = [inbox EXCEPT ![n][m] = Tail(@)]
  /\ subscribers' = [subscribers EXCEPT ![n] = IF r.kind = "subscribe" THEN @ \cup {m} ELSE @ \ {m}]
  /\ calling' = IF r.live THEN [calling EXCEPT ![m].answered = TRUE] ELSE calling
  /\ UNCHANGED <<active, messages, connected, disconnects, timeouts>>

Publish(n) ==
  /\ subscribers[n] # {}
  /\ messages' = messages \cup {<<n, m>> : m \in subscribers[n] \cap ConnectedPeers(n)}
  /\ UNCHANGED <<active, subscribers, calling, inbox, connected, disconnects, timeouts>>

Kept(n) == subscribers[n] \cap ConnectedPeers(n)

GarbageCollectSubscriptions(n) ==
  /\ subscribers' = [subscribers EXCEPT ![n] = Kept(n)]
  /\ UNCHANGED <<active, calling, inbox, messages, connected, disconnects, timeouts>>

----------------------------------------------------------------------------
(* The network                                                             *)

\* What is in flight between the two is lost.
Disconnect(n, m) ==
  /\ {n, m} \in connected /\ disconnects < MaxDisconnects
  /\ disconnects' = disconnects + 1
  /\ connected' = connected \ {{n, m}}
  /\ inbox' = [inbox EXCEPT ![n][m] = <<>>, ![m][n] = <<>>]
  /\ messages' = {x \in messages : {x[1], x[2]} # {n, m}}
  /\ UNCHANGED <<active, subscribers, calling, timeouts>>

Connect(n, m) ==
  /\ {n, m} \in Pairs \ connected
  /\ connected' = connected \cup {{n, m}}
  /\ UNCHANGED <<active, subscribers, calling, inbox, messages, disconnects, timeouts>>

Next ==
  \/ \E n \in Observers : CheckProgress(n) \/ Subscribed(n) \/ RequestFails(n)
  \/ \E n, m \in Nodes : Message(m, n) \/ Request(n, m) \/ Disconnect(n, m) \/ Connect(n, m)
  \/ \E n \in Nodes : Publish(n) \/ GarbageCollectSubscriptions(n)

Spec == Init /\ [][Next]_vars

----------------------------------------------------------------------------
TypeOK ==
  /\ active \in [Observers -> Nodes \cup {NoNode}]
  /\ subscribers \in [Nodes -> SUBSET Nodes]
  /\ \A n \in Observers : calling[n].answered => calling[n].peer \in Nodes

\* n follows m, and m knows it.
Follows(n, m) == active[n] = m /\ n \in subscribers[m]

\* Two observers never feed each other, whatever requests cross, are late or lost: their updates
\* would go round between them (sort_peers_for_subscription, handle_subscription_request).
NoMutualFollowing == \A n, m \in Observers : ~(Follows(n, m) /\ Follows(m, n))

=============================================================================
