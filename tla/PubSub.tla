------------------------------- MODULE PubSub -------------------------------
(* How the registries tell others that something changed: ZmqPublisher and *)
(* ZmqSubscriber, with the endpoints that ZmqMiddleware gives them.  The   *)
(* registry publishes changes of its list (the empty topic) and of the     *)
(* state of a scope (its id as topic), and it passes on the updates of the *)
(* smart scopes registry, to which it subscribes.  A topic is a sequence   *)
(* of letters; a message is its topic, ":" and a text.                     *)
EXTENDS Integers, Sequences, SequencesExt

CONSTANTS Clients,      \* the clients that subscribe
          TopicOf,      \* client -> its topic
          Scopes,       \* the ids of the scopes, as topics
          MaxSent       \* bound on the messages that a registry sends

VARIABLES dirs,         \* which registries have an endpoint directory of their own
          pub,          \* publisher -> the state of its thread
          queue,        \* publisher -> message_queue_
          sent,         \* publisher -> the number of messages sent
          sub,          \* subscriber -> "new", "connected", "stopped"
          wire,         \* subscriber -> the messages on their way
          got,          \* subscriber -> the texts its callback was called with
          expected      \* subscriber -> see ConnectedGetsAll

vars == <<dirs, pub, queue, sent, sub, wire, got, expected>>

Publishers == {"Registry", "SSRegistry"}

(* The registry's own subscription to the smart scopes registry.           *)
Subscribers == Clients \cup {"Registry"}

Source(s) == IF s = "Registry" THEN "SSRegistry" ELSE "Registry"

Topic(s) == IF s = "Registry" THEN <<>> ELSE TopicOf[s]

(* create_publisher(), create_subscriber(): the directory depends on the   *)
(* name of the process that calls them.                                    *)
EndpointDir(process) == IF process = "Registry" /\ "Registry" \in dirs THEN "registry dir" ELSE "public dir"

PublisherEndpoint(p) == <<EndpointDir(p), p>>

SubscriberEndpoint(s) == <<EndpointDir(s), Source(s)>>

-----------------------------------------------------------------------------
(* ZmqPublisher(): the thread binds the endpoint, or the constructor       *)
(* throws; RegistryObject() then goes on without a publisher.              *)
StartPublisher(p) ==
    /\ pub[p] = "NotRunning"
    /\ \E state \in {"Running", "Failed"} : pub' = [pub EXCEPT ![p] = state]
    /\ UNCHANGED <<dirs, queue, sent, sub, wire, got, expected>>

(* send_message(): "<topic>:<message>".                                    *)
SendMessage(p, topic) == queue' = [queue EXCEPT ![p] = Append(@, topic \o <<":", sent[p] + 1>>)]

Publish(p) ==
    /\ pub[p] = "Running" /\ sent[p] < MaxSent
    /\ \E topic \in IF p = "Registry" THEN Scopes \cup {<<>>} ELSE {<<>>} : SendMessage(p, topic)
    /\ sent' = [sent EXCEPT ![p] = @ + 1]
    /\ UNCHANGED <<dirs, pub, sub, wire, got, expected>>

(* A message goes to every connected socket that subscribed to a prefix.   *)
Reached(p, message) ==
    {s \in Subscribers : /\ sub[s] = "connected" /\ Source(s) = p
                         /\ IsPrefix(Topic(s), message)}

TopicIn(message) == SubSeq(message, 1, Len(message) - 2)

(* publisher_thread(): the queue is flushed before the thread stops.       *)
PublisherSends(p) ==
    LET m == Head(queue[p])
    IN  /\ pub[p] \in {"Running", "Stopping"} /\ queue[p] # <<>>
        /\ queue' = [queue EXCEPT ![p] = Tail(@)]
        /\ wire' = [s \in Subscribers |-> IF s \in Reached(p, m) THEN Append(wire[s], m) ELSE wire[s]]
        /\ expected' = [s \in Subscribers |->
                           IF sub[s] = "connected" /\ Source(s) = p /\ Topic(s) = TopicIn(m)
                           THEN Append(expected[s], m[Len(m)]) ELSE expected[s]]
        /\ UNCHANGED <<dirs, pub, sent, sub, got>>

DestroyPublisher(p) ==
    /\ pub[p] = "Running" /\ pub' = [pub EXCEPT ![p] = "Stopping"]
    /\ UNCHANGED <<dirs, queue, sent, sub, wire, got, expected>>

PublisherStops(p) ==
    /\ pub[p] = "Stopping" /\ queue[p] = <<>>
    /\ pub' = [pub EXCEPT ![p] = "Stopped"]
    /\ UNCHANGED <<dirs, queue, sent, sub, wire, got, expected>>

(* External: what was not sent when a socket is closed may be lost.        *)
Lose(s) ==
    /\ pub[Source(s)] = "Stopped" /\ wire[s] # <<>>
    /\ wire' = [wire EXCEPT ![s] = <<>>]
    /\ UNCHANGED <<dirs, pub, queue, sent, sub, got, expected>>

-----------------------------------------------------------------------------
(* External: the connection is made some time after connect(); what is     *)
(* published before that is lost.                                          *)
Connect(s) ==
    /\ sub[s] = "new" /\ pub[Source(s)] = "Running"
    /\ SubscriberEndpoint(s) = PublisherEndpoint(Source(s))
    /\ sub' = [sub EXCEPT ![s] = "connected"]
    /\ UNCHANGED <<dirs, pub, queue, sent, wire, got, expected>>

(* The callback of the registry is ss_list_update(), which publishes.      *)
Deliver(s, m) ==
    /\ got' = [got EXCEPT ![s] = Append(@, m[Len(m)])]
    /\ IF s = "Registry" /\ pub["Registry"] \in {"Running", "Stopping"}
       THEN SendMessage("Registry", <<>>) ELSE UNCHANGED queue

(* Mutant: whatever zmq passes on is delivered.                            *)
ReceiveAny(s) ==
    /\ sub[s] = "connected" /\ wire[s] # <<>>
    /\ wire' = [wire EXCEPT ![s] = Tail(@)]
    /\ Deliver(s, Head(wire[s]))
    /\ UNCHANGED <<dirs, pub, sent, sub, expected>>

(* subscriber_thread(): zmq compares prefixes, so the topic must be        *)
(* followed by a colon.                                                    *)
Receive(s) ==
    LET m == Head(wire[s])
        n == Len(Topic(s))
    IN  /\ sub[s] = "connected" /\ wire[s] # <<>>
        /\ wire' = [wire EXCEPT ![s] = Tail(@)]
        /\ IF Len(m) > n /\ m[n + 1] = ":" THEN Deliver(s, m) ELSE UNCHANGED <<queue, got>>
        /\ UNCHANGED <<dirs, pub, sent, sub, expected>>

(* ~ZmqSubscriber(): messages that have arrived are handled first.         *)
StopSubscriber(s) ==
    /\ sub[s] # "stopped" /\ wire[s] = <<>>
    /\ sub' = [sub EXCEPT ![s] = "stopped"]
    /\ UNCHANGED <<dirs, pub, queue, sent, wire, got, expected>>

Init ==
    /\ dirs \in SUBSET Publishers
    /\ pub = [p \in Publishers |-> "NotRunning"]
    /\ queue = [p \in Publishers |-> <<>>]
    /\ sent = [p \in Publishers |-> 0]
    /\ sub = [s \in Subscribers |-> "new"]
    /\ wire = [s \in Subscribers |-> <<>>]
    /\ got = [s \in Subscribers |-> <<>>]
    /\ expected = [s \in Subscribers |-> <<>>]

Next ==
    \/ \E p \in Publishers :
           \/ StartPublisher(p) \/ Publish(p) \/ PublisherSends(p)
           \/ DestroyPublisher(p) \/ PublisherStops(p)
    \/ \E s \in Subscribers : Lose(s) \/ Connect(s) \/ Receive(s) \/ StopSubscriber(s)

Spec == Init /\ [][Next]_vars

FairSpec == Spec /\ \A s \in Subscribers : WF_vars(Connect(s))

-----------------------------------------------------------------------------
(* A callback is called exactly for the messages of its topic that were    *)
(* published while it was connected, once each and in order; topics that   *)
(* are prefixes of others do not mix, and a publisher that is destroyed    *)
(* still sends what was given to it.                                       *)
ConnectedGetsAll ==
    \A s \in Subscribers :
        /\ IsPrefix(got[s], expected[s])
        /\ sub[s] = "connected" /\ wire[s] = <<>> /\ pub[Source(s)] # "Stopped" =>
               got[s] = expected[s]

(* "Assigns a callback method to be executed when the registry's scope     *)
(* list changes." (Registry.h): a subscriber gets its connection while the *)
(* publisher runs.                                                         *)
SubscriberConnects ==
    \A s \in Subscribers :
        []([](pub[Source(s)] = "Running" /\ sub[s] # "stopped") => <>(sub[s] = "connected"))

=============================================================================
