------------------------------ MODULE Results -------------------------------
(* Results on their way from the scope that makes them, through the        *)
(* aggregators that pass them on, change them or put them inside results   *)
(* of their own, to the client that activates or previews one.             *)
(*                                                                         *)
(* A result is the sequence of its layers, itself and the results stored   *)
(* in one another inside it, and whether it came through the middleware    *)
(* (runtime_).  A layer has a uri or not, the origin that a reply object   *)
(* set, and the flag InterceptActivation.  owner and adrift are not in the *)
(* code: the scope that made the layer or last asked to intercept its      *)
(* activation, and whether it was stored before it had an origin.          *)
EXTENDS Integers, Sequences

CONSTANTS MaxDepth, \* layers of a result
          MaxCalls  \* calls that a scope makes on its results

VARIABLES at,    \* the scope that has the results; the last one is the client
          own,   \* a result of its own
          in,    \* a result that it received
          calls

vars == <<at, own, in, calls>>

Chain == <<"leaf", "aggregator", "top", "client">>
None == [layers |-> <<>>, runtime |-> FALSE]

NewLayer(s) == [uri |-> FALSE, origin |-> "", flag |-> FALSE, owner |-> s,
                adrift |-> FALSE]

-----------------------------------------------------------------------------
(* ResultImpl.                                                             *)

(* set_intercept_activation() also clears the origin: the reply object     *)
(* sets it anew to the scope that asked for this.                          *)
Intercepted(r, s) ==
    [r EXCEPT !.layers[1].flag = TRUE, !.layers[1].origin = "",
              !.layers[1].owner = s]

(* throw_on_empty("uri") in serialize().                                   *)
Serializable(r) == r.layers[1].uri

(* store(): the flag is set before other.serialize() may throw.            *)
Stored(r, other, intercept, s) ==
    LET q == IF intercept THEN Intercepted(r, s) ELSE r
        inner == [other.layers EXCEPT ![1].adrift = @ \/ other.layers[1].origin = ""]
    IN  IF Serializable(other)
        THEN [q EXCEPT !.layers = <<q.layers[1]>> \o inner] ELSE q

(* retrieve(): the new result has no runtime.                              *)
HasStored(r) == Len(r.layers) > 1
Retrieved(r) == [layers |-> Tail(r.layers), runtime |-> FALSE]

(* find_stored_result() with the condition that all its callers give: the  *)
(* loop over the stored results ends at the first that intercepts, or at   *)
(* the last one.                                                           *)
RECURSIVE FindStored(_, _)
FindStored(layers, i) ==
    IF layers[i].flag \/ i = Len(layers) THEN i ELSE FindStored(layers, i + 1)

(* direct_activation().                                                    *)
DirectActivation(r) ==
    /\ ~ r.layers[1].flag
    /\ HasStored(r) => ~ r.layers[FindStored(r.layers, 2)].flag

(* Mutant: the innermost result is taken, whoever intercepts.              *)
TargetInnermost(r) == IF r.layers[1].flag THEN 1 ELSE Len(r.layers)

(* The layer that activation_target() gives and target_scope_proxy() takes *)
(* the origin of; every stored layer on the way to it must have one.       *)
Target(r) ==
    IF r.layers[1].flag \/ ~ HasStored(r) THEN 1 ELSE FindStored(r.layers, 2)

HasTarget(r) ==
    /\ r.runtime
    /\ \A i \in 2..Target(r) : r.layers[i].origin # ""
    /\ r.layers[Target(r)].origin # ""

TargetScope(r) == r.layers[Target(r)].origin
ActivationTarget(r) == SubSeq(r.layers, Target(r), Len(r.layers))

(* ResultReplyObject::process_data(): the result is read from its          *)
(* dictionary and given the runtime, and an origin when it has none.       *)
Received(r, from) ==
    [layers |-> [r.layers EXCEPT ![1].origin = IF @ = "" THEN from ELSE @],
     runtime |-> TRUE]

-----------------------------------------------------------------------------
Me == Chain[at]
Call == at < Len(Chain) /\ calls < MaxCalls /\ calls' = calls + 1

Make == /\ Call /\ own = None
        /\ own' = [layers |-> <<NewLayer(Me)>>, runtime |-> FALSE]
        /\ UNCHANGED <<at, in>>

SetUri == /\ Call /\ own # None /\ own' = [own EXCEPT !.layers[1].uri = TRUE]
          /\ UNCHANGED <<at, in>>

SetIntercept == /\ Call
                /\ \/ own # None /\ own' = Intercepted(own, Me) /\ in' = in
                   \/ in # None /\ in' = Intercepted(in, Me) /\ own' = own
                /\ UNCHANGED at

Store == \E intercept \in BOOLEAN :
            /\ Call /\ own # None /\ in # None /\ Len(in.layers) < MaxDepth
            /\ own' = Stored(own, in, intercept, Me)
            /\ UNCHANGED <<at, in>>

Retrieve == /\ Call /\ in # None /\ HasStored(in)
            /\ own' = Retrieved(in)
            /\ UNCHANGED <<at, in>>

(* The scope pushes one of its results.  A result without a uri cannot be  *)
(* serialized.                                                             *)
Push == \E r \in {own, in} :
            /\ at < Len(Chain) /\ r # None /\ Serializable(r)
            /\ in' = Received(r, Me) /\ own' = None
            /\ at' = at + 1 /\ calls' = 0

Init == at = 1 /\ own = None /\ in = None /\ calls = 0

Next == Make \/ SetUri \/ SetIntercept \/ Store \/ Retrieve \/ Push

Spec == Init /\ [][Next]_vars

-----------------------------------------------------------------------------
(* A result as it is received is activated by, and previewed by, the scope *)
(* that made it or that was the last to intercept it, and that scope gets  *)
(* the result as it was when it left it: the outermost result that         *)
(* intercepts, or else the innermost one.  A result may only be activated  *)
(* by the shell when no scope intercepts.  Results that were stored before *)
(* they had an origin are left out (ResultImpl::target_scope_proxy,        *)
(* activation_target, direct_activation, ResultReplyObject::process_data).  *)
ActivationReachesOwner ==
    in # None /\ calls = 0 =>
        LET layers == in.layers
            asks == {i \in 1..Len(layers) : layers[i].flag}
            outer == CHOOSE i \in asks : \A j \in asks : i <= j
            right == IF asks = {} THEN Len(layers) ELSE outer
        IN  /\ DirectActivation(in) <=> asks = {}
            /\ (\A i \in 1..right : ~ layers[i].adrift) =>
                    HasTarget(in) /\ TargetScope(in) = layers[right].owner
            /\ ActivationTarget(in) = SubSeq(layers, right, Len(layers))

(* A client can tell the scope that handles a result that it received.  It *)
(* cannot when an aggregator first intercepts a result and then stores it. *)
TargetAvailable == at = Len(Chain) => HasTarget(in)

=============================================================================
