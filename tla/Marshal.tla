------------------------------- MODULE Marshal ------------------------------
(* What an invocation carries: the methods of the proxies (ZmqScope,       *)
(* ZmqRegistry, ZmqReply, ZmqQuery, ZmqQueryCtrl, ZmqStateReceiver) build  *)
(* a request, an adapter hands it to a servant (ScopeI, RegistryI, ReplyI, *)
(* QueryI, QueryCtrlI, StateReceiverI), the servant calls its delegate and *)
(* answers, and the proxy turns the answer into a value or an exception.   *)
(* One caller; the pools and threads are in Invocation and ObjectAdapter.  *)
EXTENDS Integers, Sequences

CONSTANTS LastInfoCode, \* OperationInfo::LastInfoCode_
          MaxCalls

VARIABLES exists,       \* is the servant registered with its adapter?
          debug,        \* DebugMode of the scope
          cached,       \* debug_mode_ of the proxy of the scope
          passed,       \* the operation and argument that the caller passed
          request,      \* the request of the running call, or NoCall
          timeout,      \* how long the caller waits for the answer
          called,       \* the operation and argument that reached the delegate
          done,         \* what the delegate did
          response,     \* the answer
          result,       \* what the caller got
          calls

vars == <<exists, debug, cached, passed, request, timeout, called, done, response, result,
          calls>>

NoCall == <<"none">>

(* The operations, by interface.                                           *)
ScopeOps == {"search", "activate", "perform_action", "activate_result_action", "preview",
             "child_scopes", "set_child_scopes", "debug_mode"}

RegistryOps == {"get_metadata", "list", "locate", "is_scope_running"}

OnewayOps == {"push", "finished", "info", "run", "cancel", "destroy", "push_state"}

QueryOps == {"search", "activate", "perform_action", "activate_result_action", "preview"}

(* What the methods of the proxies send: <<operation, argument>>.  The     *)
(* arguments that matter are a reply proxy, an identity, a status, ...     *)
Replies == [endpoint : {"e", "f"}, id : {"r", "s"}, category : {"Reply"}]

ScopeQueryCalls == {<<op, <<"proxy", r>>>> : op \in QueryOps, r \in Replies}

ChildScopesCalls ==
    {<<"child_scopes", <<"nothing">>>>} \cup
    {<<"set_child_scopes", <<"list", enabled>>>> : enabled \in {<<>>, <<TRUE, FALSE>>}}

DebugModeCalls == {<<"debug_mode", <<"nothing">>>>}

RegistryCalls ==
    {<<"list", <<"nothing">>>>} \cup {<<op, <<"identity", id>>>> : op \in RegistryOps \ {"list"}, id \in {"x", "y"}}

ReplyCalls ==
    {<<"push", <<"dict", "result">>>>} \cup {<<"info", <<"code", c>>>> : c \in -1..LastInfoCode + 1} \cup
    {<<"finished", <<"status", s, m>>>> : s \in {"OK", "Cancelled", "Error"}, m \in {"", "m"}}

RunCalls == {<<"run", <<"proxy", r>>>> : r \in Replies}

CtrlCalls == {<<op, <<"nothing">>>> : op \in {"cancel", "destroy"}}

StateCalls == {<<"push_state", <<"state", s>>>> : s \in {"ScopeReady", "ScopeStopping"}}

PingCalls == {<<"ping", <<"nothing">>>>}

Calls ==
    ScopeQueryCalls \cup ChildScopesCalls \cup DebugModeCalls \cup RegistryCalls \cup ReplyCalls
    \cup RunCalls \cup CtrlCalls \cup StateCalls \cup PingCalls \cup {<<"unknown", <<"nothing">>>>}

(* What the servants put into an answer, apart from exceptions.            *)
ScopeValues(op) ==
    CASE op \in QueryOps -> {<<"value", "ctrl">>}
      [] op = "child_scopes" -> {<<"value", "list">>}
      [] OTHER -> {<<"value", TRUE>>, <<"value", FALSE>>}

RegistryValues(op) ==
    CASE op \in {"get_metadata", "list"} -> {<<"value", "list">>}
      [] op = "locate" ->
           {<<"value", [endpoint |-> "e", id |-> "x", category |-> "Scope", timeout |-> t]>> : t \in {-1, 5}}
      [] OTHER -> {<<"value", TRUE>>, <<"value", FALSE>>}

Values(op) ==
    CASE op \in ScopeOps -> ScopeValues(op)
      [] op \in RegistryOps -> RegistryValues(op)
      [] OTHER -> {<<"value", "void">>}

Exceptions == {<<"NotFound", "x">>, <<"NotFound", "y">>, <<"RegistryException", "why">>, <<"other", "what">>}

-----------------------------------------------------------------------------
(* The caller.                                                             *)

Mode(op) == IF op \in OnewayOps THEN "Oneway" ELSE "Twoway"

(* The status of a query and the state of a scope are integers of the      *)
(* protocol.                                                               *)
StatusToWire(s) == CASE s = "OK" -> 1 [] s = "Cancelled" -> 2 [] s = "Error" -> 3

StateToWire(s) == CASE s = "ScopeReady" -> 0 [] s = "ScopeStopping" -> 1

(* Only search() writes the category of the reply proxy.                   *)
ProxyToWire(op, proxy) == IF op \in {"search", "run"} THEN proxy ELSE [proxy EXCEPT !.category = ""]

Marshaled(op, arg) ==
    CASE arg[1] = "proxy" -> <<"proxy", ProxyToWire(op, arg[2])>>
      [] arg[1] = "status" -> <<"status", StatusToWire(arg[2]), arg[3]>>
      [] arg[1] = "state" -> <<"state", StateToWire(arg[2])>>
      [] OTHER -> arg

(* How long a call may take: see invoke_scope_(), child_scopes_timeout(),  *)
(* registry_timeout() and locate_timeout(); -1 is for ever.                *)
TimeoutOf(op, dbg) ==
    CASE op = "debug_mode" -> "twoway"
      [] op \in ScopeOps -> IF dbg THEN "never" ELSE IF op \in {"child_scopes", "set_child_scopes"} THEN "child_scopes" ELSE "twoway"
      [] op = "locate" -> "locate"
      [] op \in RegistryOps -> "registry"
      [] OTHER -> "twoway"

(* Every operation of a scope first needs to know its debug mode, which is *)
(* asked for once.                                                         *)
NeedsDebugMode(op) == op \in ScopeOps \ {"debug_mode"} /\ cached = "unknown"

Call(op, arg) ==
    /\ request = NoCall /\ response = NoCall /\ calls < MaxCalls /\ calls' = calls + 1
    /\ ~ NeedsDebugMode(op) /\ (op = "debug_mode" => cached = "unknown")
    /\ passed' = <<op, arg>>
    /\ request' = <<Mode(op), op, Marshaled(op, arg)>>
    /\ timeout' = TimeoutOf(op, cached = "debug")
    /\ called' = NoCall /\ done' = NoCall /\ result' = NoCall
    /\ UNCHANGED <<exists, debug, cached, response>>

-----------------------------------------------------------------------------
(* The servant.                                                            *)

Unknown == 0

(* Mutant: a query that was cancelled has failed.                          *)
ReplyArgumentNoCancel(arg) ==
    CASE arg[1] = "status" -> <<"status", IF arg[2] = 1 THEN "OK" ELSE "Error", arg[3]>>
      [] arg[1] = "code" -> <<"code", IF arg[2] \in 0..LastInfoCode THEN arg[2] ELSE Unknown>>
      [] OTHER -> arg

(* What the handlers of ReplyI, StateReceiverI, ScopeI and QueryI make of  *)
(* the argument; a code that is not known is Unknown.                      *)
ReplyArgument(arg) ==
    CASE arg[1] = "status" ->
           <<"status", (CASE arg[2] = 1 -> "OK" [] arg[2] = 2 -> "Cancelled" [] OTHER -> "Error"), arg[3]>>
      [] arg[1] = "code" -> <<"code", IF arg[2] \in 0..LastInfoCode THEN arg[2] ELSE Unknown>>
      [] OTHER -> arg

StateArgument(arg) == <<"state", IF arg[2] = 0 THEN "ScopeReady" ELSE "ScopeStopping">>

ScopeArgument(arg) ==
    <<"proxy", [endpoint |-> arg[2].endpoint, id |-> arg[2].id, category |-> arg[2].category]>>

RunArgument(arg) ==
    <<"proxy", [endpoint |-> arg[2].endpoint, id |-> arg[2].id, category |-> arg[2].category]>>

Unmarshaled(op, arg) ==
    CASE op \in QueryOps -> ScopeArgument(arg)
      [] op = "run" -> RunArgument(arg)
      [] op \in {"push", "finished", "info"} -> ReplyArgument(arg)
      [] op = "push_state" -> StateArgument(arg)
      [] OTHER -> arg

(* The exceptions that a handler of RegistryI catches.                     *)
Caught(op) ==
    CASE op = "locate" -> {"NotFound", "RegistryException"}
      [] op \in {"get_metadata", "is_scope_running"} -> {"NotFound"}
      [] OTHER -> {}

(* The handler, and safe_dispatch_() for what it does not catch.           *)
Answer(op, outcome) ==
    IF outcome[1] = "value" THEN <<"SUCCESS", outcome[2]>>
    ELSE IF outcome[1] \in Caught(op) THEN <<"USER_EXCEPTION", outcome>>
    ELSE <<"RUNTIME_EXCEPTION", <<"unknown", outcome[2]>>>>

(* The answers when there is no servant, or no such operation.             *)
ObjectNotExist(op) == <<"RUNTIME_EXCEPTION", <<"objectNotExist", op>>>>

OperationNotExist(op) == <<"RUNTIME_EXCEPTION", <<"operationNotExist", op>>>>

(* ObjectAdapter::dispatch(), ServantBase::dispatch_().                    *)
Dispatch ==
    LET op == request[2]
        respond(r) == response' = IF op \in OnewayOps THEN <<"nothing">> ELSE r
    IN  /\ request # NoCall /\ request' = NoCall
        /\ CASE ~ exists -> /\ respond(ObjectNotExist(op))
                            /\ called' = NoCall /\ done' = <<"no object">>
             [] exists /\ op = "ping" -> /\ respond(<<"SUCCESS", "void">>)
                                         /\ called' = NoCall /\ done' = <<"value", "void">>
             [] exists /\ op = "unknown" -> /\ respond(OperationNotExist(op))
                                            /\ called' = NoCall /\ done' = <<"no operation">>
             [] OTHER -> \E outcome \in Values(op) \cup Exceptions :
                            /\ op = "debug_mode" => outcome = <<"value", debug>>
                            /\ called' = <<op, Unmarshaled(op, request[3])>>
                            /\ done' = outcome
                            /\ respond(Answer(op, outcome))
        /\ UNCHANGED <<exists, debug, cached, passed, timeout, result, calls>>

-----------------------------------------------------------------------------
(* throw_if_runtime_exception().                                           *)
RuntimeException(e) ==
    IF e[1] = "objectNotExist" THEN <<"ObjectNotExistException">> ELSE <<"MiddlewareException", e[2]>>

(* The rest of the proxy's method.                                         *)
Decode(op, r) ==
    CASE r[1] = "nothing" -> <<"sent">>
      [] r[1] = "RUNTIME_EXCEPTION" -> RuntimeException(r[2])
      [] r[1] = "USER_EXCEPTION" -> r[2]
      [] r[1] = "SUCCESS" -> <<"value", r[2]>>

(* The operation of the call that is answered.                             *)
Answered == IF called # NoCall THEN called[1] ELSE "unknown"

Return ==
    /\ response # NoCall /\ response' = NoCall
    /\ result' = Decode(Answered, response)
    /\ cached' = IF Answered = "debug_mode" THEN IF response[2] THEN "debug" ELSE "normal" ELSE cached
    /\ UNCHANGED <<exists, debug, passed, request, timeout, called, done, calls>>

(* The servant comes and goes; the scope may be started in another mode.   *)
Restart ==
    /\ request = NoCall /\ response = NoCall /\ calls < MaxCalls
    /\ exists' \in BOOLEAN /\ debug' \in BOOLEAN /\ <<exists, debug>>' # <<exists, debug>>
    /\ passed' = NoCall /\ called' = NoCall /\ done' = NoCall /\ result' = NoCall
    /\ UNCHANGED <<cached, request, timeout, response, calls>>

Init ==
    /\ exists \in BOOLEAN /\ debug \in BOOLEAN /\ cached = "unknown"
    /\ passed = NoCall /\ request = NoCall /\ timeout = "none" /\ called = NoCall /\ done = NoCall
    /\ response = NoCall /\ result = NoCall /\ calls = 0

Next ==
    \/ \E c \in Calls : Call(c[1], c[2])
    \/ Dispatch \/ Return \/ Restart

Spec == Init /\ [][Next]_vars

-----------------------------------------------------------------------------
(* The delegate was given what the caller passed, except that a code that  *)
(* is not known is Unknown, and that only search() and run() keep the      *)
(* category of a proxy.                                                    *)
AsPassed(got, op, arg) ==
    CASE op = "info" -> got[2] = IF arg[2] \in 0..LastInfoCode THEN arg[2] ELSE Unknown
      [] op \in QueryOps \ {"search"} ->
           got[2].endpoint = arg[2].endpoint /\ got[2].id = arg[2].id
      [] OTHER -> got = arg

(* A remote call is a local call: the delegate is called with what was     *)
(* passed and the caller gets its value, or the exception that the         *)
(* operation declares.  Other exceptions arrive as MiddlewareException,    *)
(* and a oneway call says nothing about its outcome.                       *)
RemoteAsLocal ==
    /\ called # NoCall => called[1] = passed[1] /\ AsPassed(called[2], passed[1], passed[2])
    /\ result # NoCall =>
          CASE called # NoCall /\ called[1] \in OnewayOps -> result = <<"sent">>
            [] done = <<"no object">> -> result \in {<<"ObjectNotExistException">>, <<"sent">>}
            [] done = <<"no operation">> -> result[1] = "MiddlewareException"
            [] done[1] = "value" -> result = done
            [] OTHER ->
                 IF \/ done[1] = "NotFound" /\ Answered \in {"get_metadata", "locate", "is_scope_running"}
                    \/ done[1] = "RegistryException" /\ Answered = "locate"
                 THEN result = done ELSE result = <<"MiddlewareException", done[2]>>

=============================================================================
