----------------------------- MODULE ScopeLoader ----------------------------
(* ScopeLoader and the DynamicLoader below it: loading the library of a    *)
(* scope, starting, stopping and destroying the scope.                     *)
EXTENDS Integers, FiniteSets

CONSTANTS Paths,        \* libraries
          MaxCalls

VARIABLES files,        \* path -> what dlopen() finds
          handles,      \* handles_: the libraries that stay open
          path,         \* the library of the loader, or ""
          state,        \* scope_state_, or "none"
          scope,        \* what happened to the scope: started, stopped, destroyed ...
          thrown,       \* the exception of the last call
          calls

vars == <<files, handles, path, state, scope, thrown, calls>>

Kinds == {"none", "no symbols", "no scope", "good"}

(* DynamicLoader(): a library that is not to be closed is opened once.     *)
Open(p) == p \in handles \/ files[p] # "none"

(* ScopeLoader(): the symbols are looked up, then the scope is made.       *)
Load(p) ==
    /\ state = "none" /\ calls < MaxCalls /\ calls' = calls + 1
    /\ handles' = IF Open(p) THEN handles \cup {p} ELSE handles
    /\ IF Open(p) /\ files[p] = "good"
       THEN path' = p /\ state' = "Stopped" /\ thrown' = "" /\ scope' = <<"new", 0, 0>>
       ELSE thrown' = "ResourceException" /\ UNCHANGED <<path, state, scope>>
    /\ UNCHANGED files

(* A scope is <<"new" or "destroyed", starts that returned, stops>>.       *)
Start ==
    /\ state # "none" /\ calls < MaxCalls /\ calls' = calls + 1
    /\ CASE state = "Started" -> thrown' = "" /\ UNCHANGED <<state, scope>>
         [] state \in {"Finished", "Failed"} -> thrown' = "LogicException" /\ UNCHANGED <<state, scope>>
         [] state = "Stopped" ->
               \/ state' = "Started" /\ thrown' = "" /\ scope' = [scope EXCEPT ![2] = @ + 1]
               \/ state' = "Failed" /\ thrown' = "ResourceException" /\ UNCHANGED scope
    /\ UNCHANGED <<files, handles, path>>

(* stop(), which unload() also calls.                                      *)
DoStop ==
    CASE state = "Stopped" -> thrown' = "" /\ UNCHANGED <<state, scope>>
      [] state \in {"Finished", "Failed"} -> thrown' = "LogicException" /\ UNCHANGED <<state, scope>>
      [] state = "Started" ->
            /\ scope' = [scope EXCEPT ![3] = @ + 1]
            /\ \/ state' = "Stopped" /\ thrown' = ""
               \/ state' = "Failed" /\ thrown' = "ResourceException"

Stop ==
    /\ state # "none" /\ calls < MaxCalls /\ calls' = calls + 1
    /\ DoStop /\ UNCHANGED <<files, handles, path>>

(* Mutant: a scope that runs is destroyed.                                 *)
UnloadRunning ==
    /\ state # "none" /\ calls < MaxCalls /\ calls' = calls + 1
    /\ state' = "Finished" /\ thrown' = ""
    /\ scope' = [scope EXCEPT ![1] = "destroyed"]
    /\ UNCHANGED <<files, handles, path>>

Unload ==
    /\ state # "none" /\ calls < MaxCalls /\ calls' = calls + 1
    /\ CASE state \in {"Failed", "Finished"} -> state' = "Finished" /\ thrown' = "" /\ UNCHANGED scope
         [] state = "Stopped" ->
               state' = "Finished" /\ thrown' = "" /\ scope' = [scope EXCEPT ![1] = "destroyed"]
         [] state = "Started" ->
               \/ state' = "Finished" /\ thrown' = "" /\ scope' = [scope EXCEPT ![1] = "destroyed", ![3] = @ + 1]
               \/ state' = "Failed" /\ thrown' = "ResourceException" /\ scope' = [scope EXCEPT ![3] = @ + 1]
    /\ UNCHANGED <<files, handles, path>>

(* ~ScopeLoader(): unload() without its exception; scope_base_ destroys    *)
(* what is left.  A loader for another scope may follow.                   *)
Destroy ==
    /\ state # "none" /\ calls < MaxCalls /\ calls' = calls + 1
    /\ state' = "none" /\ path' = "" /\ thrown' = ""
    /\ scope' = <<"destroyed", scope[2], IF state = "Started" THEN scope[3] + 1 ELSE scope[3]>>
    /\ UNCHANGED <<files, handles>>

Init ==
    /\ files \in [Paths -> Kinds] /\ handles = {} /\ path = "" /\ state = "none"
    /\ scope = <<"destroyed", 0, 0>> /\ thrown = "" /\ calls = 0

Next == (\E p \in Paths : Load(p)) \/ Start \/ Stop \/ Unload \/ Destroy

Spec == Init /\ [][Next]_vars

-----------------------------------------------------------------------------
(* A scope is stopped once for every time that it was started, before it   *)
(* is destroyed; never when start() threw.                                 *)
StartsAndStops ==
    /\ scope[3] <= scope[2]
    /\ scope[1] = "destroyed" => scope[2] = scope[3]
    /\ state \in {"Stopped", "Failed"} => scope[2] = scope[3]

=============================================================================
