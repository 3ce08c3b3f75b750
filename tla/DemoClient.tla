----------------------------- MODULE DemoClient -----------------------------
(* The example client (demo/client.cpp) with the example scopes: it        *)
(* searches, waits for the end and then activates or previews one of the   *)
(* results at the scope that it comes from.  Scopes A, S and N answer in   *)
(* run(), C and D from a queue (see QueueScopes), B forwards the results   *)
(* of C and D.  A call's messages arrive in order: the adapter for replies *)
(* has one thread.                                                         *)
EXTENDS Integers, Sequences, SequencesExt

CONSTANTS Scopes,       \* scopes that the command line may name
          Indices,      \* results that it may name
          MaxResults    \* results of the scopes C and D

Calls == {"search", "C", "D", "operation"}
Children == <<"C", "D">>

VARIABLES args,         \* the command line: scope, op and index
          main,         \* what main() does next
          status,       \* exit status, -1 while the client runs
          state,        \* of the calls: "none", "running", "sent", "heard"
          todo,         \* what the scope has yet to push
          wire,         \* what is on its way to the listener
          complete,     \* query_complete_ of the receivers
          asleep,       \* wait_until_finished() waits for condvar_
          count,        \* push_result_count_
          saved,        \* saved_result_
          sent,         \* results that the searched scope pushed
          failed        \* a scope's process died, or could not be reached
vars == <<args, main, status, state, todo, wire, complete, asleep, count, saved, sent,
          failed>>
callVars == <<state, todo, wire, sent, failed>>
receiverVars == <<complete, asleep, count, saved>>

None == <<"none">>
Finished == <<"finished">>
Notify == <<"notify">>
Res(s, i) == <<"result", s, i>>
ResultsOf(s) == [i \in 1 .. MaxResults |-> Res(s, i)]
IsResult(m) == m[1] = "result"

(* run() of the queries and previews of each scope: what it pushes.        *)
RunA == <<<<"departments">>, <<"filters">>, <<"category">>, Res("A", 1), <<"annotation">>>>
RunS == <<<<"category">>, Res("S", 1)>>
RunN == <<>>
RunB == <<<<"category">>>>
RunC == <<<<"category">>>> \o ResultsOf("C")
RunD == <<<<"category">>>> \o ResultsOf("D")
Run(s) == CASE s = "A" -> RunA [] s = "S" -> RunS [] s = "N" -> RunN
            [] s = "B" -> RunB [] s = "C" -> RunC [] s = "D" -> RunD
PreviewA == <<<<"layout">>, <<"widgets">>, <<"txt">>, <<"author">>, <<"rating">>>>
PreviewNone == <<>>
ActivateC == <<<<"response">>>>

(* Only the results of C intercept their activation; preview() of the      *)
(* other scopes than A returns no query, which is an error.                *)
DirectActivation(r) == r[2] # "C"
Operation(op, r) == CASE op = "activate" -> ActivateC
                      [] op = "preview" /\ r[2] = "A" -> PreviewA
                      [] OTHER -> PreviewNone

(* main() up to the run time: an index only comes with an operation.       *)
Init ==
    /\ args \in [scope : Scopes, op : {"list"}, index : {0}]
                \cup [scope : Scopes, op : {"none"}, index : {0}]
                \cup [scope : Scopes, op : {"activate", "preview"}, index : Indices]
    /\ main = "registry" /\ status = -1
    /\ state = [c \in Calls |-> "none"] /\ todo = [c \in Calls |-> <<>>]
    /\ wire = [c \in Calls |-> <<>>]
    /\ complete = [c \in Calls |-> FALSE] /\ asleep = [c \in Calls |-> FALSE]
    /\ count = 0 /\ saved = None /\ sent = <<>> /\ failed = FALSE

Exit(code) == main' = "ended" /\ status' = code

(* list() or get_metadata(), which throws for an unknown scope.            *)
AskRegistry ==
    /\ main = "registry"
    /\ \/ args.op = "list" /\ Exit(0)
       \/ args.op # "list" /\ main' = "search" /\ UNCHANGED status
       \/ Exit(1)
    /\ UNCHANGED <<args, callVars, receiverVars>>

Start(c, pushes) ==
    /\ state' = [state EXCEPT ![c] = "running"]
    /\ todo' = [todo EXCEPT ![c] = pushes]

(* search(), which may raise an exception.                                 *)
Search ==
    /\ main = "search"
    /\ \/ Exit(1) /\ UNCHANGED callVars
       \/ /\ Start("search", Run(args.scope))
          /\ main' = "wait" /\ UNCHANGED <<status, wire, sent, failed>>
    /\ UNCHANGED <<args, receiverVars>>

(* The scopes: a push, in the order of run().                              *)
Push(c) ==
    /\ state[c] = "running" /\ todo[c] # <<>>
    /\ todo' = [todo EXCEPT ![c] = Tail(@)]
    /\ wire' = [wire EXCEPT ![c] = Append(@, Head(todo[c]))]
    /\ sent' = IF c = "search" /\ IsResult(Head(todo[c])) THEN Append(sent, Head(todo[c])) ELSE sent
    /\ UNCHANGED <<args, main, status, state, failed, receiverVars>>

(* run() of scope B: its two subsearches.                                  *)
AtSubsearch(i) ==
    /\ args.scope = "B" /\ state["search"] = "running" /\ todo["search"] = <<>>
    /\ state[Children[i]] = "none" /\ \A j \in 1 .. i - 1 : state[Children[j]] # "none"
Subsearch(i) ==
    /\ AtSubsearch(i)
    /\ Start(Children[i], Run(Children[i]))
    /\ UNCHANGED <<args, main, status, wire, sent, failed, receiverVars>>

(* subsearch() throws, and so does run(): the reply is finished with an    *)
(* error; what C still answers goes nowhere.                               *)
SubsearchThrows(i) ==
    /\ AtSubsearch(i) /\ failed' = TRUE
    /\ state' = [state EXCEPT !["search"] = "sent"]
    /\ wire' = [wire EXCEPT !["search"] = Append(@, Finished)]
    /\ UNCHANGED <<args, main, status, todo, sent, receiverVars>>

(* The last copy of the reply proxy goes: with run(), or for B with the    *)
(* receiver of the subsearches.                                            *)
HasProxy(c) ==
    \/ todo[c] # <<>>
    \/ c = "search" /\ args.scope = "B" /\ \E d \in ToSet(Children) : state[d] # "heard"
EndOfReply(c) ==
    /\ state[c] = "running" /\ ~HasProxy(c)
    /\ state' = [state EXCEPT ![c] = "sent"]
    /\ wire' = [wire EXCEPT ![c] = Append(@, Finished)]
    /\ UNCHANGED <<args, main, status, todo, sent, failed, receiverVars>>

(* The process of a scope dies, and the reaper of the one who asked        *)
(* finishes the reply with an error.  One process dies at most.            *)
Dies(c) ==
    /\ state[c] = "running" /\ ~failed /\ failed' = TRUE
    /\ state' = [state EXCEPT ![c] = "sent"] /\ todo' = [todo EXCEPT ![c] = <<>>]
    /\ wire' = [wire EXCEPT ![c] = Append(@, Finished)]
    /\ UNCHANGED <<args, main, status, sent, receiverVars>>

(* The receiver of scope B: results go upstream while there is one.        *)
Forward(c) ==
    LET m == Head(wire[c])
        up == state["search"] = "running" /\ IsResult(m) IN
    /\ c \in ToSet(Children) /\ wire[c] # <<>>
    /\ wire' = [wire EXCEPT ![c] = Tail(@), !["search"] = IF up THEN Append(@, m) ELSE @]
    /\ sent' = IF up THEN Append(sent, m) ELSE sent
    /\ state' = IF m = Finished THEN [state EXCEPT ![c] = "heard"] ELSE state
    /\ UNCHANGED <<args, main, status, todo, failed, receiverVars>>

ReceiveQuietly ==
    LET m == Head(wire["search"]) IN
    /\ wire["search"] # <<>>
    /\ wire' = [wire EXCEPT !["search"] = Tail(@)]
    /\ complete' = IF m = Finished THEN [complete EXCEPT !["search"] = TRUE] ELSE complete
    /\ count' = IF IsResult(m) THEN count + 1 ELSE count
    /\ saved' = IF IsResult(m) /\ count' = args.index THEN m ELSE saved
    /\ UNCHANGED <<args, main, status, state, todo, sent, failed, asleep>>

(* Receiver: finished() stores and notifies in two steps.                  *)
Receive ==
    LET m == Head(wire["search"]) IN
    /\ wire["search"] # <<>>
    /\ wire' = [wire EXCEPT !["search"] = IF m = Finished THEN <<Notify>> \o Tail(@) ELSE Tail(@)]
    /\ complete' = IF m = Finished THEN [complete EXCEPT !["search"] = TRUE] ELSE complete
    /\ asleep' = IF m = Notify THEN [asleep EXCEPT !["search"] = FALSE] ELSE asleep
    /\ count' = IF IsResult(m) THEN count + 1 ELSE count
    /\ saved' = IF IsResult(m) /\ args.index > 0 /\ count' = args.index THEN m ELSE saved
    /\ UNCHANGED <<args, main, status, state, todo, sent, failed>>

(* ActivationReceiver and PreviewReceiver: finished() is one step.         *)
ReceiveOperation ==
    LET fin == Head(wire["operation"]) = Finished IN
    /\ wire["operation"] # <<>>
    /\ wire' = [wire EXCEPT !["operation"] = Tail(@)]
    /\ complete' = [complete EXCEPT !["operation"] = @ \/ fin]
    /\ asleep' = [asleep EXCEPT !["operation"] = @ /\ ~fin]
    /\ UNCHANGED <<args, main, status, state, todo, sent, failed, count, saved>>
ReceiveActivation == args.op = "activate" /\ ReceiveOperation
ReceivePreview == args.op = "preview" /\ ReceiveOperation

(* wait_until_finished(), for the query and for the operation.             *)
WaitUntilFinished(c, next) ==
    /\ ~asleep[c]
    /\ \/ complete[c] /\ next /\ UNCHANGED asleep
       \/ ~complete[c] /\ asleep' = [asleep EXCEPT ![c] = TRUE] /\ UNCHANGED <<main, status>>
    /\ UNCHANGED <<args, callVars, complete, count, saved>>
WaitForQuery ==
    main = "wait" /\ WaitUntilFinished("search", main' = "operate" /\ UNCHANGED status)
WaitForOperation == main = "waitOperation" /\ WaitUntilFinished("operation", Exit(0))

(* The end of main(): the operation, if any, on the saved result.          *)
Operate ==
    /\ main = "operate"
    /\ \/ args.index = 0 /\ Exit(0) /\ UNCHANGED callVars
       \/ args.index > 0 /\ saved = None /\ Exit(1) /\ UNCHANGED callVars
       \/ /\ args.index > 0 /\ saved # None
          /\ IF args.op = "activate" /\ DirectActivation(saved)
             THEN Exit(0) /\ UNCHANGED callVars
             ELSE \/ Exit(1) /\ UNCHANGED callVars
                  \/ /\ Start("operation", Operation(args.op, saved))
                     /\ main' = "waitOperation" /\ UNCHANGED <<status, wire, sent, failed>>
    /\ UNCHANGED <<args, receiverVars>>

(* What happens after the end of main() is nothing to the client.          *)
Next ==
    /\ main # "ended"
    /\ \/ AskRegistry \/ Search \/ WaitForQuery \/ Operate \/ WaitForOperation
       \/ Receive \/ ReceiveActivation \/ ReceivePreview
       \/ \E c \in Calls : Push(c) \/ EndOfReply(c) \/ Dies(c) \/ Forward(c)
       \/ \E i \in DOMAIN Children : Subsearch(i) \/ SubsearchThrows(i)

Spec == Init /\ [][Next]_vars

(* The client goes on from a search with all that the scope pushed, for B  *)
(* each result of its children once and in their order; it operates on the *)
(* result that the command line names; and whoever waits is still owed the *)
(* end of the reply, whatever scope died (Receiver, wait_until_finished(), *)
(* main() of the client, Receiver and MyQuery of scope B).                 *)
ClientServed ==
    /\ main \in {"operate", "waitOperation"} => count = Len(sent)
    /\ saved # None => args.index \in DOMAIN sent /\ saved = sent[args.index]
    /\ complete["search"] /\ ~failed /\ args.scope = "B" =>
         \A d \in ToSet(Children) : SelectSeq(sent, LAMBDA r : r[2] = d) = ResultsOf(d)
    /\ \A c \in Calls : asleep[c] =>
         state[c] = "running" \/ Finished \in ToSet(wire[c]) \/ Notify \in ToSet(wire[c])

=============================================================================
