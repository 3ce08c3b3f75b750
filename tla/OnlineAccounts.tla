---------------------------- MODULE OnlineAccounts --------------------------
(* OnlineAccountClientImpl with its own main loop: the thread of the loop, *)
(* in which the accounts backend and the sign-on service call back; the    *)
(* thread of the scope, which sets its callback, refreshes the statuses or *)
(* asks for them; and the thread that calls the scope's callback.          *)
EXTENDS Integers, FiniteSets, FiniteSetsExt, Sequences, TLC

CONSTANTS Accounts,     \* their numbers, which the backend never uses again
          MaxInfos,     \* AccountInfo objects
          MaxChanges,   \* changes of the accounts
          MaxCalls      \* calls of the scope

VARIABLES world,        \* account -> "absent", "off", "on" or "gone" (external)
          events,       \* signals for the main loop (external)
          infos,        \* the AccountInfo objects made
          accounts,     \* accounts_: account -> info, 0 for none
          logins,       \* sign-on processes: [n, info, cancelled]
          mutex,        \* who holds mutex_
          callback,     \* is there a callback_?
          callbackMutex,\* who holds callback_mutex_
          pc,           \* the threads "loop" and "user", and callback_thread_
          reported,     \* account -> the status that the callback heard of
          missed,       \* accounts that set_service_update_callback() missed
          answers,      \* accounts that get_service_statuses() did not wait for
          count,        \* [session, change, call]: for the bounds
          asked,        \* the scope refreshed or asked for the statuses
          wrong         \* what must not happen and did

vars == <<world, events, infos, accounts, logins, mutex, callback, callbackMutex, pc,
          reported, missed, answers, count, asked, wrong>>

Present == {a \in Accounts : world[a] \in {"off", "on"}}
Known == {a \in Accounts : accounts[a] # 0}
Idle == [at |-> "idle"]
NoThread == [at |-> "none"]

(* info_to_details(): what the scope gets to see.                          *)
Details(x) == [enabled |-> x.enabled, token |-> x.enabled /\ x.data]

-----------------------------------------------------------------------------
(* The user changes the accounts: the backend emits its signals.           *)
Connected(a) == {i \in DOMAIN infos : infos[i].account = a /\ infos[i].connected}

Change(a) ==
    /\ count.change < MaxChanges /\ count' = [count EXCEPT !.change = @ + 1]
    /\ \/ /\ world[a] = "absent" /\ \E w \in {"off", "on"} : world' = [world EXCEPT ![a] = w]
          /\ events' = Append(events, <<"account", a>>)
       \/ /\ a \in Present
          /\ world' = [world EXCEPT ![a] = IF @ = "on" THEN "off" ELSE "on"]
          /\ events' = events \o <<<<"service", a>>, <<"account", a>>>>
       \/ /\ world[a] = "off" /\ world' = [world EXCEPT ![a] = "gone"]
          /\ events' = Append(events, <<"deleted", a>>)
    /\ UNCHANGED <<infos, accounts, logins, mutex, callback, callbackMutex, pc, reported, missed,
                   answers, asked, wrong>>

-----------------------------------------------------------------------------
(* The session of an AccountInfo is cancelled: its process will fail.      *)
Cancelled(i) == {IF l.n = infos[i].session THEN [l EXCEPT !.cancelled = TRUE] ELSE l : l \in logins}

(* service_update_cb(): a process under way is cancelled; a new one is     *)
(* started for a service that is enabled.  The scope is told if that fails *)
(* or the service is not enabled.                                          *)
Update(t, i, next) ==
    LET on == world[infos[i].account] = "on"
        n  == count.session + 1
        tell == pc' = [pc EXCEPT ![t] = [at |-> "callback", info |-> i, next |-> next]]
    IN  \/ /\ on
          /\ infos' = [infos EXCEPT ![i].enabled = TRUE, ![i].session = n]
          /\ logins' = Cancelled(i) \cup {[n |-> n, info |-> i, cancelled |-> FALSE]}
          /\ count' = [count EXCEPT !.session = n] /\ pc' = [pc EXCEPT ![t] = next]
       \/ /\ on
          /\ infos' = [infos EXCEPT ![i].enabled = TRUE, ![i].session = 0]
          /\ logins' = Cancelled(i) /\ tell /\ UNCHANGED count
       \/ /\ ~on
          /\ infos' = [infos EXCEPT ![i].enabled = FALSE]
          /\ logins' = Cancelled(i) /\ tell /\ UNCHANGED count

(* callback(): a thread that was started before is waited for, without the *)
(* mutex.                                                                  *)
Joinable == pc["callback"] # NoThread

TestJoinable(t) ==
    /\ pc[t].at = "callback" /\ callbackMutex = "" /\ Joinable
    /\ pc' = [pc EXCEPT ![t].at = "join"]
    /\ UNCHANGED <<world, events, infos, accounts, logins, mutex, callback, callbackMutex,
                   reported, missed, answers, count, asked, wrong>>

Join(t) ==
    /\ pc[t].at = "join" /\ pc["callback"].at \in {"none", "done"}
    /\ wrong' = IF Joinable THEN wrong ELSE wrong \cup {"joined twice"}
    /\ pc' = [pc EXCEPT ![t].at = "spawn", !["callback"] = NoThread]
    /\ UNCHANGED <<world, events, infos, accounts, logins, mutex, callback, callbackMutex,
                   reported, missed, answers, count, asked>>

(* Then the scope's callback is called in a thread of its own.             *)
Spawn(t) ==
    /\ pc[t].at = "spawn" \/ (pc[t].at = "callback" /\ ~ Joinable)
    /\ callbackMutex = ""
    /\ LET i == pc[t].info IN
       /\ pc' = [pc EXCEPT ![t] = pc[t].next,
                           !["callback"] = [at |-> "start", account |-> infos[i].account,
                                            status |-> Details(infos[i])]]
       /\ infos' = [infos EXCEPT ![i].session = 0]
    /\ wrong' = IF Joinable THEN wrong \cup {"terminate"} ELSE wrong
    /\ UNCHANGED <<world, events, accounts, logins, mutex, callback, callbackMutex,
                   reported, missed, answers, count, asked>>

(* The thread: without a callback_ the status is lost.  The scope's        *)
(* callback may ask for the statuses.                                      *)
Callback ==
    /\ pc["callback"].at = "start" /\ callbackMutex = ""
    /\ IF callback
       THEN /\ reported' = [reported EXCEPT ![pc["callback"].account] = <<pc["callback"].status>>]
            /\ missed' = missed \ {pc["callback"].account}
            /\ \/ /\ pc' = [pc EXCEPT !["callback"] = [at |-> "done"]]
                  /\ UNCHANGED <<callbackMutex, asked>>
               \/ /\ pc' = [pc EXCEPT !["callback"] = [at |-> "statuses", from |-> 0,
                                                       next |-> [at |-> "return"]]]
                  /\ callbackMutex' = "callback" /\ asked' = TRUE
       ELSE /\ pc' = [pc EXCEPT !["callback"] = [at |-> "done"]]
            /\ UNCHANGED <<reported, missed, callbackMutex, asked>>
    /\ UNCHANGED <<world, events, infos, accounts, logins, mutex, callback, answers, count, wrong>>

CallbackReturn ==
    /\ pc["callback"].at = "return"
    /\ pc' = [pc EXCEPT !["callback"] = [at |-> "done"]] /\ callbackMutex' = ""
    /\ UNCHANGED <<world, events, infos, accounts, logins, mutex, callback, reported, missed,
                   answers, count, asked, wrong>>

-----------------------------------------------------------------------------
(* account_enabled_cb(), by either thread: an account that is not known.   *)
Enable(t) ==
    /\ pc[t].at = "enable" /\ mutex = ""
    /\ LET a == pc[t].account  i == Len(infos) + 1 IN
       IF a \in Known \/ a \notin Present
       THEN pc' = [pc EXCEPT ![t] = pc[t].next] /\ UNCHANGED infos
       ELSE /\ i <= MaxInfos
            /\ infos' = Append(infos, [account |-> a, enabled |-> FALSE, session |-> 0, data |-> FALSE,
                                       connected |-> TRUE, alive |-> TRUE])
            /\ pc' = [pc EXCEPT ![t] = [at |-> "initial", info |-> i, next |-> pc[t].next]]
    /\ UNCHANGED <<world, events, accounts, logins, mutex, callback, callbackMutex, reported, missed,
                   answers, count, asked, wrong>>

Initial(t) ==
    /\ pc[t].at = "initial"
    /\ Update(t, pc[t].info, [at |-> "add", info |-> pc[t].info, next |-> pc[t].next])
    /\ UNCHANGED <<world, events, accounts, mutex, callback, callbackMutex, reported, missed,
                   answers, asked, wrong>>

(* insert() leaves an account alone that is there; the info then goes, but *)
(* not the connection of its signal.                                       *)
AddAccount(t) ==
    /\ pc[t].at = "add" /\ mutex = ""
    /\ LET i == pc[t].info  a == infos[i].account IN
       IF a \notin Known
       THEN accounts' = [accounts EXCEPT ![a] = i] /\ UNCHANGED <<infos, wrong>>
       ELSE /\ infos' = [infos EXCEPT ![i].alive = FALSE] /\ UNCHANGED accounts
            /\ wrong' = wrong \cup {"signal to freed"}
    /\ pc' = [pc EXCEPT ![t] = pc[t].next]
    /\ UNCHANGED <<world, events, logins, mutex, callback, callbackMutex, reported, missed,
                   answers, count, asked>>

-----------------------------------------------------------------------------
(* The main loop takes a signal, or the outcome of a process.  It also     *)
(* does in the loop that flush_pending_session() runs.                     *)
Looping == pc["loop"].at = "idle" \/ (pc["loop"].at = "flush" /\ mutex = "")

Dispatch ==
    /\ Looping /\ events # <<>> /\ events' = Tail(events)
    /\ LET kind == Head(events)[1]  a == Head(events)[2]  next == pc["loop"] IN
       CASE kind = "account" ->
              /\ pc' = [pc EXCEPT !["loop"] = [at |-> "enable", account |-> a, next |-> next]]
              /\ UNCHANGED <<infos, logins, count, wrong>>
         [] kind = "deleted" ->
              /\ pc' = [pc EXCEPT !["loop"] = [at |-> "remove", account |-> a, next |-> next]]
              /\ UNCHANGED <<infos, logins, count, wrong>>
         [] kind = "service" ->
              IF Connected(a) = {} THEN UNCHANGED <<pc, infos, logins, count, wrong>>
              ELSE LET i == CHOOSE x \in Connected(a) : TRUE IN
                   /\ Update("loop", i, next)
                   /\ wrong' = IF infos[i].alive THEN wrong ELSE wrong \cup {"freed"}
    /\ UNCHANGED <<world, accounts, mutex, callback, callbackMutex, reported, missed, answers, asked>>

(* service_login_cb().                                                     *)
Login(l) ==
    /\ Looping
    /\ logins' = logins \ {l}
    /\ IF ~infos[l.info].alive
       THEN wrong' = wrong \cup {"freed"} /\ UNCHANGED <<infos, pc>>
       ELSE /\ \E ok \in {~l.cancelled, FALSE} : infos' = [infos EXCEPT ![l.info].data = ok]
            /\ pc' = [pc EXCEPT !["loop"] = [at |-> "callback", info |-> l.info, next |-> pc["loop"]]]
            /\ UNCHANGED wrong
    /\ UNCHANGED <<world, events, accounts, mutex, callback, callbackMutex, reported, missed,
                   answers, count, asked>>

(* remove_account(): no more signals; then a process is waited for.        *)
Remove ==
    /\ pc["loop"].at = "remove" /\ mutex = ""
    /\ LET a == pc["loop"].account  i == accounts[a] IN
       IF i = 0 THEN pc' = [pc EXCEPT !["loop"] = pc["loop"].next] /\ UNCHANGED infos
       ELSE /\ infos' = [infos EXCEPT ![i].connected = FALSE]
            /\ pc' = [pc EXCEPT !["loop"] = [at |-> "flush", info |-> i, next |-> pc["loop"].next]]
    /\ UNCHANGED <<world, events, accounts, logins, mutex, callback, callbackMutex, reported, missed,
                   answers, count, asked, wrong>>

(* flush_pending_session() ends when the session is over, or after five    *)
(* seconds, when it is cancelled.                                          *)
Flushed ==
    /\ pc["loop"].at = "flush" /\ mutex = ""
    /\ LET i == pc["loop"].info  a == infos[i].account IN
       /\ logins' = Cancelled(i)
       /\ infos' = [infos EXCEPT ![i].session = 0, ![i].alive = FALSE]
       /\ accounts' = [accounts EXCEPT ![a] = 0]
       /\ reported' = [reported EXCEPT ![a] = <<>>]
    /\ pc' = [pc EXCEPT !["loop"] = pc["loop"].next]
    /\ UNCHANGED <<world, events, mutex, callback, callbackMutex, missed, answers, count, asked, wrong>>

-----------------------------------------------------------------------------
(* A call of the scope begins.                                             *)
Calls ==
    /\ pc["user"].at = "idle" /\ count.call < MaxCalls
    /\ count' = [count EXCEPT !.call = @ + 1]

(* refresh_service_statuses(): the known accounts with mutex_ held, then   *)
(* each account that there is.                                             *)
Refresh ==
    /\ Calls /\ mutex = "" /\ asked' = TRUE
    /\ mutex' = "user" /\ pc' = [pc EXCEPT !["user"] = [at |-> "known", left |-> Known]]
    /\ UNCHANGED <<world, events, infos, accounts, logins, callback, callbackMutex, reported, missed,
                   answers, wrong>>

RefreshKnown ==
    /\ pc["user"].at = "known"
    /\ IF pc["user"].left = {}
       THEN /\ pc' = [pc EXCEPT !["user"] = [at |-> "new", left |-> Present]] /\ mutex' = ""
            /\ UNCHANGED <<infos, logins, count>>
       ELSE LET a == Min(pc["user"].left) IN
            /\ Update("user", accounts[a], [at |-> "known", left |-> pc["user"].left \ {a}])
            /\ UNCHANGED mutex
    /\ UNCHANGED <<world, events, accounts, callback, callbackMutex, reported, missed, answers,
                   asked, wrong>>

RefreshNew(t) ==
    /\ pc[t].at = "new"
    /\ IF pc[t].left = {} THEN pc' = [pc EXCEPT ![t] = Idle]
       ELSE LET a == CHOOSE x \in pc[t].left : TRUE IN
            pc' = [pc EXCEPT ![t] = [at |-> "enable", account |-> a,
                                     next |-> [at |-> "new", left |-> pc[t].left \ {a}]]]
    /\ UNCHANGED <<world, events, infos, accounts, logins, mutex, callback, callbackMutex, reported,
                   missed, answers, count, asked, wrong>>

(* The constructor waits for construct(), which the loop calls first.      *)
Construct ==
    /\ pc["user"].at = "constructor" /\ pc["loop"].at = "idle"
    /\ pc' = [pc EXCEPT !["user"] = Idle]
    /\ UNCHANGED <<world, events, infos, accounts, logins, mutex, callback, callbackMutex, reported,
                   missed, answers, count, asked, wrong>>

(* set_service_update_callback(): with both mutexes the statuses of the    *)
(* accounts without a process are read, then the new callback is told,     *)
(* with callback_mutex_ held.  It may ask for the statuses.                *)
SetCallback(new) ==
    /\ Calls /\ mutex = "" /\ mutex' = "user"
    /\ pc' = [pc EXCEPT !["user"] = [at |-> "set", new |-> new]]
    /\ UNCHANGED <<world, events, infos, accounts, logins, callback, callbackMutex, reported, missed,
                   answers, asked, wrong>>

(* Mutant: the accounts that are known are left to their next change.      *)
KnownStatusesNone == {}

KnownStatuses ==
    {<<a, Details(infos[accounts[a]])>> : a \in {b \in Known : infos[accounts[b]].session = 0}}

(* An account is missed whose status went to no callback and that is about *)
(* to be added.                                                            *)
Unseen ==
    {infos[i].account : i \in {j \in DOMAIN infos :
        /\ pc["loop"].at = "add" /\ pc["loop"].info = j /\ infos[j].session = 0
        /\ ~ (pc["callback"].at = "start" /\ pc["callback"].account = infos[j].account)}}

Install ==
    /\ pc["user"].at = "set" /\ callbackMutex = ""
    /\ mutex' = "" /\ callback' = pc["user"].new
    /\ IF callback'
       THEN /\ pc' = [pc EXCEPT !["user"] = [at |-> "tell", left |-> KnownStatuses]]
            /\ callbackMutex' = "user"
            /\ reported' = [a \in Accounts |-> <<>>] /\ missed' = Unseen
       ELSE /\ pc' = [pc EXCEPT !["user"] = Idle]
            /\ UNCHANGED <<callbackMutex, reported, missed>>
    /\ UNCHANGED <<world, events, infos, accounts, logins, answers, count, asked, wrong>>

Tell ==
    /\ pc["user"].at = "tell"
    /\ IF pc["user"].left = {}
       THEN /\ pc' = [pc EXCEPT !["user"] = Idle] /\ callbackMutex' = ""
            /\ UNCHANGED <<reported, asked>>
       ELSE \E x \in pc["user"].left :
            LET next == [at |-> "tell", left |-> pc["user"].left \ {x}] IN
            /\ reported' = [reported EXCEPT ![x[1]] = <<x[2]>>]
            /\ \/ pc' = [pc EXCEPT !["user"] = next] /\ UNCHANGED asked
               \/ /\ pc' = [pc EXCEPT !["user"] = [at |-> "statuses", from |-> 0, next |-> next]]
                  /\ asked' = TRUE
            /\ UNCHANGED callbackMutex
    /\ UNCHANGED <<world, events, infos, accounts, logins, mutex, callback, missed, answers,
                   count, wrong>>

(* get_service_statuses(), by the scope's thread or its callback: for each *)
(* account with a process, mutex_ is released until the process is over or *)
(* five seconds have passed, when it is cancelled.                         *)
Busy(from) == {a \in Known : a > from /\ infos[accounts[a]].session # 0}

GetStatuses ==
    /\ Calls /\ asked' = TRUE
    /\ pc' = [pc EXCEPT !["user"] = [at |-> "statuses", from |-> 0, next |-> Idle]]
    /\ UNCHANGED <<world, events, infos, accounts, logins, mutex, callback, callbackMutex, reported,
                   missed, answers, wrong>>

Statuses(t) ==
    /\ pc[t].at = "statuses" /\ mutex = ""
    /\ LET from == pc[t].from
           busy == Busy(from)
       IN  IF from # 0 /\ from \notin Known
           THEN /\ wrong' = wrong \cup {"freed"} /\ pc' = [pc EXCEPT ![t] = pc[t].next]
                /\ UNCHANGED <<infos, logins, answers>>
           ELSE /\ IF from = 0 THEN UNCHANGED <<infos, logins>>
                   ELSE /\ logins' = Cancelled(accounts[from])
                        /\ infos' = [infos EXCEPT ![accounts[from]].session = 0]
                /\ IF busy = {}
                   THEN /\ pc' = [pc EXCEPT ![t] = pc[t].next]
                        /\ answers' = {a \in Known : \E l \in logins' : l.info = accounts[a] /\ ~l.cancelled}
                   ELSE pc' = [pc EXCEPT ![t].from = Min(busy)] /\ UNCHANGED answers
                /\ UNCHANGED wrong
    /\ UNCHANGED <<world, events, accounts, mutex, callback, callbackMutex, reported, missed, count, asked>>

Init ==
    /\ world \in [Accounts -> {"absent", "off", "on"}] /\ events = <<>> /\ infos = <<>>
    /\ accounts = [a \in Accounts |-> 0] /\ logins = {} /\ mutex = ""
    /\ callback = FALSE /\ callbackMutex = ""
    /\ pc = [loop |-> [at |-> "new", left |-> Present], user |-> [at |-> "constructor"],
             callback |-> NoThread]
    /\ reported = [a \in Accounts |-> <<>>] /\ missed = {} /\ answers = {}
    /\ count = [session |-> 0, change |-> 0, call |-> 0] /\ asked = FALSE /\ wrong = {}

Loop == Dispatch \/ (\E l \in logins : Login(l)) \/ Remove \/ Flushed
Both(t) == TestJoinable(t) \/ Join(t) \/ Spawn(t) \/ Enable(t) \/ Initial(t) \/ AddAccount(t) \/ RefreshNew(t)
User == Construct \/ RefreshKnown \/ Install \/ Tell \/ Statuses("user")
CallbackThread == Callback \/ CallbackReturn \/ Statuses("callback")

(* After undefined behaviour there is nothing more to say.                 *)
Next ==
    /\ wrong = {}
    /\ \/ \E a \in Accounts : Change(a)
       \/ Loop \/ User \/ CallbackThread \/ Refresh \/ GetStatuses
       \/ \E new \in BOOLEAN : SetCallback(new)
       \/ \E t \in {"loop", "user"} : Both(t)

Spec == Init /\ [][Next]_vars

(* The threads run; the sign-on service answers.                           *)
FairSpec ==
    /\ Spec /\ WF_vars(Loop \/ Both("loop")) /\ WF_vars(User \/ Both("user"))
    /\ WF_vars(CallbackThread)

-----------------------------------------------------------------------------
(* When nothing is under way, the services' statuses are those of the      *)
(* backend, and the callback that is set has heard of each of them,        *)
(* whenever it was set, whatever ran meanwhile.  Excepted is an account    *)
(* that account_enabled_cb() adds at the moment the callback is set.  (An  *)
(* account that is deleted while a refresh adds it stays known.)           *)
StatusReported ==
    (/\ wrong = {} /\ events = <<>> /\ logins = {} /\ pc["callback"].at \in {"none", "done"}
     /\ pc["loop"] = Idle /\ pc["user"] = Idle) =>
        /\ Present \subseteq Known
        /\ \A a \in Present :
              /\ infos[accounts[a]].enabled = (world[a] = "on")
              /\ callback /\ a \notin missed => reported[a] = <<Details(infos[accounts[a]])>>

(* No thread is overwritten or joined twice, and no signal is left to an   *)
(* AccountInfo that is gone, as long as the scope leaves                   *)
(* refresh_service_statuses() and get_service_statuses() alone and only    *)
(* sets its callback.                                                      *)
OneNotifier == wrong \subseteq {"freed"} \/ asked

(* The same whatever the scope calls, and no AccountInfo is used that is   *)
(* gone.                                                                   *)
AccountsSafe == wrong = {}

(* The callback hears of every account.                                    *)
NoneMissed == missed = {}

(* get_service_statuses() waits for the processes that are under way: "to  *)
(* ensure that accounts_ is up to date".                                   *)
StatusesAfterLogin == answers = {}

(* A call of the scope returns, also when the scope's callback asks for    *)
(* the statuses; the documentation only forbids it to refresh them.        *)
AccountCallsReturn == pc["user"].at \in {"known", "set"} ~> pc["user"].at = "idle"

=============================================================================
