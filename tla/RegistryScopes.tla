--------------------------- MODULE RegistryScopes ---------------------------
(* The list of scopes of the registry (RegistryObject.cpp): local scopes   *)
(* are added and removed by the watchers of the install directories,       *)
(* remote ones come from the registry of the smart scopes proxy at every   *)
(* call of list() and get_metadata().  Subscribers hear of changes by an   *)
(* empty message and ask for the list again.  A .desktop file is kept for  *)
(* each local scope.  The processes of the scopes are in module Registry.  *)
EXTENDS Naturals, TLC, Functions

CONSTANTS Ids,          \* ids of scopes
          Versions,     \* contents of a scope's metadata
          MaxChanges    \* bound on additions, removals and remote updates

VARIABLES scopes,      \* scopes_: the local scopes, id -> metadata
          files,       \* the .desktop files on disk, id -> metadata
          old,         \* ids of the files there when the registry started
          generate,    \* generate_desktop_files_
          writable,    \* whether files can be created in desktop_files_dir()
          remote,      \* the smart scopes registry's list, id -> metadata
          up,          \* whether that registry answers
          toRegistry,  \* messages it published, not yet received
          toClients,   \* messages the registry published, not yet received
          remover,     \* the thread in remove_local_scope()
          lister,      \* a subscriber's call of list()
          known,       \* the list that subscriber has
          heard,       \* the remote scopes in it, and whether it had a chance to
                       \* hear of every change of them since
          getter,      \* another client's call of get_metadata()
          changes      \* number of changes

vars == <<scopes, files, old, generate, writable, remote, up, toRegistry,
          toClients, remover, lister, known, heard, getter, changes>>
disk == <<files, old, generate, writable>>
proxyVars == <<remote, up, toRegistry>>
clientVars == <<lister, known, heard, getter>>

None == << >>
Maps == UNION {[D -> Versions] : D \in SUBSET Ids}
Without(f, id) == Restrict(f, DOMAIN f \ {id})
Idle == [at |-> "idle"]
Heard(m) == [scopes |-> m, current |-> TRUE]

(* create_desktop_file(): overwrites; fails if the file cannot be created. *)
CreateDesktopFile(f, id, v) == IF generate /\ writable THEN (id :> v) @@ f ELSE f

RemoveDesktopFile(f, id) == IF generate THEN Without(f, id) ELSE f

Init ==
    /\ scopes = None /\ remote \in Maps /\ up = TRUE
    /\ files \in {None} \cup {id :> v : id \in Ids, v \in Versions}
    /\ old = DOMAIN files
    /\ generate \in BOOLEAN /\ writable \in BOOLEAN
    /\ toRegistry = 0 /\ toClients = 0 /\ changes = 0
    /\ remover = Idle /\ lister = Idle /\ getter = Idle
    /\ known = remote /\ heard = Heard(remote)

Change == changes < MaxChanges /\ changes' = changes + 1

AddFileFirst(id, v) ==
    /\ Change
    /\ scopes' = (id :> v) @@ scopes
    /\ toClients' = toClients + 1
    /\ files' = LET made == CreateDesktopFile(files, id, v)
                IN  IF id \in DOMAIN scopes THEN RemoveDesktopFile(made, id) ELSE made
    /\ UNCHANGED <<old, generate, writable, remote, up, toRegistry, remover,
                   lister, known, heard, getter>>

(* add_local_scope(), under the lock: an entry of the same id is replaced. *)
(* Subscribers are told before the .desktop file is written, which may     *)
(* throw.                                                                  *)
AddLocalScope(id, v) ==
    /\ Change
    /\ scopes' = (id :> v) @@ scopes
    /\ toClients' = toClients + 1
    /\ files' = LET kept == IF id \in DOMAIN scopes THEN RemoveDesktopFile(files, id)
                            ELSE files
                IN  CreateDesktopFile(kept, id, v)
    /\ UNCHANGED <<old, generate, writable, remote, up, toRegistry, remover,
                   lister, known, heard, getter>>

(* remove_local_scope(): the process found under the lock is killed without*)
(* it, then the entry, whichever it is by then, is erased under the lock   *)
(* and subscribers are told after unlocking.                               *)
RemoveFind(id) ==
    /\ remover = Idle /\ Change
    /\ remover' = [at |-> "erase", id |-> id]
    /\ UNCHANGED <<scopes, disk, proxyVars, toClients, clientVars>>
RemoveErase ==
    /\ remover.at = "erase"
    /\ IF remover.id \in DOMAIN scopes
       THEN /\ scopes' = Without(scopes, remover.id)
            /\ files' = RemoveDesktopFile(files, remover.id)
            /\ remover' = [at |-> "publish"]
       ELSE remover' = Idle /\ UNCHANGED <<scopes, files>>
    /\ changes' = changes + 1
    /\ UNCHANGED <<old, generate, writable, proxyVars, toClients, clientVars>>
RemovePublish ==
    /\ remover.at = "publish"
    /\ remover' = Idle
    /\ toClients' = toClients + 1
    /\ UNCHANGED <<scopes, disk, proxyVars, clientVars, changes>>

(* SSRegistryObject: the remote list is replaced, and a message published  *)
(* if there are other ids than before: "changes to scope metadata          *)
(* attributes are not detected".  See RemoteScopes for URLs and settings.  *)
RemoteChanges(m) ==
    /\ up /\ m # remote /\ Change
    /\ remote' = m
    /\ IF DOMAIN m # DOMAIN remote THEN toRegistry' = toRegistry + 1 /\ UNCHANGED heard
       ELSE heard' = [heard EXCEPT !.current = FALSE] /\ UNCHANGED toRegistry
    /\ UNCHANGED <<scopes, disk, up, toClients, remover, lister, known, getter>>

(* The process of that registry ends, or starts: the list it starts with   *)
(* is there before its publisher, and not published.                       *)
RemoteStops ==
    /\ up /\ up' = FALSE /\ Change
    /\ UNCHANGED <<scopes, disk, remote, toRegistry, toClients, remover, clientVars>>
RemoteStarts(m) ==
    /\ ~up /\ up' = TRUE /\ Change
    /\ remote' = m
    /\ heard' = [heard EXCEPT !.current = FALSE]
    /\ UNCHANGED <<scopes, disk, toRegistry, toClients, remover, lister, known, getter>>

SsListIgnored ==
    /\ toRegistry > 0
    /\ toRegistry' = toRegistry - 1
    /\ UNCHANGED <<scopes, disk, remote, up, toClients, remover, clientVars, changes>>

(* ss_list_update(): the message is passed on.                             *)
SsListUpdate ==
    /\ toRegistry > 0
    /\ toRegistry' = toRegistry - 1
    /\ toClients' = toClients + 1
    /\ UNCHANGED <<scopes, disk, remote, up, remover, clientVars, changes>>

(* list(): the local scopes, copied under the lock, then the remote ones   *)
(* without it; insert() keeps the local one of two of the same id.  A      *)
(* failure of the remote registry leaves the local scopes.  The subscriber *)
(* calls it on every message it receives.                                  *)
ListLocal ==
    /\ lister = Idle /\ toClients > 0
    /\ toClients' = toClients - 1
    /\ lister' = [at |-> "remote", all |-> scopes]
    /\ UNCHANGED <<scopes, disk, proxyVars, remover, known, heard, getter, changes>>
ListRemoteOverwrites ==
    /\ lister.at = "remote"
    /\ known' = IF up THEN remote @@ lister.all ELSE lister.all
    /\ heard' = IF up THEN Heard(remote) ELSE [scopes |-> None, current |-> FALSE]
    /\ lister' = Idle
    /\ UNCHANGED <<scopes, disk, proxyVars, toClients, remover, getter, changes>>

ListRemote ==
    /\ lister.at = "remote"
    /\ known' = IF up THEN lister.all @@ remote ELSE lister.all
    /\ heard' = IF up THEN Heard(remote) ELSE [scopes |-> None, current |-> FALSE]
    /\ lister' = Idle
    /\ UNCHANGED <<scopes, disk, proxyVars, toClients, remover, getter, changes>>

(* get_metadata(): likewise, for one id.                                   *)
Answer(id, found, since) == [at |-> "done", id |-> id, found |-> found, since |-> since]
GetMetadata(id) ==
    /\ getter = Idle
    /\ getter' = IF id \in DOMAIN scopes THEN Answer(id, {scopes[id]}, changes)
                 ELSE [at |-> "remote", id |-> id, since |-> changes]
    /\ UNCHANGED <<scopes, disk, proxyVars, toClients, remover, lister, known, heard,
                   changes>>
GetRemote ==
    /\ getter.at = "remote"
    /\ getter' = Answer(getter.id,
                        IF up /\ getter.id \in DOMAIN remote THEN {remote[getter.id]} ELSE {},
                        getter.since)
    /\ UNCHANGED <<scopes, disk, proxyVars, toClients, remover, lister, known, heard,
                   changes>>
Got ==
    /\ getter.at = "done" /\ getter' = Idle
    /\ UNCHANGED <<scopes, disk, proxyVars, toClients, remover, lister, known, heard,
                   changes>>

(* The session ends and starts again: only files remain.                   *)
Restart ==
    /\ Change
    /\ scopes' = None /\ old' = DOMAIN files
    /\ toRegistry' = 0 /\ toClients' = 0
    /\ remover' = Idle /\ lister' = Idle /\ getter' = Idle
    /\ known' = remote /\ heard' = Heard(remote) /\ up' = TRUE
    /\ UNCHANGED <<files, generate, writable, remote>>

Next ==
    \/ \E id \in Ids, v \in Versions : AddLocalScope(id, v)
    \/ \E id \in Ids : RemoveFind(id) \/ GetMetadata(id)
    \/ RemoveErase \/ RemovePublish
    \/ \E m \in Maps : RemoteChanges(m) \/ RemoteStarts(m)
    \/ RemoteStops \/ SsListUpdate \/ ListLocal \/ ListRemote
    \/ GetRemote \/ Got \/ Restart

Spec == Init /\ [][Next]_vars

(* Once every message is received and answered by a call of list(), a      *)
(* subscriber has the registry's scopes: every local one, and every remote *)
(* one whose id no local scope has, as they were at its last call, and as  *)
(* they are unless the remote registry did not answer, changed no more     *)
(* than metadata or was started again.  get_metadata() finds the same      *)
(* metadata if nothing changed during the call ("Local scopes take         *)
(* precedence over remote ones of the same id.", RegistryObject.cpp).      *)
KnownScopes ==
    /\ (toRegistry = 0 /\ toClients = 0 /\ remover.at # "publish" /\ lister = Idle)
         => known = scopes @@ heard.scopes /\ (heard.current => heard.scopes = remote)
    /\ (getter.at = "done" /\ getter.since = changes /\ up)
         => getter.found = LET all == scopes @@ remote
                           IN  IF getter.id \in DOMAIN all THEN {all[getter.id]} ELSE {}

(* If files can be written every local scope has a .desktop file with its  *)
(* metadata, and any other file was left by an earlier registry            *)
(* (create_desktop_file(), remove_desktop_file()).                         *)
DesktopFiles ==
    generate =>
      /\ writable => \A id \in DOMAIN scopes : id \in DOMAIN files /\ files[id] = scopes[id]
      /\ DOMAIN files \subseteq DOMAIN scopes \cup old

=============================================================================
