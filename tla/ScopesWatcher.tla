---------------------------- MODULE ScopesWatcher ----------------------------
(* How the registry process keeps its table current while scopes are       *)
(* installed and removed: scoperegistry's main() fills the table, adds the *)
(* install directory to a ScopesWatcher, and the thread of its DirWatcher  *)
(* handles inotify's events.  There is one install directory; below it are *)
(* scope directories with at most one .ini file each, and every file has   *)
(* its own scope id, so a scope is named by its directory.                 *)
EXTENDS Integers, Sequences, FiniteSets

CONSTANTS Dirs,         \* the scope directories
          MaxOps        \* bound on what users do to the file system

VARIABLES ini,          \* directory -> its .ini file, Missing without a directory
          present,      \* the install directory is where it should be
          kernel,       \* the directories that inotify watches
          wds,          \* DirWatcher::wds_, the directories it knows to watch
          queue,        \* the events that were not yet read
          sdirs,        \* idir_to_sdirs_map_ for the install directory
          sdirIni,      \* the keys of sdir_to_ini_map_
          table,        \* the registry's table: directory -> version, 0 for no entry
          main,         \* <<step, directory, version read>> of main()
          thread,       \* the same for the watch thread
          todo,         \* the directories that main() has yet to add
          lost,         \* see WatcherSettled
          ops

vars == <<ini, present, kernel, wds, queue, sdirs, sdirIni, table, main,
          thread, todo, lost, ops>>

Root == "install dir"

(* An .ini file that was written completely has a version.                 *)
Missing == -3
None == -2
Blank == -1
Partial == 0
Good(file) == file > 0

Idle == <<"idle", Root, 0>>

Event(type, what, dir) == [type |-> type, what |-> what, dir |-> dir]

(* An event is reported for an entry of a directory that is watched.       *)
Report(dir, event) == queue' = IF dir \in kernel THEN Append(queue, event) ELSE queue

Starting == main[1] # "done"

-----------------------------------------------------------------------------
(* Users of the file system.  A file is created empty, may be seen half    *)
(* written, and is closed with its new version.                            *)
Op == ops < MaxOps /\ ops' = ops + 1 /\ present
      /\ UNCHANGED <<wds, sdirs, sdirIni, table, main, thread, todo>>

Undo(d) == lost' = IF Starting THEN lost \cup {d} ELSE lost

MkDir(d) ==
    /\ Op /\ ini[d] = Missing /\ ini' = [ini EXCEPT ![d] = None]
    /\ Report(Root, Event("Added", "Directory", d))
    /\ UNCHANGED <<present, kernel, lost>>

CreateIni(d) ==
    /\ Op /\ ini[d] = None /\ ini' = [ini EXCEPT ![d] = Blank]
    /\ Report(d, Event("Added", "File", d))
    /\ UNCHANGED <<present, kernel, lost>>

WriteIni(d) ==
    /\ Op /\ (ini[d] = Blank \/ Good(ini[d])) /\ ini' = [ini EXCEPT ![d] = Partial]
    /\ UNCHANGED <<present, kernel, queue, lost>>

CloseIni(d) ==
    /\ Op /\ ini[d] = Partial /\ ini' = [ini EXCEPT ![d] = ops + 1]
    /\ Report(d, Event("Modified", "File", d))
    /\ UNCHANGED <<present, kernel, lost>>

RemoveIni(d) ==
    /\ Op /\ ini[d] >= Blank /\ ini' = [ini EXCEPT ![d] = None]
    /\ Report(d, Event("Removed", "File", d))
    /\ Undo(d) /\ UNCHANGED <<present, kernel>>

(* A directory is deleted, or moved away with what is in it.               *)
RemoveDir(d) ==
    /\ Op /\ ini[d] # Missing /\ ini' = [ini EXCEPT ![d] = Missing]
    /\ Report(Root, Event("Removed", "Directory", d))
    /\ kernel' = kernel \ {d}
    /\ Undo(d) /\ UNCHANGED present

MoveIn(d) ==
    /\ Op /\ ini[d] = Missing /\ ini' = [ini EXCEPT ![d] = ops + 1]
    /\ Report(Root, Event("Added", "Directory", d))
    /\ UNCHANGED <<present, kernel, lost>>

(* The install directory is moved away with all it holds.  Its parent is   *)
(* watched.                                                                *)
MoveInstallDir ==
    /\ Op /\ ~ Starting
    /\ present' = FALSE
    /\ ini' = [d \in Dirs |-> Missing]
    /\ queue' = Append(queue, Event("Removed", "Directory", Root))
    /\ kernel' = {}
    /\ lost' = lost \cup (Dirs \ sdirs)

User ==
    \/ MoveInstallDir
    \/ \E d \in Dirs : \/ MkDir(d) \/ CreateIni(d) \/ WriteIni(d) \/ CloseIni(d)
                       \/ RemoveIni(d) \/ RemoveDir(d) \/ MoveIn(d)

-----------------------------------------------------------------------------
(* DirWatcher::add_watch(): nothing happens if the path is watched.        *)
AddWatch(d) ==
    /\ wds' = wds \cup {d}
    /\ kernel' = IF d \notin wds THEN kernel \cup {d} ELSE kernel

RemoveWatch(dirs) == wds' = wds \ dirs /\ kernel' = kernel \ dirs

(* ScopesWatcher::add_scope_dir(), after the watch was added: an empty     *)
(* file is left for the event of its completion; otherwise the callback    *)
(* loads the file and registers the scope.  Scanned is the rest of the     *)
(* step of whoever calls it.                                               *)
Scan(d, load, skip) ==
    IF ini[d] \in {Missing, None, Blank}
    THEN skip /\ UNCHANGED <<sdirs, sdirIni>>
    ELSE load /\ sdirs' = sdirs \cup {d} /\ sdirIni' = sdirIni \cup {d}

(* add_local_scope() of scoperegistry: a file that is gone or cannot be    *)
(* parsed is ignored.                                                      *)
Register(d, version) == table' = IF version > 0 THEN [table EXCEPT ![d] = version] ELSE table

RemoveLocalScopes(dirs) == table' = [d \in Dirs |-> IF d \in dirs THEN 0 ELSE table[d]]

(* The mutex of the watcher is held while the thread handles a file.       *)
Locked == thread[1] \in {"file", "fileload"}

-----------------------------------------------------------------------------
(* main(): the table is filled from the files found, then the install      *)
(* directory and its subdirectories are watched, and every scope in them   *)
(* is added again.                                                         *)
Find ==
    /\ main[1] = "find" /\ main' = <<"watch", Root, 0>>
    /\ table' = [d \in Dirs |-> IF Good(ini[d]) THEN ini[d] ELSE 0]
    /\ UNCHANGED <<ini, present, kernel, wds, queue, sdirs, sdirIni, thread, todo, lost, ops>>

AddInstallDir ==
    /\ main[1] = "watch" /\ main' = <<"add", Root, 0>>
    /\ AddWatch(Root)
    /\ todo' = {d \in Dirs : ini[d] # Missing}
    /\ UNCHANGED <<ini, present, queue, sdirs, sdirIni, table, thread, lost, ops>>

AddScopeDir ==
    /\ main[1] = "add"
    /\ \/ /\ todo = {} /\ main' = <<"done", Root, 0>>
          /\ UNCHANGED <<kernel, wds, todo>>
       \/ \E d \in todo :
              /\ todo' = todo \ {d}
              /\ main' = <<"scan", d, 0>>
              /\ IF ini[d] = Missing THEN UNCHANGED <<kernel, wds>> ELSE AddWatch(d)
    /\ UNCHANGED <<ini, present, queue, sdirs, sdirIni, table, thread, lost, ops>>

MainScan ==
    /\ main[1] = "scan" /\ ~ Locked
    /\ Scan(main[2], main' = <<"load", main[2], 0>>, main' = <<"add", Root, 0>>)
    /\ UNCHANGED <<ini, present, kernel, wds, queue, table, thread, todo, lost, ops>>

MainLoad ==
    /\ main[1] = "load" /\ main' = <<"register", main[2], ini[main[2]]>>
    /\ UNCHANGED <<ini, present, kernel, wds, queue, sdirs, sdirIni, table, thread, todo, lost, ops>>

MainRegister ==
    /\ main[1] = "register" /\ main' = <<"add", Root, 0>>
    /\ Register(main[2], main[3])
    /\ lost' = IF main[3] > 0 /\ main[3] < ini[main[2]] THEN lost \cup {main[2]} ELSE lost
    /\ UNCHANGED <<ini, present, kernel, wds, queue, sdirs, sdirIni, thread, todo, ops>>

-----------------------------------------------------------------------------
(* DirWatcher::watch_thread(): the path of an event is that of its watch;  *)
(* an event of a directory that is no longer watched has no path.          *)
Known(e) == IF e.what = "File" THEN e.dir \in wds ELSE e.dir = Root \/ Root \in wds

WatchThread ==
    /\ thread = Idle /\ queue # <<>>
    /\ queue' = Tail(queue)
    /\ thread' = IF Known(Head(queue)) THEN <<Head(queue).what \o Head(queue).type, Head(queue).dir, 0>>
                 ELSE Idle
    /\ UNCHANGED <<ini, present, kernel, wds, sdirs, sdirIni, table, main, todo, lost, ops>>

(* Mutant: only the creation of a file is handled.                         *)
FileCreatedOnly ==
    LET d == thread[2]
    IN  /\ thread[1] \in {"FileAdded", "FileModified"}
        /\ IF thread[1] = "FileModified" \/ ini[d] \in {Missing, None, Blank}
           THEN thread' = Idle /\ UNCHANGED sdirIni
           ELSE thread' = <<"file", d, 0>> /\ sdirIni' = sdirIni \cup {d}
        /\ UNCHANGED <<ini, present, kernel, wds, queue, sdirs, table, main, todo, lost, ops>>

(* watch_event() for an .ini file: a file that is empty when its creation  *)
(* is handled is left for its modification.                                *)
FileChanged ==
    LET d == thread[2]
    IN  /\ thread[1] \in {"FileAdded", "FileModified"}
        /\ IF thread[1] = "FileAdded" /\ ini[d] \in {Missing, None, Blank}
           THEN thread' = Idle /\ UNCHANGED sdirIni
           ELSE thread' = <<"file", d, 0>> /\ sdirIni' = sdirIni \cup {d}
        /\ UNCHANGED <<ini, present, kernel, wds, queue, sdirs, table, main, todo, lost, ops>>

FileRemoved ==
    /\ thread[1] = "FileRemoved" /\ thread' = Idle
    /\ sdirIni' = sdirIni \ {thread[2]}
    /\ RemoveLocalScopes({thread[2]})
    /\ UNCHANGED <<ini, present, kernel, wds, queue, sdirs, main, todo, lost, ops>>

DirAdded ==
    /\ thread[1] = "DirectoryAdded" /\ thread' = <<"scan", thread[2], 0>>
    /\ IF ini[thread[2]] = Missing THEN UNCHANGED <<kernel, wds>> ELSE AddWatch(thread[2])
    /\ UNCHANGED <<ini, present, queue, sdirs, sdirIni, table, main, todo, lost, ops>>

ThreadScan ==
    /\ thread[1] = "scan"
    /\ Scan(thread[2], thread' = <<"load", thread[2], 0>>, thread' = Idle)
    /\ UNCHANGED <<ini, present, kernel, wds, queue, table, main, todo, lost, ops>>

ThreadLoad ==
    /\ thread[1] \in {"load", "file"}
    /\ thread' = <<IF thread[1] = "file" THEN "fileload" ELSE "register", thread[2], ini[thread[2]]>>
    /\ UNCHANGED <<ini, present, kernel, wds, queue, sdirs, sdirIni, table, main, todo, lost, ops>>

ThreadRegister ==
    /\ thread[1] \in {"register", "fileload"} /\ thread' = Idle
    /\ Register(thread[2], thread[3])
    /\ UNCHANGED <<ini, present, kernel, wds, queue, sdirs, sdirIni, main, todo, lost, ops>>

(* remove_scope_dir(), for one directory or, if the install directory is   *)
(* gone, for those that are associated with it.                            *)
RemoveScopeDirs(dirs) ==
    /\ sdirs' = sdirs \ (dirs \cap sdirIni)
    /\ sdirIni' = sdirIni \ dirs
    /\ RemoveLocalScopes(dirs \cap sdirIni)
    /\ RemoveWatch(IF thread[2] = Root THEN dirs \cup {Root} ELSE dirs)

DirRemoved ==
    /\ thread[1] = "DirectoryRemoved" /\ thread' = Idle
    /\ RemoveScopeDirs(IF thread[2] = Root THEN sdirs ELSE {thread[2]})
    /\ UNCHANGED <<ini, present, queue, main, todo, lost, ops>>

-----------------------------------------------------------------------------
Init ==
    /\ ini \in [Dirs -> {Missing, None, 1}]
    /\ present = TRUE /\ kernel = {} /\ wds = {} /\ queue = <<>>
    /\ sdirs = {} /\ sdirIni = {}
    /\ table = [d \in Dirs |-> 0]
    /\ main = <<"find", Root, 0>> /\ thread = Idle
    /\ todo = {} /\ lost = {} /\ ops = 1

Main == Find \/ AddInstallDir \/ AddScopeDir \/ MainScan \/ MainLoad \/ MainRegister

Thread ==
    \/ WatchThread \/ FileChanged \/ FileRemoved \/ DirAdded
    \/ ThreadScan \/ ThreadLoad \/ ThreadRegister \/ DirRemoved

Next == User \/ Main \/ Thread

Spec == Init /\ [][Next]_vars

Settled == ~ Starting /\ thread = Idle /\ queue = <<>>

(* Once the watcher has caught up, the registry has the current version of *)
(* every scope whose file is complete, and no scope that is gone, however  *)
(* directories and files came and went.  Not covered (lost): a removal or  *)
(* a new version while main() starts up, which the thread can handle       *)
(* before main() adds what it read, and an install directory that is moved *)
(* away whole while it holds scopes that watch_event() did not associate   *)
(* with it.                                                                *)
WatcherSettled ==
    Settled => \A d \in Dirs \ lost :
                   /\ Good(ini[d]) => table[d] = ini[d]
                   /\ ini[d] \in {Missing, None} => table[d] = 0

(* The same without the exceptions.                                        *)
NoStaleScope ==
    Settled => \A d \in Dirs : ini[d] \in {Missing, None} => table[d] = 0

=============================================================================
