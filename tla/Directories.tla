----------------------------- MODULE Directories -----------------------------
(* The directories that the run time gives to a scope (find_cache_dir(),   *)
(* find_app_dir() and find_tmp_dir() in RuntimeImpl.cpp).  A scope from a  *)
(* click package is confined: its process may create directories only      *)
(* below the ones that the registry made for confined scopes when it       *)
(* started.  A path is a sequence of names, an id a sequence of pieces.    *)
EXTENDS Naturals, Sequences

CONSTANT Scopes         \* scopes: [id, confined]

VARIABLES fs,           \* the directories there are
          registry,     \* whether the registry has started
          given         \* what scopes were given: {[scope, kind, dir]}

vars == <<fs, registry, given>>

(* demangled_id(): for a confined scope, the id up to the first underscore,*)
(* which is the name of its package.                                       *)
Demangled(s) ==
    LET marks == {i \in DOMAIN s.id : s.id[i] = "_"}
    IN  IF ~s.confined \/ marks = {} THEN s.id
        ELSE SubSeq(s.id, 1, (CHOOSE i \in marks : \A j \in marks : i <= j) - 1)

ConfinementType(s) == IF s.confined THEN "leaf-net" ELSE "unconfined"

(* External: what the profile of a confined scope lets it create.          *)
MayCreate(s, path) ==
    \/ ~s.confined
    \/ /\ Len(path) >= 3 /\ path[1] \in {"cache", "tmp"} /\ path[2] = "leaf-net"
       /\ path[3] \in {s.id, Demangled(s)}

StopsAtExisting(dirs, s, path) ==
    LET Prefix(n) == SubSeq(path, 1, n)
        Fails(n) == Prefix(n) \in dirs \/ ~MayCreate(s, Prefix(n))
    IN  dirs \cup {Prefix(n) : n \in {m \in 1 .. Len(path) : \A k \in 1 .. m : ~Fails(k)}}

(* make_directories(): one after the other; what is there is skipped, and  *)
(* the first that cannot be created ends it silently.                      *)
MakeDirectories(dirs, s, path) ==
    LET Prefix(n) == SubSeq(path, 1, n)
        Fails(n) == Prefix(n) \notin dirs /\ ~MayCreate(s, Prefix(n))
    IN  dirs \cup {Prefix(n) : n \in {m \in 1 .. Len(path) : \A k \in 1 .. m : ~Fails(k)}}

Unconfined == [id |-> <<"Registry">>, confined |-> FALSE]

RegistryWithoutTmp ==
    /\ ~registry /\ registry' = TRUE
    /\ fs' = MakeDirectories(MakeDirectories(fs, Unconfined, <<"cache", "leaf-net">>),
                             Unconfined, <<"app">>)
    /\ UNCHANGED given

(* The part of main() of the scope registry about directories.             *)
RegistryStarts ==
    /\ ~registry /\ registry' = TRUE
    /\ fs' = LET a == MakeDirectories(fs, Unconfined, <<"cache", "leaf-net">>)
                 b == MakeDirectories(a, Unconfined, <<"app">>)
             IN  MakeDirectories(b, Unconfined, <<"tmp", "leaf-net">>)
    /\ UNCHANGED given

(* A directory with the part below the root for the confinement type and   *)
(* the scope's own one; the first is not tried by a confined scope.        *)
Make(s, parent, dir) ==
    LET base == IF s.confined THEN fs ELSE MakeDirectories(fs, s, parent)
    IN  MakeDirectories(base, s, dir)

Give(s, kind, dir) == given' = given \cup {[scope |-> s, kind |-> kind, dir |-> dir]}

CacheDirectory(s) ==
    LET parent == <<"cache", ConfinementType(s)>>
        dir == Append(parent, Demangled(s))
    IN  /\ registry
        /\ fs' = Make(s, parent, dir) /\ Give(s, "cache", dir)
        /\ UNCHANGED registry

(* find_app_dir(): not created for a confined scope, its app does that.    *)
AppDirectory(s) ==
    LET dir == <<"app", Demangled(s)>>
    IN  /\ registry
        /\ fs' = IF s.confined THEN fs ELSE MakeDirectories(fs, s, dir)
        /\ Give(s, "app", dir)
        /\ UNCHANGED registry

(* find_tmp_dir(): the scope's own id, not that of its package.            *)
TmpDirectory(s) ==
    LET parent == <<"tmp", ConfinementType(s)>>
        dir == Append(parent, s.id)
    IN  /\ registry
        /\ fs' = Make(s, parent, dir) /\ Give(s, "tmp", dir)
        /\ UNCHANGED registry

(* /run/user is emptied by a reboot; the registry and the scopes start anew*)
Reboot ==
    /\ registry /\ registry' = FALSE
    /\ fs' = {p \in fs : p[1] # "tmp"}
    /\ given' = {}

Init == fs = {} /\ registry = FALSE /\ given = {}

Next ==
    \/ RegistryStarts \/ Reboot
    \/ \E s \in Scopes : CacheDirectory(s) \/ AppDirectory(s) \/ TmpDirectory(s)

Spec == Init /\ [][Next]_vars

(* The cache and tmp directories that a scope is given exist, confined or  *)
(* not and also after a reboot, and so does the app directory of an        *)
(* unconfined one; no two scopes share a tmp directory, and only scopes of *)
(* the same package share a cache directory (find_cache_dir(),             *)
(* find_tmp_dir(), make_directories()).                                    *)
DirectoriesUsable ==
    /\ \A g \in given : (g.kind = "app" => ~g.scope.confined) => g.dir \in fs
    /\ \A g, h \in given :
         (g.kind = h.kind /\ g.dir = h.dir /\ g.scope # h.scope) =>
           \/ g.kind = "cache" /\ g.scope.confined /\ Demangled(g.scope) = Demangled(h.scope)
           \/ g.kind = "app"

(* "Returns a directory that is (exclusively) writable for the scope."     *)
(* (cache_directory() in ScopeBase.h)                                      *)
CacheExclusive ==
    \A g, h \in given :
        (g.kind = "cache" /\ h.kind = "cache" /\ g.dir = h.dir) => g.scope = h.scope

=============================================================================
