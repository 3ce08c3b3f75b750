----------------------------- MODULE ScopeFinder -----------------------------
(* Which configuration file the registry process uses for a scope id:      *)
(* main() of scoperegistry, from the scopes of the distribution, of the    *)
(* device maker (OEM), of click packages and of the command line.  A place *)
(* holds a file for some ids: the file can be "bad" (it cannot be parsed), *)
(* "open" (Overrideable) or "fixed".                                       *)
EXTENDS Sequences, TLC

CONSTANTS Ids

VARIABLES files,        \* place -> id -> the file, or "absent"
          local,        \* local_scopes: id -> place
          click,        \* click_scopes: id -> place
          table,        \* the registry's table: id -> <<place, confined>>
          pc

vars == <<files, local, click, table, pc>>

(* Two scope directories of the distribution, then one of each other kind. *)
Places == {"lib/a", "lib/b", "oem/a", "click/a", "argv"}

Subdirs(installdir) ==
    CASE installdir = "lib" -> <<"lib/a", "lib/b">>
      [] installdir = "oem" -> <<"oem/a">>
      [] installdir = "click" -> <<"click/a">>

At(id, where) == files[where][id] # "absent"

(* find_scope_dir_configs(), find_install_dir_configs(): the first file of *)
(* an id is taken, a second one ignored.                                   *)
FindScopeDirConfigs(where) == [id \in {i \in Ids : At(i, where)} |-> where]

FindInstallDirConfigs(installdir) ==
    LET dirs == Subdirs(installdir)
    IN  IF Len(dirs) = 1 THEN FindScopeDirConfigs(dirs[1])
        ELSE FindScopeDirConfigs(dirs[1]) @@ FindScopeDirConfigs(dirs[2])

Only(map, ids) == [id \in DOMAIN map \cap ids |-> map[id]]

(* Mutant: the OEM's files come first.                                     *)
FindOemFirst ==
    LET configs == FindInstallDirConfigs("lib")
    IN  FindInstallDirConfigs("oem")
        @@ Only(configs, {i \in DOMAIN configs : files[configs[i]][i] # "bad"})

(* find_local_scopes(): the files of the distribution are parsed to see    *)
(* whether they may be overridden, those of the OEM are not parsed.        *)
FindLocalScopes ==
    LET configs == FindInstallDirConfigs("lib")
        fixed == Only(configs, {i \in DOMAIN configs : files[configs[i]][i] = "fixed"})
        open == Only(configs, {i \in DOMAIN configs : files[configs[i]][i] = "open"})
        oem == Only(FindInstallDirConfigs("oem"), Ids \ DOMAIN fixed)
    IN  fixed @@ (oem @@ open)

FindClickScopes == Only(FindInstallDirConfigs("click"), Ids \ DOMAIN local)

(* add_local_scope(): reads the file; a scope of a click package is        *)
(* confined.  RegistryObject::add_local_scope() replaces what is there.    *)
AddLocalScope(tab, id, where, confined) ==
    IF files[where][id] \in {"open", "fixed"} THEN (id :> <<where, confined>>) @@ tab ELSE tab

AddLocalScopes(tab, scopes, confined) ==
    LET good == {i \in DOMAIN scopes : files[scopes[i]][i] \in {"open", "fixed"}}
    IN  [i \in good |-> <<scopes[i], confined>>] @@ tab

-----------------------------------------------------------------------------
FindScopes ==
    /\ pc = "find" /\ pc' = "argv"
    /\ local' = FindLocalScopes
    /\ UNCHANGED <<files, click, table>>

(* The command line is read after the click scopes were found.             *)
CommandLine ==
    /\ pc = "argv" /\ pc' = "add"
    /\ click' = FindClickScopes
    /\ local' = FindScopeDirConfigs("argv") @@ local
    /\ UNCHANGED <<files, table>>

AddScopes ==
    /\ pc = "add" /\ pc' = "added"
    /\ table' = AddLocalScopes(AddLocalScopes(table, local, FALSE), click, TRUE)
    /\ UNCHANGED <<files, local, click>>

(* ScopesWatcher::add_install_dir() calls the callback for the first file  *)
(* of every scope directory that is there; main() adds the directories in  *)
(* this order.                                                             *)
Watch(installdir, from, to, confined) ==
    LET dirs == Subdirs(installdir)
        first(d) == CHOOSE id \in Ids : At(id, d)
        add(tab, d) == IF \E id \in Ids : At(id, d)
                       THEN AddLocalScope(tab, first(d), d, confined) ELSE tab
    IN  /\ pc = from /\ pc' = to
        /\ table' = IF Len(dirs) = 1 THEN add(table, dirs[1])
                    ELSE add(add(table, dirs[1]), dirs[2])
        /\ UNCHANGED <<files, local, click>>

WatchScopeDir == Watch("lib", "added", "watched lib", FALSE)
WatchOemDir == Watch("oem", "watched lib", "watched oem", FALSE)
WatchClickDir == Watch("click", "watched oem", "serving", TRUE)

Init ==
    /\ files \in [Places -> {[i \in Ids |-> IF i = id THEN f ELSE "absent"] :
                                 id \in Ids, f \in {"absent", "bad", "open", "fixed"}}]
    /\ local = <<>> /\ click = <<>> /\ table = <<>>
    /\ pc = "find"

Next == FindScopes \/ CommandLine \/ AddScopes \/ WatchScopeDir \/ WatchOemDir \/ WatchClickDir

Spec == Init /\ [][Next]_vars

-----------------------------------------------------------------------------
(* When main() has filled the table, a scope of the command line is used   *)
(* in place of one of the distribution or the OEM (a click scope that has  *)
(* neither beside it replaces it), one of the distribution that must not   *)
(* be overridden is used in place of an OEM's or a click package's, only   *)
(* click scopes are confined, and a broken file of one scope costs no      *)
(* other scope its entry.                                                  *)
Precedence ==
    pc = "added" =>
        \A id \in Ids :
            LET good == {w \in Places : files[w][id] \in {"open", "fixed"}}
            IN  /\ "argv" \in good =>
                       /\ id \in DOMAIN table
                       /\ \/ table[id] = <<"argv", FALSE>>
                          \/ /\ table[id] = <<"click/a", TRUE>>
                             /\ good \cap {"lib/a", "oem/a"} = {}
                /\ ~ At(id, "argv") /\ files["lib/a"][id] = "fixed" =>
                       id \in DOMAIN table /\ table[id] = <<"lib/a", FALSE>>
                /\ id \in DOMAIN table =>
                       table[id][1] \in good /\ (table[id][2] <=> table[id][1] = "click/a")

(* "scopes on the command line override scopes in configuration files"     *)
(* (main() of scoperegistry).  The click scopes are added afterwards, and  *)
(* were found before the command line was read.                            *)
CommandLineFirst ==
    pc = "added" =>
        \A id \in Ids : files["argv"][id] \in {"open", "fixed"} => table[id][1] = "argv"

(* "If true, the Canonical scope can be replaced by an OEM scope with the  *)
(* same ID." (CONFIGFILES, Overrideable): a scope for which it is false is *)
(* not replaced.  The watcher of the OEM directory adds the OEM's file.    *)
OverrideableRespected ==
    pc = "serving" =>
        \A id \in Ids : files["lib/a"][id] = "fixed" /\ id \in DOMAIN table =>
                            table[id][1] # "oem/a"

=============================================================================
