----------------------------- MODULE CustomExec -----------------------------
(* The command that starts a scope (ScopeProcess::exec in                  *)
(* RegistryObject.cpp): the ScopeRunner entry of the scope's .ini file is  *)
(* made absolute when the scope is added (convert_exec_rel_to_abs in       *)
(* Utils.cpp), stored as ONE line of text, and split into words again each *)
(* time the scope is started.                                              *)
(*                                                                         *)
(* A word is [text, spaces]: `text' says what it names (a file in the      *)
(* scope's directory for the architecture, in the scope's directory, a     *)
(* file by its absolute path, a placeholder, or nothing in particular),    *)
(* `spaces' whether there are spaces in it.  A piece of the stored line is *)
(* a word with the directory put in front of it and, maybe, quotes.        *)
EXTENDS Naturals, Sequences, SequencesExt

CONSTANT MaxWords       \* bound on the words of a command

VARIABLES entry,        \* scope_runner(): "words", "unparsable" or "absent"
          line,         \* its words
          dirSpaces,    \* whether the path of scope_dir has spaces in it
          snap,         \* whether the environment variable SNAP is set
          stored,       \* exec_data.custom_exec
          at,           \* "found", "added", "refused" (not added), "started"
          argv          \* the command that was executed

vars == <<entry, line, dirSpaces, snap, stored, at, argv>>

Texts == {"inArch", "inDir", "absolute", "%R", "%S", "other"}
Word(text, spaces) == [text |-> text, spaces |-> spaces]
Words == {Word(t, FALSE) : t \in Texts}
           \cup {Word(t, TRUE) : t \in {"inDir", "absolute", "other"}}
Piece(prefix, word, quoted) == [prefix |-> prefix, word |-> word, quoted |-> quoted]

SplitUnquoted(words) == [i \in DOMAIN words |-> Piece("", words[i], FALSE)]

(* split_exec_args(): the words of the line; one with spaces gets quotes.  *)
SplitExecArgs(words) == [i \in DOMAIN words |-> Piece("", words[i], words[i].spaces)]

(* An argument of convert_exec_rel_to_abs(): a path is absolute if its     *)
(* first character is a slash, so one in quotes is not, nor is there a     *)
(* file whose name has the quotes.                                         *)
ToAbsolute(p) ==
    CASE p.quoted -> p
      [] p.word.text = "inArch" -> [p EXCEPT !.prefix = "archDir"]
      [] p.word.text = "inDir" -> [p EXCEPT !.prefix = "dir"]
      [] p.word.text = "absolute" /\ snap -> [p EXCEPT !.prefix = "snap"]
      [] OTHER -> p

(* The program must be found.                                              *)
ProgramFound(p) == ~p.quoted /\ p.word.text \in {"inArch", "inDir", "absolute"}

ConvertExecRelToAbs(words) ==
    LET args == SplitExecArgs(words) IN [i \in DOMAIN args |-> ToAbsolute(args[i])]

(* External: wordexp() on the stored line.  Spaces split a piece that has  *)
(* no quotes.                                                              *)
Wordexp(pieces) ==
    FlattenSeq([i \in DOMAIN pieces |->
        LET p == pieces[i]
            split == ~p.quoted /\ (p.word.spaces \/ (p.prefix \in {"dir", "archDir"} /\ dirSpaces))
        IN  IF split THEN <<[p EXCEPT !.prefix = "head"], [p EXCEPT !.prefix = "tail"]>>
            ELSE <<p>>])

(* expand_custom_exec(): placeholders after the first word are replaced by *)
(* the run time's and the scope's configuration file.                      *)
Placeholder(p) ==
    CASE p.word.text = "%R" /\ p.prefix = "" -> <<"runtimeConfig", p.word>>
      [] p.word.text = "%S" /\ p.prefix = "" -> <<"scopeConfig", p.word>>
      [] OTHER -> <<p.prefix, p.word>>
ExpandEverywhere ==
    LET args == Wordexp(stored) IN [i \in DOMAIN args |-> Placeholder(args[i])]

ExpandCustomExec ==
    LET args == Wordexp(stored)
    IN  [i \in DOMAIN args |-> IF i = 1 THEN <<args[i].prefix, args[i].word>>
                               ELSE Placeholder(args[i])]

Init ==
    /\ entry \in {"words", "unparsable", "absent"}
    /\ IF entry = "words" THEN line \in UNION {[1 .. n -> Words] : n \in 0 .. MaxWords}
       ELSE line = << >>
    /\ dirSpaces \in BOOLEAN /\ snap \in BOOLEAN
    /\ stored = << >> /\ at = "found" /\ argv = << >>

(* The part of add_local_scope() (scoperegistry.cpp) about the command: an *)
(* entry that cannot be used throws and the scope is not added; no entry   *)
(* leaves custom_exec empty.                                               *)
Add ==
    /\ at = "found"
    /\ \/ entry = "absent" /\ at' = "added" /\ UNCHANGED stored
       \/ /\ entry # "absent"
          /\ IF line # << >> /\ ProgramFound(SplitExecArgs(line)[1])
             THEN at' = "added" /\ stored' = ConvertExecRelToAbs(line)
             ELSE at' = "refused" /\ UNCHANGED stored
    /\ UNCHANGED <<entry, line, dirSpaces, snap, argv>>

(* exec(): the scope's own command, or the scoperunner.                    *)
Exec ==
    /\ at = "added"
    /\ at' = "started"
    /\ argv' = IF stored = << >> THEN <<<<"scoperunner">>, <<"runtimeConfig">>, <<"scopeConfig">>>>
               ELSE ExpandCustomExec
    /\ UNCHANGED <<entry, line, dirSpaces, snap, stored>>

Next == Add \/ Exec

Spec == Init /\ [][Next]_vars

(* A scope that is added is started with the words of its configuration,   *)
(* in their order and number, placeholders replaced except as the program, *)
(* and files of the scope named by their absolute path - as long as there  *)
(* are no spaces in the path of the scope's directory.  A program with     *)
(* spaces in its name is not found, even by its absolute path              *)
(* (convert_exec_rel_to_abs(), expand_custom_exec()).                      *)
StartsAsConfigured ==
    LET Found == [inArch |-> "archDir", inDir |-> "dir",
                  absolute |-> IF snap THEN "snap" ELSE ""]
        Where(w) == IF ~w.spaces /\ w.text \in DOMAIN Found THEN Found[w.text] ELSE ""
        Replaced == ("%R" :> "runtimeConfig") @@ ("%S" :> "scopeConfig")
    IN  /\ (at = "started" /\ entry # "absent" /\ ~dirSpaces) =>
             /\ Len(argv) = Len(line)
             /\ \A i \in DOMAIN line :
                  argv[i] = IF i > 1 /\ line[i].text \in DOMAIN Replaced
                            THEN <<Replaced[line[i].text], line[i]>>
                            ELSE <<Where(line[i]), line[i]>>
        /\ (at = "refused" /\ line # << >>) =>
             line[1].spaces \/ line[1].text \notin DOMAIN Found

=============================================================================
