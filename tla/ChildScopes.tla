----------------------------- MODULE ChildScopes ----------------------------
(* ChildScopesRepository: which child scopes of an aggregator the user has *)
(* enabled, and in which order they are shown.  The scope process may end  *)
(* at any time and is started again by the registry.                       *)
EXTENDS Integers, Sequences, SequencesExt, TLC

CONSTANTS Children, MaxCalls

VARIABLES repo,         \* the file: None, Torn, or a list of child scopes
          cache,        \* cached_repo_, None unless have_latest_cache_
          writing,      \* the list that write_repo() is about to write, or None
          answer,       \* what the last child_scopes() returned
          wanted,       \* the enabled states that were last set
          broken,       \* the process ended between truncation and write
          calls

vars == <<repo, cache, writing, answer, wanted, broken, calls>>

None == <<>>
Torn == <<"torn">>

List(s) == <<"list", s>>

ChildScope == [id : Children, enabled : BOOLEAN]

NoStates == [c \in {} |-> FALSE]

(* The lists that find_child_scopes() or the shell hand in: no child twice *)
Lists == {s \in SeqOf(ChildScope, 2) : \A i, j \in DOMAIN s : s[i].id = s[j].id => i = j}

-----------------------------------------------------------------------------
(* json_to_list(): the first appearance of a child counts; a file that     *)
(* cannot be parsed has no states.                                         *)
JsonToList(r) ==
    IF r \in {None, Torn} THEN NoStates
    ELSE LET s == r[2]
         IN  [c \in {s[i].id : i \in DOMAIN s} |->
                 s[SelectInSeq(s, LAMBDA x : x.id = c)].enabled]

(* read_repo(): the cache, or the file, which is then cached unless it     *)
(* cannot be opened.                                                       *)
ReadRepo == IF cache # None THEN cache[2] ELSE JsonToList(repo)

(* child_scopes(): the states of the repository for the children there are *)
ApplyStates(list, states) ==
    [i \in DOMAIN list |->
        IF list[i].id \in DOMAIN states
        THEN [list[i] EXCEPT !.enabled = states[list[i].id]] ELSE list[i]]

Call == calls < MaxCalls /\ writing = None /\ calls' = calls + 1

(* write_repo(): std::ofstream truncates the file when it opens it; if the *)
(* file cannot be opened nothing changes.  The cache is reset after the    *)
(* write.                                                                  *)
WriteRepo(list, opened) ==
    IF opened THEN repo' = Torn /\ writing' = List(list)
    ELSE UNCHANGED <<repo, writing>>

GetChildScopes ==
    \E list \in Lists, opened \in BOOLEAN :
        LET updated == ApplyStates(list, ReadRepo)
        IN  /\ Call
            /\ cache' = IF repo = None THEN cache ELSE List(ReadRepo)
            /\ WriteRepo(updated, opened)
            /\ answer' = updated
            /\ wanted' = [c \in {updated[i].id : i \in DOMAIN updated} \cap DOMAIN wanted |->
                             wanted[c]]
            /\ UNCHANGED broken

SetChildScopes ==
    \E list \in Lists, opened \in BOOLEAN :
        /\ Call
        /\ WriteRepo(list, opened)
        /\ wanted' = IF opened THEN JsonToList(List(list)) ELSE wanted
        /\ answer' = None
        /\ UNCHANGED <<cache, broken>>

(* Mutant: the cache survives the write.                                   *)
EndWriteKeepsCache ==
    /\ writing # None
    /\ repo' = writing /\ writing' = None
    /\ UNCHANGED <<cache, answer, wanted, broken, calls>>

EndWrite ==
    /\ writing # None
    /\ repo' = writing /\ writing' = None /\ cache' = None
    /\ UNCHANGED <<answer, wanted, broken, calls>>

(* The process ends; what was not written is lost.                         *)
Exit ==
    /\ broken' = (broken \/ writing # None)
    /\ writing' = None /\ cache' = None /\ answer' = None
    /\ UNCHANGED <<repo, wanted, calls>>

Init ==
    /\ repo = None /\ cache = None /\ writing = None /\ answer = None
    /\ wanted = NoStates
    /\ broken = FALSE
    /\ calls = 0

Next == GetChildScopes \/ SetChildScopes \/ EndWrite \/ Exit

Spec == Init /\ [][Next]_vars

-----------------------------------------------------------------------------
(* A child scope that the user enabled or disabled is reported so by every *)
(* later child_scopes() as long as the scope lists it, whatever its        *)
(* default is by then, and also after a restart, unless the process ended  *)
(* in the middle of a write.                                               *)
ChoiceRemembered ==
    ~ broken =>
        \A i \in DOMAIN answer :
            answer[i].id \in DOMAIN wanted => answer[i].enabled = wanted[answer[i].id]

(* The same, wherever the process ended.                                   *)
ChoiceSurvivesCrash ==
    \A i \in DOMAIN answer :
        answer[i].id \in DOMAIN wanted => answer[i].enabled = wanted[answer[i].id]

=============================================================================
