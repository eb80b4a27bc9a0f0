------------------------------ MODULE TempStore ------------------------------
(***************************************************************************)
(* What the here-documents of several shells need of the directory they    *)
(* are kept in (parse_tokens() of parsing/parser.c with my_mkstemp() of     *)
(* parsing/util_herdoc.c): a document is stored in one step, under a name   *)
(* that no file has, and is never touched again.  TempFile, in which a      *)
(* name is searched for and may be wanted by two shells, implements this.   *)
(***************************************************************************)
EXTENDS Sequences

CONSTANTS
  Shell,     \* the processes
  Name,      \* the names a file can have
  Document   \* what handle_heredoc() can return, NULL included

VARIABLES
  stored,  \* a function from the names of the closed files to what they hold
  held     \* the redirections each shell has made for its current line

vars == <<stored, held>>

-----------------------------------------------------------------------------
Init ==
  /\ stored = <<>>
  /\ held = [s \in Shell |-> <<>>]

Store(s, name, text) ==
  /\ name \notin DOMAIN stored
  /\ stored' = [n \in DOMAIN stored \cup {name} |->
                  IF n = name THEN text ELSE stored[n]]
  /\ held' = [held EXCEPT ![s] = Append(@, [filename |-> name, text |-> text])]

\* The line is done with, or the shell is no more: its files stay.
Release(s) ==
  /\ held' = [held EXCEPT ![s] = <<>>]
  /\ UNCHANGED stored

Next ==
  \E s \in Shell :
    \/ Release(s)
    \/ \E name \in Name, text \in Document : Store(s, name, text)

Spec == Init /\ [][Next]_vars

=============================================================================
