------------------------------- MODULE MCShell -------------------------------
(***************************************************************************)
(* A small instance of Shell: every session of up to MaxTyped lines and     *)
(* ends of the file, over lines that ask for none to three here-documents.  *)
(***************************************************************************)
EXTENDS Shell

CONSTANT MaxTyped

x == <<"x">>
y == <<"y">>

Blanks   == <<" ">>
Refused  == <<"x", "|">>
Quoted   == <<"x", " ", "'", "y", "'">>
Two      == <<"<", "<", "x", " ", "<", "<", "y">>
Piped    == <<"x", "|", "<", "<", "y", " ", "|", "<", "<", "x">>
Doubled  == <<"<", "<", "y", " ", "<", "<", "<", "<", "x">>

\* x and y are commands at the prompt and delimiters behind it.
MCLines == {<<>>, x, y, Blanks, Refused, Quoted, Two, Piped, Doubled}

\* Longer ones behind a line that reads documents.
MCScripts ==
  BoundedSeq(MCLines \cup {EOF}, MaxTyped)
    \cup {<<first>> \o rest : first \in {Piped, Doubled}, rest \in BoundedSeq({x, y, EOF}, MaxTyped + 1)}

MCEnv == << >>

MCStatusText == {<<"x">>}

MCAsks ==
  [l \in MCLines |-> CASE l = Two -> <<x, y>> [] l = Piped -> <<y, x>>
                       [] l = Doubled -> <<y>> [] OTHER -> <<>>]

\* Two's documents are of one command, Piped's of one each.
MCShows ==
  [l \in MCLines |-> CASE l = Two -> <<2, 1>> [] l = Piped -> <<1, 2>> [] OTHER -> <<>>]

=============================================================================
