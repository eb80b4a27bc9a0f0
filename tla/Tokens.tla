------------------------------- MODULE Tokens -------------------------------
(***************************************************************************)
(* The data shared by the tokenizer and the parser (minishell.h): the      *)
(* token types the tokenizer produces, the token record, and the classes   *)
(* of token types that the code tests for.                                 *)
(*                                                                         *)
(* REDIRECTION, ENV_VAR, SINGLE_QUOTE and DOUBLE_QUOTE of t_token_type are *)
(* left out: no statement of the program ever builds a token of those      *)
(* types, so the parser's ENV_VAR branch is dead code.                     *)
(***************************************************************************)
EXTENDS Integers, Sequences

TokenType == {"COMMANDE", "ARG", "PIPE", "APPEND", "INPUT", "OUTPUT",
              "HEREDOC", "FILENAME", "DELIMITER", "EXIT_STATUS"}

\* The types with numbers 0 and 1, the ones concatinate() glues together.
Word == {"COMMANDE", "ARG"}

\* The redirections that must be followed by a file name.
FileRedirection == {"INPUT", "OUTPUT", "APPEND"}

Redirection == FileRedirection \cup {"HEREDOC"}

\* new_token(): the space flag is cleared; a few callers set it afterwards.
new_token(type, value) == [type |-> type, value |-> value, space |-> FALSE]

SpacedToken(type, value, space) ==
  [new_token(type, value) EXCEPT !.space = space]

(***************************************************************************)
(* A token list: a finite sequence of tokens.  What the values are is left *)
(* open here; Seq(...) of its own elements says "a sequence of something". *)
(***************************************************************************)
IsTokenList(list) ==
  /\ list \in Seq({list[k] : k \in DOMAIN list})
  /\ \A k \in DOMAIN list : list[k].type \in TokenType /\ list[k].space \in BOOLEAN

(***************************************************************************)
(* What the tokenizer promises the parser about operators and operands.    *)
(***************************************************************************)

\* A DELIMITER stands right behind its HEREDOC, and a HEREDOC is followed by a
\* delimiter, by another HEREDOC ("<<<<") or by the end of the line.
DelimitersOwned(list) ==
  \A k \in DOMAIN list :
    /\ list[k].type = "DELIMITER" => k > 1 /\ list[k-1].type = "HEREDOC"
    /\ list[k].type = "HEREDOC" /\ k < Len(list)
         => list[k+1].type \in {"DELIMITER", "HEREDOC"}

\* A redirection operator is pending at position k when no FILENAME follows it
\* up to and including k.
Pending(list, k) ==
  \E m \in 1..k : /\ list[m].type \in FileRedirection
                  /\ \A n \in m..k : list[n].type # "FILENAME"

\* Every FILENAME answers a pending redirection operator.
FilenamesOwned(list) ==
  \A k \in DOMAIN list : list[k].type = "FILENAME" => Pending(list, k-1)

\* A COMMANDE starts the line or a stage of the pipeline, and not while a
\* redirection waits for its file.  (In a line that starts with '|', which the
\* parser refuses, handle_quotes() types every quoted word COMMANDE.)
CommandsPlaced(list) ==
  \A k \in DOMAIN list :
    list[k].type = "COMMANDE" /\ list[1].type # "PIPE" =>
      \/ k = 1
      \/ list[k-1].type = "PIPE" /\ ~Pending(list, k-1)

WellFormed(list) ==
  /\ IsTokenList(list) /\ list # <<>>
  /\ DelimitersOwned(list)
  /\ FilenamesOwned(list)
  /\ CommandsPlaced(list)

=============================================================================
