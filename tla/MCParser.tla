------------------------------ MODULE MCParser ------------------------------
(***************************************************************************)
(* A small instance of Parser: every list of up to MaxTokens tokens that    *)
(* the tokenizer can hand over, each type with one value of its own, and    *)
(* lists of up to MaxFocused tokens of a few types.                         *)
(***************************************************************************)
EXTENDS Parser

CONSTANTS MaxTokens, MaxFocused

\* A command's value has blanks around it, an argument's is empty.
MCValue ==
  ("COMMANDE" :> <<" ", "x", "\t">> @@ "ARG" :> <<>> @@ "PIPE" :> <<"|">>
     @@ "APPEND" :> <<">", ">">> @@ "INPUT" :> <<"<">> @@ "OUTPUT" :> <<">">>
     @@ "HEREDOC" :> <<"<", "<">> @@ "FILENAME" :> <<"y">> @@ "DELIMITER" :> <<"y">>
     @@ "EXIT_STATUS" :> <<"$", "?">>)

Lists(types, n) ==
  {list \in BoundedSeq({new_token(type, MCValue[type]) : type \in types}, n) :
     WellFormed(list)}

\* Longer lists without the types that the code treats like one that is there.
MCTokenLists ==
  Lists(TokenType, MaxTokens)
    \cup Lists({"COMMANDE", "ARG", "PIPE", "EXIT_STATUS"}, MaxFocused)
    \cup Lists({"ARG", "PIPE", "OUTPUT", "FILENAME"}, MaxFocused)
    \cup Lists({"ARG", "PIPE", "HEREDOC", "DELIMITER"}, MaxFocused)

\* One command with as many words as the array has slots.
MCLongLine ==
  {[k \in 1..ArgSlots |-> new_token(IF k = 1 THEN "COMMANDE" ELSE "ARG", <<"x">>)]}

MCEnv == <<>>

MCStatusText == {<<"x">>, <<"y">>}

=============================================================================
