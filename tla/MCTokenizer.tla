---------------------------- MODULE MCTokenizer -----------------------------
(***************************************************************************)
(* A small instance of Tokenizer: every line of up to MaxLine characters,  *)
(* and longer lines over the characters that one hazard is about.          *)
(***************************************************************************)
EXTENDS Tokenizer

CONSTANTS MaxLine, MaxFocused

\* One variable whose value has two words, one whose value is quoted, one that
\* holds only blanks and one that is empty; every other name is unset.
MCEnv ==
  ("x" :> <<"x", " ", "|">> @@ "y" :> <<"\"", "y", "\"">>
     @@ "xx" :> <<" ", "\t">> @@ "yy" :> <<>>)

\* The names above as sequences of characters.
MCEnvironment ==
  (<<"x">> :> MCEnv["x"] @@ <<"y">> :> MCEnv["y"]
     @@ <<"x", "x">> :> MCEnv["xx"] @@ <<"y", "y">> :> MCEnv["yy"])

MCStatusText == {<<"x">>, <<"y", "y">>}

Lines(chars, n) == BoundedSeq(chars, n) \ {<<>>}

\* Focused alphabets: operators and file names; quotes hiding an operator; here
\* documents; words glued by quotes and variables.
MCInputs ==
  Lines(Char, MaxLine)
    \cup UNION {Lines(chars, MaxFocused) :
                 chars \in {{"x", " ", "|", ">"}, {"x", "'", "\"", "|"},
                            {"x", " ", "<", "'"}, {"x", " ", "\"", "$"}}}

\* "If not quoted, split and add each part as a separate token": no token of the
\* result holds two neighbouring parts of a variable's value.  Lines with operators
\* or single quotes are left out, where the text of two parts can stand in the line.
PartsStaySeparate ==
  (/\ pc = "done"
   /\ \A k \in DOMAIN input : input[k] \notin Operator \cup {"'"}) =>
    \A name \in DOMAIN Env : ~EnclosedInQuotes(Env[name]) =>
      LET parts == ft_splitD(Env[name])
      IN  \A k \in 1..Len(parts)-1, t \in DOMAIN tokens :
            parts[k] \o parts[k+1] \notin SubSeqs(tokens[t].value)

=============================================================================
