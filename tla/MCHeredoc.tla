------------------------------ MODULE MCHeredoc ------------------------------
(***************************************************************************)
(* A small instance of Heredoc: every line of up to MaxLine characters on   *)
(* its own, and documents of up to MaxLines lines from a few.               *)
(***************************************************************************)
EXTENDS Heredoc

CONSTANTS MaxLine, MaxLines

\* A value longer than twice its name and the "$", one as long as that, one shorter,
\* an empty one, and one that names a variable itself; "yy" is not set.
MCEnv ==
  (<<"x">> :> <<"x", "x", "y", "x", "y">> @@ <<"y">> :> <<"y", "x", "x", "y">>
     @@ <<"x", "x">> :> <<"y">> @@ <<"x", "y">> :> <<>> @@ <<"y", "x">> :> <<"$", "x">>)

MCStatusText == {<<"x">>}

\* A plain delimiter, the two kinds of quoted ones, and one with an odd quote.
MCDelimiters == {<<"y">>, <<"\"", "y", "\"">>, <<"'", "y", "'">>, <<"\"", "y">>}

MCScripts ==
  {<<s>> : s \in BoundedSeq({"x", "y", "$", "?"}, MaxLine)}
    \cup BoundedSeq({<<>>, <<"y">>, <<"'", "y", "'">>, <<"$", "y">>,
                     <<"$", "x", "$", "y">>, <<"$", "?">>}, MaxLines)

=============================================================================
