---------------------------- MODULE CommandLine -----------------------------
(***************************************************************************)
(* What parse_tokens() of parsing/parser.c promises its caller: a token     *)
(* list is answered in one step, by the pipeline it stands for or by a      *)
(* refusal; where a copy found no memory, the pipeline may be damaged in    *)
(* one place.  The answer is described from the line as a whole: stages are *)
(* what stands between pipes, and every word and redirection belongs to the *)
(* stage it stands in.  Parser, which walks the list twice and edits it,    *)
(* implements this module.                                                  *)
(***************************************************************************)
EXTENDS ShellText, Tokens

CONSTANTS
  TokenLists,  \* the token lists tokenize_input() hands over
  TempName,    \* the names my_mkstemp() can make
  Existing,    \* the ones that already name a file
  NULL         \* in the place of a copy that failed

VARIABLES line, answer

vars == <<line, answer>>

-----------------------------------------------------------------------------
Pipes == {k \in DOMAIN line : line[k].type = "PIPE"}

Stages == Cardinality(Pipes) + 1

\* The stage token k stands in; a pipe ends the stage to its left.
StageOf(k) == 1 + Cardinality({p \in Pipes : p < k})

\* The tokens of stage s whose types are in Types.
InStage(s, Types) == {k \in DOMAIN line : StageOf(k) = s /\ line[k].type \in Types}

\* Some positions in the order of the line.
InOrder(positions) ==
  [n \in 1..Cardinality(positions) |->
     CHOOSE k \in positions : Cardinality({j \in positions : j <= k}) = n]

FollowedBy(k, type) == k < Len(line) /\ line[k+1].type = type

\* Every stage has a word or a redirection, every operator has its operand.
\* "$?" alone makes no stage.
Acceptable ==
  /\ \A s \in 1..Stages : InStage(s, Word \cup Redirection) # {}
  /\ \A k \in DOMAIN line :
       /\ line[k].type \in FileRedirection => FollowedBy(k, "FILENAME")
       /\ line[k].type = "HEREDOC" => FollowedBy(k, "DELIMITER")

\* "$?" stands for the status, except right behind a pipe, where it is a command
\* of that name.
Argument(k, status, null) ==
  IF k \in null THEN NULL
  ELSE IF line[k].type = "EXIT_STATUS" /\ ~(k > 1 /\ line[k-1].type = "PIPE")
       THEN status
       ELSE ft_strtrim(line[k].value)

Target(k, fileOf, null) ==
  [type     |-> line[k].type,
   filename |-> IF k \in null THEN NULL
                ELSE IF line[k].type = "HEREDOC" THEN fileOf[k] ELSE line[k+1].value]

\* Stage s as a command: its words in order, its redirections last one first.
Command(s, status, fileOf, gone, null) ==
  LET words   == InOrder(InStage(s, Word \cup {"EXIT_STATUS"}) \ gone)
      targets == Reverse(InOrder(InStage(s, Redirection)))
  IN  [args         |-> [n \in DOMAIN words |-> Argument(words[n], status, null)],
       redirections |-> [n \in DOMAIN targets |-> Target(targets[n], fileOf, null)],
       pipe_next    |-> s < Stages]

\* One status for the whole line, a file of its own for every here-document, which is
\* not a file that existed before, and what a copy that failed makes of one token: its
\* argument is gone, or that or its file name is NULL.
IsPipeline(commands, failed) ==
  LET documents == {k \in DOMAIN line : line[k].type = "HEREDOC"}
      atMostOne == {{}} \cup {{k} : k \in DOMAIN line}
  IN  \E status \in StatusText, fileOf \in [documents -> TempName \ Existing],
         gone \in atMostOne, null \in atMostOne :
        /\ IsInjective(fileOf)
        /\ gone = {} \/ null = {}
        /\ failed \/ (gone = {} /\ null = {})
        /\ commands = [s \in 1..Stages |-> Command(s, status, fileOf, gone, null)]

-----------------------------------------------------------------------------
Init == line \in TokenLists /\ answer = [kind |-> "none", commands |-> <<>>, failed |-> FALSE]

Reply ==
  /\ answer.kind = "none"
  /\ IF Acceptable
     THEN answer'.kind = "pipeline" /\ IsPipeline(answer'.commands, answer'.failed)
     ELSE answer' = [kind |-> "refused", commands |-> <<>>, failed |-> FALSE]
  /\ UNCHANGED line

Spec == Init /\ [][Reply]_vars

=============================================================================
