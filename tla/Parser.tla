------------------------------- MODULE Parser -------------------------------
(***************************************************************************)
(* parse_tokens() of parsing/parser.c: one call, from a token list to a     *)
(* list of commands or to NULL.  validate_syntax() walks the list first,    *)
(* then the parsing loop does; a step is one turn of one of these loops.    *)
(*                                                                         *)
(* A command's name is a copy of its first argument, so it is left out, and *)
(* so is the text of the here-documents (handle_heredoc()).  One copy of a  *)
(* text may find no memory; where a structure does, the program crashes.    *)
(***************************************************************************)
EXTENDS ShellText, Tokens

CONSTANTS
  TokenLists,  \* the token lists tokenize_input() hands over
  TempName,    \* the names my_mkstemp() can make
  Existing,    \* the ones that already name a file: nothing unlinks them
  ArgSlots,    \* the length of a command's args array, 64 in the code
  NULL         \* in the place of a copy that failed

ASSUME ParserAssumption ==
  /\ \A list \in TokenLists : WellFormed(list)
  /\ Existing \subseteq TempName
  /\ ArgSlots \in Nat \ {0}

VARIABLES
  line,                \* the token list as it was handed over
  pc,                  \* "start", "validate", "parse", and the three returns:
                       \* "done", "rejected" (by validate_syntax), "aborted"
  status,              \* the text of the exit status
  tokens,              \* the token list, whose types the parsing loop edits
  at,                  \* the loop's position in the list
  command_count,       \* validate_syntax(): words since the last pipe
  redirection_count,   \* validate_syntax(): redirections since the last of both
  commands,            \* command_list
  current,             \* the index of current_command in it, 0 for NULL
  files,               \* the temporary files of here-documents
  failed               \* a copy has failed; bound: one in a call

counts == <<command_count, redirection_count>>
result == <<commands, current, files, failed>>
vars   == <<line, pc, status, tokens, at, counts, result>>

Init ==
  /\ line \in TokenLists
  /\ pc = "start"
  /\ status \in StatusText   \* waitpid() leaves the variable unwritten
  /\ tokens = line
  /\ at = 1
  /\ command_count = 0
  /\ redirection_count = 0
  /\ commands = <<>>
  /\ current = 0
  /\ files = Existing
  /\ failed = FALSE

-----------------------------------------------------------------------------
(* validate_syntax().                                                       *)

At(phase, Types) == pc = phase /\ at <= Len(tokens) /\ tokens[at].type \in Types

\* The type of the token behind the current one.
Operand == IF at < Len(tokens) THEN tokens[at+1].type ELSE "none"

begin ==
  /\ pc = "start"
  /\ pc' = IF tokens[1].type = "PIPE" THEN "rejected" ELSE "validate"
  /\ UNCHANGED <<line, status, tokens, at, counts, result>>

validate_word ==
  /\ At("validate", Word)
  /\ command_count' = command_count + 1
  /\ redirection_count' = 0
  /\ at' = at + 1
  /\ UNCHANGED <<line, pc, status, tokens, result>>

\* Slip: a pipe forgets the redirections only.
CommandsAfterPipeKept == command_count

CommandsAfterPipe == 0

validate_pipe ==
  /\ At("validate", {"PIPE"})
  /\ IF command_count = 0 /\ redirection_count = 0
     THEN pc' = "rejected" /\ UNCHANGED <<at, counts>>
     ELSE /\ command_count' = CommandsAfterPipe /\ redirection_count' = 0
          /\ at' = at + 1
          /\ UNCHANGED pc
  /\ UNCHANGED <<line, status, tokens, result>>

\* Slip: that there is a next token is not checked.
OperandRefusedUnlessLast == tokens[at].type # "HEREDOC" /\ Operand # "FILENAME"

\* Slip: that the next token is a file name is not checked.
OperandRefusedIfMissing == Operand = "none"

\* A here-document takes any next token for its delimiter.
OperandRefused ==
  \/ Operand = "none"
  \/ tokens[at].type # "HEREDOC" /\ Operand # "FILENAME"

validate_redirection ==
  /\ At("validate", Redirection)
  /\ IF OperandRefused
     THEN pc' = "rejected" /\ UNCHANGED <<at, redirection_count>>
     ELSE at' = at + 2 /\ redirection_count' = redirection_count + 1 /\ UNCHANGED pc
  /\ UNCHANGED <<line, status, tokens, command_count, result>>

\* Slip: the loop stays on the token.
validate_other_stays ==
  /\ At("validate", {"EXIT_STATUS", "FILENAME", "DELIMITER"})
  /\ UNCHANGED vars

\* "$?" and a delimiter whose operator was another one's operand count as nothing.
validate_other ==
  /\ At("validate", {"EXIT_STATUS", "FILENAME", "DELIMITER"})
  /\ at' = at + 1
  /\ UNCHANGED <<line, pc, status, tokens, counts, result>>

\* Slip: the counts are not looked at behind the last token.
NothingCountedEver == FALSE

NothingCounted == command_count = 0 /\ redirection_count = 0

validate_end ==
  /\ pc = "validate" /\ at > Len(tokens)
  /\ IF NothingCounted
     THEN pc' = "rejected" /\ UNCHANGED at
     ELSE pc' = "parse" /\ at' = 1
  /\ UNCHANGED <<line, status, tokens, counts, result>>

-----------------------------------------------------------------------------
(* The parsing loop.                                                        *)

new_command == [args |-> <<>>, redirections |-> <<>>, pipe_next |-> FALSE]

\* The command list with a command to add to, and the index of that command.
Opened == IF current = 0 THEN Append(commands, new_command) ELSE commands
Open   == Len(Opened)

\* Slip: redirections are kept in the order of the line.
add_redirection_last(cmd, type, filename) ==
  [cmd EXCEPT !.redirections = Append(@, [type |-> type, filename |-> filename])]

add_redirection(cmd, type, filename) ==
  [cmd EXCEPT !.redirections = <<[type |-> type, filename |-> filename]>> \o @]

add_argument(cmd, arg) == [cmd EXCEPT !.args = Append(@, ft_strtrim(arg))]

parse_word ==
  /\ At("parse", Word)
  /\ commands' = [Opened EXCEPT ![Open] = add_argument(@, tokens[at].value)]
  /\ current' = Open
  /\ at' = at + 1
  /\ UNCHANGED <<line, pc, status, tokens, counts, files, failed>>

\* The argument is dropped where its trimmed copy fails, and NULL where the copy of
\* that one does.
LostArgument == {<<>>, <<NULL>>}

argument_lost ==
  /\ At("parse", Word \cup {"EXIT_STATUS"}) /\ ~failed
  /\ failed' = TRUE
  /\ \E left \in LostArgument :
       commands' = [Opened EXCEPT ![Open].args = @ \o left]
  /\ current' = Open
  /\ at' = at + 1
  /\ UNCHANGED <<line, pc, status, tokens, counts, files>>

\* A redirection opens a command even where it then has no target.
parse_redirection ==
  /\ At("parse", FileRedirection)
  /\ current' = Open
  /\ IF Operand \notin {"FILENAME", "ARG"}
     THEN pc' = "aborted" /\ commands' = Opened /\ UNCHANGED at
     ELSE /\ commands' = [Opened EXCEPT ![Open] =
                            add_redirection(@, tokens[at].type, tokens[at+1].value)]
          /\ at' = at + 2
          /\ UNCHANGED pc
  /\ UNCHANGED <<line, status, tokens, counts, files, failed>>

parse_heredoc ==
  /\ At("parse", {"HEREDOC"})
  /\ current' = Open
  /\ \/ /\ Operand # "DELIMITER"
        /\ pc' = "aborted" /\ commands' = Opened
        /\ UNCHANGED <<at, files>>
     \/ /\ Operand = "DELIMITER"
        /\ \E file \in TempName \ files :
             /\ files' = files \cup {file}
             /\ commands' = [Opened EXCEPT ![Open] = add_redirection(@, "HEREDOC", file)]
        /\ at' = at + 2
        /\ UNCHANGED pc
  /\ UNCHANGED <<line, status, tokens, counts, failed>>

\* add_redirection() does not look at what ft_strdup() returns.
filename_lost ==
  /\ At("parse", Redirection) /\ ~failed
  /\ Operand = IF tokens[at].type = "HEREDOC" THEN "DELIMITER" ELSE "FILENAME"
  /\ failed' = TRUE
  /\ IF tokens[at].type = "HEREDOC"
     THEN \E file \in TempName \ files : files' = files \cup {file}
     ELSE UNCHANGED files
  /\ commands' = [Opened EXCEPT ![Open] = add_redirection(@, tokens[at].type, NULL)]
  /\ current' = Open
  /\ at' = at + 2
  /\ UNCHANGED <<line, pc, status, tokens, counts>>

\* Slip: the command stays open, the next stage is added to it.
AfterPipeCommand(c) == c

CurrentAfterPipe(c) == 0

Retyped(token, type) == SpacedToken(type, token.value, token.space)

\* The token behind a pipe becomes a command unless it is a redirection.
parse_pipe ==
  /\ At("parse", {"PIPE"})
  /\ IF current = 0
     THEN pc' = "aborted" /\ UNCHANGED <<tokens, at, commands, current>>
     ELSE /\ commands' = [commands EXCEPT ![current].pipe_next = TRUE]
          /\ current' = CurrentAfterPipe(current)
          /\ tokens' = IF Operand \in Redirection \cup {"none"} THEN tokens
                       ELSE [tokens EXCEPT ![at+1] = Retyped(@, "COMMANDE")]
          /\ at' = at + 1
          /\ UNCHANGED pc
  /\ UNCHANGED <<line, status, counts, files, failed>>

\* The loop passes over a file name or a delimiter that no operator took.
parse_other ==
  /\ At("parse", {"EXIT_STATUS", "FILENAME", "DELIMITER"})
  /\ IF tokens[at].type = "EXIT_STATUS"
     THEN /\ commands' = [Opened EXCEPT ![Open] = add_argument(@, status)]
          /\ current' = Open
     ELSE UNCHANGED <<commands, current>>
  /\ at' = at + 1
  /\ UNCHANGED <<line, pc, status, tokens, counts, files, failed>>

parse_end ==
  /\ pc = "parse" /\ at > Len(tokens)
  /\ pc' = "done"
  /\ UNCHANGED <<line, status, tokens, at, counts, result>>

-----------------------------------------------------------------------------
Validate ==
  \/ begin \/ validate_word \/ validate_pipe \/ validate_redirection
  \/ validate_other \/ validate_end

Parse ==
  \/ parse_word \/ parse_redirection \/ parse_heredoc
  \/ parse_pipe \/ parse_other \/ parse_end
  \/ argument_lost \/ filename_lost

Next == Validate \/ Parse

Spec == Init /\ [][Next]_vars

\* One thread runs the call; what the user types into a here-document ends.
FairSpec == Spec /\ WF_vars(Next)

-----------------------------------------------------------------------------
(* Properties.                                                              *)

\* The list is the one that was handed over, well formed; the walk stays on it or one
\* past it, its tokens stay tokens, and the open command is the last one of the list.
TypeOK ==
  /\ WellFormed(line)
  /\ pc \in {"start", "validate", "parse", "done", "rejected", "aborted"}
  /\ status \in StatusText
  /\ IsTokenList(tokens) /\ Len(tokens) = Len(line)
  /\ at \in 1..Len(tokens)+1
  /\ command_count \in Nat /\ redirection_count \in Nat
  /\ current \in {0, Len(commands)}
  /\ files \subseteq TempName
  /\ failed \in BOOLEAN

\* What the caller gets out of one call, seen as one reply.
Answer ==
  [kind     |-> CASE pc = "done"                   -> "pipeline"
                  [] pc \in {"rejected", "aborted"} -> "refused"
                  [] OTHER                          -> "none",
   commands |-> IF pc = "done" THEN commands ELSE <<>>,
   failed   |-> IF pc = "done" THEN failed ELSE FALSE]

Abstract == INSTANCE CommandLine WITH answer <- Answer

\* parse_tokens() returns the pipeline the line stands for, or refuses it: the two
\* loops, the flags they reset and the tokens they skip agree on what that is.  Only a
\* copy that found no memory leaves the pipeline damaged, and in that one place.
ImplementsCommandLine == Abstract!Spec

\* At every moment the commands are linked by pipe_next up to the one that is being
\* built: no command between two others is left unlinked, and after a pipe there is
\* none to add to until the next token opens one.
PipesLinked ==
  \A k \in DOMAIN commands : commands[k].pipe_next <=> k < Len(commands) \/ current = 0

\* A pipeline never ends in a pipe, and unless a copy failed every command of it has an
\* argument or a redirection.
NoDanglingPipe ==
  pc = "done" =>
    /\ commands # <<>> /\ ~commands[Len(commands)].pipe_next
    /\ failed \/ \A k \in DOMAIN commands :
         commands[k].args # <<>> \/ commands[k].redirections # <<>>

\* Behind validate_syntax() the parsing loop's own checks for a missing target, pipe
\* or delimiter never fail but in one case, "<<" right before "<<"; only there does
\* it give up a half-built list.
AbortOnlyOnDoubledHeredoc ==
  pc = "aborted" => tokens[at].type = "HEREDOC" /\ Operand = "HEREDOC"

\* A call returns: neither loop stays on a token.
Termination == <>(pc \in {"done", "rejected", "aborted"})

-----------------------------------------------------------------------------
(* What the comments of the source say, where the code does otherwise.      *)

\* "space for 64 arguments": the arguments of a command and the NULL behind them
\* stay in the args array.
ArgsInBounds == \A k \in DOMAIN commands : Len(commands[k].args) < ArgSlots

\* "For heredoc, the next token can be any type (used as a delimiter)": a line is
\* not given up because of the type of the token behind "<<".
AnyDelimiterServes ==
  pc = "aborted" => ~(tokens[at].type = "HEREDOC" /\ Operand # "none")

=============================================================================
