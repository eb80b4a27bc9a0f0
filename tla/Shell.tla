-------------------------------- MODULE Shell --------------------------------
(***************************************************************************)
(* init_shell() of main.c: the loop that reads a line, has it tokenized and *)
(* parsed, and keeps it in the history.  It composes Tokenizer, Parser and  *)
(* Heredoc, which share the list of tokens and the terminal: a              *)
(* here-document is read from what the user types behind the line.          *)
(*                                                                         *)
(* A step is a step of the component whose call is under way, or a call or  *)
(* a return.  One allocation may fail in a session.                         *)
(***************************************************************************)
EXTENDS ShellText, Tokens

CONSTANTS
  Lines,     \* what can be typed on a line
  EOF,       \* ... or instead of one: the end of the file
  Scripts,   \* what the user types in a session
  TempName,  \* the names of temporary files that one line may need
  ArgSlots,
  NULL,
  Asks, Shows  \* see Session

ASSUME ShellAssumption ==
  /\ Lines \subseteq Seq(Char)
  /\ EOF \notin Lines
  /\ Scripts \subseteq Seq(Lines \cup {EOF})
  /\ ArgSlots \in Nat \ {0}

VARIABLES
  typed,      \* what the user types
  next,       \* the position of what readline() returns next
  line,       \* the line read at the prompt, and
  line_at,    \* ... its position
  phase,      \* "prompt", "tokenize", "parse", "heredoc" (in parse_tokens), "exit"
  documents,  \* the temporary files of the line and their texts
  history,    \* add_history(), and what was printed of each line's documents
  heap,       \* the lists of tokens and of commands that are allocated, each with the
              \* position of its line
  oom_before, \* an allocation had failed before the line was read (for Session)
  \* tokenize_input()
  tokenizer_pc, i, tokens, expect_heredoc_delim, expect_filename, cur,
  \* parse_tokens(), which works on the same list
  handed, parser_pc, status, at, command_count, redirection_count,
  commands, current, files,
  \* handle_heredoc()
  delimiter, ahead, heredoc_pc, read, p, result, result_cap, content, content_capacity,
  oom         \* an allocation has failed

loop    == <<typed, next, line, line_at, phase, documents, history, oom_before>>
scanner == <<tokenizer_pc, i, expect_heredoc_delim, expect_filename, cur>>
parser  == <<handed, parser_pc, status, at, command_count, redirection_count,
             commands, current, files>>
reader  == <<delimiter, ahead, heredoc_pc, read, p, result, result_cap, content,
             content_capacity>>
vars == <<loop, heap, scanner, tokens, parser, reader, oom>>

\* The modules with the proofs stand for the components, so that ShellProofs can go by
\* what is proved of a call.
T == INSTANCE TokenizerProofs WITH
       Inputs <- Lines \ {<<>>}, input <- line, pc <- tokenizer_pc

P == INSTANCE ParserProofs WITH
       TokenLists <- {}, Existing <- {}, line <- handed, pc <- parser_pc, failed <- oom

H == INSTANCE Heredoc WITH
       Delimiters <- Seq(Char), Scripts <- Seq(Lines), script <- ahead, pc <- heredoc_pc

Init ==
  /\ typed \in Scripts
  /\ next = 1 /\ line = <<>> /\ line_at = 0
  /\ phase = "prompt"
  /\ documents = <<>> /\ history = <<>> /\ heap = {} /\ oom_before = FALSE
  /\ tokenizer_pc = "scan" /\ i = 1 /\ tokens = <<>>
  /\ expect_heredoc_delim = FALSE /\ expect_filename = FALSE /\ cur = 1
  /\ handed = <<>> /\ parser_pc = "start" /\ status \in StatusText /\ at = 1
  /\ command_count = 0 /\ redirection_count = 0
  /\ commands = <<>> /\ current = 0 /\ files = {}
  /\ delimiter = <<>> /\ ahead = <<>> /\ heredoc_pc = "read" /\ read = 0
  /\ p = 1 /\ result = <<>> /\ result_cap = 0 /\ content = <<>> /\ content_capacity = 0
  /\ oom = FALSE

-----------------------------------------------------------------------------
(* Ownership.                                                               *)

Block(kind) == [kind |-> kind, at |-> line_at]

\* A list of the line takes memory from its first element on.
Allocated(kind, list) == IF list = <<>> THEN heap ELSE heap \cup {Block(kind)}

\* Slip: the loop stops before its first turn.
free_tokens_none(blocks) == blocks

free_tokens(blocks) == blocks \ {Block("tokens")}

free_command_list(blocks) == blocks \ {Block("commands")}

-----------------------------------------------------------------------------
(* The prompt.                                                              *)

AtLine == next <= Len(typed) /\ typed[next] # EOF

\* Slip: that readline() returned NULL is not looked at.
end_of_file_unnoticed ==
  /\ phase = "prompt" /\ ~AtLine
  /\ UNCHANGED vars

end_of_file ==
  /\ phase = "prompt" /\ ~AtLine
  /\ phase' = "exit"
  /\ UNCHANGED <<typed, next, line, line_at, oom_before, documents, history, heap,
                 scanner, tokens, parser, reader, oom>>

empty_line ==
  /\ phase = "prompt" /\ AtLine /\ typed[next] = <<>>
  /\ next' = next + 1
  /\ UNCHANGED <<typed, line, line_at, oom_before, phase, documents, history, heap,
                 scanner, tokens, parser, reader, oom>>

call_tokenize_input ==
  /\ phase = "prompt" /\ AtLine /\ typed[next] # <<>>
  /\ line' = typed[next] /\ line_at' = next /\ next' = next + 1 /\ oom_before' = oom
  /\ phase' = "tokenize"
  /\ tokenizer_pc' = "scan" /\ i' = 1 /\ tokens' = <<>> /\ cur' = 1
  /\ expect_heredoc_delim' = FALSE /\ expect_filename' = FALSE
  /\ UNCHANGED <<typed, documents, history, heap, parser, reader, oom>>

tokenize_input ==
  /\ phase = "tokenize" /\ T!Next
  /\ heap' = Allocated("tokens", tokens')
  /\ UNCHANGED <<typed, next, line_at, oom_before, phase, documents, history,
                 parser, reader>>

\* The line is in the history whatever became of it.
LineDone(shown) ==
  /\ history' = Append(history, [line |-> line, documents |-> shown])
  /\ phase' = "prompt"
  /\ documents' = <<>>

\* Without tokens there is nothing to parse; after a failure the tokens are lost.
nothing_to_parse ==
  /\ phase = "tokenize"
  /\ tokenizer_pc = "failed" \/ (tokenizer_pc = "done" /\ tokens = <<>>)
  /\ LineDone(<<>>)
  /\ UNCHANGED <<typed, next, line, line_at, oom_before, heap, scanner, tokens,
                 parser, reader, oom>>

call_parse_tokens ==
  /\ phase = "tokenize" /\ tokenizer_pc = "done" /\ tokens # <<>>
  /\ phase' = "parse"
  /\ handed' = tokens /\ parser_pc' = "start" /\ at' = 1
  /\ status' \in StatusText
  /\ command_count' = 0 /\ redirection_count' = 0
  /\ commands' = <<>> /\ current' = 0 /\ files' = {}
  /\ UNCHANGED <<typed, next, line, line_at, oom_before, documents, history, heap,
                 scanner, tokens, reader, oom>>

-----------------------------------------------------------------------------
(* parse_tokens() and the documents it reads.                               *)

WantsDocument ==
  parser_pc = "parse" /\ P!At("parse", {"HEREDOC"}) /\ P!Operand = "DELIMITER"

parse_tokens ==
  /\ phase = "parse" /\ ~WantsDocument /\ P!Next
  /\ heap' = Allocated("commands", commands')
  /\ UNCHANGED <<loop, scanner, reader>>

\* The lines before the next end of the file.
Ahead ==
  LET ends == {k \in next..Len(typed) : typed[k] = EOF}
  IN  SubSeq(typed, next, Min(ends \cup {Len(typed) + 1}) - 1)

call_handle_heredoc ==
  /\ phase = "parse" /\ WantsDocument
  /\ phase' = "heredoc"
  /\ delimiter' = tokens[at+1].value /\ ahead' = Ahead
  /\ heredoc_pc' = "read" /\ read' = 0
  /\ p' = 1 /\ result' = <<>> /\ result_cap' = 0
  /\ content' = <<>> /\ content_capacity' = 0
  /\ UNCHANGED <<typed, next, line, line_at, oom_before, documents, history, heap,
                 scanner, tokens, parser, oom>>

handle_heredoc ==
  /\ phase = "heredoc" /\ H!Next
  /\ UNCHANGED <<loop, heap, scanner, tokens, parser>>

\* Slip: there is always one more line to read.
EndOfFileReadAlways == heredoc_pc = "done"

\* The document ended with the file, which readline() has then returned.
EndOfFileRead ==
  /\ heredoc_pc = "done" /\ next + read <= Len(typed)
  /\ ~(read > 0 /\ ahead[read] = H!unquoted_delimiter)

\* The document, or nothing in place of NULL, goes into a new file, and parse_tokens()
\* goes on.
store_document ==
  /\ phase = "heredoc" /\ heredoc_pc \in {"done", "failed"}
  /\ P!parse_heredoc \/ P!filename_lost
  /\ documents' = [f \in files' |-> IF f \in files THEN documents[f]
                                    ELSE IF heredoc_pc = "done" THEN content ELSE <<>>]
  /\ next' = next + read + (IF EndOfFileRead THEN 1 ELSE 0)
  /\ phase' = "parse"
  /\ heap' = Allocated("commands", commands')
  /\ UNCHANGED <<typed, line, line_at, oom_before, history, scanner, reader>>

\* Slip: the redirections are printed from the last one.
DocumentsOfFromLast(cmd) ==
  SelectSeq(Reverse(cmd.redirections), LAMBDA r : r.type = "HEREDOC")

\* print_command_list() goes from the head on, where add_redirection() has put the last
\* one.
DocumentsOf(cmd) == SelectSeq(cmd.redirections, LAMBDA r : r.type = "HEREDOC")

\* What the files hold whose names are printed, in the order in which they are.
ShownDocuments ==
  LET redirections == FlattenSeq([k \in DOMAIN commands |-> DocumentsOf(commands[k])])
  IN  [k \in DOMAIN redirections |->
         IF redirections[k].filename = NULL THEN NULL ELSE documents[redirections[k].filename]]

\* The commands are printed and freed, and the tokens are freed.
commands_printed ==
  /\ phase = "parse" /\ parser_pc = "done"
  /\ LineDone(ShownDocuments)
  /\ heap' = free_tokens(free_command_list(heap))
  /\ UNCHANGED <<typed, next, line, line_at, oom_before, scanner, tokens,
                 parser, reader, oom>>

\* parse_tokens() has returned NULL, whatever it had built.
nothing_to_print ==
  /\ phase = "parse" /\ parser_pc \in {"rejected", "aborted"}
  /\ LineDone(<<>>)
  /\ heap' = free_tokens(heap)
  /\ UNCHANGED <<typed, next, line, line_at, oom_before, scanner, tokens,
                 parser, reader, oom>>

-----------------------------------------------------------------------------
Next ==
  \/ end_of_file \/ empty_line
  \/ call_tokenize_input \/ tokenize_input \/ nothing_to_parse
  \/ call_parse_tokens \/ parse_tokens
  \/ call_handle_heredoc \/ handle_heredoc \/ store_document
  \/ commands_printed \/ nothing_to_print

Spec == Init /\ [][Next]_vars

\* One thread runs the shell, and the user goes on typing up to the end of the file.
FairSpec == Spec /\ WF_vars(Next)

-----------------------------------------------------------------------------
(* Properties.                                                              *)

TypeOK ==
  /\ typed \in Scripts /\ next \in 1..Len(typed)+1 /\ oom_before \in BOOLEAN
  /\ phase \in {"prompt", "tokenize", "parse", "heredoc", "exit"}
  /\ heap \subseteq [kind : {"tokens", "commands"}, at : DOMAIN typed]
  /\ DOMAIN documents \subseteq TempName

\* What parse_tokens() is given is what Parser assumes of it, whatever was typed and
\* also where a word was lost or the gluing stopped half-way.
HandedWellFormed == phase \in {"parse", "heredoc"} => WellFormed(handed)

Refined == INSTANCE Session WITH
             Newline <- H!Newline,
             next    <- IF phase \in {"prompt", "exit"} THEN next ELSE line_at,
             failed  <- IF phase \in {"prompt", "exit"} THEN oom ELSE oom_before

\* Every line that is typed is read at the prompt or by the document it belongs to,
\* whatever mixture of pipes, refusals and documents ended by EOF came before it; what
\* is printed of a line has its own documents, those of a command last one first; a line
\* that is refused asks for none, and only the line in which memory ran out may leave
\* part of a document to the prompt.
ImplementsSession == Refined!Spec

\* Between two lines neither list of a line is left, whichever way it ended, but the
\* commands of a line with a doubled here-document operator and the tokens of one whose
\* quoted text could not be copied.  (Of the lists as wholes: single texts that are lost
\* while they are built are not in heap.)
ListLeaksLocated ==
  phase \in {"prompt", "exit"} => \A block \in heap :
    \/ block.kind = "commands" /\ <<"<", "<", "<", "<">> \in SubSeqs(typed[block.at])
    \/ block.kind = "tokens" /\ oom /\ Quote \cap Range(typed[block.at]) # {}

\* The shell ends when the user does.
SessionEnds == <>(phase = "exit")

=============================================================================
