----------------------------- MODULE Tokenizer ------------------------------
(***************************************************************************)
(* tokenize_input() of parsing/parser.c: one call, from a line to a list   *)
(* of tokens.  A step is one turn of its scanning loop, with everything    *)
(* the handler of that turn does, or one turn of concatinate()'s loop.     *)
(*                                                                         *)
(* The index i is one more than the C index.  Allocations can fail where a *)
(* handler tests for it.                                                   *)
(***************************************************************************)
EXTENDS ShellText, Tokens

CONSTANT Inputs   \* the lines a call can be given

ASSUME InputsAssumption == Inputs \subseteq Seq(Char) \ {<<>>}

VARIABLES
  input,                  \* the line
  pc,                     \* "scan", "concat", "done", or "failed" (NULL returned)
  i,                      \* the next character to read
  tokens,                 \* the list built so far
  expect_heredoc_delim,   \* the next word is a here-document's delimiter
  expect_filename,        \* the next plain word is a redirection's target
  cur,                    \* concatinate()'s current token
  oom                     \* whether an allocation has failed: at most one does

vars == <<input, pc, i, tokens, expect_heredoc_delim, expect_filename, cur, oom>>

Init ==
  /\ input \in Inputs
  /\ pc = "scan"
  /\ i = 1
  /\ tokens = <<>>
  /\ expect_heredoc_delim = FALSE
  /\ expect_filename = FALSE
  /\ cur = 1
  /\ oom = FALSE

-----------------------------------------------------------------------------
(* The tests of the scanning loop, in the order it makes them.              *)

Current == input[i]
Next1   == IF i < Len(input) THEN input[i+1] ELSE "nul"

Scanning == pc = "scan" /\ i <= Len(input)

AtHeredoc == Scanning /\ Current = "<" /\ Next1 = "<"

AtDelimiter == Scanning /\ ~AtHeredoc /\ expect_heredoc_delim

\* Slip: the delimiter flag is not consulted.
OrdinaryAnyFlag == Scanning /\ ~AtHeredoc

\* Neither a here-document operator nor its delimiter.
Ordinary == Scanning /\ ~AtHeredoc /\ ~expect_heredoc_delim

AtExitStatus == Ordinary /\ Current = "$" /\ Next1 = "?"

\* Slip: operators are left to the word handlers.
AtPlainOrOperator == Ordinary /\ ~AtExitStatus /\ Current \notin Quote \cup Blank

AtPlain == Ordinary /\ ~AtExitStatus /\ Current \notin Quote \cup Blank \cup Operator

\* A turn that appends new tokens and goes on at position next.
Emit(new, next) ==
  /\ tokens' = tokens \o new
  /\ i' = next
  /\ UNCHANGED <<input, pc, cur>>

\* Slip: whatever follows a token that is not an argument is a command.
TypeAfterNonArg(list, k) ==
  IF list = <<>> \/ list[k].type # "ARG" THEN "COMMANDE" ELSE "ARG"

\* The word that starts a command: handle_quotes() looks at the first token of the
\* line, handle_command_or_argument() at the last one.
TypeAfter(list, k) ==
  IF list = <<>> \/ list[k].type = "PIPE" THEN "COMMANDE" ELSE "ARG"

SpaceAt(k) == k <= Len(input) /\ input[k] = " "

-----------------------------------------------------------------------------
(* The handlers.                                                            *)

handlee_heredoc ==
  /\ AtHeredoc
  /\ Emit(<<new_token("HEREDOC", <<"<", "<">>)>>, i + 2)
  /\ expect_heredoc_delim' = TRUE
  /\ UNCHANGED <<expect_filename, oom>>

handle_heredoc_delim ==
  LET start == EndOfRun(input, i, Char \ Blank)
      end   == EndOfRun(input, start, Blank)
  IN  /\ AtDelimiter
      /\ Emit(<<new_token("DELIMITER", SubSeq(input, start, end - 1))>>, end)
      /\ expect_heredoc_delim' = FALSE
      /\ UNCHANGED <<expect_filename, oom>>

\* Quoted text that is never closed becomes an argument, opening quote included.
UnclosedToken == new_token("ARG", SubSeq(input, i, Len(input)))

handle_quotes ==
  LET quote == Current
      close == ClosingQuote(input, i + 1, quote)
      text  == SubSeq(input, i + 1, close - 1)
  IN  /\ Ordinary /\ Current \in Quote
      /\ \/ /\ close > Len(input)
            /\ Emit(<<UnclosedToken>>, close)
         \/ /\ close <= Len(input)
            /\ \E status \in StatusChoices(text) :
                 LET value == IF quote = DoubleQuote
                              THEN remove_backslashes(expand_variables(text, status))
                              ELSE text
                 IN  Emit(<<SpacedToken(TypeAfter(tokens, 1), value, SpaceAt(close + 1))>>,
                          close + 1)
      /\ UNCHANGED <<expect_heredoc_delim, expect_filename, oom>>

\* handle_quotes() cannot copy the text: tokenize_input() returns NULL at once and
\* the list built so far is lost.
handle_quotes_fails ==
  /\ Ordinary /\ Current \in Quote
  /\ ~oom /\ oom' = TRUE
  /\ pc' = "failed"
  /\ UNCHANGED <<input, i, tokens, expect_heredoc_delim, expect_filename, cur>>

\* Slip: the index is not moved.
skip_blank_stays ==
  /\ Ordinary /\ Current \in Blank
  /\ Emit(<<>>, i)
  /\ UNCHANGED <<expect_heredoc_delim, expect_filename, oom>>

skip_blank ==
  /\ Ordinary /\ Current \in Blank
  /\ Emit(<<>>, i + 1)
  /\ UNCHANGED <<expect_heredoc_delim, expect_filename, oom>>

exit_status ==
  /\ AtExitStatus
  /\ Emit(<<new_token("EXIT_STATUS", <<"$", "?">>)>>, i + 2)
  /\ UNCHANGED <<expect_heredoc_delim, expect_filename, oom>>

pipe ==
  /\ Ordinary /\ Current = "|"
  /\ Emit(<<new_token("PIPE", <<"|">>)>>, i + 1)
  /\ UNCHANGED <<expect_heredoc_delim, expect_filename, oom>>

RedirectionToken ==
  CASE Current = "<"                -> new_token("INPUT", <<"<">>)
    [] Current = ">" /\ Next1 = ">" -> new_token("APPEND", <<">", ">">>)
    [] OTHER                        -> new_token("OUTPUT", <<">">>)

\* Slip: ">>" is skipped as one character.
RedirectionWidthOne == 1

\* Slip: that a second ">" follows is not checked.
RedirectionWidthTwo == IF Current = ">" THEN 2 ELSE 1

RedirectionWidth == IF Current = ">" /\ Next1 = ">" THEN 2 ELSE 1

handle_redirections ==
  /\ Ordinary /\ Current \in {"<", ">"}
  /\ Emit(<<RedirectionToken>>, i + RedirectionWidth)
  /\ expect_filename' = TRUE
  /\ UNCHANGED <<expect_heredoc_delim, oom>>

\* Slip: a plain word is a file name whether or not one is expected.
AtTargetAlways == AtPlain

AtTarget == AtPlain /\ expect_filename

handle_filename ==
  LET end == EndOfRun(input, i, Blank \cup Operator \cup Quote)
  IN  /\ AtTarget
      /\ Emit(<<new_token("FILENAME", SubSeq(input, i, end - 1))>>, end)
      /\ expect_filename' = FALSE
      /\ UNCHANGED <<expect_heredoc_delim, oom>>

\* Each part of a value but the last is marked as followed by a space.
PartTokens(parts) ==
  [k \in 1..Len(parts) |-> SpacedToken("ARG", parts[k], k < Len(parts))]

\* The tokens a variable's value turns into.
ValueTokens(name) ==
  IF name \notin DOMAIN Env THEN <<new_token("ARG", <<>>)>>
  ELSE IF EnclosedInQuotes(Env[name]) THEN <<new_token("ARG", Env[name])>>
  ELSE PartTokens(ft_splitD(Env[name]))

\* "${" up to "}", "$" with a name, or a lone "$".  The braces stay part of the
\* name that is looked up.
handle_env_var ==
  LET brace == EndOfRun(input, i + 1, {"}"})
      end   == IF Next1 = "{" THEN IF brace <= Len(input) THEN brace + 1 ELSE brace
               ELSE EndOfName(input, i + 1)
  IN  /\ AtPlain /\ ~expect_filename /\ Current = "$"
      /\ IF end = i + 1
         THEN Emit(<<new_token("ARG", <<"$">>)>>, end)
         ELSE Emit(ValueTokens(SubSeq(input, i + 1, end - 1)), end)
      /\ UNCHANGED <<expect_heredoc_delim, expect_filename, oom>>

AtWord == AtPlain /\ ~expect_filename /\ Current # "$"

\* A word with an open quote is dropped with the rest of the line.
handle_command_or_argument ==
  LET end  == WordEnd(input, i)
      word == SubSeq(input, i, end - 1)
  IN  /\ AtWord
      /\ \/ /\ QuoteMode(input, i)[end] # "none"
            /\ Emit(<<>>, end)
         \/ /\ QuoteMode(input, i)[end] = "none"
            /\ \E status \in StatusChoices(word) :
                 LET value == remove_single_quotes(expand_variables(word, status))
                 IN  Emit(<<SpacedToken(TypeAfter(tokens, Len(tokens)), value, SpaceAt(end))>>,
                          end)
      /\ UNCHANGED <<expect_heredoc_delim, expect_filename, oom>>

\* The word cannot be copied: it is skipped and the scan goes on behind it.
word_lost ==
  /\ AtWord
  /\ QuoteMode(input, i)[WordEnd(input, i)] = "none"
  /\ ~oom /\ oom' = TRUE
  /\ Emit(<<>>, WordEnd(input, i))
  /\ UNCHANGED <<expect_heredoc_delim, expect_filename>>

end_of_input ==
  /\ pc = "scan" /\ i > Len(input)
  /\ pc' = "concat"
  /\ UNCHANGED <<input, i, tokens, expect_heredoc_delim, expect_filename, cur, oom>>

-----------------------------------------------------------------------------
(* concatinate(): adjacent words with no space between them become one.     *)

\* Slip: only words of the same type are glued.
GluedSameType(a, b) == a.type \in Word /\ a.type = b.type /\ ~a.space

Glued(a, b) == a.type \in Word /\ b.type \in Word /\ ~a.space

\* Slip: the right token's text replaces the left one's.
MergedOverwrites(a, b) == [a EXCEPT !.value = b.value]

\* The left token takes the text of the right one and keeps its own type and its
\* own space flag.
Merged(a, b) == [a EXCEPT !.value = @ \o b.value]

concat_merge ==
  /\ pc = "concat" /\ cur < Len(tokens)
  /\ Glued(tokens[cur], tokens[cur+1])
  /\ tokens' = [k \in 1..Len(tokens)-1 |->
                  CASE k < cur -> tokens[k]
                    [] k = cur -> Merged(tokens[cur], tokens[cur+1])
                    [] k > cur -> tokens[k+1]]
  /\ UNCHANGED <<input, pc, i, expect_heredoc_delim, expect_filename, cur, oom>>

concat_advance ==
  /\ pc = "concat" /\ cur < Len(tokens)
  /\ ~Glued(tokens[cur], tokens[cur+1])
  /\ cur' = cur + 1
  /\ UNCHANGED <<input, pc, i, tokens, expect_heredoc_delim, expect_filename, oom>>

\* The new value cannot be allocated: the list is returned as far as it got.
concat_fails ==
  /\ pc = "concat" /\ cur < Len(tokens)
  /\ Glued(tokens[cur], tokens[cur+1])
  /\ ~oom /\ oom' = TRUE
  /\ pc' = "done"
  /\ UNCHANGED <<input, i, tokens, expect_heredoc_delim, expect_filename, cur>>

concat_end ==
  /\ pc = "concat" /\ cur >= Len(tokens)
  /\ pc' = "done"
  /\ UNCHANGED <<input, i, tokens, expect_heredoc_delim, expect_filename, cur, oom>>

-----------------------------------------------------------------------------
Scan ==
  \/ handlee_heredoc \/ handle_heredoc_delim
  \/ handle_quotes \/ handle_quotes_fails
  \/ skip_blank \/ exit_status \/ pipe
  \/ handle_redirections \/ handle_filename
  \/ handle_env_var
  \/ handle_command_or_argument \/ word_lost

Concatinate == concat_merge \/ concat_advance \/ concat_fails \/ concat_end

Next == Scan \/ end_of_input \/ Concatinate

Spec == Init /\ [][Next]_vars

\* One thread runs the call, and nothing in it waits.
FairSpec == Spec /\ WF_vars(Next)

-----------------------------------------------------------------------------
(* Reference definitions the properties compare the code with.              *)

\* All the text of a token list.
TokenText(list) == FlattenSeq([k \in DOMAIN list |-> list[k].value])

\* ... and that of its operators.
OperatorText(list) ==
  FlattenSeq([k \in DOMAIN list |->
               IF list[k].type \in Redirection \cup {"PIPE"} THEN list[k].value ELSE <<>>])

\* The tokens of the list that are not words.
NonWords(list) ==
  FlattenSeq([k \in DOMAIN list |-> IF list[k].type \in Word THEN <<>> ELSE <<list[k]>>])

PlainQuoting(s) ==
  /\ \A k \in DOMAIN s : s[k] # "\\"
  /\ \A k \in 1..Len(s)-1 : <<s[k], s[k+1]>> \notin {<<"<", "<">>, <<"$", "{">>}

\* The operator characters outside quotes, a quote inside the other kind of
\* quotes being an ordinary character.
UnquotedOperators(s) ==
  FlattenSeq([k \in DOMAIN s |->
               IF s[k] \in Operator /\ QuoteMode(s, 1)[k] = "none" THEN <<s[k]>> ELSE <<>>])

-----------------------------------------------------------------------------
(* Properties.                                                              *)

\* The index stays on the line or one past it, and the list is a list of tokens of
\* the types that tokenize_input() builds.
TypeOK ==
  /\ input \in Seq(Char) \ {<<>>}
  /\ pc \in {"scan", "concat", "done", "failed"}
  /\ i \in 1..Len(input)+1
  /\ IsTokenList(tokens)
  /\ expect_heredoc_delim \in BOOLEAN
  /\ expect_filename \in BOOLEAN
  /\ cur \in Nat \ {0}
  /\ oom \in BOOLEAN

\* Between two turns the flag expect_heredoc_delim says that the last token is a
\* HEREDOC: the turn behind "<<" takes it, unless that is another "<<".  So every
\* delimiter, and nothing else, ends up behind its operator, also where memory ran
\* out and once concatinate() has removed tokens.
HeredocDiscipline ==
  /\ pc = "scan" => (expect_heredoc_delim <=>
                       tokens # <<>> /\ tokens[Len(tokens)].type = "HEREDOC")
  /\ DelimitersOwned(tokens)

\* The flag expect_filename, set by a redirection and cleared by the next plain
\* word only, is up exactly while a redirection waits for its file, so no word
\* becomes a FILENAME without a redirection of its own.
FilenameDiscipline ==
  /\ pc = "scan" => (expect_filename <=> Pending(tokens, Len(tokens)))
  /\ FilenamesOwned(tokens)

\* Every word typed COMMANDE is where a command can start, although the two handlers
\* that type words look at different ends of the list and concatinate() moves what
\* comes after.
CommandPosition == CommandsPlaced(tokens)

\* concatinate() leaves no two words side by side that no space separates.
NoGlueLeft ==
  (pc = "done" /\ ~oom) =>
    \A k \in 1..Len(tokens)-1 :
      {tokens[k].type, tokens[k+1].type} \subseteq Word => tokens[k].space

\* concatinate() moves text between words only: the text of the list as a whole, and
\* the tokens that are not words, stay as they were.
ConcatConserves ==
  [][pc = "concat" =>
       /\ TokenText(tokens') = TokenText(tokens)
       /\ NonWords(tokens') = NonWords(tokens)]_vars

\* In a line of names, blanks and operators every character other than a blank
\* comes out in exactly one token, in order: no handler's end overlaps or skips the
\* start of the next.
TextFaithful ==
  (/\ pc = "done" /\ ~oom
   /\ \A k \in DOMAIN input : input[k] \in NameChar \cup Blank \cup Operator)
    => TokenText(tokens) = Without(input, Blank)

\* The operators of the list are the unquoted operators of the line, in order,
\* however words, quotes, file names and variable values alternate: quoting hides
\* an operator, and nothing that a variable holds becomes one.  (Not for lines with
\* a backslash, "<<" or "${", whose scans know no quotes or know others.)
OperatorsFaithful ==
  (pc = "done" /\ PlainQuoting(input)) =>
    OperatorText(tokens) = UnquotedOperators(input)

\* Every turn of the scanning loop moves forward.
Progress == [][Scan /\ pc' # "failed" => i' > i]_vars

\* A call returns, whatever the line: no handler leaves the loop on one character.
Termination == <>(pc \in {"done", "failed"})

=============================================================================
