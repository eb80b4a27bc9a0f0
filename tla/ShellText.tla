----------------------------- MODULE ShellText ------------------------------
(***************************************************************************)
(* Lines and words as sequences of characters, and the string helpers of   *)
(* parsing/parser.c: the scans that find the end of a word, a name or a    *)
(* quoted text, the removal of quotes and backslashes, the expansion of    *)
(* variables, and trimming.                                                *)
(*                                                                         *)
(* A character stands for its class, as far as the code tells characters   *)
(* apart: a NameChar is an isalnum() character or the underscore.  "\t" is  *)
(* the tab, the only other isspace() character a line is taken to contain. *)
(***************************************************************************)
EXTENDS Integers, Sequences, FiniteSets, SequencesExt, FiniteSetsExt

CONSTANTS
  NameChar,    \* letters, digits and '_': what a variable name is made of
  Env,         \* the environment: a function from some names to their values
  StatusText   \* the decimal texts an exit status can have

Blank    == {" ", "\t"}
Operator == {"|", "<", ">"}
DoubleQuote == "\""
Quote    == {"'", DoubleQuote}
Special  == Blank \cup Operator \cup Quote \cup {"$", "?", "\\", "{", "}"}
Char     == Special \cup NameChar

ASSUME TextAssumption ==
  /\ NameChar \cap Special = {}
  /\ DOMAIN Env \subseteq Seq(NameChar) \ {<<>>}
  /\ \A name \in DOMAIN Env : Env[name] \in Seq(Char)
  /\ StatusText # {} /\ StatusText \subseteq Seq(NameChar)

-----------------------------------------------------------------------------
(* Scans.  Each returns the position after what it scanned, at most         *)
(* Len(s) + 1, as the code's index stops at len.                            *)

EndOfRun(s, k, Stop) ==
  Min({j \in k..Len(s)+1 : j = Len(s)+1 \/ s[j] \in Stop})

EndOfName(s, k) == EndOfRun(s, k, Char \ NameChar)

\* Which characters of s, from position k on, a backslash before them escapes:
\* the variable `escaped` of handle_quotes.
Escaped(s, k) ==
  LET escaped[j \in k..Len(s)] == j > k /\ s[j-1] = "\\" /\ ~escaped[j-1]
  IN  escaped

\* The position of the quote that closes the text opened before position k.
\* Only a double-quoted text knows escapes.
ClosingQuote(s, k, quote) ==
  Min({j \in k..Len(s)+1 : \/ j = Len(s)+1
                           \/ s[j] = quote /\ ~(quote = DoubleQuote /\ Escaped(s, k)[j])})

\* The pair in_single_quotes, in_double_quotes after character c.
Toggle(mode, c) ==
  CASE c = "'"  /\ mode = "none"   -> "single"
    [] c = "'"  /\ mode = "single" -> "none"
    [] c = DoubleQuote /\ mode = "none"   -> "double"
    [] c = DoubleQuote /\ mode = "double" -> "none"
    [] OTHER                       -> mode

\* The quoting mode before each position of s, scanning from position k.
QuoteMode(s, k) ==
  LET mode[j \in k..Len(s)+1] == IF j = k THEN "none" ELSE Toggle(mode[j-1], s[j-1])
  IN  mode

\* Slip: an operator without blanks around it does not end a word.
WordEndAtBlank(s, k) ==
  Min({j \in k..Len(s)+1 : \/ j = Len(s)+1
                           \/ QuoteMode(s, k)[j] = "none" /\ s[j] \in Blank})

\* The end of a command word: the first unquoted blank or operator.  The loop
\* clears `escaped` on every turn, so a backslash protects nothing here.
WordEnd(s, k) ==
  Min({j \in k..Len(s)+1 : \/ j = Len(s)+1
                           \/ QuoteMode(s, k)[j] = "none" /\ s[j] \in Blank \cup Operator})

-----------------------------------------------------------------------------
(* Conversions.                                                             *)

Count(s, c) == Cardinality({k \in DOMAIN s : s[k] = c})

\* The elements of s that are not in S, in order.  (SelectSeq() could not be expanded
\* in a proof.)
Without(s, S) == FlattenSeq([k \in DOMAIN s |-> IF s[k] \in S THEN <<>> ELSE <<s[k]>>])

\* Every occurrence of the quote goes, unless their number is odd.  (A function: TLC
\* evaluates its argument once.)
WithoutPaired(quote) ==
  [s \in Seq(Char) |-> IF Count(s, quote) % 2 = 0 THEN Without(s, {quote}) ELSE s]

remove_quotes(s) == WithoutPaired(DoubleQuote)[s]

remove_single_quotes(s) == WithoutPaired("'")[s]

\* A backslash before '"', '\' or '$' goes and what it protects stays.
remove_backslashes(s) ==
  LET from[k \in 1..Len(s)+2] ==
        IF k > Len(s) THEN <<>>
        ELSE IF s[k] = "\\" /\ k < Len(s) /\ s[k+1] \in {DoubleQuote, "\\", "$"}
             THEN <<s[k+1]>> \o from[k+2]
             ELSE <<s[k]>> \o from[k+1]
  IN  from[1]

getenv(name) == IF name \in DOMAIN Env THEN Env[name] ELSE <<>>

\* get_status() returns a variable that waitpid() did not write, the shell having
\* no children: every "$?" that is expanded takes some value of its own.
StatusChoices(s) ==
  [{k \in 2..Len(s) : s[k-1] = "$" /\ s[k] = "?"} -> StatusText]

get_env_value(s, k, status) ==
  IF s[k] = "?" THEN status[k] ELSE getenv(SubSeq(s, k, EndOfName(s, k) - 1))

\* Each '$' but one at the very end is replaced, with the name after it, by the
\* value (an empty name has none, so '$"' loses its '$'); the '?' of "$?" is not
\* part of a name and stays.  The quotes go last, those of the values with them.
expand_variables(s, status) ==
  LET from[k \in 1..Len(s)+1] ==
        LET dollar == EndOfRun(s, k, {"$"})
        IN  IF dollar >= Len(s) THEN SubSeq(s, k, Len(s))
            ELSE SubSeq(s, k, dollar - 1) \o get_env_value(s, dollar + 1, status)
                   \o from[EndOfName(s, dollar + 1)]
  IN  remove_quotes(from[1])

\* ft_strtrim(s, " \t").
ft_strtrim(s) ==
  LET kept == {k \in DOMAIN s : s[k] \notin Blank}
  IN  IF kept = {} THEN <<>> ELSE SubSeq(s, Min(kept), Max(kept))

\* The parts ft_splitD(s, " \t") returns: part k starts at the k-th non-blank
\* character that a blank or nothing precedes.
PartStarts(s) ==
  {k \in DOMAIN s : s[k] \notin Blank /\ (k = 1 \/ s[k-1] \in Blank)}

Part(s, k) ==
  LET start == CHOOSE m \in PartStarts(s) :
                 Cardinality({n \in PartStarts(s) : n <= m}) = k
  IN  SubSeq(s, start, EndOfRun(s, start, Blank) - 1)

ft_splitD(s) == [k \in 1..Cardinality(PartStarts(s)) |-> Part(s, k)]

\* A value that starts and ends with the same quote is not split.
EnclosedInQuotes(s) ==
  s # <<>> /\ s[1] \in Quote /\ s[Len(s)] = s[1]

=============================================================================
