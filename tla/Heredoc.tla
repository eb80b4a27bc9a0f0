------------------------------- MODULE Heredoc -------------------------------
(***************************************************************************)
(* handle_heredoc() of parsing/util_herdoc.c, with expand_vars = 1 as its   *)
(* only caller passes it: one call, from a delimiter to the text of a       *)
(* here-document or to NULL.  A step is one line read or appended, or one   *)
(* turn of expand_env_vars()'s loop over a line.                            *)
(*                                                                         *)
(* A buffer is a sequence, whose length is what the code counts, and a      *)
(* capacity.  The delimiter itself is copied without fail.                  *)
(***************************************************************************)
EXTENDS ShellText

CONSTANTS
  Delimiters,  \* what can stand behind "<<"
  Scripts      \* what the user can type: the lines before the end of the file

Newline == "newline"

\* A byte of a block that was never written.
Junk == "junk"

ASSUME HeredocAssumption ==
  /\ Delimiters \subseteq Seq(Char)
  /\ Scripts \subseteq Seq(Seq(Char))
  /\ {Newline, Junk} \cap Char = {}

VARIABLES
  delimiter,
  script,
  pc,                \* "read", "expand", "append"; "done", or "failed" (NULL)
  read,              \* how many lines of the script have been read
  p,                 \* expand_env_vars(): the next character of the line
  result,            \* ... what the line has become so far
  result_cap,        \* ... and the size of the block that holds it
  content,           \* the document so far
  content_capacity,  \* the size of its block, 0 for NULL
  oom                \* whether an allocation has failed: at most one does

expansion == <<p, result, result_cap>>
document  == <<content, content_capacity>>
vars == <<delimiter, script, pc, read, expansion, document, oom>>

Init ==
  /\ delimiter \in Delimiters
  /\ script \in Scripts
  /\ pc = "read"
  /\ read = 0
  /\ p = 1 /\ result = <<>> /\ result_cap = 0
  /\ content = <<>> /\ content_capacity = 0
  /\ oom = FALSE

-----------------------------------------------------------------------------
(* Reading a line.                                                          *)

unquoted_delimiter == remove_quotes(delimiter)

\* Single quotes do not make a delimiter quoted.
is_quoted == delimiter # unquoted_delimiter

line == script[read]

\* Slip: the block is as long as the line.
TightCapacity(s) == Len(s) + 1

InitialCapacity(s) == 2 * Len(s)

\* Slip: the walk starts where the last one ended.
LineStartKept == p

LineStart == 1

read_line ==
  /\ pc = "read" /\ read < Len(script)
  /\ script[read+1] # unquoted_delimiter
  /\ read' = read + 1
  /\ IF is_quoted
     THEN pc' = "append" /\ result' = script[read+1] /\ UNCHANGED <<p, result_cap>>
     ELSE /\ pc' = "expand" /\ p' = LineStart /\ result' = <<>>
          /\ result_cap' = InitialCapacity(script[read+1])
  /\ UNCHANGED <<delimiter, script, document, oom>>

read_delimiter ==
  /\ pc = "read" /\ read < Len(script)
  /\ script[read+1] = unquoted_delimiter
  /\ read' = read + 1
  /\ pc' = "done"
  /\ UNCHANGED <<delimiter, script, expansion, document, oom>>

\* Slip: the end of the file is not noticed.
read_eof_unnoticed ==
  /\ pc = "read" /\ read = Len(script)
  /\ UNCHANGED vars

read_eof ==
  /\ pc = "read" /\ read = Len(script)
  /\ pc' = "done"
  /\ UNCHANGED <<delimiter, script, read, expansion, document, oom>>

-----------------------------------------------------------------------------
(* expand_env_vars().                                                       *)

Expanding == pc = "expand" /\ p <= Len(line)

\* Slip: any "$" is taken for a variable.
AtVariableAny == Expanding /\ line[p] = "$"

AtVariable == Expanding /\ line[p] = "$" /\ p < Len(line) /\ line[p+1] \in NameChar

NameAt(s, k) == SubSeq(s, k + 1, EndOfName(s, k + 1) - 1)

ValueAt(s, k) == getenv(NameAt(s, k))

\* Slip: the terminator is forgotten.
FullUnterminated(n) == Len(result) + n > result_cap

\* Whether n more bytes leave no room for the terminator.
Full(n) == Len(result) + n >= result_cap

\* A value that does not fit moves what there is to a larger block; a name that is not
\* set leaves nothing.
expand_variable ==
  /\ AtVariable
  /\ result' = result \o ValueAt(line, p)
  /\ result_cap' = IF NameAt(line, p) \in DOMAIN Env /\ Full(Len(ValueAt(line, p)))
                   THEN 2 * (Len(result) + Len(ValueAt(line, p))) ELSE result_cap
  /\ p' = EndOfName(line, p + 1)
  /\ UNCHANGED <<delimiter, script, pc, read, document, oom>>

\* For one character more the block is replaced, and what there was is not copied.
Moved(s) == [k \in DOMAIN s |-> Junk]

expand_character ==
  /\ Expanding /\ ~AtVariable
  /\ result' = Append(IF Full(1) THEN Moved(result) ELSE result, line[p])
  /\ result_cap' = IF Full(1) THEN 2 * result_cap ELSE result_cap
  /\ p' = p + 1
  /\ UNCHANGED <<delimiter, script, pc, read, document, oom>>

\* The first block, a name's copy or a larger block cannot be had.
expand_fails ==
  /\ pc = "expand" /\ (p = 1 \/ AtVariable \/ (Expanding /\ Full(1)))
  /\ ~oom /\ oom' = TRUE
  /\ pc' = "failed"
  /\ UNCHANGED <<delimiter, script, read, expansion, document>>

\* The caller takes the length of the line again: an unwritten byte may end it.
expand_end ==
  /\ pc = "expand" /\ p > Len(line)
  /\ \E n \in {Len(result)} \cup {k - 1 : k \in {j \in DOMAIN result : result[j] = Junk}} :
       result' = SubSeq(result, 1, n)
  /\ pc' = "append"
  /\ UNCHANGED <<delimiter, script, read, p, result_cap, document, oom>>

-----------------------------------------------------------------------------
(* Appending the line.                                                      *)

\* Slip: the terminator is not counted.
NewSizeUnterminated == Len(content) + Len(result) + 1

NewSize == Len(content) + Len(result) + 2

append_line ==
  /\ pc = "append"
  /\ content_capacity' = IF NewSize > content_capacity THEN 2 * NewSize ELSE content_capacity
  /\ content' = content \o Append(result, Newline)
  /\ pc' = "read"
  /\ UNCHANGED <<delimiter, script, read, expansion, oom>>

append_fails ==
  /\ pc = "append" /\ NewSize > content_capacity
  /\ ~oom /\ oom' = TRUE
  /\ pc' = "failed"
  /\ UNCHANGED <<delimiter, script, read, expansion, document>>

-----------------------------------------------------------------------------
Read   == read_line \/ read_delimiter \/ read_eof
Expand == expand_variable \/ expand_character \/ expand_fails \/ expand_end
Next   == Read \/ Expand \/ append_line \/ append_fails

Spec == Init /\ [][Next]_vars

\* One thread runs the call, and the user goes on typing up to the end of the file.
FairSpec == Spec /\ WF_vars(Next)

-----------------------------------------------------------------------------
(* Reference definitions.                                                   *)

VariableAt(s, k) == s[k] = "$" /\ k < Len(s) /\ s[k+1] \in NameChar

\* A line with every variable replaced by its value, "$?" being none.
Expansion(s) ==
  LET from[k \in 1..Len(s)+1] ==
        IF k > Len(s) THEN <<>>
        ELSE IF VariableAt(s, k) THEN ValueAt(s, k) \o from[EndOfName(s, k + 1)]
        ELSE <<s[k]>> \o from[k+1]
  IN  from[1]

\* The lines before the first delimiter, or before the end of the file.
Body ==
  LET delimiters == {k \in DOMAIN script : script[k] = unquoted_delimiter}
  IN  IF delimiters = {} THEN script ELSE SubSeq(script, 1, Min(delimiters) - 1)

Document(lines) ==
  FlattenSeq([k \in DOMAIN lines |->
               Append(IF is_quoted THEN lines[k] ELSE Expansion(lines[k]), Newline)])

\* No value in the line is longer than twice the text that names it.
ShortValues(s) ==
  \A k \in DOMAIN s : VariableAt(s, k) => Len(ValueAt(s, k)) <= 2 * (EndOfName(s, k + 1) - k)

-----------------------------------------------------------------------------
(* Properties.                                                              *)

Byte == Char \cup {Newline, Junk}

\* The walk over a line stays on it, or one past it, and the buffers hold bytes.
TypeOK ==
  /\ delimiter \in Delimiters /\ script \in Scripts
  /\ pc \in {"read", "expand", "append", "done", "failed"}
  /\ read \in 0..Len(script)
  /\ pc \in {"expand", "append"} => read > 0
  /\ p \in Nat \ {0}
  /\ pc = "expand" => p <= Len(line) + 1
  /\ result \in Seq(Byte) /\ result_cap \in Nat
  /\ content \in Seq(Byte) /\ content_capacity \in Nat
  /\ oom \in BOOLEAN

\* Whatever values the variables have, expand_env_vars() writes inside its block, the
\* terminator included, except for an empty line, whose block has no room for one.
ExpansionFits ==
  pc = "expand" /\ line # <<>> => Len(result) < result_cap

\* The document and its terminator fit into its block after every line.
DocumentFits ==
  content # <<>> => Len(content) < content_capacity

\* Text is lost to a block that is replaced only when a variable of the line has a
\* value more than twice as long as the text that names it.
LossNeedsLongValue ==
  pc \in {"expand", "append"} /\ ShortValues(line) =>
    \A k \in DOMAIN result : result[k] # Junk

\* The document is the lines typed before the first one that is the delimiter,
\* expanded unless the delimiter was quoted, however the blocks grew on the way; only
\* a line with a long value may come out otherwise.
DocumentFaithful ==
  (pc = "done" /\ (is_quoted \/ \A k \in DOMAIN script : ShortValues(script[k])))
    => content = Document(Body)

\* A call returns, whatever is typed.
Termination == <>(pc \in {"done", "failed"})

=============================================================================
