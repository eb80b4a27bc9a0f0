---------------------------- MODULE ParserProofs ----------------------------
(***************************************************************************)
(* Proofs about Parser, for every set of well-formed token lists: type      *)
(* correctness, how commands are linked, that no pipeline ends in a pipe,   *)
(* where the parsing loop can give up, and, in the second half, that the    *)
(* two loops answer what CommandLine says of the line as a whole.           *)
(***************************************************************************)
EXTENDS Parser, TextProofs

-----------------------------------------------------------------------------
(* The inductive invariant.                                                 *)

\* What validate_syntax() has established of the tokens before position n.
Validated(list, n) ==
  \A k \in 1..n-1 :
    /\ list[k].type \in FileRedirection
         => k < Len(list) /\ list[k+1].type = "FILENAME"
    /\ list[k].type = "HEREDOC"
         => k < Len(list) \/ (k > 1 /\ list[k-1].type = "HEREDOC")
    /\ list[k].type = "PIPE" => k > 1 /\ list[k-1].type # "PIPE"

\* The parsing loop retypes a token behind a pipe only, and no redirection.
Edited ==
  \A k \in 1..Len(line) :
    \/ tokens[k].type = line[k].type
    \/ /\ k > 1 /\ line[k-1].type = "PIPE"
       /\ line[k].type \notin Redirection
       /\ tokens[k].type = "COMMANDE"

IsSequence(s) == s \in Seq({s[k] : k \in DOMAIN s})

IsCommand(cmd) ==
  /\ cmd = [args |-> cmd.args, redirections |-> cmd.redirections,
            pipe_next |-> cmd.pipe_next]
  /\ IsSequence(cmd.args) /\ IsSequence(cmd.redirections)
  /\ cmd.pipe_next \in BOOLEAN

IsCommandList(list) == IsSequence(list) /\ \A k \in 1..Len(list) : IsCommand(list[k])

\* A command that has something in it.
Filled(cmd) == cmd.args # <<>> \/ cmd.redirections # <<>>

Beginning == tokens = line /\ commands = <<>> /\ current = 0

\* validate_syntax(): nothing is counted at the start of a stage.
Validating ==
  /\ Beginning
  /\ Validated(line, at)
  /\ at = 1 \/ line[at-1].type = "PIPE" => command_count = 0 /\ redirection_count = 0

\* What holds once validate_syntax() has accepted the line.
Accepted ==
  /\ Validated(line, Len(line) + 1)
  /\ line[Len(line)].type # "PIPE"
  /\ Edited

\* The parsing loop: it never stands on an operand, and without an open command it
\* stands at the start of a stage.
Parsing ==
  /\ Accepted
  /\ at > 1 => line[at-1].type \notin Redirection
  /\ current = 0 => at = 1 \/ line[at-1].type = "PIPE"
  /\ failed \/ \A k \in 1..Len(commands) : Filled(commands[k])

Phases ==
  /\ pc = "start" => Beginning /\ at = 1 /\ command_count = 0 /\ redirection_count = 0
  /\ pc = "validate" => Validating
  /\ pc = "rejected" => Beginning
  /\ pc = "parse" => Parsing
  /\ pc = "done" => Parsing /\ at = Len(line) + 1
  /\ pc = "aborted" => tokens[at].type = "HEREDOC" /\ Operand = "HEREDOC"

IInv == TypeOK /\ IsCommandList(commands) /\ PipesLinked /\ Phases

-----------------------------------------------------------------------------
(* Sequences and commands.                                                  *)

LEMMA SequenceElements ==
  ASSUME NEW s, IsSequence(s)
  PROVE  /\ Len(s) \in Nat /\ DOMAIN s = 1..Len(s)
         /\ s = <<>> <=> Len(s) = 0
  BY LenProperties, EmptySeq DEF IsSequence

LEMMA SequenceIntroduction ==
  ASSUME NEW S, NEW s \in Seq(S)
  PROVE  IsSequence(s)
  <1>1. Len(s) \in Nat /\ DOMAIN s = 1..Len(s) /\ s \in [1..Len(s) -> S]
    BY LenProperties
  <1>2. s \in [1..Len(s) -> {s[k] : k \in DOMAIN s}]
    BY <1>1
  <1>3. QED
    BY <1>1, <1>2, SeqDef DEF IsSequence

LEMMA AppendSequence ==
  ASSUME NEW s, NEW e, IsSequence(s)
  PROVE  /\ IsSequence(Append(s, e)) /\ Append(s, e) # <<>>
         /\ Len(Append(s, e)) = Len(s) + 1
         /\ \A k \in 1..Len(s) : Append(s, e)[k] = s[k]
         /\ Append(s, e)[Len(s) + 1] = e
  <1> DEFINE S == {s[k] : k \in DOMAIN s} \cup {e}
  <1>1. s \in Seq(S)
    BY SeqMonotonic DEF IsSequence
  <1>2. e \in S
    OBVIOUS
  <1> HIDE DEF S
  <1>3. /\ Append(s, e) \in Seq(S) /\ Append(s, e) # <<>>
        /\ Len(Append(s, e)) = Len(s) + 1
        /\ \A k \in 1..Len(s) : Append(s, e)[k] = s[k]
        /\ Append(s, e)[Len(s) + 1] = e
    BY <1>1, <1>2, AppendProperties
  <1>4. IsSequence(Append(s, e))
    BY <1>3, SequenceIntroduction
  <1>5. QED
    BY <1>3, <1>4

LEMMA PrependSequence ==
  ASSUME NEW s, NEW e, IsSequence(s)
  PROVE  IsSequence(<<e>> \o s) /\ <<e>> \o s # <<>>
  <1> DEFINE S == {s[k] : k \in DOMAIN s} \cup {e}
  <1>1. s \in Seq(S) /\ <<e>> \in Seq(S) /\ <<e>> # <<>>
    BY SeqMonotonic DEF IsSequence
  <1> HIDE DEF S
  <1>2. <<e>> \o s \in Seq(S)
    BY <1>1, ConcatProperties
  <1>3. <<e>> \o s # <<>>
    BY <1>1, ConcatEqualIffEmpty
  <1>4. QED
    BY <1>2, <1>3, SequenceIntroduction

\* Sequence t is s with e in place n.
Replaced(t, s, n, e) == t = [s EXCEPT ![n] = e]

LEMMA ReplacedSequence ==
  ASSUME NEW s, NEW n \in 1..Len(s), NEW e, NEW t, IsSequence(s), Replaced(t, s, n, e)
  PROVE  /\ IsSequence(t) /\ Len(t) = Len(s)
         /\ \A k \in 1..Len(s) : t[k] = IF k = n THEN e ELSE s[k]
  <1> DEFINE S == {s[k] : k \in DOMAIN s} \cup {e}
  <1>1. s \in Seq(S) /\ e \in S
    BY SeqMonotonic DEF IsSequence
  <1> HIDE DEF S
  <1>2. /\ t \in Seq(S) /\ Len(t) = Len(s)
        /\ \A k \in 1..Len(s) : t[k] = IF k = n THEN e ELSE s[k]
    BY <1>1, ExceptSeq DEF Replaced
  <1>3. QED
    BY <1>2, SequenceIntroduction

\* What add_argument() and add_redirection() leave is a command with something in it.
LEMMA CommandsAreFilled ==
  ASSUME NEW cmd, IsCommand(cmd), NEW arg, NEW type, NEW filename
  PROVE  /\ LET c == add_argument(cmd, arg)
            IN  IsCommand(c) /\ Filled(c) /\ c.pipe_next = cmd.pipe_next
         /\ LET c == add_redirection(cmd, type, filename)
            IN  IsCommand(c) /\ Filled(c) /\ c.pipe_next = cmd.pipe_next
  <1> DEFINE target == [type |-> type, filename |-> filename]
  <1>1. add_argument(cmd, arg)
          = [args |-> Append(cmd.args, ft_strtrim(arg)),
             redirections |-> cmd.redirections, pipe_next |-> cmd.pipe_next]
    BY DEF IsCommand, add_argument
  <1>2. add_redirection(cmd, type, filename)
          = [args |-> cmd.args,
             redirections |-> <<target>> \o cmd.redirections, pipe_next |-> cmd.pipe_next]
    BY DEF IsCommand, add_redirection
  <1>3. /\ IsSequence(Append(cmd.args, ft_strtrim(arg)))
        /\ Append(cmd.args, ft_strtrim(arg)) # <<>>
    BY AppendSequence DEF IsCommand
  <1> HIDE DEF target
  <1>4. /\ IsSequence(<<target>> \o cmd.redirections)
        /\ <<target>> \o cmd.redirections # <<>>
    BY PrependSequence DEF IsCommand
  <1>5. QED
    BY <1>1, <1>2, <1>3, <1>4 DEF IsCommand, Filled

\* The command list with an open command: it is the last one, and not linked yet.
LEMMA OpenedCommands ==
  ASSUME IsCommandList(commands), PipesLinked, current \in {0, Len(commands)}
  PROVE  /\ IsCommandList(Opened) /\ Open = Len(Opened) /\ Open \in Nat \ {0}
         /\ Opened[Open].pipe_next = FALSE
         /\ \A k \in 1..Open-1 : /\ Opened[k].pipe_next = TRUE
                                 /\ k \in 1..Len(commands) /\ Opened[k] = commands[k]
  <1>0. Len(commands) \in Nat
    BY SequenceElements DEF IsCommandList
  <1>1. DOMAIN commands = 1..Len(commands)
    BY SequenceElements DEF IsCommandList
  <1>2. \A k \in 1..Len(commands) :
           IsCommand(commands[k]) /\ commands[k].pipe_next \in BOOLEAN
    BY DEF IsCommandList, IsCommand
  <1>3. \A k \in 1..Len(commands) :
           commands[k].pipe_next = (k < Len(commands) \/ current = 0)
    BY <1>1, <1>2 DEF PipesLinked
  <1>4. CASE current = 0
    <2>1. Opened = Append(commands, new_command)
      BY <1>4 DEF Opened
    <2>2. /\ IsSequence(Opened) /\ Len(Opened) = Len(commands) + 1
          /\ \A k \in 1..Len(commands) : Opened[k] = commands[k]
          /\ Opened[Len(commands) + 1] = new_command
      BY <2>1, AppendSequence DEF IsCommandList
    <2>3. IsSequence(<<>>)
      BY DEF IsSequence
    <2>4. IsCommand(new_command) /\ new_command.pipe_next = FALSE
      BY <2>3 DEF new_command, IsCommand
    <2>5. Open = Len(commands) + 1
      BY <2>2 DEF Open
    <2> HIDE DEF Open
    <2>6. \A k \in 1..Len(Opened) : k \in 1..Len(commands) \/ k = Len(commands) + 1
      <3> HIDE DEF Opened
      <3>1. Len(Opened) = Len(commands) + 1
        BY <2>2
      <3>2. QED
        BY <1>0, <3>1
    <2>7. IsCommandList(Opened)
      BY <1>2, <2>2, <2>4, <2>6 DEF IsCommandList
    <2>8. Open \in Nat \ {0} /\ \A k \in 1..Open-1 : k \in 1..Len(commands)
      BY <1>0, <2>5
    <2>9. \A k \in 1..Len(commands) : commands[k].pipe_next = TRUE
      BY <1>3, <1>4
    <2>10. QED
      BY <2>2, <2>4, <2>5, <2>7, <2>8, <2>9
  <1>5. CASE current # 0
    <2>1. Opened = commands /\ Open = Len(commands) /\ Len(commands) # 0
      BY <1>5 DEF Opened, Open
    <2>2. Len(commands) \in 1..Len(commands) /\ ~(Len(commands) < Len(commands))
      BY <1>0, <2>1
    <2>3. \A k \in 1..Len(commands)-1 : k \in 1..Len(commands) /\ k < Len(commands)
      BY <1>0
    <2>4. commands[Len(commands)].pipe_next = FALSE
      BY <1>3, <1>5, <2>2
    <2>5. \A k \in 1..Len(commands)-1 : commands[k].pipe_next = TRUE
      BY <1>3, <2>3
    <2>6. QED
      BY <1>0, <2>1, <2>3, <2>4, <2>5
  <1>6. QED
    BY <1>4, <1>5

\* Adding something to the open command keeps the list's shape and links.
LEMMA OpenCommandUpdated ==
  ASSUME IsCommandList(commands), PipesLinked, current \in {0, Len(commands)},
         NEW c, IsCommand(c), c.pipe_next = Opened[Open].pipe_next,
         commands' = [Opened EXCEPT ![Open] = c], current' = Open
  PROVE  /\ IsCommandList(commands') /\ PipesLinked'
         /\ current' = Len(commands') /\ current' # 0
         /\ Filled(c) /\ (\A k \in 1..Len(commands) : Filled(commands[k]))
              => \A k \in 1..Len(commands') : Filled(commands'[k])
  <1>1. /\ IsCommandList(Opened) /\ Open = Len(Opened) /\ Open \in Nat \ {0}
        /\ Opened[Open].pipe_next = FALSE
        /\ \A k \in 1..Open-1 : /\ Opened[k].pipe_next = TRUE
                                /\ k \in 1..Len(commands) /\ Opened[k] = commands[k]
    BY OpenedCommands
  <1> HIDE DEF Open, Opened
  <1>2. Open \in 1..Len(Opened)
    BY <1>1
  <1>3. /\ IsSequence(commands') /\ Len(commands') = Open
        /\ \A k \in 1..Open : commands'[k] = IF k = Open THEN c ELSE Opened[k]
    <2>1. IsSequence(Opened)
      BY <1>1 DEF IsCommandList
    <2>2. Replaced(commands', Opened, Open, c)
      BY DEF Replaced
    <2> HIDE DEF Replaced
    <2>3. QED
      BY <1>1, <1>2, <2>1, <2>2, ReplacedSequence
  <1>4. \A k \in 1..Open : k = Open \/ k \in 1..Open-1
    BY <1>1
  <1>5. \A k \in 1..Open : IsCommand(Opened[k])
    BY <1>1 DEF IsCommandList
  <1>6. IsCommandList(commands')
    BY <1>3, <1>5 DEF IsCommandList
  <1>7. Filled(c) /\ (\A k \in 1..Len(commands) : Filled(commands[k]))
          => \A k \in 1..Open : Filled(commands'[k])
    BY <1>1, <1>3, <1>4
  <1>8. PipesLinked'
    <2>1. DOMAIN commands' = 1..Open
      BY <1>3, SequenceElements
    <2>2. ASSUME NEW k \in 1..Open
          PROVE  commands'[k].pipe_next <=> k < Open
      <3>1. CASE k = Open
        BY <1>1, <1>3, <3>1
      <3>2. CASE k \in 1..Open-1
        <4>1. k < Open /\ k # Open
          BY <1>1, <3>2
        <4>2. QED
          BY <1>1, <1>3, <3>2, <4>1
      <3>3. QED
        BY <1>4, <3>1, <3>2
    <2>3. current' # 0
      BY <1>1
    <2>4. QED
      BY <1>3, <2>1, <2>2, <2>3 DEF PipesLinked
  <1>9. QED
    BY <1>1, <1>3, <1>6, <1>7, <1>8

-----------------------------------------------------------------------------
(* Steps of validate_syntax().                                              *)

\* What every step may use of the two lists and of the position.
LEMMA OnTheList ==
  ASSUME TypeOK
  PROVE  /\ WellFormed(line) /\ Len(line) \in Nat \ {0}
         /\ DOMAIN line = 1..Len(line)
         /\ DOMAIN tokens = 1..Len(line) /\ Len(tokens) = Len(line)
         /\ at \in 1..Len(line)+1
         /\ \A k \in 1..Len(line) : tokens[k].type \in TokenType
  <1>1. WellFormed(line)
    BY DEF TypeOK
  <1>2. IsTokenList(line) /\ line # <<>>
    BY <1>1 DEF WellFormed
  <1>3. Len(line) \in Nat /\ DOMAIN line = 1..Len(line)
    BY <1>2, TokenListElements
  <1>4. Len(line) # 0
    BY <1>2, EmptySeq DEF IsTokenList
  <1>5. /\ DOMAIN tokens = 1..Len(tokens) /\ Len(tokens) = Len(line)
        /\ \A k \in 1..Len(tokens) : tokens[k].type \in TokenType
    BY TokenListElements DEF TypeOK
  <1>6. QED
    BY <1>1, <1>3, <1>4, <1>5 DEF TypeOK

\* The next position of an accepted prefix is one more, or two more past an operand.
LEMMA ValidatedExtended ==
  ASSUME NEW list, NEW n \in Nat, Validated(list, n),
         list[n].type \in FileRedirection => n < Len(list) /\ list[n+1].type = "FILENAME",
         list[n].type = "HEREDOC" => n < Len(list) \/ (n > 1 /\ list[n-1].type = "HEREDOC"),
         list[n].type = "PIPE" => n > 1 /\ list[n-1].type # "PIPE"
  PROVE  Validated(list, n + 1)
  <1>1. \A k \in 1..(n+1)-1 : k = n \/ k \in 1..n-1
    OBVIOUS
  <1>2. QED
    BY <1>1 DEF Validated

\* The parsing loop has nothing yet, and a step of validate_syntax() leaves it so.
LEMMA ValidateKeepsBeginning ==
  ASSUME IInv, Beginning, UNCHANGED <<line, status, tokens, result>>,
         at' \in 1..Len(tokens)+1, command_count' \in Nat, redirection_count' \in Nat,
         pc' \in {"start", "validate", "parse", "done", "rejected", "aborted"}
  PROVE  TypeOK' /\ IsCommandList(commands') /\ PipesLinked' /\ Beginning'
  <1>1. UNCHANGED <<line, status, tokens, commands, current, files, failed>>
    BY DEF result
  <1>2. TypeOK'
    BY <1>1 DEF IInv, TypeOK
  <1>3. IsCommandList(commands') /\ PipesLinked' /\ Beginning'
    BY <1>1 DEF IInv, PipesLinked, Beginning
  <1>4. QED
    BY <1>2, <1>3

LEMMA BeginPreserves ==
  ASSUME IInv, begin
  PROVE  IInv'
  <1>1. /\ Beginning /\ at = 1 /\ at' = at /\ UNCHANGED counts /\ line' = line
        /\ command_count = 0 /\ redirection_count = 0
    BY DEF IInv, Phases, begin
  <1>2. pc' \in {"rejected", "validate"}
    BY DEF begin
  <1>3. TypeOK' /\ IsCommandList(commands') /\ PipesLinked' /\ Beginning'
    BY <1>1, <1>2, ValidateKeepsBeginning DEF IInv, TypeOK, begin, counts
  <1>4. Validated(line', at')
    BY <1>1 DEF Validated
  <1>5. QED
    BY <1>1, <1>2, <1>3, <1>4 DEF IInv, Phases, Validating, counts

\* The step leaves the list, and the walk goes on behind an accepted token that is
\* not a pipe, or behind a pipe with nothing counted.
LEMMA ValidatingPreserved ==
  ASSUME IInv, Beginning, UNCHANGED <<line, pc, status, tokens, result>>,
         pc = "validate", at' \in 1..Len(tokens)+1, Validated(line, at'),
         at' # 1, line[at'-1].type = "PIPE" => command_count' = 0 /\ redirection_count' = 0,
         command_count' \in Nat, redirection_count' \in Nat
  PROVE  IInv'
  <1>1. TypeOK' /\ IsCommandList(commands') /\ PipesLinked' /\ Beginning'
    BY ValidateKeepsBeginning DEF result
  <1>2. Validating'
    BY <1>1 DEF Validating
  <1>3. QED
    BY <1>1, <1>2 DEF IInv, Phases

\* The step refuses the line.
LEMMA RejectionPreserves ==
  ASSUME IInv, Beginning, UNCHANGED <<line, status, tokens, at, counts, result>>,
         pc' = "rejected"
  PROVE  IInv'
  <1>1. TypeOK' /\ IsCommandList(commands') /\ PipesLinked' /\ Beginning'
    BY ValidateKeepsBeginning DEF result, counts, IInv, TypeOK
  <1>2. QED
    BY <1>1 DEF IInv, Phases

LEMMA ValidateWordPreserves ==
  ASSUME IInv, validate_word
  PROVE  IInv'
  <1>1. /\ Validating /\ pc = "validate" /\ at \in 1..Len(line) /\ line[at].type \in Word
        /\ at' = at + 1
        /\ UNCHANGED <<line, pc, status, tokens, result>>
        /\ command_count' = command_count + 1 /\ redirection_count' = 0
    BY OnTheList DEF IInv, Phases, validate_word, At, Validating, Beginning
  <1>2. at' \in 1..Len(tokens)+1 /\ at' # 1 /\ at'-1 = at /\ at \in Nat
    BY <1>1, OnTheList DEF IInv
  <1>3. Validated(line, at + 1)
    BY <1>1, <1>2, ValidatedExtended DEF Validating, Word, FileRedirection
  <1>4. QED
    BY <1>1, <1>2, <1>3, ValidatingPreserved DEF IInv, TypeOK, Validating, Word

LEMMA ValidateOtherPreserves ==
  ASSUME IInv, validate_other
  PROVE  IInv'
  <1>1. /\ Validating /\ pc = "validate" /\ at \in 1..Len(line)
        /\ line[at].type \in {"EXIT_STATUS", "FILENAME", "DELIMITER"}
        /\ at' = at + 1
        /\ UNCHANGED <<line, pc, status, tokens, counts, result>>
    BY OnTheList DEF IInv, Phases, validate_other, At, Validating, Beginning
  <1>2. at' \in 1..Len(tokens)+1 /\ at' # 1 /\ at'-1 = at /\ at \in Nat
    BY <1>1, OnTheList DEF IInv
  <1>3. Validated(line, at + 1)
    BY <1>1, <1>2, ValidatedExtended DEF Validating, FileRedirection
  <1>4. QED
    BY <1>1, <1>2, <1>3, ValidatingPreserved DEF IInv, TypeOK, Validating, counts

LEMMA ValidatePipePreserves ==
  ASSUME IInv, validate_pipe
  PROVE  IInv'
  <1>1. /\ Validating /\ pc = "validate" /\ at \in 1..Len(line) /\ line[at].type = "PIPE"
    BY OnTheList DEF IInv, Phases, validate_pipe, At, Validating, Beginning
  <1>2. CASE command_count = 0 /\ redirection_count = 0
    BY <1>1, <1>2, RejectionPreserves DEF validate_pipe, Validating
  <1>3. CASE ~(command_count = 0 /\ redirection_count = 0)
    <2>1. /\ at' = at + 1 /\ command_count' = 0 /\ redirection_count' = 0
          /\ UNCHANGED <<line, pc, status, tokens, result>>
      BY <1>3 DEF validate_pipe, CommandsAfterPipe
    <2>2. at' \in 1..Len(tokens)+1 /\ at' # 1 /\ at \in Nat
      BY <1>1, <2>1, OnTheList DEF IInv
    <2>3. at # 1 /\ line[at-1].type # "PIPE"
      BY <1>1, <1>3 DEF Validating
    <2>4. Validated(line, at + 1)
      <3>1. at > 1 /\ line[at].type # "HEREDOC" /\ line[at].type \notin FileRedirection
        BY <1>1, <2>2, <2>3 DEF FileRedirection
      <3>2. QED
        BY <1>1, <2>2, <2>3, <3>1, ValidatedExtended DEF Validating
    <2>5. QED
      BY <1>1, <2>1, <2>2, <2>4, ValidatingPreserved DEF Validating
  <1>4. QED
    BY <1>2, <1>3

LEMMA ValidateRedirectionPreserves ==
  ASSUME IInv, validate_redirection
  PROVE  IInv'
  <1>1. /\ Validating /\ pc = "validate" /\ at \in 1..Len(line)
        /\ line[at].type \in Redirection /\ tokens = line
    BY OnTheList DEF IInv, Phases, validate_redirection, At, Validating, Beginning
  <1>2. CASE OperandRefused
    BY <1>1, <1>2, RejectionPreserves DEF validate_redirection, Validating, counts
  <1>3. CASE ~OperandRefused
    <2>1. /\ at' = at + 2 /\ redirection_count' = redirection_count + 1
          /\ UNCHANGED <<line, pc, status, tokens, command_count, result>>
      BY <1>3 DEF validate_redirection
    <2>2. /\ Operand # "none"
          /\ line[at].type \in FileRedirection => Operand = "FILENAME"
      BY <1>1, <1>3 DEF OperandRefused, FileRedirection
    <2>3. at < Len(line) /\ Operand = line[at+1].type
      BY <1>1, <2>2 DEF Operand
    <2>4. at \in Nat /\ at + 1 \in Nat /\ at + 1 \in 1..Len(line) /\ at + 1 > 1
          /\ at' = (at + 1) + 1 /\ (at + 1) - 1 = at /\ at' - 1 = at + 1
          /\ at' \in 1..Len(tokens)+1 /\ at' # 1
      BY <1>1, <2>1, <2>3, OnTheList DEF IInv
    <2>5. /\ line[at].type \in FileRedirection => line[at+1].type = "FILENAME"
          /\ line[at].type = "HEREDOC" => line[at+1].type \in {"DELIMITER", "HEREDOC"}
      BY <1>1, <2>2, <2>3, OnTheList DEF IInv, WellFormed, DelimitersOwned
    <2>6. /\ line[at].type # "PIPE"
          /\ line[at+1].type \in {"FILENAME", "DELIMITER", "HEREDOC"}
          /\ line[at+1].type = "HEREDOC" => line[at].type = "HEREDOC"
      BY <1>1, <2>5 DEF Redirection, FileRedirection
    <2>7. Validated(line, at + 1)
      BY <1>1, <2>3, <2>4, <2>5, <2>6, ValidatedExtended DEF Validating
    <2>8. Validated(line, (at + 1) + 1)
      BY <2>4, <2>6, <2>7, ValidatedExtended DEF FileRedirection
    <2>9. command_count' \in Nat /\ redirection_count' \in Nat
      BY <2>1 DEF IInv, TypeOK
    <2>10. QED
      BY <1>1, <2>1, <2>4, <2>6, <2>8, <2>9, ValidatingPreserved DEF Validating, result
  <1>4. QED
    BY <1>2, <1>3

LEMMA ValidateEndPreserves ==
  ASSUME IInv, validate_end
  PROVE  IInv'
  <1>1. /\ Validating /\ pc = "validate" /\ at = Len(line) + 1 /\ tokens = line
        /\ Len(line) \in Nat \ {0}
    BY OnTheList DEF IInv, Phases, validate_end, Validating, Beginning
  <1>2. CASE NothingCounted
    BY <1>1, <1>2, RejectionPreserves DEF validate_end, Validating, counts
  <1>3. CASE ~NothingCounted
    <2>1. /\ pc' = "parse" /\ at' = 1
          /\ UNCHANGED <<line, status, tokens, counts, result>>
      BY <1>3 DEF validate_end
    <2>2. TypeOK' /\ IsCommandList(commands') /\ PipesLinked' /\ Beginning'
      BY <1>1, <2>1, ValidateKeepsBeginning DEF Validating, IInv, TypeOK, counts
    <2>3. line[Len(line)].type # "PIPE"
      <3>1. at # 1 /\ at - 1 = Len(line)
        BY <1>1
      <3>2. QED
        BY <1>1, <1>3, <3>1 DEF Validating, NothingCounted
    <2>4. Validated(line, Len(line) + 1)
      BY <1>1 DEF Validating
    <2>5. Edited
      BY <1>1 DEF Edited
    <2>6. Accepted'
      BY <2>1, <2>3, <2>4, <2>5 DEF Accepted, Edited
    <2>7. \A k \in 1..Len(commands') : Filled(commands'[k])
      BY <2>2 DEF Beginning
    <2>8. Parsing'
      BY <2>1, <2>6, <2>7 DEF Parsing
    <2>9. QED
      BY <2>1, <2>2, <2>8 DEF IInv, Phases
  <1>4. QED
    BY <1>2, <1>3

-----------------------------------------------------------------------------
(* Steps of the parsing loop.                                               *)

\* No operand is the current token.
LEMMA NoOperandHere ==
  ASSUME IInv, Parsing, at \in 1..Len(line)
  PROVE  line[at].type \notin {"FILENAME", "DELIMITER"}
  <1>1. at \in Nat
    BY OnTheList DEF IInv
  <1>2. ASSUME line[at].type = "DELIMITER"
        PROVE  FALSE
    <2>1. at > 1 /\ line[at-1].type = "HEREDOC"
      BY <1>1, <1>2, OnTheList DEF IInv, WellFormed, DelimitersOwned
    <2>2. QED
      BY <1>1, <2>1 DEF Parsing, Redirection
  <1>3. ASSUME line[at].type = "FILENAME"
        PROVE  FALSE
    <2>1. Pending(line, at-1)
      BY <1>1, <1>3, OnTheList DEF IInv, WellFormed, FilenamesOwned
    <2>2. PICK m \in 1..at-1 : /\ line[m].type \in FileRedirection
                               /\ \A n \in m..at-1 : line[n].type # "FILENAME"
      BY <2>1 DEF Pending
    <2>3. line[m+1].type = "FILENAME"
      <3>1. m \in 1..(Len(line)+1)-1
        BY <1>1, OnTheList DEF IInv
      <3>2. QED
        BY <1>1, <2>2, <3>1 DEF Parsing, Accepted, Validated
    <2>4. m + 1 \notin m..at-1
      BY <2>2, <2>3
    <2>5. m = at - 1 /\ at > 1
      BY <1>1, <2>4
    <2>6. QED
      BY <1>1, <2>2, <2>5 DEF Parsing, Redirection
  <1>4. QED
    BY <1>2, <1>3

\* Where the loop stands: a redirection or a pipe has the type it had in the line, and
\* no operand is the current token.
LEMMA InTheLoop ==
  ASSUME IInv, pc = "parse", at <= Len(tokens)
  PROVE  /\ Parsing /\ at \in 1..Len(line) /\ at \in Nat
         /\ at + 1 \in 2..Len(line)+1 /\ (at + 1) - 1 = at
         /\ at + 1 > 1 /\ at + 1 # 1
         /\ tokens[at].type \in Redirection \cup {"PIPE", "FILENAME", "DELIMITER"}
              => line[at].type = tokens[at].type
         /\ tokens[at].type \notin Redirection => line[at].type \notin Redirection
         /\ tokens[at].type \notin {"FILENAME", "DELIMITER"}
  <1>1. /\ Parsing /\ at \in 1..Len(line) /\ at \in Nat
        /\ at + 1 \in 2..Len(line)+1 /\ (at + 1) - 1 = at
        /\ at + 1 > 1 /\ at + 1 # 1
    BY OnTheList DEF IInv, Phases
  <1>2. /\ tokens[at].type \in Redirection \cup {"PIPE", "FILENAME", "DELIMITER"}
             => line[at].type = tokens[at].type
        /\ tokens[at].type \notin Redirection => line[at].type \notin Redirection
    BY <1>1 DEF Parsing, Accepted, Edited, Redirection, FileRedirection
  <1>3. tokens[at].type \notin {"FILENAME", "DELIMITER"}
    BY <1>1, <1>2, NoOperandHere
  <1>4. QED
    BY <1>1, <1>2, <1>3

\* Behind a redirection stands its operand, whose type the loop has not changed.
LEMMA OperandBehind ==
  ASSUME IInv, pc = "parse", at <= Len(tokens), tokens[at].type \in Redirection
  PROVE  /\ at + 2 \in 2..Len(line)+1 /\ (at + 2) - 1 = at + 1
         /\ Operand = line[at+1].type
         /\ tokens[at].type \in FileRedirection => Operand = "FILENAME"
         /\ tokens[at].type = "HEREDOC" => Operand \in {"DELIMITER", "HEREDOC"}
  <1>1. /\ Parsing /\ at \in 1..Len(line) /\ at \in Nat
        /\ line[at].type = tokens[at].type
    BY InTheLoop
  <1>2. at > 1 => line[at-1].type # "HEREDOC"
    BY <1>1 DEF Parsing, Redirection
  <1>3. /\ line[at].type \in FileRedirection
             => at < Len(line) /\ line[at+1].type = "FILENAME"
        /\ line[at].type = "HEREDOC" => at < Len(line)
    <2>1. at \in 1..(Len(line)+1)-1
      BY <1>1, OnTheList DEF IInv
    <2>2. QED
      BY <1>1, <1>2, <2>1 DEF Parsing, Accepted, Validated
  <1>4. at < Len(line)
    BY <1>1, <1>3 DEF Redirection
  <1>5. /\ at + 2 \in 2..Len(line)+1 /\ (at + 2) - 1 = at + 1 /\ at + 1 \in 1..Len(line)
        /\ (at + 1) - 1 = at
    BY <1>1, <1>4, OnTheList DEF IInv
  <1>6. line[at].type = "HEREDOC" => line[at+1].type \in {"DELIMITER", "HEREDOC"}
    BY <1>1, <1>4, OnTheList DEF IInv, WellFormed, DelimitersOwned
  <1>7. tokens[at+1].type = line[at+1].type
    BY <1>1, <1>5 DEF Parsing, Accepted, Edited, Redirection, FileRedirection
  <1>8. Operand = line[at+1].type
    BY <1>4, <1>7, OnTheList DEF Operand, IInv
  <1>9. QED
    BY <1>1, <1>3, <1>5, <1>6, <1>8

\* The loop adds something to the open command and stays on the list.
LEMMA AdditionPreserves ==
  ASSUME IInv, Parsing, UNCHANGED <<line, pc, status, tokens, counts>>, pc = "parse",
         NEW c, IsCommand(c), c.pipe_next = Opened[Open].pipe_next,
         failed' = TRUE \/ (failed' = failed /\ Filled(c)),
         commands' = [Opened EXCEPT ![Open] = c], current' = Open,
         at' \in 2..Len(line)+1, line[at'-1].type \notin Redirection,
         files' \subseteq TempName
  PROVE  IInv'
  <1>1. /\ IsCommandList(commands') /\ PipesLinked'
        /\ current' = Len(commands') /\ current' # 0
        /\ failed' \/ \A k \in 1..Len(commands') : Filled(commands'[k])
    BY OpenCommandUpdated DEF IInv, TypeOK, Parsing
  <1>2. Accepted'
    BY DEF Parsing, Accepted, Edited
  <1>3. at' \in 1..Len(tokens)+1
    BY OnTheList DEF IInv
  <1>4. TypeOK'
    BY <1>1, <1>3 DEF IInv, TypeOK, counts
  <1>5. Parsing'
    BY <1>1, <1>2 DEF Parsing
  <1>6. QED
    BY <1>1, <1>4, <1>5 DEF IInv, Phases

\* The command that is added to.
LEMMA OpenCommand ==
  ASSUME IInv
  PROVE  IsCommand(Opened[Open]) /\ Open \in 1..Len(Opened) /\ DOMAIN Opened = 1..Len(Opened)
  <1>1. IsCommandList(Opened) /\ Open = Len(Opened) /\ Open \in Nat \ {0}
    BY OpenedCommands DEF IInv, TypeOK
  <1> HIDE DEF Open, Opened
  <1>2. Open \in 1..Len(Opened)
    BY <1>1
  <1>3. QED
    BY <1>1, <1>2, SequenceElements DEF IsCommandList

\* An argument, or a redirection, is added.
LEMMA ArgumentAdded ==
  ASSUME IInv, NEW arg, commands' = [Opened EXCEPT ![Open] = add_argument(@, arg)]
  PROVE  \E c : /\ IsCommand(c) /\ Filled(c) /\ c.pipe_next = Opened[Open].pipe_next
                /\ commands' = [Opened EXCEPT ![Open] = c]
  <1>1. IsCommand(Opened[Open])
    BY OpenCommand
  <1> DEFINE c == add_argument(Opened[Open], arg)
  <1>2. IsCommand(c) /\ Filled(c) /\ c.pipe_next = Opened[Open].pipe_next
    BY <1>1, CommandsAreFilled
  <1>3. commands' = [Opened EXCEPT ![Open] = c]
    OBVIOUS
  <1> HIDE DEF c
  <1>4. QED
    BY <1>2, <1>3

LEMMA RedirectionAdded ==
  ASSUME IInv, NEW type, NEW filename,
         commands' = [Opened EXCEPT ![Open] = add_redirection(@, type, filename)]
  PROVE  \E c : /\ IsCommand(c) /\ Filled(c) /\ c.pipe_next = Opened[Open].pipe_next
                /\ commands' = [Opened EXCEPT ![Open] = c]
  <1>1. IsCommand(Opened[Open])
    BY OpenCommand
  <1> DEFINE c == add_redirection(Opened[Open], type, filename)
  <1>2. IsCommand(c) /\ Filled(c) /\ c.pipe_next = Opened[Open].pipe_next
    BY <1>1, CommandsAreFilled
  <1>3. commands' = [Opened EXCEPT ![Open] = c]
    OBVIOUS
  <1> HIDE DEF c
  <1>4. QED
    BY <1>2, <1>3

LEMMA ParseWordPreserves ==
  ASSUME IInv, parse_word
  PROVE  IInv'
  <1>1. pc = "parse" /\ at <= Len(tokens) /\ tokens[at].type \notin Redirection
    BY DEF parse_word, At, Word, Redirection, FileRedirection
  <1>2. /\ UNCHANGED <<line, pc, status, tokens, counts, files, failed>>
        /\ commands' = [Opened EXCEPT ![Open] = add_argument(@, tokens[at].value)]
        /\ current' = Open /\ at' = at + 1
    BY DEF parse_word
  <1>3. PICK c : /\ IsCommand(c) /\ Filled(c) /\ c.pipe_next = Opened[Open].pipe_next
                 /\ commands' = [Opened EXCEPT ![Open] = c]
    BY <1>2, ArgumentAdded
  <1>4. Parsing /\ at' \in 2..Len(line)+1 /\ line[at'-1].type \notin Redirection
    BY <1>1, <1>2, InTheLoop
  <1>5. files' \subseteq TempName
    BY <1>2 DEF IInv, TypeOK
  <1>6. QED
    BY <1>1, <1>2, <1>3, <1>4, <1>5, AdditionPreserves

LEMMA ParseRedirectionPreserves ==
  ASSUME IInv, parse_redirection
  PROVE  IInv'
  <1>1. /\ pc = "parse" /\ at <= Len(tokens)
        /\ tokens[at].type \in FileRedirection /\ tokens[at].type \in Redirection
    BY DEF parse_redirection, At, Redirection
  <1>2. Operand = "FILENAME"
    BY <1>1, OperandBehind
  <1>3. /\ UNCHANGED <<line, pc, status, tokens, counts, files, failed>>
        /\ commands' = [Opened EXCEPT ![Open] =
                          add_redirection(@, tokens[at].type, tokens[at+1].value)]
        /\ current' = Open /\ at' = at + 2
    BY <1>2 DEF parse_redirection
  <1>4. PICK c : /\ IsCommand(c) /\ Filled(c) /\ c.pipe_next = Opened[Open].pipe_next
                 /\ commands' = [Opened EXCEPT ![Open] = c]
    BY <1>3, RedirectionAdded
  <1>5. at' \in 2..Len(line)+1 /\ line[at'-1].type = "FILENAME"
    BY <1>1, <1>2, <1>3, OperandBehind
  <1>6. line[at'-1].type \notin Redirection
    BY <1>5 DEF Redirection, FileRedirection
  <1>7. Parsing
    BY <1>1, InTheLoop
  <1>8. files' \subseteq TempName
    BY <1>3 DEF IInv, TypeOK
  <1>9. QED
    BY <1>1, <1>3, <1>4, <1>5, <1>6, <1>7, <1>8, AdditionPreserves

LEMMA ParseHeredocPreserves ==
  ASSUME IInv, parse_heredoc
  PROVE  IInv'
  <1>1. /\ pc = "parse" /\ at <= Len(tokens)
        /\ tokens[at].type = "HEREDOC" /\ tokens[at].type \in Redirection
    BY DEF parse_heredoc, At, Redirection
  <1>2. Operand = line[at+1].type /\ Operand \in {"DELIMITER", "HEREDOC"}
    BY <1>1, OperandBehind
  <1>3. CASE Operand # "DELIMITER"
    <2>1. /\ pc' = "aborted" /\ commands' = Opened /\ current' = Open
          /\ UNCHANGED <<line, status, tokens, at, counts, files, failed>>
      BY <1>3 DEF parse_heredoc
    <2>2. /\ IsCommandList(Opened) /\ Open = Len(Opened) /\ Open \in Nat \ {0}
          /\ Opened[Open].pipe_next = FALSE
          /\ \A k \in 1..Open-1 : Opened[k].pipe_next = TRUE
      BY OpenedCommands DEF IInv, TypeOK
    <2>3. DOMAIN commands' = 1..Open
      BY <2>1, <2>2, SequenceElements DEF IsCommandList
    <2> HIDE DEF Open, Opened
    <2>4. \A k \in 1..Open : k = Open \/ (k \in 1..Open-1 /\ k < Open)
      BY <2>2
    <2>5. \A k \in 1..Open : Opened[k].pipe_next <=> k < Open
      BY <2>2, <2>4
    <2>6. PipesLinked'
      BY <2>1, <2>2, <2>3, <2>5 DEF PipesLinked
    <2>7. TypeOK'
      BY <2>1, <2>2 DEF IInv, TypeOK, counts
    <2>8. tokens'[at'].type = "HEREDOC" /\ Operand' = "HEREDOC"
      BY <1>1, <1>2, <1>3, <2>1 DEF Operand
    <2>9. QED
      BY <2>1, <2>2, <2>6, <2>7, <2>8 DEF IInv, Phases
  <1>4. CASE Operand = "DELIMITER"
    <2>1. PICK file \in TempName \ files :
            /\ files' = files \cup {file}
            /\ commands' = [Opened EXCEPT ![Open] = add_redirection(@, "HEREDOC", file)]
      BY <1>4 DEF parse_heredoc
    <2>2. /\ UNCHANGED <<line, pc, status, tokens, counts, failed>>
          /\ current' = Open /\ at' = at + 2
      BY <1>4 DEF parse_heredoc
    <2>3. PICK c : /\ IsCommand(c) /\ Filled(c) /\ c.pipe_next = Opened[Open].pipe_next
                   /\ commands' = [Opened EXCEPT ![Open] = c]
      BY <2>1, RedirectionAdded
    <2>4. at' \in 2..Len(line)+1 /\ line[at'-1].type = "DELIMITER"
      BY <1>1, <1>2, <1>4, <2>2, OperandBehind
    <2>5. line[at'-1].type \notin Redirection
      BY <2>4 DEF Redirection, FileRedirection
    <2>6. Parsing
      BY <1>1, InTheLoop
    <2>7. files' \subseteq TempName
      BY <2>1 DEF IInv, TypeOK
    <2>8. QED
      BY <1>1, <2>2, <2>3, <2>4, <2>5, <2>6, <2>7, AdditionPreserves
  <1>5. QED
    BY <1>3, <1>4

LEMMA ParseOtherPreserves ==
  ASSUME IInv, parse_other
  PROVE  IInv'
  <1>1. pc = "parse" /\ at <= Len(tokens)
        /\ tokens[at].type \in {"EXIT_STATUS", "FILENAME", "DELIMITER"}
    BY DEF parse_other, At
  <1>2. tokens[at].type = "EXIT_STATUS" /\ tokens[at].type \notin Redirection
    BY <1>1, InTheLoop DEF Redirection, FileRedirection
  <1>3. /\ UNCHANGED <<line, pc, status, tokens, counts, files, failed>>
        /\ commands' = [Opened EXCEPT ![Open] = add_argument(@, status)]
        /\ current' = Open /\ at' = at + 1
    BY <1>2 DEF parse_other
  <1>4. PICK c : /\ IsCommand(c) /\ Filled(c) /\ c.pipe_next = Opened[Open].pipe_next
                 /\ commands' = [Opened EXCEPT ![Open] = c]
    BY <1>3, ArgumentAdded
  <1>5. Parsing /\ at' \in 2..Len(line)+1 /\ line[at'-1].type \notin Redirection
    BY <1>1, <1>2, <1>3, InTheLoop
  <1>6. files' \subseteq TempName
    BY <1>3 DEF IInv, TypeOK
  <1>7. QED
    BY <1>1, <1>3, <1>4, <1>5, <1>6, AdditionPreserves

LEMMA ArgumentsExtended ==
  ASSUME NEW cmd, IsCommand(cmd), NEW left
  PROVE  [cmd EXCEPT !.args = @ \o left]
           = [args |-> cmd.args \o left, redirections |-> cmd.redirections,
              pipe_next |-> cmd.pipe_next]
  <1>1. \A a : [cmd EXCEPT !.args = a]
                 = [args |-> a, redirections |-> cmd.redirections,
                    pipe_next |-> cmd.pipe_next]
    BY DEF IsCommand
  <1>2. QED
    BY <1>1, Zenon

\* The command stays one when an argument is lost, or NULL takes its place.
LEMMA ArgumentLost ==
  ASSUME IInv, NEW left \in LostArgument,
         commands' = [Opened EXCEPT ![Open].args = @ \o left]
  PROVE  \E c : /\ IsCommand(c) /\ c.pipe_next = Opened[Open].pipe_next
                /\ commands' = [Opened EXCEPT ![Open] = c]
  <1>1. IsCommand(Opened[Open])
    BY OpenCommand
  <1> DEFINE cmd == Opened[Open]
             c   == [cmd EXCEPT !.args = @ \o left]
             S   == {cmd.args[k] : k \in DOMAIN cmd.args} \cup {NULL}
  <1>2. c = [args |-> cmd.args \o left, redirections |-> cmd.redirections,
             pipe_next |-> cmd.pipe_next]
    BY <1>1, ArgumentsExtended
  <1>3. cmd.args \in Seq(S) /\ left \in Seq(S)
    <2>1. cmd.args \in Seq(S)
      BY <1>1, SeqMonotonic DEF IsCommand, IsSequence
    <2>2. NULL \in S
      OBVIOUS
    <2> HIDE DEF S
    <2>3. <<>> \in Seq(S) /\ <<NULL>> \in Seq(S)
      BY <2>2, EmptySeq
    <2>4. QED
      BY <2>1, <2>3 DEF LostArgument
  <1>4. IsSequence(cmd.args \o left)
    <2> HIDE DEF S, cmd
    <2>1. cmd.args \o left \in Seq(S)
      BY <1>3, ConcatProperties
    <2>2. QED
      BY <2>1, SequenceIntroduction
  <1>5. IsCommand(c) /\ c.pipe_next = cmd.pipe_next
    BY <1>1, <1>2, <1>4 DEF IsCommand
  <1>6. commands' = [Opened EXCEPT ![Open] = c]
    OBVIOUS
  <1> HIDE DEF c
  <1>7. QED
    BY <1>5, <1>6

LEMMA ArgumentLostPreserves ==
  ASSUME IInv, argument_lost
  PROVE  IInv'
  <1>1. pc = "parse" /\ at <= Len(tokens) /\ tokens[at].type \notin Redirection
    BY DEF argument_lost, At, Word, Redirection, FileRedirection
  <1>2. /\ UNCHANGED <<line, pc, status, tokens, counts, files>> /\ failed' = TRUE
        /\ current' = Open /\ at' = at + 1
    BY DEF argument_lost
  <1>3. PICK left \in LostArgument : commands' = [Opened EXCEPT ![Open].args = @ \o left]
    BY DEF argument_lost
  <1>4. PICK c : /\ IsCommand(c) /\ c.pipe_next = Opened[Open].pipe_next
                 /\ commands' = [Opened EXCEPT ![Open] = c]
    BY <1>3, ArgumentLost
  <1>5. Parsing /\ at' \in 2..Len(line)+1 /\ line[at'-1].type \notin Redirection
    BY <1>1, <1>2, InTheLoop
  <1>6. files' \subseteq TempName
    BY <1>2 DEF IInv, TypeOK
  <1>7. QED
    BY <1>1, <1>2, <1>4, <1>5, <1>6, AdditionPreserves

LEMMA FilenameLostPreserves ==
  ASSUME IInv, filename_lost
  PROVE  IInv'
  <1>1. /\ pc = "parse" /\ at <= Len(tokens) /\ tokens[at].type \in Redirection
        /\ Operand \in {"DELIMITER", "FILENAME"}
    BY DEF filename_lost, At
  <1>2. /\ UNCHANGED <<line, pc, status, tokens, counts>> /\ failed' = TRUE
        /\ commands' = [Opened EXCEPT ![Open] = add_redirection(@, tokens[at].type, NULL)]
        /\ current' = Open /\ at' = at + 2
    BY DEF filename_lost
  <1>3. PICK c : /\ IsCommand(c) /\ Filled(c) /\ c.pipe_next = Opened[Open].pipe_next
                 /\ commands' = [Opened EXCEPT ![Open] = c]
    BY <1>2, RedirectionAdded
  <1>4. at' \in 2..Len(line)+1 /\ line[at'-1].type \in {"DELIMITER", "FILENAME"}
    BY <1>1, <1>2, OperandBehind
  <1>5. line[at'-1].type \notin Redirection
    BY <1>4 DEF Redirection, FileRedirection
  <1>6. Parsing
    BY <1>1, InTheLoop
  <1>7. files' \subseteq TempName
    BY DEF filename_lost, IInv, TypeOK
  <1>8. QED
    BY <1>1, <1>2, <1>3, <1>4, <1>5, <1>6, <1>7, AdditionPreserves

LEMMA ParseEndPreserves ==
  ASSUME IInv, parse_end
  PROVE  IInv'
  <1>1. /\ pc = "parse" /\ pc' = "done" /\ at = Len(line) + 1 /\ Parsing
        /\ UNCHANGED <<line, status, tokens, at, commands, current, files, failed,
                       command_count, redirection_count>>
    BY OnTheList DEF IInv, Phases, parse_end, counts, result
  <1>2. TypeOK' /\ IsCommandList(commands') /\ PipesLinked'
    BY <1>1 DEF IInv, TypeOK, PipesLinked
  <1>3. Parsing' /\ at' = Len(line') + 1
    BY <1>1 DEF Parsing, Accepted, Edited
  <1>4. QED
    BY <1>1, <1>2, <1>3 DEF IInv, Phases

Linked(cmd) == [cmd EXCEPT !.pipe_next = TRUE]

\* A command keeps its shape when it is linked to the next one.
LEMMA LinkedCommand ==
  ASSUME NEW cmd, IsCommand(cmd)
  PROVE  /\ IsCommand(Linked(cmd)) /\ Linked(cmd).pipe_next = TRUE
         /\ Filled(cmd) => Filled(Linked(cmd))
  <1>1. \A b : [cmd EXCEPT !.pipe_next = b]
                 = [args |-> cmd.args, redirections |-> cmd.redirections, pipe_next |-> b]
    BY DEF IsCommand
  <1>2. Linked(cmd)
          = [args |-> cmd.args, redirections |-> cmd.redirections, pipe_next |-> TRUE]
    BY <1>1, Zenon DEF Linked
  <1>3. QED
    BY <1>2 DEF IsCommand, Filled

\* The link to the next stage is set on the last command.
LEMMA LinkSet ==
  ASSUME IInv, failed \/ \A k \in 1..Len(commands) : Filled(commands[k]), current # 0,
         Replaced(commands', commands, current, Linked(commands[current])), current' = 0
  PROVE  /\ IsCommandList(commands') /\ PipesLinked'
         /\ failed \/ \A k \in 1..Len(commands') : Filled(commands'[k])
  <1>1. /\ IsSequence(commands) /\ DOMAIN commands = 1..Len(commands)
        /\ Len(commands) \in Nat /\ current = Len(commands)
        /\ \A k \in 1..Len(commands) : IsCommand(commands[k])
    BY SequenceElements DEF IInv, TypeOK, IsCommandList
  <1>2. current \in 1..Len(commands)
    BY <1>1
  <1> DEFINE c == Linked(commands[current])
  <1>3. IsCommand(commands[current]) /\ (failed \/ Filled(commands[current]))
    BY <1>1, <1>2
  <1>4. Replaced(commands', commands, current, c)
    OBVIOUS
  <1>5. IsCommand(c) /\ (failed \/ Filled(c)) /\ c.pipe_next = TRUE
    BY <1>3, LinkedCommand
  <1> HIDE DEF c
  <1>6. /\ IsSequence(commands') /\ Len(commands') = Len(commands)
        /\ \A k \in 1..Len(commands) : commands'[k] = IF k = current THEN c ELSE commands[k]
    <2>1. IsSequence(commands)
      BY <1>1
    <2>2. QED
      BY <1>2, <1>4, <2>1, ReplacedSequence
  <1>7. /\ IsCommandList(commands')
        /\ failed \/ \A k \in 1..Len(commands') : Filled(commands'[k])
    BY <1>1, <1>5, <1>6 DEF IsCommandList
  <1>8. \A k \in 1..Len(commands) : k # current => k < Len(commands)
    <2>1. Len(commands) \in Nat /\ current = Len(commands)
      BY <1>1
    <2>2. QED
      BY <2>1
  <1>9. \A k \in 1..Len(commands) : k # current => commands[k].pipe_next
    BY <1>1, <1>8 DEF IInv, PipesLinked
  <1>10. \A k \in 1..Len(commands) : commands'[k].pipe_next
    BY <1>5, <1>6, <1>9
  <1>11. DOMAIN commands' = 1..Len(commands)
    BY <1>6, SequenceElements
  <1>12. PipesLinked'
    BY <1>10, <1>11 DEF PipesLinked
  <1>13. QED
    BY <1>7, <1>12

\* Retyping a token behind a pipe keeps the list a token list.
LEMMA TokenRetyped ==
  ASSUME IInv, Edited, at + 1 \in 1..Len(line), line[(at+1)-1].type = "PIPE", at + 1 > 1,
         tokens[at+1].type \notin Redirection, line' = line,
         tokens' = [tokens EXCEPT ![at+1] = Retyped(@, "COMMANDE")]
  PROVE  IsTokenList(tokens') /\ Len(tokens') = Len(line) /\ Edited'
  <1>1. /\ IsTokenList(tokens) /\ Len(tokens) = Len(line) /\ Len(line) \in Nat
        /\ \A k \in 1..Len(line) : tokens[k].type \in TokenType /\ tokens[k].space \in BOOLEAN
    BY OnTheList, TokenListElements DEF IInv, TypeOK
  <1> DEFINE next == at + 1
             t    == Retyped(tokens[next], "COMMANDE")
  <1>2. Replaced(tokens', tokens, next, t)
    BY DEF Replaced
  <1>3. IsSequence(tokens)
    BY <1>1 DEF IsTokenList, IsSequence
  <1>4. t.type = "COMMANDE" /\ t.space = tokens[next].space
    BY DEF Retyped, SpacedToken, new_token
  <1>5. /\ next \in 1..Len(line) /\ line[next-1].type = "PIPE" /\ next > 1
        /\ tokens[next].type \notin Redirection
    OBVIOUS
  <1> HIDE DEF next, t, Replaced
  <1>6. /\ IsSequence(tokens') /\ Len(tokens') = Len(line)
        /\ \A k \in 1..Len(line) : tokens'[k] = IF k = next THEN t ELSE tokens[k]
    BY <1>1, <1>2, <1>3, <1>5, ReplacedSequence
  <1>7. \A k \in 1..Len(line) : tokens'[k].type \in TokenType /\ tokens'[k].space \in BOOLEAN
    BY <1>1, <1>4, <1>6 DEF TokenType
  <1>8. IsTokenList(tokens')
    BY <1>6, <1>7, TokenListIntroduction DEF IsSequence
  <1>9. line[next].type \notin Redirection
    BY <1>5 DEF Edited
  <1>10. Edited'
    BY <1>4, <1>5, <1>6, <1>9 DEF Edited
  <1>11. QED
    BY <1>6, <1>8, <1>10

LEMMA ParsePipePreserves ==
  ASSUME IInv, parse_pipe
  PROVE  IInv'
  <1>1. pc = "parse" /\ at <= Len(tokens) /\ tokens[at].type = "PIPE"
    BY DEF parse_pipe, At
  <1>2. /\ Parsing /\ at \in 1..Len(line) /\ at \in Nat /\ line[at].type = "PIPE"
        /\ at + 1 \in 2..Len(line)+1 /\ (at + 1) - 1 = at /\ at + 1 > 1
    BY <1>1, InTheLoop
  <1>3. at > 1 /\ line[at-1].type # "PIPE"
    <2>1. at \in 1..(Len(line)+1)-1
      BY <1>2, OnTheList DEF IInv
    <2>2. QED
      BY <1>2, <2>1 DEF Parsing, Accepted, Validated
  <1>4. current # 0
    BY <1>2, <1>3 DEF Parsing
  <1>5. /\ Replaced(commands', commands, current, Linked(commands[current]))
        /\ current' = 0
        /\ tokens' = IF Operand \in Redirection \cup {"none"} THEN tokens
                     ELSE [tokens EXCEPT ![at+1] = Retyped(@, "COMMANDE")]
        /\ at' = at + 1 /\ UNCHANGED <<line, pc, status, counts, files, failed>>
    BY <1>4 DEF parse_pipe, CurrentAfterPipe, Replaced, Linked
  <1>6. /\ IsCommandList(commands') /\ PipesLinked'
        /\ failed \/ \A k \in 1..Len(commands') : Filled(commands'[k])
    BY <1>2, <1>4, <1>5, LinkSet DEF Parsing
  <1>7. IsTokenList(tokens') /\ Len(tokens') = Len(line) /\ Edited'
    <2>1. CASE Operand \in Redirection \cup {"none"}
      BY <1>2, <1>5, <2>1, OnTheList DEF IInv, TypeOK, Parsing, Accepted, Edited
    <2>2. CASE Operand \notin Redirection \cup {"none"}
      <3>1. at < Len(tokens) /\ tokens[at+1].type = Operand
        BY <2>2 DEF Operand
      <3>2. at + 1 \in 1..Len(line)
        BY <1>2, <3>1, OnTheList DEF IInv
      <3>3. QED
        BY <1>2, <1>5, <2>2, <3>1, <3>2, TokenRetyped DEF Parsing, Accepted
    <2>3. QED
      BY <2>1, <2>2
  <1>8. TypeOK'
    BY <1>2, <1>5, <1>7 DEF IInv, TypeOK, counts
  <1>9. line[at].type \notin Redirection
    BY <1>2 DEF Redirection, FileRedirection
  <1>10. Parsing'
    BY <1>2, <1>5, <1>6, <1>7, <1>9 DEF Parsing, Accepted
  <1>11. QED
    BY <1>1, <1>5, <1>6, <1>8, <1>10 DEF IInv, Phases

-----------------------------------------------------------------------------
(* The invariant holds throughout, and what it says of the call.            *)

\* How a call starts, in a session where a copy may have failed before.
Begins ==
  /\ WellFormed(line) /\ tokens = line /\ at = 1
  /\ pc = "start" /\ status \in StatusText
  /\ command_count = 0 /\ redirection_count = 0
  /\ commands = <<>> /\ current = 0
  /\ files \subseteq TempName /\ failed \in BOOLEAN

LEMMA BeginsHolds ==
  ASSUME Begins
  PROVE  IInv
  <1>1. IsTokenList(line) /\ Len(line) \in Nat
    BY TokenListElements DEF Begins, WellFormed
  <1>2. commands = <<>> /\ Len(commands) = 0 /\ IsSequence(commands)
        /\ DOMAIN commands = {}
    BY DEF Begins, IsSequence
  <1>3. TypeOK
    <2>1. IsTokenList(tokens) /\ Len(tokens) = Len(line) /\ at \in 1..Len(tokens)+1
      BY <1>1 DEF Begins
    <2>2. QED
      BY <1>2, <2>1 DEF Begins, TypeOK
  <1>4. IsCommandList(commands) /\ PipesLinked
    BY <1>2 DEF IsCommandList, PipesLinked
  <1>5. Phases
    BY DEF Begins, Phases, Beginning
  <1>6. QED
    BY <1>3, <1>4, <1>5 DEF IInv

LEMMA Initialisation ==
  ASSUME Init
  PROVE  IInv
  <1>1. Begins
    BY ParserAssumption DEF Init, Begins
  <1>2. QED
    BY <1>1, BeginsHolds

LEMMA Preservation ==
  ASSUME IInv, [Next]_vars
  PROVE  IInv'
  <1>1. CASE UNCHANGED vars
    BY <1>1 DEF vars, counts, result, IInv, TypeOK, IsCommandList, PipesLinked, Phases,
                Beginning, Validating, Parsing, Accepted, Edited, Operand
  <1>2. CASE Validate
    BY <1>2, BeginPreserves, ValidateWordPreserves, ValidatePipePreserves,
       ValidateRedirectionPreserves, ValidateOtherPreserves, ValidateEndPreserves
       DEF Validate
  <1>3. CASE Parse
    BY <1>3, ParseWordPreserves, ParseRedirectionPreserves, ParseHeredocPreserves,
       ParsePipePreserves, ParseOtherPreserves, ParseEndPreserves,
       ArgumentLostPreserves, FilenameLostPreserves
       DEF Parse
  <1>4. QED
    BY <1>1, <1>2, <1>3 DEF Next

\* The steps of one call are about one line.
LEMMA CallKeeps ==
  ASSUME [Next]_vars
  PROVE  line' = line /\ (failed => failed')
  <1>1. CASE Validate
    BY <1>1 DEF Validate, begin, validate_word, validate_pipe, validate_redirection,
                validate_other, validate_end, result
  <1>2. CASE Parse
    BY <1>2 DEF Parse, parse_word, parse_redirection, parse_heredoc, parse_pipe, parse_other,
                parse_end, argument_lost, filename_lost, result
  <1>3. CASE UNCHANGED vars
    BY <1>3 DEF vars, result
  <1>4. QED
    BY <1>1, <1>2, <1>3 DEF Next

\* Memory that runs out elsewhere takes nothing away.
LEMMA FailsElsewhere ==
  ASSUME IInv, UNCHANGED <<line, pc, status, tokens, at, counts, commands, current, files>>,
         failed' \in BOOLEAN, failed => failed'
  PROVE  IInv'
  <1>1. TypeOK'
    BY DEF IInv, TypeOK, counts
  <1>2. IsCommandList(commands)' /\ PipesLinked'
    BY DEF IInv, IsCommandList, PipesLinked
  <1>3. Phases'
    BY DEF IInv, Phases, counts, Beginning, Validating, Parsing, Accepted, Edited, Operand
  <1>4. QED
    BY <1>1, <1>2, <1>3 DEF IInv

\* A list that is given up has the redirections it came with.
GivenUpEdited == pc = "aborted" => Edited

LEMMA GivenUpStep ==
  ASSUME IInv, GivenUpEdited, [Next]_vars
  PROVE  GivenUpEdited'
  <1> SUFFICES ASSUME pc' = "aborted" PROVE Edited'
    BY DEF GivenUpEdited
  <1>1. Edited
    <2>1. CASE pc = "aborted"
      BY <2>1 DEF GivenUpEdited
    <2>2. CASE pc = "parse"
      BY <2>2 DEF IInv, Phases, Parsing, Accepted
    <2>3. pc \in {"parse", "aborted"}
      <3>1. CASE Validate
        BY <3>1 DEF Validate, begin, validate_word, validate_pipe, validate_redirection,
                    validate_other, validate_end
      <3>2. CASE Parse
        BY <3>2 DEF Parse, parse_word, parse_redirection, parse_heredoc, parse_pipe,
                    parse_other, parse_end, argument_lost, filename_lost, At
      <3>3. CASE UNCHANGED vars
        BY <3>3 DEF vars
      <3>4. QED
        BY <3>1, <3>2, <3>3 DEF Next
    <2>4. QED
      BY <2>1, <2>2, <2>3
  <1>2. tokens' = tokens
    <2>1. CASE Validate
      BY <2>1 DEF Validate, begin, validate_word, validate_pipe, validate_redirection,
                  validate_other, validate_end
    <2>2. CASE Parse
      <3>1. CASE parse_pipe
        BY <3>1 DEF parse_pipe, At
      <3>2. CASE ~parse_pipe
        BY <2>2, <3>2 DEF Parse, parse_word, parse_redirection, parse_heredoc,
                          parse_other, parse_end, argument_lost, filename_lost
      <3>3. QED
        BY <3>1, <3>2
    <2>3. CASE UNCHANGED vars
      BY <2>3 DEF vars
    <2>4. QED
      BY <2>1, <2>2, <2>3 DEF Next
  <1>3. line' = line
    BY CallKeeps
  <1>4. QED
    BY <1>1, <1>2, <1>3 DEF Edited

\* The line of a list that is given up has two operators in a row.
LEMMA GivenUpDoubled ==
  ASSUME IInv, GivenUpEdited, pc = "aborted"
  PROVE  \E k \in 1..Len(line)-1 : line[k].type = "HEREDOC" /\ line[k+1].type = "HEREDOC"
  <1>1. tokens[at].type = "HEREDOC" /\ Operand = "HEREDOC" /\ Edited
    BY DEF IInv, Phases, GivenUpEdited
  <1>2. Len(line) \in Nat /\ Len(tokens) = Len(line) /\ at \in 1..Len(line)+1
    BY OnTheList DEF IInv
  <1>3. at < Len(tokens) /\ tokens[at+1].type = "HEREDOC"
    BY <1>1 DEF Operand
  <1>4. at \in 1..Len(line)-1 /\ at \in 1..Len(line) /\ at + 1 \in 1..Len(line)
    BY <1>2, <1>3
  <1>5. line[at].type = "HEREDOC" /\ line[at+1].type = "HEREDOC"
    BY <1>1, <1>3, <1>4 DEF Edited
  <1>6. QED
    BY <1>4, <1>5

LEMMA Invariance == Spec => []IInv
  <1>1. Init => IInv
    BY Initialisation
  <1>2. IInv /\ [Next]_vars => IInv'
    BY Preservation
  <1>3. QED
    BY <1>1, <1>2, PTL DEF Spec

\* The two loops stay on the list, or one past it, and the open command is the last
\* one of the list.
THEOREM TypeCorrect == Spec => []TypeOK
  <1>1. IInv => TypeOK
    BY DEF IInv
  <1>2. QED
    BY <1>1, Invariance, PTL

\* However many pipes the line has, the commands the parsing loop has built are linked
\* to one another, and the last one is linked exactly while no command is open.
THEOREM CommandsLinked == Spec => []PipesLinked
  <1>1. IInv => PipesLinked
    BY DEF IInv
  <1>2. QED
    BY <1>1, Invariance, PTL

\* A call that returns commands has read every token; since the line does not end in
\* a pipe, a command is open then, and it is the last one.
THEOREM NoPipelineDangles == Spec => []NoDanglingPipe
  <1>1. IInv => NoDanglingPipe
    <2>1. SUFFICES ASSUME IInv, pc = "done"
                   PROVE  /\ commands # <<>> /\ ~commands[Len(commands)].pipe_next
                          /\ failed \/ \A k \in DOMAIN commands : Filled(commands[k])
      BY DEF NoDanglingPipe, Filled
    <2>2. Parsing /\ at = Len(line) + 1 /\ Len(line) \in Nat \ {0}
      BY <2>1, OnTheList DEF IInv, Phases
    <2>3. at # 1 /\ at - 1 = Len(line)
      BY <2>2
    <2>4. current # 0
      BY <2>2, <2>3 DEF Parsing, Accepted
    <2>5. /\ current = Len(commands) /\ Len(commands) \in Nat
          /\ DOMAIN commands = 1..Len(commands) /\ IsSequence(commands)
      BY <2>1, <2>4, SequenceElements DEF IInv, TypeOK, IsCommandList
    <2>6. commands # <<>>
      BY <2>4, <2>5, SequenceElements
    <2>7. Len(commands) \in 1..Len(commands) /\ ~(Len(commands) < Len(commands))
      BY <2>4, <2>5
    <2>8. ~commands[Len(commands)].pipe_next
      BY <2>1, <2>4, <2>5, <2>7 DEF IInv, PipesLinked
    <2>9. QED
      BY <2>2, <2>5, <2>6, <2>8 DEF Parsing
  <1>2. QED
    BY <1>1, Invariance, PTL

\* validate_syntax() has seen to it that the parsing loop's own checks never fail, but
\* for a "<<" whose operand is another "<<".
THEOREM AbortsLocated == Spec => []AbortOnlyOnDoubledHeredoc
  <1>1. IInv => AbortOnlyOnDoubledHeredoc
    BY DEF IInv, Phases, AbortOnlyOnDoubledHeredoc
  <1>2. QED
    BY <1>1, Invariance, PTL

-----------------------------------------------------------------------------
(* The order of positions, and sequences that grow at one of their ends.    *)

\* A position behind all others comes last.
LEMMA OrderedGrows ==
  ASSUME NEW size \in Nat, NEW S, S \subseteq 1..size, NEW p \in 1..size, \A k \in S : k < p
  PROVE  /\ Cardinality(S) \in Nat /\ Cardinality(S \cup {p}) = Cardinality(S) + 1
         /\ \A m \in 1..Cardinality(S) : Ordered(S \cup {p})[m] = Ordered(S)[m]
         /\ Ordered(S \cup {p})[Cardinality(S) + 1] = p
  <1> DEFINE T == S \cup {p}
  <1>1. T \subseteq 1..size /\ S \subseteq Nat /\ p \in Nat
    OBVIOUS
  <1>2. IsFiniteSet(S) /\ IsFiniteSet(T)
    BY <1>1, RanksExist
  <1>3. /\ Cardinality(S) \in Nat /\ Cardinality(T) = Cardinality(S) + 1
        /\ \A k \in S : Rank(T, k) = Rank(S, k)
        /\ Rank(T, p) = Cardinality(S) + 1
    BY <1>1, <1>2, RanksGrow
  <1>4. \A n \in 1..Cardinality(S) : Ordered(S)[n] \in S /\ Rank(S, Ordered(S)[n]) = n
    BY OrderedElements
  <1>5. p \in T /\ S \subseteq T
    OBVIOUS
  <1> HIDE DEF T
  <1>6. \A n \in 1..Cardinality(T) : Ordered(T)[n] \in T /\ Rank(T, Ordered(T)[n]) = n
    BY <1>1, OrderedElements
  <1>7. \A j, k \in T : Rank(T, j) = Rank(T, k) => j = k
    <2>1. T \subseteq Nat
      BY <1>1
    <2>2. QED
      BY <1>2, <2>1, RanksDiffer
  <1>8. \A n \in 1..Cardinality(S) : Ordered(T)[n] = Ordered(S)[n]
    <2> SUFFICES ASSUME NEW n \in 1..Cardinality(S) PROVE Ordered(T)[n] = Ordered(S)[n]
      OBVIOUS
    <2>1. Ordered(S)[n] \in S /\ Rank(T, Ordered(S)[n]) = n
      BY <1>3, <1>4
    <2>2. n \in 1..Cardinality(T)
      BY <1>3
    <2>3. Ordered(T)[n] \in T /\ Rank(T, Ordered(T)[n]) = n
      BY <1>6, <2>2
    <2>4. QED
      BY <1>5, <1>7, <2>1, <2>3
  <1>9. Ordered(T)[Cardinality(S) + 1] = p
    <2>1. Cardinality(S) + 1 \in 1..Cardinality(T)
      BY <1>3
    <2>2. /\ Ordered(T)[Cardinality(S) + 1] \in T
          /\ Rank(T, Ordered(T)[Cardinality(S) + 1]) = Rank(T, p)
      BY <1>3, <1>6, <2>1
    <2>3. QED
      BY <1>5, <1>7, <2>2
  <1>10. QED
    BY <1>3, <1>8, <1>9 DEF T

\* f is a function on 1..n.
OnRange(f, n) == f = [m \in 1..n |-> f[m]]

\* A function on 1..n+1 is one on 1..n with an element added at one of its ends.
LEMMA AddedLast ==
  ASSUME NEW n \in Nat, NEW old, NEW new, NEW e,
         OnRange(old, n), OnRange(new, n + 1),
         \A m \in 1..n : new[m] = old[m], new[n + 1] = e
  PROVE  new = Append(old, e)
  <1> DEFINE all == {old[m] : m \in 1..n} \cup {e}
  <1>1. (\A m \in 1..n : old[m] \in all) /\ e \in all
    OBVIOUS
  <1> HIDE DEF all
  <1>2. old \in Seq(all) /\ Len(old) = n
    <2>1. old \in [1..n -> all]
      BY <1>1 DEF OnRange
    <2>2. old \in Seq(all)
      BY <2>1, SeqDef
    <2>3. QED
      BY <2>1, <2>2, LenProperties
  <1>3. /\ Append(old, e) \in Seq(all) /\ Len(Append(old, e)) = n + 1
        /\ \A m \in 1..n : Append(old, e)[m] = old[m]
        /\ Append(old, e)[n + 1] = e
    BY <1>1, <1>2, AppendProperties
  <1>4. \A m \in 1..n+1 : m \in 1..n \/ m = n + 1
    OBVIOUS
  <1>5. new \in Seq(all) /\ Len(new) = n + 1
    <2>1. new \in [1..n+1 -> all]
      BY <1>1, <1>4 DEF OnRange
    <2>2. new \in Seq(all)
      BY <2>1, SeqDef
    <2>3. QED
      BY <2>1, <2>2, LenProperties
  <1>6. \A m \in 1..n+1 : new[m] = Append(old, e)[m]
    BY <1>3, <1>4
  <1>7. QED
    BY <1>3, <1>5, <1>6, SeqEqual

\* ... in front.
LEMMA AddedFirst ==
  ASSUME NEW n \in Nat, NEW old, NEW new, NEW e,
         OnRange(old, n), OnRange(new, n + 1),
         \A m \in 2..n+1 : new[m] = old[m - 1], new[1] = e
  PROVE  new = <<e>> \o old
  <1> DEFINE all == {old[m] : m \in 1..n} \cup {e}
  <1>1. (\A m \in 1..n : old[m] \in all) /\ e \in all
    OBVIOUS
  <1> HIDE DEF all
  <1>2. old \in Seq(all) /\ Len(old) = n
    <2>1. old \in [1..n -> all]
      BY <1>1 DEF OnRange
    <2>2. old \in Seq(all)
      BY <2>1, SeqDef
    <2>3. QED
      BY <2>1, <2>2, LenProperties
  <1>3. /\ <<e>> \o old \in Seq(all) /\ Len(<<e>> \o old) = n + 1
        /\ (<<e>> \o old)[1] = e
        /\ \A m \in 2..n+1 : (<<e>> \o old)[m] = old[m - 1]
    <2>1. <<e>> \in Seq(all) /\ Len(<<e>>) = 1 /\ <<e>>[1] = e
      BY <1>1
    <2>2. /\ <<e>> \o old \in Seq(all) /\ Len(<<e>> \o old) = 1 + n
          /\ \A m \in 1..1+n : (<<e>> \o old)[m] = IF m <= 1 THEN <<e>>[m] ELSE old[m - 1]
      BY <1>2, <2>1, ConcatProperties
    <2>3. \A m \in 2..n+1 : m \in 1..1+n /\ ~(m <= 1)
      OBVIOUS
    <2>4. 1 \in 1..1+n /\ 1 <= 1 /\ 1 + n = n + 1
      OBVIOUS
    <2>5. QED
      BY <2>1, <2>2, <2>3, <2>4
  <1>4. \A m \in 1..n+1 : m = 1 \/ (m \in 2..n+1 /\ m - 1 \in 1..n)
    OBVIOUS
  <1>5. new \in Seq(all) /\ Len(new) = n + 1
    <2>1. new \in [1..n+1 -> all]
      BY <1>1, <1>4 DEF OnRange
    <2>2. new \in Seq(all)
      BY <2>1, SeqDef
    <2>3. QED
      BY <2>1, <2>2, LenProperties
  <1>6. \A m \in 1..n+1 : new[m] = (<<e>> \o old)[m]
    BY <1>3, <1>4
  <1>7. QED
    BY <1>3, <1>5, <1>6, SeqEqual

-----------------------------------------------------------------------------
(* The stages of a list of tokens.                                          *)

\* The pipes before position k, and the stage of the pipeline it stands in.
PipesBefore(list, k) == {p \in DOMAIN list : list[p].type = "PIPE" /\ p < k}

Stage(list, k) == 1 + Cardinality(PipesBefore(list, k))

\* The tokens of stage s before position n whose types are in Types.
StagePart(list, s, Types, n) ==
  {k \in DOMAIN list : k < n /\ Stage(list, k) = s /\ list[k].type \in Types}

\* A sequence, of whatever.
IsList(list) == Len(list) \in Nat /\ DOMAIN list = 1..Len(list)

\* There are finitely many pipes, so that stages are numbers.
LEMMA FinitePipes ==
  ASSUME NEW list, IsList(list), NEW k
  PROVE  /\ IsFiniteSet(PipesBefore(list, k)) /\ Stage(list, k) \in Nat \ {0}
         /\ PipesBefore(list, k) \subseteq 1..Len(list)
  <1>1. PipesBefore(list, k) \subseteq 1..Len(list)
    BY DEF PipesBefore, IsList
  <1>2. IsFiniteSet(PipesBefore(list, k))
    BY <1>1, RanksExist DEF IsList
  <1>3. Cardinality(PipesBefore(list, k)) \in Nat
    BY <1>2, FS_CardinalityType
  <1>4. QED
    BY <1>1, <1>2, <1>3 DEF Stage

\* A pipe starts the next stage.
LEMMA StageStep ==
  ASSUME NEW list, IsList(list), NEW k \in 1..Len(list)
  PROVE  Stage(list, k + 1) = Stage(list, k) + IF list[k].type = "PIPE" THEN 1 ELSE 0
  <1>1. IsFiniteSet(PipesBefore(list, k)) /\ Cardinality(PipesBefore(list, k)) \in Nat
    BY FinitePipes, FS_CardinalityType
  <1>2. \A p \in 1..Len(list) : p < k + 1 <=> p < k \/ p = k
    OBVIOUS
  <1>3. k \in DOMAIN list /\ ~(k < k) /\ DOMAIN list = 1..Len(list)
    BY DEF IsList
  <1>4. CASE list[k].type = "PIPE"
    <2>1. PipesBefore(list, k + 1) = PipesBefore(list, k) \cup {k}
      BY <1>2, <1>3, <1>4 DEF PipesBefore
    <2>2. k \notin PipesBefore(list, k)
      BY <1>3 DEF PipesBefore
    <2>3. Cardinality(PipesBefore(list, k) \cup {k}) = Cardinality(PipesBefore(list, k)) + 1
      BY <1>1, <2>2, FS_AddElement
    <2>4. Cardinality(PipesBefore(list, k + 1)) = Cardinality(PipesBefore(list, k)) + 1
      BY <2>1, <2>3
    <2>5. QED
      BY <1>1, <1>4, <2>4 DEF Stage
  <1>5. CASE list[k].type # "PIPE"
    <2>1. PipesBefore(list, k + 1) = PipesBefore(list, k)
      BY <1>2, <1>3, <1>5 DEF PipesBefore
    <2>2. QED
      BY <1>1, <1>5, <2>1 DEF Stage
  <1>6. QED
    BY <1>4, <1>5

\* Stages do not go back.
LEMMA StageMonotone ==
  ASSUME NEW list, IsList(list), NEW j \in Nat, NEW k \in Nat, j <= k
  PROVE  Stage(list, j) <= Stage(list, k)
  <1>1. \A p \in 1..Len(list) : p < j => p < k
    BY DEF IsList
  <1>2. PipesBefore(list, j) \in SUBSET PipesBefore(list, k)
    BY <1>1 DEF PipesBefore, IsList
  <1>3. /\ IsFiniteSet(PipesBefore(list, k)) /\ IsFiniteSet(PipesBefore(list, j))
        /\ Cardinality(PipesBefore(list, k)) \in Nat /\ Cardinality(PipesBefore(list, j)) \in Nat
    BY FinitePipes, FS_CardinalityType
  <1>4. Cardinality(PipesBefore(list, j)) <= Cardinality(PipesBefore(list, k))
    BY <1>2, <1>3, FS_Subset
  <1>5. QED
    BY <1>3, <1>4 DEF Stage

\* No pipe is before the first token.
LEMMA FirstStage ==
  ASSUME NEW list, IsList(list)
  PROVE  Stage(list, 1) = 1
  <1>1. \A p \in 1..Len(list) : ~(p < 1)
    BY DEF IsList
  <1>2. PipesBefore(list, 1) = {}
    BY <1>1 DEF PipesBefore, IsList
  <1>3. QED
    BY <1>2, FS_EmptySet DEF Stage

\* One token more is read.
LEMMA StagePartStep ==
  ASSUME NEW list, IsList(list), NEW n \in 1..Len(list), NEW s, NEW Types
  PROVE  /\ Stage(list, n) = s /\ list[n].type \in Types
              => StagePart(list, s, Types, n + 1) = StagePart(list, s, Types, n) \cup {n}
         /\ ~(Stage(list, n) = s /\ list[n].type \in Types)
              => StagePart(list, s, Types, n + 1) = StagePart(list, s, Types, n)
  <1>1. \A k \in 1..Len(list) : k < n + 1 <=> k < n \/ k = n
    OBVIOUS
  <1>2. n \in DOMAIN list /\ DOMAIN list = 1..Len(list)
    BY DEF IsList
  <1>3. QED
    BY <1>1, <1>2 DEF StagePart

\* What has been read is before the position.
LEMMA StagePartBound ==
  ASSUME NEW list, IsList(list), NEW n, NEW s, NEW Types
  PROVE  /\ StagePart(list, s, Types, n) \subseteq 1..Len(list)
         /\ \A k \in StagePart(list, s, Types, n) : k < n
  BY DEF StagePart, IsList

\* A stage is complete behind the pipe that ends it.
LEMMA StageComplete ==
  ASSUME NEW list, IsList(list), NEW n \in 1..Len(list)+1, NEW s, NEW Types,
         s < Stage(list, n), s \in Nat
  PROVE  StagePart(list, s, Types, n) = StagePart(list, s, Types, Len(list) + 1)
  <1>1. Len(list) \in Nat /\ n \in Nat /\ n <= Len(list) + 1 /\ DOMAIN list = 1..Len(list)
    BY DEF IsList
  <1>2. ASSUME NEW k \in 1..Len(list), Stage(list, k) = s
        PROVE  k < n /\ k < Len(list) + 1
    <2>1. k \in Nat /\ k < Len(list) + 1
      BY <1>1
    <2>2. n <= k => Stage(list, n) <= Stage(list, k)
      BY <1>1, <2>1, StageMonotone
    <2>3. Stage(list, n) \in Nat /\ Stage(list, k) \in Nat
      BY FinitePipes
    <2>4. QED
      BY <1>1, <1>2, <2>1, <2>2, <2>3
  <1>3. QED
    BY <1>1, <1>2 DEF StagePart

\* Nothing of a stage stands before its start.
LEMMA StageStarts ==
  ASSUME NEW list, IsList(list), NEW n \in 1..Len(list)+1, NEW Types,
         n = 1 \/ list[n-1].type = "PIPE"
  PROVE  StagePart(list, Stage(list, n), Types, n) = {}
  <1>1. Len(list) \in Nat /\ n \in Nat /\ DOMAIN list = 1..Len(list)
    BY DEF IsList
  <1>2. ASSUME NEW k \in 1..Len(list), k < n
        PROVE  Stage(list, k) # Stage(list, n)
    <2>1. n # 1 /\ n - 1 \in 1..Len(list) /\ k <= n - 1 /\ (n - 1) + 1 = n
          /\ k \in Nat /\ n - 1 \in Nat
      BY <1>1, <1>2
    <2>2. Stage(list, (n - 1) + 1) = Stage(list, n - 1) + 1
      <3>1. list[n-1].type = "PIPE"
        BY <2>1
      <3>2. QED
        BY <2>1, <3>1, StageStep
    <2>3. Stage(list, k) <= Stage(list, n - 1)
      BY <2>1, StageMonotone
    <2>4. Stage(list, n - 1) \in Nat /\ Stage(list, k) \in Nat /\ Stage(list, n) \in Nat
      BY FinitePipes
    <2>5. QED
      BY <2>1, <2>2, <2>3, <2>4
  <1>3. QED
    BY <1>1, <1>2 DEF StagePart

-----------------------------------------------------------------------------
(* What validate_syntax() has counted says whether a stage is empty.        *)

\* What validate_syntax() counts.
Countable == Word \cup Redirection

\* Every stage but the last one that position n has reached has something in it.
FilledBefore(list, n) ==
  \A s \in 1..Stage(list, n)-1 : StagePart(list, s, Countable, Len(list) + 1) # {}

\* validate_syntax() counts the words and redirections of the stage it is in.
Counting ==
  pc = "validate" =>
    /\ FilledBefore(line, at)
    /\ NothingCounted <=> StagePart(line, Stage(line, at), Countable, at) = {}

\* The line is a list.
LEMMA LineIsList ==
  ASSUME TypeOK
  PROVE  IsList(line)
  BY OnTheList DEF IsList

\* A token that ends no stage is counted where it is a word or a redirection.
LEMMA StageGoesOn ==
  ASSUME NEW list, IsList(list), NEW n \in 1..Len(list), list[n].type # "PIPE",
         FilledBefore(list, n)
  PROVE  /\ FilledBefore(list, n + 1)
         /\ Stage(list, n + 1) = Stage(list, n)
         /\ list[n].type \in Countable
              => StagePart(list, Stage(list, n + 1), Countable, n + 1)
                   = StagePart(list, Stage(list, n), Countable, n) \cup {n}
         /\ list[n].type \notin Countable
              => StagePart(list, Stage(list, n + 1), Countable, n + 1)
                   = StagePart(list, Stage(list, n), Countable, n)
  <1>1. Stage(list, n + 1) = Stage(list, n)
    BY StageStep, FinitePipes
  <1>2. /\ list[n].type \in Countable
             => StagePart(list, Stage(list, n), Countable, n + 1)
                  = StagePart(list, Stage(list, n), Countable, n) \cup {n}
        /\ list[n].type \notin Countable
             => StagePart(list, Stage(list, n), Countable, n + 1)
                  = StagePart(list, Stage(list, n), Countable, n)
    BY StagePartStep
  <1>3. FilledBefore(list, n + 1)
    BY <1>1 DEF FilledBefore
  <1>4. QED
    BY <1>1, <1>2, <1>3

\* A pipe ends the stage it stands in; the next one is empty yet.
LEMMA StageEnds ==
  ASSUME NEW list, IsList(list), NEW n \in 1..Len(list), list[n].type = "PIPE"
  PROVE  /\ StagePart(list, Stage(list, n), Countable, n)
              = StagePart(list, Stage(list, n), Countable, Len(list) + 1)
         /\ Stage(list, n + 1) = Stage(list, n) + 1
         /\ Stage(list, n + 1) <= Stage(list, Len(list) + 1)
         /\ StagePart(list, Stage(list, n + 1), Countable, n + 1) = {}
  <1>1. Stage(list, n + 1) = Stage(list, n) + 1 /\ Stage(list, n) \in Nat
    BY StageStep, FinitePipes
  <1>2. n + 1 \in 1..Len(list)+1 /\ (n + 1) - 1 = n /\ n + 1 \in Nat /\ Len(list) + 1 \in Nat
        /\ n + 1 <= Len(list) + 1
    BY DEF IsList
  <1>3. StagePart(list, Stage(list, n), Countable, n + 1)
          = StagePart(list, Stage(list, n), Countable, Len(list) + 1)
    BY <1>1, <1>2, StageComplete
  <1>4. list[n].type \notin Countable
    BY DEF Countable, Word, Redirection, FileRedirection
  <1>5. StagePart(list, Stage(list, n), Countable, n + 1)
          = StagePart(list, Stage(list, n), Countable, n)
    BY <1>4, StagePartStep
  <1>6. StagePart(list, Stage(list, n + 1), Countable, n + 1) = {}
    BY <1>2, StageStarts
  <1>7. Stage(list, n + 1) <= Stage(list, Len(list) + 1)
    BY <1>2, StageMonotone
  <1>8. QED
    BY <1>1, <1>3, <1>5, <1>6, <1>7

\* Before the first token nothing is counted.
LEMMA BeginCounts ==
  ASSUME IInv, begin
  PROVE  Counting'
  <1>1. IsList(line) /\ at' = 1 /\ line' = line /\ command_count' = 0 /\ redirection_count' = 0
    BY LineIsList DEF IInv, Phases, begin, counts
  <1>2. Stage(line, 1) = 1
    BY <1>1, FirstStage
  <1>3. StagePart(line, Stage(line, 1), Countable, 1) = {}
    <2>1. 1 \in 1..Len(line)+1
      BY <1>1 DEF IsList
    <2>2. QED
      BY <1>1, <2>1, StageStarts
  <1>4. FilledBefore(line, 1)
    BY <1>2 DEF FilledBefore
  <1>5. QED
    BY <1>1, <1>3, <1>4 DEF Counting, NothingCounted

\* A word is counted.
LEMMA WordCounts ==
  ASSUME IInv, Counting, validate_word
  PROVE  Counting'
  <1>1. /\ pc = "validate" /\ at \in 1..Len(line) /\ line[at].type \in Word
        /\ at' = at + 1 /\ line' = line /\ command_count' = command_count + 1
        /\ command_count \in Nat /\ IsList(line)
    BY OnTheList, LineIsList DEF IInv, TypeOK, Phases, validate_word, At, Validating, Beginning
  <1>2. line[at].type # "PIPE" /\ line[at].type \in Countable
    BY <1>1 DEF Word, Countable
  <1>3. FilledBefore(line, at)
    BY <1>1 DEF Counting
  <1>4. /\ FilledBefore(line, at + 1)
        /\ StagePart(line, Stage(line, at + 1), Countable, at + 1) # {}
    <2>1. FilledBefore(line, at + 1)
      BY <1>1, <1>2, <1>3, StageGoesOn
    <2>2. StagePart(line, Stage(line, at + 1), Countable, at + 1)
            = StagePart(line, Stage(line, at), Countable, at) \cup {at}
      BY <1>1, <1>2, <1>3, StageGoesOn
    <2>3. QED
      BY <2>1, <2>2
  <1>5. ~NothingCounted'
    BY <1>1 DEF NothingCounted
  <1>6. QED
    BY <1>1, <1>4, <1>5 DEF Counting

\* "$?" and an operand no operator took are not counted.
LEMMA OtherCounts ==
  ASSUME IInv, Counting, validate_other
  PROVE  Counting'
  <1>1. /\ pc = "validate" /\ at \in 1..Len(line)
        /\ line[at].type \in {"EXIT_STATUS", "FILENAME", "DELIMITER"}
        /\ at' = at + 1 /\ line' = line /\ UNCHANGED counts /\ IsList(line) /\ pc' = pc
    BY OnTheList, LineIsList DEF IInv, Phases, validate_other, At, Validating, Beginning
  <1>2. line[at].type # "PIPE" /\ line[at].type \notin Countable
    BY <1>1 DEF Word, Countable, Redirection, FileRedirection
  <1>3. FilledBefore(line, at)
    BY <1>1 DEF Counting
  <1>4. /\ FilledBefore(line, at + 1)
        /\ StagePart(line, Stage(line, at + 1), Countable, at + 1)
             = StagePart(line, Stage(line, at), Countable, at)
    BY <1>1, <1>2, <1>3, StageGoesOn
  <1>5. NothingCounted' <=> NothingCounted
    BY <1>1 DEF NothingCounted, counts
  <1>6. QED
    BY <1>1, <1>4, <1>5 DEF Counting

\* A stage in which nothing was counted is refused at its pipe; the counts start anew.
LEMMA PipeCounts ==
  ASSUME IInv, Counting, validate_pipe
  PROVE  Counting'
  <1>1. /\ pc = "validate" /\ at \in 1..Len(line) /\ line[at].type = "PIPE"
        /\ line' = line /\ IsList(line)
    BY OnTheList, LineIsList DEF IInv, Phases, validate_pipe, At, Validating, Beginning
  <1>2. CASE NothingCounted
    BY <1>2 DEF validate_pipe, NothingCounted, Counting
  <1>3. CASE ~NothingCounted
    <2>1. at' = at + 1 /\ command_count' = 0 /\ redirection_count' = 0
      BY <1>3 DEF validate_pipe, NothingCounted, CommandsAfterPipe
    <2>2. /\ FilledBefore(line, at)
          /\ StagePart(line, Stage(line, at), Countable, at) # {}
      BY <1>1, <1>3 DEF Counting
    <2>3. /\ StagePart(line, Stage(line, at), Countable, Len(line) + 1) # {}
          /\ Stage(line, at + 1) = Stage(line, at) + 1
          /\ StagePart(line, Stage(line, at + 1), Countable, at + 1) = {}
      BY <1>1, <2>2, StageEnds
    <2>4. \A s \in 1..Stage(line, at + 1)-1 : s \in 1..Stage(line, at)-1 \/ s = Stage(line, at)
      <3>1. Stage(line, at) \in Nat
        BY <1>1, FinitePipes
      <3>2. QED
        BY <2>3, <3>1
    <2>5. FilledBefore(line, at + 1)
      BY <2>2, <2>3, <2>4 DEF FilledBefore
    <2>6. QED
      BY <1>1, <2>1, <2>3, <2>5 DEF Counting, NothingCounted
  <1>4. QED
    BY <1>2, <1>3

\* The token behind an operator that has its operand is no pipe.
LEMMA OperandIsNoPipe ==
  ASSUME IInv, pc = "validate", at \in 1..Len(line), line[at].type \in Redirection,
         ~OperandRefused
  PROVE  /\ at + 1 \in 1..Len(line) /\ line[at+1].type # "PIPE"
         /\ line[at].type \in FileRedirection => line[at+1].type = "FILENAME"
  <1>1. tokens = line /\ Len(line) \in Nat /\ DOMAIN line = 1..Len(line) /\ WellFormed(line)
    BY OnTheList DEF IInv, Phases, Validating, Beginning
  <1>2. at < Len(line)
    BY <1>1 DEF OperandRefused, Operand
  <1>3. Operand = line[at+1].type
    BY <1>1, <1>2 DEF Operand
  <1>4. at + 1 \in 1..Len(line)
    BY <1>1, <1>2
  <1>5. line[at].type # "HEREDOC" => line[at+1].type = "FILENAME"
    BY <1>1, <1>3 DEF OperandRefused
  <1>6. line[at].type = "HEREDOC" => line[at+1].type \in {"DELIMITER", "HEREDOC"}
    BY <1>1, <1>2 DEF WellFormed, DelimitersOwned
  <1>7. line[at].type \in FileRedirection => line[at].type # "HEREDOC"
    BY DEF FileRedirection
  <1>8. QED
    BY <1>4, <1>5, <1>6, <1>7

\* A redirection is counted, its operand is passed over.
LEMMA RedirectionCounts ==
  ASSUME IInv, Counting, validate_redirection
  PROVE  Counting'
  <1>1. /\ pc = "validate" /\ at \in 1..Len(line) /\ line[at].type \in Redirection
        /\ line' = line /\ IsList(line) /\ redirection_count \in Nat
    BY OnTheList, LineIsList
       DEF IInv, TypeOK, Phases, validate_redirection, At, Validating, Beginning
  <1>2. CASE OperandRefused
    BY <1>2 DEF validate_redirection, Counting
  <1>3. CASE ~OperandRefused
    <2>1. at' = at + 2 /\ redirection_count' = redirection_count + 1
      BY <1>3 DEF validate_redirection
    <2>2. at + 1 \in 1..Len(line) /\ line[at+1].type # "PIPE" /\ (at + 1) + 1 = at + 2
      BY <1>1, <1>3, OperandIsNoPipe
    <2>3. FilledBefore(line, at)
      BY <1>1 DEF Counting
    <2>4. line[at].type # "PIPE" /\ line[at].type \in Countable
      BY <1>1 DEF Countable, Redirection, FileRedirection
    <2>5. /\ FilledBefore(line, at + 1)
          /\ at \in StagePart(line, Stage(line, at + 1), Countable, at + 1)
      BY <1>1, <2>3, <2>4, StageGoesOn
    <2>6. /\ FilledBefore(line, (at + 1) + 1)
          /\ Stage(line, (at + 1) + 1) = Stage(line, at + 1)
          /\ at \in StagePart(line, Stage(line, (at + 1) + 1), Countable, (at + 1) + 1)
      <3> DEFINE n == at + 1
      <3>1. n \in 1..Len(line) /\ line[n].type # "PIPE" /\ FilledBefore(line, n)
            /\ at \in StagePart(line, Stage(line, n), Countable, n)
        BY <2>2, <2>5
      <3> HIDE DEF n
      <3>2. /\ FilledBefore(line, n + 1) /\ Stage(line, n + 1) = Stage(line, n)
            /\ at \in StagePart(line, Stage(line, n + 1), Countable, n + 1)
        BY <1>1, <3>1, StageGoesOn
      <3>3. QED
        BY <3>2 DEF n
    <2>7. ~NothingCounted'
      BY <1>1, <2>1 DEF NothingCounted
    <2>8. QED
      BY <1>1, <2>1, <2>2, <2>6, <2>7 DEF Counting
  <1>4. QED
    BY <1>2, <1>3

\* Every step keeps the counts true.
LEMMA NextCounts ==
  ASSUME IInv, Counting, [Next]_vars
  PROVE  Counting'
  <1>1. CASE UNCHANGED vars
    BY <1>1 DEF vars, counts, result, Counting, NothingCounted
  <1>2. CASE Validate
    <2>1. CASE validate_end
      BY <2>1 DEF validate_end, Counting
    <2>2. QED
      BY <1>2, <2>1, BeginCounts, WordCounts, PipeCounts, RedirectionCounts, OtherCounts
         DEF Validate
  <1>3. CASE Parse
    <2>1. pc # "validate" /\ pc' \in {pc, "aborted", "done"}
      BY <1>3 DEF Parse, parse_word, parse_redirection, parse_heredoc, parse_pipe, parse_other,
                  parse_end, argument_lost, filename_lost, At
    <2>2. QED
      BY <2>1 DEF Counting
  <1>4. QED
    BY <1>1, <1>2, <1>3 DEF Next

-----------------------------------------------------------------------------
(* What is refused is not acceptable.                                       *)

\* What the two loops refuse is not acceptable, and what they accept is.
AllFilled(list) ==
  \A s \in 1..Stage(list, Len(list) + 1) : StagePart(list, s, Countable, Len(list) + 1) # {}

\* Every redirection has its operand behind it.
OperandsIn(list) ==
  \A k \in DOMAIN list :
    /\ list[k].type \in FileRedirection => k < Len(list) /\ list[k+1].type = "FILENAME"
    /\ list[k].type = "HEREDOC" => k < Len(list) /\ list[k+1].type = "DELIMITER"

\* The whole line is before the position behind its end.
LEMMA WholeLine ==
  ASSUME IsList(line)
  PROVE  /\ \A k \in DOMAIN line : Abstract!StageOf(k) = Stage(line, k)
         /\ Abstract!Stages = Stage(line, Len(line) + 1)
         /\ \A s, Types : Abstract!InStage(s, Types) = StagePart(line, s, Types, Len(line) + 1)
  <1>0. \A S : Abstract!Cardinality(S) = Cardinality(S)
    BY DEF Abstract!Cardinality, Cardinality
  <1>1. \A k \in DOMAIN line : Abstract!StageOf(k) = Stage(line, k)
    <2> SUFFICES ASSUME NEW k \in DOMAIN line
                 PROVE  Abstract!StageOf(k) = Stage(line, k)
      OBVIOUS
    <2>1. {p \in Abstract!Pipes : p < k} = PipesBefore(line, k)
      BY DEF Abstract!Pipes, PipesBefore
    <2>2. QED
      BY <1>0, <2>1 DEF Abstract!StageOf, Stage
  <1>2. \A k \in DOMAIN line : k < Len(line) + 1
    BY DEF IsList
  <1>3. Abstract!Stages = Stage(line, Len(line) + 1)
    <2>1. Abstract!Pipes = PipesBefore(line, Len(line) + 1)
      BY <1>2 DEF Abstract!Pipes, PipesBefore
    <2>2. IsFiniteSet(PipesBefore(line, Len(line) + 1))
      BY FinitePipes
    <2>3. Cardinality(PipesBefore(line, Len(line) + 1)) \in Nat
      BY <2>2, FS_CardinalityType
    <2>4. QED
      BY <1>0, <2>1, <2>3 DEF Abstract!Stages, Stage
  <1>4. ASSUME NEW s, NEW Types
        PROVE  Abstract!InStage(s, Types) = StagePart(line, s, Types, Len(line) + 1)
    BY <1>1, <1>2 DEF Abstract!InStage, StagePart
  <1>5. QED
    BY <1>1, <1>3, <1>4

\* These two make a line acceptable.
LEMMA AcceptableIs ==
  ASSUME IsList(line)
  PROVE  Abstract!Acceptable <=> AllFilled(line) /\ OperandsIn(line)
  <1>1. /\ Abstract!Word \cup Abstract!Redirection = Countable
        /\ Abstract!FileRedirection = FileRedirection
    BY DEF Abstract!Word, Abstract!Redirection, Abstract!FileRedirection, Countable, Word,
           Redirection, FileRedirection
  <1>2. (\A s \in 1..Abstract!Stages :
           Abstract!InStage(s, Abstract!Word \cup Abstract!Redirection) # {}) <=> AllFilled(line)
    BY <1>1, WholeLine DEF AllFilled
  <1>3. QED
    BY <1>1, <1>2 DEF Abstract!Acceptable, Abstract!FollowedBy, OperandsIn

\* A pipe in front: the first stage is empty.
LEMMA BeginRefuses ==
  ASSUME IInv, begin, pc' = "rejected"
  PROVE  ~Abstract!Acceptable
  <1>1. IsList(line) /\ 1 \in 1..Len(line) /\ line[1].type = "PIPE"
    BY LineIsList, OnTheList DEF IInv, Phases, Beginning, begin
  <1>2. StagePart(line, Stage(line, 1), Countable, 1) = {} /\ Stage(line, 1) = 1
    <2>1. 1 \in 1..Len(line)+1
      BY <1>1 DEF IsList
    <2>2. QED
      BY <1>1, <2>1, StageStarts, FirstStage
  <1>3. /\ StagePart(line, Stage(line, 1), Countable, Len(line) + 1) = {}
        /\ Stage(line, 1 + 1) = Stage(line, 1) + 1
        /\ Stage(line, 1 + 1) <= Stage(line, Len(line) + 1)
    BY <1>1, <1>2, StageEnds
  <1>4. Stage(line, Len(line) + 1) \in Nat
    BY <1>1, FinitePipes
  <1>5. 1 \in 1..Stage(line, Len(line) + 1)
    BY <1>2, <1>3, <1>4
  <1>6. ~AllFilled(line)
    BY <1>2, <1>3, <1>5 DEF AllFilled
  <1>7. QED
    BY <1>1, <1>6, AcceptableIs

\* A pipe with nothing counted: its stage is empty.
LEMMA PipeRefuses ==
  ASSUME IInv, Counting, validate_pipe, pc' = "rejected"
  PROVE  ~Abstract!Acceptable
  <1>1. /\ pc = "validate" /\ at \in 1..Len(line) /\ line[at].type = "PIPE"
        /\ IsList(line) /\ NothingCounted
    BY OnTheList, LineIsList
       DEF IInv, Phases, validate_pipe, At, Validating, Beginning, NothingCounted
  <1>2. StagePart(line, Stage(line, at), Countable, at) = {}
    BY <1>1 DEF Counting
  <1>3. /\ StagePart(line, Stage(line, at), Countable, Len(line) + 1) = {}
        /\ Stage(line, at + 1) = Stage(line, at) + 1
        /\ Stage(line, at + 1) <= Stage(line, Len(line) + 1)
    BY <1>1, <1>2, StageEnds
  <1>4. Stage(line, Len(line) + 1) \in Nat /\ Stage(line, at) \in Nat \ {0}
    BY <1>1, FinitePipes
  <1>5. Stage(line, at) \in 1..Stage(line, Len(line) + 1)
    BY <1>3, <1>4
  <1>6. ~AllFilled(line)
    BY <1>3, <1>5 DEF AllFilled
  <1>7. QED
    BY <1>1, <1>6, AcceptableIs

\* Nothing counted at the end: the last stage is empty. Otherwise all are filled.
LEMMA EndRefuses ==
  ASSUME IInv, Counting, validate_end
  PROVE  /\ pc' = "rejected" => ~Abstract!Acceptable
         /\ pc' = "parse" => AllFilled(line)
  <1>1. /\ pc = "validate" /\ at = Len(line) + 1 /\ IsList(line)
    BY OnTheList, LineIsList DEF IInv, validate_end
  <1>2. Stage(line, at) \in Nat \ {0}
    BY <1>1, FinitePipes
  <1>3. FilledBefore(line, at)
    BY <1>1 DEF Counting
  <1>4. CASE NothingCounted
    <2>1. pc' = "rejected" /\ StagePart(line, Stage(line, at), Countable, at) = {}
      BY <1>1, <1>4 DEF Counting, validate_end
    <2>2. Stage(line, at) \in 1..Stage(line, at)
      BY <1>2
    <2>3. ~AllFilled(line)
      BY <1>1, <2>1, <2>2 DEF AllFilled
    <2>4. QED
      BY <1>1, <2>1, <2>3, AcceptableIs
  <1>5. CASE ~NothingCounted
    <2>1. pc' = "parse" /\ StagePart(line, Stage(line, at), Countable, at) # {}
      BY <1>1, <1>5 DEF Counting, validate_end
    <2>2. \A s \in 1..Stage(line, at) : s \in 1..Stage(line, at)-1 \/ s = Stage(line, at)
      BY <1>2
    <2>3. AllFilled(line)
      BY <1>1, <1>3, <2>1, <2>2 DEF AllFilled, FilledBefore
    <2>4. QED
      BY <2>1, <2>3
  <1>6. QED
    BY <1>4, <1>5

\* A redirection without an operand.
LEMMA RedirectionRefuses ==
  ASSUME IInv, validate_redirection, pc' = "rejected"
  PROVE  ~Abstract!Acceptable
  <1>1. /\ pc = "validate" /\ at \in 1..Len(line) /\ line[at].type \in Redirection
        /\ IsList(line) /\ tokens = line
    BY OnTheList, LineIsList DEF IInv, Phases, validate_redirection, At, Validating, Beginning
  <1>2. OperandRefused
    BY <1>1 DEF validate_redirection
  <1>3. line[at].type \in FileRedirection \/ line[at].type = "HEREDOC"
    BY <1>1 DEF Redirection
  <1>4. at \in DOMAIN line
    BY <1>1 DEF IsList
  <1>5. ~OperandsIn(line)
    <2>1. CASE Operand = "none"
      <3>2. ~(at < Len(line)) \/ line[at+1].type = "none"
        BY <1>1, <2>1 DEF Operand
      <3>3. QED
        BY <1>3, <1>4, <3>2 DEF OperandsIn
    <2>2. CASE line[at].type # "HEREDOC" /\ Operand # "FILENAME"
      BY <1>1, <1>3, <1>4, <2>2 DEF OperandsIn, Operand
    <2>3. QED
      BY <1>1, <1>2, <2>1, <2>2 DEF OperandRefused
  <1>6. QED
    BY <1>1, <1>5, AcceptableIs

\* The parsing loop gives up at a "<<" whose operand is a "<<" only.
LEMMA LoopRefuses ==
  ASSUME IInv, Parse, pc' = "aborted"
  PROVE  ~Abstract!Acceptable
  <1>1. IInv'
    BY Preservation DEF Next
  <1>2. tokens'[at'].type = "HEREDOC" /\ Operand' = "HEREDOC"
    BY <1>1 DEF IInv, Phases
  <1>3. UNCHANGED <<tokens, at>> /\ pc = "parse" /\ at <= Len(tokens)
    BY DEF Parse, parse_word, parse_redirection, parse_heredoc, parse_pipe, parse_other,
           parse_end, argument_lost, filename_lost, At
  <1>4. IsList(line) /\ Edited /\ at \in 1..Len(line) /\ Len(tokens) = Len(line)
    BY <1>3, OnTheList, LineIsList DEF IInv, Phases, Parsing, Accepted
  <1>5. tokens[at].type = "HEREDOC" /\ Operand = "HEREDOC"
    BY <1>2, <1>3 DEF Operand
  <1>6. at < Len(line) /\ tokens[at+1].type = "HEREDOC" /\ at + 1 \in 1..Len(line)
    BY <1>4, <1>5 DEF Operand
  <1>7. line[at].type = "HEREDOC" /\ line[at+1].type = "HEREDOC"
    BY <1>4, <1>5, <1>6 DEF Edited
  <1>8. at \in DOMAIN line
    BY <1>4 DEF IsList
  <1>9. ~OperandsIn(line)
    BY <1>7, <1>8 DEF OperandsIn
  <1>10. QED
    BY <1>4, <1>9, AcceptableIs

-----------------------------------------------------------------------------
(* A stage as a command, as far as the list has been read.                  *)

\* The tokens that become arguments.
Argued == Word \cup {"EXIT_STATUS"}

\* The argument and the redirection that token k of the list becomes.
Arg(list, k, text, null) ==
  IF k \in null THEN NULL
  ELSE IF list[k].type = "EXIT_STATUS" /\ ~(k > 1 /\ list[k-1].type = "PIPE")
       THEN text
       ELSE ft_strtrim(list[k].value)

Targ(list, k, fileOf, null) ==
  [type     |-> list[k].type,
   filename |-> IF k \in null THEN NULL
                ELSE IF list[k].type = "HEREDOC" THEN fileOf[k] ELSE list[k+1].value]

\* Their arguments, in order.
Args(list, positions, text, null) ==
  [m \in 1..Cardinality(positions) |-> Arg(list, Ordered(positions)[m], text, null)]

\* Their redirections, the last one first.
Targs(list, positions, fileOf, null) ==
  [m \in 1..Cardinality(positions) |->
     Targ(list, Ordered(positions)[Cardinality(positions) - m + 1], fileOf, null)]

\* Stage s as far as the list has been read before position n.
Cmd(list, s, n, text, fileOf, gone, null) ==
  [args         |-> Args(list, StagePart(list, s, Argued, n) \ gone, text, null),
   redirections |-> Targs(list, StagePart(list, s, Redirection, n), fileOf, null),
   pipe_next    |-> s < Stage(list, n)]

\* One element more than old, behind or before it.
AddedBehind(new, old, e) == new = Append(old, e)

AddedBefore(new, old, e) == new = <<e>> \o old

\* A token behind all others adds its argument at the end.
LEMMA ArgsGrow ==
  ASSUME NEW list, NEW size \in Nat, NEW S, S \subseteq 1..size, NEW p \in 1..size,
         \A k \in S : k < p, NEW text, NEW null
  PROVE  AddedBehind(Args(list, S \cup {p}, text, null), Args(list, S, text, null),
                     Arg(list, p, text, null))
  <1> DEFINE old == Args(list, S, text, null)
             new == Args(list, S \cup {p}, text, null)
             n   == Cardinality(S)
  <1>1. /\ n \in Nat /\ Cardinality(S \cup {p}) = n + 1
        /\ \A m \in 1..n : Ordered(S \cup {p})[m] = Ordered(S)[m]
        /\ Ordered(S \cup {p})[n + 1] = p
    BY OrderedGrows
  <1> HIDE DEF n
  <1>2. /\ OnRange(old, n)
        /\ \A m \in 1..n : old[m] = Arg(list, Ordered(S)[m], text, null)
    BY DEF Args, OnRange, n
  <1>3. /\ OnRange(new, n + 1)
        /\ \A m \in 1..n+1 : new[m] = Arg(list, Ordered(S \cup {p})[m], text, null)
    BY <1>1 DEF Args, OnRange
  <1>4. (\A m \in 1..n : m \in 1..n+1) /\ n + 1 \in 1..n+1
    BY <1>1
  <1> HIDE DEF old, new
  <1>5. \A m \in 1..n : new[m] = old[m]
    BY <1>1, <1>2, <1>3, <1>4
  <1>6. new[n + 1] = Arg(list, p, text, null)
    BY <1>1, <1>3, <1>4
  <1>7. new = Append(old, Arg(list, p, text, null))
    BY <1>1, <1>2, <1>3, <1>5, <1>6, AddedLast
  <1>8. QED
    BY <1>7 DEF old, new, AddedBehind

\* A token behind all others adds its redirection in front.
LEMMA TargsGrow ==
  ASSUME NEW list, NEW size \in Nat, NEW S, S \subseteq 1..size, NEW p \in 1..size,
         \A k \in S : k < p, NEW fileOf, NEW null
  PROVE  AddedBefore(Targs(list, S \cup {p}, fileOf, null), Targs(list, S, fileOf, null),
                     Targ(list, p, fileOf, null))
  <1> DEFINE old == Targs(list, S, fileOf, null)
             new == Targs(list, S \cup {p}, fileOf, null)
             n   == Cardinality(S)
  <1>1. /\ n \in Nat /\ Cardinality(S \cup {p}) = n + 1
        /\ \A m \in 1..n : Ordered(S \cup {p})[m] = Ordered(S)[m]
        /\ Ordered(S \cup {p})[n + 1] = p
    BY OrderedGrows
  <1> HIDE DEF n
  <1>2. /\ OnRange(old, n)
        /\ \A m \in 1..n : old[m] = Targ(list, Ordered(S)[n - m + 1], fileOf, null)
    BY DEF Targs, OnRange, n
  <1>3. /\ OnRange(new, n + 1)
        /\ \A m \in 1..n+1 : new[m] = Targ(list, Ordered(S \cup {p})[(n + 1) - m + 1], fileOf, null)
    BY <1>1 DEF Targs, OnRange
  <1> HIDE DEF old, new
  <1>4. new[1] = Targ(list, p, fileOf, null)
    <2>1. 1 \in 1..n+1 /\ (n + 1) - 1 + 1 = n + 1
      BY <1>1
    <2>2. QED
      BY <1>1, <1>3, <2>1
  <1>5. \A m \in 2..n+1 : new[m] = old[m - 1]
    <2> SUFFICES ASSUME NEW m \in 2..n+1
                 PROVE  new[m] = old[m - 1]
      OBVIOUS
    <2>1. m \in 1..n+1 /\ m - 1 \in 1..n /\ (n + 1) - m + 1 = n - (m - 1) + 1
          /\ n - (m - 1) + 1 \in 1..n
      BY <1>1
    <2>2. QED
      BY <1>1, <1>2, <1>3, <2>1
  <1>6. new = <<Targ(list, p, fileOf, null)>> \o old
    BY <1>1, <1>2, <1>3, <1>4, <1>5, AddedFirst
  <1>7. QED
    BY <1>6 DEF old, new, AddedBefore

\* Two choices of files and lost copies that do not differ before position n.
Agree(list, n, fileOf, gone, null, fileOf2, gone2, null2) ==
  \A k \in 1..Len(list) :
    k < n => /\ k \in gone <=> k \in gone2
             /\ k \in null <=> k \in null2
             /\ list[k].type = "HEREDOC" => fileOf[k] = fileOf2[k]

\* What has been read of a stage depends on the past only.
LEMMA CommandsOfThePast ==
  ASSUME NEW list, IsList(list), NEW n, NEW s, NEW text, NEW fileOf, NEW gone, NEW null,
         NEW fileOf2, NEW gone2, NEW null2,
         Agree(list, n, fileOf, gone, null, fileOf2, gone2, null2)
  PROVE  Cmd(list, s, n, text, fileOf, gone, null) = Cmd(list, s, n, text, fileOf2, gone2, null2)
  <1> DEFINE P == StagePart(list, s, Argued, n) \ gone
             Q == StagePart(list, s, Redirection, n)
  <1>1. Len(list) \in Nat /\ P \subseteq 1..Len(list) /\ Q \subseteq 1..Len(list)
        /\ (\A k \in P : k < n) /\ \A k \in Q : k < n
    BY StagePartBound DEF IsList
  <1>2. P = StagePart(list, s, Argued, n) \ gone2
    <2>1. /\ StagePart(list, s, Argued, n) \subseteq 1..Len(list)
          /\ \A k \in StagePart(list, s, Argued, n) : k < n
      BY StagePartBound
    <2>2. QED
      BY <2>1 DEF Agree
  <1> HIDE DEF P, Q
  <1>3. Args(list, P, text, null) = Args(list, P, text, null2)
    <2>1. \A m \in 1..Cardinality(P) : Ordered(P)[m] \in P
      BY <1>1, OrderedElements
    <2>2. \A k \in P : Arg(list, k, text, null) = Arg(list, k, text, null2)
      BY <1>1 DEF Agree, Arg
    <2>3. QED
      BY <2>1, <2>2 DEF Args
  <1>4. Targs(list, Q, fileOf, null) = Targs(list, Q, fileOf2, null2)
    <2>1. /\ Cardinality(Q) \in Nat
          /\ \A m \in 1..Cardinality(Q) : Ordered(Q)[m] \in Q
      BY <1>1, OrderedElements
    <2>2. \A m \in 1..Cardinality(Q) : Cardinality(Q) - m + 1 \in 1..Cardinality(Q)
      BY <2>1
    <2>3. \A k \in Q : Targ(list, k, fileOf, null) = Targ(list, k, fileOf2, null2)
      BY <1>1 DEF Agree, Targ
    <2>4. QED
      BY <2>1, <2>2, <2>3 DEF Targs
  <1>5. QED
    BY <1>2, <1>3, <1>4 DEF Cmd, P, Q

\* The stages that pipes have ended stay as they are.
LEMMA EarlierStages ==
  ASSUME NEW list, IsList(list), NEW n \in 1..Len(list), NEW s \in Nat, s < Stage(list, n),
         NEW text, NEW fileOf, NEW gone, NEW null
  PROVE  Cmd(list, s, n + 1, text, fileOf, gone, null) = Cmd(list, s, n, text, fileOf, gone, null)
  <1>1. Stage(list, n) \in Nat /\ Stage(list, n + 1) \in Nat
    BY FinitePipes
  <1>2. Stage(list, n) # s /\ s < Stage(list, n + 1)
    BY <1>1, StageStep
  <1>3. ASSUME NEW Types
        PROVE  StagePart(list, s, Types, n + 1) = StagePart(list, s, Types, n)
    BY <1>2, StagePartStep
  <1>4. (s < Stage(list, n + 1)) = (s < Stage(list, n))
    BY <1>2
  <1>5. QED
    BY <1>3, <1>4 DEF Cmd

\* What a token makes of the command of its stage.
WithArgument(new, old, arg) ==
  new = [args |-> Append(old.args, arg), redirections |-> old.redirections, pipe_next |-> FALSE]

WithRedirection(new, old, target) ==
  new = [args |-> old.args, redirections |-> <<target>> \o old.redirections, pipe_next |-> FALSE]

WithPipe(new, old) ==
  new = [args |-> old.args, redirections |-> old.redirections, pipe_next |-> TRUE]

\* One more token of the stage that is being read.
LEMMA OneMoreToken ==
  ASSUME NEW list, IsList(list), NEW n \in 1..Len(list),
         NEW text, NEW fileOf, NEW gone, NEW null
  PROVE  LET old == Cmd(list, Stage(list, n), n, text, fileOf, gone, null)
             new == Cmd(list, Stage(list, n), n + 1, text, fileOf, gone, null)
         IN  /\ old.pipe_next = FALSE
             /\ list[n].type \in Argued /\ n \notin gone
                  => WithArgument(new, old, Arg(list, n, text, null))
             /\ list[n].type \in Argued /\ n \in gone => new = old
             /\ list[n].type \in Redirection
                  => WithRedirection(new, old, Targ(list, n, fileOf, null))
             /\ list[n].type \in {"FILENAME", "DELIMITER"} => new = old
             /\ list[n].type = "PIPE" => WithPipe(new, old)
  <1> DEFINE s    == Stage(list, n)
             size == Len(list)
             old  == Cmd(list, s, n, text, fileOf, gone, null)
             new  == Cmd(list, s, n + 1, text, fileOf, gone, null)
             A    == StagePart(list, s, Argued, n)
             B    == A \ gone
             R    == StagePart(list, s, Redirection, n)
             A2   == StagePart(list, s, Argued, n + 1)
             R2   == StagePart(list, s, Redirection, n + 1)
  <1>1. /\ list[n].type \in Argued => A2 = A \cup {n}
        /\ list[n].type \notin Argued => A2 = A
        /\ list[n].type \in Redirection => R2 = R \cup {n}
        /\ list[n].type \notin Redirection => R2 = R
    <2>1. ASSUME NEW Types
          PROVE  /\ list[n].type \in Types
                      => StagePart(list, s, Types, n + 1) = StagePart(list, s, Types, n) \cup {n}
                 /\ list[n].type \notin Types
                      => StagePart(list, s, Types, n + 1) = StagePart(list, s, Types, n)
      BY StagePartStep
    <2>2. QED
      BY <2>1
  <1>2. /\ size \in Nat /\ n \in 1..size
        /\ A \subseteq 1..size /\ (\A k \in A : k < n)
        /\ R \subseteq 1..size /\ (\A k \in R : k < n)
    BY StagePartBound DEF IsList
  <1>3. B \subseteq 1..size /\ (\A k \in B : k < n)
    BY <1>2
  <1>4. s \in Nat /\ (s < s) = FALSE /\ (s < s + 1) = TRUE
        /\ Stage(list, n + 1) = IF list[n].type = "PIPE" THEN s + 1 ELSE s
    BY StageStep, FinitePipes
  <1>5. /\ old.args = Args(list, B, text, null)
        /\ old.redirections = Targs(list, R, fileOf, null)
        /\ old.pipe_next = FALSE
        /\ old = [args |-> old.args, redirections |-> old.redirections, pipe_next |-> FALSE]
    BY <1>4 DEF Cmd
  <1>6. new = [args         |-> Args(list, A2 \ gone, text, null),
               redirections |-> Targs(list, R2, fileOf, null),
               pipe_next    |-> s < Stage(list, n + 1)]
    BY DEF Cmd
  <1>7. /\ list[n].type \in Argued => list[n].type \notin Redirection \cup {"PIPE"}
        /\ list[n].type \in Redirection => list[n].type \notin Argued \cup {"PIPE"}
        /\ list[n].type \in {"FILENAME", "DELIMITER", "PIPE"}
             => list[n].type \notin Argued \cup Redirection
    BY DEF Argued, Word, Redirection, FileRedirection
  <1>8. (s < Stage(list, n + 1)) = (list[n].type = "PIPE")
    BY <1>4
  <1> HIDE DEF s, size, old, new, A, B, R, A2, R2
  <1>9. CASE list[n].type \in Argued /\ n \notin gone
    <2>1. A2 \ gone = B \cup {n} /\ R2 = R
      BY <1>1, <1>7, <1>9 DEF B
    <2>2. Args(list, B \cup {n}, text, null)
            = Append(Args(list, B, text, null), Arg(list, n, text, null))
      <3>1. AddedBehind(Args(list, B \cup {n}, text, null), Args(list, B, text, null),
                        Arg(list, n, text, null))
        BY <1>2, <1>3, ArgsGrow
      <3>2. QED
        BY <3>1 DEF AddedBehind
    <2>3. (s < Stage(list, n + 1)) = FALSE
      BY <1>7, <1>8, <1>9
    <2>4. WithArgument(new, old, Arg(list, n, text, null))
      BY <1>5, <1>6, <2>1, <2>2, <2>3 DEF WithArgument
    <2>5. QED
      BY <1>5, <1>7, <1>9, <2>4 DEF s, old, new
  <1>10. CASE list[n].type \in Argued /\ n \in gone
    <2>1. A2 \ gone = B /\ R2 = R
      BY <1>1, <1>7, <1>10 DEF B
    <2>2. (s < Stage(list, n + 1)) = FALSE
      BY <1>7, <1>8, <1>10
    <2>3. new = old
      BY <1>5, <1>6, <2>1, <2>2
    <2>4. QED
      BY <1>5, <1>7, <1>10, <2>3 DEF s, old, new
  <1>11. CASE list[n].type \in Redirection
    <2>1. A2 \ gone = B /\ R2 = R \cup {n}
      BY <1>1, <1>7, <1>11 DEF B
    <2>2. Targs(list, R \cup {n}, fileOf, null)
            = <<Targ(list, n, fileOf, null)>> \o Targs(list, R, fileOf, null)
      <3>1. AddedBefore(Targs(list, R \cup {n}, fileOf, null), Targs(list, R, fileOf, null),
                        Targ(list, n, fileOf, null))
        BY <1>2, TargsGrow
      <3>2. QED
        BY <3>1 DEF AddedBefore
    <2>3. (s < Stage(list, n + 1)) = FALSE
      BY <1>7, <1>8, <1>11
    <2>4. WithRedirection(new, old, Targ(list, n, fileOf, null))
      BY <1>5, <1>6, <2>1, <2>2, <2>3 DEF WithRedirection
    <2>5. QED
      BY <1>5, <1>7, <1>11, <2>4 DEF s, old, new
  <1>12. CASE list[n].type \in {"FILENAME", "DELIMITER"}
    <2>1. A2 \ gone = B /\ R2 = R
      BY <1>1, <1>7, <1>12 DEF B
    <2>2. (s < Stage(list, n + 1)) = FALSE
      BY <1>8, <1>12
    <2>3. new = old
      BY <1>5, <1>6, <2>1, <2>2
    <2>4. QED
      BY <1>5, <1>7, <1>12, <2>3 DEF s, old, new
  <1>13. CASE list[n].type = "PIPE"
    <2>1. A2 \ gone = B /\ R2 = R
      BY <1>1, <1>7, <1>13 DEF B
    <2>2. (s < Stage(list, n + 1)) = TRUE
      BY <1>8, <1>13
    <2>3. WithPipe(new, old)
      BY <1>5, <1>6, <2>1, <2>2 DEF WithPipe
    <2>4. QED
      BY <1>5, <1>7, <1>13, <2>3 DEF s, old, new
  <1>14. CASE list[n].type \notin Argued \cup Redirection \cup {"FILENAME", "DELIMITER", "PIPE"}
    BY <1>5, <1>14 DEF s, old, new
  <1>15. QED
    BY <1>9, <1>10, <1>11, <1>12, <1>13, <1>14

-----------------------------------------------------------------------------
(* The pipeline, as far as the list has been read.                          *)

\* The first stages of the line, as far as they have been read before position n.
Pipeline(list, stages, n, text, fileOf, gone, null) ==
  [s \in 1..stages |-> Cmd(list, s, n, text, fileOf, gone, null)]

\* A function on 1..n is a sequence.
LEMMA OnRangeIsSequence ==
  ASSUME NEW n \in Nat, NEW f, OnRange(f, n)
  PROVE  IsSequence(f) /\ Len(f) = n /\ DOMAIN f = 1..n
  <1> DEFINE all == {f[m] : m \in 1..n}
  <1>1. f \in [1..n -> all]
    BY DEF OnRange
  <1>2. f \in Seq(all)
    BY <1>1, SeqDef
  <1>3. Len(f) = n /\ DOMAIN f = 1..n
    BY <1>1, <1>2, LenProperties
  <1>4. QED
    BY <1>2, <1>3, SequenceIntroduction

\* Without anything to read there is nothing in a command.
LEMMA NothingRead ==
  ASSUME NEW list, NEW text, NEW fileOf, NEW null
  PROVE  Args(list, {}, text, null) = <<>> /\ Targs(list, {}, fileOf, null) = <<>>
  <1>1. Cardinality({}) = 0
    BY FS_EmptySet
  <1>2. OnRange(Args(list, {}, text, null), 0) /\ OnRange(Targs(list, {}, fileOf, null), 0)
    BY <1>1 DEF OnRange, Args, Targs
  <1>3. /\ IsSequence(Args(list, {}, text, null)) /\ Len(Args(list, {}, text, null)) = 0
        /\ IsSequence(Targs(list, {}, fileOf, null)) /\ Len(Targs(list, {}, fileOf, null)) = 0
    BY <1>2, OnRangeIsSequence
  <1>4. QED
    BY <1>3, SequenceElements

\* A stage starts with an empty command.
LEMMA StageOpens ==
  ASSUME NEW list, IsList(list), NEW n \in 1..Len(list)+1, n = 1 \/ list[n-1].type = "PIPE",
         NEW text, NEW fileOf, NEW gone, NEW null
  PROVE  Cmd(list, Stage(list, n), n, text, fileOf, gone, null) = new_command
  <1> DEFINE s == Stage(list, n)
  <1>1. s \in Nat
    BY FinitePipes
  <1>2. StagePart(list, s, Argued, n) = {} /\ StagePart(list, s, Redirection, n) = {}
    BY StageStarts
  <1> HIDE DEF s
  <1>3. StagePart(list, s, Argued, n) \ gone = {}
    BY <1>2
  <1>4. (s < s) = FALSE
    BY <1>1
  <1>5. QED
    BY <1>2, <1>3, <1>4, NothingRead DEF Cmd, new_command, s

\* What has been read of a line depends on the past only.
LEMMA PipelinesOfThePast ==
  ASSUME NEW list, IsList(list), NEW n, NEW stages, NEW text, NEW fileOf, NEW gone, NEW null,
         NEW fileOf2, NEW gone2, NEW null2,
         Agree(list, n, fileOf, gone, null, fileOf2, gone2, null2)
  PROVE  Pipeline(list, stages, n, text, fileOf, gone, null)
           = Pipeline(list, stages, n, text, fileOf2, gone2, null2)
  <1>1. \A s : Cmd(list, s, n, text, fileOf, gone, null)
                 = Cmd(list, s, n, text, fileOf2, gone2, null2)
    BY CommandsOfThePast
  <1>2. QED
    BY <1>1 DEF Pipeline

\* Reading a token changes the last stage only.
LEMMA PipelineGrows ==
  ASSUME NEW list, IsList(list), NEW n \in 1..Len(list),
         NEW text, NEW fileOf, NEW gone, NEW null
  PROVE  Pipeline(list, Stage(list, n), n + 1, text, fileOf, gone, null)
           = [Pipeline(list, Stage(list, n), n, text, fileOf, gone, null) EXCEPT
                ![Stage(list, n)] = Cmd(list, Stage(list, n), n + 1, text, fileOf, gone, null)]
  <1>1. Stage(list, n) \in Nat \ {0}
    BY FinitePipes
  <1>2. \A s \in 1..Stage(list, n) : s = Stage(list, n) \/ (s \in Nat /\ s < Stage(list, n))
    BY <1>1
  <1>3. \A s \in 1..Stage(list, n) :
           s # Stage(list, n) => Cmd(list, s, n + 1, text, fileOf, gone, null)
                                   = Cmd(list, s, n, text, fileOf, gone, null)
    BY <1>2, EarlierStages
  <1>4. QED
    BY <1>3 DEF Pipeline

\* An operand is no part of a command of its own.
LEMMA PipelineSkips ==
  ASSUME NEW list, IsList(list), NEW n \in 1..Len(list),
         list[n].type \in {"FILENAME", "DELIMITER"},
         NEW text, NEW fileOf, NEW gone, NEW null
  PROVE  /\ Stage(list, n + 1) = Stage(list, n)
         /\ Pipeline(list, Stage(list, n), n + 1, text, fileOf, gone, null)
              = Pipeline(list, Stage(list, n), n, text, fileOf, gone, null)
  <1>1. Stage(list, n) \in Nat \ {0}
    BY FinitePipes
  <1>2. Stage(list, n + 1) = Stage(list, n)
    BY <1>1, StageStep
  <1>3. \A s \in 1..Stage(list, n) : s = Stage(list, n) \/ (s \in Nat /\ s < Stage(list, n))
    BY <1>1
  <1>4. Cmd(list, Stage(list, n), n + 1, text, fileOf, gone, null)
          = Cmd(list, Stage(list, n), n, text, fileOf, gone, null)
    BY OneMoreToken
  <1>5. \A s \in 1..Stage(list, n) : Cmd(list, s, n + 1, text, fileOf, gone, null)
                                       = Cmd(list, s, n, text, fileOf, gone, null)
    BY <1>3, <1>4, EarlierStages
  <1>6. QED
    BY <1>2, <1>5 DEF Pipeline

\* The command that is added to is the one of the stage the loop stands in.
Top == IF current = 0 THEN Stage(line, at) - 1 ELSE Stage(line, at)

\* Opened is the pipeline with the stage the loop stands in, even where no token of it
\* has been read.
LEMMA OpenedIs ==
  ASSUME IInv, Parsing, NEW fileOf, NEW gone, NEW null,
         commands = Pipeline(line, Top, at, status, fileOf, gone, null)
  PROVE  /\ Opened = Pipeline(line, Stage(line, at), at, status, fileOf, gone, null)
         /\ Open = Stage(line, at) /\ Stage(line, at) \in Nat \ {0}
         /\ Len(commands) = Top
  <1> DEFINE s == Stage(line, at)
  <1>1. IsList(line) /\ at \in 1..Len(line)+1
    BY LineIsList, OnTheList DEF IInv
  <1>2. s \in Nat \ {0} /\ s - 1 \in Nat /\ (s - 1) + 1 = s
    BY <1>1, FinitePipes
  <1> DEFINE all == Pipeline(line, s, at, status, fileOf, gone, null)
             but == Pipeline(line, s - 1, at, status, fileOf, gone, null)
  <1>3. OnRange(all, s) /\ OnRange(but, s - 1)
    BY DEF OnRange, Pipeline
  <1>4. Len(all) = s /\ Len(but) = s - 1
    BY <1>2, <1>3, OnRangeIsSequence
  <1>5. CASE current # 0
    <2>1. Opened = all /\ Top = s
      BY <1>5 DEF Opened, Top
    <2>2. QED
      BY <1>2, <1>4, <1>5, <2>1 DEF Open, Opened
  <1>6. CASE current = 0
    <2>1. commands = but /\ Top = s - 1
      BY <1>6 DEF Top
    <2>2. at = 1 \/ line[at-1].type = "PIPE"
      BY <1>6 DEF Parsing
    <2>3. Cmd(line, s, at, status, fileOf, gone, null) = new_command
      BY <1>1, <2>2, StageOpens
    <2>4. (\A t \in 1..s-1 : all[t] = but[t]) /\ all[s] = new_command
      <3>1. s \in 1..s /\ \A t \in 1..s-1 : t \in 1..s
        BY <1>2
      <3>2. QED
        BY <2>3, <3>1 DEF Pipeline
    <2> HIDE DEF s, all, but
    <2>5. OnRange(all, (s - 1) + 1) /\ all[(s - 1) + 1] = new_command
      BY <1>2, <1>3, <2>4
    <2>6. all = Append(but, new_command)
      BY <1>2, <1>3, <2>4, <2>5, AddedLast
    <2>7. Opened = all
      BY <1>6, <2>1, <2>6 DEF Opened
    <2>8. QED
      BY <1>2, <1>4, <2>1, <2>7 DEF s, all, Open
  <1>7. QED
    BY <1>5, <1>6

-----------------------------------------------------------------------------
(* What one turn of the parsing loop adds to a command.                     *)

\* The text of a status has no blanks at its ends.
LEMMA NothingToTrim ==
  ASSUME NEW s \in Seq(NameChar)
  PROVE  ft_strtrim(s) = s
  <1> DEFINE kept == {k \in DOMAIN s : s[k] \notin Blank}
  <1>1. Len(s) \in Nat /\ DOMAIN s = 1..Len(s) /\ \A k \in 1..Len(s) : s[k] \in NameChar
    BY LenProperties, ElementOfSeq
  <1>2. NameChar \cap Blank = {}
    BY TextAssumption DEF Special
  <1>3. kept = 1..Len(s)
    BY <1>1, <1>2
  <1> HIDE DEF kept
  <1>4. CASE kept = {}
    <2>1. s = <<>>
      BY <1>1, <1>3, <1>4, EmptySeq
    <2>2. QED
      BY <1>4, <2>1 DEF ft_strtrim, kept
  <1>5. CASE kept # {}
    <2>1. Len(s) \in kept /\ 1 \in kept /\ \A k \in kept : k \in Nat /\ 1 <= k /\ k <= Len(s)
      BY <1>1, <1>3, <1>5
    <2>2. Min(kept) = 1
      <3>1. kept \subseteq Nat
        BY <2>1
      <3>2. Min(kept) \in kept /\ \A k \in kept : Min(kept) <= k
        BY <1>5, <3>1, MinIsElement
      <3>3. QED
        BY <2>1, <3>2
    <2>3. Max(kept) = Len(s)
      <3>1. \A x \in kept : (\A y \in kept : x >= y) <=> x = Len(s)
        BY <1>1, <2>1
      <3>2. QED
        BY <2>1, <3>1 DEF Max
    <2>4. ft_strtrim(s) = SubSeq(s, 1, Len(s))
      BY <1>5, <2>2, <2>3 DEF ft_strtrim, kept
    <2>5. QED
      BY <2>4, SubSeqFull
  <1>6. QED
    BY <1>4, <1>5

\* What the loop adds to a command.
LEMMA CommandAdditions ==
  ASSUME NEW cmd, IsCommand(cmd), cmd.pipe_next = FALSE
  PROVE  /\ \A arg : WithArgument(add_argument(cmd, arg), cmd, ft_strtrim(arg))
         /\ \A type, filename : WithRedirection(add_redirection(cmd, type, filename), cmd,
                                                [type |-> type, filename |-> filename])
         /\ WithArgument([cmd EXCEPT !.args = @ \o <<NULL>>], cmd, NULL)
         /\ [cmd EXCEPT !.args = @ \o <<>>] = cmd
  <1>1. \A arg : add_argument(cmd, arg)
          = [args |-> Append(cmd.args, ft_strtrim(arg)),
             redirections |-> cmd.redirections, pipe_next |-> cmd.pipe_next]
    BY DEF IsCommand, add_argument
  <1>2. \A type, filename : add_redirection(cmd, type, filename)
          = [args |-> cmd.args,
             redirections |-> <<[type |-> type, filename |-> filename]>> \o cmd.redirections,
             pipe_next |-> cmd.pipe_next]
    <2>1. \A r : [cmd EXCEPT !.redirections = r]
                   = [args |-> cmd.args, redirections |-> r, pipe_next |-> cmd.pipe_next]
      BY DEF IsCommand
    <2>2. QED
      BY <2>1, Zenon DEF add_redirection
  <1>3. cmd.args \o <<NULL>> = Append(cmd.args, NULL) /\ cmd.args \o <<>> = cmd.args
    <2> DEFINE S == {cmd.args[k] : k \in DOMAIN cmd.args} \cup {NULL}
    <2>1. cmd.args \in Seq(S) /\ NULL \in S
      BY SeqMonotonic DEF IsCommand, IsSequence
    <2> HIDE DEF S
    <2>2. QED
      BY <2>1, AppendIsConcat, ConcatEmptySeq
  <1>4. /\ [cmd EXCEPT !.args = @ \o <<NULL>>]
             = [args |-> cmd.args \o <<NULL>>, redirections |-> cmd.redirections,
                pipe_next |-> cmd.pipe_next]
        /\ [cmd EXCEPT !.args = @ \o <<>>]
             = [args |-> cmd.args \o <<>>, redirections |-> cmd.redirections,
                pipe_next |-> cmd.pipe_next]
    BY ArgumentsExtended
  <1>5. \A arg : WithArgument(add_argument(cmd, arg), cmd, ft_strtrim(arg))
    BY <1>1 DEF WithArgument
  <1>6. \A type, filename : WithRedirection(add_redirection(cmd, type, filename), cmd,
                                            [type |-> type, filename |-> filename])
    BY <1>2 DEF WithRedirection
  <1>7. WithArgument([cmd EXCEPT !.args = @ \o <<NULL>>], cmd, NULL)
    BY <1>3, <1>4 DEF WithArgument
  <1>8. [cmd EXCEPT !.args = @ \o <<>>] = cmd
    BY <1>3, <1>4 DEF IsCommand
  <1>9. QED
    BY <1>5, <1>6, <1>7, <1>8

\* The token that c adds to the open command is the current one.
Adds(c, fileOf, gone, null) ==
  \/ /\ line[at].type \in Argued /\ at \notin gone
     /\ WithArgument(c, Opened[Open], Arg(line, at, status, null))
  \/ line[at].type \in Argued /\ at \in gone /\ c = Opened[Open]
  \/ /\ line[at].type \in Redirection
     /\ WithRedirection(c, Opened[Open], Targ(line, at, fileOf, null))

\* The open command with the current token added is the one the line stands for.
LEMMA TokenJoins ==
  ASSUME IInv, at \in 1..Len(line), line[at].type # "PIPE",
         NEW fileOf, NEW gone, NEW null, NEW c,
         Opened = Pipeline(line, Stage(line, at), at, status, fileOf, gone, null),
         Open = Stage(line, at),
         Adds(c, fileOf, gone, null), NEW t, Replaced(t, Opened, Open, c)
  PROVE  /\ Stage(line, at + 1) = Stage(line, at)
         /\ t = Pipeline(line, Stage(line, at + 1), at + 1, status, fileOf, gone, null)
  <1> DEFINE s   == Stage(line, at)
             old == Cmd(line, s, at, status, fileOf, gone, null)
             new == Cmd(line, s, at + 1, status, fileOf, gone, null)
  <1>1. IsList(line)
    BY LineIsList DEF IInv
  <1>2. s \in Nat \ {0} /\ Stage(line, at + 1) = s
    BY <1>1, StageStep, FinitePipes
  <1>3. Opened[Open] = old
    <2>1. s \in 1..s
      BY <1>2
    <2>2. QED
      BY <2>1 DEF Pipeline
  <1>4. /\ line[at].type \in Argued /\ at \notin gone
             => WithArgument(new, old, Arg(line, at, status, null))
        /\ line[at].type \in Argued /\ at \in gone => new = old
        /\ line[at].type \in Redirection
             => WithRedirection(new, old, Targ(line, at, fileOf, null))
    BY <1>1, OneMoreToken
  <1>5. c = new
    <2> HIDE DEF s, old, new, Opened, Open
    <2>1. CASE /\ line[at].type \in Argued /\ at \notin gone
               /\ WithArgument(c, Opened[Open], Arg(line, at, status, null))
      BY <1>3, <1>4, <2>1 DEF WithArgument
    <2>2. CASE line[at].type \in Argued /\ at \in gone /\ c = Opened[Open]
      BY <1>3, <1>4, <2>2
    <2>3. CASE /\ line[at].type \in Redirection
               /\ WithRedirection(c, Opened[Open], Targ(line, at, fileOf, null))
      BY <1>3, <1>4, <2>3 DEF WithRedirection
    <2>4. QED
      BY <2>1, <2>2, <2>3 DEF Adds
  <1>6. Pipeline(line, s, at + 1, status, fileOf, gone, null)
          = [Pipeline(line, s, at, status, fileOf, gone, null) EXCEPT ![s] = new]
    BY <1>1, PipelineGrows
  <1>7. QED
    BY <1>2, <1>5, <1>6 DEF Replaced

-----------------------------------------------------------------------------
(* The parsing loop builds the pipeline the line stands for.                *)

\* The here-documents before position n.
Documents(list, n) == {k \in 1..Len(list) : k < n /\ list[k].type = "HEREDOC"}

\* Each of them has a file of its own, and there are no others.
FilesOf(list, n, fs, fileOf) ==
  /\ fileOf \in [Documents(list, n) -> TempName \ Existing]
  /\ \A j, k \in Documents(list, n) : fileOf[j] = fileOf[k] => j = k
  /\ fs = Existing \cup {fileOf[k] : k \in Documents(list, n)}

\* No element, or one before position n.
AtMostOne(S, n) == S = {} \/ \E k \in 1..n-1 : S = {k}

\* One token at most has been damaged, once a copy has failed.
Losses(n, lost, gone, null) ==
  /\ AtMostOne(gone, n) /\ AtMostOne(null, n)
  /\ gone = {} \/ null = {}
  /\ ~lost => gone = {} /\ null = {}

\* The parsing loop: the commands are the pipeline the line stands for, as far as it
\* has been read.
Building ==
  /\ AllFilled(line)
  /\ \A k \in Documents(line, at) : k < Len(line) /\ line[k+1].type = "DELIMITER"
  /\ \A k \in 1..Len(line) : tokens[k].value = line[k].value
  /\ at > 1 /\ at <= Len(line) /\ line[at-1].type = "PIPE" /\ line[at].type \notin Redirection
       => tokens[at].type = "COMMANDE"
  /\ \E fileOf, gone, null :
       /\ FilesOf(line, at, files, fileOf)
       /\ Losses(at, failed, gone, null)
       /\ commands = Pipeline(line, Top, at, status, fileOf, gone, null)

\* No file is made before the parsing loop, and that loop builds what the line stands
\* for.
Answering ==
  /\ pc \in {"start", "validate"} => files = Existing
  /\ pc \in {"parse", "done"} => Building

\* The current token is a word or "$?", and which of them decides what is added.
LEMMA ArgumentToken ==
  ASSUME IInv, Building, pc = "parse", at <= Len(tokens), tokens[at].type \in Argued
  PROVE  /\ line[at].type \in Argued
         /\ tokens[at].type \in Word =>
              \A null : at \notin null =>
                Arg(line, at, status, null) = ft_strtrim(tokens[at].value)
         /\ tokens[at].type = "EXIT_STATUS" =>
              \A null : at \notin null => Arg(line, at, status, null) = ft_strtrim(status)
  <1>1. /\ Parsing /\ at \in 1..Len(line) /\ at \in Nat /\ line[at].type \notin Redirection
        /\ tokens[at].value = line[at].value
    <2>1. tokens[at].type \notin Redirection
      BY DEF Argued, Word, Redirection, FileRedirection
    <2>2. Parsing /\ at \in 1..Len(line) /\ at \in Nat /\ line[at].type \notin Redirection
      BY <2>1, InTheLoop
    <2>3. QED
      BY <2>2 DEF Building
  <1>2. line[at].type = "PIPE" => at > 1 /\ line[at-1].type # "PIPE"
    <2>1. at \in 1..(Len(line)+1)-1
      BY <1>1, OnTheList DEF IInv
    <2>2. QED
      BY <1>1, <2>1 DEF Parsing, Accepted, Validated
  <1>3. line[at].type \notin {"FILENAME", "DELIMITER"}
    BY <1>1, NoOperandHere
  <1>4. line[at].type \in TokenType
    BY <1>1, OnTheList, TokenListElements DEF IInv, WellFormed
  <1>5. \/ tokens[at].type = line[at].type
        \/ at > 1 /\ line[at-1].type = "PIPE" /\ tokens[at].type = "COMMANDE"
    BY <1>1 DEF Parsing, Accepted, Edited
  <1>6. line[at].type \in Argued
    BY <1>1, <1>2, <1>3, <1>4, <1>5 DEF TokenType, Argued, Word, Redirection, FileRedirection
  <1>7. line[at].type = "EXIT_STATUS" => /\ at > 1 /\ line[at-1].type = "PIPE"
                                              <=> tokens[at].type \in Word
                                         /\ tokens[at].type \in {"EXIT_STATUS", "COMMANDE"}
    BY <1>1, <1>5, OnTheList DEF Building, Word, IInv
  <1>8. tokens[at].type = "EXIT_STATUS"
          => tokens[at].type \notin Word /\ line[at].type = "EXIT_STATUS"
    BY <1>5 DEF Word
  <1>9. ASSUME tokens[at].type \in Word, NEW null, at \notin null
        PROVE  Arg(line, at, status, null) = ft_strtrim(tokens[at].value)
    BY <1>1, <1>7, <1>9 DEF Arg
  <1>10. ASSUME tokens[at].type = "EXIT_STATUS", NEW null, at \notin null
         PROVE  Arg(line, at, status, null) = ft_strtrim(status)
    <2>1. ft_strtrim(status) = status
      BY NothingToTrim, TextAssumption DEF IInv, TypeOK
    <2>2. QED
      BY <1>7, <1>8, <1>10, <2>1 DEF Arg
  <1>11. QED
    BY <1>6, <1>9, <1>10

\* The choices that describe what has been built so far.
Witnesses(fileOf, gone, null) ==
  /\ FilesOf(line, at, files, fileOf)
  /\ Losses(at, failed, gone, null)
  /\ commands = Pipeline(line, Top, at, status, fileOf, gone, null)

\* The loop reads the line on, and nothing in it changes.
ReadsOn ==
  /\ \A k \in Documents(line, at) : k < Len(line) /\ line[k+1].type = "DELIMITER"
  /\ \A k \in 1..Len(line) : tokens[k].value = line[k].value
  /\ at > 1 /\ at <= Len(line) /\ line[at-1].type = "PIPE" /\ line[at].type \notin Redirection
       => tokens[at].type = "COMMANDE"

\* The two parts of Building.
LEMMA BuildingIs ==
  Building <=> AllFilled(line) /\ ReadsOn /\ \E fileOf, gone, null : Witnesses(fileOf, gone, null)
  BY DEF Building, ReadsOn, Witnesses

\* Where no document is read the choice of files stays.
LEMMA SameDocuments ==
  ASSUME NEW list, NEW n \in Nat, NEW m \in Nat, n <= m,
         \A k \in 1..Len(list) : n <= k /\ k < m => list[k].type # "HEREDOC"
  PROVE  Documents(list, m) = Documents(list, n)
  <1>1. \A k \in 1..Len(list) : list[k].type = "HEREDOC" => (k < m <=> k < n)
    <2> SUFFICES ASSUME NEW k \in 1..Len(list), list[k].type = "HEREDOC"
                 PROVE  k < m <=> k < n
      OBVIOUS
    <2>1. k \in Int
      OBVIOUS
    <2>2. ~(n <= k /\ k < m)
      OBVIOUS
    <2>3. QED
      BY <2>1, <2>2
  <1>2. QED
    BY <1>1 DEF Documents

\* The files of the documents before position m, when n was the last one.
OneMoreFile(list, n, m, fs, file, fileOf) ==
  \E more : /\ FilesOf(list, m, fs \cup {file}, more)
            /\ more[n] = file
            /\ \A k \in Documents(list, n) : more[k] = fileOf[k]

\* A document more, with a new file.
LEMMA OneMoreDocument ==
  ASSUME NEW list, NEW n \in 1..Len(list), NEW m \in Nat, n < m, list[n].type = "HEREDOC",
         \A k \in 1..Len(list) : n < k /\ k < m => list[k].type # "HEREDOC",
         NEW fs, NEW fileOf, FilesOf(list, n, fs, fileOf), NEW file \in TempName \ fs
  PROVE  OneMoreFile(list, n, m, fs, file, fileOf)
  <1>1. Documents(list, m) = Documents(list, n) \cup {n}
    <2>1. \A k \in 1..Len(list) : list[k].type = "HEREDOC" => (k < m <=> k < n \/ k = n)
      <3> SUFFICES ASSUME NEW k \in 1..Len(list), list[k].type = "HEREDOC"
                   PROVE  k < m <=> k < n \/ k = n
        OBVIOUS
      <3>1. k \in Int /\ n \in Int
        OBVIOUS
      <3>2. ~(n < k /\ k < m)
        OBVIOUS
      <3>3. QED
        BY <3>1, <3>2
    <2>2. QED
      BY <2>1 DEF Documents
  <1>2. n \notin Documents(list, n)
    <2>1. ~(n < n)
      OBVIOUS
    <2>2. QED
      BY <2>1 DEF Documents
  <1> DEFINE D    == Documents(list, n)
             more == [k \in D \cup {n} |-> IF k = n THEN file ELSE fileOf[k]]
  <1>3. /\ more[n] = file /\ n \notin D
        /\ \A k \in D : more[k] = fileOf[k]
    BY <1>2
  <1>4. /\ fileOf \in [D -> TempName \ Existing]
        /\ \A j, k \in D : fileOf[j] = fileOf[k] => j = k
        /\ fs = Existing \cup {fileOf[k] : k \in D}
    BY DEF FilesOf
  <1>5. file \notin Existing /\ file \in TempName /\ \A k \in D : fileOf[k] # file
    BY <1>4
  <1>6. more \in [D \cup {n} -> TempName \ Existing]
    BY <1>4, <1>5
  <1> HIDE DEF more, D
  <1>7. \A j, k \in D \cup {n} : more[j] = more[k] => j = k
    BY <1>3, <1>4, <1>5
  <1>8. fs \cup {file} = Existing \cup {more[k] : k \in D \cup {n}}
    BY <1>3, <1>4
  <1>9. FilesOf(list, m, fs \cup {file}, more)
    BY <1>1, <1>6, <1>7, <1>8 DEF FilesOf, D
  <1>10. QED
    BY <1>3, <1>9 DEF D, OneMoreFile

\* No token before the current one is damaged, and now this one is.
OneLoss(n) ==
  /\ Losses(n + 1, TRUE, {n}, {}) /\ Losses(n + 1, TRUE, {}, {n})
  /\ Losses(n + 2, TRUE, {}, {n})

\* The token at n is the one.
LEMMA FirstLoss ==
  ASSUME NEW n \in Nat \ {0}
  PROVE  OneLoss(n)
  <1>1. n \in 1..(n+1)-1 /\ n \in 1..(n+2)-1
    OBVIOUS
  <1>2. /\ AtMostOne({n}, n + 1) /\ AtMostOne({}, n + 1)
        /\ AtMostOne({n}, n + 2) /\ AtMostOne({}, n + 2)
    BY <1>1 DEF AtMostOne
  <1>3. QED
    BY <1>2 DEF Losses, OneLoss

\* The token at n is not among the damaged ones before it.
LEMMA LossesGrow ==
  ASSUME NEW n \in Nat \ {0}, NEW lost, NEW gone, NEW null, Losses(n, lost, gone, null)
  PROVE  /\ Losses(n + 1, lost, gone, null) /\ Losses(n + 2, lost, gone, null)
         /\ n \notin gone /\ n \notin null
  <1>1. \A k \in 1..n-1 : k \in 1..(n+1)-1 /\ k \in 1..(n+2)-1 /\ k # n
    OBVIOUS
  <1>2. /\ AtMostOne(gone, n + 1) /\ AtMostOne(null, n + 1) /\ n \notin gone /\ n \notin null
        /\ AtMostOne(gone, n + 2) /\ AtMostOne(null, n + 2)
    BY <1>1 DEF Losses, AtMostOne
  <1>3. Losses(n + 1, lost, gone, null) /\ Losses(n + 2, lost, gone, null)
    BY <1>2 DEF Losses
  <1>4. QED
    BY <1>2, <1>3

\* Behind the current token, or behind its operand.
Advances ==
  \/ line[at].type \notin Redirection /\ at' = at + 1
  \/ /\ line[at].type \in Redirection /\ at' = at + 2 /\ at < Len(line)
     /\ line[at].type = "HEREDOC" => line[at+1].type = "DELIMITER"
     /\ line[at+1].type \in {"FILENAME", "DELIMITER"}

\* What c makes of the command list is the pipeline up to the next token.
LEMMA AdditionJoins ==
  ASSUME IInv, Parsing, at \in 1..Len(line), line[at].type # "PIPE",
         NEW fileOf, NEW gone, NEW null, NEW fileOf2, NEW gone2, NEW null2, NEW c,
         commands = Pipeline(line, Top, at, status, fileOf, gone, null),
         Agree(line, at, fileOf, gone, null, fileOf2, gone2, null2),
         Adds(c, fileOf2, gone2, null2), NEW t, Replaced(t, Opened, Open, c)
  PROVE  /\ IsList(line) /\ Len(line) \in Nat /\ at \in Nat
         /\ Open = Stage(line, at) /\ Stage(line, at) \in Nat \ {0}
         /\ Stage(line, at + 1) = Stage(line, at)
         /\ t = Pipeline(line, Stage(line, at + 1), at + 1, status, fileOf2, gone2, null2)
  <1>1. IsList(line) /\ Len(line) \in Nat /\ at \in Nat
    BY LineIsList, OnTheList DEF IInv
  <1>2. /\ Opened = Pipeline(line, Stage(line, at), at, status, fileOf, gone, null)
        /\ Open = Stage(line, at) /\ Stage(line, at) \in Nat \ {0}
    BY OpenedIs
  <1>3. Opened = Pipeline(line, Stage(line, at), at, status, fileOf2, gone2, null2)
    BY <1>1, <1>2, PipelinesOfThePast
  <1>4. Stage(line, at + 1) = Stage(line, at)
    BY <1>2, <1>3, TokenJoins
  <1>5. t = Pipeline(line, Stage(line, at + 1), at + 1, status, fileOf2, gone2, null2)
    BY <1>2, <1>3, TokenJoins
  <1>6. QED
    BY <1>1, <1>2, <1>4, <1>5

\* A token that adds to a command keeps the commands what the line stands for.
LEMMA AdditionBuilds ==
  ASSUME IInv, Parsing, Building, at \in 1..Len(line), line[at].type # "PIPE",
         UNCHANGED <<line, pc, status, tokens>>,
         NEW fileOf, NEW gone, NEW null, NEW fileOf2, NEW gone2, NEW null2, NEW c,
         commands = Pipeline(line, Top, at, status, fileOf, gone, null),
         Agree(line, at, fileOf, gone, null, fileOf2, gone2, null2),
         Adds(c, fileOf2, gone2, null2), Advances,
         Replaced(commands', Opened, Open, c), current' = Open,
         FilesOf(line, at', files', fileOf2), Losses(at', failed', gone2, null2)
  PROVE  Building'
  <1>1. IsList(line) /\ Len(line) \in Nat /\ at \in Nat
    BY AdditionJoins
  <1>2. Open = Stage(line, at) /\ Stage(line, at) \in Nat \ {0}
    BY AdditionJoins
  <1>4. /\ Stage(line, at + 1) = Stage(line, at)
        /\ commands' = Pipeline(line, Stage(line, at + 1), at + 1, status, fileOf2, gone2, null2)
    BY AdditionJoins
  <1>5. current' = Stage(line, at) /\ current' # 0
    BY <1>2
  <1>6. Stage(line, at') = Stage(line, at)
        /\ commands' = Pipeline(line, Stage(line, at'), at', status, fileOf2, gone2, null2)
    <2>1. CASE at' = at + 1
      BY <1>4, <2>1
    <2>2. CASE at' = at + 2 /\ at < Len(line) /\ line[at+1].type \in {"FILENAME", "DELIMITER"}
      <3> DEFINE n == at + 1
      <3>1. n \in 1..Len(line) /\ n + 1 = at + 2 /\ line[n].type \in {"FILENAME", "DELIMITER"}
        BY <1>1, <2>2
      <3> HIDE DEF n
      <3>2. /\ Stage(line, n + 1) = Stage(line, n)
            /\ Pipeline(line, Stage(line, n), n + 1, status, fileOf2, gone2, null2)
                 = Pipeline(line, Stage(line, n), n, status, fileOf2, gone2, null2)
        BY <1>1, <3>1, PipelineSkips
      <3>3. /\ Stage(line, n) = Stage(line, at)
            /\ commands' = Pipeline(line, Stage(line, n), n, status, fileOf2, gone2, null2)
        BY <1>4 DEF n
      <3>4. at' = n + 1
        BY <2>2, <3>1
      <3>5. QED
        BY <3>2, <3>3, <3>4
    <2>3. QED
      BY <2>1, <2>2 DEF Advances
  <1>7. Top' = Stage(line, at')
    BY <1>5, <1>6 DEF Top
  <1>8. /\ AllFilled(line)
        /\ \A k \in Documents(line, at) : k < Len(line) /\ line[k+1].type = "DELIMITER"
        /\ \A k \in 1..Len(line) : tokens[k].value = line[k].value
    BY DEF Building
  <1>9. \A k \in Documents(line, at') : k < Len(line) /\ line[k+1].type = "DELIMITER"
    <2> SUFFICES ASSUME NEW k \in Documents(line, at')
                 PROVE  k < Len(line) /\ line[k+1].type = "DELIMITER"
      OBVIOUS
    <2>1. k \in 1..Len(line) /\ k < at' /\ line[k].type = "HEREDOC"
      BY DEF Documents
    <2>2. CASE k < at
      BY <1>8, <2>1, <2>2 DEF Documents
    <2>3. CASE k = at
      BY <2>1, <2>3 DEF Advances, Redirection
    <2>4. CASE k > at
      <3>1. at' = at + 2 /\ k = at + 1 /\ line[at+1].type \in {"FILENAME", "DELIMITER"}
        BY <1>1, <2>1, <2>4 DEF Advances
      <3>2. QED
        BY <2>1, <3>1
    <2>5. QED
      BY <1>1, <2>1, <2>2, <2>3, <2>4
  <1>10. line[at'-1].type # "PIPE"
    <2>1. CASE at' = at + 1
      <3>1. at' - 1 = at
        BY <1>1, <2>1
      <3>2. QED
        BY <3>1
    <2>2. CASE at' = at + 2 /\ line[at+1].type \in {"FILENAME", "DELIMITER"}
      <3>1. at' - 1 = at + 1
        BY <1>1, <2>2
      <3>2. QED
        BY <2>2, <3>1
    <2>3. QED
      BY <2>1, <2>2 DEF Advances
  <1>11. Witnesses(fileOf2, gone2, null2)'
    BY <1>6, <1>7 DEF Witnesses
  <1>12. ReadsOn'
    BY <1>8, <1>9, <1>10 DEF ReadsOn
  <1>13. QED
    BY <1>8, <1>11, <1>12 DEF Building, Witnesses, ReadsOn

\* The operand behind a redirection, when the loop takes it.
LEMMA OperandTaken ==
  ASSUME IInv, pc = "parse", at <= Len(tokens), tokens[at].type \in Redirection,
         Operand \in {"FILENAME", "DELIMITER"}, at' = at + 2
  PROVE  /\ Advances /\ line[at].type = tokens[at].type /\ at \in 1..Len(line)
         /\ at + 1 \in 1..Len(line) /\ Parsing /\ line[at].type # "PIPE"
         /\ line[at+1].type \in {"FILENAME", "DELIMITER"}
  <1>1. /\ Parsing /\ at \in 1..Len(line) /\ line[at].type = tokens[at].type
        /\ Len(tokens) = Len(line) /\ Len(line) \in Nat
    BY InTheLoop, OnTheList DEF IInv
  <1>2. /\ Operand = line[at+1].type
        /\ tokens[at].type = "HEREDOC" => Operand \in {"DELIMITER", "HEREDOC"}
    BY OperandBehind
  <1>3. at < Len(line)
    BY <1>1 DEF Operand
  <1>4. at + 1 \in 1..Len(line)
    BY <1>1, <1>3
  <1>5. line[at].type # "PIPE"
    BY <1>1 DEF Redirection, FileRedirection
  <1>6. Advances
    BY <1>1, <1>2, <1>3 DEF Advances
  <1>7. QED
    BY <1>1, <1>2, <1>4, <1>5, <1>6

\* The choices stay where nothing is opened and nothing lost.
LEMMA WitnessesAgree ==
  ASSUME NEW list, NEW n, NEW fileOf, NEW gone, NEW null
  PROVE  Agree(list, n, fileOf, gone, null, fileOf, gone, null)
  BY DEF Agree

\* A word, or "$?", whose copies all succeed.
LEMMA ArgumentBuilds ==
  ASSUME IInv, Building, pc = "parse", at <= Len(tokens), tokens[at].type \in Argued,
         NEW arg, tokens[at].type \in Word => arg = tokens[at].value,
         tokens[at].type = "EXIT_STATUS" => arg = status,
         UNCHANGED <<line, pc, status, tokens, files, failed>>,
         Replaced(commands', Opened, Open, add_argument(Opened[Open], arg)), current' = Open,
         at' = at + 1
  PROVE  Building'
  <1>1. /\ line[at].type \in Argued
        /\ \A null : at \notin null => Arg(line, at, status, null) = ft_strtrim(arg)
    BY ArgumentToken DEF Argued
  <1>2. /\ Parsing /\ at \in 1..Len(line) /\ at \in Nat \ {0} /\ at + 1 \in Nat /\ at < at + 1
        /\ line[at].type \notin Redirection \cup {"PIPE", "HEREDOC"}
    <2>1. Parsing /\ at \in 1..Len(line)
      BY InTheLoop
    <2>2. line[at].type \notin Redirection \cup {"PIPE", "HEREDOC"}
      BY <1>1 DEF Argued, Word, Redirection, FileRedirection
    <2>3. QED
      BY <2>1, <2>2
  <1>3. PICK fileOf, gone, null : Witnesses(fileOf, gone, null)
    BY DEF Building, Witnesses
  <1>4. at \notin gone /\ at \notin null /\ Losses(at + 1, failed, gone, null)
    <2>1. Losses(at, failed, gone, null)
      BY <1>3 DEF Witnesses
    <2>2. QED
      BY <1>2, <2>1, LossesGrow
  <1> DEFINE c == add_argument(Opened[Open], arg)
  <1>5. WithArgument(c, Opened[Open], ft_strtrim(arg))
    <2>1. IsCommand(Opened[Open]) /\ Opened[Open].pipe_next = FALSE
      BY OpenCommand, OpenedCommands DEF IInv, TypeOK
    <2>2. QED
      BY <2>1, CommandAdditions
  <1>6. Replaced(commands', Opened, Open, c)
    OBVIOUS
  <1> HIDE DEF c
  <1>7. Adds(c, fileOf, gone, null)
    BY <1>1, <1>4, <1>5 DEF Adds
  <1>8. FilesOf(line, at + 1, files, fileOf)
    <2>1. \A k \in 1..Len(line) : at <= k /\ k < at + 1 => k = at
      BY <1>2
    <2>2. Documents(line, at + 1) = Documents(line, at)
      BY <1>2, <2>1, SameDocuments
    <2>3. QED
      BY <1>3, <2>2 DEF Witnesses, FilesOf
  <1>9. Agree(line, at, fileOf, gone, null, fileOf, gone, null)
    BY WitnessesAgree
  <1>10. Advances
    BY <1>2 DEF Advances
  <1>11. QED
    BY <1>2, <1>3, <1>4, <1>6, <1>7, <1>8, <1>9, <1>10, AdditionBuilds DEF Witnesses

\* parse_word is such a step, with the token's text.
LEMMA ParseWordBuilds ==
  ASSUME IInv, Building, parse_word
  PROVE  Building'
  <1>1. /\ pc = "parse" /\ at <= Len(tokens) /\ tokens[at].type \in Argued
        /\ tokens[at].type \in Word
        /\ UNCHANGED <<line, pc, status, tokens, files, failed>>
        /\ current' = Open /\ at' = at + 1
    BY DEF parse_word, At, Argued, result
  <1>2. Replaced(commands', Opened, Open, add_argument(Opened[Open], tokens[at].value))
    BY DEF parse_word, Replaced
  <1>3. tokens[at].type # "EXIT_STATUS"
    BY <1>1 DEF Word
  <1>4. QED
    BY <1>1, <1>2, <1>3, ArgumentBuilds

\* parse_other is one with the status: no operand is left to pass over.
LEMMA ParseOtherBuilds ==
  ASSUME IInv, Building, parse_other
  PROVE  Building'
  <1>1. /\ pc = "parse" /\ at <= Len(tokens)
        /\ tokens[at].type \in {"EXIT_STATUS", "FILENAME", "DELIMITER"}
        /\ UNCHANGED <<line, pc, status, tokens, files, failed>> /\ at' = at + 1
    BY DEF parse_other, At, result
  <1>2. tokens[at].type = "EXIT_STATUS"
    BY <1>1, InTheLoop
  <1>3. current' = Open /\ Replaced(commands', Opened, Open, add_argument(Opened[Open], status))
    BY <1>2 DEF parse_other, Replaced
  <1>4. tokens[at].type \in Argued /\ tokens[at].type \notin Word
    BY <1>2 DEF Argued, Word
  <1>5. QED
    BY <1>1, <1>3, <1>4, ArgumentBuilds

\* The files of the documents behind a redirection and its operand.
LEMMA FilesStay ==
  ASSUME NEW list, NEW n \in 1..Len(list), Len(list) \in Nat, list[n].type \in FileRedirection,
         n < Len(list), list[n+1].type = "FILENAME",
         NEW fs, NEW fileOf, FilesOf(list, n, fs, fileOf)
  PROVE  FilesOf(list, n + 2, fs, fileOf)
  <1>1. \A k \in 1..Len(list) : n <= k /\ k < n + 2 => k = n \/ k = n + 1
    OBVIOUS
  <1>2. list[n].type # "HEREDOC" /\ list[n+1].type # "HEREDOC"
    BY DEF FileRedirection
  <1> DEFINE m == n + 2
  <1>3. n \in Nat /\ m \in Nat /\ n <= m
    OBVIOUS
  <1>4. \A k \in 1..Len(list) : n <= k /\ k < m => list[k].type # "HEREDOC"
    BY <1>1, <1>2
  <1> HIDE DEF m
  <1>5. Documents(list, m) = Documents(list, n)
    BY <1>3, <1>4, SameDocuments
  <1>6. QED
    BY <1>5 DEF FilesOf, m

\* A here-document adds a file.
LEMMA FilesMore ==
  ASSUME NEW list, NEW n \in 1..Len(list), Len(list) \in Nat, list[n].type = "HEREDOC",
         n < Len(list), list[n+1].type = "DELIMITER",
         NEW fs, NEW fileOf, FilesOf(list, n, fs, fileOf), NEW file \in TempName \ fs
  PROVE  OneMoreFile(list, n, n + 2, fs, file, fileOf)
  <1>1. \A k \in 1..Len(list) : n < k /\ k < n + 2 => k = n + 1
    OBVIOUS
  <1> DEFINE m == n + 2
  <1>2. n \in Nat /\ m \in Nat /\ n < m
    OBVIOUS
  <1>3. \A k \in 1..Len(list) : n < k /\ k < m => list[k].type # "HEREDOC"
    BY <1>1
  <1> HIDE DEF m
  <1>4. OneMoreFile(list, n, m, fs, file, fileOf)
    BY <1>2, <1>3, OneMoreDocument
  <1>5. QED
    BY <1>4 DEF m

\* A redirection and its operand, whatever the choices it is described with.
LEMMA TargetBuilds ==
  ASSUME IInv, Building, pc = "parse", at <= Len(tokens), tokens[at].type \in Redirection,
         Operand \in {"FILENAME", "DELIMITER"}, UNCHANGED <<line, pc, status, tokens>>,
         NEW fileOf, NEW gone, NEW null, Witnesses(fileOf, gone, null),
         NEW fileOf2, NEW gone2, NEW null2,
         Agree(line, at, fileOf, gone, null, fileOf2, gone2, null2),
         FilesOf(line, at', files', fileOf2), Losses(at', failed', gone2, null2),
         NEW filename,
         Targ(line, at, fileOf2, null2) = [type |-> tokens[at].type, filename |-> filename],
         Replaced(commands', Opened, Open,
                  add_redirection(Opened[Open], tokens[at].type, filename)),
         current' = Open, at' = at + 2
  PROVE  Building'
  <1>1. /\ Advances /\ at \in 1..Len(line) /\ Parsing /\ line[at].type # "PIPE"
        /\ line[at].type \in Redirection
    BY OperandTaken
  <1> DEFINE c == add_redirection(Opened[Open], tokens[at].type, filename)
  <1>2. WithRedirection(c, Opened[Open], [type |-> tokens[at].type, filename |-> filename])
    <2>1. IsCommand(Opened[Open]) /\ Opened[Open].pipe_next = FALSE
      BY OpenCommand, OpenedCommands DEF IInv, TypeOK
    <2>2. QED
      BY <2>1, CommandAdditions
  <1>3. Replaced(commands', Opened, Open, c)
    OBVIOUS
  <1> HIDE DEF c
  <1>4. WithRedirection(c, Opened[Open], Targ(line, at, fileOf2, null2))
    BY <1>2
  <1>5. Adds(c, fileOf2, gone2, null2)
    BY <1>1, <1>4 DEF Adds
  <1>6. commands = Pipeline(line, Top, at, status, fileOf, gone, null)
    BY DEF Witnesses
  <1>7. QED
    BY <1>1, <1>3, <1>5, <1>6, AdditionBuilds

\* A redirection whose operand the loop takes: the choices can only differ from here on.
LEMMA TargetIs ==
  ASSUME IInv, pc = "parse", at <= Len(tokens), tokens[at].type \in Redirection,
         NEW fileOf, NEW null
  PROVE  /\ line[at].type = tokens[at].type
         /\ at \in null =>
              Targ(line, at, fileOf, null) = [type |-> tokens[at].type, filename |-> NULL]
         /\ at \notin null /\ tokens[at].type = "HEREDOC" =>
              Targ(line, at, fileOf, null) = [type |-> tokens[at].type, filename |-> fileOf[at]]
         /\ at \notin null /\ tokens[at].type # "HEREDOC" =>
              Targ(line, at, fileOf, null)
                = [type |-> tokens[at].type, filename |-> line[at+1].value]
  <1>1. line[at].type = tokens[at].type
    BY InTheLoop
  <1>2. QED
    BY <1>1 DEF Targ

\* Where the operand is, when the loop takes it.
LEMMA OperandPlaces ==
  ASSUME IInv, Building, pc = "parse", at <= Len(tokens), tokens[at].type \in Redirection,
         Operand \in {"FILENAME", "DELIMITER"}
  PROVE  /\ at \in 1..Len(line) /\ Len(line) \in Nat /\ at \in Nat \ {0} /\ at < Len(line)
         /\ line[at].type = tokens[at].type /\ tokens[at+1].value = line[at+1].value
         /\ tokens[at].type \in FileRedirection => line[at+1].type = "FILENAME"
         /\ tokens[at].type = "HEREDOC" => line[at+1].type = "DELIMITER"
  <1>1. /\ at \in 1..Len(line) /\ line[at].type = tokens[at].type
        /\ Len(tokens) = Len(line) /\ Len(line) \in Nat
    BY InTheLoop, OnTheList DEF IInv
  <1>2. /\ Operand = line[at+1].type
        /\ tokens[at].type \in FileRedirection => Operand = "FILENAME"
        /\ tokens[at].type = "HEREDOC" => Operand \in {"DELIMITER", "HEREDOC"}
    BY OperandBehind
  <1>3. at < Len(line)
    BY <1>1 DEF Operand
  <1>4. at + 1 \in 1..Len(line)
    BY <1>1, <1>3
  <1>5. tokens[at+1].value = line[at+1].value
    BY <1>4 DEF Building
  <1>6. QED
    BY <1>1, <1>2, <1>3, <1>5

\* validate_syntax() has seen the file name, so that the loop never gives up here.
LEMMA ParseRedirectionBuilds ==
  ASSUME IInv, Building, parse_redirection
  PROVE  Building'
  <1>1. /\ pc = "parse" /\ at <= Len(tokens) /\ tokens[at].type \in FileRedirection
        /\ tokens[at].type \in Redirection /\ tokens[at].type # "HEREDOC"
    BY DEF parse_redirection, At, Redirection, FileRedirection
  <1>2. Operand = "FILENAME"
    BY <1>1, OperandBehind
  <1>3. /\ UNCHANGED <<line, pc, status, tokens, files, failed>>
        /\ current' = Open /\ at' = at + 2
        /\ Replaced(commands', Opened, Open,
                    add_redirection(Opened[Open], tokens[at].type, tokens[at+1].value))
    BY <1>2 DEF parse_redirection, Replaced
  <1>4. PICK fileOf, gone, null : Witnesses(fileOf, gone, null)
    BY DEF Building, Witnesses
  <1>5. /\ at \in 1..Len(line) /\ Len(line) \in Nat /\ at \in Nat \ {0} /\ at < Len(line)
        /\ line[at].type = tokens[at].type /\ tokens[at+1].value = line[at+1].value
        /\ line[at+1].type = "FILENAME"
    BY <1>1, <1>2, OperandPlaces
  <1>6. Losses(at, failed, gone, null) /\ FilesOf(line, at, files, fileOf)
    BY <1>4 DEF Witnesses
  <1>7. Losses(at + 2, failed, gone, null) /\ at \notin null
    BY <1>5, <1>6, LossesGrow
  <1>8. FilesOf(line, at + 2, files, fileOf)
    BY <1>1, <1>5, <1>6, FilesStay
  <1>9. FilesOf(line, at', files', fileOf) /\ Losses(at', failed', gone, null)
    BY <1>3, <1>7, <1>8
  <1>10. Targ(line, at, fileOf, null)
           = [type |-> tokens[at].type, filename |-> tokens[at+1].value]
    BY <1>1, <1>5, <1>7, TargetIs
  <1>11. Agree(line, at, fileOf, gone, null, fileOf, gone, null)
    BY WitnessesAgree
  <1> HIDE DEF Witnesses
  <1>12. QED
    BY <1>1, <1>2, <1>3, <1>4, <1>9, <1>10, <1>11, TargetBuilds

\* A here-document's file, for this call's choices and for those of a lost name.
LEMMA DocumentChosen ==
  ASSUME IInv, Building, pc = "parse", at <= Len(tokens), tokens[at].type = "HEREDOC",
         Operand = "DELIMITER", NEW file \in TempName \ files,
         NEW fileOf, NEW gone, NEW null, FilesOf(line, at, files, fileOf)
  PROVE  \E more : /\ FilesOf(line, at + 2, files \cup {file}, more)
                   /\ more[at] = file
                   /\ Agree(line, at, fileOf, gone, null, more, gone, null)
  <1>1. /\ at \in 1..Len(line) /\ Len(line) \in Nat /\ at \in Nat \ {0} /\ at < Len(line)
        /\ line[at].type = "HEREDOC" /\ line[at+1].type = "DELIMITER"
    BY OperandPlaces DEF Redirection
  <1>2. OneMoreFile(line, at, at + 2, files, file, fileOf)
    BY <1>1, FilesMore
  <1>3. PICK more : /\ FilesOf(line, at + 2, files \cup {file}, more)
                    /\ more[at] = file
                    /\ \A k \in Documents(line, at) : more[k] = fileOf[k]
    BY <1>2 DEF OneMoreFile
  <1>4. Agree(line, at, fileOf, gone, null, more, gone, null)
    BY <1>3 DEF Agree, Documents
  <1>5. QED
    BY <1>3, <1>4

\* A here-document adds a file and a redirection to it.
LEMMA ParseHeredocBuilds ==
  ASSUME IInv, Building, parse_heredoc, pc' = "parse"
  PROVE  Building'
  <1>1. /\ pc = "parse" /\ at <= Len(tokens) /\ tokens[at].type = "HEREDOC"
        /\ tokens[at].type \in Redirection
    BY DEF parse_heredoc, At, Redirection
  <1>2. Operand = "DELIMITER"
    BY DEF parse_heredoc
  <1>3. PICK file \in TempName \ files :
          /\ files' = files \cup {file}
          /\ commands' = [Opened EXCEPT ![Open] = add_redirection(@, "HEREDOC", file)]
    BY <1>2 DEF parse_heredoc
  <1>4. /\ UNCHANGED <<line, pc, status, tokens, failed>>
        /\ current' = Open /\ at' = at + 2
    BY <1>2 DEF parse_heredoc
  <1>5. Replaced(commands', Opened, Open,
                 add_redirection(Opened[Open], tokens[at].type, file))
    BY <1>1, <1>3 DEF Replaced
  <1>6. PICK fileOf, gone, null : Witnesses(fileOf, gone, null)
    BY DEF Building, Witnesses
  <1>7. Losses(at, failed, gone, null) /\ FilesOf(line, at, files, fileOf)
    BY <1>6 DEF Witnesses
  <1>8. PICK more : /\ FilesOf(line, at + 2, files \cup {file}, more)
                    /\ more[at] = file
                    /\ Agree(line, at, fileOf, gone, null, more, gone, null)
    BY <1>1, <1>2, <1>7, DocumentChosen
  <1>9. at \in Nat \ {0}
    BY <1>1, <1>2, OperandPlaces
  <1>10. Losses(at + 2, failed, gone, null) /\ at \notin null
    BY <1>7, <1>9, LossesGrow
  <1>11. FilesOf(line, at', files', more) /\ Losses(at', failed', gone, null)
    BY <1>3, <1>4, <1>8, <1>10
  <1>12. Targ(line, at, more, null) = [type |-> tokens[at].type, filename |-> file]
    BY <1>1, <1>8, <1>10, TargetIs
  <1>13. QED
    BY <1>1, <1>2, <1>4, <1>5, <1>6, <1>8, <1>11, <1>12, TargetBuilds

\* The choices of a line that has lost one copy, at the current token.
LEMMA LossesAgree ==
  ASSUME NEW list, NEW n, NEW fileOf, NEW fileOf2, NEW gone2, NEW null2,
         gone2 \subseteq {n}, null2 \subseteq {n}, n \in Nat,
         Agree(list, n, fileOf, {}, {}, fileOf2, {}, {})
  PROVE  Agree(list, n, fileOf, {}, {}, fileOf2, gone2, null2)
  <1>1. ~(n < n)
    OBVIOUS
  <1>2. QED
    BY <1>1 DEF Agree

\* The copy of the file name fails: the redirection's target is NULL.
LEMMA FilenameLostBuilds ==
  ASSUME IInv, Building, filename_lost
  PROVE  Building'
  <1>1. /\ pc = "parse" /\ at <= Len(tokens) /\ tokens[at].type \in Redirection
        /\ ~failed /\ failed' = TRUE
        /\ Operand = IF tokens[at].type = "HEREDOC" THEN "DELIMITER" ELSE "FILENAME"
        /\ UNCHANGED <<line, pc, status, tokens>> /\ current' = Open /\ at' = at + 2
    BY DEF filename_lost, At
  <1>2. Operand \in {"FILENAME", "DELIMITER"}
    BY <1>1
  <1>3. Replaced(commands', Opened, Open, add_redirection(Opened[Open], tokens[at].type, NULL))
    BY DEF filename_lost, Replaced
  <1>4. PICK fileOf, gone, null : Witnesses(fileOf, gone, null)
    BY DEF Building, Witnesses
  <1>5. Losses(at, failed, gone, null) /\ FilesOf(line, at, files, fileOf)
    BY <1>4 DEF Witnesses
  <1>6. /\ at \in 1..Len(line) /\ Len(line) \in Nat /\ at \in Nat \ {0} /\ at < Len(line)
        /\ line[at].type = tokens[at].type
        /\ tokens[at].type \in FileRedirection => line[at+1].type = "FILENAME"
        /\ tokens[at].type = "HEREDOC" => line[at+1].type = "DELIMITER"
    BY <1>1, <1>2, OperandPlaces
  <1>7. /\ gone = {} /\ null = {} /\ Losses(at + 2, TRUE, {}, {at})
    <2>1. gone = {} /\ null = {}
      BY <1>1, <1>5 DEF Losses
    <2>2. OneLoss(at)
      BY <1>6, FirstLoss
    <2>3. QED
      BY <2>1, <2>2 DEF OneLoss
  <1>8. \E more : /\ FilesOf(line, at + 2, files', more)
                  /\ Agree(line, at, fileOf, {}, {}, more, {}, {})
    <2>1. CASE tokens[at].type = "HEREDOC"
      <3>1. PICK file \in TempName \ files : files' = files \cup {file}
        BY <2>1 DEF filename_lost
      <3>2. Operand = "DELIMITER"
        BY <1>1, <2>1
      <3>3. \E more : /\ FilesOf(line, at + 2, files \cup {file}, more)
                      /\ more[at] = file
                      /\ Agree(line, at, fileOf, {}, {}, more, {}, {})
        BY <1>1, <1>5, <2>1, <3>2, DocumentChosen
      <3>4. QED
        BY <3>1, <3>3
    <2>2. CASE tokens[at].type # "HEREDOC"
      <3>1. files' = files /\ tokens[at].type \in FileRedirection
        BY <1>1, <2>2 DEF filename_lost, Redirection
      <3>2. FilesOf(line, at + 2, files, fileOf)
        BY <1>5, <1>6, <3>1, FilesStay
      <3>3. Agree(line, at, fileOf, {}, {}, fileOf, {}, {})
        BY WitnessesAgree
      <3>4. QED
        BY <3>1, <3>2, <3>3
    <2>3. QED
      BY <2>1, <2>2
  <1>9. PICK more : /\ FilesOf(line, at + 2, files', more)
                    /\ Agree(line, at, fileOf, {}, {}, more, {}, {})
    BY <1>8
  <1>10. Agree(line, at, fileOf, {}, {}, more, {}, {at})
    BY <1>6, <1>9, LossesAgree
  <1>11. Agree(line, at, fileOf, gone, null, more, {}, {at})
    BY <1>7, <1>10
  <1>12. FilesOf(line, at', files', more) /\ Losses(at', failed', {}, {at})
    BY <1>1, <1>7, <1>9
  <1>13. Targ(line, at, more, {at}) = [type |-> tokens[at].type, filename |-> NULL]
    BY <1>1, TargetIs
  <1>14. QED
    BY <1>1, <1>2, <1>3, <1>4, <1>11, <1>12, <1>13, TargetBuilds

\* A copy of the argument fails: it is dropped, or NULL.
LEMMA ArgumentLostBuilds ==
  ASSUME IInv, Building, argument_lost
  PROVE  Building'
  <1>1. /\ pc = "parse" /\ at <= Len(tokens) /\ tokens[at].type \in Argued
        /\ ~failed /\ failed' = TRUE
        /\ UNCHANGED <<line, pc, status, tokens, files>> /\ current' = Open /\ at' = at + 1
    BY DEF argument_lost, At, Argued
  <1>2. line[at].type \in Argued
    BY <1>1, ArgumentToken
  <1>3. /\ Parsing /\ at \in 1..Len(line) /\ at \in Nat \ {0} /\ at + 1 \in Nat
        /\ line[at].type \notin Redirection \cup {"PIPE", "HEREDOC"}
    <2>1. Parsing /\ at \in 1..Len(line)
      BY <1>1, InTheLoop
    <2>2. line[at].type \notin Redirection \cup {"PIPE", "HEREDOC"}
      BY <1>2 DEF Argued, Word, Redirection, FileRedirection
    <2>3. QED
      BY <2>1, <2>2
  <1>4. PICK fileOf, gone, null : Witnesses(fileOf, gone, null)
    BY DEF Building, Witnesses
  <1>5. /\ Losses(at, failed, gone, null) /\ FilesOf(line, at, files, fileOf)
        /\ commands = Pipeline(line, Top, at, status, fileOf, gone, null)
    BY <1>4 DEF Witnesses
  <1>6. gone = {} /\ null = {} /\ OneLoss(at)
    BY <1>1, <1>3, <1>5, FirstLoss DEF Losses
  <1>7. \A gone2, null2 : gone2 \subseteq {at} /\ null2 \subseteq {at}
                            => Agree(line, at, fileOf, gone, null, fileOf, gone2, null2)
    BY <1>3, <1>6, WitnessesAgree, LossesAgree
  <1>8. FilesOf(line, at', files', fileOf)
    <2>1. \A k \in 1..Len(line) : at <= k /\ k < at + 1 => k = at
      BY <1>3
    <2>2. Documents(line, at + 1) = Documents(line, at)
      BY <1>3, <2>1, SameDocuments
    <2>3. QED
      BY <1>1, <1>5, <2>2 DEF FilesOf
  <1>9. Advances
    BY <1>1, <1>3 DEF Advances
  <1>10. IsCommand(Opened[Open]) /\ Opened[Open].pipe_next = FALSE
    BY OpenCommand, OpenedCommands DEF IInv, TypeOK
  <1>11. \/ commands' = [Opened EXCEPT ![Open].args = @ \o <<>>]
         \/ commands' = [Opened EXCEPT ![Open].args = @ \o <<NULL>>]
    BY DEF argument_lost, LostArgument
  <1>12. CASE commands' = [Opened EXCEPT ![Open].args = @ \o <<>>]
    <2>1. Replaced(commands', Opened, Open, Opened[Open])
      <3>1. [Opened[Open] EXCEPT !.args = @ \o <<>>] = Opened[Open]
        BY <1>10, CommandAdditions
      <3>2. commands' = [Opened EXCEPT ![Open] = [Opened[Open] EXCEPT !.args = @ \o <<>>]]
        BY <1>12
      <3>3. QED
        BY <3>1, <3>2 DEF Replaced
    <2>2. Adds(Opened[Open], fileOf, {at}, {})
      BY <1>2 DEF Adds
    <2>3. Losses(at', failed', {at}, {})
      BY <1>1, <1>6 DEF OneLoss
    <2>4. Agree(line, at, fileOf, gone, null, fileOf, {at}, {})
      BY <1>7
    <2>5. QED
      BY <1>1, <1>3, <1>5, <1>8, <1>9, <2>1, <2>2, <2>3, <2>4, AdditionBuilds
  <1>13. CASE commands' = [Opened EXCEPT ![Open].args = @ \o <<NULL>>]
    <2> DEFINE c == [Opened[Open] EXCEPT !.args = @ \o <<NULL>>]
    <2>1. Replaced(commands', Opened, Open, c)
      BY <1>13 DEF Replaced
    <2>2. WithArgument(c, Opened[Open], NULL)
      BY <1>10, CommandAdditions
    <2> HIDE DEF c
    <2>3. Arg(line, at, status, {at}) = NULL
      BY DEF Arg
    <2>4. Adds(c, fileOf, {}, {at})
      BY <1>2, <2>2, <2>3 DEF Adds
    <2>5. Losses(at', failed', {}, {at})
      BY <1>1, <1>6 DEF OneLoss
    <2>6. Agree(line, at, fileOf, gone, null, fileOf, {}, {at})
      BY <1>7
    <2>7. QED
      BY <1>1, <1>3, <1>5, <1>8, <1>9, <2>1, <2>4, <2>5, <2>6, AdditionBuilds
  <1>14. QED
    BY <1>11, <1>12, <1>13

\* The token behind the pipe at position n becomes a command, its text stays.
LEMMA BehindPipe ==
  ASSUME IInv, Edited, ReadsOn, at \in 1..Len(line), line[at].type = "PIPE",
         line' = line, at' = at + 1,
         tokens' = IF Operand \in Redirection \cup {"none"} THEN tokens
                   ELSE [tokens EXCEPT ![at+1] = Retyped(@, "COMMANDE")]
  PROVE  ReadsOn'
  <1>1. /\ at \in Nat /\ Len(line) \in Nat /\ Len(tokens) = Len(line)
        /\ DOMAIN tokens = 1..Len(line)
        /\ IsTokenList(tokens) /\ \A k \in 1..Len(line) : tokens[k].type \in TokenType
    BY OnTheList DEF IInv, TypeOK
  <1>2. \A k \in Documents(line, at') : k < Len(line) /\ line[k+1].type = "DELIMITER"
    <2> SUFFICES ASSUME NEW k \in Documents(line, at')
                 PROVE  k < Len(line) /\ line[k+1].type = "DELIMITER"
      OBVIOUS
    <2>1. k \in 1..Len(line) /\ k < at + 1 /\ line[k].type = "HEREDOC"
      BY DEF Documents
    <2>2. k # at
      BY <2>1
    <2>3. k < at
      BY <1>1, <2>1, <2>2
    <2>4. QED
      BY <2>1, <2>3 DEF ReadsOn, Documents
  <1>3. /\ \A k \in 1..Len(line) : tokens'[k].value = line[k].value
        /\ at + 1 <= Len(line) /\ Operand \notin Redirection \cup {"none"}
             => tokens'[at+1].type = "COMMANDE"
    <2>1. CASE Operand \in Redirection \cup {"none"}
      BY <2>1 DEF ReadsOn
    <2>2. CASE Operand \notin Redirection \cup {"none"}
      <3> DEFINE n == at + 1
                 t == Retyped(tokens[n], "COMMANDE")
      <3>1. t.type = "COMMANDE" /\ t.value = tokens[n].value
        BY DEF Retyped, SpacedToken, new_token
      <3>2. Replaced(tokens', tokens, n, t)
        BY <2>2 DEF Replaced
      <3>3. at < Len(tokens)
        BY <2>2 DEF Operand
      <3>4. n \in 1..Len(tokens)
        BY <1>1, <3>3
      <3>5. IsSequence(tokens)
        BY <1>1 DEF IsTokenList, IsSequence
      <3> HIDE DEF n, t
      <3>6. \A k \in 1..Len(tokens) : tokens'[k] = IF k = n THEN t ELSE tokens[k]
        BY <3>2, <3>4, <3>5, ReplacedSequence
      <3>7. \A k \in 1..Len(line) : tokens'[k].value = line[k].value
        BY <1>1, <3>1, <3>6 DEF ReadsOn
      <3>8. tokens'[n].type = "COMMANDE"
        BY <3>1, <3>4, <3>6
      <3>9. QED
        BY <3>7, <3>8 DEF n
    <2>3. QED
      BY <2>1, <2>2
  <1>4. ASSUME at + 1 <= Len(line), line[at+1].type \notin Redirection
        PROVE  tokens'[at+1].type = "COMMANDE"
    <2>1. at + 1 \in 1..Len(line) /\ at < Len(tokens)
      BY <1>1, <1>4
    <2>2. tokens[at+1].type \in TokenType /\ Operand = tokens[at+1].type
      BY <1>1, <2>1 DEF Operand
    <2>3. tokens[at+1].type \notin Redirection
      BY <1>4, <2>1 DEF Edited, Redirection, FileRedirection
    <2>4. Operand \notin Redirection \cup {"none"}
      BY <2>2, <2>3 DEF TokenType
    <2>5. QED
      BY <1>3, <1>4, <2>4
  <1>5. QED
    BY <1>2, <1>3, <1>4 DEF ReadsOn

\* The link to the next stage is what the pipe makes of the command it ends.
LEMMA PipeBuilds ==
  ASSUME NEW list, IsList(list), NEW n \in 1..Len(list), list[n].type = "PIPE",
         NEW text, NEW fileOf, NEW gone, NEW null, NEW old,
         old = Pipeline(list, Stage(list, n), n, text, fileOf, gone, null),
         NEW new, Replaced(new, old, Stage(list, n), Linked(old[Stage(list, n)]))
  PROVE  /\ Stage(list, n + 1) - 1 = Stage(list, n)
         /\ new = Pipeline(list, Stage(list, n), n + 1, text, fileOf, gone, null)
  <1> DEFINE s  == Stage(list, n)
             c  == Cmd(list, s, n, text, fileOf, gone, null)
             c2 == Cmd(list, s, n + 1, text, fileOf, gone, null)
  <1>1. s \in Nat \ {0} /\ Stage(list, n + 1) = s + 1
    BY StageStep, FinitePipes
  <1>2. old[s] = c
    <2>1. s \in 1..s
      BY <1>1
    <2>2. QED
      BY <2>1 DEF Pipeline
  <1>3. WithPipe(c2, c)
    BY OneMoreToken
  <1>4. c2 = Linked(c)
    <2>1. c = [args |-> c.args, redirections |-> c.redirections, pipe_next |-> c.pipe_next]
      BY DEF Cmd
    <2> HIDE DEF c, c2
    <2>2. Linked(c) = [args |-> c.args, redirections |-> c.redirections, pipe_next |-> TRUE]
      <3>1. \A b : [c EXCEPT !.pipe_next = b]
                     = [args |-> c.args, redirections |-> c.redirections, pipe_next |-> b]
        BY <2>1
      <3>2. QED
        BY <3>1, Zenon DEF Linked
    <2>3. QED
      BY <1>3, <2>2 DEF WithPipe
  <1>5. Pipeline(list, s, n + 1, text, fileOf, gone, null) = [old EXCEPT ![s] = c2]
    BY PipelineGrows
  <1> HIDE DEF s, c, c2
  <1>6. new = [old EXCEPT ![s] = c2]
    BY <1>2, <1>4 DEF Replaced, s
  <1>7. QED
    BY <1>1, <1>5, <1>6 DEF s

\* A pipe links the command to the next one and retypes the token behind it.
LEMMA ParsePipeBuilds ==
  ASSUME IInv, Building, parse_pipe, pc' = "parse"
  PROVE  Building'
  <1>1. /\ pc = "parse" /\ at <= Len(tokens) /\ tokens[at].type = "PIPE" /\ current # 0
        /\ UNCHANGED <<line, status, files, failed>>
        /\ current' = 0 /\ at' = at + 1
        /\ Replaced(commands', commands, current, Linked(commands[current]))
        /\ tokens' = IF Operand \in Redirection \cup {"none"} THEN tokens
                     ELSE [tokens EXCEPT ![at+1] = Retyped(@, "COMMANDE")]
    BY DEF parse_pipe, At, CurrentAfterPipe, Replaced, Linked
  <1>2. /\ Parsing /\ at \in 1..Len(line) /\ at \in Nat \ {0} /\ line[at].type = "PIPE"
        /\ IsList(line) /\ Edited
    <2>1. Parsing /\ at \in 1..Len(line) /\ line[at].type = "PIPE"
      BY <1>1, InTheLoop
    <2>2. IsList(line)
      BY LineIsList DEF IInv
    <2>3. QED
      BY <2>1, <2>2 DEF Parsing, Accepted
  <1>3. AllFilled(line) /\ ReadsOn
    BY BuildingIs
  <1>4. PICK fileOf, gone, null : Witnesses(fileOf, gone, null)
    BY BuildingIs
  <1>5. /\ Losses(at, failed, gone, null) /\ FilesOf(line, at, files, fileOf)
        /\ commands = Pipeline(line, Top, at, status, fileOf, gone, null)
    BY <1>4 DEF Witnesses
  <1>6. current = Stage(line, at) /\ Top = Stage(line, at)
    <2>1. Top = Stage(line, at)
      BY <1>1 DEF Top
    <2>2. Len(commands) = Top
      BY <1>2, <1>5, OpenedIs
    <2>3. QED
      BY <1>1, <2>1, <2>2 DEF IInv, TypeOK
  <1>7. /\ Stage(line, at + 1) - 1 = Stage(line, at)
        /\ commands' = Pipeline(line, Stage(line, at), at + 1, status, fileOf, gone, null)
    BY <1>1, <1>2, <1>5, <1>6, PipeBuilds
  <1>8. Top' = Stage(line, at)
    BY <1>1, <1>7 DEF Top
  <1>9. FilesOf(line, at + 1, files, fileOf)
    <2>1. \A k \in 1..Len(line) : at <= k /\ k < at + 1 => k = at
      BY <1>2
    <2>2. at + 1 \in Nat /\ at <= at + 1
      BY <1>2
    <2>3. Documents(line, at + 1) = Documents(line, at)
      BY <1>2, <2>1, <2>2, SameDocuments
    <2>4. QED
      BY <1>5, <2>3 DEF FilesOf
  <1>10. Losses(at + 1, failed, gone, null)
    BY <1>2, <1>5, LossesGrow
  <1>11. Witnesses(fileOf, gone, null)'
    BY <1>1, <1>7, <1>8, <1>9, <1>10 DEF Witnesses
  <1>12. ReadsOn'
    BY <1>1, <1>2, <1>3, BehindPipe
  <1>13. QED
    BY <1>1, <1>3, <1>11, <1>12 DEF Building, Witnesses, ReadsOn

\* Nothing is built where nothing changes.
LEMMA ParseEndBuilds ==
  ASSUME IInv, Building, UNCHANGED <<line, status, tokens, at, commands, current, files, failed>>
  PROVE  Building'
  BY DEF Building, Top

\* The loop starts with nothing built.
LEMMA ValidateEndBuilds ==
  ASSUME IInv, Counting, validate_end, pc' = "parse", files = Existing
  PROVE  Building'
  <1>1. /\ pc = "validate" /\ at' = 1
        /\ UNCHANGED <<line, status, tokens, commands, current, files, failed>>
    BY DEF validate_end, result
  <1>2. /\ tokens = line /\ commands = <<>> /\ current = 0 /\ IsList(line) /\ Len(line) \in Nat
    BY <1>1, OnTheList, LineIsList DEF IInv, Phases, Validating, Beginning
  <1>3. AllFilled(line)
    BY EndRefuses
  <1>4. Documents(line, 1) = {}
    <2>1. \A k \in 1..Len(line) : ~(k < 1)
      OBVIOUS
    <2>2. QED
      BY <2>1 DEF Documents
  <1>5. ReadsOn'
    <2>1. ~(1 > 1)
      OBVIOUS
    <2>2. QED
      BY <1>1, <1>2, <1>4, <2>1 DEF ReadsOn
  <1>6. Top' = 0
    <2>1. Stage(line, 1) = 1
      BY <1>2, FirstStage
    <2>2. QED
      BY <1>1, <1>2, <2>1 DEF Top
  <1> DEFINE fileOf == [k \in {} |-> NULL]
  <1>7. commands' = Pipeline(line, 0, 1, status, fileOf, {}, {})
    <2>1. OnRange(Pipeline(line, 0, 1, status, fileOf, {}, {}), 0)
      BY DEF OnRange, Pipeline
    <2>2. /\ IsSequence(Pipeline(line, 0, 1, status, fileOf, {}, {}))
          /\ Len(Pipeline(line, 0, 1, status, fileOf, {}, {})) = 0
      BY <2>1, OnRangeIsSequence
    <2>3. Pipeline(line, 0, 1, status, fileOf, {}, {}) = <<>>
      BY <2>2, SequenceElements
    <2>4. QED
      BY <1>1, <1>2, <2>3
  <1>8. FilesOf(line, 1, files, fileOf)
    BY <1>4 DEF FilesOf
  <1>9. Losses(1, failed, {}, {})
    BY DEF Losses, AtMostOne
  <1>10. Witnesses(fileOf, {}, {})'
    BY <1>1, <1>6, <1>7, <1>8, <1>9 DEF Witnesses
  <1>11. QED
    BY <1>1, <1>3, <1>5, <1>10 DEF Building, Witnesses, ReadsOn

-----------------------------------------------------------------------------
(* Every step keeps what has been counted and built.                        *)

\* What parse_tokens() has built so far is what the part of the line behind it stands for.
LEMMA NextAnswers ==
  ASSUME IInv, Counting, Answering, [Next]_vars
  PROVE  Answering'
  <1>1. CASE UNCHANGED vars
    <2>1. UNCHANGED <<line, pc, status, tokens, at, commands, current, files, failed>>
      BY <1>1 DEF vars, result
    <2>2. Building => Building'
      BY <2>1, ParseEndBuilds
    <2>3. QED
      BY <2>1, <2>2 DEF Answering
  <1>2. CASE Validate
    <2>1. pc \in {"start", "validate"} /\ files' = files
      BY <1>2 DEF Validate, begin, validate_word, validate_pipe, validate_redirection,
                  validate_other, validate_end, At, result
    <2>2. files = Existing
      BY <2>1 DEF Answering
    <2>3. pc' # "done" /\ (pc' = "parse" => validate_end)
      BY <1>2, <2>1 DEF Validate, begin, validate_word, validate_pipe, validate_redirection,
                        validate_other, validate_end, At
    <2>4. pc' = "parse" => Building'
      BY <2>2, <2>3, ValidateEndBuilds
    <2>5. QED
      BY <2>1, <2>2, <2>3, <2>4 DEF Answering
  <1>3. CASE Parse
    <2>1. pc = "parse" /\ pc' \in {"parse", "done", "aborted"}
      BY <1>3 DEF Parse, parse_word, parse_redirection, parse_heredoc, parse_pipe, parse_other,
                  parse_end, argument_lost, filename_lost, At
    <2>2. Building
      BY <2>1 DEF Answering
    <2>3. CASE parse_end
      <3>1. UNCHANGED <<line, status, tokens, at, commands, current, files, failed>>
        BY <2>3 DEF parse_end, result
      <3>2. QED
        BY <2>1, <2>2, <3>1, ParseEndBuilds DEF Answering
    <2>4. CASE ~parse_end
      <3>1. pc' # "done"
        BY <1>3, <2>1, <2>4 DEF Parse, parse_word, parse_redirection, parse_heredoc, parse_pipe,
                    parse_other, argument_lost, filename_lost, At
      <3>2. pc' = "parse" => Building'
        BY <1>3, <2>2, <2>4, ParseWordBuilds, ParseRedirectionBuilds, ParseHeredocBuilds,
           ParsePipeBuilds, ParseOtherBuilds, ArgumentLostBuilds, FilenameLostBuilds DEF Parse
      <3>3. QED
        BY <2>1, <3>1, <3>2 DEF Answering
    <2>5. QED
      BY <2>3, <2>4
  <1>4. QED
    BY <1>1, <1>2, <1>3 DEF Next

-----------------------------------------------------------------------------
(* The answer.                                                              *)

\* The two modules mean the same by the operators they share.
LEMMA SharedOperators ==
  /\ Abstract!Word = Word /\ Abstract!Redirection = Redirection
  /\ \A s : Abstract!ft_strtrim(s) = ft_strtrim(s)
  /\ \A S : Abstract!Cardinality(S) = Cardinality(S)
  /\ \A s : Abstract!Reverse(s) = [k \in 1..Len(s) |-> s[(Len(s) - k) + 1]]
  <1>1. Abstract!Word = Word /\ Abstract!Redirection = Redirection
    BY DEF Abstract!Word, Word, Abstract!Redirection, Redirection, Abstract!FileRedirection,
           FileRedirection
  <1>2. \A s : Abstract!ft_strtrim(s) = ft_strtrim(s)
    <2>1. \A S : Abstract!Min(S) = Min(S) /\ Abstract!Max(S) = Max(S)
      BY DEF Abstract!Min, Min, Abstract!Max, Max
    <2>2. QED
      BY <2>1 DEF Abstract!ft_strtrim, ft_strtrim, Abstract!Blank, Blank
  <1>3. \A S : Abstract!Cardinality(S) = Cardinality(S)
    BY DEF Abstract!Cardinality, Cardinality
  <1>4. \A s : Abstract!Reverse(s) = [k \in 1..Len(s) |-> s[(Len(s) - k) + 1]]
    BY DEF Abstract!Reverse
  <1>5. QED
    BY <1>1, <1>2, <1>3, <1>4

\* Ordered is what the abstract specification means by the order of the line.
LEMMA InOrderIs ==
  ASSUME NEW S
  PROVE  Abstract!InOrder(S) = Ordered(S)
  BY DEF Abstract!InOrder, Ordered, Abstract!Cardinality, Cardinality

\* It is a function on 1..n.
LEMMA OrderedOnRange ==
  ASSUME NEW S
  PROVE  OnRange(Ordered(S), Cardinality(S))
  <1> DEFINE Nth(m) == CHOOSE k \in S : Cardinality({j \in S : j <= k}) = m
  <1>1. Ordered(S) = [m \in 1..Cardinality(S) |-> Nth(m)]
    BY DEF Ordered
  <1> HIDE DEF Nth
  <1>2. QED
    BY <1>1 DEF OnRange

\* A stage of the whole line is the command it stands for.
LEMMA CommandIs ==
  ASSUME IsList(line), Len(line) \in Nat, NEW s, NEW text, NEW fileOf, NEW gone, NEW null
  PROVE  Abstract!Command(s, text, fileOf, gone, null)
           = Cmd(line, s, Len(line) + 1, text, fileOf, gone, null)
  <1> DEFINE n == Len(line) + 1
             P == StagePart(line, s, Argued, n) \ gone
             Q == StagePart(line, s, Redirection, n)
  <1>1. /\ Abstract!InStage(s, Abstract!Word \cup {"EXIT_STATUS"}) \ gone = P
        /\ Abstract!InStage(s, Abstract!Redirection) = Q
        /\ Abstract!Stages = Stage(line, n)
    BY WholeLine, SharedOperators DEF Argued
  <1>2. P \subseteq 1..Len(line) /\ Q \subseteq 1..Len(line)
    BY StagePartBound
  <1> HIDE DEF P, Q, n
  <1>3. \A k : /\ Abstract!Argument(k, text, null) = Arg(line, k, text, null)
               /\ Abstract!Target(k, fileOf, null) = Targ(line, k, fileOf, null)
    BY SharedOperators DEF Abstract!Argument, Abstract!Target, Arg, Targ
  <1>4. Cardinality(P) \in Nat /\ Cardinality(Q) \in Nat
    BY <1>2, OrderedElements
  <1>5. OnRange(Ordered(P), Cardinality(P)) /\ OnRange(Ordered(Q), Cardinality(Q))
    BY OrderedOnRange
  <1>6. /\ DOMAIN Ordered(P) = 1..Cardinality(P)
        /\ Len(Ordered(Q)) = Cardinality(Q)
    BY <1>4, <1>5, OnRangeIsSequence
  <1>7. [m \in DOMAIN Ordered(P) |-> Abstract!Argument(Ordered(P)[m], text, null)]
          = Args(line, P, text, null)
    BY <1>3, <1>6 DEF Args
  <1>8. [m \in DOMAIN Abstract!Reverse(Ordered(Q)) |->
           Abstract!Target(Abstract!Reverse(Ordered(Q))[m], fileOf, null)]
          = Targs(line, Q, fileOf, null)
    <2>1. Abstract!Reverse(Ordered(Q))
            = [m \in 1..Cardinality(Q) |-> Ordered(Q)[(Cardinality(Q) - m) + 1]]
      BY <1>6, SharedOperators
    <2>2. QED
      BY <1>3, <2>1 DEF Targs
  <1>9. Abstract!Command(s, text, fileOf, gone, null)
          = [args         |-> Args(line, P, text, null),
             redirections |-> Targs(line, Q, fileOf, null),
             pipe_next    |-> s < Stage(line, n)]
    BY <1>1, <1>7, <1>8, InOrderIs DEF Abstract!Command
  <1>10. QED
    BY <1>9 DEF Cmd, P, Q, n

\* When both loops have gone through, the line is acceptable, and the commands are the
\* pipeline it stands for.
LEMMA DoneIsPipeline ==
  ASSUME IInv, Building, Parsing, at = Len(line) + 1
  PROVE  Abstract!Acceptable /\ Abstract!IsPipeline(commands, failed)
  <1>1. IsList(line) /\ Len(line) \in Nat \ {0} /\ DOMAIN line = 1..Len(line)
    BY OnTheList, LineIsList DEF IInv
  <1>2. Abstract!Acceptable
    <2>1. AllFilled(line)
      BY DEF Building
    <2>2. OperandsIn(line)
      <3>1. \A k \in 1..Len(line) : line[k].type = "HEREDOC"
                                      => k < Len(line) /\ line[k+1].type = "DELIMITER"
        <4>1. \A k \in 1..Len(line) : k < at
          BY <1>1
        <4>2. QED
          BY <4>1 DEF Building, Documents
      <3>2. \A k \in 1..Len(line) : line[k].type \in FileRedirection
                                      => k < Len(line) /\ line[k+1].type = "FILENAME"
        <4>1. \A k \in 1..Len(line) : k \in 1..(Len(line)+1)-1
          BY <1>1
        <4>2. QED
          BY <4>1 DEF Parsing, Accepted, Validated
      <3>3. QED
        BY <1>1, <3>1, <3>2 DEF OperandsIn
    <2>3. QED
      BY <1>1, <2>1, <2>2, AcceptableIs
  <1>3. PICK fileOf, gone, null : Witnesses(fileOf, gone, null)
    BY BuildingIs
  <1>4. /\ Losses(at, failed, gone, null) /\ FilesOf(line, at, files, fileOf)
        /\ commands = Pipeline(line, Top, at, status, fileOf, gone, null)
    BY <1>3 DEF Witnesses
  <1>5. Top = Abstract!Stages
    <2>1. at # 1 /\ at - 1 = Len(line)
      BY <1>1
    <2>2. current # 0
      BY <2>1 DEF Parsing, Accepted
    <2>3. QED
      BY <1>1, <2>2, WholeLine DEF Top
  <1> DEFINE documents == {k \in DOMAIN line : line[k].type = "HEREDOC"}
             atMostOne == {{}} \cup {{k} : k \in DOMAIN line}
  <1>6. Documents(line, at) = documents
    <2>1. \A k \in 1..Len(line) : k < at
      BY <1>1
    <2>2. QED
      BY <1>1, <2>1 DEF Documents
  <1>7. fileOf \in [documents -> TempName \ Existing] /\ Abstract!IsInjective(fileOf)
    <2>1. /\ fileOf \in [documents -> TempName \ Existing]
          /\ \A j, k \in documents : fileOf[j] = fileOf[k] => j = k
      BY <1>4, <1>6 DEF FilesOf
    <2>2. DOMAIN fileOf = documents
      BY <2>1
    <2>3. QED
      BY <2>1, <2>2 DEF Abstract!IsInjective
  <1>8. gone \in atMostOne /\ null \in atMostOne /\ (gone = {} \/ null = {})
        /\ (failed \/ (gone = {} /\ null = {}))
    <2>1. at - 1 = Len(line)
      BY <1>1
    <2>2. AtMostOne(gone, at) /\ AtMostOne(null, at) /\ (gone = {} \/ null = {})
          /\ (failed \/ (gone = {} /\ null = {}))
      BY <1>4 DEF Losses
    <2>3. QED
      BY <1>1, <2>1, <2>2 DEF AtMostOne
  <1>9. commands = [s \in 1..Abstract!Stages |-> Abstract!Command(s, status, fileOf, gone, null)]
    <2>1. \A s : Abstract!Command(s, status, fileOf, gone, null)
                   = Cmd(line, s, at, status, fileOf, gone, null)
      BY <1>1, CommandIs
    <2>2. QED
      BY <1>4, <1>5, <2>1 DEF Pipeline
  <1>10. status \in StatusText
    BY DEF IInv, TypeOK
  <1> HIDE DEF documents, atMostOne
  <1>11. Abstract!IsPipeline(commands, failed)
    BY <1>7, <1>8, <1>9, <1>10 DEF Abstract!IsPipeline, documents, atMostOne
  <1>12. QED
    BY <1>2, <1>11

\* What parse_tokens() has counted, built and answered so far.
RInv == IInv /\ Counting /\ Answering

\* It holds throughout.
LEMMA RefinementInvariance == Spec => []RInv
  <1>1. Init => RInv
    <2>1. Init => IInv
      BY Initialisation
    <2>2. Init => Counting /\ Answering
      BY DEF Init, Counting, Answering
    <2>3. QED
      BY <2>1, <2>2 DEF RInv
  <1>2. RInv /\ [Next]_vars => RInv'
    BY Preservation, NextCounts, NextAnswers DEF RInv
  <1>3. QED
    BY <1>1, <1>2, PTL DEF Spec

\* The answer by the place the call has come to.
LEMMA AnswerIs ==
  LET none == [kind |-> "none", commands |-> <<>>, failed |-> FALSE]
      refused == [kind |-> "refused", commands |-> <<>>, failed |-> FALSE]
  IN  /\ pc = "done" => Answer = [kind |-> "pipeline", commands |-> commands, failed |-> failed]
      /\ pc \in {"rejected", "aborted"} => Answer = refused
      /\ pc \in {"start", "validate", "parse"} => Answer = none
      /\ (pc = "done")'
           => Answer' = [kind |-> "pipeline", commands |-> commands', failed |-> failed']
      /\ (pc \in {"rejected", "aborted"})' => Answer' = refused
      /\ (pc \in {"start", "validate", "parse"})' => Answer' = none
  BY DEF Answer

\* A step of validate_syntax() goes on, or refuses what is not acceptable.
LEMMA ValidateReplies ==
  ASSUME RInv, Validate
  PROVE  /\ line' = line /\ pc \in {"start", "validate"}
         /\ pc' \in {"validate", "parse", "rejected"}
         /\ pc' = "rejected" => ~Abstract!Acceptable
  <1>1. /\ line' = line /\ pc \in {"start", "validate"}
        /\ pc' \in {"validate", "parse", "rejected"}
    BY DEF Validate, begin, validate_word, validate_pipe, validate_redirection,
           validate_other, validate_end, At
  <1>2. ASSUME pc' = "rejected"
        PROVE  ~Abstract!Acceptable
    <2>1. begin \/ validate_pipe \/ validate_redirection \/ validate_end
      BY <1>1, <1>2 DEF Validate, validate_word, validate_other, At
    <2>2. QED
      BY <1>2, <2>1, BeginRefuses, PipeRefuses, RedirectionRefuses, EndRefuses DEF RInv
  <1>3. QED
    BY <1>1, <1>2

\* A step of the parsing loop goes on, gives up what is not acceptable, or returns
\* the pipeline.
LEMMA ParseReplies ==
  ASSUME RInv, Parse
  PROVE  /\ line' = line /\ pc = "parse" /\ pc' \in {"parse", "aborted", "done"}
         /\ pc' = "aborted" => ~Abstract!Acceptable
         /\ pc' = "done" => /\ commands' = commands /\ failed' = failed
                            /\ Abstract!Acceptable /\ Abstract!IsPipeline(commands, failed)
  <1>1. line' = line /\ pc = "parse" /\ pc' \in {"parse", "aborted", "done"}
    BY DEF Parse, parse_word, parse_redirection, parse_heredoc, parse_pipe, parse_other,
           parse_end, argument_lost, filename_lost, At
  <1>2. pc' = "aborted" => ~Abstract!Acceptable
    BY LoopRefuses DEF RInv
  <1>3. ASSUME pc' = "done"
        PROVE  /\ commands' = commands /\ failed' = failed
               /\ Abstract!Acceptable /\ Abstract!IsPipeline(commands, failed)
    <2>1. parse_end
      BY <1>1, <1>3 DEF Parse, parse_word, parse_redirection, parse_heredoc, parse_pipe,
                        parse_other, argument_lost, filename_lost, At
    <2>2. commands' = commands /\ failed' = failed /\ at > Len(tokens)
      BY <2>1 DEF parse_end, result
    <2>3. Parsing /\ Building /\ at = Len(line) + 1
      BY <1>1, <2>2, OnTheList DEF RInv, IInv, Phases, Answering
    <2>4. QED
      BY <2>2, <2>3, DoneIsPipeline DEF RInv
  <1>4. QED
    BY <1>1, <1>2, <1>3

\* Every step of the two loops is a reply, or no change of the answer.
LEMMA StepReplies ==
  ASSUME RInv, [Next]_vars
  PROVE  [Abstract!Reply]_(Abstract!vars)
  <1>1. CASE UNCHANGED vars
    BY <1>1 DEF vars, result, Answer, Abstract!vars
  <1>2. CASE Validate
    <2>1. CASE pc' # "rejected"
      BY <1>2, <2>1, ValidateReplies, AnswerIs DEF Abstract!vars
    <2>2. CASE pc' = "rejected"
      BY <1>2, <2>2, ValidateReplies, AnswerIs DEF Abstract!Reply
    <2>3. QED
      BY <2>1, <2>2
  <1>3. CASE Parse
    <2>1. CASE pc' = "parse"
      BY <1>3, <2>1, ParseReplies, AnswerIs DEF Abstract!vars
    <2>2. CASE pc' = "aborted"
      BY <1>3, <2>2, ParseReplies, AnswerIs DEF Abstract!Reply
    <2>3. CASE pc' = "done"
      <3>1. /\ commands' = commands /\ failed' = failed /\ line' = line /\ pc = "parse"
            /\ Abstract!Acceptable /\ Abstract!IsPipeline(commands, failed)
        BY <1>3, <2>3, ParseReplies
      <3>2. Answer.kind = "none" /\ Answer'.kind = "pipeline" /\ Answer'.commands = commands
            /\ Answer'.failed = failed
        BY <2>3, <3>1, AnswerIs
      <3>3. Abstract!IsPipeline(Answer'.commands, Answer'.failed)
        BY <3>1, <3>2
      <3>4. QED
        BY <3>1, <3>2, <3>3 DEF Abstract!Reply
    <2>4. QED
      BY <1>3, <2>1, <2>2, <2>3, ParseReplies
  <1>4. QED
    BY <1>1, <1>2, <1>3 DEF Next

\* For every set of well-formed token lists, however long, and whichever copy fails:
\* parse_tokens() answers with the pipeline the line stands for, exactly when the line
\* is acceptable, and refuses it otherwise.
THEOREM ParserImplementsCommandLine == Spec => ImplementsCommandLine
  <1>1. Init => Abstract!Init
    BY AnswerIs DEF Init, Abstract!Init
  <1>2. RInv /\ [Next]_vars => [Abstract!Reply]_(Abstract!vars)
    BY StepReplies
  <1>3. QED
    BY <1>1, <1>2, RefinementInvariance, PTL DEF Spec, ImplementsCommandLine, Abstract!Spec

=============================================================================
