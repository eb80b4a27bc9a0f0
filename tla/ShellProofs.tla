----------------------------- MODULE ShellProofs -----------------------------
(***************************************************************************)
(* Proofs about Shell, for any lines that can be typed, any script and any  *)
(* environment: what the tokenizer hands to the parser is what the parser   *)
(* needs, the loop reads no line twice and none behind the last, and a list *)
(* of tokens or of commands is lost in two places only.  They go by the     *)
(* invariants of Tokenizer and Parser, each in the phases in which its call *)
(* is under way.                                                            *)
(***************************************************************************)
EXTENDS Shell, TextProofs

-----------------------------------------------------------------------------
(* The components' lemmas.                                                  *)

\* What the components assume of their constants holds of the ones they are given.
LEMMA TokenizerGiven == T!TextAssumption /\ T!InputsAssumption
  BY TextAssumption, ShellAssumption
  DEF T!TextAssumption, T!InputsAssumption, T!Char, T!Special, T!Blank, T!Operator, T!Quote,
      T!DoubleQuote, Char, Special, Blank, Operator, Quote, DoubleQuote

LEMMA ParserGiven == P!TextAssumption /\ P!ParserAssumption
  BY TextAssumption, ShellAssumption
  DEF P!TextAssumption, P!ParserAssumption, P!Char, P!Special, P!Blank, P!Operator, P!Quote,
      P!DoubleQuote, Char, Special, Blank, Operator, Quote, DoubleQuote

\* A well-formed list is the same thing to both.
LEMMA SameLists ==
  ASSUME NEW list
  PROVE  /\ T!WellFormed(list) => P!WellFormed(list)
         /\ P!WellFormed(list) => WellFormed(list)
  BY DEF WellFormed, IsTokenList, DelimitersOwned, FilenamesOwned, CommandsPlaced, Pending,
         TokenType, FileRedirection,
         T!WellFormed, T!IsTokenList, T!DelimitersOwned, T!FilenamesOwned, T!CommandsPlaced,
         T!Pending, T!TokenType, T!FileRedirection,
         P!WellFormed, P!IsTokenList, P!DelimitersOwned, P!FilenamesOwned, P!CommandsPlaced,
         P!Pending, P!TokenType, P!FileRedirection

\* The scans' "<<<<" is a part of the line.
LEMMA FourInLine ==
  ASSUME NEW n, NEW s \in Seq(Char), T!FourAt(s, n)
  PROVE  <<"<", "<", "<", "<">> \in SubSeqs(s)
  <1> DEFINE part == SubSeq(s, n, n + 3)
  <1>1. /\ Len(s) \in Nat /\ n \in 1..Len(s) /\ n + 3 \in 1..Len(s) /\ n <= n + 3
        /\ s[n] = "<" /\ s[n+1] = "<" /\ s[n+2] = "<" /\ s[n+3] = "<"
        /\ n \in Nat /\ (n + 3) - n + 1 = 4
    BY LenProperties DEF T!FourAt
  <1>2. Len(part) = 4 /\ part \in Seq(Char) /\ \A k \in 1..4 : part[k] = s[n + k - 1]
    BY <1>1, SubSeqProperties
  <1>3. part = <<"<", "<", "<", "<">>
    <2>1. n + 1 - 1 = n /\ n + 2 - 1 = n + 1 /\ n + 3 - 1 = n + 2 /\ n + 4 - 1 = n + 3
      BY <1>1
    <2>2. part[1] = "<" /\ part[2] = "<" /\ part[3] = "<" /\ part[4] = "<"
      BY <1>1, <1>2, <2>1
    <2> HIDE DEF part
    <2>3. \A k \in 1..4 : k = 1 \/ k = 2 \/ k = 3 \/ k = 4
      OBVIOUS
    <2>4. part = [k \in 1..4 |-> "<"]
      BY <1>2, <2>2, <2>3, LenProperties
    <2>5. <<"<", "<", "<", "<">> = [k \in 1..4 |-> "<"]
      OBVIOUS
    <2>6. QED
      BY <2>4, <2>5
  <1>4. part \in SubSeqs(s)
    <2>1. n - 1 \in 0..Len(s) /\ n + 3 \in 0..Len(s) /\ (n - 1) + 1 = n
      BY <1>1
    <2>2. SubSeq(s, (n - 1) + 1, n + 3) \in SubSeqs(s)
      BY <2>1 DEF SubSeqs
    <2>3. QED
      BY <2>1, <2>2
  <1>5. QED
    BY <1>3, <1>4
-----------------------------------------------------------------------------
(* The inductive invariant.                                                 *)

\* A line is under way.
Busy == phase \in {"tokenize", "parse", "heredoc"}

Loop ==
  /\ typed \in Scripts /\ next \in 1..Len(typed)+1
  /\ phase \in {"prompt", "exit"} \/ Busy
  /\ oom \in BOOLEAN /\ oom_before \in BOOLEAN
  /\ DOMAIN documents \subseteq TempName
  /\ Busy => /\ line_at \in 1..next-1 /\ line = typed[line_at]
             /\ line \in Seq(Char) \ {<<>>}

\* The call under way keeps its invariant, and what it hands on comes from the line.
Calls ==
  /\ phase = "tokenize" => T!Inv /\ T!Traced
  /\ phase \in {"parse", "heredoc"} =>
       /\ P!IInv /\ P!GivenUpEdited
       /\ \A k \in 1..Len(handed)-1 :
            handed[k].type = "HEREDOC" /\ handed[k+1].type = "HEREDOC"
              => \E n : T!FourAt(line, n)

\* handle_heredoc() reads typed lines only.
Reading ==
  phase = "heredoc" =>
    Len(ahead) \in Nat /\ read \in 0..Len(ahead) /\ next + Len(ahead) <= Len(typed) + 1

Doubled(s) == <<"<", "<", "<", "<">> \in SubSeqs(s)

HasQuote(s) == Quote \cap Range(s) # {}

\* A block that nobody will free ...
Lost(block) ==
  \/ block.kind = "commands" /\ Doubled(typed[block.at])
  \/ block.kind = "tokens" /\ oom /\ HasQuote(typed[block.at])

\* ... and one that the call under way has.
Owned(block) ==
  /\ Busy /\ block.at = line_at
  /\ block.kind = "tokens" /\ phase = "tokenize" => tokens # <<>>
  /\ block.kind = "commands" => /\ phase \in {"parse", "heredoc"}
                                /\ parser_pc \in {"parse", "done", "aborted"}

Heap ==
  \A block \in heap :
    /\ block \in [kind : {"tokens", "commands"}, at : 1..Len(typed)]
    /\ block.at < next
    /\ Lost(block) \/ Owned(block)

IInv == Loop /\ Calls /\ Reading /\ Heap

-----------------------------------------------------------------------------
(* What the steps go by.                                                    *)

\* The lines that are typed.
LEMMA TypedLines ==
  ASSUME Loop
  PROVE  /\ Len(typed) \in Nat /\ DOMAIN typed = 1..Len(typed)
         /\ next \in Nat \ {0} /\ next <= Len(typed) + 1
         /\ \A k \in 1..Len(typed) : typed[k] = EOF \/ typed[k] \in Seq(Char)
  <1>1. typed \in Seq(Lines \cup {EOF})
    BY ShellAssumption DEF Loop
  <1>2. Len(typed) \in Nat /\ DOMAIN typed = 1..Len(typed)
        /\ \A k \in 1..Len(typed) : typed[k] \in Lines \cup {EOF}
    BY <1>1, LenProperties, ElementOfSeq
  <1>3. QED
    BY <1>2, ShellAssumption DEF Loop

\* A call starts as its component says.
LEMMA TokenizerBegins == T!Begins => T!Inv /\ T!Traced
  BY TokenizerGiven, T!BeginsInv, T!BeginsTraced

LEMMA ParserBegins == P!Begins => P!IInv /\ P!GivenUpEdited
  <1>1. P!Begins => P!IInv
    BY ParserGiven, P!BeginsHolds
  <1>2. P!Begins => P!GivenUpEdited
    BY DEF P!Begins, P!GivenUpEdited
  <1>3. QED
    BY <1>1, <1>2

\* A step of the parser, or of nobody.
LEMMA ParserStep ==
  ASSUME P!IInv, P!GivenUpEdited, [P!Next]_(P!vars)
  PROVE  P!IInv' /\ P!GivenUpEdited' /\ handed' = handed /\ (oom => oom')
  BY ParserGiven, P!Preservation, P!GivenUpStep, P!CallKeeps

\* The list that is given up comes from a line with a doubled operator.
LEMMA GivenUpTraced ==
  ASSUME Loop, Calls, phase = "parse", parser_pc = "aborted"
  PROVE  Doubled(typed[line_at])
  <1>1. \E k \in 1..Len(handed)-1 : handed[k].type = "HEREDOC" /\ handed[k+1].type = "HEREDOC"
    BY ParserGiven, P!GivenUpDoubled DEF Calls
  <1>2. PICK n : T!FourAt(line, n)
    BY <1>1 DEF Calls
  <1>3. QED
    BY <1>2, FourInLine DEF Loop, Busy, Doubled

\* A list that is lost comes from a line with a quote.
LEMMA LossTraced ==
  ASSUME Loop, Calls, phase = "tokenize", tokenizer_pc = "failed"
  PROVE  oom /\ HasQuote(typed[line_at])
  <1>1. oom /\ \E k \in 1..Len(line) : line[k] \in Quote
    BY DEF Calls, T!Traced, T!LossTraced, T!Quote, T!DoubleQuote, Quote, DoubleQuote
  <1>2. PICK k \in 1..Len(line) : line[k] \in Quote
    BY <1>1
  <1>3. k \in DOMAIN line /\ line = typed[line_at]
    BY LenProperties DEF Loop, Busy
  <1>4. line[k] \in Range(line)
    BY <1>3 DEF Range
  <1>5. QED
    BY <1>1, <1>2, <1>3, <1>4 DEF HasQuote

\* The blocks of earlier lines stay as they are; only the ones of the line under way
\* are for a step to account for.
LEMMA HeapStep ==
  ASSUME Loop, Heap, typed' = typed, oom => oom', next \in Nat, next' \in Nat, next <= next',
         \A block \in heap' : block \in heap \/ block = Block("tokens") \/ block = Block("commands"),
         \A block \in heap' : block.at = line_at =>
           /\ block \in [kind : {"tokens", "commands"}, at : 1..Len(typed)]
           /\ block.at < next' /\ (Lost(block)' \/ Owned(block)')
  PROVE  Heap'
  <1>1. ASSUME NEW block \in heap'
        PROVE  /\ block \in [kind : {"tokens", "commands"}, at : 1..Len(typed)]
               /\ block.at < next'
               /\ Lost(block)' \/ Owned(block)'
    <2>1. CASE block.at = line_at
      BY <1>1, <2>1
    <2>2. CASE block.at # line_at
      <3>1. block \in heap
        BY <1>1, <2>2 DEF Block
      <3>2. /\ block \in [kind : {"tokens", "commands"}, at : 1..Len(typed)]
            /\ block.at < next /\ Lost(block) /\ block.at \in Nat
        BY <1>1, <2>2, <3>1, TypedLines DEF Heap, Owned
      <3>3. Lost(block)'
        BY <3>2 DEF Lost
      <3>4. QED
        BY <3>2, <3>3
    <2>3. QED
      BY <2>1, <2>2
  <1>2. QED
    BY <1>1 DEF Heap

-----------------------------------------------------------------------------
(* Steps of the loop.                                                       *)

\* At the prompt nobody has anything.
LEMMA NothingOwned ==
  ASSUME Heap, ~Busy, NEW block \in heap
  PROVE  /\ block \in [kind : {"tokens", "commands"}, at : 1..Len(typed)]
         /\ block.at < next /\ Lost(block)
  BY DEF Heap, Owned

LEMMA EndOfFilePreserves ==
  ASSUME IInv, end_of_file \/ empty_line
  PROVE  IInv'
  <1>1. /\ phase = "prompt" /\ phase' \in {"prompt", "exit"} /\ next' \in {next, next + 1}
        /\ next' <= Len(typed) + 1 /\ next' \in Nat \ {0}
        /\ UNCHANGED <<typed, documents, heap, oom_before, oom>>
    BY TypedLines DEF end_of_file, empty_line, AtLine, IInv
  <1>2. Loop'
    BY <1>1, TypedLines DEF IInv, Loop, Busy
  <1>3. Calls' /\ Reading'
    BY <1>1 DEF Calls, Reading
  <1>4. Heap'
    <2>1. ASSUME NEW block \in heap
          PROVE  /\ block \in [kind : {"tokens", "commands"}, at : 1..Len(typed)]
                 /\ block.at < next' /\ Lost(block)'
      <3>1. /\ block \in [kind : {"tokens", "commands"}, at : 1..Len(typed)]
            /\ block.at < next /\ Lost(block)
        BY <1>1, NothingOwned DEF IInv, Busy
      <3>2. block.at \in Nat /\ next \in Nat
        BY <3>1, TypedLines DEF IInv
      <3>3. QED
        BY <1>1, <3>1, <3>2 DEF Lost
    <2>2. QED
      BY <1>1, <2>1 DEF Heap
  <1>5. QED
    BY <1>2, <1>3, <1>4 DEF IInv

LEMMA CallTokenizePreserves ==
  ASSUME IInv, call_tokenize_input
  PROVE  IInv'
  <1>1. /\ phase = "prompt" /\ phase' = "tokenize" /\ next' = next + 1
        /\ line' = typed[next] /\ line_at' = next
        /\ next <= Len(typed) /\ typed[next] # EOF /\ typed[next] # <<>>
        /\ oom_before' = oom
        /\ UNCHANGED <<typed, documents, heap, oom>>
    BY DEF call_tokenize_input, AtLine
  <1>2. Len(typed) \in Nat /\ next \in 1..Len(typed) /\ typed[next] \in Seq(Char)
    BY <1>1, TypedLines DEF IInv
  <1>3. Loop'
    <2>1. next + 1 \in 1..Len(typed)+1 /\ next \in 1..(next+1)-1
      BY <1>2
    <2>2. QED
      BY <1>1, <1>2, <2>1 DEF IInv, Loop, Busy
  <1>4. Calls'
    <2>1. line' \in Seq(T!Char) \ {<<>>}
      BY <1>1, <1>2 DEF Char, Special, Blank, Operator, Quote, DoubleQuote, T!Char, T!Special,
                        T!Blank, T!Operator, T!Quote, T!DoubleQuote
    <2>2. T!Begins'
      BY <1>1, <2>1 DEF call_tokenize_input, T!Begins, IInv, Loop
    <2>3. (T!Begins => T!Inv /\ T!Traced)'
      BY TokenizerBegins, PTL
    <2>4. QED
      BY <1>1, <2>2, <2>3 DEF Calls
  <1>5. Reading'
    BY <1>1 DEF Reading
  <1>6. Heap'
    <2>1. ASSUME NEW block \in heap
          PROVE  /\ block \in [kind : {"tokens", "commands"}, at : 1..Len(typed)]
                 /\ block.at < next' /\ Lost(block)'
      <3>1. /\ block \in [kind : {"tokens", "commands"}, at : 1..Len(typed)]
            /\ block.at < next /\ Lost(block)
        BY <1>1, NothingOwned DEF IInv, Busy
      <3>2. block.at \in Nat
        BY <3>1
      <3>3. QED
        BY <1>1, <1>2, <3>1, <3>2 DEF Lost
    <2>2. QED
      BY <1>1, <2>1 DEF Heap
  <1>7. QED
    BY <1>3, <1>4, <1>5, <1>6 DEF IInv

LEMMA TokenizePreserves ==
  ASSUME IInv, tokenize_input
  PROVE  IInv'
  <1>1. /\ phase = "tokenize" /\ T!Next /\ heap' = Allocated("tokens", tokens')
        /\ UNCHANGED <<typed, next, line_at, oom_before, phase, documents>>
    BY DEF tokenize_input
  <1>2. T!Inv /\ T!Traced /\ T!TypeOK
    BY <1>1 DEF IInv, Calls, T!Inv
  <1>3. T!Inv' /\ T!Traced'
    BY <1>1, <1>2, TokenizerGiven, T!NextPreservesInv, T!TracedStep
  <1>4. line' = line /\ (oom => oom') /\ (tokens # <<>> => tokens' # <<>>)
    BY <1>1, <1>2, TokenizerGiven, T!CallKeeps
  <1>5. Loop'
    <2>1. oom' \in BOOLEAN
      BY <1>3 DEF T!Inv, T!TypeOK
    <2>2. QED
      BY <1>1, <1>4, <2>1 DEF IInv, Loop, Busy
  <1>6. Calls'
    BY <1>1, <1>3 DEF Calls
  <1>7. Reading'
    BY <1>1 DEF Reading
  <1>8. Heap'
    <2>1. /\ next \in Nat /\ line_at \in 1..Len(typed) /\ line_at < next
      BY <1>1, TypedLines DEF IInv, Loop, Busy
    <2>2. ASSUME NEW block \in heap', block.at = line_at
          PROVE  /\ block \in [kind : {"tokens", "commands"}, at : 1..Len(typed)]
                 /\ block.at < next' /\ (Lost(block)' \/ Owned(block)')
      <3>1. CASE block \in heap
        <4>1. /\ block \in [kind : {"tokens", "commands"}, at : 1..Len(typed)]
              /\ block.at < next /\ (Lost(block) \/ Owned(block))
          BY <3>1 DEF IInv, Heap
        <4>2. Lost(block) => Lost(block)'
          BY <1>1, <1>4 DEF Lost
        <4>3. Owned(block) => Owned(block)'
          BY <1>1, <1>4 DEF Owned, Busy
        <4>4. QED
          BY <1>1, <4>1, <4>2, <4>3
      <3>2. CASE block \notin heap
        <4>1. block = Block("tokens") /\ tokens' # <<>>
          BY <1>1, <2>2, <3>2 DEF Allocated
        <4>2. block.kind = "tokens" /\ block = [kind |-> "tokens", at |-> line_at]
          BY <4>1 DEF Block
        <4>3. Owned(block)'
          BY <1>1, <2>2, <4>1, <4>2 DEF Owned, Busy
        <4>4. QED
          BY <1>1, <2>1, <2>2, <4>2, <4>3
      <3>3. QED
        BY <3>1, <3>2
    <2>3. \A block \in heap' : block \in heap \/ block = Block("tokens") \/ block = Block("commands")
      BY <1>1 DEF Allocated
    <2>4. QED
      BY <1>1, <1>4, <2>1, <2>2, <2>3, HeapStep DEF IInv
  <1>9. QED
    BY <1>5, <1>6, <1>7, <1>8 DEF IInv

LEMMA NothingToParsePreserves ==
  ASSUME IInv, nothing_to_parse
  PROVE  IInv'
  <1>1. /\ phase = "tokenize" /\ phase' = "prompt" /\ documents' = <<>>
        /\ tokenizer_pc = "failed" \/ tokens = <<>>
        /\ UNCHANGED <<typed, next, line, line_at, oom_before, heap, oom>>
    BY DEF nothing_to_parse, LineDone
  <1>2. Loop'
    BY <1>1 DEF IInv, Loop, Busy
  <1>3. Calls' /\ Reading'
    BY <1>1 DEF Calls, Reading
  <1>4. Heap'
    <2>1. ASSUME NEW block \in heap
          PROVE  Lost(block)
      <3>1. block.kind \in {"tokens", "commands"} /\ (Lost(block) \/ Owned(block))
        BY DEF IInv, Heap
      <3>2. CASE Owned(block)
        <4>1. block.kind = "tokens" /\ tokens # <<>> /\ block.at = line_at
          BY <1>1, <3>1, <3>2 DEF Owned
        <4>2. QED
          BY <1>1, <4>1, LossTraced DEF Lost, IInv
      <3>3. QED
        BY <3>1, <3>2
    <2>2. \A block \in heap : Lost(block)'
      BY <1>1, <2>1 DEF Lost
    <2>3. QED
      BY <1>1, <2>2 DEF IInv, Heap
  <1>5. QED
    BY <1>2, <1>3, <1>4 DEF IInv

LEMMA CallParsePreserves ==
  ASSUME IInv, call_parse_tokens
  PROVE  IInv'
  <1>1. /\ phase = "tokenize" /\ phase' = "parse" /\ tokens # <<>>
        /\ handed' = tokens /\ tokens' = tokens
        /\ UNCHANGED <<typed, next, line, line_at, oom_before, documents, heap, oom>>
    BY DEF call_parse_tokens
  <1>2. T!Inv /\ T!Traced
    BY <1>1 DEF IInv, Calls
  <1>3. Loop'
    BY <1>1 DEF IInv, Loop, Busy
  <1>4. Calls'
    <2>1. T!WellFormed(tokens)
      BY <1>1, <1>2 DEF T!Inv, T!TypeOK, T!HeredocDiscipline, T!FilenameDiscipline,
                        T!CommandPosition, T!WellFormed
    <2>2. P!WellFormed(tokens)
      BY <2>1, SameLists
    <2>3. P!Begins'
      BY <1>1, <2>2 DEF call_parse_tokens, P!Begins, IInv, Loop
    <2>4. (P!Begins => P!IInv /\ P!GivenUpEdited)'
      BY ParserBegins, PTL
    <2>5. \A k \in 1..Len(tokens)-1 :
            tokens[k].type = "HEREDOC" /\ tokens[k+1].type = "HEREDOC" => \E n : T!FourAt(line, n)
      BY <1>2 DEF T!Traced, T!DoubledOperators
    <2>6. QED
      BY <1>1, <2>3, <2>4, <2>5 DEF Calls
  <1>5. Reading'
    BY <1>1 DEF Reading
  <1>6. Heap'
    <2>1. ASSUME NEW block \in heap
          PROVE  Lost(block)' \/ Owned(block)'
      <3>1. block.kind \in {"tokens", "commands"} /\ (Lost(block) \/ Owned(block))
        BY DEF IInv, Heap
      <3>2. CASE Lost(block)
        BY <1>1, <3>2 DEF Lost
      <3>3. CASE Owned(block)
        BY <1>1, <3>1, <3>3 DEF Owned, Busy
      <3>4. QED
        BY <3>1, <3>2, <3>3
    <2>2. QED
      BY <1>1, <2>1 DEF IInv, Heap
  <1>7. QED
    BY <1>3, <1>4, <1>5, <1>6 DEF IInv

-----------------------------------------------------------------------------
(* Steps of parse_tokens() and of the documents it reads.                   *)

\* A list of commands that has been begun stays with the call.
LEMMA CommandsStayOwned ==
  ASSUME P!Next, parser_pc \in {"parse", "done", "aborted"}
  PROVE  parser_pc' \in {"parse", "done", "aborted"}
  <1>1. P!Parse
    BY DEF P!Next, P!Validate, P!begin, P!validate_word, P!validate_pipe,
           P!validate_redirection, P!validate_other, P!validate_end, P!At
  <1>2. QED
    BY <1>1 DEF P!Parse, P!parse_word, P!parse_redirection, P!parse_heredoc, P!parse_pipe,
                P!parse_other, P!parse_end, P!argument_lost, P!filename_lost

\* Before the parsing loop there are none.
LEMMA CommandsBegun ==
  ASSUME P!IInv, commands # <<>>
  PROVE  parser_pc \in {"parse", "done", "aborted"}
  BY DEF P!IInv, P!TypeOK, P!Phases, P!Beginning, P!Validating

\* A step of the parser, within the line or with the lines that a document took.
LEMMA ParserStepPreserves ==
  ASSUME IInv, phase \in {"parse", "heredoc"}, P!Next, phase' = "parse",
         UNCHANGED <<typed, line, line_at, oom_before>>,
         next' \in Nat, next <= next', next' <= Len(typed) + 1,
         DOMAIN documents' \subseteq TempName,
         heap' = Allocated("commands", commands')
  PROVE  IInv'
  <1>1. P!IInv' /\ P!GivenUpEdited' /\ handed' = handed /\ (oom => oom')
    BY ParserStep DEF IInv, Calls
  <1>2. /\ Len(typed) \in Nat /\ next \in Nat \ {0} /\ line_at \in 1..next-1
        /\ line_at \in 1..Len(typed)
    BY TypedLines DEF IInv, Loop, Busy
  <1>3. Loop'
    <2>1. oom' \in BOOLEAN
      BY <1>1 DEF P!IInv, P!TypeOK
    <2>2. next' \in 1..Len(typed)+1 /\ line_at \in 1..next'-1
      <3>1. ASSUME NEW m \in Nat, NEW n \in Nat, NEW k \in Nat, NEW l \in 1..m-1,
                   m <= n, n <= k + 1
            PROVE  n \in 1..k+1 /\ l \in 1..n-1
        BY <3>1
      <3>2. QED
        BY <1>2, <3>1
    <2>3. QED
      BY <2>1, <2>2 DEF IInv, Loop, Busy
  <1>4. Calls'
    BY <1>1 DEF IInv, Calls
  <1>5. Reading'
    BY DEF Reading
  <1>6. Heap'
    <2>1. ASSUME NEW block \in heap', block.at = line_at
          PROVE  /\ block \in [kind : {"tokens", "commands"}, at : 1..Len(typed)]
                 /\ block.at < next' /\ (Lost(block)' \/ Owned(block)')
      <3>1. block.at < next'
        BY <1>2, <2>1
      <3>2. CASE block \in heap
        <4>1. /\ block \in [kind : {"tokens", "commands"}, at : 1..Len(typed)]
              /\ block.kind \in {"tokens", "commands"} /\ (Lost(block) \/ Owned(block))
          BY <3>2 DEF IInv, Heap
        <4>2. Lost(block) => Lost(block)'
          BY <1>1 DEF Lost
        <4>3. Owned(block) => Owned(block)'
          BY <2>1, CommandsStayOwned DEF Owned, Busy
        <4>4. QED
          BY <3>1, <4>1, <4>2, <4>3
      <3>3. CASE block \notin heap
        <4>1. block = Block("commands") /\ commands' # <<>>
          BY <2>1, <3>3 DEF Allocated
        <4>2. block.kind = "commands" /\ block = [kind |-> "commands", at |-> line_at]
          BY <4>1 DEF Block
        <4>3. (P!IInv /\ commands # <<>> => parser_pc \in {"parse", "done", "aborted"})'
          BY CommandsBegun, PTL
        <4>4. Owned(block)'
          BY <1>1, <2>1, <4>1, <4>2, <4>3 DEF Owned, Busy
        <4>5. QED
          BY <1>2, <3>1, <4>2, <4>4
      <3>4. QED
        BY <3>2, <3>3
    <2>2. \A block \in heap' : block \in heap \/ block = Block("tokens") \/ block = Block("commands")
      BY DEF Allocated
    <2>3. QED
      BY <1>1, <1>2, <2>1, <2>2, HeapStep DEF IInv
  <1>7. QED
    BY <1>3, <1>4, <1>5, <1>6 DEF IInv

LEMMA ParsePreserves ==
  ASSUME IInv, parse_tokens
  PROVE  IInv'
  <1>1. /\ phase = "parse" /\ P!Next /\ heap' = Allocated("commands", commands')
        /\ UNCHANGED <<typed, next, line, line_at, oom_before, phase, documents>>
    BY DEF parse_tokens, loop
  <1>2. next \in Nat /\ next <= Len(typed) + 1 /\ DOMAIN documents \subseteq TempName
    BY TypedLines DEF IInv, Loop
  <1>3. next' \in Nat /\ next <= next' /\ next' <= Len(typed) + 1
    BY <1>1, <1>2
  <1>4. QED
    BY <1>1, <1>2, <1>3, ParserStepPreserves

\* What is typed before the next end of the file.
LEMMA AheadEnds ==
  ASSUME Loop
  PROVE  Len(Ahead) \in Nat /\ next + Len(Ahead) <= Len(typed) + 1
  <1> DEFINE ends == {k \in next..Len(typed) : typed[k] = EOF}
             m == Min(ends \cup {Len(typed) + 1})
  <1>1. Len(typed) \in Nat /\ next \in Nat \ {0} /\ next <= Len(typed) + 1
        /\ \A k \in 1..Len(typed) : typed[k] = EOF \/ typed[k] \in Seq(Char)
    BY TypedLines
  <1>2. m \in next..Len(typed)+1
    <2>1. ends \cup {Len(typed) + 1} \subseteq Nat
          /\ ends \cup {Len(typed) + 1} \subseteq next..Len(typed)+1
      BY <1>1
    <2>2. m \in ends \cup {Len(typed) + 1}
      BY <2>1, MinIsElement
    <2>3. QED
      BY <2>1, <2>2
  <1> HIDE DEF ends, m
  <1>3. m - 1 \in Int /\ \A k \in next..m-1 : typed[k] \in {EOF} \cup Seq(Char)
    BY <1>1, <1>2
  <1>4. Len(SubSeq(typed, next, m - 1)) = IF next <= m - 1 THEN (m - 1) - next + 1 ELSE 0
    BY <1>1, <1>3, SubSeqProperties
  <1>5. Ahead = SubSeq(typed, next, m - 1)
    BY DEF Ahead, ends, m
  <1>6. QED
    BY <1>1, <1>2, <1>4, <1>5

LEMMA CallHeredocPreserves ==
  ASSUME IInv, call_handle_heredoc
  PROVE  IInv'
  <1>1. /\ phase = "parse" /\ phase' = "heredoc" /\ ahead' = Ahead /\ read' = 0
        /\ UNCHANGED <<typed, next, line, line_at, oom_before, documents, heap, tokens, parser, oom>>
    BY DEF call_handle_heredoc
  <1>2. Loop'
    BY <1>1 DEF IInv, Loop, Busy
  <1>3. Calls'
    <2>1. UNCHANGED P!vars
      BY <1>1 DEF parser, P!vars, P!counts, P!result
    <2>2. P!IInv' /\ P!GivenUpEdited' /\ handed' = handed
      BY <1>1, <2>1, ParserStep DEF IInv, Calls
    <2>3. QED
      BY <1>1, <2>2 DEF IInv, Calls
  <1>4. Reading'
    <2>1. Len(Ahead) \in Nat /\ next + Len(Ahead) <= Len(typed) + 1
      BY AheadEnds DEF IInv
    <2>2. QED
      BY <1>1, <2>1 DEF Reading
  <1>5. Heap'
    BY <1>1 DEF IInv, Heap, Lost, Owned, Busy, parser
  <1>6. QED
    BY <1>2, <1>3, <1>4, <1>5 DEF IInv

LEMMA HeredocPreserves ==
  ASSUME IInv, handle_heredoc
  PROVE  IInv'
  <1>1. /\ phase = "heredoc" /\ H!Next
        /\ UNCHANGED <<typed, next, line, line_at, oom_before, phase, documents, heap, tokens,
                       parser>>
    BY DEF handle_heredoc, loop
  <1>2. Len(ahead) \in Nat /\ read \in 0..Len(ahead) /\ oom \in BOOLEAN
    BY <1>1 DEF IInv, Loop, Reading
  <1>3. /\ ahead' = ahead /\ read' \in 0..Len(ahead)
        /\ oom' \in BOOLEAN /\ (oom => oom')
    <2>1. CASE H!read_line
      BY <1>2, <2>1 DEF H!read_line
    <2>2. CASE H!read_delimiter \/ H!read_eof
      BY <1>2, <2>2 DEF H!read_delimiter, H!read_eof
    <2>3. CASE H!Expand
      BY <1>2, <2>3 DEF H!Expand, H!expand_variable, H!expand_character, H!expand_fails,
                        H!expand_end
    <2>4. CASE H!append_line \/ H!append_fails
      BY <1>2, <2>4 DEF H!append_line, H!append_fails
    <2>5. QED
      BY <1>1, <2>1, <2>2, <2>3, <2>4 DEF H!Next, H!Read
  <1>4. Loop'
    BY <1>1, <1>3 DEF IInv, Loop, Busy
  <1>5. Calls'
    <2>1. P!IInv'
      BY <1>1, <1>3, ParserGiven, P!FailsElsewhere DEF IInv, Calls, parser, P!counts
    <2>2. P!GivenUpEdited'
      BY <1>1 DEF IInv, Calls, parser, P!GivenUpEdited, P!Edited
    <2>3. QED
      BY <1>1, <2>1, <2>2 DEF IInv, Calls, parser
  <1>6. Reading'
    BY <1>1, <1>2, <1>3 DEF IInv, Reading
  <1>7. Heap'
    BY <1>1, <1>3 DEF IInv, Heap, Lost, Owned, Busy, parser
  <1>8. QED
    BY <1>4, <1>5, <1>6, <1>7 DEF IInv

LEMMA StoreDocumentPreserves ==
  ASSUME IInv, store_document
  PROVE  IInv'
  <1>1. /\ phase = "heredoc" /\ phase' = "parse" /\ P!Next
        /\ heap' = Allocated("commands", commands')
        /\ UNCHANGED <<typed, line, line_at, oom_before>>
    BY DEF store_document, P!Next, P!Parse
  <1>2. next' \in Nat /\ next <= next' /\ next' <= Len(typed) + 1
    <2>1. /\ Len(ahead) \in Nat /\ read \in 0..Len(ahead)
          /\ next + Len(ahead) <= Len(typed) + 1
      BY <1>1 DEF IInv, Reading
    <2>2. Len(typed) \in Nat /\ next \in Nat
      BY TypedLines DEF IInv
    <2>3. CASE EndOfFileRead
      BY <2>1, <2>2, <2>3 DEF store_document, EndOfFileRead
    <2>4. CASE ~EndOfFileRead
      BY <2>1, <2>2, <2>4 DEF store_document
    <2>5. QED
      BY <2>3, <2>4
  <1>3. DOMAIN documents' \subseteq TempName
    <2>1. P!IInv'
      BY <1>1, ParserStep DEF IInv, Calls
    <2>2. files' \subseteq TempName
      BY <2>1 DEF P!IInv, P!TypeOK
    <2>3. DOMAIN documents' = files'
      BY DEF store_document
    <2>4. QED
      BY <2>2, <2>3
  <1>4. QED
    BY <1>1, <1>2, <1>3, ParserStepPreserves

\* At the end of a line only what is lost is left.
LEMMA LineEndsPreserves ==
  ASSUME IInv, commands_printed \/ nothing_to_print
  PROVE  IInv'
  <1>1. /\ phase = "parse" /\ phase' = "prompt" /\ documents' = <<>>
        /\ UNCHANGED <<typed, next, line, line_at, oom_before, oom>>
    BY DEF commands_printed, nothing_to_print, LineDone
  <1>2. Loop'
    BY <1>1 DEF IInv, Loop, Busy
  <1>3. Calls' /\ Reading'
    BY <1>1 DEF Calls, Reading
  <1>4. Heap'
    <2>1. ASSUME NEW block \in heap'
          PROVE  block \in heap /\ Lost(block)
      <3>1. block \in heap /\ block # Block("tokens")
        BY <2>1 DEF commands_printed, nothing_to_print, free_tokens, free_command_list, Block
      <3>2. /\ block \in [kind : {"tokens", "commands"}, at : 1..Len(typed)]
            /\ Lost(block) \/ Owned(block)
        BY <3>1 DEF IInv, Heap
      <3>3. CASE Owned(block)
        <4>1. block.kind = "commands" /\ block.at = line_at
          BY <3>1, <3>2, <3>3 DEF Owned, Block
        <4>2. block = Block("commands")
          BY <3>2, <4>1 DEF Block
        <4>3. nothing_to_print
          BY <2>1, <4>2 DEF commands_printed, free_tokens, free_command_list
        <4>4. parser_pc = "aborted"
          BY <3>3, <4>1, <4>3 DEF nothing_to_print, Owned
        <4>5. Doubled(typed[line_at])
          BY <1>1, <4>4, GivenUpTraced DEF IInv
        <4>6. QED
          BY <3>1, <4>1, <4>5 DEF Lost
      <3>4. QED
        BY <3>1, <3>2, <3>3
    <2>2. \A block \in heap' : block \in heap /\ Lost(block)'
      BY <1>1, <2>1 DEF Lost
    <2>3. QED
      BY <1>1, <2>2 DEF IInv, Heap
  <1>5. QED
    BY <1>2, <1>3, <1>4 DEF IInv

-----------------------------------------------------------------------------
(* The theorems.                                                            *)

LEMMA Initially == Init => IInv
  <1> SUFFICES ASSUME Init PROVE IInv
    OBVIOUS
  <1>1. typed \in Seq(Lines \cup {EOF}) /\ Len(typed) \in Nat
    BY ShellAssumption, LenProperties DEF Init
  <1>2. Loop
    <2>1. DOMAIN documents \subseteq TempName
      BY DEF Init
    <2>2. 1 \in 1..Len(typed)+1
      BY <1>1
    <2>3. QED
      BY <2>1, <2>2 DEF Init, Loop, Busy
  <1>3. Calls /\ Reading /\ Heap
    BY DEF Init, Calls, Reading, Heap
  <1>4. QED
    BY <1>2, <1>3 DEF IInv

LEMMA StutterPreserves ==
  ASSUME IInv, UNCHANGED vars
  PROVE  IInv'
  <1>1. UNCHANGED <<typed, next, line, line_at, oom_before, phase, documents, heap,
                    tokenizer_pc, i, tokens, expect_heredoc_delim, expect_filename, cur, oom,
                    handed, parser_pc, ahead, read>>
    BY DEF vars, loop, scanner, parser, reader
  <1>2. Loop' /\ Reading' /\ Heap'
    BY <1>1 DEF IInv, Loop, Busy, Reading, Heap, Lost, Owned
  <1>3. Calls'
    <2>1. phase = "tokenize" => T!Inv' /\ T!Traced'
      <3>1. phase = "tokenize" => (T!Inv /\ T!Traced)
        BY DEF IInv, Calls
      <3>2. QED
        BY <1>1, <3>1
        DEF T!Inv, T!TypeOK, T!HeredocDiscipline, T!FilenameDiscipline, T!CommandPosition,
            T!Traced, T!OperatorBehind, T!DoubledOperators, T!LossTraced
    <2>2. phase \in {"parse", "heredoc"} => P!IInv' /\ P!GivenUpEdited'
      <3>1. UNCHANGED P!vars
        BY DEF vars, parser, P!vars, P!counts, P!result
      <3>2. QED
        BY <3>1, ParserStep DEF IInv, Calls
    <2>3. QED
      BY <1>1, <2>1, <2>2 DEF IInv, Calls
  <1>4. QED
    BY <1>2, <1>3 DEF IInv

LEMMA Preservation == IInv /\ [Next]_vars => IInv'
  BY EndOfFilePreserves, CallTokenizePreserves, TokenizePreserves, NothingToParsePreserves,
     CallParsePreserves, ParsePreserves, CallHeredocPreserves, HeredocPreserves,
     StoreDocumentPreserves, LineEndsPreserves, StutterPreserves
  DEF Next

LEMMA Invariance == Spec => []IInv
  BY Initially, Preservation, PTL DEF Spec

\* The loop stays on what is typed or one past it, only lines of it have memory, and the
\* documents are in files that my_mkstemp() can make.
THEOREM TypeCorrect == Spec => []TypeOK
  <1>1. IInv => TypeOK
    <2> SUFFICES ASSUME IInv PROVE TypeOK
      OBVIOUS
    <2>1. DOMAIN typed = 1..Len(typed)
      BY TypedLines DEF IInv
    <2>2. heap \subseteq [kind : {"tokens", "commands"}, at : DOMAIN typed]
      BY <2>1 DEF IInv, Heap
    <2>3. QED
      BY <2>2 DEF IInv, Loop, Busy, TypeOK
  <1>2. QED
    BY <1>1, Invariance, PTL

\* Whatever is typed, and also where a word was lost or the gluing stopped half-way,
\* tokenize_input() hands parse_tokens() a list that is as Parser assumes it.
THEOREM HandedIsWellFormed == Spec => []HandedWellFormed
  <1>1. IInv => HandedWellFormed
    BY SameLists DEF IInv, Calls, P!IInv, P!TypeOK, HandedWellFormed
  <1>2. QED
    BY <1>1, Invariance, PTL

\* Between two lines neither list of a line is left, but the commands of a line with
\* "<<<<" in it and the tokens of a line with a quote in which memory ran out.
THEOREM ListLeaksAreLocated == Spec => []ListLeaksLocated
  <1>1. IInv => ListLeaksLocated
    <2> SUFFICES ASSUME IInv, phase \in {"prompt", "exit"}, NEW block \in heap
                 PROVE  Lost(block)
      BY DEF ListLeaksLocated, Lost, Doubled, HasQuote
    <2>1. QED
      BY NothingOwned DEF IInv, Busy
  <1>2. QED
    BY <1>1, Invariance, PTL

=============================================================================
