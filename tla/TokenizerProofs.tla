-------------------------- MODULE TokenizerProofs ---------------------------
(***************************************************************************)
(* Proofs about Tokenizer, for every line, environment and status text:     *)
(* type correctness, the two flags' disciplines and the place of commands,  *)
(* and from them that what tokenize_input() returns is well formed, which   *)
(* is what Parser assumes of its input; then what the list has of the       *)
(* line's text and of its operators.                                        *)
(***************************************************************************)
EXTENDS Tokenizer, TextProofs

-----------------------------------------------------------------------------
(* Lists that the handlers make.                                            *)

\* A value is split into finitely many parts, so they make a list of arguments.
LEMMA PartTokensType ==
  ASSUME NEW s \in Seq(Char)
  PROVE  LET list == PartTokens(ft_splitD(s))
         IN  IsTokenList(list) /\ \A k \in 1..Len(list) : list[k].type = "ARG"
  <1> DEFINE n == Cardinality(PartStarts(s))
             parts == ft_splitD(s)
             list == PartTokens(parts)
  <1>1. IsFiniteSet(1..Len(s))
    BY LenProperties, FS_Interval
  <1>2. PartStarts(s) \subseteq 1..Len(s)
    BY LenProperties DEF PartStarts
  <1>3. n \in Nat
    BY <1>1, <1>2, FS_Subset, FS_CardinalityType
  <1>4. Len(parts) = n
    <2>1. DOMAIN parts = 1..n /\ parts = [k \in 1..n |-> parts[k]]
      BY DEF ft_splitD
    <2> HIDE DEF n, parts
    <2>2. parts \in Seq({parts[k] : k \in 1..n})
      BY <1>3, <2>1, SeqDef
    <2>3. DOMAIN parts = 1..Len(parts) /\ Len(parts) \in Nat
      BY <2>2, LenProperties
    <2>4. QED
      BY <1>3, <2>1, <2>3
  <1> HIDE DEF n, parts
  <1>5. /\ DOMAIN list = 1..n /\ list = [k \in 1..n |-> list[k]]
        /\ \A k \in 1..n : list[k].type = "ARG" /\ list[k].space \in BOOLEAN
    <2>1. list = [k \in 1..n |-> SpacedToken("ARG", parts[k], k < n)]
      BY <1>4 DEF PartTokens
    <2>2. ASSUME NEW k \in 1..n
          PROVE  list[k].type = "ARG" /\ list[k].space \in BOOLEAN
      <3>1. list[k] = [type |-> "ARG", value |-> parts[k], space |-> k < n]
        BY <2>1 DEF SpacedToken, new_token
      <3>2. QED
        BY <3>1
    <2>3. QED
      BY <2>1, <2>2
  <1> HIDE DEF list
  <1>6. \A k \in 1..n : list[k].type \in TokenType
    BY <1>5 DEF TokenType
  <1>7. IsTokenList(list) /\ Len(list) = n
    BY <1>3, <1>5, <1>6, TokenListOfFunction
  <1>8. QED
    BY <1>5, <1>7 DEF list, parts

\* A token of a type that new_token() is called with makes a list of one.
LEMMA OneToken ==
  ASSUME NEW type \in TokenType, NEW value, NEW space \in BOOLEAN
  PROVE  /\ LET list == <<new_token(type, value)>>
            IN  IsTokenList(list) /\ Len(list) = 1 /\ list[1].type = type
         /\ LET list == <<SpacedToken(type, value, space)>>
            IN  IsTokenList(list) /\ Len(list) = 1 /\ list[1].type = type
  <1>1. /\ new_token(type, value).type = type
        /\ new_token(type, value).space = FALSE
    BY DEF new_token
  <1>2. SpacedToken(type, value, space) = [type |-> type, value |-> value, space |-> space]
    BY DEF SpacedToken, new_token
  <1>3. /\ SpacedToken(type, value, space).type = type
        /\ SpacedToken(type, value, space).space = space
    BY <1>2
  <1> HIDE DEF SpacedToken, new_token
  <1>4. QED
    BY <1>1, <1>3, TokenListOne

-----------------------------------------------------------------------------
(* A turn of the scanning loop, as far as the flags and types are concerned. *)

Turn(new) ==
  /\ IsTokenList(new)
  /\ tokens' = tokens \o new
  /\ i' \in 1..Len(input)+1
  /\ UNCHANGED <<input, pc, cur>>
  /\ oom' \in BOOLEAN
  /\ \/ /\ Len(new) = 1 /\ new[1].type = "HEREDOC"
        /\ expect_heredoc_delim' = TRUE /\ UNCHANGED expect_filename
     \/ /\ expect_heredoc_delim
        /\ Len(new) = 1 /\ new[1].type = "DELIMITER"
        /\ expect_heredoc_delim' = FALSE /\ UNCHANGED expect_filename
     \/ /\ ~expect_heredoc_delim /\ UNCHANGED expect_heredoc_delim
        /\ Len(new) = 1 /\ new[1].type \in FileRedirection
        /\ expect_filename' = TRUE
     \/ /\ ~expect_heredoc_delim /\ UNCHANGED expect_heredoc_delim
        /\ expect_filename
        /\ Len(new) = 1 /\ new[1].type = "FILENAME"
        /\ expect_filename' = FALSE
     \/ /\ ~expect_heredoc_delim /\ UNCHANGED <<expect_heredoc_delim, expect_filename>>
        /\ \A k \in 1..Len(new) : new[k].type \in {"ARG", "PIPE", "EXIT_STATUS"}
     \/ /\ ~expect_heredoc_delim /\ UNCHANGED <<expect_heredoc_delim, expect_filename>>
        /\ Len(new) = 1 /\ new[1].type = "COMMANDE"
        /\ \/ tokens = <<>>
           \/ tokens[1].type = "PIPE"
           \/ tokens[Len(tokens)].type = "PIPE" /\ ~expect_filename

\* Every handler that goes on takes such a turn.
LEMMA HandlersTakeTurns ==
  ASSUME TypeOK, Scan, ~handle_quotes_fails
  PROVE  \E new : Turn(new)
  <1>1. /\ input \in Seq(Char) /\ Len(input) \in Nat
        /\ i \in 1..Len(input)+1 /\ oom \in BOOLEAN
    BY LenProperties DEF TypeOK
  <1>2. \A type \in TokenType : \A value :
           LET list == <<new_token(type, value)>>
           IN  IsTokenList(list) /\ Len(list) = 1 /\ list[1].type = type
    BY OneToken
  <1>3. \A type \in TokenType : \A value : \A space \in BOOLEAN :
           LET list == <<SpacedToken(type, value, space)>>
           IN  IsTokenList(list) /\ Len(list) = 1 /\ list[1].type = type
    BY OneToken
  <1>4. \A t \in {"ARG", "PIPE", "EXIT_STATUS", "HEREDOC", "DELIMITER", "FILENAME",
                  "INPUT", "OUTPUT", "APPEND", "COMMANDE"} : t \in TokenType
    BY DEF TokenType
  <1>5. IsTokenList(<<>>) /\ Len(<<>>) = 0
    BY TokenListEmpty
  <1>6. ASSUME handlee_heredoc
        PROVE  \E new : Turn(new)
    <2> DEFINE new == <<new_token("HEREDOC", <<"<", "<">>)>>
    <2>1. i + 2 \in 1..Len(input)+1
      BY <1>1, <1>6 DEF handlee_heredoc, AtHeredoc, Scanning, Next1
    <2>2. IsTokenList(new) /\ Len(new) = 1 /\ new[1].type = "HEREDOC"
      BY <1>2, <1>4
    <2>3. /\ tokens' = tokens \o new /\ i' = i + 2
          /\ UNCHANGED <<input, pc, cur, oom, expect_filename>>
          /\ expect_heredoc_delim' = TRUE
      BY <1>6 DEF handlee_heredoc, Emit
    <2> HIDE DEF new
    <2>4. Turn(new)
      BY <1>1, <2>1, <2>2, <2>3 DEF Turn
    <2>5. QED
      BY <2>4
  <1>7. ASSUME handle_heredoc_delim
        PROVE  \E new : Turn(new)
    <2> DEFINE start == EndOfRun(input, i, Char \ Blank)
               end   == EndOfRun(input, start, Blank)
               new   == <<new_token("DELIMITER", SubSeq(input, start, end - 1))>>
    <2>1. start \in 1..Len(input)+1
      BY <1>1, EndOfRunType
    <2>2. end \in 1..Len(input)+1
      BY <1>1, <2>1, EndOfRunType
    <2>3. /\ tokens' = tokens \o new /\ i' = end
          /\ UNCHANGED <<input, pc, cur, oom, expect_filename>>
          /\ expect_heredoc_delim /\ expect_heredoc_delim' = FALSE
      BY <1>7 DEF handle_heredoc_delim, AtDelimiter, Emit
    <2> HIDE DEF end
    <2>4. IsTokenList(new) /\ Len(new) = 1 /\ new[1].type = "DELIMITER"
      BY <1>2, <1>4
    <2> HIDE DEF new
    <2>5. Turn(new)
      BY <1>1, <2>2, <2>3, <2>4 DEF Turn
    <2>6. QED
      BY <2>5
  <1>8. ASSUME handle_quotes
        PROVE  \E new : Turn(new)
    <2> DEFINE close == ClosingQuote(input, i + 1, Current)
               text  == SubSeq(input, i + 1, close - 1)
    <2>1. i \in 1..Len(input) /\ i + 1 \in 1..Len(input)+1 /\ ~expect_heredoc_delim
      BY <1>1, <1>8 DEF handle_quotes, Ordinary, Scanning
    <2>2. close \in i+1..Len(input)+1
      BY <1>1, <2>1, ClosingQuoteType
    <2>3. UNCHANGED <<expect_heredoc_delim, expect_filename, oom>>
      BY <1>8 DEF handle_quotes
    <2>4. CASE close > Len(input) /\ Emit(<<UnclosedToken>>, close)
      <3> DEFINE new == <<UnclosedToken>>
      <3>1. IsTokenList(new) /\ Len(new) = 1 /\ new[1].type = "ARG"
        BY <1>2, <1>4 DEF UnclosedToken
      <3>2. close \in 1..Len(input)+1
        BY <1>1, <2>1, <2>2
      <3>3. tokens' = tokens \o new /\ i' = close /\ UNCHANGED <<input, pc, cur>>
        BY <2>4 DEF Emit
      <3> HIDE DEF new, close
      <3>4. Turn(new)
        BY <1>1, <2>1, <2>3, <3>1, <3>2, <3>3 DEF Turn
      <3>5. QED
        BY <3>4
    <2>5. ASSUME close <= Len(input),
                 NEW value, Emit(<<SpacedToken(TypeAfter(tokens, 1), value, SpaceAt(close + 1))>>,
                                 close + 1)
          PROVE  \E new : Turn(new)
      <3> DEFINE new == <<SpacedToken(TypeAfter(tokens, 1), value, SpaceAt(close + 1))>>
      <3>1. \/ TypeAfter(tokens, 1) = "ARG"
            \/ /\ TypeAfter(tokens, 1) = "COMMANDE"
               /\ tokens = <<>> \/ tokens[1].type = "PIPE"
        BY DEF TypeAfter
      <3>2. SpaceAt(close + 1) \in BOOLEAN
        BY DEF SpaceAt
      <3>3. IsTokenList(new) /\ Len(new) = 1 /\ new[1].type = TypeAfter(tokens, 1)
        BY <1>3, <1>4, <3>1, <3>2
      <3>4. close + 1 \in 1..Len(input)+1
        BY <1>1, <2>1, <2>2, <2>5
      <3>5. tokens' = tokens \o new /\ i' = close + 1 /\ UNCHANGED <<input, pc, cur>>
        BY <2>5 DEF Emit
      <3> HIDE DEF new, close
      <3>6. CASE TypeAfter(tokens, 1) = "ARG"
        <4>1. Turn(new)
          BY <1>1, <2>1, <2>3, <3>3, <3>4, <3>5, <3>6 DEF Turn
        <4>2. QED
          BY <4>1
      <3>7. CASE TypeAfter(tokens, 1) = "COMMANDE" /\ (tokens = <<>> \/ tokens[1].type = "PIPE")
        <4>1. Turn(new)
          BY <1>1, <2>1, <2>3, <3>3, <3>4, <3>5, <3>7 DEF Turn
        <4>2. QED
          BY <4>1
      <3>8. QED
        BY <3>1, <3>6, <3>7
    <2>6. QED
      <3> HIDE DEF close
      <3>1. \/ close > Len(input) /\ Emit(<<UnclosedToken>>, close)
            \/ /\ close <= Len(input)
               /\ \E value : Emit(<<SpacedToken(TypeAfter(tokens, 1), value, SpaceAt(close + 1))>>,
                                  close + 1)
        BY <1>8 DEF handle_quotes, close
      <3>2. QED
        BY <2>4, <2>5, <3>1
  <1>9. ASSUME skip_blank
        PROVE  \E new : Turn(new)
    <2>1. /\ i + 1 \in 1..Len(input)+1 /\ ~expect_heredoc_delim
          /\ tokens' = tokens \o <<>> /\ i' = i + 1
          /\ UNCHANGED <<input, pc, cur, oom, expect_heredoc_delim, expect_filename>>
      BY <1>1, <1>9 DEF skip_blank, Ordinary, Scanning, Emit
    <2>2. \A k \in 1..Len(<<>>) : <<>>[k].type \in {"ARG", "PIPE", "EXIT_STATUS"}
      BY <1>5
    <2>3. Turn(<<>>)
      BY <1>1, <1>5, <2>1, <2>2 DEF Turn
    <2>4. QED
      BY <2>3
  <1>10. ASSUME exit_status
         PROVE  \E new : Turn(new)
    <2> DEFINE new == <<new_token("EXIT_STATUS", <<"$", "?">>)>>
    <2>1. i + 2 \in 1..Len(input)+1 /\ ~expect_heredoc_delim
      BY <1>1, <1>10 DEF exit_status, AtExitStatus, Ordinary, Scanning, Next1
    <2>2. IsTokenList(new) /\ Len(new) = 1 /\ new[1].type = "EXIT_STATUS"
      BY <1>2, <1>4
    <2>3. /\ tokens' = tokens \o new /\ i' = i + 2
          /\ UNCHANGED <<input, pc, cur, oom, expect_heredoc_delim, expect_filename>>
      BY <1>10 DEF exit_status, Emit
    <2> HIDE DEF new
    <2>4. Turn(new)
      BY <1>1, <2>1, <2>2, <2>3 DEF Turn
    <2>5. QED
      BY <2>4
  <1>11. ASSUME pipe
         PROVE  \E new : Turn(new)
    <2> DEFINE new == <<new_token("PIPE", <<"|">>)>>
    <2>1. i + 1 \in 1..Len(input)+1 /\ ~expect_heredoc_delim
      BY <1>1, <1>11 DEF pipe, Ordinary, Scanning
    <2>2. IsTokenList(new) /\ Len(new) = 1 /\ new[1].type = "PIPE"
      BY <1>2, <1>4
    <2>3. /\ tokens' = tokens \o new /\ i' = i + 1
          /\ UNCHANGED <<input, pc, cur, oom, expect_heredoc_delim, expect_filename>>
      BY <1>11 DEF pipe, Emit
    <2> HIDE DEF new
    <2>4. Turn(new)
      BY <1>1, <2>1, <2>2, <2>3 DEF Turn
    <2>5. QED
      BY <2>4
  <1>12. ASSUME handle_redirections
         PROVE  \E new : Turn(new)
    <2> DEFINE new == <<RedirectionToken>>
    <2>1. i + RedirectionWidth \in 1..Len(input)+1 /\ ~expect_heredoc_delim
      BY <1>1, <1>12
      DEF handle_redirections, Ordinary, Scanning, Next1, RedirectionWidth
    <2>2. \E type \in FileRedirection, value \in {<<"<">>, <<">", ">">>, <<">">>} :
             RedirectionToken = new_token(type, value)
      BY DEF RedirectionToken, FileRedirection
    <2>3. \A type \in FileRedirection : type \in TokenType
      BY DEF FileRedirection, TokenType
    <2>4. IsTokenList(new) /\ Len(new) = 1 /\ new[1].type \in FileRedirection
      BY <1>2, <2>2, <2>3
    <2>5. /\ tokens' = tokens \o new /\ i' = i + RedirectionWidth
          /\ UNCHANGED <<input, pc, cur, oom, expect_heredoc_delim>>
          /\ expect_filename' = TRUE
      BY <1>12 DEF handle_redirections, Emit
    <2> HIDE DEF new
    <2>6. Turn(new)
      BY <1>1, <2>1, <2>4, <2>5 DEF Turn
    <2>7. QED
      BY <2>6
  <1>13. ASSUME handle_filename
         PROVE  \E new : Turn(new)
    <2> DEFINE end == EndOfRun(input, i, Blank \cup Operator \cup Quote)
               new == <<new_token("FILENAME", SubSeq(input, i, end - 1))>>
    <2>1. end \in 1..Len(input)+1
      BY <1>1, EndOfRunType
    <2>2. IsTokenList(new) /\ Len(new) = 1 /\ new[1].type = "FILENAME"
      BY <1>2, <1>4
    <2>3. /\ tokens' = tokens \o new /\ i' = end
          /\ UNCHANGED <<input, pc, cur, oom, expect_heredoc_delim>>
          /\ ~expect_heredoc_delim /\ expect_filename /\ expect_filename' = FALSE
      BY <1>13 DEF handle_filename, AtTarget, AtPlain, Ordinary, Emit
    <2> HIDE DEF end, new
    <2>4. Turn(new)
      BY <1>1, <2>1, <2>2, <2>3 DEF Turn
    <2>5. QED
      BY <2>4
  <1>14. ASSUME handle_env_var
         PROVE  \E new : Turn(new)
    <2> DEFINE brace == EndOfRun(input, i + 1, {"}"})
               end   == IF Next1 = "{" THEN IF brace <= Len(input) THEN brace + 1 ELSE brace
                        ELSE EndOfName(input, i + 1)
               name  == SubSeq(input, i + 1, end - 1)
    <2>1. i + 1 \in 1..Len(input)+1 /\ ~expect_heredoc_delim
      <3>1. AtPlain
        BY <1>14 DEF handle_env_var
      <3>2. QED
        BY <1>1, <3>1 DEF AtPlain, Ordinary, Scanning
    <2>2. brace \in i+1..Len(input)+1 /\ EndOfName(input, i + 1) \in i+1..Len(input)+1
      BY <1>1, <2>1, EndOfRunType DEF EndOfName
    <2>3. end \in 1..Len(input)+1
      <3>0. \A n \in i+1..Len(input)+1 : n \in 1..Len(input)+1
        BY <1>1
      <3> HIDE DEF brace
      <3>1. brace \in 1..Len(input)+1 /\ EndOfName(input, i + 1) \in 1..Len(input)+1
        BY <2>2, <3>0
      <3>2. brace <= Len(input) => brace + 1 \in 1..Len(input)+1
        BY <1>1, <3>1
      <3>3. QED
        BY <3>1, <3>2
    <2>4. UNCHANGED <<expect_heredoc_delim, expect_filename, oom>>
      BY <1>14 DEF handle_env_var
    <2>5. ASSUME NEW new, IsTokenList(new), \A k \in 1..Len(new) : new[k].type = "ARG",
                 Emit(new, end)
          PROVE  \E list : Turn(list)
      <3>1. tokens' = tokens \o new /\ i' = end /\ UNCHANGED <<input, pc, cur>>
        BY <2>5 DEF Emit
      <3> HIDE DEF end
      <3>2. \A k \in 1..Len(new) : new[k].type \in {"ARG", "PIPE", "EXIT_STATUS"}
        BY <2>5
      <3>3. Turn(new)
        BY <1>1, <2>1, <2>3, <2>4, <2>5, <3>1, <3>2 DEF Turn
      <3>4. QED
        BY <3>3
    <2>6. ASSUME NEW value
          PROVE  LET list == <<new_token("ARG", value)>>
                 IN  IsTokenList(list) /\ \A k \in 1..Len(list) : list[k].type = "ARG"
      <3> DEFINE list == <<new_token("ARG", value)>>
      <3>1. IsTokenList(list) /\ Len(list) = 1 /\ list[1].type = "ARG"
        BY <1>2, <1>4
      <3> HIDE DEF list
      <3>2. QED
        BY <3>1 DEF list
    <2>7. LET list == ValueTokens(name)
          IN  IsTokenList(list) /\ \A k \in 1..Len(list) : list[k].type = "ARG"
      <3> HIDE DEF name
      <3>1. name \in DOMAIN Env => Env[name] \in Seq(Char)
        BY TextAssumption
      <3>2. CASE name \in DOMAIN Env /\ ~EnclosedInQuotes(Env[name])
        BY <3>1, <3>2, PartTokensType DEF ValueTokens
      <3>3. CASE ~(name \in DOMAIN Env /\ ~EnclosedInQuotes(Env[name]))
        <4>1. \/ ValueTokens(name) = <<new_token("ARG", <<>>)>>
              \/ ValueTokens(name) = <<new_token("ARG", Env[name])>>
          BY <3>3 DEF ValueTokens
        <4>2. QED
          BY <2>6, <4>1
      <3>4. QED
        BY <3>2, <3>3
    <2>8. \/ Emit(<<new_token("ARG", <<"$">>)>>, end)
          \/ Emit(ValueTokens(name), end)
      <3>1. IF end = i + 1 THEN Emit(<<new_token("ARG", <<"$">>)>>, end)
            ELSE Emit(ValueTokens(name), end)
        BY <1>14 DEF handle_env_var
      <3> HIDE DEF end, name
      <3>2. QED
        BY <3>1
    <2> HIDE DEF end, name
    <2>9. QED
      BY <2>5, <2>6, <2>7, <2>8
  <1>15. ASSUME handle_command_or_argument
         PROVE  \E new : Turn(new)
    <2> DEFINE end  == WordEnd(input, i)
               type == TypeAfter(tokens, Len(tokens))
    <2>1. ~expect_heredoc_delim /\ ~expect_filename /\ end \in 1..Len(input)+1
      BY <1>1, <1>15, WordEndType DEF handle_command_or_argument, AtWord, AtPlain, Ordinary
    <2>2. UNCHANGED <<expect_heredoc_delim, expect_filename, oom>>
      BY <1>15 DEF handle_command_or_argument
    <2>3. \/ Emit(<<>>, end)
          \/ \E value : Emit(<<SpacedToken(type, value, SpaceAt(end))>>, end)
      BY <1>15 DEF handle_command_or_argument
    <2> HIDE DEF end
    <2>4. CASE Emit(<<>>, end)
      <3>1. tokens' = tokens \o <<>> /\ i' = end /\ UNCHANGED <<input, pc, cur>>
        BY <2>4 DEF Emit
      <3>2. \A k \in 1..Len(<<>>) : <<>>[k].type \in {"ARG", "PIPE", "EXIT_STATUS"}
        BY <1>5
      <3>3. Turn(<<>>)
        BY <1>1, <1>5, <2>1, <2>2, <3>1, <3>2 DEF Turn
      <3>4. QED
        BY <3>3
    <2>5. ASSUME NEW value, Emit(<<SpacedToken(type, value, SpaceAt(end))>>, end)
          PROVE  \E new : Turn(new)
      <3> DEFINE new == <<SpacedToken(type, value, SpaceAt(end))>>
      <3>1. \/ type = "ARG"
            \/ /\ type = "COMMANDE"
               /\ tokens = <<>> \/ tokens[Len(tokens)].type = "PIPE"
        BY DEF TypeAfter
      <3>2. SpaceAt(end) \in BOOLEAN
        BY DEF SpaceAt
      <3>3. IsTokenList(new) /\ Len(new) = 1 /\ new[1].type = type
        BY <1>3, <1>4, <3>1, <3>2
      <3>4. tokens' = tokens \o new /\ i' = end /\ UNCHANGED <<input, pc, cur>>
        BY <2>5 DEF Emit
      <3> HIDE DEF new, type
      <3>5. CASE type = "ARG"
        <4>1. Turn(new)
          BY <1>1, <2>1, <2>2, <3>3, <3>4, <3>5 DEF Turn
        <4>2. QED
          BY <4>1
      <3>6. CASE type = "COMMANDE" /\ (tokens = <<>> \/ tokens[Len(tokens)].type = "PIPE")
        <4>1. Turn(new)
          BY <1>1, <2>1, <2>2, <3>3, <3>4, <3>6 DEF Turn
        <4>2. QED
          BY <4>1
      <3>7. QED
        BY <3>1, <3>5, <3>6
    <2>6. QED
      BY <2>3, <2>4, <2>5
  <1>16. ASSUME word_lost
         PROVE  \E new : Turn(new)
    <2>1. /\ ~expect_heredoc_delim /\ WordEnd(input, i) \in 1..Len(input)+1
          /\ tokens' = tokens \o <<>> /\ i' = WordEnd(input, i) /\ oom' = TRUE
          /\ UNCHANGED <<input, pc, cur, expect_heredoc_delim, expect_filename>>
      BY <1>1, <1>16, WordEndType DEF word_lost, AtWord, AtPlain, Ordinary, Emit
    <2>2. \A k \in 1..Len(<<>>) : <<>>[k].type \in {"ARG", "PIPE", "EXIT_STATUS"}
      BY <1>5
    <2>3. Turn(<<>>)
      BY <1>5, <2>1, <2>2 DEF Turn
    <2>4. QED
      BY <2>3
  <1>17. QED
    BY <1>6, <1>7, <1>8, <1>9, <1>10, <1>11, <1>12, <1>13, <1>14, <1>15, <1>16 DEF Scan

-----------------------------------------------------------------------------
(* The inductive invariant: the flags' disciplines and the place of commands *)
(* support one another, so they are proved together.                        *)

Inv == TypeOK /\ HeredocDiscipline /\ FilenameDiscipline /\ CommandPosition

\* How a call starts, in a session where an allocation may have failed before.
Begins ==
  /\ input \in Seq(Char) \ {<<>>}
  /\ pc = "scan" /\ i = 1 /\ tokens = <<>> /\ cur = 1
  /\ expect_heredoc_delim = FALSE /\ expect_filename = FALSE
  /\ oom \in BOOLEAN

LEMMA BeginsInv == Begins => Inv
  <1> SUFFICES ASSUME Begins PROVE Inv
    OBVIOUS
  <1>1. tokens = <<>> /\ IsTokenList(tokens) /\ Len(tokens) = 0 /\ DOMAIN tokens = {}
    BY TokenListEmpty DEF Begins
  <1>2. TypeOK
    <2>1. input \in Seq(Char) \ {<<>>} /\ Len(input) \in Nat
      BY LenProperties DEF Begins
    <2>2. i \in 1..Len(input)+1 /\ cur \in Nat \ {0}
      BY <2>1 DEF Begins
    <2>3. QED
      BY <1>1, <2>1, <2>2 DEF Begins, TypeOK
  <1>3. ~Pending(tokens, Len(tokens))
    BY <1>1 DEF Pending
  <1>4. QED
    BY <1>1, <1>2, <1>3
    DEF Begins, Inv, HeredocDiscipline, FilenameDiscipline, CommandPosition,
        DelimitersOwned, FilenamesOwned, CommandsPlaced

LEMMA InitInv == Init => Inv
  <1>1. Init => Begins
    BY InputsAssumption DEF Init, Begins
  <1>2. QED
    BY <1>1, BeginsInv

\* A turn preserves it.
LEMMA TurnPreservesInv ==
  ASSUME Inv, pc = "scan", NEW new, Turn(new)
  PROVE  Inv'
  <1>1. /\ IsTokenList(tokens) /\ IsTokenList(new) /\ tokens' = tokens \o new
        /\ Len(tokens) \in Nat /\ Len(new) \in Nat
        /\ pc' = "scan"
    BY TokenListElements DEF Inv, TypeOK, Turn
  <1>2. /\ IsTokenList(tokens \o new)
        /\ Len(tokens \o new) = Len(tokens) + Len(new)
        /\ \A k \in 1..Len(tokens) : (tokens \o new)[k] = tokens[k]
        /\ \A k \in 1..Len(new) : (tokens \o new)[Len(tokens) + k] = new[k]
    BY <1>1, TokenListConcat
  <1>3. /\ tokens # <<>> => Len(tokens) > 0
        /\ tokens = <<>> => Len(tokens) = 0
        /\ new # <<>> => Len(new) > 0
        /\ new = <<>> => Len(new) = 0
    BY <1>1, EmptySeq DEF IsTokenList
  <1>4. /\ expect_heredoc_delim <=> tokens # <<>> /\ tokens[Len(tokens)].type = "HEREDOC"
        /\ expect_filename <=> Pending(tokens, Len(tokens))
        /\ DelimitersOwned(tokens) /\ FilenamesOwned(tokens) /\ CommandsPlaced(tokens)
        /\ expect_heredoc_delim \in BOOLEAN /\ expect_filename \in BOOLEAN
    BY DEF Inv, TypeOK, HeredocDiscipline, FilenameDiscipline, CommandPosition
  <1>5. TypeOK'
    BY <1>1, <1>2, <1>4 DEF Inv, TypeOK, Turn
  <1>6. Len(new) = 1 => \A k \in 1..Len(new) : k = 1
    BY <1>1
  <1>7. Len(new) = 1 => new # <<>> /\ 1 \in 1..Len(new)
                        /\ Len(tokens') = Len(tokens) + 1
                        /\ tokens'[Len(tokens')] = new[1] /\ tokens' # <<>>
    BY <1>1, <1>2, <1>3, TokenListEmpty
  <1> USE DEF FileRedirection
  <1>8. CASE /\ Len(new) = 1 /\ new[1].type = "HEREDOC"
             /\ expect_heredoc_delim' = TRUE /\ UNCHANGED expect_filename
    <2>1. DelimitersOwned(tokens')
      BY <1>1, <1>4, <1>6, <1>7, <1>8, DelimitersOwnedConcat
    <2>2. FilenamesOwned(tokens') /\ CommandsPlaced(tokens')
      BY <1>1, <1>4, <1>6, <1>7, <1>8, FilenamesOwnedConcat, CommandsPlacedConcat
    <2>3. Pending(tokens', Len(tokens')) <=> Pending(tokens, Len(tokens))
      BY <1>1, <1>2, <1>6, <1>8, PendingNeutral
    <2>4. QED
      BY <1>1, <1>4, <1>5, <1>7, <1>8, <2>1, <2>2, <2>3
      DEF Inv, HeredocDiscipline, FilenameDiscipline, CommandPosition
  <1>9. CASE /\ expect_heredoc_delim
             /\ Len(new) = 1 /\ new[1].type = "DELIMITER"
             /\ expect_heredoc_delim' = FALSE /\ UNCHANGED expect_filename
    <2>1. DelimitersOwned(tokens')
      BY <1>1, <1>4, <1>6, <1>7, <1>9, DelimitersOwnedConcat
    <2>2. FilenamesOwned(tokens') /\ CommandsPlaced(tokens')
      BY <1>1, <1>4, <1>6, <1>7, <1>9, FilenamesOwnedConcat, CommandsPlacedConcat
    <2>3. Pending(tokens', Len(tokens')) <=> Pending(tokens, Len(tokens))
      BY <1>1, <1>2, <1>6, <1>9, PendingNeutral
    <2>4. QED
      BY <1>1, <1>4, <1>5, <1>7, <1>9, <2>1, <2>2, <2>3
      DEF Inv, HeredocDiscipline, FilenameDiscipline, CommandPosition
  <1>10. CASE /\ ~expect_heredoc_delim /\ UNCHANGED expect_heredoc_delim
              /\ Len(new) = 1 /\ new[1].type \in FileRedirection
              /\ expect_filename' = TRUE
    <2>1. DelimitersOwned(tokens')
      BY <1>1, <1>4, <1>6, <1>7, <1>10, DelimitersOwnedConcat
    <2>2. FilenamesOwned(tokens') /\ CommandsPlaced(tokens')
      BY <1>1, <1>4, <1>6, <1>7, <1>10, FilenamesOwnedConcat, CommandsPlacedConcat
    <2>3. Pending(tokens', Len(tokens'))
      <3>1. PICK n \in 1..Len(tokens') : n = Len(tokens')
        BY <1>1, <1>7, <1>10
      <3>2. tokens'[n].type \in FileRedirection
        BY <1>7, <1>10, <3>1
      <3>3. \A m \in n..Len(tokens') : m = n
        BY <1>1, <1>7, <1>10, <3>1
      <3>4. QED
        BY <3>1, <3>2, <3>3 DEF Pending
    <2>4. QED
      BY <1>1, <1>4, <1>5, <1>7, <1>10, <2>1, <2>2, <2>3
      DEF Inv, HeredocDiscipline, FilenameDiscipline, CommandPosition
  <1>11. CASE /\ ~expect_heredoc_delim /\ UNCHANGED expect_heredoc_delim
              /\ expect_filename
              /\ Len(new) = 1 /\ new[1].type = "FILENAME"
              /\ expect_filename' = FALSE
    <2>1. DelimitersOwned(tokens')
      BY <1>1, <1>4, <1>6, <1>7, <1>11, DelimitersOwnedConcat
    <2>2. FilenamesOwned(tokens') /\ CommandsPlaced(tokens')
      BY <1>1, <1>4, <1>6, <1>7, <1>11, FilenamesOwnedConcat, CommandsPlacedConcat
    <2>3. ~Pending(tokens', Len(tokens'))
      <3>1. \A m \in 1..Len(tokens') : Len(tokens') \in m..Len(tokens')
        BY <1>1, <1>7, <1>11
      <3>2. QED
        BY <1>7, <1>11, <3>1 DEF Pending
    <2>4. QED
      BY <1>1, <1>4, <1>5, <1>7, <1>11, <2>1, <2>2, <2>3
      DEF Inv, HeredocDiscipline, FilenameDiscipline, CommandPosition
  <1>12. CASE /\ ~expect_heredoc_delim
              /\ UNCHANGED <<expect_heredoc_delim, expect_filename>>
              /\ \A k \in 1..Len(new) : new[k].type \in {"ARG", "PIPE", "EXIT_STATUS"}
    <2>1. new # <<>> => 1 \in 1..Len(new) /\ Len(new) \in 1..Len(new)
      BY <1>1, <1>3
    <2>2. DelimitersOwned(tokens')
      BY <1>1, <1>4, <1>12, <2>1, DelimitersOwnedConcat
    <2>3. FilenamesOwned(tokens') /\ CommandsPlaced(tokens')
      BY <1>1, <1>4, <1>12, FilenamesOwnedConcat, CommandsPlacedConcat
    <2>4. Pending(tokens', Len(tokens')) <=> Pending(tokens, Len(tokens))
      <3>1. Len(new) \in 0..Len(new)
        BY <1>1
      <3>2. QED
        BY <1>1, <1>2, <1>12, <3>1, PendingNeutral
    <2>5. ~(tokens' # <<>> /\ tokens'[Len(tokens')].type = "HEREDOC")
      <3>1. CASE new = <<>>
        <4>1. tokens' = tokens
          BY <1>1, <3>1, ConcatEmptySeq DEF IsTokenList
        <4>2. QED
          BY <1>4, <1>12, <4>1
      <3>2. CASE new # <<>>
        <4>1. tokens'[Len(tokens')] = new[Len(new)]
          BY <1>1, <1>2, <2>1, <3>2
        <4>2. QED
          BY <1>12, <2>1, <3>2, <4>1
      <3>3. QED
        BY <3>1, <3>2
    <2>6. QED
      BY <1>1, <1>4, <1>5, <1>12, <2>2, <2>3, <2>4, <2>5
      DEF Inv, HeredocDiscipline, FilenameDiscipline, CommandPosition
  <1>13. CASE /\ ~expect_heredoc_delim
              /\ UNCHANGED <<expect_heredoc_delim, expect_filename>>
              /\ Len(new) = 1 /\ new[1].type = "COMMANDE"
              /\ \/ tokens = <<>>
                 \/ tokens[1].type = "PIPE"
                 \/ tokens[Len(tokens)].type = "PIPE" /\ ~expect_filename
    <2>1. DelimitersOwned(tokens')
      BY <1>1, <1>4, <1>6, <1>7, <1>13, DelimitersOwnedConcat
    <2>2. FilenamesOwned(tokens')
      BY <1>1, <1>4, <1>6, <1>7, <1>13, FilenamesOwnedConcat
    <2>3. CommandsPlaced(tokens')
      BY <1>1, <1>4, <1>6, <1>7, <1>13, CommandsPlacedConcat
    <2>4. Pending(tokens', Len(tokens')) <=> Pending(tokens, Len(tokens))
      BY <1>1, <1>2, <1>6, <1>13, PendingNeutral
    <2>5. QED
      BY <1>1, <1>4, <1>5, <1>7, <1>13, <2>1, <2>2, <2>3, <2>4
      DEF Inv, HeredocDiscipline, FilenameDiscipline, CommandPosition
  <1>14. QED
    BY <1>8, <1>9, <1>10, <1>11, <1>12, <1>13 DEF Turn

\* A merge joins the current word with the one behind it.
LEMMA MergeJoins ==
  ASSUME IsTokenList(tokens), cur \in Nat \ {0}, concat_merge
  PROVE  Joins(tokens, cur, tokens')
  <1>1. Len(tokens) \in Nat /\ cur \in 1..Len(tokens)-1 /\ Glued(tokens[cur], tokens[cur+1])
    BY TokenListElements DEF concat_merge
  <1>2. \A k \in 1..Len(tokens) : /\ tokens[k].type \in TokenType
                                  /\ tokens[k].space \in BOOLEAN
    BY TokenListElements
  <1> DEFINE n == Len(tokens) - 1
             merged == Merged(tokens[cur], tokens[cur+1])
             new(k) == CASE k < cur -> tokens[k]
                         [] k = cur -> merged
                         [] k > cur -> tokens[k+1]
  <1>3. n \in Nat /\ \A k \in 1..n : k \in 1..Len(tokens) /\ k + 1 \in 1..Len(tokens)
    BY <1>1
  <1>4. /\ DOMAIN tokens' = 1..n /\ tokens' = [k \in 1..n |-> tokens'[k]]
        /\ \A k \in 1..n : tokens'[k] = new(k)
    <2>1. tokens' = [k \in 1..n |-> new(k)]
      BY DEF concat_merge
    <2> HIDE DEF new
    <2>2. QED
      BY <2>1
  <1>5. merged.type = tokens[cur].type /\ merged.space = tokens[cur].space
    BY DEF Merged
  <1> HIDE DEF merged
  <1>6. ASSUME NEW k \in 1..n
        PROVE  /\ tokens'[k].type = IF k <= cur THEN tokens[k].type ELSE tokens[k+1].type
               /\ tokens'[k].type \in TokenType /\ tokens'[k].space \in BOOLEAN
    <2>1. CASE k < cur
      <3>1. tokens'[k] = tokens[k] /\ k <= cur
        BY <1>1, <1>4, <2>1
      <3>2. QED
        BY <1>2, <1>3, <3>1
    <2>2. CASE k = cur
      <3>1. tokens'[k] = merged /\ k <= cur
        BY <1>1, <1>4, <2>2
      <3>2. QED
        BY <1>2, <1>3, <1>5, <2>2, <3>1
    <2>3. CASE k > cur
      <3>1. tokens'[k] = tokens[k+1] /\ ~(k <= cur)
        BY <1>1, <1>4, <2>3
      <3>2. QED
        BY <1>2, <1>3, <3>1
    <2>4. QED
      BY <1>1, <2>1, <2>2, <2>3
  <1>7. IsTokenList(tokens') /\ Len(tokens') = n
    BY <1>3, <1>4, <1>6, TokenListOfFunction
  <1>8. QED
    BY <1>1, <1>6, <1>7 DEF Joins, Glued

\* A step of concatinate() preserves it.
LEMMA ConcatPreservesInv ==
  ASSUME Inv, Concatinate
  PROVE  Inv'
  <1>1. /\ IsTokenList(tokens) /\ Len(tokens) \in Nat /\ cur \in Nat \ {0}
        /\ DelimitersOwned(tokens) /\ FilenamesOwned(tokens) /\ CommandsPlaced(tokens)
    BY TokenListElements
    DEF Inv, TypeOK, HeredocDiscipline, FilenameDiscipline, CommandPosition
  <1>2. ASSUME concat_merge
        PROVE  Inv'
    <2>1. Joins(tokens, cur, tokens')
      BY <1>1, <1>2, MergeJoins
    <2>2. DelimitersOwned(tokens') /\ FilenamesOwned(tokens') /\ CommandsPlaced(tokens')
      BY <1>1, <2>1, JoinsKeepsOrder
    <2>3. /\ UNCHANGED <<input, pc, i, expect_heredoc_delim, expect_filename, cur, oom>>
          /\ pc = "concat" /\ IsTokenList(tokens')
      BY <1>2, <2>1 DEF concat_merge, Joins
    <2>4. QED
      BY <2>2, <2>3
      DEF Inv, TypeOK, HeredocDiscipline, FilenameDiscipline, CommandPosition
  <1>3. ASSUME concat_advance
        PROVE  Inv'
    <2>1. cur' \in Nat \ {0} /\ pc = "concat"
          /\ UNCHANGED <<input, pc, i, tokens, expect_heredoc_delim, expect_filename, oom>>
      BY <1>1, <1>3 DEF concat_advance
    <2>2. QED
      BY <2>1 DEF Inv, TypeOK, HeredocDiscipline, FilenameDiscipline, CommandPosition
  <1>4. ASSUME concat_fails \/ concat_end
        PROVE  Inv'
    <2>1. /\ pc' = "done" /\ oom' \in BOOLEAN
          /\ UNCHANGED <<input, i, tokens, expect_heredoc_delim, expect_filename, cur>>
      BY <1>4 DEF concat_fails, concat_end, Inv, TypeOK
    <2>2. QED
      BY <2>1 DEF Inv, TypeOK, HeredocDiscipline, FilenameDiscipline, CommandPosition
  <1>5. QED
    BY <1>2, <1>3, <1>4 DEF Concatinate

LEMMA NextPreservesInv == Inv /\ [Next]_vars => Inv'
  <1> SUFFICES ASSUME Inv, [Next]_vars PROVE Inv'
    OBVIOUS
  <1>1. CASE Scan /\ ~handle_quotes_fails
    <2>1. TypeOK
      BY DEF Inv
    <2>2. PICK new : Turn(new)
      BY <1>1, <2>1, HandlersTakeTurns
    <2>3. pc = "scan"
      BY <1>1
      DEF Scan, handlee_heredoc, handle_heredoc_delim, handle_quotes, skip_blank, exit_status,
          pipe, handle_redirections, handle_filename, handle_env_var,
          handle_command_or_argument, word_lost, AtHeredoc, AtDelimiter, AtExitStatus,
          AtTarget, AtWord, AtPlain, Ordinary, Scanning
    <2>4. QED
      BY <2>2, <2>3, TurnPreservesInv
  <1>2. CASE handle_quotes_fails
    <2>1. /\ pc' = "failed" /\ oom' = TRUE
          /\ UNCHANGED <<input, i, tokens, expect_heredoc_delim, expect_filename, cur>>
      BY <1>2 DEF handle_quotes_fails
    <2>2. QED
      BY <2>1 DEF Inv, TypeOK, HeredocDiscipline, FilenameDiscipline, CommandPosition
  <1>3. CASE end_of_input
    <2>1. /\ pc' = "concat"
          /\ UNCHANGED <<input, i, tokens, expect_heredoc_delim, expect_filename, cur, oom>>
      BY <1>3 DEF end_of_input
    <2>2. QED
      BY <2>1 DEF Inv, TypeOK, HeredocDiscipline, FilenameDiscipline, CommandPosition
  <1>4. CASE Concatinate
    BY <1>4, ConcatPreservesInv
  <1>5. CASE UNCHANGED vars
    BY <1>5 DEF vars, Inv, TypeOK, HeredocDiscipline, FilenameDiscipline, CommandPosition
  <1>6. QED
    BY <1>1, <1>2, <1>3, <1>4, <1>5 DEF Next

\* The invariant holds in every state of every call.
THEOREM Invariance == Spec => []Inv
  <1>1. QED
    BY InitInv, NextPreservesInv, PTL DEF Spec

-----------------------------------------------------------------------------
(* The results.                                                             *)

\* No scan leaves the line, and the list is always a list of tokens, whatever the
\* line and the values of the variables in it.
THEOREM TypeCorrect == Spec => []TypeOK
  <1>1. Inv => TypeOK
    BY DEF Inv
  <1>2. QED
    BY <1>1, Invariance, PTL

\* Every DELIMITER stands behind its HEREDOC, and the flag says when one is due.
THEOREM HeredocsDisciplined == Spec => []HeredocDiscipline
  <1>1. Inv => HeredocDiscipline
    BY DEF Inv
  <1>2. QED
    BY <1>1, Invariance, PTL

\* Every FILENAME answers a redirection, and the flag says when one is due.
THEOREM FilenamesDisciplined == Spec => []FilenameDiscipline
  <1>1. Inv => FilenameDiscipline
    BY DEF Inv
  <1>2. QED
    BY <1>1, Invariance, PTL

\* A word typed COMMANDE stands where a command can start.
THEOREM CommandsInPosition == Spec => []CommandPosition
  <1>1. Inv => CommandPosition
    BY DEF Inv
  <1>2. QED
    BY <1>1, Invariance, PTL

\* What a call returns, if it is a list at all, is well formed: the assumption that
\* Parser makes about its input is what tokenize_input() guarantees.
THEOREM ReturnsWellFormed == Spec => [](pc = "done" /\ tokens # <<>> => WellFormed(tokens))
  <1>1. Inv => (pc = "done" /\ tokens # <<>> => WellFormed(tokens))
    BY DEF Inv, TypeOK, HeredocDiscipline, FilenameDiscipline, CommandPosition, WellFormed
  <1>2. QED
    BY <1>1, Invariance, PTL

-----------------------------------------------------------------------------
(* What concatinate() leaves.                                               *)

\* Behind the current token nothing is left to glue.
GlueInv ==
  /\ pc = "scan" => cur = 1
  /\ pc = "concat" \/ (pc = "done" /\ ~oom) =>
       \A k \in 1..Len(tokens)-1 : k < cur \/ pc = "done" => ~Glued(tokens[k], tokens[k+1])

LEMMA GlueStep == Inv /\ GlueInv /\ [Next]_vars => GlueInv'
  <1> SUFFICES ASSUME Inv, GlueInv, [Next]_vars PROVE GlueInv'
    OBVIOUS
  <1>1. /\ Len(tokens) \in Nat /\ cur \in Nat \ {0}
        /\ pc \in {"scan", "concat", "done", "failed"}
    BY TokenListElements DEF Inv, TypeOK
  <1>2. CASE Scan
    <2>1. pc = "scan" /\ cur' = cur /\ pc' \in {"scan", "failed"}
      BY <1>2
      DEF Scan, handlee_heredoc, handle_heredoc_delim, handle_quotes, handle_quotes_fails,
          skip_blank, exit_status, pipe, handle_redirections, handle_filename,
          handle_env_var, handle_command_or_argument, word_lost, Emit, AtHeredoc,
          AtDelimiter, AtExitStatus, AtTarget, AtWord, AtPlain, Ordinary, Scanning
    <2>2. QED
      BY <2>1 DEF GlueInv
  <1>3. CASE end_of_input
    BY <1>1, <1>3 DEF end_of_input, GlueInv
  <1>4. CASE concat_merge
    <2>1. /\ pc = "concat" /\ pc' = "concat" /\ cur' = cur /\ cur < Len(tokens)
          /\ tokens' = [k \in 1..Len(tokens)-1 |->
                         CASE k < cur -> tokens[k]
                           [] k = cur -> Merged(tokens[cur], tokens[cur+1])
                           [] k > cur -> tokens[k+1]]
      BY <1>4 DEF concat_merge
    <2>2. Len(tokens') = Len(tokens) - 1
      <3> DEFINE n == Len(tokens) - 1
                 f == [k \in 1..n |-> CASE k < cur -> tokens[k]
                                        [] k = cur -> Merged(tokens[cur], tokens[cur+1])
                                        [] k > cur -> tokens[k+1]]
      <3>1. n \in Nat /\ DOMAIN f = 1..n /\ f = [k \in 1..n |-> f[k]]
        BY <1>1, <2>1
      <3> HIDE DEF f, n
      <3>2. f \in Seq({f[k] : k \in 1..n})
        BY <3>1, SeqDef
      <3>3. DOMAIN f = 1..Len(f) /\ Len(f) \in Nat
        BY <3>2, LenProperties
      <3>4. Len(f) = n
        BY <3>1, <3>3
      <3>5. QED
        BY <2>1, <3>4 DEF f, n
    <2>3. ASSUME NEW k \in 1..Len(tokens)-2, k < cur
          PROVE  ~Glued(tokens'[k], tokens'[k+1])
      <3>1. tokens'[k] = tokens[k] /\ k \in 1..Len(tokens)-1
        BY <1>1, <2>1, <2>3
      <3>2. ~Glued(tokens[k], tokens[k+1])
        BY <2>1, <2>3, <3>1 DEF GlueInv
      <3>3. tokens'[k+1].type = tokens[k+1].type
        <4>1. CASE k + 1 < cur
          BY <1>1, <2>1, <2>3, <4>1
        <4>2. CASE k + 1 = cur
          <5>1. tokens'[k+1] = Merged(tokens[cur], tokens[cur+1])
            BY <1>1, <2>1, <2>3, <4>2
          <5>2. tokens[cur].type \in Word /\ cur \in 1..Len(tokens)
            BY <1>1, <1>4, <2>1 DEF concat_merge, Glued
          <5>3. \A r : [r EXCEPT !.value = r.value \o tokens[cur+1].value].type = r.type
            OBVIOUS
          <5>4. QED
            BY <4>2, <5>1, <5>3 DEF Merged
        <4>3. QED
          BY <1>1, <2>3, <4>1, <4>2
      <3>4. QED
        BY <3>1, <3>2, <3>3 DEF Glued
    <2>4. Len(tokens') - 1 = Len(tokens) - 2
      BY <1>1, <2>2
    <2>5. \A k \in 1..Len(tokens')-1 : k < cur' \/ pc' = "done" => ~Glued(tokens'[k], tokens'[k+1])
      BY <2>1, <2>3, <2>4
    <2>6. QED
      BY <2>1, <2>5 DEF GlueInv, Glued
  <1>5. CASE concat_advance
    <2>1. /\ pc = "concat" /\ pc' = "concat" /\ cur' = cur + 1 /\ tokens' = tokens
          /\ ~Glued(tokens[cur], tokens[cur+1])
      BY <1>5 DEF concat_advance
    <2>2. ASSUME NEW k \in 1..Len(tokens)-1, k < cur + 1
          PROVE  ~Glued(tokens[k], tokens[k+1])
      <3>1. k < cur \/ k = cur
        BY <1>1, <2>2
      <3>2. QED
        BY <2>1, <2>2, <3>1 DEF GlueInv
    <2>3. QED
      BY <2>1, <2>2 DEF GlueInv
  <1>6. CASE concat_fails
    BY <1>6 DEF concat_fails, GlueInv
  <1>7. CASE concat_end
    <2>1. pc = "concat" /\ pc' = "done" /\ tokens' = tokens /\ cur >= Len(tokens)
      BY <1>7 DEF concat_end
    <2>2. \A k \in 1..Len(tokens)-1 : k < cur
      BY <1>1, <2>1
    <2>3. QED
      BY <2>1, <2>2 DEF GlueInv
  <1>8. CASE UNCHANGED vars
    BY <1>8 DEF vars, GlueInv
  <1>9. QED
    BY <1>2, <1>3, <1>4, <1>5, <1>6, <1>7, <1>8 DEF Next, Concatinate

\* Unless memory ran out, no two words that no space separates are left side by side:
\* a merge changes neither the type nor the space flag that the pair before it was
\* judged by.
THEOREM NothingLeftToGlue == Spec => []NoGlueLeft
  <1>1. Init => GlueInv
    BY DEF Init, GlueInv
  <1>2. Inv /\ GlueInv => NoGlueLeft
    <2> SUFFICES ASSUME Inv, GlueInv, pc = "done", ~oom, NEW k \in 1..Len(tokens)-1,
                        {tokens[k].type, tokens[k+1].type} \subseteq Word
                 PROVE  tokens[k].space
      BY DEF NoGlueLeft
    <2>1. ~Glued(tokens[k], tokens[k+1])
      BY DEF GlueInv
    <2>2. QED
      BY <2>1 DEF Glued
  <1>3. QED
    BY <1>1, <1>2, Invariance, GlueStep, PTL DEF Spec

-----------------------------------------------------------------------------
(* The scan moves.                                                          *)

\* A turn of the scanning loop leaves the character it started at, or the call ends.
LEMMA TurnsMove ==
  ASSUME TypeOK, Scan, ~handle_quotes_fails
  PROVE  i' > i
  <1>1. /\ input \in Seq(Char) /\ Len(input) \in Nat /\ i \in 1..Len(input)
        /\ \A k \in 1..Len(input) : input[k] \in Char
    <2>1. Scanning
      BY DEF Scan, handlee_heredoc, handle_heredoc_delim, handle_quotes, skip_blank,
             exit_status, pipe, handle_redirections, handle_filename, handle_env_var,
             handle_command_or_argument, word_lost, AtHeredoc, AtDelimiter, AtExitStatus,
             AtTarget, AtWord, AtPlain, Ordinary
    <2>2. input \in Seq(Char) /\ Len(input) \in Nat /\ i \in 1..Len(input)+1
      BY LenProperties DEF TypeOK
    <2>3. \A k \in 1..Len(input) : input[k] \in Char
      BY <2>2, ElementOfSeq
    <2>4. QED
      BY <2>1, <2>2, <2>3 DEF Scanning
  <1>2. CASE handle_heredoc_delim
    <2> DEFINE from == EndOfRun(input, i, Char \ Blank)
               end  == EndOfRun(input, from, Blank)
    <2>1. from \in i..Len(input)+1
      BY <1>1, EndOfRunType
    <2>2. from \in 1..Len(input)+1
      BY <1>1, <2>1
    <2>3. CASE from = Len(input) + 1
      <3>1. end \in from..Len(input)+1
        BY <1>1, <2>2, EndOfRunType
      <3>2. QED
        BY <1>1, <1>2, <2>3, <3>1 DEF handle_heredoc_delim, Emit
    <2>4. CASE from # Len(input) + 1
      <3>1. from \in 1..Len(input) /\ input[from] \notin Blank
        BY <1>1, <2>1, <2>4, EndOfRunStops
      <3>2. end \in from+1..Len(input)+1
        BY <1>1, <3>1, EndOfRunMoves
      <3>3. i' = end
        BY <1>2 DEF handle_heredoc_delim, Emit
      <3> HIDE DEF from, end
      <3>4. QED
        BY <1>1, <2>1, <3>2, <3>3
    <2>5. QED
      BY <2>3, <2>4
  <1>3. CASE handle_quotes
    <2>1. ClosingQuote(input, i + 1, Current) \in i+1..Len(input)+1
      BY <1>1, ClosingQuoteType
    <2>2. \/ i' = ClosingQuote(input, i + 1, Current)
          \/ i' = ClosingQuote(input, i + 1, Current) + 1
      BY <1>3 DEF handle_quotes, Emit
    <2>3. QED
      BY <1>1, <2>1, <2>2
  <1>4. CASE handle_filename
    <2>1. input[i] \notin Blank \cup Operator \cup Quote
      BY <1>4 DEF handle_filename, AtTarget, AtPlain, Current
    <2>2. EndOfRun(input, i, Blank \cup Operator \cup Quote) \in i+1..Len(input)+1
      BY <1>1, <2>1, EndOfRunMoves
    <2>3. QED
      BY <1>1, <1>4, <2>2 DEF handle_filename, Emit
  <1>5. CASE handle_env_var
    <2> DEFINE brace == EndOfRun(input, i + 1, {"}"})
               name  == EndOfName(input, i + 1)
    <2>1. i + 1 \in 1..Len(input)+1
      BY <1>1
    <2>2. brace \in i+1..Len(input)+1 /\ name \in i+1..Len(input)+1
      BY <1>1, <2>1, EndOfRunType DEF EndOfName
    <2>3. i' = brace \/ i' = brace + 1 \/ i' = name
      BY <1>5 DEF handle_env_var, Emit
    <2> HIDE DEF brace, name
    <2>4. QED
      BY <1>1, <2>2, <2>3
  <1>6. CASE handle_command_or_argument \/ word_lost
    <2>1. input[i] \notin Blank \cup Operator
      BY <1>6 DEF handle_command_or_argument, word_lost, AtWord, AtPlain, Current
    <2>2. WordEnd(input, i) \in i+1..Len(input)+1
      BY <1>1, <2>1, WordEndMoves
    <2>3. i' = WordEnd(input, i)
      BY <1>6 DEF handle_command_or_argument, word_lost, Emit
    <2>4. QED
      BY <1>1, <2>2, <2>3
  <1>7. CASE handlee_heredoc \/ exit_status
    BY <1>1, <1>7 DEF handlee_heredoc, exit_status, Emit
  <1>8. CASE skip_blank \/ pipe
    BY <1>1, <1>8 DEF skip_blank, pipe, Emit
  <1>9. CASE handle_redirections
    BY <1>1, <1>9 DEF handle_redirections, RedirectionWidth, Emit
  <1>10. QED
    BY <1>2, <1>3, <1>4, <1>5, <1>6, <1>7, <1>8, <1>9 DEF Scan

\* Every turn moves forward, whatever the line: with the bound that TypeOK puts on the
\* index, the loop takes no more turns than the line has characters.
THEOREM ScanMovesForward == Spec => Progress
  <1>1. Inv /\ [Next]_vars => [Scan /\ pc' # "failed" => i' > i]_vars
    <2> SUFFICES ASSUME Inv, Scan, pc' # "failed"
                 PROVE  i' > i
      OBVIOUS
    <2>1. ~handle_quotes_fails
      BY DEF handle_quotes_fails
    <2>2. QED
      BY <2>1, TurnsMove DEF Inv
  <1>2. QED
    BY <1>1, Invariance, PTL DEF Spec, Progress

-----------------------------------------------------------------------------
(* What a caller can go by: where a doubled operator and a lost list come    *)
(* from.                                                                    *)

\* The steps of one call are about one line, and memory that ran out stays so.
LEMMA CallKeeps ==
  ASSUME TypeOK, [Next]_vars
  PROVE  input' = input /\ (oom => oom') /\ (tokens # <<>> => tokens' # <<>>)
  <1>1. CASE Scan /\ ~handle_quotes_fails
    <2>1. PICK new : Turn(new)
      BY <1>1, HandlersTakeTurns
    <2>2. input' = input /\ tokens' = tokens \o new /\ IsTokenList(new) /\ IsTokenList(tokens)
      BY <2>1 DEF Turn, TypeOK
    <2>3. Len(tokens \o new) = Len(tokens) + Len(new) /\ Len(tokens) \in Nat /\ Len(new) \in Nat
      BY <2>2, TokenListConcat, TokenListElements
    <2>4. tokens # <<>> => Len(tokens) # 0
      BY <2>2, EmptySeq DEF IsTokenList
    <2>5. tokens # <<>> => tokens' # <<>>
      BY <2>2, <2>3, <2>4, TokenListEmpty
    <2>6. oom => oom'
      BY <1>1
      DEF Scan, handlee_heredoc, handle_heredoc_delim, handle_quotes, skip_blank, exit_status,
          pipe, handle_redirections, handle_filename, handle_env_var,
          handle_command_or_argument, word_lost
    <2>7. QED
      BY <2>2, <2>5, <2>6
  <1>2. CASE concat_merge
    <2>1. Len(tokens') = Len(tokens) - 1 /\ Len(tokens) \in Nat /\ Len(tokens) > 1
      <3>1. Joins(tokens, cur, tokens')
        BY <1>2, MergeJoins DEF TypeOK
      <3>2. Len(tokens) \in Nat
        BY TokenListElements DEF TypeOK
      <3>3. QED
        BY <3>1, <3>2 DEF Joins
    <2>2. tokens' # <<>>
      BY <2>1, TokenListEmpty
    <2>3. QED
      BY <1>2, <2>2 DEF concat_merge
  <1>3. CASE handle_quotes_fails \/ end_of_input \/ concat_advance \/ concat_fails \/ concat_end
    BY <1>3 DEF handle_quotes_fails, end_of_input, concat_advance, concat_fails, concat_end
  <1>4. CASE UNCHANGED vars
    BY <1>4 DEF vars
  <1>5. QED
    BY <1>1, <1>2, <1>3, <1>4 DEF Next, Concatinate

\* "<<<<" stands at position k.
FourAt(s, k) ==
  k \in 1..Len(s)-3 /\ s[k] = "<" /\ s[k+1] = "<" /\ s[k+2] = "<" /\ s[k+3] = "<"

\* Where a delimiter is due the operator stands right before the index.
OperatorBehind ==
  pc = "scan" /\ expect_heredoc_delim => i > 2 /\ input[i-1] = "<" /\ input[i-2] = "<"

\* Two operators in a row come from a line in which nothing stands between them.
DoubledOperators ==
  \A k \in 1..Len(tokens)-1 :
    tokens[k].type = "HEREDOC" /\ tokens[k+1].type = "HEREDOC" => \E n : FourAt(input, n)

\* A list is lost only for want of memory, in a line that has a quote.
LossTraced == pc = "failed" => oom /\ \E k \in 1..Len(input) : input[k] \in Quote

Traced == OperatorBehind /\ DoubledOperators /\ LossTraced

LEMMA BeginsTraced == Begins => Traced
  <1>1. Len(<<>>) = 0
    BY TokenListEmpty
  <1>2. QED
    BY <1>1 DEF Begins, Traced, OperatorBehind, DoubledOperators, LossTraced

\* A turn that is not about an operator adds none, and expects no delimiter.
LEMMA OtherTurnTraced ==
  ASSUME Inv, Traced, Scan, ~handlee_heredoc, ~handle_quotes_fails
  PROVE  Traced'
  <1>1. PICK new : Turn(new)
    BY HandlersTakeTurns DEF Inv
  <1>2. pc = "scan"
    BY DEF Scan, handlee_heredoc, handle_heredoc_delim, handle_quotes, skip_blank, exit_status,
           pipe, handle_redirections, handle_filename, handle_env_var,
           handle_command_or_argument, word_lost, AtHeredoc, AtDelimiter, AtExitStatus,
           AtTarget, AtWord, AtPlain, Ordinary, Scanning
  <1>3. expect_heredoc_delim' = FALSE
    <2>1. expect_heredoc_delim \in BOOLEAN
      BY DEF Inv, TypeOK
    <2>2. CASE handle_heredoc_delim
      BY <2>2 DEF handle_heredoc_delim
    <2>3. CASE ~handle_heredoc_delim
      BY <2>1, <2>3
      DEF Scan, handle_quotes, skip_blank, exit_status, pipe, handle_redirections,
          handle_filename, handle_env_var, handle_command_or_argument, word_lost,
          AtExitStatus, AtTarget, AtWord, AtPlain, Ordinary
    <2>4. QED
      BY <2>2, <2>3
  <1>4. /\ IsTokenList(tokens) /\ IsTokenList(new) /\ tokens' = tokens \o new
        /\ input' = input /\ pc' = pc
        /\ Len(tokens) \in Nat /\ Len(new) \in Nat
        /\ Len(tokens') = Len(tokens) + Len(new)
        /\ \A k \in 1..Len(tokens) : tokens'[k] = tokens[k]
        /\ \A k \in 1..Len(new) : tokens'[Len(tokens) + k] = new[k]
    BY <1>1, TokenListElements, TokenListConcat DEF Turn, Inv, TypeOK
  <1>5. \A k \in 1..Len(new) : new[k].type # "HEREDOC"
    <2>1. Len(new) = 1 => \A k \in 1..Len(new) : k = 1
      BY <1>4
    <2>2. QED
      BY <1>1, <1>3, <2>1 DEF Turn, FileRedirection
  <1>6. ASSUME NEW k \in 1..Len(tokens')-1,
               tokens'[k].type = "HEREDOC", tokens'[k+1].type = "HEREDOC"
        PROVE  \E n : FourAt(input, n)
    <2>1. k + 1 <= Len(tokens)
      <3>1. CASE k + 1 > Len(tokens)
        <4> DEFINE m == (k + 1) - Len(tokens)
        <4>1. m \in 1..Len(new) /\ Len(tokens) + m = k + 1
          BY <1>4, <3>1
        <4> HIDE DEF m
        <4>2. tokens'[Len(tokens) + m] = new[m] /\ new[m].type # "HEREDOC"
          BY <1>4, <1>5, <4>1
        <4>3. QED
          BY <1>6, <4>1, <4>2
      <3>2. QED
        BY <1>4, <3>1
    <2>2. k \in 1..Len(tokens)-1 /\ k \in 1..Len(tokens) /\ k + 1 \in 1..Len(tokens)
      BY <1>4, <2>1
    <2>3. tokens[k].type = "HEREDOC" /\ tokens[k+1].type = "HEREDOC"
      BY <1>4, <1>6, <2>2
    <2>4. QED
      BY <2>2, <2>3 DEF Traced, DoubledOperators
  <1>7. DoubledOperators'
    BY <1>4, <1>6 DEF DoubledOperators, FourAt
  <1>8. QED
    BY <1>2, <1>3, <1>4, <1>7 DEF Traced, OperatorBehind, LossTraced

\* Behind an operator the next one makes a doubled one.
LEMMA OperatorTraced ==
  ASSUME Inv, Traced, handlee_heredoc
  PROVE  Traced'
  <1> DEFINE new == <<new_token("HEREDOC", <<"<", "<">>)>>
  <1>1. /\ pc = "scan" /\ pc' = pc /\ input' = input /\ i' = i + 2
        /\ tokens' = tokens \o new /\ expect_heredoc_delim' = TRUE
        /\ i < Len(input) /\ input[i] = "<" /\ input[i+1] = "<"
    BY DEF handlee_heredoc, AtHeredoc, Scanning, Current, Next1, Emit
  <1>2. Len(input) \in Nat /\ i \in 1..Len(input)+1 /\ IsTokenList(tokens) /\ Len(tokens) \in Nat
    BY LenProperties, TokenListElements DEF Inv, TypeOK
  <1>3. IsTokenList(new) /\ Len(new) = 1
    <2>1. "HEREDOC" \in TokenType
      BY DEF TokenType
    <2>2. QED
      BY <2>1, OneToken
  <1> HIDE DEF new
  <1>4. /\ Len(tokens') = Len(tokens) + 1
        /\ \A k \in 1..Len(tokens) : tokens'[k] = tokens[k]
    <2>1. /\ Len(tokens \o new) = Len(tokens) + Len(new)
          /\ \A k \in 1..Len(tokens) : (tokens \o new)[k] = tokens[k]
      BY <1>2, <1>3, TokenListConcat
    <2>2. QED
      BY <1>1, <1>3, <2>1
  <1>5. OperatorBehind'
    <2>1. i + 2 > 2 /\ (i + 2) - 1 = i + 1 /\ (i + 2) - 2 = i
      BY <1>2
    <2>2. QED
      BY <1>1, <2>1 DEF OperatorBehind
  <1>6. ASSUME NEW k \in 1..Len(tokens')-1,
               tokens'[k].type = "HEREDOC", tokens'[k+1].type = "HEREDOC"
        PROVE  \E n : FourAt(input, n)
    <2>1. k \in 1..Len(tokens) /\ tokens[k].type = "HEREDOC"
      BY <1>2, <1>4, <1>6
    <2>2. CASE k < Len(tokens)
      <3>1. k \in 1..Len(tokens)-1 /\ k + 1 \in 1..Len(tokens)
        BY <1>2, <2>1, <2>2
      <3>2. tokens[k+1].type = "HEREDOC"
        BY <1>4, <1>6, <3>1
      <3>3. QED
        BY <2>1, <3>1, <3>2 DEF Traced, DoubledOperators
    <2>3. CASE k = Len(tokens)
      <3>1. tokens # <<>>
        BY <2>1, <2>3, TokenListEmpty
      <3>2. expect_heredoc_delim
        BY <1>1, <2>1, <2>3, <3>1 DEF Inv, HeredocDiscipline
      <3>3. i > 2 /\ input[i-1] = "<" /\ input[i-2] = "<"
        BY <1>1, <3>2 DEF Traced, OperatorBehind
      <3> DEFINE n == i - 2
      <3>4. /\ n \in 1..Len(input)-3 /\ n + 1 = i - 1 /\ n + 2 = i /\ n + 3 = i + 1
        BY <1>1, <1>2, <3>3
      <3>5. FourAt(input, n)
        <4> HIDE DEF n
        <4>1. input[n] = "<"
          BY <3>3 DEF n
        <4>2. QED
          BY <1>1, <3>3, <3>4, <4>1 DEF FourAt
      <3>6. QED
        BY <3>5
    <2>4. QED
      BY <1>2, <2>1, <2>2, <2>3
  <1>7. DoubledOperators'
    BY <1>1, <1>6 DEF DoubledOperators, FourAt
  <1>8. QED
    BY <1>1, <1>5, <1>7 DEF Traced, LossTraced

\* Joining words brings no two operators together.
LEMMA MergeTraced ==
  ASSUME Inv, Traced, concat_merge
  PROVE  Traced'
  <1>1. Joins(tokens, cur, tokens') /\ Len(tokens) \in Nat
    BY MergeJoins, TokenListElements DEF Inv, TypeOK
  <1>2. /\ pc = "concat" /\ UNCHANGED <<input, pc, i, expect_heredoc_delim, oom>>
    BY DEF concat_merge
  <1>3. /\ cur \in 1..Len(tokens)-1 /\ Len(tokens') = Len(tokens) - 1
        /\ tokens[cur].type # "HEREDOC"
        /\ \A k \in 1..Len(tokens') :
             tokens'[k].type = IF k <= cur THEN tokens[k].type ELSE tokens[k+1].type
    BY <1>1 DEF Joins, Word
  <1>4. ASSUME NEW k \in 1..Len(tokens')-1,
               tokens'[k].type = "HEREDOC", tokens'[k+1].type = "HEREDOC"
        PROVE  \E n : FourAt(input, n)
    <2>1. k \in 1..Len(tokens') /\ k + 1 \in 1..Len(tokens')
      BY <1>1, <1>3
    <2>2. CASE k < cur
      <3>1. k <= cur /\ k + 1 <= cur /\ k \in 1..Len(tokens)-1
        BY <1>1, <1>3, <2>2
      <3>2. tokens[k].type = "HEREDOC" /\ tokens[k+1].type = "HEREDOC"
        BY <1>3, <1>4, <2>1, <3>1
      <3>3. QED
        BY <3>1, <3>2 DEF Traced, DoubledOperators
    <2>3. CASE k = cur
      <3>1. k <= cur
        BY <1>3, <2>3
      <3>2. QED
        BY <1>3, <1>4, <2>1, <2>3, <3>1
    <2>4. CASE k > cur
      <3>1. ~(k <= cur) /\ ~(k + 1 <= cur) /\ k + 1 \in 1..Len(tokens)-1
        BY <1>1, <1>3, <2>4
      <3>2. tokens[k+1].type = "HEREDOC" /\ tokens[(k+1)+1].type = "HEREDOC"
        BY <1>3, <1>4, <2>1, <3>1
      <3>3. QED
        BY <3>1, <3>2 DEF Traced, DoubledOperators
    <2>5. QED
      BY <1>3, <2>2, <2>3, <2>4
  <1>5. DoubledOperators'
    BY <1>2, <1>4 DEF DoubledOperators, FourAt
  <1>6. QED
    BY <1>2, <1>5 DEF Traced, OperatorBehind, LossTraced

LEMMA TracedStep == Inv /\ Traced /\ [Next]_vars => Traced'
  <1> SUFFICES ASSUME Inv, Traced, [Next]_vars PROVE Traced'
    OBVIOUS
  <1>1. CASE handle_quotes_fails
    <2>1. /\ pc' = "failed" /\ oom' = TRUE /\ i <= Len(input) /\ input[i] \in Quote
          /\ UNCHANGED <<input, i, tokens, expect_heredoc_delim>>
      BY <1>1 DEF handle_quotes_fails, Ordinary, Scanning, Current
    <2>2. i \in 1..Len(input)
      BY <2>1, LenProperties DEF Inv, TypeOK
    <2>3. QED
      BY <2>1, <2>2 DEF Traced, OperatorBehind, DoubledOperators, FourAt, LossTraced, Quote
  <1>2. CASE Scan /\ ~handle_quotes_fails
    BY <1>2, OtherTurnTraced, OperatorTraced
  <1>3. CASE concat_merge
    BY <1>3, MergeTraced
  <1>4. CASE end_of_input \/ concat_advance \/ concat_fails \/ concat_end
    <2>1. /\ pc' \in {"concat", "done"}
          /\ UNCHANGED <<input, tokens>>
      BY <1>4 DEF end_of_input, concat_advance, concat_fails, concat_end
    <2>2. QED
      BY <2>1 DEF Traced, OperatorBehind, DoubledOperators, FourAt, LossTraced
  <1>5. CASE UNCHANGED vars
    BY <1>5 DEF vars, Traced, OperatorBehind, DoubledOperators, FourAt, LossTraced
  <1>6. QED
    BY <1>1, <1>2, <1>3, <1>4, <1>5 DEF Next, Scan, Concatinate

-----------------------------------------------------------------------------
(* The texts of the tokens.                                                 *)

CharToken == [type : TokenType, value : Seq(Char), space : BOOLEAN]

QuietType == TokenType \ (Redirection \cup {"PIPE"})

\* A token that is no operator.
QuietToken == {t \in CharToken : t.type \in QuietType}

\* The list is one of tokens with texts of characters of the language of the line.
Texts == tokens \in Seq(CharToken)

LEMMA TokenIsText ==
  ASSUME NEW type \in TokenType, NEW value \in Seq(Char), NEW space \in BOOLEAN
  PROVE  new_token(type, value) \in CharToken /\ SpacedToken(type, value, space) \in CharToken
  <1>1. SpacedToken(type, value, space) = [type |-> type, value |-> value, space |-> space]
    BY DEF SpacedToken, new_token
  <1>2. QED
    BY <1>1 DEF new_token, CharToken

LEMMA TokenIsQuiet ==
  ASSUME NEW type \in QuietType, NEW value \in Seq(Char), NEW space \in BOOLEAN
  PROVE  new_token(type, value) \in QuietToken /\ SpacedToken(type, value, space) \in QuietToken
  <1>1. type \in TokenType
    BY DEF QuietType
  <1>2. new_token(type, value) \in CharToken /\ SpacedToken(type, value, space) \in CharToken
    BY <1>1, TokenIsText
  <1>3. new_token(type, value).type = type /\ SpacedToken(type, value, space).type = type
    BY DEF SpacedToken, new_token
  <1>4. QED
    BY <1>2, <1>3 DEF QuietToken

LEMMA QuietTypes ==
  /\ {"ARG", "EXIT_STATUS", "DELIMITER", "FILENAME", "COMMANDE"} \subseteq QuietType
  /\ \A t \in QuietToken : t \in CharToken /\ t.type \in TokenType
  BY DEF QuietType, TokenType, Redirection, FileRedirection, QuietToken

LEMMA PartTokensText ==
  ASSUME NEW s \in Seq(Char)
  PROVE  PartTokens(ft_splitD(s)) \in Seq(QuietToken)
  <1> DEFINE parts == ft_splitD(s)
             n == Len(parts)
             list == PartTokens(parts)
  <1>1. IsFiniteSet(1..Len(s)) /\ PartStarts(s) \subseteq 1..Len(s)
    <2>1. Len(s) \in Nat /\ DOMAIN s = 1..Len(s)
      BY LenProperties
    <2>2. QED
      BY <2>1, FS_Interval DEF PartStarts
  <1>2. Cardinality(PartStarts(s)) \in Nat
    BY <1>1, FS_Subset, FS_CardinalityType
  <1>3. DOMAIN parts = 1..Cardinality(PartStarts(s)) /\ parts = [k \in DOMAIN parts |-> parts[k]]
    BY DEF ft_splitD
  <1>4. \A k \in 1..Cardinality(PartStarts(s)) : parts[k] \in Seq(Char)
    BY SplitType
  <1> HIDE DEF parts
  <1>5. parts \in [1..Cardinality(PartStarts(s)) -> Seq(Char)]
    BY <1>3, <1>4
  <1>6. n = Cardinality(PartStarts(s))
    BY <1>2, <1>5, FunctionIsSeq
  <1>7. list = [k \in 1..n |-> SpacedToken("ARG", parts[k], k < n)]
    BY DEF PartTokens
  <1> HIDE DEF n
  <1>8. \A k \in 1..n : SpacedToken("ARG", parts[k], k < n) \in QuietToken
    <2>1. "ARG" \in QuietType
      BY QuietTypes
    <2>2. \A value \in Seq(Char), space \in BOOLEAN : SpacedToken("ARG", value, space) \in QuietToken
      BY <2>1, TokenIsQuiet
    <2>3. ASSUME NEW k \in 1..n
          PROVE  parts[k] \in Seq(Char) /\ (k < n) \in BOOLEAN
      BY <1>4, <1>6
    <2>4. QED
      BY <2>2, <2>3, Zenon
  <1>9. list \in [1..n -> QuietToken]
    BY <1>7, <1>8
  <1> HIDE DEF list
  <1>10. list \in Seq(QuietToken)
    BY <1>2, <1>6, <1>9, FunctionIsSeq
  <1>11. QED
    BY <1>10 DEF list, parts

\* A piece of the line, and the characters that are looked up.
LEMMA PieceOfLine ==
  ASSUME input \in Seq(Char), NEW k \in 1..Len(input)+1, NEW e \in k..Len(input)+1
  PROVE  SubSeq(input, k, e - 1) \in Seq(Char)
  BY SubSeqText

LEMMA OneText ==
  ASSUME NEW S, NEW t \in S
  PROVE  <<t>> \in Seq(S)
  OBVIOUS

\* Every handler but three adds tokens that are no operators, with texts.
LEMMA QuietHandlers ==
  ASSUME TypeOK, Scan, ~handle_quotes_fails, ~handlee_heredoc, ~pipe, ~handle_redirections
  PROVE  \E new \in Seq(QuietToken) : tokens' = tokens \o new
  <1>1. /\ input \in Seq(Char) /\ Len(input) \in Nat
        /\ i \in 1..Len(input)+1
    BY LenProperties DEF TypeOK
  <1>2. \A type \in QuietType, value \in Seq(Char), space \in BOOLEAN :
          /\ <<new_token(type, value)>> \in Seq(QuietToken)
          /\ <<SpacedToken(type, value, space)>> \in Seq(QuietToken)
    BY TokenIsQuiet, OneText
  <1>3. {"ARG", "EXIT_STATUS", "DELIMITER", "FILENAME", "COMMANDE"} \subseteq QuietType
    BY QuietTypes
  <1>4. \A c, d \in Special : <<c>> \in Seq(Char) /\ <<c, d>> \in Seq(Char)
    BY DEF Char
  <1>5. \A c \in {"<", ">", "|", "$", "?"} : c \in Special
    BY DEF Special, Operator
  <1>6. ASSUME NEW new \in Seq(QuietToken), NEW next, Emit(new, next)
        PROVE  \E list \in Seq(QuietToken) : tokens' = tokens \o list
    BY <1>6 DEF Emit
  <1>7. CASE handle_heredoc_delim
    <2> DEFINE start == EndOfRun(input, i, Char \ Blank)
               end   == EndOfRun(input, start, Blank)
    <2>1. start \in 1..Len(input)+1
      BY <1>1, EndOfRunType
    <2>2. end \in start..Len(input)+1
      BY <1>1, <2>1, EndOfRunType
    <2>3. Emit(<<new_token("DELIMITER", SubSeq(input, start, end - 1))>>, end)
      BY <1>7 DEF handle_heredoc_delim
    <2> HIDE DEF start, end
    <2>4. SubSeq(input, start, end - 1) \in Seq(Char)
      BY <1>1, <2>1, <2>2, PieceOfLine
    <2>5. QED
      BY <1>2, <1>3, <1>6, <2>3, <2>4
  <1>8. CASE handle_quotes
    <2> DEFINE close == ClosingQuote(input, i + 1, Current)
               text  == SubSeq(input, i + 1, close - 1)
    <2>1. i \in 1..Len(input) /\ i + 1 \in 1..Len(input)+1
      BY <1>1, <1>8 DEF handle_quotes, Ordinary, Scanning
    <2>2. close \in i+1..Len(input)+1
      BY <1>1, <2>1, ClosingQuoteType
    <2>3. text \in Seq(Char)
      <3> DEFINE k == i + 1
      <3> HIDE DEF k, close
      <3>1. SubSeq(input, k, close - 1) \in Seq(Char)
        BY <1>1, <2>1, <2>2, PieceOfLine DEF k
      <3>2. QED
        BY <3>1 DEF k
    <2>4. UnclosedToken = new_token("ARG", SubSeq(input, i, Len(input)))
      BY DEF UnclosedToken
    <2>5. SubSeq(input, i, Len(input)) \in Seq(Char)
      <3> DEFINE e == Len(input) + 1
      <3>1. e \in i..Len(input)+1 /\ e - 1 = Len(input)
        BY <1>1
      <3> HIDE DEF e
      <3>2. SubSeq(input, i, e - 1) \in Seq(Char)
        BY <1>1, <3>1, PieceOfLine
      <3>3. QED
        BY <3>1, <3>2
    <2>6. <<UnclosedToken>> \in Seq(QuietToken)
      BY <1>2, <1>3, <2>4, <2>5
    <2>7. TypeAfter(tokens, 1) \in QuietType /\ SpaceAt(close + 1) \in BOOLEAN
      BY <1>3 DEF TypeAfter, SpaceAt
    <2>8. ASSUME NEW status \in StatusChoices(text)
          PROVE  LET value == IF Current = DoubleQuote
                              THEN remove_backslashes(expand_variables(text, status))
                              ELSE text
                 IN  <<SpacedToken(TypeAfter(tokens, 1), value, SpaceAt(close + 1))>>
                       \in Seq(QuietToken)
      <3>1. expand_variables(text, status) \in Seq(Char)
        <4> HIDE DEF text
        <4>1. QED
          BY <2>3, ExpandVariablesType
      <3>2. remove_backslashes(expand_variables(text, status)) \in Seq(Char)
        BY <3>1, RemoveBackslashesType
      <3> HIDE DEF text, close
      <3>3. QED
        BY <1>2, <2>3, <2>7, <3>2
    <2>9. \/ Emit(<<UnclosedToken>>, close)
          \/ \E status \in StatusChoices(text) :
               LET value == IF Current = DoubleQuote
                            THEN remove_backslashes(expand_variables(text, status))
                            ELSE text
               IN  Emit(<<SpacedToken(TypeAfter(tokens, 1), value, SpaceAt(close + 1))>>,
                        close + 1)
      BY <1>8 DEF handle_quotes
    <2> HIDE DEF close, text
    <2>10. QED
      BY <1>6, <2>6, <2>8, <2>9
  <1>9. CASE skip_blank
    <2>1. <<>> \in Seq(QuietToken)
      BY EmptySeq
    <2>2. QED
      BY <1>6, <1>9, <2>1 DEF skip_blank
  <1>10. CASE exit_status
    <2>1. <<new_token("EXIT_STATUS", <<"$", "?">>)>> \in Seq(QuietToken)
      BY <1>2, <1>3, <1>4, <1>5
    <2>2. QED
      BY <1>6, <1>10, <2>1 DEF exit_status
  <1>11. CASE handle_filename
    <2> DEFINE end == EndOfRun(input, i, Blank \cup Operator \cup Quote)
    <2>1. end \in i..Len(input)+1
      BY <1>1, EndOfRunType
    <2>2. Emit(<<new_token("FILENAME", SubSeq(input, i, end - 1))>>, end)
      BY <1>11 DEF handle_filename
    <2> HIDE DEF end
    <2>3. SubSeq(input, i, end - 1) \in Seq(Char)
      BY <1>1, <2>1, PieceOfLine
    <2>4. QED
      BY <1>2, <1>3, <1>6, <2>2, <2>3
  <1>12. CASE handle_env_var
    <2>1. <<new_token("ARG", <<"$">>)>> \in Seq(QuietToken)
      BY <1>2, <1>3, <1>4, <1>5
    <2>2. \A name : ValueTokens(name) \in Seq(QuietToken)
      <3> TAKE name
      <3>1. <<>> \in Seq(Char)
        BY EmptySeq
      <3>2. CASE name \notin DOMAIN Env
        BY <1>2, <1>3, <3>1, <3>2 DEF ValueTokens
      <3>3. CASE name \in DOMAIN Env
        <4>1. Env[name] \in Seq(Char)
          BY <3>3, TextAssumption
        <4>2. <<new_token("ARG", Env[name])>> \in Seq(QuietToken)
          BY <1>2, <1>3, <4>1
        <4>3. PartTokens(ft_splitD(Env[name])) \in Seq(QuietToken)
          BY <4>1, PartTokensText
        <4>4. QED
          BY <3>3, <4>2, <4>3 DEF ValueTokens
      <3>4. QED
        BY <3>2, <3>3
    <2>3. \E next : \/ Emit(<<new_token("ARG", <<"$">>)>>, next)
                    \/ \E name : Emit(ValueTokens(name), next)
      BY <1>12 DEF handle_env_var
    <2>4. QED
      BY <1>6, <2>1, <2>2, <2>3
  <1>13. CASE handle_command_or_argument
    <2> DEFINE end  == WordEnd(input, i)
               word == SubSeq(input, i, end - 1)
    <2>1. end \in i..Len(input)+1
      BY <1>1, WordEndType
    <2>2. word \in Seq(Char)
      <3> HIDE DEF end
      <3>1. QED
        BY <1>1, <2>1, PieceOfLine
    <2>3. TypeAfter(tokens, Len(tokens)) \in QuietType /\ SpaceAt(end) \in BOOLEAN
      BY <1>3 DEF TypeAfter, SpaceAt
    <2>4. \A status \in StatusChoices(word) :
            <<SpacedToken(TypeAfter(tokens, Len(tokens)),
                          remove_single_quotes(expand_variables(word, status)), SpaceAt(end))>>
              \in Seq(QuietToken)
      <3> TAKE status \in StatusChoices(word)
      <3>1. expand_variables(word, status) \in Seq(Char)
        <4> HIDE DEF word
        <4>1. QED
          BY <2>2, ExpandVariablesType
      <3>2. remove_single_quotes(expand_variables(word, status)) \in Seq(Char)
        BY <3>1, RemoveQuotesType
      <3> HIDE DEF word, end
      <3>3. QED
        BY <1>2, <2>3, <3>2
    <2>5. <<>> \in Seq(QuietToken)
      BY EmptySeq
    <2>6. \/ Emit(<<>>, end)
          \/ \E status \in StatusChoices(word) :
               Emit(<<SpacedToken(TypeAfter(tokens, Len(tokens)),
                        remove_single_quotes(expand_variables(word, status)), SpaceAt(end))>>, end)
      BY <1>13 DEF handle_command_or_argument
    <2> HIDE DEF end, word
    <2>7. QED
      BY <1>6, <2>4, <2>5, <2>6
  <1>14. CASE word_lost
    <2>1. <<>> \in Seq(QuietToken)
      BY EmptySeq
    <2>2. QED
      BY <1>6, <1>14, <2>1 DEF word_lost
  <1>15. QED
    BY <1>7, <1>8, <1>9, <1>10, <1>11, <1>12, <1>13, <1>14 DEF Scan

\* Every handler adds tokens with texts.
LEMMA HandlersAddTexts ==
  ASSUME TypeOK, Scan, ~handle_quotes_fails
  PROVE  \E new \in Seq(CharToken) : tokens' = tokens \o new
  <1>1. /\ input \in Seq(Char) /\ Len(input) \in Nat
        /\ i \in 1..Len(input)+1
    BY LenProperties DEF TypeOK
  <1>2. \A type \in TokenType, value \in Seq(Char), space \in BOOLEAN :
          /\ <<new_token(type, value)>> \in Seq(CharToken)
          /\ <<SpacedToken(type, value, space)>> \in Seq(CharToken)
    BY TokenIsText, OneText
  <1>3. {"ARG", "PIPE", "EXIT_STATUS", "HEREDOC", "DELIMITER", "FILENAME",
         "INPUT", "OUTPUT", "APPEND", "COMMANDE"} \subseteq TokenType
    BY DEF TokenType
  <1>4. \A c, d \in Special : <<c>> \in Seq(Char) /\ <<c, d>> \in Seq(Char)
    BY DEF Char
  <1>5. \A c \in {"<", ">", "|", "$", "?"} : c \in Special
    BY DEF Special, Operator
  <1>6. ASSUME NEW new \in Seq(CharToken), NEW next, Emit(new, next)
        PROVE  \E list \in Seq(CharToken) : tokens' = tokens \o list
    BY <1>6 DEF Emit
  <1>7. CASE handlee_heredoc
    <2>1. <<new_token("HEREDOC", <<"<", "<">>)>> \in Seq(CharToken)
      BY <1>2, <1>3, <1>4, <1>5
    <2>2. QED
      BY <1>6, <1>7, <2>1 DEF handlee_heredoc
  <1>8. CASE pipe
    <2>1. <<new_token("PIPE", <<"|">>)>> \in Seq(CharToken)
      BY <1>2, <1>3, <1>4, <1>5
    <2>2. QED
      BY <1>6, <1>8, <2>1 DEF pipe
  <1>9. CASE handle_redirections
    <2>1. <<RedirectionToken>> \in Seq(CharToken)
      <3>1. \E type \in FileRedirection, value \in {<<"<">>, <<">", ">">>, <<">">>} :
              RedirectionToken = new_token(type, value)
        BY DEF RedirectionToken, FileRedirection
      <3>2. FileRedirection \subseteq TokenType
        BY <1>3 DEF FileRedirection
      <3>3. {<<"<">>, <<">", ">">>, <<">">>} \subseteq Seq(Char)
        BY <1>4, <1>5
      <3>4. QED
        BY <1>2, <3>1, <3>2, <3>3
    <2>2. QED
      BY <1>6, <1>9, <2>1 DEF handle_redirections
  <1>10. CASE ~handlee_heredoc /\ ~pipe /\ ~handle_redirections
    <2>1. PICK new \in Seq(QuietToken) : tokens' = tokens \o new
      BY <1>10, QuietHandlers
    <2>2. new \in Seq(CharToken)
      <3>1. QuietToken \subseteq CharToken
        BY DEF QuietToken
      <3>2. QED
        BY <3>1, SeqMonotonic
    <2>3. QED
      BY <2>1, <2>2
  <1>11. QED
    BY <1>7, <1>8, <1>9, <1>10

-----------------------------------------------------------------------------
(* What joining two tokens conserves.                                       *)

ValueOf == [t \in CharToken |-> t.value]
UnlessWord == [t \in CharToken |-> IF t.type \in Word THEN <<>> ELSE <<t>>]
OperatorOf ==
  [t \in CharToken |-> IF t.type \in Redirection \cup {"PIPE"} THEN t.value ELSE <<>>]

LEMMA ListTexts ==
  /\ Makes(ValueOf, CharToken, Char) /\ Makes(UnlessWord, CharToken, CharToken)
  /\ Makes(OperatorOf, CharToken, Char)
  /\ \A list \in Seq(CharToken) :
       /\ TokenText(list) = FlattenSeq(Each(list, ValueOf))
       /\ NonWords(list) = FlattenSeq(Each(list, UnlessWord))
       /\ OperatorText(list) = FlattenSeq(Each(list, OperatorOf))
  <1>1. <<>> \in Seq(Char) /\ <<>> \in Seq(CharToken)
    BY EmptySeq
  <1>2. \A t \in CharToken : t.value \in Seq(Char) /\ <<t>> \in Seq(CharToken)
    BY DEF CharToken
  <1>3. Makes(ValueOf, CharToken, Char)
    BY <1>2 DEF Makes, ValueOf
  <1>4. Makes(UnlessWord, CharToken, CharToken)
    BY <1>1, <1>2 DEF Makes, UnlessWord
  <1>5. Makes(OperatorOf, CharToken, Char)
    BY <1>1, <1>2 DEF Makes, OperatorOf
  <1>6. ASSUME NEW list \in Seq(CharToken)
        PROVE  /\ TokenText(list) = FlattenSeq(Each(list, ValueOf))
               /\ NonWords(list) = FlattenSeq(Each(list, UnlessWord))
               /\ OperatorText(list) = FlattenSeq(Each(list, OperatorOf))
    <2>1. \A k \in DOMAIN list : list[k] \in CharToken
      BY LenProperties, ElementOfSeq
    <2>2. [k \in DOMAIN list |-> list[k].value] = Each(list, ValueOf)
      BY <2>1 DEF Each, ValueOf
    <2>3. [k \in DOMAIN list |-> IF list[k].type \in Word THEN <<>> ELSE <<list[k]>>]
          = Each(list, UnlessWord)
      BY <2>1 DEF Each, UnlessWord
    <2>4. [k \in DOMAIN list |->
            IF list[k].type \in Redirection \cup {"PIPE"} THEN list[k].value ELSE <<>>]
          = Each(list, OperatorOf)
      BY <2>1 DEF Each, OperatorOf
    <2>5. QED
      BY <2>2, <2>3, <2>4 DEF TokenText, NonWords, OperatorText
  <1>7. QED
    BY <1>3, <1>4, <1>5, <1>6

\* Joining two tokens moves text, and keeps what is not a word.
LEMMA MergeConserves ==
  ASSUME Texts, cur \in Nat \ {0}, concat_merge
  PROVE  /\ tokens' \in Seq(CharToken)
         /\ TokenText(tokens') = TokenText(tokens)
         /\ NonWords(tokens') = NonWords(tokens)
         /\ OperatorText(tokens') = OperatorText(tokens)
  <1> DEFINE a == tokens[cur]
             b == tokens[cur+1]
             m == Merged(a, b)
  <1>1. /\ tokens \in Seq(CharToken) /\ Len(tokens) \in Nat /\ cur \in 1..Len(tokens)-1
        /\ a \in CharToken /\ b \in CharToken /\ a.type \in Word /\ b.type \in Word
    <2>1. tokens \in Seq(CharToken) /\ Len(tokens) \in Nat /\ cur < Len(tokens) /\ Glued(a, b)
      BY LenProperties DEF Texts, concat_merge
    <2>2. cur \in 1..Len(tokens)-1 /\ cur \in 1..Len(tokens) /\ cur + 1 \in 1..Len(tokens)
      BY <2>1
    <2>3. QED
      BY <2>1, <2>2, ElementOfSeq DEF Glued
  <1>2. m \in CharToken /\ m.type = a.type /\ m.value = a.value \o b.value
    <2>1. a.value \in Seq(Char) /\ b.value \in Seq(Char)
      BY <1>1 DEF CharToken
    <2> DEFINE v == a.value \o b.value
    <2>2. v \in Seq(Char)
      BY <2>1, ConcatProperties
    <2>3. m = [a EXCEPT !.value = v]
      BY DEF Merged
    <2> HIDE DEF v, m, a, b
    <2>4. m = [type |-> a.type, value |-> v, space |-> a.space]
      BY <1>1, <2>3 DEF CharToken
    <2>5. QED
      BY <1>1, <2>2, <2>4 DEF CharToken, v
  <1>3. tokens' = [k \in 1..Len(tokens)-1 |->
                    CASE k < cur -> tokens[k] [] k = cur -> m [] k > cur -> tokens[k+1]]
    BY DEF concat_merge
  <1> HIDE DEF m
  <1>4. \E pre, post \in Seq(CharToken) :
            /\ tokens = (pre \o (<<tokens[cur]>> \o <<tokens[cur+1]>>)) \o post
            /\ tokens' = (pre \o <<m>>) \o post
            /\ tokens' \in Seq(CharToken)
    <2> DEFINE t == tokens'
    <2>1. t = Joined(tokens, cur, m)
      BY <1>3 DEF Joined
    <2> HIDE DEF t
    <2>2. Surrounds(CharToken, tokens, t, cur, m)
      BY <1>1, <1>2, <2>1, Around
    <2>3. QED
      BY <2>2 DEF t, Surrounds
  <1>5. PICK pre \in Seq(CharToken), post \in Seq(CharToken) :
            /\ tokens = (pre \o (<<a>> \o <<b>>)) \o post
            /\ tokens' = (pre \o <<m>>) \o post
            /\ tokens' \in Seq(CharToken)
    BY <1>4
  <1> HIDE DEF a, b
  <1>6. ASSUME NEW h, NEW T, Makes(h, CharToken, T), h[m] = h[a] \o h[b]
        PROVE  FlattenSeq(Each(tokens', h)) = FlattenSeq(Each(tokens, h))
    <2> DEFINE two == <<a>> \o <<b>>
               one == <<m>>
    <2>1. two \in Seq(CharToken) /\ one \in Seq(CharToken) /\ <<a>> \in Seq(CharToken)
          /\ <<b>> \in Seq(CharToken)
      BY <1>1, <1>2, ConcatProperties
    <2>2. FlattenSeq(Each(one, h)) = h[m] /\ FlattenSeq(Each(<<a>>, h)) = h[a]
          /\ FlattenSeq(Each(<<b>>, h)) = h[b]
      <3>1. \A x \in CharToken : FlattenSeq(Each(<<x>>, h)) = h[x]
        BY <1>6, EachOne
      <3>2. QED
        BY <1>1, <1>2, <3>1
    <2>3. \A x, y \in Seq(CharToken) :
            FlattenSeq(Each(x \o y, h)) = FlattenSeq(Each(x, h)) \o FlattenSeq(Each(y, h))
      BY <1>6, EachConcat
    <2>4. FlattenSeq(Each(two, h)) = FlattenSeq(Each(one, h))
      BY <1>6, <2>1, <2>2, <2>3
    <2> HIDE DEF two, one
    <2>5. FlattenSeq(Each((pre \o one) \o post, h)) = FlattenSeq(Each((pre \o two) \o post, h))
      <3>1. Made(one, h) = Made(two, h)
        BY <2>4 DEF Made
      <3>2. Made(Cat(Cat(pre, one), post), h) = Made(Cat(Cat(pre, two), post), h)
        BY <1>6, <2>1, <3>1, SameBetween
      <3>3. QED
        BY <3>2 DEF Made, Cat
    <2>6. QED
      BY <1>5, <2>5 DEF two, one
  <1>7. ValueOf[m] = ValueOf[a] \o ValueOf[b]
    BY <1>1, <1>2 DEF ValueOf
  <1>8. UnlessWord[m] = <<>> /\ UnlessWord[a] = <<>> /\ UnlessWord[b] = <<>>
    BY <1>1, <1>2 DEF UnlessWord
  <1>9. OperatorOf[m] = <<>> /\ OperatorOf[a] = <<>> /\ OperatorOf[b] = <<>>
    BY <1>1, <1>2 DEF OperatorOf, Word, Redirection, FileRedirection
  <1>10. <<>> \o <<>> = <<>>
    BY EmptySeq, ConcatEmptySeq
  <1>11. FlattenSeq(Each(tokens', ValueOf)) = FlattenSeq(Each(tokens, ValueOf))
    BY <1>6, <1>7, ListTexts
  <1>12. FlattenSeq(Each(tokens', UnlessWord)) = FlattenSeq(Each(tokens, UnlessWord))
    BY <1>6, <1>8, <1>10, ListTexts
  <1>13. FlattenSeq(Each(tokens', OperatorOf)) = FlattenSeq(Each(tokens, OperatorOf))
    BY <1>6, <1>9, <1>10, ListTexts
  <1>14. QED
    BY <1>1, <1>5, <1>11, <1>12, <1>13, ListTexts

LEMMA TextsStep == TypeOK /\ Texts /\ [Next]_vars => Texts'
  <1> SUFFICES ASSUME TypeOK, Texts, [Next]_vars PROVE Texts'
    OBVIOUS
  <1>1. CASE Scan /\ ~handle_quotes_fails
    <2>1. PICK new \in Seq(CharToken) : tokens' = tokens \o new
      BY <1>1, HandlersAddTexts
    <2>2. QED
      BY <2>1, ConcatProperties DEF Texts
  <1>2. CASE concat_merge
    BY <1>2, MergeConserves DEF TypeOK, Texts
  <1>3. CASE handle_quotes_fails \/ end_of_input \/ concat_advance \/ concat_fails \/ concat_end
    BY <1>3 DEF handle_quotes_fails, end_of_input, concat_advance, concat_fails, concat_end, Texts
  <1>4. CASE UNCHANGED vars
    BY <1>4 DEF vars, Texts
  <1>5. QED
    BY <1>1, <1>2, <1>3, <1>4 DEF Next, Concatinate

\* concatinate() moves text between words and does nothing else: neither the text of the
\* list nor a token that is not a word changes, however many words are joined.
THEOREM JoiningConserves == Spec => ConcatConserves
  <1>1. Init => Texts
    BY EmptySeq DEF Init, Texts
  <1>2. Inv /\ Texts /\ [Next]_vars => Texts'
    BY TextsStep DEF Inv
  <1>3. Inv /\ Texts /\ [Next]_vars =>
          [pc = "concat" => /\ TokenText(tokens') = TokenText(tokens)
                            /\ NonWords(tokens') = NonWords(tokens)]_vars
    <2> SUFFICES ASSUME Inv, Texts, Next, pc = "concat"
                 PROVE  /\ TokenText(tokens') = TokenText(tokens)
                        /\ NonWords(tokens') = NonWords(tokens)
      OBVIOUS
    <2>1. CASE concat_merge
      BY <2>1, MergeConserves DEF Inv, TypeOK
    <2>2. CASE concat_advance \/ concat_fails \/ concat_end
      BY <2>2 DEF concat_advance, concat_fails, concat_end
    <2>3. CASE Scan \/ end_of_input
      BY <2>3
      DEF Scan, end_of_input, handlee_heredoc, handle_heredoc_delim, handle_quotes,
          handle_quotes_fails, skip_blank, exit_status, pipe, handle_redirections,
          handle_filename, handle_env_var, handle_command_or_argument, word_lost, AtHeredoc,
          AtDelimiter, AtExitStatus, AtTarget, AtWord, AtPlain, Ordinary, Scanning
    <2>4. QED
      BY <2>1, <2>2, <2>3 DEF Next, Concatinate
  <1>4. QED
    BY <1>1, <1>2, <1>3, Invariance, PTL DEF Spec, ConcatConserves

-----------------------------------------------------------------------------
(* The operators of a line.                                                 *)

\* What the character at each position gives: itself if it is an unquoted operator.
OperatorPiece(s) ==
  [k \in DOMAIN s |->
    IF s[k] \in Operator /\ QuoteMode(s, 1)[k] = "none" THEN <<s[k]>> ELSE <<>>]

LEMMA OperatorPieces ==
  ASSUME NEW s \in Seq(Char)
  PROVE  /\ \A k \in 1..Len(s) :
              /\ OperatorPiece(s)[k] \in Seq(Char)
              /\ s[k] \in Operator /\ QuoteMode(s, 1)[k] = "none" => OperatorPiece(s)[k] = <<s[k]>>
              /\ ~(s[k] \in Operator /\ QuoteMode(s, 1)[k] = "none") => OperatorPiece(s)[k] = <<>>
         /\ UnquotedOperators(s) = Upto(OperatorPiece(s), Len(s))
  <1>1. Len(s) \in Nat /\ DOMAIN s = 1..Len(s) /\ \A k \in 1..Len(s) : s[k] \in Char
    BY LenProperties, ElementOfSeq
  <1>2. <<>> \in Seq(Char) /\ \A c \in Char : <<c>> \in Seq(Char)
    BY EmptySeq
  <1>3. \A k \in 1..Len(s) :
          OperatorPiece(s)[k] = IF s[k] \in Operator /\ QuoteMode(s, 1)[k] = "none"
                                THEN <<s[k]>> ELSE <<>>
    BY <1>1 DEF OperatorPiece
  <1>4. UnquotedOperators(s) = FlattenSeq(OperatorPiece(s))
    BY DEF UnquotedOperators, OperatorPiece
  <1>5. OperatorPiece(s) = [k \in 1..Len(s) |-> OperatorPiece(s)[k]]
    BY <1>1 DEF OperatorPiece
  <1>6. UnquotedOperators(s) = Upto(OperatorPiece(s), Len(s))
    BY <1>4, <1>5 DEF Upto
  <1>7. ASSUME NEW k \in 1..Len(s)
        PROVE  /\ OperatorPiece(s)[k] \in Seq(Char)
               /\ s[k] \in Operator /\ QuoteMode(s, 1)[k] = "none" => OperatorPiece(s)[k] = <<s[k]>>
               /\ ~(s[k] \in Operator /\ QuoteMode(s, 1)[k] = "none") => OperatorPiece(s)[k] = <<>>
    BY <1>1, <1>2, <1>3
  <1>8. QED
    BY <1>6, <1>7

\* Tokens that are no operators have no operators' text.
LEMMA QuietText ==
  ASSUME NEW new \in Seq(QuietToken)
  PROVE  new \in Seq(CharToken) /\ OperatorText(new) = <<>>
  <1>1. new \in Seq(CharToken)
    <2>1. QuietToken \subseteq CharToken
      BY DEF QuietToken
    <2>2. QED
      BY <2>1, SeqMonotonic
  <1>2. \A k \in 1..Len(new) : new[k] \in QuietToken
    BY ElementOfSeq
  <1>3. \A t \in QuietToken : OperatorOf[t] = <<>>
    BY DEF OperatorOf, QuietToken, QuietType
  <1>4. \A k \in 1..Len(new) : OperatorOf[new[k]] = <<>>
    BY <1>2, <1>3
  <1>5. Makes(OperatorOf, CharToken, Char) /\ OperatorText(new) = FlattenSeq(Each(new, OperatorOf))
    BY <1>1, ListTexts
  <1>6. FlattenSeq(Each(new, OperatorOf)) = <<>>
    BY <1>1, <1>4, <1>5, EachNothing
  <1>7. QED
    BY <1>1, <1>5, <1>6

LEMMA TextsConcat ==
  ASSUME NEW a \in Seq(CharToken), NEW b \in Seq(CharToken)
  PROVE  /\ OperatorText(a \o b) = OperatorText(a) \o OperatorText(b)
         /\ TokenText(a \o b) = TokenText(a) \o TokenText(b)
         /\ OperatorText(a) \in Seq(Char) /\ TokenText(a) \in Seq(Char)
  <1>1. /\ Makes(OperatorOf, CharToken, Char) /\ Makes(ValueOf, CharToken, Char)
        /\ \A list \in Seq(CharToken) : /\ OperatorText(list) = Made(list, OperatorOf)
                                        /\ TokenText(list) = Made(list, ValueOf)
    BY ListTexts DEF Made
  <1>2. \A x, y \in Seq(CharToken) :
          /\ Cat(x, y) \in Seq(CharToken)
          /\ Made(Cat(x, y), OperatorOf) = Cat(Made(x, OperatorOf), Made(y, OperatorOf))
    BY <1>1, MadeCat
  <1>3. \A x, y \in Seq(CharToken) :
           Made(Cat(x, y), ValueOf) = Cat(Made(x, ValueOf), Made(y, ValueOf))
    BY <1>1, MadeCat
  <1>4. Made(a, OperatorOf) \in Seq(Char) /\ Made(a, ValueOf) \in Seq(Char)
    <2>1. Made(a, OperatorOf) \in Seq(Char)
      BY <1>1, EachType DEF Made
    <2>2. Made(a, ValueOf) \in Seq(Char)
      BY <1>1, EachType DEF Made
    <2>3. QED
      BY <2>1, <2>2
  <1>5. /\ OperatorText(Cat(a, b)) = Cat(OperatorText(a), OperatorText(b))
        /\ TokenText(Cat(a, b)) = Cat(TokenText(a), TokenText(b))
    BY <1>1, <1>2, <1>3
  <1>6. QED
    BY <1>1, <1>4, <1>5 DEF Cat

Mode(k) == QuoteMode(input, 1)[k]

\* Position k holds no operator that counts ...
Hidden(k) == ~(input[k] \in Operator /\ Mode(k) = "none")

\* ... and is not inside quotes, unless it is behind the line.
Outside(k) == k <= Len(input) => Mode(k) = "none"

\* What the scan has seen of the operators when it is at position k.
OperatorsBefore(list, k) == OperatorText(list) = Upto(OperatorPiece(input), k - 1)

LEMMA QuietTurnKeeps ==
  ASSUME TypeOK, Texts, OperatorsBefore(tokens, i),
         NEW new \in Seq(QuietToken), tokens' = tokens \o new,
         NEW n \in i..Len(input)+1, \A k \in i..n-1 : Hidden(k)
  PROVE  OperatorsBefore(tokens', n)
  <1> DEFINE piece == OperatorPiece(input)
             size == Len(input)
             m == i - 1
             l == n - 1
  <1>1. /\ input \in Seq(Char) /\ size \in Nat /\ m \in 0..size /\ l \in m..size
        /\ tokens \in Seq(CharToken) /\ \A k \in m+1..l : k \in 1..size /\ k \in i..n-1
    BY LenProperties DEF TypeOK, Texts
  <1>2. \A k \in 1..size : /\ piece[k] \in Seq(Char) /\ (Hidden(k) => piece[k] = <<>>)
    BY <1>1, OperatorPieces DEF Hidden, Mode
  <1>3. \A k \in m+1..l : piece[k] = <<>>
    BY <1>1, <1>2
  <1> HIDE DEF piece, size, m, l
  <1>4. Upto(piece, l) = Upto(piece, m) /\ Upto(piece, m) \in Seq(Char)
    <2>0. Pieces(piece, size, Char)
      BY <1>2 DEF Pieces
    <2>1. Upto(piece, l) = Upto(piece, m)
      BY <1>1, <1>3, <2>0, UptoNothing
    <2>2. Upto(piece, m) \in Seq(Char)
      BY <1>1, <2>0, UptoType
    <2>3. QED
      BY <2>1, <2>2
  <1>5. OperatorText(tokens \o new) = OperatorText(tokens) \o OperatorText(new)
        /\ OperatorText(new) = <<>> /\ OperatorText(tokens) \in Seq(Char)
    <2>1. new \in Seq(CharToken) /\ OperatorText(new) = <<>>
      BY QuietText
    <2>2. QED
      BY <1>1, <2>1, TextsConcat
  <1>6. OperatorText(tokens) = Upto(piece, m)
    BY DEF OperatorsBefore, piece, m
  <1>7. OperatorText(tokens') = Upto(piece, l)
    BY <1>4, <1>5, <1>6, ConcatEmptySeq
  <1>8. QED
    BY <1>7 DEF OperatorsBefore, piece, l

\* An operator of one character, outside quotes.
LEMMA SingleOperatorKeeps ==
  ASSUME TypeOK, Texts, OperatorsBefore(tokens, i), i <= Len(input),
         input[i] \in Operator, Mode(i) = "none",
         NEW type \in TokenType \cap (Redirection \cup {"PIPE"}),
         tokens' = tokens \o <<new_token(type, <<input[i]>>)>>
  PROVE  OperatorsBefore(tokens', i + 1)
  <1> DEFINE piece == OperatorPiece(input)
             m == i - 1
             t == new_token(type, <<input[i]>>)
  <1>1. /\ input \in Seq(Char) /\ Len(input) \in Nat /\ m \in Nat /\ m + 1 = i /\ (i + 1) - 1 = i
        /\ i \in 1..Len(input) /\ tokens \in Seq(CharToken) /\ input[i] \in Char
    BY LenProperties, ElementOfSeq DEF TypeOK, Texts
  <1>2. piece[i] = <<input[i]>> /\ \A k \in 1..Len(input) : piece[k] \in Seq(Char)
    BY <1>1, OperatorPieces DEF Mode
  <1>3. t \in CharToken /\ OperatorOf[t] = <<input[i]>>
    <2>1. <<input[i]>> \in Seq(Char)
      BY <1>1
    <2>2. t \in CharToken
      BY <2>1, TokenIsText
    <2>3. t.type = type /\ t.value = <<input[i]>>
      BY DEF new_token
    <2> HIDE DEF t
    <2>4. QED
      BY <2>2, <2>3 DEF OperatorOf
  <1> HIDE DEF piece, m, t
  <1>4. OperatorText(<<t>>) = <<input[i]>> /\ <<t>> \in Seq(CharToken)
    <2>1. <<t>> \in Seq(CharToken)
      BY <1>3, OneText
    <2>2. OperatorText(<<t>>) = FlattenSeq(Each(<<t>>, OperatorOf)) /\ Makes(OperatorOf, CharToken, Char)
      BY <2>1, ListTexts
    <2>3. FlattenSeq(Each(<<t>>, OperatorOf)) = OperatorOf[t]
      BY <1>3, <2>2, EachOne
    <2>4. QED
      BY <1>3, <2>1, <2>2, <2>3
  <1>5. OperatorText(tokens') = OperatorText(tokens) \o <<input[i]>>
    <2>1. OperatorText(tokens \o <<t>>) = OperatorText(tokens) \o OperatorText(<<t>>)
      BY <1>1, <1>4, TextsConcat
    <2>2. tokens' = tokens \o <<t>>
      BY DEF t
    <2>3. QED
      BY <1>4, <2>1, <2>2
  <1>6. Upto(piece, m + 1) = Upto(piece, m) \o piece[m + 1]
    <2>1. \A k \in 1..m+1 : piece[k] \in Seq(Char)
      BY <1>1, <1>2
    <2>2. QED
      BY <1>1, <2>1, UptoStep
  <1>7. OperatorText(tokens) = Upto(piece, m)
    BY DEF OperatorsBefore, piece, m
  <1>8. OperatorText(tokens') = Upto(piece, i)
    BY <1>1, <1>2, <1>5, <1>6, <1>7
  <1>9. QED
    BY <1>1, <1>8 DEF OperatorsBefore, piece

\* An operator of two characters, outside quotes.
LEMMA DoubleOperatorKeeps ==
  ASSUME TypeOK, Texts, OperatorsBefore(tokens, i), i < Len(input),
         NEW c \in Operator, input[i] = c, input[i+1] = c,
         Mode(i) = "none", Mode(i + 1) = "none",
         NEW type \in TokenType \cap (Redirection \cup {"PIPE"}),
         tokens' = tokens \o <<new_token(type, <<c, c>>)>>
  PROVE  OperatorsBefore(tokens', i + 2)
  <1> DEFINE piece == OperatorPiece(input)
             m == i - 1
             t == new_token(type, <<c, c>>)
             j == i + 1
             one == <<c>>
  <1>1. /\ input \in Seq(Char) /\ Len(input) \in Nat /\ m \in Nat /\ m + 1 = i /\ (i + 2) - 1 = j
        /\ i \in 1..Len(input) /\ j \in 1..Len(input) /\ tokens \in Seq(CharToken)
        /\ c \in Char /\ i \in Nat
    <2>1. input \in Seq(Char) /\ Len(input) \in Nat /\ i \in 1..Len(input)
      BY LenProperties DEF TypeOK
    <2>2. c \in Char
      BY <2>1, ElementOfSeq
    <2>3. QED
      BY <2>1, <2>2 DEF Texts
  <1>2. piece[i] = one /\ piece[j] = one /\ \A k \in 1..Len(input) : piece[k] \in Seq(Char)
    BY <1>1, OperatorPieces DEF Mode
  <1>3. one \in Seq(Char) /\ one \o one = <<c, c>> /\ <<c, c>> \in Seq(Char)
    <2>1. Append(one, c) = <<c, c>> /\ one \in Seq(Char) /\ <<c, c>> \in Seq(Char)
      <3>1. one \in Seq(Char)
        BY <1>1
      <3>2. <<c, c>> \in Seq(Char)
        BY <1>1
      <3>3. Append(one, c) = <<c, c>>
        <4>1. c \in Char /\ Len(one) = 1 /\ one[1] = c
          BY <1>1
        <4>2. /\ Append(one, c) \in Seq(Char) /\ Len(Append(one, c)) = 2
              /\ Append(one, c)[1] = c /\ Append(one, c)[2] = c
          <5> HIDE DEF one
          <5>1. /\ Append(one, c) \in Seq(Char) /\ Len(Append(one, c)) = Len(one) + 1
                /\ \A k \in 1..Len(one) : Append(one, c)[k] = one[k]
                /\ Append(one, c)[Len(one)+1] = c
            BY <3>1, <4>1, AppendProperties
          <5>2. Len(one) + 1 = 2 /\ 1 \in 1..Len(one)
            BY <4>1
          <5>3. QED
            BY <4>1, <5>1, <5>2
        <4>3. Len(<<c, c>>) = 2 /\ <<c, c>>[1] = c /\ <<c, c>>[2] = c
          OBVIOUS
        <4> DEFINE left == Append(one, c)
                   right == <<c, c>>
        <4> HIDE DEF left, right, one
        <4>4. Len(left) = Len(right) /\ \A k \in 1..Len(left) : left[k] = right[k]
          <5>1. 1..2 = {1, 2}
            OBVIOUS
          <5>2. QED
            BY <4>2, <4>3, <5>1 DEF left, right
        <4>5. left = right
          BY <3>2, <4>2, <4>4, SeqEqual DEF left, right
        <4>6. QED
          BY <4>5 DEF left, right
      <3>4. QED
        BY <3>1, <3>2, <3>3
    <2>2. Append(one, c) = one \o <<c>>
      BY <1>1, <2>1, AppendIsConcat
    <2>3. QED
      BY <2>1, <2>2
  <1>4. t \in CharToken /\ OperatorOf[t] = <<c, c>>
    <2>1. t \in CharToken
      BY <1>3, TokenIsText
    <2>2. t.type = type /\ t.value = <<c, c>>
      BY DEF new_token
    <2> HIDE DEF t
    <2>3. QED
      BY <2>1, <2>2 DEF OperatorOf
  <1> HIDE DEF piece, m, t, one, j
  <1>5. OperatorText(<<t>>) = <<c, c>> /\ <<t>> \in Seq(CharToken)
    <2>1. <<t>> \in Seq(CharToken)
      BY <1>4, OneText
    <2>2. OperatorText(<<t>>) = FlattenSeq(Each(<<t>>, OperatorOf)) /\ Makes(OperatorOf, CharToken, Char)
      BY <2>1, ListTexts
    <2>3. FlattenSeq(Each(<<t>>, OperatorOf)) = OperatorOf[t]
      BY <1>4, <2>2, EachOne
    <2>4. QED
      BY <1>4, <2>1, <2>2, <2>3
  <1>6. OperatorText(tokens') = OperatorText(tokens) \o (one \o one)
    <2>1. OperatorText(tokens \o <<t>>) = OperatorText(tokens) \o OperatorText(<<t>>)
      BY <1>1, <1>5, TextsConcat
    <2>2. tokens' = tokens \o <<t>>
      BY DEF t
    <2>3. QED
      BY <1>3, <1>5, <2>1, <2>2
  <1>7. Upto(piece, i) = Upto(piece, m) \o one /\ Upto(piece, m) \in Seq(Char)
    <2>1. \A k \in 1..m+1 : piece[k] \in Seq(Char)
      BY <1>1, <1>2
    <2>2. Upto(piece, m + 1) = Upto(piece, m) \o piece[m + 1] /\ Upto(piece, m) \in Seq(Char)
      BY <1>1, <2>1, UptoStep
    <2>3. QED
      BY <1>1, <1>2, <2>2
  <1>8. Upto(piece, j) = Upto(piece, i) \o one
    <2>1. \A k \in 1..i+1 : piece[k] \in Seq(Char)
      BY <1>1, <1>2 DEF j
    <2>2. Upto(piece, i + 1) = Upto(piece, i) \o piece[i + 1]
      BY <1>1, <2>1, UptoStep
    <2>3. QED
      BY <1>2, <2>2 DEF j
  <1>9. (Upto(piece, m) \o one) \o one = Upto(piece, m) \o (one \o one)
    <2> DEFINE x == Upto(piece, m)
    <2>1. x \in Seq(Char) /\ one \in Seq(Char)
      BY <1>3, <1>7
    <2> HIDE DEF x
    <2>2. (x \o one) \o one = x \o (one \o one)
      BY <2>1, ConcatAssociative
    <2>3. QED
      BY <2>2 DEF x
  <1>10. OperatorText(tokens) = Upto(piece, m)
    BY DEF OperatorsBefore, piece, m
  <1>11. OperatorText(tokens') = Upto(piece, j)
    BY <1>6, <1>7, <1>8, <1>9, <1>10
  <1>12. QED
    BY <1>1, <1>11 DEF OperatorsBefore, piece

-----------------------------------------------------------------------------
(* The scan and the quoting modes.                                          *)

\* In a line without backslashes, "<<" and "${", a turn that adds no operator passes
\* over none, and stops outside quotes.
Passes(n) == n \in i..Len(input)+1 /\ Outside(n) /\ \A k \in i..n-1 : Hidden(k)

LEMMA ModeMoves ==
  ASSUME TypeOK
  PROVE  /\ Mode(1) = "none"
         /\ \A k \in 1..Len(input) : Mode(k + 1) = Toggle(Mode(k), input[k])
         /\ \A k \in 1..Len(input) : input[k] \in Char
  <1>1. input \in Seq(Char) /\ Len(input) \in Nat /\ 1 \in 1..Len(input)+1
    BY LenProperties DEF TypeOK
  <1>2. /\ QuoteMode(input, 1)[1] = "none"
        /\ \A j \in 1+1..Len(input)+1 :
              QuoteMode(input, 1)[j] = Toggle(QuoteMode(input, 1)[j-1], input[j-1])
    BY <1>1, ModeSteps
  <1>3. ASSUME NEW k \in 1..Len(input)
        PROVE  Mode(k + 1) = Toggle(Mode(k), input[k])
    <2>1. k + 1 \in 1+1..Len(input)+1 /\ (k + 1) - 1 = k
      BY <1>1
    <2>2. QED
      BY <1>2, <2>1 DEF Mode
  <1>4. QED
    BY <1>1, <1>2, <1>3, ElementOfSeq DEF Mode

\* A stretch of ordinary characters.
LEMMA OrdinaryStretch ==
  ASSUME TypeOK, Outside(i), NEW n \in i..Len(input)+1,
         \A k \in i..n-1 : input[k] \notin Operator \cup Quote
  PROVE  Passes(n)
  <1>1. input \in Seq(Char) /\ Len(input) \in Nat /\ i \in 1..Len(input)+1 /\ i \in Nat
    BY LenProperties DEF TypeOK
  <1>2. \A k \in i..n-1 : Hidden(k)
    BY DEF Hidden
  <1>3. CASE i = n
    BY <1>2, <1>3 DEF Passes
  <1>4. CASE i # n
    <2>1. i <= Len(input) /\ n \in Int /\ i \in 1..Len(input)+1 /\ 1 \in 1..Len(input)+1
      BY <1>1, <1>4
    <2>2. QuoteMode(input, 1)[i] = "none"
      BY <2>1 DEF Outside, Mode
    <2>3. \A k \in i..n-1 : Toggle("none", input[k]) = "none"
      BY DEF Toggle, Quote
    <2>4. \A k \in i..n : QuoteMode(input, 1)[k] = "none"
      BY <1>1, <2>1, <2>2, <2>3, ModeStays
    <2>5. n \in i..n
      BY <2>1
    <2>6. QED
      BY <1>2, <2>4, <2>5 DEF Passes, Outside, Mode
  <1>5. QED
    BY <1>3, <1>4

\* A quoted text.
LEMMA QuotedStretch ==
  ASSUME TypeOK, PlainQuoting(input), i <= Len(input), Mode(i) = "none", input[i] \in Quote
  PROVE  LET close == ClosingQuote(input, i + 1, input[i])
         IN  Passes(IF close > Len(input) THEN close ELSE close + 1)
  <1> DEFINE s == input
             quote == input[i]
             close == ClosingQuote(s, i + 1, quote)
             m == Toggle("none", quote)
  <1>1. /\ s \in Seq(Char) /\ Len(s) \in Nat /\ i \in 1..Len(s) /\ i \in Nat
        /\ i + 1 \in 1..Len(s)+1 /\ 1 \in 1..Len(s)+1
    BY LenProperties DEF TypeOK
  <1>2. close \in i+1..Len(s)+1
    BY <1>1, ClosingQuoteType
  <1>3. /\ \A j \in i+1..close-1 : j \in 1..Len(s) /\ s[j] # quote
        /\ close = Len(s) + 1 \/ s[close] = quote
    <2>1. \A j \in 1..Len(s) : s[j] # "\\"
      BY <1>1, LenProperties DEF PlainQuoting
    <2>2. QED
      BY <1>1, <2>1, ClosingQuotePasses
  <1>4. /\ m # "none" /\ quote \notin Operator /\ Toggle(m, quote) = "none"
        /\ \A c \in Char : c # quote => Toggle(m, c) = m
    BY DEF Toggle, Quote, DoubleQuote, Operator
  <1>5. Mode(i + 1) = m
    BY <1>1, ModeMoves
  <1> HIDE DEF close, m
  <1>6. \A k \in i+1..close : Mode(k) = m
    <2> DEFINE a == i + 1
    <2>1. /\ a \in 1..Len(s)+1 /\ close \in a..Len(s)+1 /\ QuoteMode(s, 1)[a] = m
      BY <1>1, <1>2, <1>5 DEF Mode
    <2>2. \A j \in a..close-1 : Toggle(m, s[j]) = m
      BY <1>1, <1>3, <1>4, ElementOfSeq
    <2> HIDE DEF a
    <2>3. \A k \in a..close : QuoteMode(s, 1)[k] = m
      BY <1>1, <2>1, <2>2, ModeStays
    <2>4. QED
      BY <2>3 DEF a, Mode
  <1>7. ASSUME NEW k \in i..close
        PROVE  Hidden(k)
    <2>1. k = i \/ k \in i+1..close
      BY <1>1, <1>2
    <2>2. QED
      BY <1>4, <1>6, <2>1 DEF Hidden
  <1>8. CASE close > Len(s)
    <2>1. \A k \in i..close-1 : k \in i..close
      BY <1>1, <1>2
    <2>2. close \in i..Len(s)+1 /\ ~(close <= Len(s))
      BY <1>1, <1>2, <1>8
    <2>3. QED
      BY <1>7, <1>8, <2>1, <2>2 DEF Passes, Outside, close
  <1>9. CASE close <= Len(s)
    <2>1. s[close] = quote /\ close \in 1..Len(s) /\ close \in i+1..close
      BY <1>1, <1>2, <1>3, <1>9
    <2>2. Mode(close + 1) = "none"
      BY <1>4, <1>6, <2>1, ModeMoves
    <2>3. (close + 1) - 1 = close /\ close + 1 \in i..Len(s)+1 /\ ~(close > Len(s))
      BY <1>1, <1>2, <1>9
    <2>4. QED
      BY <1>7, <2>2, <2>3 DEF Passes, Outside, close
  <1>10. QED
    BY <1>1, <1>2, <1>8, <1>9 DEF close

LEMMA WordStretch ==
  ASSUME TypeOK, i <= Len(input), Mode(i) = "none"
  PROVE  Passes(WordEnd(input, i))
  <1> DEFINE e == WordEnd(input, i)
  <1>1. input \in Seq(Char) /\ Len(input) \in Nat /\ i \in 1..Len(input)+1 /\ i \in Nat
    BY LenProperties DEF TypeOK
  <1>2. e \in i..Len(input)+1
    BY <1>1, WordEndType
  <1>3. /\ \A j \in i..e-1 : j \in 1..Len(input)
             /\ (QuoteMode(input, i)[j] = "none" => input[j] \notin Blank \cup Operator)
        /\ e <= Len(input) => QuoteMode(input, i)[e] = "none"
    BY <1>1, WordEndPasses
  <1>4. \A j \in i..Len(input)+1 : QuoteMode(input, i)[j] = Mode(j)
    BY <1>1, ModesAgree DEF Mode
  <1> HIDE DEF e
  <1>5. \A j \in i..e-1 : j \in i..Len(input)+1
    BY <1>1, <1>2
  <1>6. \A j \in i..e-1 : Hidden(j)
    BY <1>3, <1>4, <1>5 DEF Hidden
  <1>7. Outside(e)
    BY <1>2, <1>3, <1>4 DEF Outside
  <1>8. QED
    BY <1>2, <1>6, <1>7 DEF Passes, e

\* Every turn that adds no operator passes over none.
LEMMA QuietTurnPasses ==
  ASSUME TypeOK, PlainQuoting(input), Outside(i), ~expect_heredoc_delim,
         Scan, ~handle_quotes_fails, ~handlee_heredoc, ~pipe, ~handle_redirections
  PROVE  Passes(i')
  <1>1. /\ input \in Seq(Char) /\ Len(input) \in Nat /\ i \in 1..Len(input) /\ i \in Nat
        /\ Mode(i) = "none" /\ Scanning /\ Outside(i)
        /\ \A k \in 1..Len(input) : input[k] \in Char
    <2>1. Scanning
      BY DEF Scan, handlee_heredoc, handle_heredoc_delim, handle_quotes,
          handle_quotes_fails, skip_blank, exit_status, pipe, handle_redirections,
          handle_filename, handle_env_var, handle_command_or_argument, word_lost, AtHeredoc,
          AtDelimiter, AtExitStatus, AtTarget, AtWord, AtPlain, Ordinary
    <2>2. QED
      BY <2>1, LenProperties, ModeMoves DEF TypeOK, Scanning, Outside
  <1>2. CASE handle_heredoc_delim
    BY <1>2 DEF handle_heredoc_delim, AtDelimiter
  <1>3. CASE handle_quotes
    <2> DEFINE close == ClosingQuote(input, i + 1, input[i])
    <2>1. /\ input[i] \in Quote
          /\ \/ close > Len(input) /\ i' = close
             \/ close <= Len(input) /\ i' = close + 1
      BY <1>3 DEF handle_quotes, Current, Emit
    <2>2. Passes(IF close > Len(input) THEN close ELSE close + 1)
      BY <1>1, <2>1, QuotedStretch
    <2>3. close \in i+1..Len(input)+1
      BY <1>1, ClosingQuoteType
    <2> HIDE DEF close
    <2>4. i' = IF close > Len(input) THEN close ELSE close + 1
      BY <1>1, <2>1, <2>3
    <2>5. QED
      BY <2>2, <2>4
  <1>4. CASE skip_blank
    <2>1. i' = i + 1 /\ input[i] \in Blank /\ i' \in i..Len(input)+1
      BY <1>1, <1>4 DEF skip_blank, Emit, Current
    <2>2. \A k \in i..i'-1 : k = i
      BY <1>1, <2>1
    <2>3. \A k \in i..i'-1 : input[k] \notin Operator \cup Quote
      BY <2>1, <2>2 DEF Blank, Operator, Quote, DoubleQuote
    <2>4. QED
      BY <1>1, <2>1, <2>3, OrdinaryStretch
  <1>5. CASE exit_status
    <2>1. i' = i + 2 /\ input[i] = "$" /\ i < Len(input) /\ input[i+1] = "?"
      BY <1>1, <1>5 DEF exit_status, AtExitStatus, Emit, Current, Next1
    <2>2. (\A k \in i..i'-1 : k = i \/ k = i + 1) /\ i' \in i..Len(input)+1
      BY <1>1, <2>1
    <2>3. \A k \in i..i'-1 : input[k] \notin Operator \cup Quote
      BY <2>1, <2>2 DEF Operator, Quote, DoubleQuote
    <2>4. QED
      BY <1>1, <2>2, <2>3, OrdinaryStretch
  <1>6. CASE handle_filename
    <2> DEFINE end == EndOfRun(input, i, Blank \cup Operator \cup Quote)
    <2>1. i' = end
      BY <1>6 DEF handle_filename, Emit
    <2>2. end \in i..Len(input)+1
      BY <1>1, EndOfRunType
    <2>3. \A k \in i..end-1 : k \in 1..Len(input) /\ input[k] \notin Blank \cup Operator \cup Quote
      BY <1>1, EndOfRunPasses
    <2> HIDE DEF end
    <2>4. Passes(end)
      BY <1>1, <2>2, <2>3, OrdinaryStretch
    <2>5. QED
      BY <2>1, <2>4
  <1>7. CASE handle_env_var
    <2> DEFINE k == i + 1
               end == EndOfRun(input, k, Char \ NameChar)
    <2>1. input[i] = "$"
      BY <1>7 DEF handle_env_var, Current
    <2>2. Next1 # "{"
      <3>1. i < Len(input) => i \in 1..Len(input)-1
        BY <1>1
      <3>2. i < Len(input) => <<input[i], input[i+1]>> # <<"$", "{">>
        BY <3>1 DEF PlainQuoting
      <3>3. QED
        BY <2>1, <3>2 DEF Next1
    <2>3. i' = end
      BY <1>7, <2>2 DEF handle_env_var, Emit, EndOfName
    <2>4. k \in 1..Len(input)+1
      BY <1>1
    <2>5. end \in k..Len(input)+1
      BY <1>1, <2>4, EndOfRunType
    <2>6. \A j \in k..end-1 : j \in 1..Len(input) /\ input[j] \notin Char \ NameChar
      BY <1>1, <2>4, EndOfRunPasses
    <2> HIDE DEF end
    <2>7. end \in i..Len(input)+1 /\ \A j \in i..end-1 : j = i \/ j \in k..end-1
      BY <1>1, <2>5
    <2>8. \A j \in i..end-1 : input[j] \notin Operator \cup Quote
      <3>1. \A c \in NameChar : c \notin Operator \cup Quote
        BY TextAssumption DEF Special
      <3>2. "$" \notin Operator \cup Quote
        BY DEF Operator, Quote, DoubleQuote
      <3>3. QED
        BY <1>1, <2>1, <2>6, <2>7, <3>1, <3>2
    <2>9. Passes(end)
      BY <1>1, <2>7, <2>8, OrdinaryStretch
    <2>10. QED
      BY <2>3, <2>9
  <1>8. CASE handle_command_or_argument \/ word_lost
    <2>1. i' = WordEnd(input, i)
      BY <1>8 DEF handle_command_or_argument, word_lost, Emit
    <2>2. QED
      BY <1>1, <2>1, WordStretch
  <1>9. QED
    BY <1>2, <1>3, <1>4, <1>5, <1>6, <1>7, <1>8 DEF Scan

\* The list has the operators of what has been scanned, and of the line once it has
\* been scanned as a whole.
OperatorsKept ==
  PlainQuoting(input) =>
    /\ pc = "scan" => OperatorsBefore(tokens, i) /\ Outside(i) /\ ~expect_heredoc_delim
    /\ pc \in {"concat", "done"} => OperatorText(tokens) = UnquotedOperators(input)

\* The operators themselves.
LEMMA OperatorTurnKeeps ==
  ASSUME TypeOK, Texts, PlainQuoting(input), OperatorsBefore(tokens, i), Outside(i),
         pipe \/ handle_redirections
  PROVE  OperatorsBefore(tokens', i') /\ Outside(i') /\ UNCHANGED <<input, expect_heredoc_delim>>
  <1>1. /\ Len(input) \in Nat /\ i \in 1..Len(input) /\ i \in Nat /\ Mode(i) = "none"
        /\ Ordinary /\ UNCHANGED <<input, expect_heredoc_delim>>
    BY LenProperties
    DEF TypeOK, pipe, handle_redirections, Ordinary, Scanning, Outside, Emit
  <1>2. ~(i < Len(input) /\ input[i] = "<" /\ input[i+1] = "<")
    <2>1. i < Len(input) => i \in 1..Len(input)-1
      BY <1>1
    <2>2. i < Len(input) => <<input[i], input[i+1]>> # <<"<", "<">>
      BY <2>1 DEF PlainQuoting
    <2>3. QED
      BY <2>2
  <1>3. \A c \in Operator : Toggle("none", c) = "none"
    BY DEF Operator, Toggle, DoubleQuote
  <1>4. input[i] \in Operator => Mode(i + 1) = "none"
    BY <1>1, <1>3, ModeMoves
  <1>5. {"INPUT", "OUTPUT", "APPEND", "PIPE"} \subseteq TokenType \cap (Redirection \cup {"PIPE"})
    BY DEF TokenType, Redirection, FileRedirection
  <1>6. CASE pipe
    <2>1. input[i] = "|" /\ tokens' = tokens \o <<new_token("PIPE", <<input[i]>>)>> /\ i' = i + 1
      BY <1>6 DEF pipe, Current, Emit
    <2>2. input[i] \in Operator
      BY <2>1 DEF Operator
    <2>3. OperatorsBefore(tokens', i + 1)
      BY <1>1, <1>5, <2>1, <2>2, SingleOperatorKeeps
    <2>4. QED
      BY <1>1, <1>4, <2>1, <2>2, <2>3 DEF Outside
  <1>7. CASE handle_redirections /\ ~(input[i] = ">" /\ Next1 = ">")
    <2>1. /\ input[i] \in {"<", ">"} /\ tokens' = tokens \o <<RedirectionToken>> /\ i' = i + 1
      BY <1>7 DEF handle_redirections, Current, Emit, RedirectionWidth
    <2>2. \E type \in {"INPUT", "OUTPUT"} : RedirectionToken = new_token(type, <<input[i]>>)
      BY <1>7, <2>1 DEF RedirectionToken, Current
    <2>3. input[i] \in Operator
      BY <2>1 DEF Operator
    <2>4. PICK type \in {"INPUT", "OUTPUT"} : tokens' = tokens \o <<new_token(type, <<input[i]>>)>>
      BY <2>1, <2>2
    <2>5. OperatorsBefore(tokens', i + 1)
      BY <1>1, <1>5, <2>3, <2>4, SingleOperatorKeeps
    <2>6. QED
      BY <1>1, <1>4, <2>1, <2>3, <2>5 DEF Outside
  <1>8. CASE handle_redirections /\ input[i] = ">" /\ Next1 = ">"
    <2>1. i < Len(input) /\ input[i] = ">" /\ input[i+1] = ">" /\ i + 1 \in 1..Len(input)
      BY <1>1, <1>8 DEF Next1
    <2>2. tokens' = tokens \o <<new_token("APPEND", <<">", ">">>)>> /\ i' = i + 2
      BY <1>8 DEF handle_redirections, Current, Emit, RedirectionWidth, RedirectionToken
    <2>3. ">" \in Operator
      BY DEF Operator
    <2>4. Mode(i + 1) = "none" /\ Mode((i + 1) + 1) = "none" /\ (i + 1) + 1 = i + 2
      BY <1>1, <1>3, <1>4, <2>1, <2>3, ModeMoves
    <2>5. OperatorsBefore(tokens', i + 2)
      BY <1>1, <1>5, <2>1, <2>2, <2>3, <2>4, DoubleOperatorKeeps
    <2>6. QED
      BY <1>1, <2>2, <2>4, <2>5 DEF Outside
  <1>9. QED
    BY <1>6, <1>7, <1>8

LEMMA OperatorsStep ==
  ASSUME TypeOK, Texts, OperatorsKept, [Next]_vars
  PROVE  OperatorsKept'
  <1> USE DEF OperatorsKept
  <1>1. CASE Scan /\ ~handle_quotes_fails
    <2>1. pc = "scan" /\ pc' = "scan" /\ input' = input
      BY <1>1 DEF Scan, Emit, handlee_heredoc, handle_heredoc_delim, handle_quotes,
          skip_blank, exit_status, pipe, handle_redirections,
          handle_filename, handle_env_var, handle_command_or_argument, word_lost, AtHeredoc,
          AtDelimiter, AtExitStatus, AtTarget, AtWord, AtPlain, Ordinary, Scanning
    <2> SUFFICES ASSUME PlainQuoting(input)
                 PROVE  OperatorsBefore(tokens', i') /\ Outside(i') /\ ~expect_heredoc_delim'
      BY <2>1 DEF OperatorsBefore, Outside, Mode
    <2>2. OperatorsBefore(tokens, i) /\ Outside(i) /\ ~expect_heredoc_delim
      BY <2>1
    <2>3. ~handlee_heredoc
      <3>1. SUFFICES ASSUME handlee_heredoc PROVE FALSE
        OBVIOUS
      <3>2. i \in 1..Len(input)-1 /\ input[i] = "<" /\ input[i+1] = "<"
        BY <3>1, LenProperties DEF handlee_heredoc, AtHeredoc, Scanning, Current, Next1, TypeOK
      <3>3. QED
        BY <3>2 DEF PlainQuoting
    <2>4. CASE pipe \/ handle_redirections
      BY <2>2, <2>4, OperatorTurnKeeps
    <2>5. CASE ~pipe /\ ~handle_redirections
      <3>1. PICK new \in Seq(QuietToken) : tokens' = tokens \o new
        BY <1>1, <2>3, <2>5, QuietHandlers
      <3>2. Passes(i')
        BY <1>1, <2>2, <2>3, <2>5, QuietTurnPasses
      <3>3. OperatorsBefore(tokens', i')
        BY <2>2, <3>1, <3>2, QuietTurnKeeps DEF Passes
      <3>4. ~expect_heredoc_delim'
        BY <1>1, <2>2, <2>3
        DEF Scan, handle_heredoc_delim, handle_quotes, skip_blank, exit_status, pipe,
            handle_redirections, handle_filename, handle_env_var,
            handle_command_or_argument, word_lost
      <3>5. QED
        BY <3>2, <3>3, <3>4 DEF Passes
    <2>6. QED
      BY <2>4, <2>5
  <1>2. CASE handle_quotes_fails
    BY <1>2 DEF handle_quotes_fails
  <1>3. CASE end_of_input
    <2>1. /\ UNCHANGED <<input, tokens>> /\ pc = "scan" /\ pc' = "concat"
          /\ input \in Seq(Char) /\ i - 1 = Len(input)
      BY <1>3, LenProperties DEF end_of_input, TypeOK
    <2>2. UnquotedOperators(input) = Upto(OperatorPiece(input), Len(input))
      BY <2>1, OperatorPieces
    <2>3. PlainQuoting(input) => OperatorText(tokens) = UnquotedOperators(input)
      BY <2>1, <2>2 DEF OperatorsBefore
    <2>4. QED
      BY <2>1, <2>3
  <1>4. CASE concat_merge
    <2>1. OperatorText(tokens') = OperatorText(tokens)
      BY <1>4, MergeConserves DEF TypeOK
    <2>2. pc = "concat" /\ pc' = "concat" /\ input' = input
      BY <1>4 DEF concat_merge
    <2>3. QED
      BY <2>1, <2>2
  <1>5. CASE concat_advance \/ concat_fails \/ concat_end
    <2>1. pc = "concat" /\ pc' \in {"concat", "done"} /\ UNCHANGED <<input, tokens>>
      BY <1>5 DEF concat_advance, concat_fails, concat_end
    <2>2. QED
      BY <2>1
  <1>6. CASE UNCHANGED vars
    BY <1>6 DEF vars, OperatorsBefore, Outside, Mode
  <1>7. QED
    BY <1>1, <1>2, <1>3, <1>4, <1>5, <1>6 DEF Next, Concatinate

\* Quoting hides operators and nothing else does: the operators of the list are those
\* of the line, in order.
THEOREM OperatorsAreFaithful == Spec => []OperatorsFaithful
  <1>1. Init => Texts /\ OperatorsKept
    <2> SUFFICES ASSUME Init PROVE Texts /\ OperatorsKept
      OBVIOUS
    <2>1. /\ tokens = <<>> /\ pc = "scan" /\ i = 1 /\ ~expect_heredoc_delim
          /\ input \in Seq(Char) /\ TypeOK
      BY InitInv, InputsAssumption DEF Init, Inv
    <2>2. Texts
      BY <2>1, EmptySeq DEF Texts
    <2>3. OperatorText(tokens) = <<>>
      <3>1. [k \in DOMAIN tokens |->
              IF tokens[k].type \in Redirection \cup {"PIPE"} THEN tokens[k].value ELSE <<>>] = <<>>
        BY <2>1
      <3>2. QED
        BY <3>1, FlattenEmpty DEF OperatorText
    <2>4. Upto(OperatorPiece(input), i - 1) = <<>>
      <3>1. i - 1 = 0
        BY <2>1
      <3>2. QED
        BY <3>1, UptoStarts
    <2>5. Outside(i)
      BY <2>1, ModeMoves DEF Outside
    <2>6. QED
      BY <2>1, <2>2, <2>3, <2>4, <2>5 DEF OperatorsKept, OperatorsBefore
  <1>2. Inv /\ Texts /\ OperatorsKept /\ [Next]_vars => Texts' /\ OperatorsKept'
    BY TextsStep, OperatorsStep DEF Inv
  <1>3. OperatorsKept => OperatorsFaithful
    BY DEF OperatorsKept, OperatorsFaithful
  <1>4. QED
    BY <1>1, <1>2, <1>3, Invariance, PTL DEF Spec

-----------------------------------------------------------------------------
(* The characters of a line of names, blanks and operators.                 *)

Letters(s) == \A k \in DOMAIN s : s[k] \in NameChar \cup Blank \cup Operator

\* What the character at each position gives: itself, unless it is a blank.
LetterPiece(s) == [k \in DOMAIN s |-> IF s[k] \in Blank THEN <<>> ELSE <<s[k]>>]

LEMMA LetterPieces ==
  ASSUME NEW s \in Seq(Char)
  PROVE  /\ Pieces(LetterPiece(s), Len(s), Char)
         /\ \A k \in 1..Len(s) :
              /\ s[k] \in Blank => LetterPiece(s)[k] = <<>>
              /\ s[k] \notin Blank => LetterPiece(s)[k] = <<s[k]>>
         /\ Without(s, Blank) = Upto(LetterPiece(s), Len(s))
  <1>1. Len(s) \in Nat /\ DOMAIN s = 1..Len(s) /\ \A k \in 1..Len(s) : s[k] \in Char
    BY LenProperties, ElementOfSeq
  <1>2. <<>> \in Seq(Char) /\ \A c \in Char : <<c>> \in Seq(Char)
    BY EmptySeq
  <1>3. \A k \in 1..Len(s) : LetterPiece(s)[k] = IF s[k] \in Blank THEN <<>> ELSE <<s[k]>>
    BY <1>1 DEF LetterPiece
  <1>4. Without(s, Blank) = FlattenSeq(LetterPiece(s))
    BY DEF Without, LetterPiece
  <1>5. LetterPiece(s) = [k \in 1..Len(s) |-> LetterPiece(s)[k]]
    BY <1>1 DEF LetterPiece
  <1>6. Without(s, Blank) = Upto(LetterPiece(s), Len(s))
    BY <1>4, <1>5 DEF Upto
  <1>7. Pieces(LetterPiece(s), Len(s), Char)
    BY <1>1, <1>2, <1>3 DEF Pieces
  <1>8. QED
    BY <1>3, <1>6, <1>7

\* The text of the list when the scan is at position k.
TextBefore(list, k) == TokenText(list) = Upto(LetterPiece(input), k - 1)

\* A turn that adds the tokens new, whose text is the line's from position a on, behind
\* nothing but blanks.
TakesText(new, a) ==
  /\ new \in Seq(CharToken) /\ tokens' = tokens \o new
  /\ a \in i..Len(input)+1 /\ i' \in a..Len(input)+1
  /\ TokenText(new) = SubSeq(input, a, i' - 1)
  /\ \A k \in i..a-1 : input[k] \in Blank
  /\ \A k \in a..i'-1 : input[k] \notin Blank

LEMMA TextTurnKeeps ==
  ASSUME TypeOK, Texts, TextBefore(tokens, i), NEW new, NEW a, TakesText(new, a)
  PROVE  TextBefore(tokens', i')
  <1> DEFINE piece == LetterPiece(input)
             size == Len(input)
             m == i - 1
             l == a - 1
             n == i' - 1
  <1>1. /\ input \in Seq(Char) /\ size \in Nat /\ m \in 0..size /\ l \in m..size /\ n \in l..size
        /\ l \in 0..size /\ n \in 0..size /\ l + 1 = a
        /\ tokens \in Seq(CharToken)
        /\ \A k \in m+1..l : k \in 1..size /\ k \in i..a-1
        /\ \A k \in l+1..n : k \in 1..size /\ k \in a..i'-1
    <2>1. /\ input \in Seq(Char) /\ size \in Nat /\ i \in 1..size+1
          /\ a \in i..size+1 /\ i' \in a..size+1 /\ tokens \in Seq(CharToken)
      BY LenProperties DEF TypeOK, Texts, TakesText
    <2> DEFINE q == i'
    <2>0. q \in a..size+1 /\ n = q - 1 /\ i' = q
      BY <2>1
    <2> HIDE DEF size, n, q
    <2>2. /\ m \in 0..size /\ l \in m..size /\ n \in l..size
          /\ l \in 0..size /\ n \in 0..size /\ l + 1 = a
      BY <2>0, <2>1
    <2>3. \A k \in m+1..l : k \in 1..size /\ k \in i..a-1
      BY <2>1
    <2>4. \A k \in l+1..n : k \in 1..size /\ k \in a..i'-1
      BY <2>0, <2>1
    <2> HIDE DEF m, l
    <2>5. QED
      BY <2>1, <2>2, <2>3, <2>4
  <1>2. /\ Pieces(piece, size, Char)
        /\ \A k \in 1..size : /\ input[k] \in Blank => piece[k] = <<>>
                              /\ input[k] \notin Blank => piece[k] = <<input[k]>>
    BY <1>1, LetterPieces
  <1>3. \A k \in m+1..l : piece[k] = <<>>
    BY <1>1, <1>2 DEF TakesText
  <1>4. \A k \in l+1..n : piece[k] = <<input[k]>>
    BY <1>1, <1>2 DEF TakesText
  <1>5. /\ TokenText(tokens') = TokenText(tokens) \o SubSeq(input, a, n)
        /\ TokenText(tokens) = Upto(piece, m)
    <2>1. TokenText(tokens \o new) = TokenText(tokens) \o TokenText(new)
      BY <1>1, TextsConcat DEF TakesText
    <2>2. QED
      BY <2>1 DEF TakesText, TextBefore
  <1> HIDE DEF piece, m, l, n
  <1>6. Upto(piece, l) = Upto(piece, m)
    BY <1>1, <1>2, <1>3, UptoNothing DEF size
  <1>7. Upto(piece, n) = Upto(piece, l) \o SubSeq(input, l + 1, n)
    <2>1. \A k \in l+1..n : piece[k] = <<input[k]>>
      BY <1>4
    <2>2. Pieces(piece, Len(input), Char) /\ input \in Seq(Char)
      BY <1>1, <1>2 DEF size
    <2>3. l \in 0..Len(input) /\ n \in l..Len(input)
      BY <1>1 DEF size
    <2>4. \A x \in 0..Len(input) : \A y \in x..Len(input) :
             (\A k \in x+1..y : piece[k] = <<input[k]>>) =>
               Upto(piece, y) = Upto(piece, x) \o SubSeq(input, x + 1, y)
      BY <2>2, UptoItself
    <2>5. QED
      BY <2>1, <2>3, <2>4
  <1>8. TokenText(tokens') = Upto(piece, n)
    BY <1>1, <1>5, <1>6, <1>7
  <1>9. QED
    BY <1>8 DEF TextBefore, piece, n

LEMMA OneTokenText ==
  ASSUME NEW t \in CharToken
  PROVE  <<t>> \in Seq(CharToken) /\ TokenText(<<t>>) = t.value
  <1>1. <<t>> \in Seq(CharToken)
    BY OneText
  <1>2. TokenText(<<t>>) = FlattenSeq(Each(<<t>>, ValueOf)) /\ Makes(ValueOf, CharToken, Char)
    BY <1>1, ListTexts
  <1>3. FlattenSeq(Each(<<t>>, ValueOf)) = ValueOf[t]
    BY <1>2, EachOne
  <1>4. QED
    BY <1>1, <1>2, <1>3 DEF ValueOf

LEMMA NoTokenText == <<>> \in Seq(CharToken) /\ TokenText(<<>>) = <<>>
  <1>1. [k \in DOMAIN <<>> |-> <<>>[k].value] = <<>>
    OBVIOUS
  <1>2. TokenText(<<>>) = FlattenSeq([k \in DOMAIN <<>> |-> <<>>[k].value])
    BY DEF TokenText
  <1>3. QED
    BY <1>1, <1>2, FlattenEmpty, EmptySeq

\* One token whose value is a piece of the line.
LEMMA PieceTurn ==
  ASSUME TypeOK, NEW a \in i..Len(input)+1, i' \in a..Len(input)+1,
         NEW t, t \in CharToken, t.value = SubSeq(input, a, i' - 1), tokens' = tokens \o <<t>>,
         \A k \in i..a-1 : input[k] \in Blank,
         \A k \in a..i'-1 : input[k] \notin Blank
  PROVE  \E new, b : TakesText(new, b)
  <1>1. <<t>> \in Seq(CharToken) /\ TokenText(<<t>>) = t.value
    BY OneTokenText
  <1>2. TakesText(<<t>>, a)
    BY <1>1 DEF TakesText
  <1>3. QED
    BY <1>2

LEMMA LetterTurn ==
  ASSUME TypeOK, Letters(input), Scan, ~handle_quotes_fails, ~word_lost
  PROVE  \E new, a : TakesText(new, a)
  <1>1. /\ input \in Seq(Char) /\ Len(input) \in Nat /\ i \in 1..Len(input) /\ i \in Nat
        /\ i \in i..Len(input)+1 /\ i \in 1..Len(input)+1
        /\ \A k \in 1..Len(input) : input[k] \in Char /\ input[k] \in NameChar \cup Blank \cup Operator
    <2>1. i <= Len(input)
      BY DEF Scan, handlee_heredoc, handle_heredoc_delim, handle_quotes,
          handle_quotes_fails, skip_blank, exit_status, pipe, handle_redirections,
          handle_filename, handle_env_var, handle_command_or_argument, word_lost, AtHeredoc,
          AtDelimiter, AtExitStatus, AtTarget, AtWord, AtPlain, Ordinary, Scanning
    <2>2. QED
      BY <2>1, LenProperties, ElementOfSeq DEF TypeOK, Letters
  <1>2. \A k \in 1..Len(input) : input[k] \notin Quote /\ input[k] # "$"
    <2>1. \A c \in NameChar : c \notin Quote /\ c # "$"
      BY TextAssumption DEF Special
    <2>2. \A c \in Blank \cup Operator : c \notin Quote /\ c # "$"
      BY DEF Blank, Operator, Quote, DoubleQuote
    <2>3. QED
      BY <1>1, <2>1, <2>2
  <1>3. \A type \in TokenType, k \in i..Len(input)+1, e \in 1..Len(input)+1 :
           e >= k => new_token(type, SubSeq(input, k, e - 1)) \in CharToken
    <2> TAKE type \in TokenType, k \in i..Len(input)+1, e \in 1..Len(input)+1
    <2>1. e >= k => k \in 1..Len(input)+1 /\ e \in k..Len(input)+1
      BY <1>1
    <2>2. e >= k => SubSeq(input, k, e - 1) \in Seq(Char)
      BY <1>1, <2>1, PieceOfLine
    <2>3. QED
      BY <2>2, TokenIsText
  <1>4. /\ {"ARG", "PIPE", "HEREDOC", "DELIMITER", "FILENAME",
            "INPUT", "OUTPUT", "APPEND", "COMMANDE"} \subseteq TokenType
        /\ \A type, value : new_token(type, value).value = value
    BY DEF TokenType, new_token
  <1>5. \A k \in i..i-1 : input[k] \in Blank
    BY <1>1
  <1>6. \A c \in Operator : c \notin Blank
    BY DEF Operator, Blank
  <1>7. ASSUME NEW type \in TokenType, tokens' = tokens \o <<new_token(type, <<input[i]>>)>>,
               i' = i + 1, input[i] \in Operator
        PROVE  \E new, a : TakesText(new, a)
    <2>1. <<input[i]>> = SubSeq(input, i, i' - 1)
      <3>1. i' - 1 = i
        BY <1>1, <1>7
      <3>2. QED
        BY <1>1, <3>1, SubSeqOne
    <2>2. i' \in i..Len(input)+1 /\ i' \in 1..Len(input)+1 /\ i' >= i
      BY <1>1, <1>7
    <2>3. new_token(type, SubSeq(input, i, i' - 1)) \in CharToken
      BY <1>1, <1>3, <2>2
    <2>4. \A k \in i..i'-1 : input[k] \notin Blank
      BY <1>1, <1>6, <1>7
    <2>5. new_token(type, <<input[i]>>) \in CharToken
          /\ new_token(type, <<input[i]>>).value = SubSeq(input, i, i' - 1)
      BY <1>4, <2>1, <2>3
    <2>6. QED
      BY <1>1, <1>5, <1>7, <2>2, <2>4, <2>5, PieceTurn
  <1>8. ASSUME NEW type \in TokenType, NEW c \in Operator, i < Len(input),
               input[i] = c, input[i+1] = c,
               tokens' = tokens \o <<new_token(type, <<c, c>>)>>, i' = i + 2
        PROVE  \E new, a : TakesText(new, a)
    <2>1. <<c, c>> = SubSeq(input, i, i' - 1)
      <3>1. i' - 1 = i + 1 /\ i \in 1..Len(input)-1
        BY <1>1, <1>8
      <3>2. QED
        BY <1>1, <1>8, <3>1, SubSeqTwo
    <2>2. i' \in i..Len(input)+1 /\ i' \in 1..Len(input)+1 /\ i' >= i
      BY <1>1, <1>8
    <2>3. new_token(type, SubSeq(input, i, i' - 1)) \in CharToken
      BY <1>1, <1>3, <2>2
    <2>4. \A k \in i..i'-1 : input[k] \notin Blank
      <3>1. \A k \in i..i'-1 : k = i \/ k = i + 1
        BY <1>1, <1>8
      <3>2. QED
        BY <1>6, <1>8, <3>1
    <2>5. new_token(type, <<c, c>>) \in CharToken
          /\ new_token(type, <<c, c>>).value = SubSeq(input, i, i' - 1)
      BY <1>4, <2>1, <2>3
    <2>6. QED
      BY <1>1, <1>5, <1>8, <2>2, <2>4, <2>5, PieceTurn
  <1>9. CASE handlee_heredoc
    <2>1. i < Len(input) /\ input[i] = "<" /\ input[i+1] = "<"
      BY <1>9 DEF handlee_heredoc, AtHeredoc, Current, Next1
    <2>2. tokens' = tokens \o <<new_token("HEREDOC", <<"<", "<">>)>> /\ i' = i + 2
      BY <1>9 DEF handlee_heredoc, Emit
    <2>3. "<" \in Operator
      BY DEF Operator
    <2>4. QED
      BY <1>4, <1>8, <2>1, <2>2, <2>3
  <1>10. CASE handle_heredoc_delim
    <2> DEFINE start == EndOfRun(input, i, Char \ Blank)
               end   == EndOfRun(input, start, Blank)
    <2>1. start \in i..Len(input)+1 /\ start \in 1..Len(input)+1
      BY <1>1, EndOfRunType
    <2>2. end \in start..Len(input)+1
      BY <1>1, <2>1, EndOfRunType
    <2>3. \A k \in i..start-1 : k \in 1..Len(input) /\ input[k] \notin Char \ Blank
      BY <1>1, EndOfRunPasses
    <2>4. \A k \in start..end-1 : k \in 1..Len(input) /\ input[k] \notin Blank
      BY <1>1, <2>1, EndOfRunPasses
    <2>5. /\ tokens' = tokens \o <<new_token("DELIMITER", SubSeq(input, start, end - 1))>>
          /\ i' = end
      BY <1>10 DEF handle_heredoc_delim, Emit
    <2> HIDE DEF start, end
    <2>6. \A k \in i..start-1 : input[k] \in Blank
      BY <1>1, <2>3
    <2>7. end \in 1..Len(input)+1 /\ end >= start
      BY <1>1, <2>1, <2>2
    <2> DEFINE t == new_token("DELIMITER", SubSeq(input, start, end - 1))
    <2>8. t \in CharToken /\ t.value = SubSeq(input, start, i' - 1)
      BY <1>3, <1>4, <2>1, <2>5, <2>7
    <2> HIDE DEF t
    <2>9. tokens' = tokens \o <<t>> /\ i' \in start..Len(input)+1
          /\ \A k \in start..i'-1 : input[k] \notin Blank
      BY <2>2, <2>4, <2>5 DEF t
    <2>10. QED
      BY <2>1, <2>6, <2>8, <2>9, PieceTurn
  <1>11. CASE handle_quotes \/ exit_status \/ handle_env_var
    BY <1>1, <1>2, <1>11
    DEF handle_quotes, exit_status, handle_env_var, Current, AtExitStatus
  <1>12. CASE skip_blank
    <2>1. i' = i + 1 /\ tokens' = tokens \o <<>> /\ input[i] \in Blank
      BY <1>12 DEF skip_blank, Emit, Current
    <2>2. SubSeq(input, i', i' - 1) = <<>>
      <3>1. i' \in Int /\ i' - 1 \in Int /\ i' - 1 < i'
        BY <1>1, <2>1
      <3>2. QED
        BY <3>1, SubSeqEmpty
    <2>3. /\ i' \in i..Len(input)+1 /\ i' \in i'..Len(input)+1 /\ (\A k \in i..i'-1 : k = i)
          /\ \A k \in i'..i'-1 : FALSE
      BY <1>1, <2>1
    <2>4. TakesText(<<>>, i')
      BY <2>1, <2>2, <2>3, NoTokenText DEF TakesText
    <2>5. QED
      BY <2>4
  <1>13. CASE pipe
    <2>1. input[i] = "|" /\ tokens' = tokens \o <<new_token("PIPE", <<input[i]>>)>> /\ i' = i + 1
      BY <1>13 DEF pipe, Current, Emit
    <2>2. QED
      BY <1>4, <1>7, <2>1 DEF Operator
  <1>14. CASE handle_redirections /\ ~(input[i] = ">" /\ Next1 = ">")
    <2>1. /\ input[i] \in {"<", ">"} /\ tokens' = tokens \o <<RedirectionToken>> /\ i' = i + 1
      BY <1>14 DEF handle_redirections, Current, Emit, RedirectionWidth
    <2>2. \E type \in {"INPUT", "OUTPUT"} : RedirectionToken = new_token(type, <<input[i]>>)
      BY <1>14, <2>1 DEF RedirectionToken, Current
    <2>3. PICK type \in {"INPUT", "OUTPUT"} : tokens' = tokens \o <<new_token(type, <<input[i]>>)>>
      BY <2>1, <2>2
    <2>4. QED
      BY <1>4, <1>7, <2>1, <2>3 DEF Operator
  <1>15. CASE handle_redirections /\ input[i] = ">" /\ Next1 = ">"
    <2>1. i < Len(input) /\ input[i] = ">" /\ input[i+1] = ">"
      BY <1>15 DEF Next1
    <2>2. tokens' = tokens \o <<new_token("APPEND", <<">", ">">>)>> /\ i' = i + 2
      BY <1>15 DEF handle_redirections, Current, Emit, RedirectionWidth, RedirectionToken
    <2>3. ">" \in Operator
      BY DEF Operator
    <2>4. QED
      BY <1>4, <1>8, <2>1, <2>2, <2>3
  <1>16. CASE handle_filename
    <2> DEFINE end == EndOfRun(input, i, Blank \cup Operator \cup Quote)
    <2>1. /\ tokens' = tokens \o <<new_token("FILENAME", SubSeq(input, i, end - 1))>>
          /\ i' = end
      BY <1>16 DEF handle_filename, Emit
    <2>2. end \in i..Len(input)+1
      BY <1>1, EndOfRunType
    <2>3. \A k \in i..end-1 : k \in 1..Len(input) /\ input[k] \notin Blank \cup Operator \cup Quote
      BY <1>1, EndOfRunPasses
    <2> HIDE DEF end
    <2> DEFINE t == new_token("FILENAME", SubSeq(input, i, end - 1))
    <2>4. end \in 1..Len(input)+1 /\ end >= i
      BY <1>1, <2>2
    <2>5. t \in CharToken /\ t.value = SubSeq(input, i, i' - 1)
      BY <1>1, <1>3, <1>4, <2>1, <2>4
    <2>6. \A k \in i..i'-1 : input[k] \notin Blank
      BY <2>1, <2>3
    <2> HIDE DEF t
    <2>7. tokens' = tokens \o <<t>> /\ i' \in i..Len(input)+1
      BY <2>1, <2>2 DEF t
    <2>8. QED
      BY <1>1, <1>5, <2>5, <2>6, <2>7, PieceTurn
  <1>17. CASE handle_command_or_argument
    <2> DEFINE end  == WordEnd(input, i)
               word == SubSeq(input, i, end - 1)
    <2>1. end \in i..Len(input)+1 /\ end \in 1..Len(input)+1
      BY <1>1, WordEndType
    <2>2. \A j \in i..Len(input)+1 : QuoteMode(input, i)[j] = "none"
      <3> DEFINE n == Len(input) + 1
      <3>1. \A j \in i..n-1 : Toggle("none", input[j]) = "none"
        BY <1>1, <1>2 DEF Toggle, Quote
      <3>2. n \in i..Len(input)+1 /\ i \in i..Len(input)+1
        BY <1>1
      <3>3. QuoteMode(input, i)[i] = "none"
        BY <1>1, ModeSteps
      <3> HIDE DEF n
      <3>4. \A j \in i..n : QuoteMode(input, i)[j] = "none"
        BY <1>1, <3>1, <3>2, <3>3, ModeStays
      <3>5. QED
        BY <3>4 DEF n
    <2>3. \A k \in i..end-1 : k \in 1..Len(input) /\ k \in i..Len(input)+1
             /\ (QuoteMode(input, i)[k] = "none" => input[k] \notin Blank \cup Operator)
      <3>1. \A k \in i..end-1 : k \in 1..Len(input)
             /\ (QuoteMode(input, i)[k] = "none" => input[k] \notin Blank \cup Operator)
        BY <1>1, WordEndPasses
      <3> HIDE DEF end
      <3>2. QED
        BY <1>1, <3>1
    <2>4. PICK status \in StatusChoices(word) :
             Emit(<<SpacedToken(TypeAfter(tokens, Len(tokens)),
                      remove_single_quotes(expand_variables(word, status)), SpaceAt(end))>>, end)
      BY <1>17, <2>1, <2>2 DEF handle_command_or_argument
    <2> HIDE DEF end
    <2>5. word \in Seq(Char)
      BY <1>1, <2>1, PieceOfLine
    <2>6. \A k \in 1..Len(word) : word[k] \notin Quote /\ word[k] # "$"
      <3> DEFINE e == end - 1
      <3>1. i \in Int /\ e \in Int /\ (\A k \in i..e : k \in 1..Len(input)) /\ e <= Len(input)
        BY <1>1, <2>1, <2>3
      <3>2. \A k \in i..e : input[k] \in Char
        BY <1>1, <3>1
      <3> HIDE DEF e
      <3>3. /\ Len(SubSeq(input, i, e)) = IF i <= e THEN e-i+1 ELSE 0
            /\ \A k \in 1..e-i+1 : SubSeq(input, i, e)[k] = input[i+k-1]
        BY <3>1, <3>2, SubSeqProperties
      <3>4. \A k \in 1..Len(SubSeq(input, i, e)) : k \in 1..e-i+1 /\ i+k-1 \in 1..Len(input)
        BY <1>1, <3>1, <3>3
      <3>5. QED
        BY <1>2, <3>3, <3>4 DEF e
    <2> DEFINE type == TypeAfter(tokens, Len(tokens))
               space == SpaceAt(end)
    <2>7. remove_single_quotes(expand_variables(word, status)) = word
      <3> HIDE DEF word
      <3>1. expand_variables(word, status) = remove_quotes(word)
        BY <2>5, <2>6, ExpandNothing
      <3>2. remove_quotes(word) = word /\ remove_single_quotes(word) = word
        BY <2>5, <2>6, QuotesNothing
      <3>3. QED
        BY <3>1, <3>2
    <2>8. type \in TokenType /\ space \in BOOLEAN
      BY <1>4 DEF TypeAfter, SpaceAt
    <2> DEFINE t == SpacedToken(type, word, space)
    <2>9. t \in CharToken /\ t.value = word
      <3> HIDE DEF word, type, space
      <3>1. QED
        BY <2>5, <2>8, TokenIsText DEF SpacedToken, new_token
    <2>10. tokens' = tokens \o <<t>> /\ i' = end
      BY <2>4, <2>7 DEF Emit
    <2>11. \A k \in i..i'-1 : input[k] \notin Blank
      BY <2>2, <2>3, <2>10
    <2> HIDE DEF t
    <2>12. t.value = SubSeq(input, i, i' - 1) /\ i' \in i..Len(input)+1
      BY <2>1, <2>9, <2>10
    <2> HIDE DEF word, type, space
    <2>13. QED
      BY <1>1, <1>5, <2>9, <2>10, <2>11, <2>12, PieceTurn
  <1>18. QED
    BY <1>9, <1>10, <1>11, <1>12, <1>13, <1>14, <1>15, <1>16, <1>17 DEF Scan

\* The list has the text of what has been scanned, and of the line once it has been
\* scanned as a whole.
TextKept ==
  (Letters(input) /\ ~oom) =>
    /\ pc = "scan" => TextBefore(tokens, i)
    /\ pc \in {"concat", "done"} => TokenText(tokens) = Without(input, Blank)

LEMMA TextKeptStep ==
  ASSUME TypeOK, Texts, TextKept, [Next]_vars
  PROVE  TextKept'
  <1> USE DEF TextKept
  <1>1. CASE Scan /\ ~handle_quotes_fails /\ ~word_lost
    <2>1. pc = "scan" /\ pc' = "scan" /\ input' = input /\ oom' = oom
      BY <1>1 DEF Scan, Emit, handlee_heredoc, handle_heredoc_delim, handle_quotes,
          skip_blank, exit_status, pipe, handle_redirections,
          handle_filename, handle_env_var, handle_command_or_argument, AtHeredoc,
          AtDelimiter, AtExitStatus, AtTarget, AtWord, AtPlain, Ordinary, Scanning
    <2> SUFFICES ASSUME Letters(input), ~oom
                 PROVE  TextBefore(tokens', i')
      BY <2>1 DEF TextBefore, Letters
    <2>2. \E new, a : TakesText(new, a)
      BY <1>1, LetterTurn
    <2>3. QED
      BY <2>1, <2>2, TextTurnKeeps
  <1>2. CASE handle_quotes_fails \/ word_lost \/ concat_fails
    BY <1>2 DEF handle_quotes_fails, word_lost, concat_fails
  <1>3. CASE end_of_input
    <2>1. /\ UNCHANGED <<input, tokens, oom>> /\ pc = "scan" /\ pc' = "concat"
          /\ input \in Seq(Char) /\ i - 1 = Len(input)
      BY <1>3, LenProperties DEF end_of_input, TypeOK
    <2>2. Without(input, Blank) = Upto(LetterPiece(input), Len(input))
      BY <2>1, LetterPieces
    <2>3. QED
      BY <2>1, <2>2 DEF TextBefore, Letters
  <1>4. CASE concat_merge
    <2>1. TokenText(tokens') = TokenText(tokens)
      BY <1>4, MergeConserves DEF TypeOK
    <2>2. pc = "concat" /\ pc' = "concat" /\ input' = input /\ oom' = oom
      BY <1>4 DEF concat_merge
    <2>3. QED
      BY <2>1, <2>2 DEF Letters
  <1>5. CASE concat_advance \/ concat_end
    <2>1. pc = "concat" /\ pc' \in {"concat", "done"} /\ UNCHANGED <<input, tokens, oom>>
      BY <1>5 DEF concat_advance, concat_end
    <2>2. QED
      BY <2>1 DEF Letters
  <1>6. CASE UNCHANGED vars
    BY <1>6 DEF vars, TextBefore, Letters
  <1>7. QED
    BY <1>1, <1>2, <1>3, <1>4, <1>5, <1>6 DEF Next, Concatinate, Scan

\* No handler skips what the next one should have read, or reads what the last one
\* has read: every character of a line of names, blanks and operators, but the blanks,
\* is in the list, in order.
THEOREM TextIsFaithful == Spec => []TextFaithful
  <1>1. Init => Texts /\ TextKept
    <2> SUFFICES ASSUME Init PROVE Texts /\ TextKept
      OBVIOUS
    <2>1. tokens = <<>> /\ pc = "scan" /\ i - 1 = 0
      BY DEF Init
    <2>2. TokenText(tokens) = Upto(LetterPiece(input), i - 1)
      BY <2>1, NoTokenText, UptoStarts
    <2>3. QED
      BY <2>1, <2>2, NoTokenText DEF Texts, TextKept, TextBefore
  <1>2. Inv /\ Texts /\ TextKept /\ [Next]_vars => Texts' /\ TextKept'
    BY TextsStep, TextKeptStep DEF Inv
  <1>3. TextKept => TextFaithful
    BY DEF TextKept, TextFaithful, Letters
  <1>4. QED
    BY <1>1, <1>2, <1>3, Invariance, PTL DEF Spec

=============================================================================
