---------------------------- MODULE HeredocProofs ----------------------------
(***************************************************************************)
(* Proofs about Heredoc, for every delimiter, every script and every        *)
(* environment: type correctness, that both blocks are large enough, when   *)
(* text can be lost, and what the document says when none is.               *)
(***************************************************************************)
EXTENDS Heredoc, TextProofs

-----------------------------------------------------------------------------
(* The inductive invariant.                                                 *)

\* With short values the text never outgrows what has been walked over twice, so it
\* never reaches the size that the block had at first.
Walk ==
  pc = "expand" /\ ShortValues(line) =>
    Len(result) <= 2 * (p - 1) /\ 2 * Len(line) <= result_cap

\* ... and every byte of it was written.
Clean == pc \in {"expand", "append"} /\ ShortValues(line) => result \in Seq(Char)

IInv == TypeOK /\ ExpansionFits /\ DocumentFits /\ Walk /\ Clean

-----------------------------------------------------------------------------
(* Values and bytes.                                                        *)

LEMMA ValueType ==
  ASSUME NEW name
  PROVE  getenv(name) \in Seq(Char) /\ Len(getenv(name)) \in Nat
         /\ (name \notin DOMAIN Env => Len(getenv(name)) = 0)
  <1>1. getenv(name) \in Seq(Char) /\ (name \notin DOMAIN Env => getenv(name) = <<>>)
    BY TextAssumption, EmptySeq DEF getenv
  <1>2. QED
    BY <1>1, LenProperties, EmptySeq

LEMMA Bytes ==
  /\ Char \subseteq Byte /\ Newline \in Byte /\ Junk \in Byte
  /\ Junk \notin Char /\ Seq(Char) \subseteq Seq(Byte)
  <1>1. Char \subseteq Byte /\ Newline \in Byte /\ Junk \in Byte /\ Junk \notin Char
    BY HeredocAssumption DEF Byte
  <1>2. QED
    BY <1>1, SeqMonotonic

\* What a step of expand_env_vars() may use of the line and of its position.
LEMMA OnTheLine ==
  ASSUME TypeOK, pc \in {"expand", "append"}
  PROVE  /\ line \in Seq(Char) /\ Len(line) \in Nat
         /\ result \in Seq(Byte) /\ Len(result) \in Nat /\ result_cap \in Nat
         /\ p \in Nat \ {0} /\ (pc = "expand" => p <= Len(line) + 1)
         /\ read \in 1..Len(script)
  <1>1. script \in Seq(Seq(Char)) /\ Len(script) \in Nat
    BY HeredocAssumption, LenProperties DEF TypeOK
  <1>2. read \in 1..Len(script)
    BY <1>1 DEF TypeOK
  <1>3. line \in Seq(Char)
    BY <1>1, <1>2, LenProperties DEF line
  <1>4. Len(line) \in Nat
    BY <1>3, LenProperties
  <1>5. result \in Seq(Byte) /\ result_cap \in Nat /\ p \in Nat \ {0}
        /\ (pc = "expand" => p <= Len(line) + 1)
    BY DEF TypeOK
  <1>6. Len(result) \in Nat
    BY <1>5, LenProperties
  <1>7. QED
    BY <1>2, <1>3, <1>4, <1>5, <1>6

-----------------------------------------------------------------------------
(* Steps.                                                                   *)

LEMMA ReadLinePreserves ==
  ASSUME IInv, read_line
  PROVE  IInv'
  <1>1. /\ read < Len(script) /\ read' = read + 1 /\ Len(script) \in Nat /\ read \in Nat
        /\ script \in Seq(Seq(Char))
        /\ UNCHANGED <<delimiter, script, document, oom>>
    BY HeredocAssumption, LenProperties DEF read_line, IInv, TypeOK
  <1>2. read + 1 \in 1..Len(script)
    BY <1>1
  <1> DEFINE next == script[read+1]
  <1>3. next \in Seq(Char) /\ Len(next) \in Nat /\ line' = next
    BY <1>1, <1>2, LenProperties DEF line
  <1>4. \/ pc' = "append" /\ result' = next /\ UNCHANGED <<p, result_cap>>
        \/ pc' = "expand" /\ p' = 1 /\ result' = <<>> /\ result_cap' = 2 * Len(next)
    BY DEF read_line, LineStart, InitialCapacity
  <1> HIDE DEF next
  <1>5. result' \in Seq(Char) /\ Len(<<>>) = 0
    BY <1>3, <1>4, EmptySeq
  <1>6. TypeOK'
    <2>1. /\ result' \in Seq(Byte) /\ result_cap' \in Nat /\ p' \in Nat \ {0}
          /\ (pc' = "expand" => p' <= Len(line') + 1) /\ pc' \in {"append", "expand"}
      BY <1>3, <1>4, <1>5, Bytes DEF IInv, TypeOK
    <2>2. read' \in 0..Len(script') /\ read' > 0
      BY <1>1
    <2>3. QED
      BY <1>1, <2>1, <2>2 DEF IInv, TypeOK, document
  <1>7. ExpansionFits'
    <2>1. next # <<>> => Len(next) # 0
      BY <1>3, EmptySeq
    <2>2. QED
      BY <1>3, <1>4, <1>5, <2>1 DEF ExpansionFits
  <1>8. DocumentFits'
    BY <1>1 DEF IInv, DocumentFits, document
  <1>9. Walk'
    BY <1>3, <1>4, <1>5 DEF Walk
  <1>10. Clean'
    BY <1>5 DEF Clean
  <1>11. QED
    BY <1>6, <1>7, <1>8, <1>9, <1>10 DEF IInv

\* A step of expand_env_vars() on the line.
LEMMA ExpansionPreserves ==
  ASSUME IInv, pc = "expand", UNCHANGED <<delimiter, script, pc, read, document, oom>>,
         p' \in Nat \ {0}, p' <= Len(line) + 1, result' \in Seq(Byte), result_cap' \in Nat,
         line # <<>> => Len(result') < result_cap',
         ShortValues(line) => /\ Len(result') <= 2 * (p' - 1)
                              /\ 2 * Len(line) <= result_cap'
                              /\ result' \in Seq(Char)
  PROVE  IInv'
  <1>1. line' = line
    BY DEF line
  <1>2. TypeOK'
    BY <1>1 DEF IInv, TypeOK, document
  <1>3. ShortValues(line)' = ShortValues(line)
    BY <1>1 DEF ShortValues, VariableAt
  <1>4. ExpansionFits' /\ Walk' /\ Clean'
    BY <1>1, <1>3 DEF ExpansionFits, Walk, Clean
  <1>5. DocumentFits'
    BY DEF IInv, DocumentFits, document
  <1>6. QED
    BY <1>2, <1>4, <1>5 DEF IInv

LEMMA ExpandVariablePreserves ==
  ASSUME IInv, expand_variable
  PROVE  IInv'
  <1> DEFINE value == ValueAt(line, p)
             next  == EndOfName(line, p + 1)
             len   == Len(result)
             size  == Len(line)
  <1>1. /\ pc = "expand" /\ p < size /\ VariableAt(line, p)
        /\ result' = result \o value /\ p' = next
        /\ UNCHANGED <<delimiter, script, pc, read, document, oom>>
    BY DEF expand_variable, AtVariable, Expanding, VariableAt
  <1>2. /\ line \in Seq(Char) /\ size \in Nat /\ p \in Nat \ {0}
        /\ result \in Seq(Byte) /\ len \in Nat /\ result_cap \in Nat
    BY <1>1, OnTheLine DEF IInv
  <1>3. /\ value \in Seq(Char) /\ Len(value) \in Nat
        /\ (NameAt(line, p) \notin DOMAIN Env => Len(value) = 0)
    BY ValueType DEF ValueAt
  <1>4. next \in p+1..size+1
    <2>1. p + 1 \in 1..Len(line)+1
      BY <1>1, <1>2
    <2>2. QED
      BY <1>2, <2>1, EndOfRunType DEF EndOfName
  <1>5. result' \in Seq(Byte) /\ Len(result') = len + Len(value)
    BY <1>1, <1>2, <1>3, Bytes, ConcatProperties
  <1>6. result_cap' = IF NameAt(line, p) \in DOMAIN Env /\ len + Len(value) >= result_cap
                      THEN 2 * (len + Len(value)) ELSE result_cap
    BY DEF expand_variable, Full
  <1>7. line # <<>> /\ len < result_cap
    <2>1. line # <<>>
      BY <1>1, <1>2, EmptySeq
    <2>2. QED
      BY <1>1, <2>1 DEF IInv, ExpansionFits
  <1>8. ShortValues(line) => /\ len <= 2 * (p - 1) /\ 2 * size <= result_cap
                             /\ result \in Seq(Char)
    BY <1>1 DEF IInv, Walk, Clean
  <1>9. ShortValues(line) => Len(value) <= 2 * (next - p)
    <2>1. p \in DOMAIN line
      BY <1>1, <1>2, LenProperties
    <2>2. QED
      BY <1>1, <2>1 DEF ShortValues
  <1>10. ShortValues(line) => result' \in Seq(Char)
    BY <1>1, <1>3, <1>8, ConcatProperties
  <1> HIDE DEF value, next, len, size
  <1>11. result_cap' \in Nat /\ len + Len(value) < result_cap'
    BY <1>2, <1>3, <1>6, <1>7
  <1>12. ShortValues(line) => /\ len + Len(value) <= 2 * (next - 1)
                              /\ 2 * size <= result_cap'
    <2>1. next \in Int
      BY <1>2, <1>4
    <2>2. QED
      BY <1>2, <1>3, <1>6, <1>8, <1>9, <2>1
  <1>13. p' \in Nat \ {0} /\ p' <= size + 1
    BY <1>1, <1>2, <1>4
  <1>14. QED
    BY <1>1, <1>5, <1>10, <1>11, <1>12, <1>13, ExpansionPreserves DEF size

LEMMA ExpandCharacterPreserves ==
  ASSUME IInv, expand_character
  PROVE  IInv'
  <1> DEFINE len  == Len(result)
             size == Len(line)
             kept == IF Full(1) THEN Moved(result) ELSE result
  <1>1. /\ pc = "expand" /\ p <= size
        /\ result' = Append(kept, line[p]) /\ p' = p + 1
        /\ result_cap' = IF Full(1) THEN 2 * result_cap ELSE result_cap
        /\ UNCHANGED <<delimiter, script, pc, read, document, oom>>
    BY DEF expand_character, Expanding
  <1>2. /\ line \in Seq(Char) /\ size \in Nat /\ p \in Nat \ {0}
        /\ result \in Seq(Byte) /\ len \in Nat /\ result_cap \in Nat
    BY <1>1, OnTheLine DEF IInv
  <1>3. line[p] \in Char /\ line[p] \in Byte
    BY <1>1, <1>2, LenProperties, Bytes
  <1>4. kept \in Seq(Byte) /\ Len(kept) = len
    <2>1. Moved(result) \in Seq(Byte) /\ Len(Moved(result)) = Len(result)
      <3>1. Moved(result) \in [1..Len(result) -> Byte] /\ DOMAIN Moved(result) = 1..Len(result)
        BY <1>2, LenProperties, Bytes DEF Moved
      <3> HIDE DEF Moved
      <3>2. Moved(result) \in Seq(Byte)
        BY <1>2, <3>1, SeqDef
      <3>3. Len(Moved(result)) \in Nat /\ DOMAIN Moved(result) = 1..Len(Moved(result))
        BY <3>2, LenProperties
      <3>4. QED
        BY <1>2, <3>1, <3>2, <3>3
    <2>2. QED
      BY <1>2, <2>1
  <1>5. Full(1) <=> len + 1 >= result_cap
    BY DEF Full
  <1>6. line # <<>> /\ len < result_cap
    <2>1. line # <<>>
      BY <1>1, <1>2, EmptySeq
    <2>2. QED
      BY <1>1, <2>1 DEF IInv, ExpansionFits
  <1>7. ShortValues(line) => /\ len <= 2 * (p - 1) /\ 2 * size <= result_cap
                             /\ result \in Seq(Char)
    BY <1>1 DEF IInv, Walk, Clean
  <1>8. ShortValues(line) => ~Full(1)
    <2> HIDE DEF size, len
    <2>1. QED
      BY <1>1, <1>2, <1>5, <1>7
  <1>9. ShortValues(line) => result' \in Seq(Char)
    BY <1>1, <1>3, <1>7, <1>8, AppendProperties
  <1>10. result' \in Seq(Byte) /\ Len(result') = len + 1
    <2> HIDE DEF kept
    <2>1. QED
      BY <1>1, <1>3, <1>4, AppendProperties
  <1> HIDE DEF len, size, kept
  <1>11. result_cap' \in Nat /\ len + 1 < result_cap'
    BY <1>1, <1>2, <1>5, <1>6
  <1>12. ShortValues(line) => len + 1 <= 2 * (p' - 1) /\ 2 * size <= result_cap'
    BY <1>1, <1>2, <1>7, <1>8
  <1>13. p' \in Nat \ {0} /\ p' <= size + 1
    BY <1>1, <1>2
  <1>14. QED
    BY <1>1, <1>9, <1>10, <1>11, <1>12, <1>13, ExpansionPreserves DEF size

LEMMA ExpandEndPreserves ==
  ASSUME IInv, expand_end
  PROVE  IInv'
  <1>1. /\ pc = "expand" /\ pc' = "append"
        /\ UNCHANGED <<delimiter, script, read, p, result_cap, document, oom>>
    BY DEF expand_end
  <1>2. /\ result \in Seq(Byte) /\ Len(result) \in Nat /\ DOMAIN result = 1..Len(result)
    BY <1>1, OnTheLine, LenProperties DEF IInv
  <1>3. PICK n \in {Len(result)} \cup {k - 1 : k \in {j \in DOMAIN result : result[j] = Junk}} :
          result' = SubSeq(result, 1, n)
    BY DEF expand_end
  <1>4. n \in Int /\ n <= Len(result)
    <2>1. \A k \in DOMAIN result : k - 1 \in Int /\ k - 1 <= Len(result)
      BY <1>2
    <2>2. QED
      BY <1>2, <1>3, <2>1
  <1>5. \A k \in 1..n : result[k] \in Byte
    <2>1. \A k \in 1..n : k \in 1..Len(result)
      <3>1. Len(result) \in Nat
        BY <1>2
      <3>2. QED
        BY <1>4, <3>1
    <2>2. QED
      BY <1>2, <2>1, LenProperties
  <1>6. result' \in Seq(Byte)
    BY <1>3, <1>4, <1>5, SubSeqProperties
  <1>7. line' = line
    BY <1>1 DEF line
  <1>8. ASSUME ShortValues(line)
        PROVE  result' \in Seq(Char)
    <2>1. result \in Seq(Char)
      BY <1>1, <1>8 DEF IInv, Clean
    <2>2. \A j \in DOMAIN result : result[j] # Junk
      BY <2>1, Bytes, LenProperties
    <2>3. n = Len(result)
      BY <1>3, <2>2
    <2>4. QED
      BY <1>3, <2>1, <2>3, SubSeqFull
  <1>9. ShortValues(line)' = ShortValues(line)
    BY <1>7 DEF ShortValues, VariableAt
  <1>10. TypeOK'
    BY <1>1, <1>6 DEF IInv, TypeOK, document
  <1>11. ExpansionFits' /\ Walk' /\ Clean'
    BY <1>1, <1>8, <1>9 DEF ExpansionFits, Walk, Clean
  <1>12. DocumentFits'
    BY <1>1 DEF IInv, DocumentFits, document
  <1>13. QED
    BY <1>10, <1>11, <1>12 DEF IInv

LEMMA AppendLinePreserves ==
  ASSUME IInv, append_line
  PROVE  IInv'
  <1>1. /\ pc = "append" /\ pc' = "read"
        /\ content' = content \o Append(result, Newline)
        /\ content_capacity' = IF NewSize > content_capacity THEN 2 * NewSize
                               ELSE content_capacity
        /\ UNCHANGED <<delimiter, script, read, p, result, result_cap, oom>>
    BY DEF append_line, expansion
  <1>2. /\ result \in Seq(Byte) /\ Len(result) \in Nat
        /\ content \in Seq(Byte) /\ Len(content) \in Nat /\ content_capacity \in Nat
    BY LenProperties DEF IInv, TypeOK
  <1>3. Append(result, Newline) \in Seq(Byte) /\ Len(Append(result, Newline)) = Len(result) + 1
    BY <1>2, Bytes, AppendProperties
  <1>4. content' \in Seq(Byte) /\ Len(content') = Len(content) + (Len(result) + 1)
    BY <1>1, <1>2, <1>3, ConcatProperties
  <1>5. NewSize = Len(content) + Len(result) + 2
    BY DEF NewSize
  <1>6. content_capacity' \in Nat /\ Len(content') < content_capacity'
    BY <1>1, <1>2, <1>4, <1>5
  <1>7. TypeOK'
    BY <1>1, <1>4, <1>6 DEF IInv, TypeOK
  <1>8. ExpansionFits' /\ Walk' /\ Clean' /\ DocumentFits'
    BY <1>1, <1>6 DEF ExpansionFits, Walk, Clean, DocumentFits
  <1>9. QED
    BY <1>7, <1>8 DEF IInv

\* The call ends, with a document or without.
LEMMA EndPreserves ==
  ASSUME IInv, pc' \in {"done", "failed"}, oom' \in BOOLEAN, read' \in 0..Len(script),
         UNCHANGED <<delimiter, script, expansion, document>>
  PROVE  IInv'
  <1>1. TypeOK'
    BY DEF IInv, TypeOK, expansion, document
  <1>2. ExpansionFits' /\ Walk' /\ Clean' /\ DocumentFits'
    BY DEF IInv, ExpansionFits, Walk, Clean, DocumentFits, document
  <1>3. QED
    BY <1>1, <1>2 DEF IInv

LEMMA Initialisation ==
  ASSUME Init
  PROVE  IInv
  <1>1. Len(script) \in Nat
    BY HeredocAssumption, LenProperties DEF Init
  <1>2. <<>> \in Seq(Byte)
    BY EmptySeq
  <1>3. read \in 0..Len(script)
    BY <1>1 DEF Init
  <1>4. TypeOK
    <2>1. /\ result \in Seq(Byte) /\ content \in Seq(Byte) /\ oom \in BOOLEAN
          /\ delimiter \in Delimiters /\ script \in Scripts /\ pc = "read"
          /\ p = 1 /\ result_cap = 0 /\ content_capacity = 0
      BY <1>2 DEF Init
    <2>2. QED
      BY <1>3, <2>1 DEF TypeOK
  <1>5. QED
    BY <1>4 DEF Init, IInv, ExpansionFits, DocumentFits, Walk, Clean

LEMMA Preservation ==
  ASSUME IInv, [Next]_vars
  PROVE  IInv'
  <1>1. CASE UNCHANGED vars
    BY <1>1 DEF vars, expansion, document, IInv, TypeOK, ExpansionFits, DocumentFits, Walk,
                Clean, line, ShortValues, VariableAt
  <1>2. CASE Read
    <2>1. Len(script) \in Nat /\ read \in 0..Len(script)
      BY HeredocAssumption, LenProperties DEF IInv, TypeOK
    <2>2. CASE read_line
      BY <2>2, ReadLinePreserves
    <2>3. CASE read_delimiter
      BY <2>1, <2>3, EndPreserves DEF read_delimiter, IInv, TypeOK
    <2>4. CASE read_eof
      BY <2>1, <2>4, EndPreserves DEF read_eof, IInv, TypeOK
    <2>5. QED
      BY <1>2, <2>2, <2>3, <2>4 DEF Read
  <1>3. CASE Expand
    <2>1. CASE expand_fails
      BY <2>1, EndPreserves DEF expand_fails, IInv, TypeOK
    <2>2. QED
      BY <1>3, <2>1, ExpandVariablePreserves, ExpandCharacterPreserves, ExpandEndPreserves
         DEF Expand
  <1>4. CASE append_line
    BY <1>4, AppendLinePreserves
  <1>5. CASE append_fails
    BY <1>5, EndPreserves DEF append_fails, IInv, TypeOK
  <1>6. QED
    BY <1>1, <1>2, <1>3, <1>4, <1>5 DEF Next

LEMMA Invariance == Spec => []IInv
  <1>1. Init => IInv
    BY Initialisation
  <1>2. IInv /\ [Next]_vars => IInv'
    BY Preservation
  <1>3. QED
    BY <1>1, <1>2, PTL DEF Spec

-----------------------------------------------------------------------------
(* What follows.                                                            *)

\* The walk over a line stays on it and the buffers hold bytes.
THEOREM TypeCorrect == Spec => []TypeOK
  <1>1. IInv => TypeOK
    BY DEF IInv
  <1>2. QED
    BY <1>1, Invariance, PTL

\* However long the values of the variables are and in whatever order the block of
\* expand_env_vars() grows, the text and its terminator fit, unless the line is empty.
THEOREM ExpansionStaysInside == Spec => []ExpansionFits
  <1>1. IInv => ExpansionFits
    BY DEF IInv
  <1>2. QED
    BY <1>1, Invariance, PTL

\* However many lines a here-document has, it fits into its block with its terminator.
THEOREM DocumentStaysInside == Spec => []DocumentFits
  <1>1. IInv => DocumentFits
    BY DEF IInv
  <1>2. QED
    BY <1>1, Invariance, PTL

\* A line whose variables all have short values loses nothing: its block is never
\* replaced.
THEOREM LossLocated == Spec => []LossNeedsLongValue
  <1>1. IInv => LossNeedsLongValue
    <2>1. SUFFICES ASSUME IInv, pc \in {"expand", "append"}, ShortValues(line),
                          NEW k \in DOMAIN result
                   PROVE  result[k] # Junk
      BY DEF LossNeedsLongValue
    <2>2. result \in Seq(Char)
      BY <2>1 DEF IInv, Clean
    <2>3. QED
      BY <2>2, Bytes, LenProperties
  <1>2. QED
    BY <1>1, Invariance, PTL

-----------------------------------------------------------------------------
(* What the document says.                                                  *)

\* The expansion of s from each position on.
Rest(s) ==
  LET from[k \in 1..Len(s)+1] ==
        IF k > Len(s) THEN <<>>
        ELSE IF VariableAt(s, k) THEN ValueAt(s, k) \o from[EndOfName(s, k + 1)]
        ELSE <<s[k]>> \o from[k+1]
  IN  from

LEMMA RestUnfolds ==
  ASSUME NEW s \in Seq(Char)
  PROVE  /\ Expansion(s) = Rest(s)[1]
         /\ Rest(s)[Len(s) + 1] = <<>>
         /\ \A k \in 1..Len(s)+1 : Rest(s)[k] \in Seq(Char)
         /\ \A k \in 1..Len(s) :
              Rest(s)[k] = IF VariableAt(s, k) THEN ValueAt(s, k) \o Rest(s)[EndOfName(s, k + 1)]
                           ELSE <<s[k]>> \o Rest(s)[k + 1]
  <1> DEFINE n == Len(s) + 1
             piece == [k \in 1..n |-> IF k > Len(s) THEN <<>>
                                      ELSE IF VariableAt(s, k) THEN ValueAt(s, k) ELSE <<s[k]>>]
             then == [k \in 1..n |-> IF k > Len(s) THEN 0
                                     ELSE IF VariableAt(s, k) THEN EndOfName(s, k + 1) ELSE k + 1]
             Value(f, k) == IF k > Len(s) THEN <<>>
                            ELSE IF VariableAt(s, k) THEN ValueAt(s, k) \o f[EndOfName(s, k + 1)]
                            ELSE <<s[k]>> \o f[k+1]
             Is(f) == f = [k \in 1..Len(s)+1 |-> Value(f, k)]
  <1>1. Len(s) \in Nat /\ n \in Nat /\ \A k \in 1..Len(s) : s[k] \in Char
    BY LenProperties, ElementOfSeq
  <1>2. ASSUME NEW k \in 1..Len(s), VariableAt(s, k)
        PROVE  EndOfName(s, k + 1) \in k+1..n
    <2>1. k + 1 \in 1..Len(s)+1
      BY <1>1
    <2>2. QED
      BY <2>1, EndOfRunType DEF EndOfName
  <1>3. \A k \in 1..n : piece[k] \in Seq(Char)
    <2> TAKE k \in 1..n
    <2>1. \/ piece[k] = <<>>
          \/ piece[k] = ValueAt(s, k)
          \/ k \in 1..Len(s) /\ piece[k] = <<s[k]>>
      BY <1>1
    <2>2. <<>> \in Seq(Char) /\ \A c \in Char : <<c>> \in Seq(Char)
      BY EmptySeq
    <2>3. ValueAt(s, k) \in Seq(Char)
      BY ValueType DEF ValueAt
    <2> HIDE DEF piece
    <2>4. QED
      BY <1>1, <2>1, <2>2, <2>3, Zenon
  <1>4. ASSUME NEW f
        PROVE  Chains(f, piece, then, n) <=> Is(f)
    <2>1. ASSUME NEW k \in 1..n
          PROVE  (IF then[k] \in k+1..n THEN piece[k] \o f[then[k]] ELSE piece[k]) = Value(f, k)
      <3>1. CASE k > Len(s)
        <4>1. then[k] = 0 /\ piece[k] = <<>> /\ 0 \notin k+1..n
          BY <1>1, <3>1
        <4>2. QED
          BY <3>1, <4>1
      <3>2. CASE k <= Len(s) /\ VariableAt(s, k)
        <4>1. then[k] = EndOfName(s, k + 1) /\ piece[k] = ValueAt(s, k) /\ ~(k > Len(s))
          BY <1>1, <3>2
        <4>2. EndOfName(s, k + 1) \in k+1..n
          BY <1>1, <1>2, <3>2
        <4>3. QED
          BY <3>2, <4>1, <4>2
      <3>3. CASE k <= Len(s) /\ ~VariableAt(s, k)
        <4>1. then[k] = k + 1 /\ piece[k] = <<s[k]>> /\ k + 1 \in k+1..n /\ ~(k > Len(s))
          BY <1>1, <3>3
        <4>2. QED
          BY <3>3, <4>1
      <3>4. QED
        BY <1>1, <3>1, <3>2, <3>3
    <2> HIDE DEF piece, then, Value
    <2>2. QED
      BY <2>1 DEF Chains
  <1> DEFINE from == CHOOSE f : Is(f)
  <1>5. Rest(s) = from /\ Expansion(s) = from[1]
    BY DEF Rest, Expansion
  <1> HIDE DEF piece, then, n
  <1>6. \E f : Chains(f, piece, then, n)
    BY <1>1, ChainExists
  <1>7. Is(from)
    <2>1. \E f : Is(f)
      BY <1>4, <1>6
    <2> HIDE DEF Is
    <2>2. QED
      BY <2>1
  <1>8. Chains(from, piece, then, n)
    BY <1>4, <1>7
  <1>9. \A k \in 1..Len(s)+1 : from[k] = Value(from, k)
    <2> DEFINE f == from
    <2>1. f = [k \in 1..Len(s)+1 |-> Value(f, k)]
      BY <1>7
    <2> HIDE DEF f, Value
    <2>2. \A k \in 1..Len(s)+1 : f[k] = Value(f, k)
      BY <2>1, Zenon
    <2>3. QED
      BY <2>2 DEF f
  <1> HIDE DEF from
  <1>10. \A k \in 1..n : from[k] \in Seq(Char)
    BY <1>1, <1>3, <1>8, ChainType
  <1>11. from[Len(s) + 1] = <<>>
    <2> DEFINE m == Len(s) + 1
    <2>1. m \in 1..Len(s)+1 /\ m > Len(s)
      BY <1>1
    <2> HIDE DEF m
    <2>2. from[m] = Value(from, m)
      BY <1>9, <2>1
    <2>3. from[m] = <<>>
      BY <2>1, <2>2
    <2>4. QED
      BY <2>3 DEF m
  <1>12. \A k \in 1..Len(s) :
            from[k] = IF VariableAt(s, k) THEN ValueAt(s, k) \o from[EndOfName(s, k + 1)]
                      ELSE <<s[k]>> \o from[k + 1]
    <2>1. \A k \in 1..Len(s) : k \in 1..Len(s)+1 /\ ~(k > Len(s))
      BY <1>1
    <2>2. QED
      BY <1>9, <2>1
  <1>13. QED
    BY <1>5, <1>10, <1>11, <1>12 DEF n

\* What a typed line becomes in the document, and what each line of the script adds.
Entered(s) == IF is_quoted THEN s ELSE Expansion(s)
Entries == [k \in DOMAIN script |-> Append(Entered(script[k]), Newline)]

LEMMA EntriesType ==
  ASSUME TypeOK
  PROVE  /\ script \in Seq(Seq(Char)) /\ Len(script) \in Nat /\ DOMAIN script = 1..Len(script)
         /\ Pieces(Entries, Len(script), Byte)
         /\ \A k \in 1..Len(script) : /\ script[k] \in Seq(Char)
                                      /\ Entries[k] = Append(Entered(script[k]), Newline)
  <1>1. script \in Seq(Seq(Char)) /\ Len(script) \in Nat /\ DOMAIN script = 1..Len(script)
    BY HeredocAssumption, LenProperties DEF TypeOK
  <1>2. \A k \in 1..Len(script) : script[k] \in Seq(Char)
    BY <1>1, ElementOfSeq
  <1>3. \A k \in 1..Len(script) : Entries[k] = Append(Entered(script[k]), Newline)
    BY <1>1 DEF Entries
  <1>4. ASSUME NEW k \in 1..Len(script)
        PROVE  Entries[k] \in Seq(Byte)
    <2>1. 1 \in 1..Len(script[k])+1
      BY <1>2, LenProperties
    <2>2. Expansion(script[k]) \in Seq(Char)
      BY <1>2, <2>1, RestUnfolds
    <2>3. Entered(script[k]) \in Seq(Byte)
      BY <1>2, <2>2, Bytes DEF Entered
    <2> DEFINE e == Entered(script[k])
    <2>4. Entries[k] = Append(e, Newline) /\ e \in Seq(Byte) /\ Newline \in Byte
      BY <1>3, <2>3, Bytes
    <2> HIDE DEF e
    <2>5. Append(e, Newline) \in Seq(Byte)
      BY <2>4, AppendProperties
    <2>6. QED
      BY <2>4, <2>5
  <1>5. QED
    BY <1>1, <1>2, <1>3, <1>4 DEF Pieces

\* The document of the first n lines.
LEMMA DocumentOfFirst ==
  ASSUME TypeOK, NEW n \in 0..Len(script)
  PROVE  Document(SubSeq(script, 1, n)) = Upto(Entries, n)
  <1> DEFINE lines == SubSeq(script, 1, n)
  <1>1. /\ Len(script) \in Nat /\ n \in Int /\ \A k \in 1..n : k \in 1..Len(script)
        /\ \A k \in 1..Len(script) : script[k] \in Seq(Char)
    BY EntriesType
  <1>2. lines \in Seq(Seq(Char)) /\ Len(lines) = n /\ \A k \in 1..n : lines[k] = script[k]
    <2>1. \A k \in 1..n : script[k] \in Seq(Char)
      BY <1>1
    <2>2. /\ lines \in Seq(Seq(Char)) /\ Len(lines) = IF 1 <= n THEN n-1+1 ELSE 0
          /\ \A k \in 1..n-1+1 : lines[k] = script[1+k-1]
      BY <1>1, <2>1, SubSeqProperties
    <2> HIDE DEF lines
    <2>3. (IF 1 <= n THEN n-1+1 ELSE 0) = n /\ n-1+1 = n /\ \A k \in 1..n : 1+k-1 = k
      BY <1>1
    <2>4. QED
      BY <2>2, <2>3
  <1> HIDE DEF lines
  <1>3. DOMAIN lines = 1..n
    BY <1>2, LenProperties
  <1>4. [k \in DOMAIN lines |-> Append(IF is_quoted THEN lines[k] ELSE Expansion(lines[k]), Newline)]
        = [k \in 1..n |-> Entries[k]]
    <2>1. \A k \in 1..n : Append(IF is_quoted THEN lines[k] ELSE Expansion(lines[k]), Newline)
                          = Entries[k]
      BY <1>1, <1>2, EntriesType DEF Entered
    <2>2. QED
      BY <1>3, <2>1
  <1>5. QED
    BY <1>4 DEF Document, Upto, lines

\* The document is faithful when the delimiter is quoted or no value is long.
Faithfully == is_quoted \/ \A k \in DOMAIN script : ShortValues(script[k])

\* The lines before the current one are entered, the current one is walked over up to
\* position p, and none of them is the delimiter.
Kept ==
  Faithfully =>
    /\ pc \in {"read", "expand", "append"} => \A k \in 1..read : script[k] # unquoted_delimiter
    /\ pc = "read" => content = Upto(Entries, read)
    /\ pc \in {"expand", "append"} => content = Upto(Entries, read - 1)
    /\ pc = "expand" => ~is_quoted /\ result \o Rest(line)[p] = Expansion(line)
    /\ pc = "append" => result = Entered(line)
    /\ pc = "done" => content = Document(Body)

LEMMA SameCall ==
  ASSUME UNCHANGED <<delimiter, script>>
  PROVE  /\ is_quoted' = is_quoted /\ unquoted_delimiter' = unquoted_delimiter
         /\ Entries' = Entries /\ Faithfully' = Faithfully
         /\ Document(Body)' = Document(Body)
         /\ \A s : Entered(s)' = Entered(s)
  <1>1. is_quoted' = is_quoted /\ unquoted_delimiter' = unquoted_delimiter
    BY DEF is_quoted, unquoted_delimiter
  <1>2. Entries' = Entries
    BY <1>1 DEF Entries, Entered
  <1>3. Faithfully' = Faithfully
    BY <1>1 DEF Faithfully
  <1>4. Body' = Body
    BY <1>1 DEF Body
  <1>5. Document(Body)' = Document(Body)
    BY <1>1, <1>4 DEF Document
  <1>6. QED
    BY <1>1, <1>2, <1>3, <1>5 DEF Entered

LEMMA KeptReading ==
  ASSUME IInv, Kept, Faithfully, read_line
  PROVE  Kept'
  <1> DEFINE next == script[read+1]
  <1>1. /\ pc = "read" /\ read < Len(script) /\ next # unquoted_delimiter /\ read' = read + 1
        /\ UNCHANGED <<delimiter, script, content>>
        /\ \/ is_quoted /\ pc' = "append" /\ result' = next
           \/ ~is_quoted /\ pc' = "expand" /\ p' = 1 /\ result' = <<>>
    BY DEF read_line, document, LineStart
  <1>2. /\ read \in Nat /\ Len(script) \in Nat /\ read + 1 \in 1..Len(script)
        /\ (read + 1) - 1 = read /\ \A k \in 1..read+1 : k \in 1..read \/ k = read + 1
    BY <1>1, EntriesType DEF IInv, TypeOK
  <1>3. line' = next /\ next \in Seq(Char)
    BY <1>1, <1>2, EntriesType DEF line, IInv
  <1>4. \A k \in 1..read' : script'[k] # unquoted_delimiter'
    BY <1>1, <1>2, SameCall DEF Kept
  <1>5. content' = Upto(Entries', read' - 1)
    BY <1>1, <1>2, SameCall DEF Kept
  <1> HIDE DEF next
  <1>6. CASE is_quoted
    <2>1. result' = Entered(next) /\ pc' = "append"
      BY <1>1, <1>6 DEF Entered
    <2>2. Entered(line)' = Entered(next)
      BY <1>1, <1>3, <1>6, SameCall DEF Entered
    <2>3. QED
      BY <1>4, <1>5, <2>1, <2>2 DEF Kept
  <1>7. CASE ~is_quoted
    <2>1. 1 \in 1..Len(next)+1
      BY <1>3, LenProperties
    <2>2. Rest(next)[1] \in Seq(Char) /\ Expansion(next) = Rest(next)[1]
      BY <1>3, <2>1, RestUnfolds
    <2>3. <<>> \o Rest(next)[1] = Expansion(next)
      BY <2>2, ConcatEmptySeq
    <2>4. result' \o Rest(line')[p'] = Expansion(line')
      BY <1>1, <1>3, <1>7, <2>3
    <2>5. ~is_quoted' /\ pc' = "expand"
      BY <1>1, <1>7, SameCall
    <2>6. QED
      BY <1>4, <1>5, <2>4, <2>5 DEF Kept
  <1>8. QED
    BY <1>6, <1>7

\* The line that is being walked over.
LEMMA KeptLine ==
  ASSUME IInv, Kept, Faithfully, pc = "expand"
  PROVE  /\ line \in Seq(Char) /\ Len(line) \in Nat /\ p \in 1..Len(line)+1
         /\ result \in Seq(Char) /\ ShortValues(line) /\ ~is_quoted
         /\ result \o Rest(line)[p] = Expansion(line)
  <1>1. /\ line \in Seq(Char) /\ Len(line) \in Nat /\ p \in 1..Len(line)+1
        /\ read \in 1..Len(script)
    BY OnTheLine DEF IInv
  <1>2. ~is_quoted /\ result \o Rest(line)[p] = Expansion(line)
    BY DEF Kept
  <1>3. ShortValues(line)
    BY <1>1, <1>2, EntriesType DEF IInv, Faithfully, line
  <1>4. QED
    BY <1>1, <1>2, <1>3 DEF IInv, Clean

\* A step of the walk that moves text from what is left of the line to the result.
LEMMA KeptMoving ==
  ASSUME IInv, Kept, Faithfully, pc = "expand",
         UNCHANGED <<delimiter, script, pc, read, document>>,
         NEW text \in Seq(Char), result' = result \o text, p' \in 1..Len(line)+1,
         Rest(line)[p] = text \o Rest(line)[p']
  PROVE  Kept'
  <1>1. line' = line /\ content' = content
    BY DEF line, document
  <1>2. line \in Seq(Char) /\ result \in Seq(Char) /\ result \o Rest(line)[p] = Expansion(line)
    BY KeptLine
  <1> DEFINE left == Rest(line)[p']
  <1>3. left \in Seq(Char)
    BY <1>2, RestUnfolds
  <1> HIDE DEF left
  <1>4. (result \o text) \o left = result \o (text \o left)
    <2>1. \A a, b, c \in Seq(Char) : (a \o b) \o c = a \o (b \o c)
      BY ConcatAssociative, SMTT(30)
    <2>2. QED
      BY <1>2, <1>3, <2>1
  <1>5. result' \o Rest(line)[p'] = Expansion(line)
    BY <1>2, <1>4 DEF left
  <1>6. QED
    BY <1>1, <1>5, SameCall DEF Kept

LEMMA KeptExpanding ==
  ASSUME IInv, Kept, Faithfully, expand_variable \/ expand_character \/ expand_end
  PROVE  Kept'
  <1>1. pc = "expand" /\ UNCHANGED <<delimiter, script, read, document>>
    BY DEF expand_variable, expand_character, expand_end, AtVariable, Expanding
  <1>2. /\ line \in Seq(Char) /\ Len(line) \in Nat /\ p \in 1..Len(line)+1
        /\ result \in Seq(Char) /\ ShortValues(line) /\ ~is_quoted
        /\ result \o Rest(line)[p] = Expansion(line)
    BY <1>1, KeptLine
  <1>3. CASE expand_variable
    <2>1. /\ p \in 1..Len(line) /\ VariableAt(line, p) /\ pc' = pc
          /\ result' = result \o ValueAt(line, p) /\ p' = EndOfName(line, p + 1)
      BY <1>2, <1>3 DEF expand_variable, AtVariable, Expanding, VariableAt
    <2>2. p' \in 1..Len(line)+1
      <3>1. p + 1 \in 1..Len(line)+1
        BY <1>2, <2>1
      <3>2. EndOfName(line, p + 1) \in p+1..Len(line)+1
        BY <1>2, <3>1, EndOfRunType DEF EndOfName
      <3>3. QED
        BY <1>2, <2>1, <3>2
    <2>3. Rest(line)[p] = ValueAt(line, p) \o Rest(line)[p']
      BY <1>2, <2>1, RestUnfolds
    <2>4. ValueAt(line, p) \in Seq(Char)
      BY ValueType DEF ValueAt
    <2>5. QED
      BY <1>1, <2>1, <2>2, <2>3, <2>4, KeptMoving
  <1>4. CASE expand_character
    <2>1. /\ p \in 1..Len(line) /\ ~VariableAt(line, p) /\ pc' = pc /\ p' = p + 1
          /\ result' = Append(IF Full(1) THEN Moved(result) ELSE result, line[p])
      BY <1>2, <1>4 DEF expand_character, AtVariable, Expanding, VariableAt
    <2>2. ~Full(1)
      <3>1. Len(result) <= 2 * (p - 1) /\ 2 * Len(line) <= result_cap
        BY <1>1, <1>2 DEF IInv, Walk
      <3>2. Len(result) \in Nat /\ result_cap \in Nat
        BY <1>2, LenProperties DEF IInv, TypeOK
      <3>3. QED
        BY <1>2, <2>1, <3>1, <3>2 DEF Full
    <2>3. line[p] \in Char /\ <<line[p]>> \in Seq(Char) /\ p' \in 1..Len(line)+1
      <3>1. line[p] \in Char
        BY <1>2, <2>1, ElementOfSeq
      <3>2. QED
        BY <1>2, <2>1, <3>1
    <2>4. result' = result \o <<line[p]>>
      BY <1>2, <2>1, <2>2, <2>3, AppendIsConcat
    <2>5. Rest(line)[p] = <<line[p]>> \o Rest(line)[p']
      BY <1>2, <2>1, RestUnfolds
    <2>6. QED
      BY <1>1, <2>1, <2>3, <2>4, <2>5, KeptMoving
  <1>5. CASE expand_end
    <2>1. p = Len(line) + 1 /\ pc' = "append" /\ line' = line /\ content' = content
      BY <1>1, <1>2, <1>5 DEF expand_end, line, document
    <2>2. result = Expansion(line)
      <3>1. Rest(line)[p] = <<>>
        BY <1>2, <2>1, RestUnfolds
      <3>2. result \o <<>> = result
        BY <1>2, ConcatEmptySeq
      <3>3. QED
        BY <1>2, <3>1, <3>2
    <2>3. result' = result
      <3>1. \A j \in DOMAIN result : result[j] # Junk
        BY <1>2, Bytes, LenProperties
      <3>2. result' = SubSeq(result, 1, Len(result))
        BY <1>5, <3>1 DEF expand_end
      <3>3. QED
        BY <1>2, <3>2, SubSeqFull
    <2>4. result' = Entered(line)'
      BY <1>1, <1>2, <2>1, <2>2, <2>3, SameCall DEF Entered
    <2>5. QED
      BY <1>1, <2>1, <2>4, SameCall DEF Kept
  <1>6. QED
    BY <1>3, <1>4, <1>5

LEMMA KeptAppending ==
  ASSUME IInv, Kept, Faithfully, append_line
  PROVE  Kept'
  <1>1. /\ pc = "append" /\ pc' = "read" /\ content' = content \o Append(result, Newline)
        /\ UNCHANGED <<delimiter, script, read>>
    BY DEF append_line
  <1>2. /\ read \in 1..Len(script) /\ Len(script) \in Nat
        /\ result = Entered(line) /\ content = Upto(Entries, read - 1)
    BY <1>1, OnTheLine, EntriesType DEF IInv, Kept
  <1>3. Append(result, Newline) = Entries[read]
    BY <1>2, EntriesType DEF IInv, line
  <1>4. Upto(Entries, read) = Upto(Entries, read - 1) \o Entries[read]
    <2> DEFINE m == read - 1
    <2>1. m \in Nat /\ m + 1 = read /\ \A k \in 1..m+1 : k \in 1..Len(script)
      BY <1>2
    <2>2. \A k \in 1..m+1 : Entries[k] \in Seq(Byte)
      BY <2>1, EntriesType DEF IInv, Pieces
    <2> HIDE DEF m
    <2>3. Upto(Entries, m + 1) = Upto(Entries, m) \o Entries[m + 1]
      BY <2>1, <2>2, UptoStep
    <2>4. QED
      BY <2>1, <2>3 DEF m
  <1>5. content' = Upto(Entries, read)
    BY <1>1, <1>2, <1>3, <1>4
  <1>6. QED
    BY <1>1, <1>5, SameCall DEF Kept

LEMMA KeptReturning ==
  ASSUME IInv, Kept, Faithfully, read_delimiter \/ read_eof
  PROVE  Kept'
  <1> DEFINE delimiters == {k \in DOMAIN script : script[k] = unquoted_delimiter}
  <1>1. /\ pc = "read" /\ pc' = "done" /\ UNCHANGED <<delimiter, script, content>>
    BY DEF read_delimiter, read_eof, document
  <1>2. /\ read \in 0..Len(script) /\ Len(script) \in Nat /\ DOMAIN script = 1..Len(script)
        /\ script \in Seq(Seq(Char))
        /\ content = Upto(Entries, read)
        /\ \A k \in 1..read : script[k] # unquoted_delimiter
    BY <1>1, EntriesType DEF IInv, TypeOK, Kept
  <1>3. Body = SubSeq(script, 1, read)
    <2>1. CASE read_eof
      <3>1. read = Len(script)
        BY <2>1 DEF read_eof
      <3>2. delimiters = {}
        BY <1>2, <3>1
      <3>3. Body = script
        BY <3>2 DEF Body
      <3>4. QED
        BY <1>2, <3>1, <3>3, SubSeqFull
    <2>2. CASE read_delimiter
      <3>1. read < Len(script) /\ script[read+1] = unquoted_delimiter
        BY <2>2 DEF read_delimiter
      <3>2. read + 1 \in delimiters /\ delimiters \subseteq Nat
        BY <1>2, <3>1
      <3>3. \A k \in delimiters : ~(k < read + 1)
        BY <1>2
      <3>4. Min(delimiters) \in delimiters /\ \A y \in delimiters : Min(delimiters) <= y
        BY <3>2, MinIsElement
      <3>5. Min(delimiters) = read + 1
        <4> DEFINE least == Min(delimiters)
        <4>1. least \in Nat /\ least <= read + 1 /\ ~(least < read + 1)
          BY <3>2, <3>3, <3>4
        <4> HIDE DEF least
        <4>2. least = read + 1
          BY <1>2, <4>1
        <4>3. QED
          BY <4>2 DEF least
      <3>6. Body = SubSeq(script, 1, Min(delimiters) - 1)
        BY <3>2 DEF Body
      <3>7. (read + 1) - 1 = read
        BY <1>2
      <3>8. QED
        BY <3>5, <3>6, <3>7
    <2>3. QED
      BY <2>1, <2>2
  <1>4. content' = Document(Body)
    BY <1>1, <1>2, <1>3, DocumentOfFirst DEF IInv
  <1>5. QED
    BY <1>1, <1>4, SameCall DEF Kept

LEMMA KeptStep ==
  ASSUME IInv, Kept, [Next]_vars
  PROVE  Kept'
  <1>1. UNCHANGED <<delimiter, script>>
    BY DEF Next, Read, Expand, read_line, read_delimiter, read_eof, expand_variable,
           expand_character, expand_fails, expand_end, append_line, append_fails, vars
  <1>2. CASE ~Faithfully
    BY <1>1, <1>2, SameCall DEF Kept
  <1>3. CASE Faithfully /\ Next
    <2>1. CASE expand_fails \/ append_fails
      BY <2>1 DEF expand_fails, append_fails, Kept
    <2>2. QED
      BY <1>3, <2>1, KeptReading, KeptReturning, KeptExpanding, KeptAppending
      DEF Next, Read, Expand
  <1>4. CASE UNCHANGED vars
    <2>1. line' = line /\ UNCHANGED <<pc, read, p, result, content>>
      BY <1>4 DEF vars, expansion, document, line
    <2>2. Entered(line)' = Entered(line)
      BY <1>1, <2>1, SameCall DEF Entered
    <2>3. QED
      BY <1>1, <2>1, <2>2, SameCall DEF Kept
  <1>5. QED
    BY <1>2, <1>3, <1>4

\* However the blocks grow on the way, the document is the lines typed before the
\* delimiter, expanded unless it was quoted, as long as no value is long.
THEOREM DocumentIsFaithful == Spec => []DocumentFaithful
  <1>1. Init => Kept
    <2> SUFFICES ASSUME Init PROVE Kept
      OBVIOUS
    <2>1. pc = "read" /\ read = 0 /\ content = <<>> /\ 1..0 = {}
      BY DEF Init
    <2>2. content = Upto(Entries, read)
      BY <2>1, UptoStarts
    <2>3. QED
      BY <2>1, <2>2 DEF Kept
  <1>2. IInv /\ Kept /\ [Next]_vars => Kept'
    BY KeptStep
  <1>3. Kept => DocumentFaithful
    BY DEF Kept, DocumentFaithful, Faithfully
  <1>4. QED
    BY <1>1, <1>2, <1>3, Invariance, PTL DEF Spec

=============================================================================
