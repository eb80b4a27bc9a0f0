----------------------------- MODULE TextProofs -----------------------------
(***************************************************************************)
(* Lemmas about what the components share: where the scans of ShellText can *)
(* end and what they pass over; how token lists, and the predicates on them *)
(* that the tokenizer establishes, change when tokens are added at the end  *)
(* and when concatinate() removes one; and sequences that are put together  *)
(* from others: flattened, from the end, or position by position.           *)
(***************************************************************************)
EXTENDS ShellText, Tokens, SequenceTheorems, FiniteSetTheorems, WellFoundedInduction, TLAPS

-----------------------------------------------------------------------------
(* Scans stay on the line.                                                  *)

\* A set of naturals that is not empty contains its minimum.
LEMMA MinIsElement ==
  ASSUME NEW S, S \subseteq Nat, S # {}
  PROVE  Min(S) \in S /\ \A y \in S : Min(S) <= y
  <1> DEFINE R == OpToRel(<, Nat)
  <1>1. \A x, y \in Nat : x < y => <<x, y>> \in R
    BY DEF OpToRel
  <1>2. IsWellFoundedOn(R, Nat)
    BY NatLessThanWellFounded
  <1> HIDE DEF R
  <1>3. PICK x \in S : \A y \in S : <<y, x>> \notin R
    BY <1>2, WFMin
  <1>4. ASSUME NEW y \in S
        PROVE  x <= y
    <2>1. x \in Nat /\ y \in Nat
      OBVIOUS
    <2>2. ~(y < x)
      BY <1>1, <1>3, <2>1
    <2>3. QED
      BY <2>1, <2>2
  <1>5. QED
    BY <1>4 DEF Min

\* A scan ends where it started or later, and at most one past the end.
LEMMA EndOfRunType ==
  ASSUME NEW s \in Seq(Char), NEW k \in 1..Len(s)+1, NEW Stop
  PROVE  EndOfRun(s, k, Stop) \in k..Len(s)+1
  <1> DEFINE S == {j \in k..Len(s)+1 : j = Len(s)+1 \/ s[j] \in Stop}
  <1>1. Len(s) \in Nat
    BY LenProperties
  <1>2. Len(s) + 1 \in S /\ S \subseteq Nat
    BY <1>1
  <1>3. Min(S) \in S
    BY <1>2, MinIsElement
  <1>4. QED
    BY <1>3 DEF EndOfRun

LEMMA ClosingQuoteType ==
  ASSUME NEW s \in Seq(Char), NEW k \in 1..Len(s)+1, NEW quote
  PROVE  ClosingQuote(s, k, quote) \in k..Len(s)+1
  <1> DEFINE S == {j \in k..Len(s)+1 :
                     \/ j = Len(s)+1
                     \/ s[j] = quote /\ ~(quote = DoubleQuote /\ Escaped(s, k)[j])}
  <1>1. Len(s) \in Nat
    BY LenProperties
  <1>2. Len(s) + 1 \in S /\ S \subseteq Nat
    BY <1>1
  <1>3. Min(S) \in S
    BY <1>2, MinIsElement
  <1>4. QED
    BY <1>3 DEF ClosingQuote

LEMMA WordEndType ==
  ASSUME NEW s \in Seq(Char), NEW k \in 1..Len(s)+1
  PROVE  WordEnd(s, k) \in k..Len(s)+1
  <1> DEFINE S == {j \in k..Len(s)+1 :
                     \/ j = Len(s)+1
                     \/ QuoteMode(s, k)[j] = "none" /\ s[j] \in Blank \cup Operator}
  <1>1. Len(s) \in Nat
    BY LenProperties
  <1>2. Len(s) + 1 \in S /\ S \subseteq Nat
    BY <1>1
  <1>3. Min(S) \in S
    BY <1>2, MinIsElement
  <1>4. QED
    BY <1>3 DEF WordEnd

\* A scan stops at a character it looks for or at the end.
LEMMA EndOfRunStops ==
  ASSUME NEW s \in Seq(Char), NEW k \in 1..Len(s)+1, NEW Stop
  PROVE  EndOfRun(s, k, Stop) = Len(s) + 1 \/ s[EndOfRun(s, k, Stop)] \in Stop
  <1> DEFINE S == {j \in k..Len(s)+1 : j = Len(s)+1 \/ s[j] \in Stop}
  <1>1. Len(s) \in Nat
    BY LenProperties
  <1>2. Len(s) + 1 \in S /\ S \subseteq Nat
    BY <1>1
  <1>3. Min(S) \in S
    BY <1>2, MinIsElement
  <1>4. QED
    BY <1>3 DEF EndOfRun

\* So it moves off a character that is none of them.
LEMMA EndOfRunMoves ==
  ASSUME NEW s \in Seq(Char), NEW k \in 1..Len(s), NEW Stop, s[k] \notin Stop
  PROVE  EndOfRun(s, k, Stop) \in k+1..Len(s)+1
  <1>1. Len(s) \in Nat
    BY LenProperties
  <1>2. EndOfRun(s, k, Stop) \in k..Len(s)+1
    BY <1>1, EndOfRunType
  <1>3. EndOfRun(s, k, Stop) # k
    BY <1>1, EndOfRunStops
  <1>4. QED
    BY <1>1, <1>2, <1>3

\* A word that starts has a character.
LEMMA WordEndMoves ==
  ASSUME NEW s \in Seq(Char), NEW k \in 1..Len(s), s[k] \notin Blank \cup Operator
  PROVE  WordEnd(s, k) \in k+1..Len(s)+1
  <1> DEFINE S == {j \in k..Len(s)+1 :
                     \/ j = Len(s)+1
                     \/ QuoteMode(s, k)[j] = "none" /\ s[j] \in Blank \cup Operator}
  <1>1. Len(s) \in Nat
    BY LenProperties
  <1>2. Len(s) + 1 \in S /\ S \subseteq Nat
    BY <1>1
  <1>3. Min(S) \in S
    BY <1>2, MinIsElement
  <1>4. k \notin S
    BY <1>1
  <1>5. QED
    BY <1>1, <1>3, <1>4 DEF WordEnd

-----------------------------------------------------------------------------
(* Token lists.                                                             *)

\* A token list is a sequence, and its elements have a token's type and flag.
LEMMA TokenListElements ==
  ASSUME NEW list, IsTokenList(list)
  PROVE  /\ Len(list) \in Nat /\ DOMAIN list = 1..Len(list)
         /\ \A k \in 1..Len(list) : list[k].type \in TokenType /\ list[k].space \in BOOLEAN
  <1>1. Len(list) \in Nat /\ DOMAIN list = 1..Len(list)
    BY LenProperties DEF IsTokenList
  <1>2. QED
    BY <1>1 DEF IsTokenList

\* Conversely a sequence of tokens, whatever set they come from, is a token list.
LEMMA TokenListIntroduction ==
  ASSUME NEW S, NEW list \in Seq(S),
         \A k \in 1..Len(list) : list[k].type \in TokenType /\ list[k].space \in BOOLEAN
  PROVE  IsTokenList(list)
  <1> DEFINE Used == {list[k] : k \in DOMAIN list}
  <1>1. /\ Len(list) \in Nat /\ DOMAIN list = 1..Len(list)
        /\ list \in [1..Len(list) -> S]
    BY LenProperties
  <1>2. list \in [1..Len(list) -> Used]
    BY <1>1
  <1>3. list \in Seq(Used)
    BY <1>1, <1>2, SeqDef
  <1>4. QED
    BY <1>1, <1>3 DEF IsTokenList

\* A list with as many tokens as another one, each of them a token.
LEMMA TokenListOfFunction ==
  ASSUME NEW n \in Nat, NEW list, DOMAIN list = 1..n, list = [k \in 1..n |-> list[k]],
         \A k \in 1..n : list[k].type \in TokenType /\ list[k].space \in BOOLEAN
  PROVE  IsTokenList(list) /\ Len(list) = n
  <1> DEFINE Used == {list[k] : k \in DOMAIN list}
  <1>1. list \in [1..n -> Used]
    OBVIOUS
  <1>2. list \in Seq(Used)
    BY <1>1, SeqDef
  <1>3. Len(list) = n
    BY <1>2, LenProperties
  <1>4. QED
    BY <1>2, <1>3, TokenListIntroduction

\* The elements of a concatenation.
LEMMA TokenListConcat ==
  ASSUME NEW a, NEW b, IsTokenList(a), IsTokenList(b)
  PROVE  /\ IsTokenList(a \o b)
         /\ Len(a \o b) = Len(a) + Len(b)
         /\ \A k \in 1..Len(a) : (a \o b)[k] = a[k]
         /\ \A k \in 1..Len(b) : (a \o b)[Len(a) + k] = b[k]
  <1> DEFINE S == {a[k] : k \in DOMAIN a} \cup {b[k] : k \in DOMAIN b}
  <1>1. a \in Seq(S) /\ b \in Seq(S)
    BY SeqMonotonic DEF IsTokenList
  <1>2. /\ Len(a) \in Nat
        /\ \A k \in 1..Len(a) : a[k].type \in TokenType /\ a[k].space \in BOOLEAN
    BY TokenListElements
  <1>3. /\ Len(b) \in Nat
        /\ \A k \in 1..Len(b) : b[k].type \in TokenType /\ b[k].space \in BOOLEAN
    BY TokenListElements
  <1> HIDE DEF S
  <1>4. /\ a \o b \in Seq(S)
        /\ Len(a \o b) = Len(a) + Len(b)
        /\ \A k \in 1..Len(a) + Len(b) :
             (a \o b)[k] = IF k <= Len(a) THEN a[k] ELSE b[k - Len(a)]
    BY <1>1, ConcatProperties
  <1>5. /\ \A k \in 1..Len(a) : (a \o b)[k] = a[k]
        /\ \A k \in 1..Len(b) : (a \o b)[Len(a) + k] = b[k]
    BY <1>2, <1>3, <1>4
  <1>6. ASSUME NEW k \in 1..Len(a \o b)
        PROVE  (a \o b)[k].type \in TokenType /\ (a \o b)[k].space \in BOOLEAN
    <2>1. CASE k <= Len(a)
      BY <1>2, <1>4, <2>1
    <2>2. CASE ~(k <= Len(a))
      <3>1. k - Len(a) \in 1..Len(b)
        BY <1>2, <1>3, <1>4, <2>2
      <3>2. QED
        BY <1>2, <1>3, <1>4, <2>2, <3>1
    <2>3. QED
      BY <2>1, <2>2
  <1>7. QED
    BY <1>4, <1>5, <1>6, TokenListIntroduction

\* One token is a list.
LEMMA TokenListOne ==
  ASSUME NEW t, t.type \in TokenType, t.space \in BOOLEAN
  PROVE  IsTokenList(<<t>>) /\ Len(<<t>>) = 1 /\ <<t>>[1] = t
  <1>1. <<t>> \in Seq({t}) /\ Len(<<t>>) = 1 /\ <<t>>[1] = t
    OBVIOUS
  <1>2. \A k \in 1..Len(<<t>>) : <<t>>[k].type \in TokenType /\ <<t>>[k].space \in BOOLEAN
    BY <1>1
  <1>3. QED
    BY <1>1, <1>2, TokenListIntroduction

\* The empty list is a list.
LEMMA TokenListEmpty == IsTokenList(<<>>) /\ Len(<<>>) = 0
  BY DEF IsTokenList

-----------------------------------------------------------------------------
(* Adding tokens at the end.                                                *)

\* What is pending at a position does not depend on what comes later.
LEMMA PendingBefore ==
  ASSUME NEW a, NEW b, IsTokenList(a), IsTokenList(b), NEW k \in 0..Len(a)
  PROVE  Pending(a \o b, k) <=> Pending(a, k)
  <1>1. Len(a) \in Nat /\ \A n \in 1..Len(a) : (a \o b)[n] = a[n]
    BY TokenListElements, TokenListConcat
  <1>2. \A n \in 1..k : (a \o b)[n] = a[n]
    BY <1>1
  <1>3. \A m \in 1..k : \A n \in m..k : (a \o b)[n] = a[n]
    BY <1>2
  <1>4. QED
    BY <1>2, <1>3 DEF Pending

\* Tokens that are neither file redirections nor file names change nothing.
LEMMA PendingNeutral ==
  ASSUME NEW a, NEW b, IsTokenList(a), IsTokenList(b), NEW k \in 0..Len(b),
         \A n \in 1..Len(b) : b[n].type \notin FileRedirection \cup {"FILENAME"}
  PROVE  Pending(a \o b, Len(a) + k) <=> Pending(a, Len(a))
  <1>1. /\ Len(a) \in Nat /\ Len(b) \in Nat
        /\ \A n \in 1..Len(a) : (a \o b)[n] = a[n]
        /\ \A n \in 1..Len(b) : (a \o b)[Len(a) + n] = b[n]
    BY TokenListElements, TokenListConcat
  <1>2. ASSUME NEW n \in Len(a)+1..Len(a)+k
        PROVE  (a \o b)[n].type \notin FileRedirection \cup {"FILENAME"}
    <2>1. n - Len(a) \in 1..Len(b) /\ Len(a) + (n - Len(a)) = n
      BY <1>1
    <2>2. QED
      BY <1>1, <2>1
  <1>3. ASSUME Pending(a \o b, Len(a) + k)
        PROVE  Pending(a, Len(a))
    <2>1. PICK m \in 1..Len(a)+k :
            /\ (a \o b)[m].type \in FileRedirection
            /\ \A n \in m..Len(a)+k : (a \o b)[n].type # "FILENAME"
      BY <1>3 DEF Pending
    <2>2. m \in 1..Len(a)
      BY <1>1, <1>2, <2>1
    <2>3. a[m].type \in FileRedirection
      BY <1>1, <2>1, <2>2
    <2>4. \A n \in m..Len(a) : a[n].type # "FILENAME"
      BY <1>1, <2>1, <2>2
    <2>5. QED
      BY <2>2, <2>3, <2>4 DEF Pending
  <1>4. ASSUME Pending(a, Len(a))
        PROVE  Pending(a \o b, Len(a) + k)
    <2>1. PICK m \in 1..Len(a) : /\ a[m].type \in FileRedirection
                                 /\ \A n \in m..Len(a) : a[n].type # "FILENAME"
      BY <1>4 DEF Pending
    <2>2. m \in 1..Len(a)+k /\ (a \o b)[m].type \in FileRedirection
      BY <1>1, <2>1
    <2>3. ASSUME NEW n \in m..Len(a)+k
          PROVE  (a \o b)[n].type # "FILENAME"
      <3>1. CASE n \in m..Len(a)
        BY <1>1, <2>1, <3>1
      <3>2. CASE n \in Len(a)+1..Len(a)+k
        BY <1>2, <3>2
      <3>3. QED
        BY <1>1, <3>1, <3>2
    <2>4. QED
      BY <2>2, <2>3 DEF Pending
  <1>5. QED
    BY <1>3, <1>4

\* A file redirection at the end is pending, after a file name nothing is.
LEMMA PendingLast ==
  ASSUME NEW a, NEW t, IsTokenList(a), t.type \in TokenType, t.space \in BOOLEAN
  PROVE  /\ t.type \in FileRedirection => Pending(a \o <<t>>, Len(a) + 1)
         /\ t.type = "FILENAME" => ~Pending(a \o <<t>>, Len(a) + 1)
  <1>1. Len(a) \in Nat /\ (a \o <<t>>)[Len(a) + 1] = t
    BY TokenListElements, TokenListOne, TokenListConcat
  <1>2. t.type \in FileRedirection => t.type # "FILENAME"
    BY DEF FileRedirection
  <1>3. \A n \in Len(a)+1..Len(a)+1 : n = Len(a) + 1
    BY <1>1
  <1>4. Len(a) + 1 \in 1..Len(a)+1
    BY <1>1
  <1>5. ASSUME t.type \in FileRedirection
        PROVE  Pending(a \o <<t>>, Len(a) + 1)
    BY <1>1, <1>2, <1>3, <1>4, <1>5 DEF Pending
  <1>6. ASSUME NEW m \in 1..Len(a)+1
        PROVE  Len(a) + 1 \in m..Len(a)+1
    BY <1>1
  <1>7. QED
    BY <1>1, <1>5, <1>6 DEF Pending

\* Delimiters stay owned: nothing but a delimiter or another HEREDOC follows a
\* HEREDOC, and no delimiter follows anything else.
LEMMA DelimitersOwnedConcat ==
  ASSUME NEW a, NEW b, IsTokenList(a), IsTokenList(b), DelimitersOwned(a),
         \A k \in 1..Len(b) : b[k].type \in {"DELIMITER", "HEREDOC"} => k = 1 /\ Len(b) = 1,
         b # <<>> => (a # <<>> /\ a[Len(a)].type = "HEREDOC"
                        => b[1].type \in {"DELIMITER", "HEREDOC"}),
         b # <<>> => (b[1].type = "DELIMITER" => a # <<>> /\ a[Len(a)].type = "HEREDOC")
  PROVE  DelimitersOwned(a \o b)
  <1> DEFINE c == a \o b
  <1>1. /\ Len(a) \in Nat /\ Len(b) \in Nat /\ Len(c) = Len(a) + Len(b)
        /\ DOMAIN a = 1..Len(a) /\ DOMAIN c = 1..Len(c)
        /\ \A n \in 1..Len(a) : c[n] = a[n]
        /\ \A n \in 1..Len(b) : c[Len(a) + n] = b[n]
    BY TokenListElements, TokenListConcat
  <1>2. (a = <<>> => Len(a) = 0) /\ (Len(b) > 0 => b # <<>>)
    BY TokenListEmpty
  <1> HIDE DEF c
  <1>3. ASSUME NEW k \in 1..Len(c)
        PROVE  /\ c[k].type = "DELIMITER" => k > 1 /\ c[k-1].type = "HEREDOC"
               /\ c[k].type = "HEREDOC" /\ k < Len(c)
                    => c[k+1].type \in {"DELIMITER", "HEREDOC"}
    <2>1. CASE k < Len(a)
      <3>1. k \in 1..Len(a) /\ k + 1 \in 1..Len(a) /\ (k > 1 => k - 1 \in 1..Len(a))
        BY <1>1, <2>1
      <3>2. QED
        BY <1>1, <2>1, <3>1 DEF DelimitersOwned
    <2>2. CASE k = Len(a)
      <3>1. k \in 1..Len(a) /\ (k > 1 => k - 1 \in 1..Len(a)) /\ a # <<>>
        BY <1>1, <2>2, <1>2
      <3>2. c[k].type = "DELIMITER" => k > 1 /\ c[k-1].type = "HEREDOC"
        BY <1>1, <3>1 DEF DelimitersOwned
      <3>3. ASSUME k < Len(c)
            PROVE  c[k+1] = b[1] /\ b # <<>>
        <4>1. Len(b) > 0 /\ 1 \in 1..Len(b)
          BY <1>1, <2>2, <3>3
        <4>2. QED
          BY <1>1, <1>2, <2>2, <4>1
      <3>4. QED
        BY <1>1, <2>2, <3>1, <3>2, <3>3
    <2>3. CASE k > Len(a)
      <3>1. k - Len(a) \in 1..Len(b) /\ c[k] = b[k - Len(a)] /\ b # <<>>
        <4>1. k - Len(a) \in 1..Len(b) /\ Len(a) + (k - Len(a)) = k
          BY <1>1, <2>3
        <4>2. QED
          BY <1>1, <1>2, <4>1
      <3>2. CASE c[k].type \in {"DELIMITER", "HEREDOC"}
        <4>1. k - Len(a) = 1 /\ Len(b) = 1 /\ c[k] = b[1]
          BY <3>1, <3>2
        <4>2. k = Len(c) /\ k - 1 = Len(a)
          BY <1>1, <4>1
        <4>3. ASSUME c[k].type = "DELIMITER"
              PROVE  k > 1 /\ c[k-1].type = "HEREDOC"
          <5>1. a # <<>> /\ a[Len(a)].type = "HEREDOC"
            BY <3>1, <4>1, <4>3
          <5>2. Len(a) > 0
            BY <1>1, <5>1, EmptySeq DEF IsTokenList
          <5>3. QED
            BY <1>1, <4>2, <5>1, <5>2
        <4>4. QED
          BY <4>2, <4>3
      <3>3. QED
        BY <3>2
    <2>4. k < Len(a) \/ k = Len(a) \/ k > Len(a)
      <3>1. Len(a) \in Nat /\ k \in Int
        BY <1>1
      <3>2. QED
        BY <3>1
    <2>5. QED
      BY <2>1, <2>2, <2>3, <2>4
  <1>4. QED
    BY <1>1, <1>3 DEF DelimitersOwned, c

\* File names stay owned when tokens other than file names are added, and when
\* a file name is added while a redirection waits for it.
LEMMA FilenamesOwnedConcat ==
  ASSUME NEW a, NEW b, IsTokenList(a), IsTokenList(b), FilenamesOwned(a),
         \A k \in 1..Len(b) : b[k].type = "FILENAME" => k = 1 /\ Pending(a, Len(a))
  PROVE  FilenamesOwned(a \o b)
  <1> DEFINE c == a \o b
  <1>1. /\ Len(a) \in Nat /\ Len(b) \in Nat /\ Len(c) = Len(a) + Len(b)
        /\ DOMAIN a = 1..Len(a) /\ DOMAIN c = 1..Len(c)
        /\ \A n \in 1..Len(a) : c[n] = a[n]
        /\ \A n \in 1..Len(b) : c[Len(a) + n] = b[n]
    BY TokenListElements, TokenListConcat
  <1>2. \A k \in 0..Len(a) : Pending(c, k) <=> Pending(a, k)
    BY PendingBefore
  <1> HIDE DEF c
  <1>3. ASSUME NEW k \in 1..Len(c), c[k].type = "FILENAME"
        PROVE  Pending(c, k-1)
    <2>1. CASE k <= Len(a)
      <3>1. k \in 1..Len(a) /\ k - 1 \in 0..Len(a)
        BY <1>1, <2>1
      <3>2. QED
        BY <1>1, <1>2, <1>3, <3>1 DEF FilenamesOwned
    <2>2. CASE k > Len(a)
      <3>1. k - Len(a) \in 1..Len(b) /\ Len(a) + (k - Len(a)) = k
        BY <1>1, <2>2
      <3>2. c[k] = b[k - Len(a)]
        BY <1>1, <3>1
      <3>3. k - Len(a) = 1 /\ Pending(a, Len(a))
        BY <1>3, <3>1, <3>2
      <3>4. k - 1 = Len(a) /\ Len(a) \in 0..Len(a)
        BY <1>1, <3>3
      <3>5. QED
        BY <1>2, <3>3, <3>4
    <2>3. QED
      BY <1>1, <2>1, <2>2
  <1>4. QED
    BY <1>1, <1>3 DEF FilenamesOwned, c

\* Commands stay in place when tokens other than commands are added, and when one
\* command is added where a command can start.
LEMMA CommandsPlacedConcat ==
  ASSUME NEW a, NEW b, IsTokenList(a), IsTokenList(b), CommandsPlaced(a),
         \A k \in 1..Len(b) : b[k].type = "COMMANDE" =>
            /\ k = 1
            /\ \/ a = <<>>
               \/ a # <<>> /\ a[1].type = "PIPE"
               \/ a # <<>> /\ a[Len(a)].type = "PIPE" /\ ~Pending(a, Len(a))
  PROVE  CommandsPlaced(a \o b)
  <1> DEFINE c == a \o b
  <1>1. /\ Len(a) \in Nat /\ Len(b) \in Nat /\ Len(c) = Len(a) + Len(b)
        /\ DOMAIN a = 1..Len(a) /\ DOMAIN c = 1..Len(c)
        /\ \A n \in 1..Len(a) : c[n] = a[n]
        /\ \A n \in 1..Len(b) : c[Len(a) + n] = b[n]
    BY TokenListElements, TokenListConcat
  <1>2. \A k \in 0..Len(a) : Pending(c, k) <=> Pending(a, k)
    BY PendingBefore
  <1> HIDE DEF c
  <1>3. ASSUME NEW k \in 1..Len(c), c[k].type = "COMMANDE", c[1].type # "PIPE"
        PROVE  k = 1 \/ (c[k-1].type = "PIPE" /\ ~Pending(c, k-1))
    <2>1. CASE k <= Len(a)
      <3>1. /\ k \in 1..Len(a) /\ 1 \in 1..Len(a)
            /\ k - 1 \in 0..Len(a) /\ (k # 1 => k - 1 \in 1..Len(a))
        BY <1>1, <2>1
      <3>2. a[k].type = "COMMANDE" /\ a[1].type # "PIPE"
        BY <1>1, <1>3, <3>1
      <3>3. k = 1 \/ (a[k-1].type = "PIPE" /\ ~Pending(a, k-1))
        BY <1>1, <3>1, <3>2 DEF CommandsPlaced
      <3>4. QED
        BY <1>1, <1>2, <3>1, <3>3
    <2>2. CASE k > Len(a)
      <3>1. k - Len(a) \in 1..Len(b) /\ Len(a) + (k - Len(a)) = k
        BY <1>1, <2>2
      <3>2. c[k] = b[k - Len(a)]
        BY <1>1, <3>1
      <3>3. /\ k - Len(a) = 1
            /\ \/ a = <<>>
               \/ a # <<>> /\ a[1].type = "PIPE"
               \/ a # <<>> /\ a[Len(a)].type = "PIPE" /\ ~Pending(a, Len(a))
        BY <1>3, <3>1, <3>2
      <3>4. k - 1 = Len(a) /\ Len(a) \in 0..Len(a)
        BY <1>1, <3>3
      <3>5. a # <<>> => 1 \in 1..Len(a) /\ Len(a) \in 1..Len(a)
        BY <1>1, EmptySeq DEF IsTokenList
      <3>6. a = <<>> => k = 1
        BY <3>3, TokenListEmpty
      <3>7. QED
        BY <1>1, <1>2, <1>3, <3>3, <3>4, <3>5, <3>6
    <2>3. QED
      BY <1>1, <2>1, <2>2
  <1>4. QED
    BY <1>1, <1>3 DEF CommandsPlaced, c

-----------------------------------------------------------------------------
(* Removing one token: concatinate() joins the word at position c with the  *)
(* word behind it.                                                          *)

Joins(list, c, new) ==
  /\ IsTokenList(list) /\ IsTokenList(new)
  /\ c \in 1..Len(list)-1
  /\ list[c].type \in Word /\ list[c+1].type \in Word
  /\ Len(new) = Len(list) - 1
  /\ \A k \in 1..Len(new) : new[k].type = IF k <= c THEN list[k].type ELSE list[k+1].type

\* What is pending stays so, whichever side of the joined words it stands on.
LEMMA PendingJoins ==
  ASSUME NEW list, NEW new, NEW c, Joins(list, c, new), NEW k \in 0..Len(new)
  PROVE  Pending(new, k) <=> Pending(list, IF k <= c THEN k ELSE k + 1)
  <1> DEFINE K == IF k <= c THEN k ELSE k + 1
  <1>1. /\ Len(list) \in Nat /\ Len(new) \in Nat /\ c \in 1..Len(new)
        /\ Len(list) = Len(new) + 1
        /\ \A n \in 1..Len(new) :
             new[n].type = IF n <= c THEN list[n].type ELSE list[n+1].type
    BY TokenListElements DEF Joins
  <1>2. /\ list[c].type \notin FileRedirection \cup {"FILENAME"}
        /\ list[c+1].type \notin FileRedirection \cup {"FILENAME"}
    BY DEF Joins, Word, FileRedirection
  <1>3. K \in 0..Len(list)
    BY <1>1
  <1>4. ASSUME Pending(new, k)
        PROVE  Pending(list, K)
    <2>1. PICK m \in 1..k : /\ new[m].type \in FileRedirection
                            /\ \A n \in m..k : new[n].type # "FILENAME"
      BY <1>4 DEF Pending
    <2> DEFINE M == IF m <= c THEN m ELSE m + 1
    <2>2. M \in 1..K /\ list[M].type \in FileRedirection
      BY <1>1, <2>1
    <2>3. ASSUME NEW n \in M..K
          PROVE  list[n].type # "FILENAME"
      <3>1. CASE n <= c
        <4>1. n \in 1..Len(new) /\ n \in m..k
          BY <1>1, <2>1, <3>1
        <4>2. QED
          BY <1>1, <2>1, <3>1, <4>1
      <3>2. CASE n = c + 1
        BY <1>2, <3>2
      <3>3. CASE n > c + 1
        <4>1. n - 1 \in 1..Len(new) /\ n - 1 \in m..k /\ ~(n - 1 <= c)
          BY <1>1, <2>1, <3>3
        <4>2. new[n-1].type = list[n].type
          BY <1>1, <4>1
        <4>3. QED
          BY <2>1, <4>1, <4>2
      <3>4. QED
        BY <1>1, <2>2, <3>1, <3>2, <3>3
    <2>4. QED
      BY <2>2, <2>3 DEF Pending
  <1>5. ASSUME Pending(list, K)
        PROVE  Pending(new, k)
    <2>1. PICK m \in 1..K : /\ list[m].type \in FileRedirection
                            /\ \A n \in m..K : list[n].type # "FILENAME"
      BY <1>5 DEF Pending
    <2>2. m # c /\ m # c + 1
      BY <1>2, <2>1
    <2> DEFINE M == IF m <= c THEN m ELSE m - 1
    <2>3. M \in 1..k
      BY <1>1, <2>1, <2>2
    <2>4. new[M].type \in FileRedirection
      <3>1. CASE m <= c
        <4>1. M = m /\ m \in 1..Len(new)
          BY <1>1, <2>3, <3>1
        <4>2. QED
          BY <1>1, <2>1, <2>2, <3>1, <4>1
      <3>2. CASE ~(m <= c)
        <4>1. M = m - 1 /\ m - 1 \in 1..Len(new) /\ ~(m - 1 <= c) /\ (m - 1) + 1 = m
          BY <1>1, <2>2, <2>3, <3>2
        <4>2. QED
          BY <1>1, <2>1, <4>1
      <3>3. QED
        BY <3>1, <3>2
    <2>5. ASSUME NEW n \in M..k
          PROVE  new[n].type # "FILENAME"
      <3>1. CASE n <= c
        <4>1. n \in 1..Len(new) /\ n \in m..K
          BY <1>1, <2>1, <2>2, <3>1
        <4>2. QED
          BY <1>1, <2>1, <3>1, <4>1
      <3>2. CASE n > c
        <4>1. n \in 1..Len(new) /\ n + 1 \in m..K /\ ~(n <= c)
          BY <1>1, <2>1, <2>2, <3>2
        <4>2. QED
          BY <1>1, <2>1, <4>1
      <3>3. QED
        BY <1>1, <2>3, <3>1, <3>2
    <2>6. QED
      BY <2>3, <2>4, <2>5 DEF Pending
  <1>6. QED
    BY <1>4, <1>5

\* The three promises survive.
LEMMA JoinsKeepsOrder ==
  ASSUME NEW list, NEW new, NEW c, Joins(list, c, new),
         DelimitersOwned(list), FilenamesOwned(list), CommandsPlaced(list)
  PROVE  DelimitersOwned(new) /\ FilenamesOwned(new) /\ CommandsPlaced(new)
  <1>1. /\ Len(list) \in Nat /\ Len(new) \in Nat /\ c \in 1..Len(new)
        /\ Len(list) = Len(new) + 1
        /\ DOMAIN list = 1..Len(list) /\ DOMAIN new = 1..Len(new)
        /\ \A n \in 1..Len(new) :
             new[n].type = IF n <= c THEN list[n].type ELSE list[n+1].type
    BY TokenListElements DEF Joins
  <1>2. list[c].type \in {"COMMANDE", "ARG"} /\ list[c+1].type \in {"COMMANDE", "ARG"}
    BY DEF Joins, Word
  <1>3. \A k \in 0..Len(new) : Pending(new, k) <=> Pending(list, IF k <= c THEN k ELSE k + 1)
    BY PendingJoins
  <1>4. ASSUME NEW k \in 1..Len(new)
        PROVE  /\ new[k].type = "DELIMITER" => k > 1 /\ new[k-1].type = "HEREDOC"
               /\ new[k].type = "HEREDOC" /\ k < Len(new)
                    => new[k+1].type \in {"DELIMITER", "HEREDOC"}
    <2>1. CASE k < c
      <3>1. k \in 1..Len(list) /\ k + 1 \in 1..Len(new) /\ (k > 1 => k - 1 \in 1..Len(new))
        BY <1>1, <2>1
      <3>2. QED
        BY <1>1, <2>1, <3>1 DEF DelimitersOwned
    <2>2. CASE k = c
      BY <1>1, <1>2, <2>2
    <2>3. CASE k > c
      <3>1. /\ k + 1 \in 1..Len(list) /\ new[k].type = list[k+1].type
            /\ k - 1 \in 1..Len(new)
            /\ (k < Len(new) => k + 1 \in 1..Len(new) /\ new[k+1].type = list[k+2].type)
        BY <1>1, <2>3
      <3>2. ASSUME new[k].type = "DELIMITER"
            PROVE  k > 1 /\ new[k-1].type = "HEREDOC"
        <4>1. PICK j \in DOMAIN list : j = k + 1
          BY <1>1, <3>1
        <4>2. j - 1 = k /\ list[j].type = "DELIMITER"
          <5>1. list[j].type = "DELIMITER"
            BY <3>1, <3>2, <4>1
          <5>2. QED
            BY <4>1, <5>1
        <4>3. list[k].type = "HEREDOC"
          <5>1. list[j-1].type = "HEREDOC"
            BY <4>2 DEF DelimitersOwned
          <5>2. QED
            BY <4>2, <5>1
        <4>4. k # c + 1
          BY <1>2, <4>3
        <4>5. QED
          BY <1>1, <2>3, <3>1, <4>3, <4>4
      <3>3. ASSUME new[k].type = "HEREDOC", k < Len(new)
            PROVE  new[k+1].type \in {"DELIMITER", "HEREDOC"}
        <4>1. PICK j \in DOMAIN list : j = k + 1
          BY <1>1, <3>1
        <4>2. j < Len(list) /\ list[j].type = "HEREDOC" /\ j + 1 = k + 2
          <5>1. list[j].type = "HEREDOC"
            BY <3>1, <3>3, <4>1
          <5>2. j < Len(list) /\ j + 1 = k + 2
            <6>1. Len(new) \in Nat /\ Len(list) = Len(new) + 1
              BY <1>1
            <6>2. QED
              BY <3>3, <4>1, <6>1
          <5>3. QED
            BY <5>1, <5>2
        <4>3. list[j+1].type \in {"DELIMITER", "HEREDOC"}
          BY <4>2 DEF DelimitersOwned
        <4>4. QED
          BY <3>1, <3>3, <4>2, <4>3
      <3>4. QED
        BY <3>2, <3>3
    <2>4. QED
      BY <1>1, <2>1, <2>2, <2>3
  <1>5. ASSUME NEW k \in 1..Len(new), new[k].type = "FILENAME"
        PROVE  Pending(new, k-1)
    <2>1. k - 1 \in 0..Len(new)
      BY <1>1
    <2>2. CASE k <= c
      <3>1. list[k].type = "FILENAME" /\ k \in 1..Len(list)
        BY <1>1, <1>5, <2>2
      <3>2. QED
        BY <1>1, <1>3, <2>1, <2>2, <3>1 DEF FilenamesOwned
    <2>3. CASE k > c
      <3>1. list[k+1].type = "FILENAME" /\ k + 1 \in 1..Len(list)
        BY <1>1, <1>5, <2>3
      <3>2. Pending(list, k)
        BY <1>1, <3>1 DEF FilenamesOwned
      <3>3. CASE k = c + 1
        <4>1. PICK m \in 1..k : /\ list[m].type \in FileRedirection
                                /\ \A n \in m..k : list[n].type # "FILENAME"
          BY <3>2 DEF Pending
        <4>2. m # k
          BY <1>2, <3>3, <4>1 DEF FileRedirection
        <4>3. m \in 1..k-1 /\ \A n \in m..k-1 : list[n].type # "FILENAME"
          BY <1>1, <4>1, <4>2
        <4>4. Pending(list, k-1)
          BY <4>1, <4>3 DEF Pending
        <4>5. QED
          BY <1>1, <1>3, <2>1, <3>3, <4>4
      <3>4. CASE k # c + 1
        BY <1>1, <1>3, <2>1, <2>3, <3>2, <3>4
      <3>5. QED
        BY <3>3, <3>4
    <2>4. QED
      BY <1>1, <2>2, <2>3
  <1>6. ASSUME NEW k \in 1..Len(new), new[k].type = "COMMANDE", new[1].type # "PIPE"
        PROVE  k = 1 \/ (new[k-1].type = "PIPE" /\ ~Pending(new, k-1))
    <2>1. k - 1 \in 0..Len(new) /\ list[1].type # "PIPE"
      BY <1>1, <1>6
    <2>2. CASE k <= c
      <3>1. list[k].type = "COMMANDE" /\ k \in 1..Len(list)
        BY <1>1, <1>6, <2>2
      <3>2. k = 1 \/ (list[k-1].type = "PIPE" /\ ~Pending(list, k-1))
        BY <1>1, <2>1, <3>1 DEF CommandsPlaced
      <3>3. QED
        BY <1>1, <1>3, <2>1, <2>2, <3>2
    <2>3. CASE k > c
      <3>1. list[k+1].type = "COMMANDE" /\ k + 1 \in 1..Len(list)
        BY <1>1, <1>6, <2>3
      <3>2. list[k].type = "PIPE" /\ ~Pending(list, k)
        <4>1. PICK j \in DOMAIN list : j = k + 1
          BY <1>1, <3>1
        <4>2. j # 1 /\ j - 1 = k /\ list[j].type = "COMMANDE"
          BY <1>1, <3>1, <4>1
        <4>3. list[j-1].type = "PIPE" /\ ~Pending(list, j-1)
          BY <2>1, <4>2 DEF CommandsPlaced
        <4>4. QED
          BY <4>2, <4>3
      <3>3. k # c + 1
        BY <1>2, <3>2
      <3>4. QED
        BY <1>1, <1>3, <2>1, <2>3, <3>2, <3>3
    <2>4. QED
      BY <1>1, <2>2, <2>3
  <1>7. QED
    BY <1>1, <1>4, <1>5, <1>6 DEF DelimitersOwned, FilenamesOwned, CommandsPlaced

-----------------------------------------------------------------------------
(* Induction.                                                               *)

\* Induction, over a set in place of a predicate.
LEMMA Induction ==
  ASSUME NEW T, 0 \in T, \A n \in Nat : n \in T => n + 1 \in T
  PROVE  Nat \subseteq T
  <1> SUFFICES ASSUME Nat \ T # {} PROVE FALSE
    OBVIOUS
  <1>1. PICK m \in Nat \ T : \A y \in Nat \ T : m <= y
    BY MinIsElement
  <1>2. m # 0 /\ m - 1 \in Nat /\ ~(m <= m - 1) /\ (m - 1) + 1 = m
    BY <1>1
  <1>3. m - 1 \in T
    BY <1>1, <1>2
  <1>4. QED
    BY <1>1, <1>2, <1>3

LEMMA SequenceInduction ==
  ASSUME NEW S, NEW T, <<>> \in T,
         \A s \in Seq(S), e \in S : s \in T => Append(s, e) \in T
  PROVE  Seq(S) \subseteq T
  <1> DEFINE N == {n \in Nat : \A s \in Seq(S) : Len(s) = n => s \in T}
  <1>1. 0 \in N
    BY EmptySeq
  <1>2. ASSUME NEW n \in Nat, n \in N
        PROVE  n + 1 \in N
    <2> SUFFICES ASSUME NEW s \in Seq(S), Len(s) = n + 1 PROVE s \in T
      OBVIOUS
    <2>1. s # <<>>
      BY EmptySeq
    <2>2. PICK t \in Seq(S), e \in S : s = Append(t, e)
      BY <2>1, SequenceEmptyOrAppend
    <2>3. Len(t) \in Nat /\ Len(s) = Len(t) + 1
      BY <2>2, AppendProperties, LenProperties
    <2>4. t \in T
      BY <1>2, <2>3
    <2>5. QED
      BY <2>2, <2>4
  <1> HIDE DEF N
  <1>3. Nat \subseteq N
    BY <1>1, <1>2, Induction
  <1>4. QED
    BY <1>3, LenProperties DEF N

-----------------------------------------------------------------------------
(* The order of positions.                                                  *)

\* How many of S are not above k.
Rank(S, k) == Cardinality({j \in S : j <= k})

\* S in increasing order.
Ordered(S) ==
  [n \in 1..Cardinality(S) |-> CHOOSE k \in S : Cardinality({j \in S : j <= k}) = n]

\* The ranks of S are in the order of S.
LEMMA RanksDiffer ==
  ASSUME NEW S, S \subseteq Nat, IsFiniteSet(S)
  PROVE  /\ \A k \in S : Rank(S, k) \in Nat
         /\ \A j, k \in S : j < k => Rank(S, j) < Rank(S, k)
         /\ \A j, k \in S : Rank(S, j) = Rank(S, k) => j = k
  <1>1. ASSUME NEW k \in Nat
        PROVE  IsFiniteSet({i \in S : i <= k}) /\ Rank(S, k) \in Nat
    <2>1. {i \in S : i <= k} \in SUBSET S
      OBVIOUS
    <2>2. IsFiniteSet({i \in S : i <= k})
      BY <2>1, FS_Subset
    <2>3. QED
      BY <2>2, FS_CardinalityType DEF Rank
  <1>2. ASSUME NEW j \in S, NEW k \in S, j < k
        PROVE  Rank(S, j) < Rank(S, k)
    <2> DEFINE A == {i \in S : i <= j}
               B == {i \in S : i <= k}
    <2>1. j \in Nat /\ k \in Nat
      OBVIOUS
    <2>2. k \notin A /\ A \cup {k} \in SUBSET B
      <3>1. \A i \in S : i \in Nat /\ (i <= j => i <= k)
        BY <1>2, <2>1
      <3>2. ~(k <= j) /\ k <= k
        BY <1>2, <2>1
      <3>3. QED
        BY <3>1, <3>2
    <2>3. IsFiniteSet(A) /\ IsFiniteSet(B) /\ Cardinality(A) \in Nat /\ Cardinality(B) \in Nat
      BY <1>1, <2>1 DEF Rank
    <2> HIDE DEF A, B
    <2>4. Cardinality(A \cup {k}) = Cardinality(A) + 1
      BY <2>2, <2>3, FS_AddElement
    <2>5. Cardinality(A \cup {k}) <= Cardinality(B)
      BY <2>2, <2>3, FS_Subset
    <2>6. Cardinality(A) < Cardinality(B)
      BY <2>3, <2>4, <2>5
    <2>7. QED
      BY <2>6 DEF Rank, A, B
  <1>3. ASSUME NEW j \in S, NEW k \in S, Rank(S, j) = Rank(S, k)
        PROVE  j = k
    <2>1. j \in Nat /\ k \in Nat /\ Rank(S, j) \in Nat
      BY <1>1
    <2>2. ~(j < k) /\ ~(k < j)
      BY <1>2, <1>3, <2>1
    <2>3. QED
      BY <2>1, <2>2
  <1>4. QED
    BY <1>1, <1>2, <1>3

\* An element above S has the next rank, and no rank below it changes.
LEMMA RanksGrow ==
  ASSUME NEW S, S \subseteq Nat, IsFiniteSet(S), NEW p \in Nat, \A k \in S : k < p
  PROVE  /\ IsFiniteSet(S \cup {p}) /\ S \cup {p} \subseteq Nat
         /\ Cardinality(S) \in Nat /\ Cardinality(S \cup {p}) = Cardinality(S) + 1
         /\ \A k \in S : Rank(S \cup {p}, k) = Rank(S, k)
         /\ Rank(S \cup {p}, p) = Cardinality(S) + 1
  <1>1. p \notin S
    OBVIOUS
  <1>2. /\ IsFiniteSet(S \cup {p}) /\ Cardinality(S) \in Nat
        /\ Cardinality(S \cup {p}) = Cardinality(S) + 1
    BY <1>1, FS_AddElement, FS_CardinalityType
  <1>3. ASSUME NEW k \in S
        PROVE  Rank(S \cup {p}, k) = Rank(S, k)
    <2>1. {j \in S \cup {p} : j <= k} = {j \in S : j <= k}
      OBVIOUS
    <2>2. QED
      BY <2>1 DEF Rank
  <1>4. {j \in S \cup {p} : j <= p} = S \cup {p}
    <2>1. \A j \in S \cup {p} : j <= p
      OBVIOUS
    <2>2. QED
      BY <2>1
  <1>5. Rank(S \cup {p}, p) = Cardinality(S) + 1
    BY <1>2, <1>4 DEF Rank
  <1>6. QED
    BY <1>2, <1>3, <1>5

Below(S, m) == {k \in S : k < m}

\* Every number up to the size of the set is the rank of an element.
Dense(S) == \A n \in 1..Cardinality(S) : \E k \in S : Rank(S, k) = n

\* ... and a new largest element adds one.
LEMMA DenseGrows ==
  ASSUME NEW S, S \subseteq Nat, IsFiniteSet(S), NEW m \in Nat, Dense(Below(S, m))
  PROVE  Dense(Below(S, m + 1))
  <1> DEFINE T == Below(S, m)
  <1>1. IsFiniteSet(T) /\ T \subseteq Nat /\ \A k \in T : k < m
    <2>1. T \in SUBSET S
      BY DEF Below
    <2>2. QED
      BY <2>1, FS_Subset DEF Below
  <1>2. \A k \in S : k < m + 1 <=> k < m \/ k = m
    OBVIOUS
  <1>3. CASE m \notin S
    <2>1. Below(S, m + 1) = T
      BY <1>2, <1>3 DEF Below
    <2>2. QED
      BY <2>1
  <1>4. CASE m \in S
    <2>1. Below(S, m + 1) = T \cup {m}
      BY <1>2, <1>4 DEF Below
    <2> HIDE DEF T
    <2>2. /\ Cardinality(T) \in Nat /\ Cardinality(T \cup {m}) = Cardinality(T) + 1
          /\ \A k \in T : Rank(T \cup {m}, k) = Rank(T, k)
          /\ Rank(T \cup {m}, m) = Cardinality(T) + 1
      BY <1>1, RanksGrow
    <2>3. Dense(T)
      BY DEF T
    <2>4. ASSUME NEW n \in 1..Cardinality(T) + 1
          PROVE  \E k \in T \cup {m} : Rank(T \cup {m}, k) = n
      <3>1. CASE n = Cardinality(T) + 1
        BY <2>2, <3>1
      <3>2. CASE n # Cardinality(T) + 1
        <4>1. n \in 1..Cardinality(T)
          BY <2>2, <3>2
        <4>2. PICK k \in T : Rank(T, k) = n
          BY <2>3, <4>1 DEF Dense
        <4>3. QED
          BY <2>2, <4>2
      <3>3. QED
        BY <3>1, <3>2
    <2>5. Dense(T \cup {m})
      BY <2>2, <2>4 DEF Dense
    <2>6. QED
      BY <2>1, <2>5
  <1>5. QED
    BY <1>3, <1>4

\* Every finite set of positions has all the ranks up to its size.
LEMMA RanksExist ==
  ASSUME NEW size \in Nat, NEW S, S \subseteq 1..size
  PROVE  IsFiniteSet(S) /\ S \subseteq Nat /\ Dense(S)
  <1>1. IsFiniteSet(S) /\ S \subseteq Nat
    <2>1. IsFiniteSet(1..size)
      BY FS_Interval
    <2>2. S \in SUBSET (1..size) /\ S \subseteq Nat
      OBVIOUS
    <2>3. IsFiniteSet(S)
      BY <2>1, <2>2, FS_Subset
    <2>4. QED
      BY <2>2, <2>3
  <1> DEFINE bad == {m \in Nat : ~Dense(Below(S, m))}
  <1>2. ASSUME bad # {}
        PROVE  FALSE
    <2>1. bad \subseteq Nat
      OBVIOUS
    <2>2. PICK m \in bad : \A j \in bad : m <= j
      <3> HIDE DEF bad
      <3>1. QED
        BY <1>2, <2>1, MinIsElement
    <2>3. m \in Nat /\ ~Dense(Below(S, m))
      OBVIOUS
    <2>4. m # 0
      <3>1. \A k \in S : ~(k < 0)
        BY <1>1
      <3>4. Below(S, 0) = {}
        BY <3>1 DEF Below
      <3>2. Dense(Below(S, 0))
        BY <3>4, FS_EmptySet DEF Dense
      <3>3. QED
        BY <2>3, <3>2
    <2>5. m - 1 \in Nat /\ ~(m <= m - 1) /\ (m - 1) + 1 = m
      BY <2>3, <2>4
    <2>6. Dense(Below(S, m - 1))
      BY <2>2, <2>5
    <2>7. Dense(Below(S, (m - 1) + 1))
      BY <1>1, <2>5, <2>6, DenseGrows
    <2>8. QED
      BY <2>3, <2>5, <2>7
  <1>3. Dense(Below(S, size + 1))
    BY <1>2
  <1>4. Below(S, size + 1) = S
    <2>1. \A k \in S : k < size + 1
      OBVIOUS
    <2>2. QED
      BY <2>1 DEF Below
  <1>5. QED
    BY <1>1, <1>3, <1>4

\* The n-th in order is the element of rank n.
LEMMA OrderedElements ==
  ASSUME NEW size \in Nat, NEW S, S \subseteq 1..size
  PROVE  /\ Cardinality(S) \in Nat
         /\ Ordered(S) \in Seq(S) /\ Len(Ordered(S)) = Cardinality(S)
         /\ DOMAIN Ordered(S) = 1..Cardinality(S)
         /\ \A n \in 1..Cardinality(S) : Ordered(S)[n] \in S /\ Rank(S, Ordered(S)[n]) = n
  <1>1. /\ IsFiniteSet(S) /\ S \subseteq Nat
        /\ \A n \in 1..Cardinality(S) : \E k \in S : Rank(S, k) = n
    BY RanksExist DEF Dense
  <1>2. Cardinality(S) \in Nat
    BY <1>1, FS_CardinalityType
  <1>3. \A n \in 1..Cardinality(S) : Ordered(S)[n] = CHOOSE k \in S : Rank(S, k) = n
    BY DEF Ordered, Rank
  <1>4. \A n \in 1..Cardinality(S) : Ordered(S)[n] \in S /\ Rank(S, Ordered(S)[n]) = n
    BY <1>1, <1>3
  <1>5. Ordered(S) = [n \in 1..Cardinality(S) |-> Ordered(S)[n]]
    BY DEF Ordered
  <1>6. Ordered(S) \in Seq(S)
    BY <1>2, <1>4, <1>5, SeqDef
  <1>7. DOMAIN Ordered(S) = 1..Cardinality(S)
    BY <1>5
  <1>8. Len(Ordered(S)) = Cardinality(S)
    BY <1>2, <1>6, <1>7, LenProperties
  <1>9. QED
    BY <1>2, <1>4, <1>6, <1>7, <1>8

-----------------------------------------------------------------------------
(* Texts that are put together.                                             *)

\* The function that FlattenSeq() computes, on the first n of some sequences.
Flattens(f, seqs, n) ==
  f = [k \in 1..n |-> IF k = 1 THEN seqs[k] ELSE f[k-1] \o seqs[k]]

\* It exists ...
LEMMA FlattensExists ==
  ASSUME NEW seqs
  PROVE  \A n \in Nat : \E f : Flattens(f, seqs, n)
  <1> DEFINE T == {n \in Nat : \E f : Flattens(f, seqs, n)}
  <1>1. 0 \in T
    <2>1. Flattens([k \in {} |-> {}], seqs, 0)
      <3>1. 1..0 = {}
        OBVIOUS
      <3>2. QED
        BY <3>1 DEF Flattens
    <2>2. QED
      BY <2>1
  <1>2. ASSUME NEW n \in Nat, n \in T
        PROVE  n + 1 \in T
    <2>1. PICK f : Flattens(f, seqs, n)
      BY <1>2
    <2> DEFINE m == n + 1
               g == [k \in 1..m |-> IF k <= n THEN f[k]
                                     ELSE IF k = 1 THEN seqs[k] ELSE f[k-1] \o seqs[k]]
    <2>2. Flattens(g, seqs, m)
      <3>1. ASSUME NEW k \in 1..m
            PROVE  g[k] = IF k = 1 THEN seqs[k] ELSE g[k-1] \o seqs[k]
        <4>1. k # 1 => g[k-1] = f[k-1]
          OBVIOUS
        <4>2. CASE k <= n
          <5>1. k \in 1..n /\ g[k] = f[k]
            BY <4>2
          <5> HIDE DEF g
          <5>2. f[k] = IF k = 1 THEN seqs[k] ELSE f[k-1] \o seqs[k]
            BY <2>1, <5>1 DEF Flattens
          <5>3. QED
            BY <4>1, <5>1, <5>2
        <4>3. CASE ~(k <= n)
          <5>1. g[k] = IF k = 1 THEN seqs[k] ELSE f[k-1] \o seqs[k]
            BY <4>3
          <5> HIDE DEF g
          <5>2. QED
            BY <4>1, <5>1
        <4>4. QED
          BY <4>2, <4>3
      <3>2. g = [k \in 1..m |-> g[k]]
        OBVIOUS
      <3> HIDE DEF g
      <3>3. QED
        BY <3>1, <3>2 DEF Flattens
    <2>3. QED
      BY <2>2
  <1> HIDE DEF T
  <1>3. Nat \subseteq T
    BY <1>1, <1>2, Induction
  <1>4. QED
    BY <1>3 DEF T

\* ... and two of them agree as far as the sequences do.
SameUpTo(s, t, m) == \A k \in 1..m : s[k] = t[k]

LEMMA FlattensUnique ==
  ASSUME NEW s, NEW t, NEW m \in Nat, NEW n \in Nat, m <= n, SameUpTo(s, t, m),
         NEW f, Flattens(f, s, m), NEW g, Flattens(g, t, n)
  PROVE  SameUpTo(f, g, m)
  <1> USE DEF SameUpTo
  <1> DEFINE S == {k \in 1..m : f[k] # g[k]}
  <1> SUFFICES ASSUME S # {} PROVE FALSE
    OBVIOUS
  <1>1. /\ Min(S) \in S /\ \A y \in S : Min(S) <= y
    <2>1. S \subseteq Nat
      OBVIOUS
    <2> HIDE DEF S
    <2>2. QED
      BY <2>1, MinIsElement
  <1>2. PICK k \in 1..m : f[k] # g[k] /\ \A y \in S : k <= y
    BY <1>1
  <1>3. /\ f[k] = IF k = 1 THEN s[k] ELSE f[k-1] \o s[k]
        /\ g[k] = IF k = 1 THEN t[k] ELSE g[k-1] \o t[k]
    <2> HIDE DEF S
    <2>1. k \in 1..n
      OBVIOUS
    <2>2. f = [j \in 1..m |-> IF j = 1 THEN s[j] ELSE f[j-1] \o s[j]]
      BY DEF Flattens
    <2>3. g = [j \in 1..n |-> IF j = 1 THEN t[j] ELSE g[j-1] \o t[j]]
      BY DEF Flattens
    <2>4. f[k] = IF k = 1 THEN s[k] ELSE f[k-1] \o s[k]
      BY <2>2, Zenon
    <2>5. g[k] = IF k = 1 THEN t[k] ELSE g[k-1] \o t[k]
      BY <2>1, <2>3, Zenon
    <2>6. QED
      BY <2>4, <2>5
  <1>4. k # 1 => f[k-1] = g[k-1]
    <2> SUFFICES ASSUME k # 1 PROVE f[k-1] = g[k-1]
      OBVIOUS
    <2>1. k - 1 \in 1..m /\ ~(k <= k - 1)
      OBVIOUS
    <2>2. k - 1 \notin S
      BY <1>2, <2>1
    <2>3. QED
      BY <2>1, <2>2
  <1>5. QED
    BY <1>2, <1>3, <1>4

LEMMA FlattenSeqFlattens ==
  ASSUME NEW seqs, Len(seqs) \in Nat \ {0}
  PROVE  \E f : Flattens(f, seqs, Len(seqs)) /\ FlattenSeq(seqs) = f[Len(seqs)]
  <1> DEFINE f == CHOOSE f : Flattens(f, seqs, Len(seqs))
  <1>1. Flattens(f, seqs, Len(seqs))
    BY FlattensExists
  <1>2. FlattenSeq(seqs) = f[Len(seqs)]
    BY DEF FlattenSeq, Flattens
  <1>3. QED
    BY <1>1, <1>2

LEMMA FlattenEmpty == FlattenSeq(<<>>) = <<>>
  BY DEF FlattenSeq

\* The text of one sequence more.
LEMMA FlattenAppend ==
  ASSUME NEW S, NEW seqs \in Seq(Seq(S)), NEW s \in Seq(S)
  PROVE  FlattenSeq(Append(seqs, s)) = FlattenSeq(seqs) \o s
  <1> DEFINE n == Len(seqs)
             more == Append(seqs, s)
  <1>1. n \in Nat /\ Len(more) = n + 1 /\ more[n+1] = s /\ \A k \in 1..n : more[k] = seqs[k]
    BY LenProperties, AppendProperties
  <1> HIDE DEF more
  <1>2. PICK g : Flattens(g, more, n + 1) /\ FlattenSeq(more) = g[n + 1]
    BY <1>1, FlattenSeqFlattens
  <1>3. g[n+1] = IF n + 1 = 1 THEN s ELSE g[(n + 1) - 1] \o s
    <2>1. n + 1 \in 1..n+1
      BY <1>1
    <2>2. QED
      BY <1>1, <1>2, <2>1, Zenon DEF Flattens
  <1>4. CASE n = 0
    <2>1. seqs = <<>>
      BY <1>4, EmptySeq
    <2>2. <<>> \o s = s
      BY ConcatEmptySeq
    <2>3. QED
      BY <1>2, <1>3, <1>4, <2>1, <2>2, FlattenEmpty DEF more
  <1>5. CASE n # 0
    <2>1. PICK f : Flattens(f, seqs, n) /\ FlattenSeq(seqs) = f[n]
      BY <1>1, <1>5, FlattenSeqFlattens
    <2>2. SameUpTo(f, g, n)
      <3>1. n \in Nat /\ n + 1 \in Nat /\ n <= n + 1
        BY <1>1
      <3>2. SameUpTo(seqs, more, n)
        BY <1>1 DEF SameUpTo
      <3> HIDE DEF n
      <3>3. Flattens(f, seqs, n) /\ Flattens(g, more, n + 1)
        BY <1>2, <2>1
      <3>4. QED
        BY <3>1, <3>2, <3>3, FlattensUnique
    <2>3. g[n+1] = g[n] \o s /\ n \in 1..n
      BY <1>1, <1>3, <1>5
    <2>4. QED
      BY <1>2, <2>1, <2>2, <2>3 DEF more, SameUpTo
  <1>6. QED
    BY <1>4, <1>5

LEMMA FlattenOne ==
  ASSUME NEW S, NEW s \in Seq(S)
  PROVE  FlattenSeq(<<s>>) = s
  <1>1. <<>> \in Seq(Seq(S)) /\ Append(<<>>, s) = <<s>> /\ <<>> \o s = s
    BY EmptySeq, ConcatEmptySeq
  <1>2. QED
    BY <1>1, FlattenAppend, FlattenEmpty

LEMMA FlattenType ==
  ASSUME NEW S, NEW seqs \in Seq(Seq(S))
  PROVE  FlattenSeq(seqs) \in Seq(S)
  <1> DEFINE T == {s \in Seq(Seq(S)) : FlattenSeq(s) \in Seq(S)}
  <1>1. <<>> \in T
    BY FlattenEmpty, EmptySeq
  <1>2. ASSUME NEW s \in Seq(Seq(S)), NEW e \in Seq(S), s \in T
        PROVE  Append(s, e) \in T
    <2>1. Append(s, e) \in Seq(Seq(S))
      BY AppendProperties
    <2>2. FlattenSeq(Append(s, e)) = FlattenSeq(s) \o e
      BY FlattenAppend
    <2>3. FlattenSeq(s) \o e \in Seq(S)
      BY <1>2, ConcatProperties
    <2>4. QED
      BY <2>1, <2>2, <2>3
  <1> HIDE DEF T
  <1>3. Seq(Seq(S)) \subseteq T
    BY <1>1, <1>2, SequenceInduction
  <1>4. QED
    BY <1>3 DEF T

LEMMA FlattenConcat ==
  ASSUME NEW S, NEW a \in Seq(Seq(S)), NEW b \in Seq(Seq(S))
  PROVE  FlattenSeq(a \o b) = FlattenSeq(a) \o FlattenSeq(b)
  <1> DEFINE T == {s \in Seq(Seq(S)) : FlattenSeq(a \o s) = FlattenSeq(a) \o FlattenSeq(s)}
  <1>1. <<>> \in T
    <2>1. FlattenSeq(a) \in Seq(S)
      BY FlattenType
    <2>2. a \o <<>> = a /\ FlattenSeq(a) \o <<>> = FlattenSeq(a)
      BY <2>1, ConcatEmptySeq
    <2>3. QED
      BY <2>2, FlattenEmpty, EmptySeq
  <1>2. ASSUME NEW s \in Seq(Seq(S)), NEW e \in Seq(S), s \in T
        PROVE  Append(s, e) \in T
    <2>1. Append(s, e) \in Seq(Seq(S)) /\ a \o s \in Seq(Seq(S))
      BY AppendProperties, ConcatProperties
    <2>2. a \o Append(s, e) = Append(a \o s, e)
      <3>1. /\ Append(s, e) = s \o <<e>> /\ Append(a \o s, e) = (a \o s) \o <<e>>
        BY <2>1, AppendIsConcat
      <3>2. <<e>> \in Seq(Seq(S))
        OBVIOUS
      <3>3. QED
        BY <3>1, <3>2, ConcatAssociative
    <2>3. FlattenSeq(Append(a \o s, e)) = FlattenSeq(a \o s) \o e
      BY <2>1, FlattenAppend
    <2>4. FlattenSeq(Append(s, e)) = FlattenSeq(s) \o e
      BY FlattenAppend
    <2>5. FlattenSeq(a) \in Seq(S) /\ FlattenSeq(s) \in Seq(S)
      BY FlattenType
    <2>6. (FlattenSeq(a) \o FlattenSeq(s)) \o e = FlattenSeq(a) \o (FlattenSeq(s) \o e)
      BY <2>5, ConcatAssociative
    <2>7. FlattenSeq(a \o s) = FlattenSeq(a) \o FlattenSeq(s)
      BY <1>2
    <2>8. QED
      BY <2>1, <2>2, <2>3, <2>4, <2>6, <2>7
  <1> HIDE DEF T
  <1>3. Seq(Seq(S)) \subseteq T
    BY <1>1, <1>2, SequenceInduction
  <1>4. QED
    BY <1>3 DEF T

-----------------------------------------------------------------------------
(* Texts that are made element by element.                                  *)

LEMMA FunctionIsSeq ==
  ASSUME NEW S, NEW n \in Nat, NEW f \in [1..n -> S]
  PROVE  f \in Seq(S) /\ Len(f) = n
  <1>1. f \in Seq(S)
    BY SeqDef
  <1>2. DOMAIN f = 1..n /\ DOMAIN f = 1..Len(f) /\ Len(f) \in Nat
    BY <1>1, LenProperties
  <1>3. QED
    BY <1>1, <1>2

\* h makes a sequence of elements of T of each element of S.
Makes(h, S, T) == h \in [S -> Seq(T)]

\* What h makes of each element.
Each(s, h) == [k \in DOMAIN s |-> h[s[k]]]

LEMMA EachType ==
  ASSUME NEW S, NEW T, NEW h, Makes(h, S, T), NEW s \in Seq(S)
  PROVE  /\ Each(s, h) \in Seq(Seq(T)) /\ Len(Each(s, h)) = Len(s)
         /\ \A k \in 1..Len(s) : Each(s, h)[k] = h[s[k]]
         /\ FlattenSeq(Each(s, h)) \in Seq(T)
  <1>1. Len(s) \in Nat /\ DOMAIN s = 1..Len(s) /\ \A k \in 1..Len(s) : s[k] \in S
    BY LenProperties, ElementOfSeq
  <1>2. /\ Each(s, h) = [k \in 1..Len(s) |-> h[s[k]]]
        /\ \A k \in 1..Len(s) : Each(s, h)[k] = h[s[k]] /\ h[s[k]] \in Seq(T)
    BY <1>1 DEF Each, Makes
  <1>3. Each(s, h) \in [1..Len(s) -> Seq(T)]
    BY <1>2
  <1>4. Each(s, h) \in Seq(Seq(T)) /\ Len(Each(s, h)) = Len(s)
    BY <1>1, <1>3, FunctionIsSeq
  <1>6. QED
    BY <1>2, <1>4, FlattenType

LEMMA EachConcat ==
  ASSUME NEW S, NEW T, NEW h, Makes(h, S, T)
  PROVE  \A a, b \in Seq(S) :
           FlattenSeq(Each(a \o b, h)) = FlattenSeq(Each(a, h)) \o FlattenSeq(Each(b, h))
  <1>1. \A s \in Seq(S) : /\ Each(s, h) \in Seq(Seq(T)) /\ Len(Each(s, h)) = Len(s)
                           /\ \A k \in 1..Len(s) : Each(s, h)[k] = h[s[k]]
    BY EachType
  <1> TAKE a, b \in Seq(S)
  <1>2. a \o b \in Seq(S) /\ Len(a \o b) = Len(a) + Len(b) /\ Len(a) \in Nat /\ Len(b) \in Nat
        /\ \A k \in 1..Len(a)+Len(b) : (a \o b)[k] = IF k <= Len(a) THEN a[k] ELSE b[k - Len(a)]
    BY ConcatProperties, LenProperties
  <1>3. Each(a, h) \in Seq(Seq(T)) /\ Len(Each(a, h)) = Len(a)
        /\ \A k \in 1..Len(a) : Each(a, h)[k] = h[a[k]]
    BY <1>1
  <1>4. Each(b, h) \in Seq(Seq(T)) /\ Len(Each(b, h)) = Len(b)
        /\ \A k \in 1..Len(b) : Each(b, h)[k] = h[b[k]]
    BY <1>1
  <1> DEFINE ab   == a \o b
             eab  == Each(ab, h)
             ea   == Each(a, h)
             eb   == Each(b, h)
             both == ea \o eb
  <1>5. eab \in Seq(Seq(T)) /\ Len(eab) = Len(a) + Len(b)
        /\ \A k \in 1..Len(a)+Len(b) : eab[k] = h[ab[k]]
    <2>1. ab \in Seq(S) /\ Len(ab) = Len(a) + Len(b)
      BY <1>2
    <2> HIDE DEF ab
    <2>3. eab \in Seq(Seq(T)) /\ Len(eab) = Len(ab) /\ \A k \in 1..Len(ab) : eab[k] = h[ab[k]]
      BY <1>1, <2>1
    <2>2. QED
      BY <2>1, <2>3
  <1>6. both \in Seq(Seq(T)) /\ Len(both) = Len(a) + Len(b)
        /\ \A k \in 1..Len(a)+Len(b) : both[k] = IF k <= Len(a) THEN ea[k] ELSE eb[k - Len(a)]
    <2>1. ea \in Seq(Seq(T)) /\ eb \in Seq(Seq(T)) /\ Len(ea) = Len(a) /\ Len(eb) = Len(b)
      BY <1>3, <1>4
    <2>2. \A p, q \in Seq(Seq(T)) :
             /\ p \o q \in Seq(Seq(T)) /\ Len(p \o q) = Len(p) + Len(q)
             /\ \A k \in 1..Len(p)+Len(q) :
                  (p \o q)[k] = IF k <= Len(p) THEN p[k] ELSE q[k - Len(p)]
      BY ConcatProperties
    <2> HIDE DEF ea, eb
    <2>3. /\ both \in Seq(Seq(T)) /\ Len(both) = Len(ea) + Len(eb)
          /\ \A k \in 1..Len(ea)+Len(eb) : both[k] = IF k <= Len(ea) THEN ea[k] ELSE eb[k - Len(ea)]
      BY <2>1, <2>2
    <2> HIDE DEF both
    <2>4. QED
      BY <2>1, <2>3
  <1>7. \A k \in 1..Len(a) : ea[k] = h[a[k]]
    BY <1>3
  <1>8. \A k \in 1..Len(b) : eb[k] = h[b[k]]
    BY <1>4
  <1>9. ea \in Seq(Seq(T)) /\ eb \in Seq(Seq(T))
    BY <1>3, <1>4
  <1> HIDE DEF eab, both, ea, eb
  <1>10. ASSUME NEW k \in 1..Len(a)+Len(b)
        PROVE  eab[k] = both[k]
    <2>1. CASE k <= Len(a)
      <3>1. k \in 1..Len(a)
        BY <1>2, <2>1
      <3>2. both[k] = h[a[k]]
        BY <1>2, <1>6, <1>7, <2>1, <3>1
      <3>3. eab[k] = h[a[k]]
        BY <1>2, <1>5, <2>1
      <3>4. QED
        BY <3>2, <3>3
    <2>2. CASE ~(k <= Len(a))
      <3>1. k - Len(a) \in 1..Len(b)
        BY <1>2, <2>2
      <3>2. both[k] = h[b[k - Len(a)]]
        BY <1>2, <1>6, <1>8, <2>2, <3>1
      <3>3. eab[k] = h[b[k - Len(a)]]
        BY <1>2, <1>5, <2>2
      <3>4. QED
        BY <3>2, <3>3
    <2>3. QED
      BY <2>1, <2>2
  <1>11. eab = both
    BY <1>5, <1>6, <1>10, SeqEqual
  <1>12. QED
    BY <1>11, <1>9, FlattenConcat DEF eab, both, ea, eb, ab

LEMMA EachOne ==
  ASSUME NEW S, NEW T, NEW h, Makes(h, S, T)
  PROVE  /\ FlattenSeq(Each(<<>>, h)) = <<>>
         /\ \A x \in S : FlattenSeq(Each(<<x>>, h)) = h[x]
  <1>1. Each(<<>>, h) = <<>>
    BY DEF Each
  <1>2. ASSUME NEW x \in S
        PROVE  FlattenSeq(Each(<<x>>, h)) = h[x]
    <2>1. Each(<<x>>, h) = <<h[x]>>
      BY DEF Each
    <2>2. h[x] \in Seq(T)
      BY DEF Makes
    <2>3. QED
      BY <2>1, <2>2, FlattenOne
  <1>3. QED
    BY <1>1, <1>2, FlattenEmpty

\* Where h makes nothing of any element ...
LEMMA EachNothing ==
  ASSUME NEW S, NEW T, NEW h, Makes(h, S, T), NEW s \in Seq(S),
         \A k \in 1..Len(s) : h[s[k]] = <<>>
  PROVE  FlattenSeq(Each(s, h)) = <<>>
  <1> DEFINE X == {x \in S : h[x] = <<>>}
             g == [x \in X |-> <<>>]
             Y == {t \in Seq(X) : FlattenSeq(Each(t, h)) = <<>>}
  <1>1. <<>> \in Y
    BY EachOne, EmptySeq
  <1>2. ASSUME NEW t \in Seq(X), NEW e \in X, t \in Y
        PROVE  Append(t, e) \in Y
    <2>1. t \in Seq(S) /\ e \in S /\ h[e] = <<>> /\ FlattenSeq(Each(t, h)) = <<>>
      <3>1. X \subseteq S
        OBVIOUS
      <3>2. QED
        BY <1>2, <3>1, SeqMonotonic
    <2>2. Append(t, e) = t \o <<e>> /\ Append(t, e) \in Seq(X) /\ <<e>> \in Seq(S)
      BY AppendIsConcat, AppendProperties, <2>1
    <2>3. FlattenSeq(Each(<<e>>, h)) = <<>>
      BY <2>1, EachOne
    <2>4. FlattenSeq(Each(t \o <<e>>, h)) = FlattenSeq(Each(t, h)) \o FlattenSeq(Each(<<e>>, h))
      <3>1. \A a, b \in Seq(S) :
              FlattenSeq(Each(a \o b, h)) = FlattenSeq(Each(a, h)) \o FlattenSeq(Each(b, h))
        BY EachConcat
      <3>2. QED
        BY <2>1, <2>2, <3>1
    <2>5. QED
      BY <2>1, <2>2, <2>3, <2>4, EmptySeq, ConcatEmptySeq
  <1> HIDE DEF Y
  <1>3. Seq(X) \subseteq Y
    BY <1>1, <1>2, SequenceInduction
  <1>4. s \in Seq(X)
    <2>1. Len(s) \in Nat /\ s \in [1..Len(s) -> S]
      BY LenProperties
    <2>2. s \in [1..Len(s) -> X]
      BY <2>1
    <2> HIDE DEF X
    <2>3. QED
      BY <2>1, <2>2, FunctionIsSeq
  <1>5. QED
    BY <1>3, <1>4 DEF Y

\* ... and where it makes the element itself of each.
LEMMA EachItself ==
  ASSUME NEW S, NEW h, Makes(h, S, S), NEW s \in Seq(S),
         \A k \in 1..Len(s) : h[s[k]] = <<s[k]>>
  PROVE  FlattenSeq(Each(s, h)) = s
  <1> DEFINE X == {x \in S : h[x] = <<x>>}
             Y == {t \in Seq(X) : FlattenSeq(Each(t, h)) = t}
  <1>1. <<>> \in Y
    BY EachOne, EmptySeq
  <1>2. ASSUME NEW t \in Seq(X), NEW e \in X, t \in Y
        PROVE  Append(t, e) \in Y
    <2>1. t \in Seq(S) /\ e \in S /\ h[e] = <<e>> /\ FlattenSeq(Each(t, h)) = t
      <3>1. X \subseteq S
        OBVIOUS
      <3>2. QED
        BY <1>2, <3>1, SeqMonotonic
    <2>2. Append(t, e) = t \o <<e>> /\ Append(t, e) \in Seq(X) /\ <<e>> \in Seq(S)
      BY AppendIsConcat, AppendProperties, <2>1
    <2>3. FlattenSeq(Each(<<e>>, h)) = <<e>>
      BY <2>1, EachOne
    <2>4. FlattenSeq(Each(t \o <<e>>, h)) = FlattenSeq(Each(t, h)) \o FlattenSeq(Each(<<e>>, h))
      <3>1. \A a, b \in Seq(S) :
              FlattenSeq(Each(a \o b, h)) = FlattenSeq(Each(a, h)) \o FlattenSeq(Each(b, h))
        BY EachConcat
      <3>2. QED
        BY <2>1, <2>2, <3>1
    <2>5. QED
      BY <2>1, <2>2, <2>3, <2>4
  <1> HIDE DEF Y
  <1>3. Seq(X) \subseteq Y
    BY <1>1, <1>2, SequenceInduction
  <1>4. s \in Seq(X)
    <2>1. Len(s) \in Nat /\ s \in [1..Len(s) -> S] /\ \A k \in 1..Len(s) : s[k] \in S
      BY LenProperties
    <2>2. s \in [1..Len(s) -> X]
      BY <2>1
    <2> HIDE DEF X
    <2>3. QED
      BY <2>1, <2>2, FunctionIsSeq
  <1>5. QED
    BY <1>3, <1>4 DEF Y

\* The function behind Without().
Drops(S, X) == [c \in S |-> IF c \in X THEN <<>> ELSE <<c>>]

LEMMA WithoutEach ==
  ASSUME NEW S, NEW X
  PROVE  /\ Makes(Drops(S, X), S, S)
         /\ \A s \in Seq(S) : Without(s, X) = FlattenSeq(Each(s, Drops(S, X)))
  <1>1. Makes(Drops(S, X), S, S)
    BY EmptySeq DEF Drops, Makes
  <1>2. ASSUME NEW s \in Seq(S)
        PROVE  Without(s, X) = FlattenSeq(Each(s, Drops(S, X)))
    <2>1. \A k \in DOMAIN s : s[k] \in S
      BY LenProperties, ElementOfSeq
    <2>2. [k \in DOMAIN s |-> IF s[k] \in X THEN <<>> ELSE <<s[k]>>] = Each(s, Drops(S, X))
      BY <2>1 DEF Each, Drops
    <2>3. QED
      BY <2>2 DEF Without
  <1>3. QED
    BY <1>1, <1>2

LEMMA WithoutType ==
  ASSUME NEW S, NEW X, NEW s \in Seq(S)
  PROVE  Without(s, X) \in Seq(S)
  <1>1. Makes(Drops(S, X), S, S) /\ Without(s, X) = FlattenSeq(Each(s, Drops(S, X)))
    BY WithoutEach
  <1>2. QED
    BY <1>1, EachType

LEMMA WithoutConcat ==
  ASSUME NEW S, NEW X, NEW a \in Seq(S), NEW b \in Seq(S)
  PROVE  Without(a \o b, X) = Without(a, X) \o Without(b, X)
  <1>1. a \o b \in Seq(S)
    BY ConcatProperties
  <1> DEFINE h == Drops(S, X)
  <1>2. /\ Makes(h, S, S) /\ Without(a, X) = FlattenSeq(Each(a, h))
        /\ Without(b, X) = FlattenSeq(Each(b, h))
        /\ Without(a \o b, X) = FlattenSeq(Each(a \o b, h))
    BY <1>1, WithoutEach
  <1> HIDE DEF h
  <1>3. \A p, q \in Seq(S) :
          FlattenSeq(Each(p \o q, h)) = FlattenSeq(Each(p, h)) \o FlattenSeq(Each(q, h))
    BY <1>2, EachConcat
  <1>4. QED
    BY <1>2, <1>3

LEMMA WithoutNone ==
  ASSUME NEW S, NEW X, NEW s \in Seq(S), \A k \in 1..Len(s) : s[k] \notin X
  PROVE  Without(s, X) = s
  <1>1. \A k \in 1..Len(s) : s[k] \in S
    BY ElementOfSeq
  <1>2. \A k \in 1..Len(s) : Drops(S, X)[s[k]] = <<s[k]>>
    BY <1>1 DEF Drops
  <1> DEFINE h == Drops(S, X)
  <1>3. Makes(h, S, S) /\ Without(s, X) = FlattenSeq(Each(s, h))
    BY WithoutEach
  <1> HIDE DEF h
  <1>4. QED
    BY <1>2, <1>3, EachItself DEF h

LEMMA WithoutAll ==
  ASSUME NEW S, NEW X, NEW s \in Seq(S), \A k \in 1..Len(s) : s[k] \in X
  PROVE  Without(s, X) = <<>>
  <1>1. \A k \in 1..Len(s) : s[k] \in S
    BY ElementOfSeq
  <1>2. \A k \in 1..Len(s) : Drops(S, X)[s[k]] = <<>>
    BY <1>1 DEF Drops
  <1> DEFINE h == Drops(S, X)
  <1>3. Makes(h, S, S) /\ Without(s, X) = FlattenSeq(Each(s, h))
    BY WithoutEach
  <1> HIDE DEF h
  <1>4. QED
    BY <1>2, <1>3, EachNothing DEF h

-----------------------------------------------------------------------------
(* Texts that are put together from the end.                                *)

\* A text that is put together from the end: to each position belong a piece and the
\* position of what follows.
Chains(f, piece, then, n) ==
  f = [k \in 1..n |-> IF then[k] \in k+1..n THEN piece[k] \o f[then[k]] ELSE piece[k]]

ChainsFrom(f, piece, then, m, n) ==
  f = [k \in m..n |-> IF then[k] \in k+1..n THEN piece[k] \o f[then[k]] ELSE piece[k]]

LEMMA ChainExists ==
  ASSUME NEW piece, NEW then, NEW n \in Nat
  PROVE  \E f : Chains(f, piece, then, n)
  <1> DEFINE T == {j \in Nat : j <= n => \E f : ChainsFrom(f, piece, then, n - j + 1, n)}
  <1>1. 0 \in T
    <2>1. ChainsFrom([k \in {} |-> {}], piece, then, n - 0 + 1, n)
      <3>1. (n - 0 + 1)..n = {}
        OBVIOUS
      <3>2. QED
        BY <3>1 DEF ChainsFrom
    <2>2. QED
      BY <2>1
  <1>2. ASSUME NEW j \in Nat, j \in T
        PROVE  j + 1 \in T
    <2> SUFFICES ASSUME j + 1 <= n
                 PROVE  \E f : ChainsFrom(f, piece, then, n - (j + 1) + 1, n)
      OBVIOUS
    <2> DEFINE m == n - j
    <2>1. m \in 1..n /\ n - j + 1 = m + 1 /\ n - (j + 1) + 1 = m
      OBVIOUS
    <2>2. PICK f : ChainsFrom(f, piece, then, m + 1, n)
      BY <1>2, <2>1
    <2> HIDE DEF m
    <2> DEFINE g == [k \in m..n |-> IF k # m THEN f[k]
                       ELSE IF then[k] \in k+1..n THEN piece[k] \o f[then[k]] ELSE piece[k]]
    <2>3. ChainsFrom(g, piece, then, m, n)
      <3>1. ASSUME NEW k \in m..n
            PROVE  g[k] = IF then[k] \in k+1..n THEN piece[k] \o g[then[k]] ELSE piece[k]
        <4>1. then[k] \in k+1..n => g[then[k]] = f[then[k]]
          <5>1. then[k] \in k+1..n => then[k] \in m..n /\ then[k] # m
            BY <2>1
          <5>2. QED
            BY <5>1
        <4>2. CASE k # m
          <5>1. k \in m+1..n /\ g[k] = f[k]
            BY <2>1, <4>2
          <5> HIDE DEF g
          <5>2. f[k] = IF then[k] \in k+1..n THEN piece[k] \o f[then[k]] ELSE piece[k]
            BY <2>2, <5>1, Zenon DEF ChainsFrom
          <5>3. QED
            BY <4>1, <5>1, <5>2
        <4>3. CASE k = m
          <5>1. g[k] = IF then[k] \in k+1..n THEN piece[k] \o f[then[k]] ELSE piece[k]
            BY <4>3
          <5> HIDE DEF g
          <5>2. QED
            BY <4>1, <5>1
        <4>4. QED
          BY <4>2, <4>3
      <3>2. g = [k \in m..n |-> g[k]]
        OBVIOUS
      <3> HIDE DEF g
      <3>3. QED
        BY <3>1, <3>2 DEF ChainsFrom
    <2>4. QED
      BY <2>1, <2>3
  <1> HIDE DEF T
  <1>3. n \in T
    BY <1>1, <1>2, Induction
  <1>4. PICK f : ChainsFrom(f, piece, then, n - n + 1, n)
    BY <1>3 DEF T
  <1>5. n - n + 1 = 1
    OBVIOUS
  <1>6. QED
    BY <1>4, <1>5 DEF ChainsFrom, Chains

LEMMA ChainType ==
  ASSUME NEW S, NEW n \in Nat, NEW piece, NEW then, NEW f, Chains(f, piece, then, n),
         \A k \in 1..n : piece[k] \in Seq(S)
  PROVE  \A k \in 1..n : f[k] \in Seq(S)
  <1> DEFINE T == {j \in Nat : \A k \in 1..n : k > n - j => f[k] \in Seq(S)}
  <1>1. 0 \in T
    OBVIOUS
  <1>2. ASSUME NEW j \in Nat, j \in T
        PROVE  j + 1 \in T
    <2> SUFFICES ASSUME NEW k \in 1..n, k > n - (j + 1) PROVE f[k] \in Seq(S)
      OBVIOUS
    <2>1. f[k] = IF then[k] \in k+1..n THEN piece[k] \o f[then[k]] ELSE piece[k]
      BY Zenon DEF Chains
    <2>2. CASE then[k] \in k+1..n
      <3>1. then[k] \in 1..n /\ then[k] > n - j
        BY <2>2
      <3>2. f[then[k]] \in Seq(S)
        BY <1>2, <3>1
      <3>3. QED
        BY <2>1, <2>2, <3>2, ConcatProperties
    <2>3. QED
      BY <2>1, <2>2
  <1> HIDE DEF T
  <1>3. n \in T
    BY <1>1, <1>2, Induction
  <1>4. \A k \in 1..n : k > n - n
    OBVIOUS
  <1>5. QED
    BY <1>3, <1>4 DEF T

-----------------------------------------------------------------------------
(* What the conversions return is a text again.                             *)

LEMMA SubSeqText ==
  ASSUME NEW s \in Seq(Char), NEW k \in 1..Len(s)+1, NEW e \in k..Len(s)+1
  PROVE  SubSeq(s, k, e - 1) \in Seq(Char)
  <1>1. Len(s) \in Nat
    BY LenProperties
  <1> DEFINE d == e - 1
  <1>2. d \in k-1..Len(s)
    BY <1>1
  <1> HIDE DEF d
  <1>3. SubSeq(s, k, d) \in Seq(Char)
    BY <1>2, SubSeqProperties
  <1>4. QED
    BY <1>3 DEF d

LEMMA RemoveQuotesType ==
  ASSUME NEW s \in Seq(Char)
  PROVE  remove_quotes(s) \in Seq(Char) /\ remove_single_quotes(s) \in Seq(Char)
  <1>1. \A X : Without(s, X) \in Seq(Char)
    BY WithoutType
  <1>2. QED
    BY <1>1 DEF remove_quotes, remove_single_quotes, WithoutPaired

LEMMA RemoveBackslashesType ==
  ASSUME NEW s \in Seq(Char)
  PROVE  remove_backslashes(s) \in Seq(Char)
  <1> DEFINE n == Len(s) + 2
             protects(k) == s[k] = "\\" /\ k < Len(s) /\ s[k+1] \in {DoubleQuote, "\\", "$"}
             piece == [k \in 1..n |-> IF k > Len(s) THEN <<>>
                                      ELSE IF protects(k) THEN <<s[k+1]>> ELSE <<s[k]>>]
             then == [k \in 1..n |-> IF k > Len(s) THEN 0
                                     ELSE IF protects(k) THEN k + 2 ELSE k + 1]
             Is(f) == f = [k \in 1..Len(s)+2 |->
                        IF k > Len(s) THEN <<>>
                        ELSE IF s[k] = "\\" /\ k < Len(s) /\ s[k+1] \in {DoubleQuote, "\\", "$"}
                             THEN <<s[k+1]>> \o f[k+2]
                             ELSE <<s[k]>> \o f[k+1]]
  <1>1. Len(s) \in Nat /\ n \in Nat /\ \A k \in 1..Len(s) : s[k] \in Char
    BY LenProperties, ElementOfSeq
  <1>2. \A f : Chains(f, piece, then, n) <=> Is(f)
    <2> TAKE f
    <2>1. ASSUME NEW k \in 1..n
          PROVE  (IF then[k] \in k+1..n THEN piece[k] \o f[then[k]] ELSE piece[k])
                 = IF k > Len(s) THEN <<>>
                   ELSE IF protects(k) THEN <<s[k+1]>> \o f[k+2]
                        ELSE <<s[k]>> \o f[k+1]
      <3>1. CASE k > Len(s)
        <4>1. then[k] = 0 /\ piece[k] = <<>> /\ 0 \notin k+1..n
          BY <1>1, <3>1
        <4>2. QED
          BY <3>1, <4>1
      <3>2. CASE k <= Len(s) /\ protects(k)
        <4>1. then[k] = k + 2 /\ piece[k] = <<s[k+1]>> /\ k + 2 \in k+1..n /\ ~(k > Len(s))
          BY <1>1, <3>2
        <4>2. QED
          BY <3>2, <4>1
      <3>3. CASE k <= Len(s) /\ ~protects(k)
        <4>1. then[k] = k + 1 /\ piece[k] = <<s[k]>> /\ k + 1 \in k+1..n /\ ~(k > Len(s))
          BY <1>1, <3>3
        <4>2. QED
          BY <3>3, <4>1
      <3>4. QED
        BY <1>1, <3>1, <3>2, <3>3
    <2> HIDE DEF piece, then
    <2>2. QED
      BY <2>1 DEF Chains
  <1>3. \A k \in 1..n : piece[k] \in Seq(Char)
    <2> TAKE k \in 1..n
    <2>1. protects(k) => k + 1 \in 1..Len(s)
      BY <1>1
    <2>2. \/ piece[k] = <<>>
          \/ k \in 1..Len(s) /\ piece[k] = <<s[k]>>
          \/ k + 1 \in 1..Len(s) /\ piece[k] = <<s[k+1]>>
      BY <1>1, <2>1
    <2>3. <<>> \in Seq(Char) /\ \A c \in Char : <<c>> \in Seq(Char)
      BY EmptySeq
    <2> HIDE DEF piece
    <2>4. QED
      BY <1>1, <2>2, <2>3, Zenon
  <1> DEFINE from == CHOOSE f : Is(f)
  <1> HIDE DEF piece, then, n
  <1>4. \E f : Is(f)
    BY <1>1, <1>2, ChainExists
  <1>5. Chains(from, piece, then, n)
    BY <1>2, <1>4
  <1>6. remove_backslashes(s) = from[1]
    BY DEF remove_backslashes
  <1> HIDE DEF from
  <1>7. \A k \in 1..n : from[k] \in Seq(Char)
    BY <1>1, <1>3, <1>5, ChainType
  <1>8. 1 \in 1..n
    BY <1>1 DEF n
  <1>9. QED
    BY <1>6, <1>7, <1>8

LEMMA ExpandVariablesType ==
  ASSUME NEW s \in Seq(Char), NEW status \in StatusChoices(s)
  PROVE  expand_variables(s, status) \in Seq(Char)
  <1> DEFINE n == Len(s) + 1
             dollar(k) == EndOfRun(s, k, {"$"})
             piece == [k \in 1..n |->
                        IF dollar(k) >= Len(s) THEN SubSeq(s, k, Len(s))
                        ELSE SubSeq(s, k, dollar(k) - 1) \o get_env_value(s, dollar(k) + 1, status)]
             then == [k \in 1..n |->
                        IF dollar(k) >= Len(s) THEN 0 ELSE EndOfName(s, dollar(k) + 1)]
             Is(f) == f = [k \in 1..Len(s)+1 |->
                        LET d == EndOfRun(s, k, {"$"})
                        IN  IF d >= Len(s) THEN SubSeq(s, k, Len(s))
                            ELSE SubSeq(s, k, d - 1) \o get_env_value(s, d + 1, status)
                                   \o f[EndOfName(s, d + 1)]]
  <1>1. Len(s) \in Nat /\ n \in Nat /\ \A k \in 1..Len(s) : s[k] \in Char
    BY LenProperties, ElementOfSeq
  <1>2. ASSUME NEW k \in 1..n
        PROVE  /\ dollar(k) \in k..n
               /\ dollar(k) < Len(s) => s[dollar(k)] = "$" /\ dollar(k) + 1 \in 2..Len(s)
    <2>1. dollar(k) \in k..n /\ (dollar(k) = n \/ s[dollar(k)] \in {"$"})
      BY EndOfRunType, EndOfRunStops
    <2> HIDE DEF dollar
    <2>2. QED
      BY <1>1, <2>1
  <1>3. ASSUME NEW m \in 1..Len(s)
        PROVE  EndOfName(s, m) \in m..n
    <2>1. m \in 1..Len(s)+1
      BY <1>1
    <2>2. QED
      BY <2>1, EndOfRunType DEF EndOfName
  <1>4. ASSUME NEW d \in 1..Len(s), s[d] = "$", d + 1 \in 2..Len(s)
        PROVE  get_env_value(s, d + 1, status) \in Seq(Char)
    <2>1. CASE s[d+1] = "?"
      <3>1. status \in [{k \in 2..Len(s) : s[k-1] = "$" /\ s[k] = "?"} -> StatusText]
        BY DEF StatusChoices
      <3>2. d + 1 \in {k \in 2..Len(s) : s[k-1] = "$" /\ s[k] = "?"}
        BY <1>1, <1>4, <2>1
      <3>3. status[d+1] \in StatusText
        BY <3>1, <3>2
      <3>4. StatusText \subseteq Seq(NameChar) /\ NameChar \subseteq Char
        BY TextAssumption DEF Char
      <3>5. status[d+1] \in Seq(Char)
        BY <3>3, <3>4, SeqMonotonic
      <3>6. QED
        BY <2>1, <3>5 DEF get_env_value
    <2>2. CASE s[d+1] # "?"
      <3>1. \A name : getenv(name) \in Seq(Char)
        BY TextAssumption, EmptySeq DEF getenv
      <3>2. QED
        BY <2>2, <3>1 DEF get_env_value
    <2>3. QED
      BY <2>1, <2>2
  <1>5. \A k \in 1..n : piece[k] \in Seq(Char)
    <2> TAKE k \in 1..n
    <2>1. CASE dollar(k) >= Len(s)
      <3> DEFINE e == Len(s) + 1
      <3>1. e \in k..Len(s)+1 /\ k \in 1..Len(s)+1 /\ e - 1 = Len(s)
        BY <1>1
      <3> HIDE DEF e
      <3>2. SubSeq(s, k, e - 1) \in Seq(Char)
        BY <3>1, SubSeqText
      <3>3. QED
        BY <2>1, <3>1, <3>2
    <2>2. CASE ~(dollar(k) >= Len(s))
      <3> DEFINE d == dollar(k)
      <3>1. d \in k..n /\ s[d] = "$" /\ d + 1 \in 2..Len(s) /\ d \in 1..Len(s)
        BY <1>1, <1>2, <2>2
      <3>2. piece[k] = SubSeq(s, k, d - 1) \o get_env_value(s, d + 1, status)
        BY <2>2
      <3> HIDE DEF d, piece
      <3>3. SubSeq(s, k, d - 1) \in Seq(Char)
        BY <3>1, SubSeqText
      <3>4. get_env_value(s, d + 1, status) \in Seq(Char)
        BY <1>4, <3>1
      <3>5. QED
        BY <3>2, <3>3, <3>4, ConcatProperties
    <2>3. QED
      BY <2>1, <2>2
  <1>6. \A f : Chains(f, piece, then, n) <=> Is(f)
    <2> TAKE f
    <2>1. ASSUME NEW k \in 1..n
          PROVE  (IF then[k] \in k+1..n THEN piece[k] \o f[then[k]] ELSE piece[k])
                 = IF dollar(k) >= Len(s) THEN SubSeq(s, k, Len(s))
                   ELSE SubSeq(s, k, dollar(k) - 1) \o get_env_value(s, dollar(k) + 1, status)
                          \o f[EndOfName(s, dollar(k) + 1)]
      <3>1. CASE dollar(k) >= Len(s)
        <4>1. then[k] = 0 /\ piece[k] = SubSeq(s, k, Len(s)) /\ 0 \notin k+1..n
          BY <1>1, <3>1
        <4>2. QED
          BY <3>1, <4>1
      <3>2. CASE ~(dollar(k) >= Len(s))
        <4> DEFINE d == dollar(k)
                   e == EndOfName(s, d + 1)
        <4>1. /\ then[k] = e
              /\ piece[k] = SubSeq(s, k, d - 1) \o get_env_value(s, d + 1, status)
          BY <3>2
        <4>2. d \in k..n /\ d + 1 \in 1..Len(s) /\ ~(d >= Len(s))
          BY <1>1, <1>2, <3>2
        <4> HIDE DEF d
        <4>3. e \in d+1..n
          BY <1>3, <4>2
        <4> HIDE DEF e, piece, then
        <4>4. e \in k+1..n
          BY <1>1, <4>2, <4>3
        <4>5. (IF then[k] \in k+1..n THEN piece[k] \o f[then[k]] ELSE piece[k])
              = SubSeq(s, k, d - 1) \o get_env_value(s, d + 1, status) \o f[e]
          BY <4>1, <4>4
        <4>6. QED
          BY <3>2, <4>5 DEF d, e
      <3>3. QED
        BY <3>1, <3>2
    <2>2. ASSUME Chains(f, piece, then, n)
          PROVE  Is(f)
      <3>1. f = [k \in 1..n |-> IF then[k] \in k+1..n THEN piece[k] \o f[then[k]] ELSE piece[k]]
        BY <2>2 DEF Chains
      <3> HIDE DEF piece, then, dollar
      <3>2. f = [k \in 1..n |->
                  IF dollar(k) >= Len(s) THEN SubSeq(s, k, Len(s))
                  ELSE SubSeq(s, k, dollar(k) - 1) \o get_env_value(s, dollar(k) + 1, status)
                         \o f[EndOfName(s, dollar(k) + 1)]]
        BY <2>1, <3>1, Zenon
      <3>3. QED
        BY <3>2 DEF dollar
    <2>3. ASSUME Is(f)
          PROVE  Chains(f, piece, then, n)
      <3>1. f = [k \in 1..n |->
                  IF dollar(k) >= Len(s) THEN SubSeq(s, k, Len(s))
                  ELSE SubSeq(s, k, dollar(k) - 1) \o get_env_value(s, dollar(k) + 1, status)
                         \o f[EndOfName(s, dollar(k) + 1)]]
        BY <2>3
      <3> HIDE DEF piece, then, dollar
      <3>2. f = [k \in 1..n |-> IF then[k] \in k+1..n THEN piece[k] \o f[then[k]] ELSE piece[k]]
        BY <2>1, <3>1, Zenon
      <3>3. QED
        BY <3>2 DEF Chains
    <2>4. QED
      BY <2>2, <2>3
  <1> DEFINE from == CHOOSE f : Is(f)
  <1> HIDE DEF piece, then, n, dollar
  <1>7. \E f : Is(f)
    <2>1. \E f : Chains(f, piece, then, n)
      BY <1>1, ChainExists
    <2> HIDE DEF Is
    <2>2. QED
      BY <1>6, <2>1
  <1>8. Chains(from, piece, then, n)
    <2> HIDE DEF Is
    <2>1. QED
      BY <1>6, <1>7
  <1>9. expand_variables(s, status) = remove_quotes(from[1])
    BY DEF expand_variables
  <1> HIDE DEF from
  <1>10. \A k \in 1..n : from[k] \in Seq(Char)
    BY <1>1, <1>5, <1>8, ChainType
  <1>11. 1 \in 1..n
    BY <1>1 DEF n
  <1>12. QED
    BY <1>9, <1>10, <1>11, RemoveQuotesType

\* Every part of a value that is split is a text.
LEMMA SplitType ==
  ASSUME NEW s \in Seq(Char)
  PROVE  \A k \in 1..Cardinality(PartStarts(s)) : ft_splitD(s)[k] \in Seq(Char)
  <1> DEFINE S == PartStarts(s)
  <1>1. Len(s) \in Nat
    BY LenProperties
  <1>2. S \subseteq 1..Len(s)
    BY LenProperties DEF PartStarts
  <1>3. Dense(S)
    BY <1>1, <1>2, RanksExist
  <1>4. ASSUME NEW k \in 1..Cardinality(S)
        PROVE  Part(s, k) \in Seq(Char)
    <2> DEFINE start == CHOOSE m \in S : Cardinality({n \in S : n <= m}) = k
    <2>1. \E m \in S : Cardinality({n \in S : n <= m}) = k
      BY <1>3 DEF Dense, Rank
    <2>2. start \in S
      BY <2>1
    <2>3. Part(s, k) = SubSeq(s, start, EndOfRun(s, start, Blank) - 1)
      BY DEF Part
    <2> HIDE DEF start
    <2>4. start \in 1..Len(s)+1
      BY <1>1, <1>2, <2>2
    <2>5. EndOfRun(s, start, Blank) \in start..Len(s)+1
      BY <2>4, EndOfRunType
    <2> DEFINE e == EndOfRun(s, start, Blank)
    <2> HIDE DEF e
    <2>6. e \in start..Len(s)+1 /\ Part(s, k) = SubSeq(s, start, e - 1)
      BY <2>3, <2>5 DEF e
    <2>7. QED
      BY <2>4, <2>6, SubSeqText
  <1>5. QED
    BY <1>4 DEF ft_splitD

-----------------------------------------------------------------------------
(* One element in the place of two.                                         *)

\* The sequence with x in the place of two neighbours.
Joined(s, c, x) ==
  [k \in 1..Len(s)-1 |-> CASE k < c -> s[k] [] k = c -> x [] k > c -> s[k+1]]

Surrounds(S, s, t, c, x) ==
  \E pre, post \in Seq(S) :
     /\ s = (pre \o (<<s[c]>> \o <<s[c+1]>>)) \o post
     /\ t = (pre \o <<x>>) \o post
     /\ t \in Seq(S)

\* A sequence around two neighbours, and with one element in their place.
LEMMA Around ==
  ASSUME NEW S, NEW s \in Seq(S), NEW c \in 1..Len(s)-1, NEW x \in S, NEW t,
         t = Joined(s, c, x)
  PROVE  Surrounds(S, s, t, c, x)
  <1> DEFINE n == Len(s)
             p == c - 1
             q == n - (c + 1)
             pre == [k \in 1..p |-> s[k]]
             post == [k \in 1..q |-> s[k+(c+1)]]
  <1>1. n \in Nat /\ c \in Nat /\ p \in Nat /\ q \in Nat /\ c + 1 \in 1..n
        /\ n - 1 \in Nat /\ \A k \in 1..n : s[k] \in S
    BY LenProperties, ElementOfSeq
  <1>2. pre \in Seq(S) /\ Len(pre) = p
    <2>1. pre \in [1..p -> S]
      BY <1>1
    <2> HIDE DEF pre, p
    <2>2. QED
      BY <1>1, <2>1, FunctionIsSeq
  <1>3. post \in Seq(S) /\ Len(post) = q
    <2>1. \A k \in 1..q : k + (c + 1) \in 1..n
      BY <1>1
    <2>2. post \in [1..q -> S]
      BY <1>1, <2>1
    <2> HIDE DEF post, q
    <2>3. QED
      BY <1>1, <2>2, FunctionIsSeq
  <1>4. t \in Seq(S) /\ Len(t) = n - 1
    <2>1. /\ \A k \in 1..n-1 : k \in 1..n /\ k + 1 \in 1..n
          /\ t = [k \in 1..n-1 |-> CASE k < c -> s[k] [] k = c -> x [] k > c -> s[k+1]]
      BY <1>1 DEF Joined
    <2>2. ASSUME NEW k \in 1..n-1
          PROVE  (CASE k < c -> s[k] [] k = c -> x [] k > c -> s[k+1]) \in S
      BY <1>1, <2>1
    <2>3. t \in [1..n-1 -> S]
      BY <2>1, <2>2
    <2> DEFINE m == n - 1
    <2> HIDE DEF m
    <2>4. m \in Nat /\ t \in [1..m -> S]
      BY <1>1, <2>3 DEF m
    <2>5. t \in Seq(S) /\ Len(t) = m
      BY <2>4, FunctionIsSeq
    <2>6. QED
      BY <2>5 DEF m
  <1>5. \A k \in 1..n-1 : t[k] = CASE k < c -> s[k] [] k = c -> x [] k > c -> s[k+1]
    BY DEF Joined
  <1>6. \A k \in 1..p : pre[k] = s[k]
    OBVIOUS
  <1>7. \A k \in 1..q : post[k] = s[k+(c+1)]
    OBVIOUS
  <1> HIDE DEF pre, post
  <1> DEFINE two == <<s[c]>> \o <<s[c+1]>>
             one == <<x>>
             s1 == pre \o two
             s2 == s1 \o post
             t1 == pre \o one
             t2 == t1 \o post
  <1>8. /\ two \in Seq(S) /\ Len(two) = 2 /\ two[1] = s[c] /\ two[2] = s[c+1]
        /\ one \in Seq(S) /\ Len(one) = 1 /\ one[1] = x
    <2>1. s[c] \in S /\ s[c+1] \in S
      BY <1>1
    <2> DEFINE a == <<s[c]>>
               b == <<s[c+1]>>
    <2>2. /\ a \in Seq(S) /\ b \in Seq(S) /\ Len(a) = 1 /\ Len(b) = 1
          /\ a[1] = s[c] /\ b[1] = s[c+1] /\ two = a \o b
      BY <2>1
    <2>3. one \in Seq(S) /\ Len(one) = 1 /\ one[1] = x
      OBVIOUS
    <2> HIDE DEF a, b, two, one
    <2>4. two \in Seq(S) /\ Len(two) = Len(a) + Len(b)
          /\ \A k \in 1..Len(a)+Len(b) : two[k] = IF k <= Len(a) THEN a[k] ELSE b[k - Len(a)]
      BY <2>2, ConcatProperties
    <2>5. two[1] = a[1] /\ two[2] = b[1]
      BY <2>2, <2>4
    <2>6. QED
      BY <2>2, <2>3, <2>4, <2>5
  <1> HIDE DEF two, one
  <1>19. \A u, v \in Seq(S) :
           /\ u \o v \in Seq(S) /\ Len(u \o v) = Len(u) + Len(v)
           /\ \A k \in 1..Len(u)+Len(v) :
                (u \o v)[k] = IF k <= Len(u) THEN u[k] ELSE v[k - Len(u)]
    BY ConcatProperties
  <1>13. p + 1 = c /\ p + 2 + q = n
    BY <1>1
  <1> HIDE DEF n, p, q
  <1>9. s1 \in Seq(S) /\ Len(s1) = p + 2
        /\ \A k \in 1..p+2 : s1[k] = IF k <= p THEN pre[k] ELSE two[k - p]
    <2>1. pre \in Seq(S) /\ two \in Seq(S)
      BY <1>2, <1>8
    <2>2. /\ s1 \in Seq(S) /\ Len(s1) = Len(pre) + Len(two)
          /\ \A k \in 1..Len(pre)+Len(two) :
               s1[k] = IF k <= Len(pre) THEN pre[k] ELSE two[k - Len(pre)]
      BY <1>19, <2>1
    <2> HIDE DEF s1
    <2>3. QED
      BY <1>2, <1>8, <2>2
  <1>10. t1 \in Seq(S) /\ Len(t1) = p + 1
        /\ \A k \in 1..p+1 : t1[k] = IF k <= p THEN pre[k] ELSE one[k - p]
    <2>1. pre \in Seq(S) /\ one \in Seq(S)
      BY <1>2, <1>8
    <2>2. /\ t1 \in Seq(S) /\ Len(t1) = Len(pre) + Len(one)
          /\ \A k \in 1..Len(pre)+Len(one) :
               t1[k] = IF k <= Len(pre) THEN pre[k] ELSE one[k - Len(pre)]
      BY <1>19, <2>1
    <2> HIDE DEF t1
    <2>3. QED
      BY <1>2, <1>8, <2>2
  <1> HIDE DEF s1, t1
  <1>11. s2 \in Seq(S) /\ Len(s2) = (p + 2) + q
        /\ \A k \in 1..(p + 2) + q : s2[k] = IF k <= p + 2 THEN s1[k] ELSE post[k - (p + 2)]
    <2>1. /\ s2 \in Seq(S) /\ Len(s2) = Len(s1) + Len(post)
          /\ \A k \in 1..Len(s1)+Len(post) :
               s2[k] = IF k <= Len(s1) THEN s1[k] ELSE post[k - Len(s1)]
      BY <1>3, <1>9, <1>19
    <2>2. QED
      BY <1>3, <1>9, <2>1
  <1>12. t2 \in Seq(S) /\ Len(t2) = (p + 1) + q
        /\ \A k \in 1..(p + 1) + q : t2[k] = IF k <= p + 1 THEN t1[k] ELSE post[k - (p + 1)]
    <2>1. /\ t2 \in Seq(S) /\ Len(t2) = Len(t1) + Len(post)
          /\ \A k \in 1..Len(t1)+Len(post) :
               t2[k] = IF k <= Len(t1) THEN t1[k] ELSE post[k - Len(t1)]
      BY <1>3, <1>10, <1>19
    <2>2. QED
      BY <1>3, <1>10, <2>1
  <1> HIDE DEF s2, t2
  <1>14. ASSUME NEW k \in 1..n
         PROVE  s2[k] = s[k]
    <2>1. CASE k <= p
      <3>1. k \in 1..p /\ k \in 1..p+2 /\ k <= p + 2 /\ k \in 1..(p+2)+q
        BY <1>1, <1>13, <2>1
      <3>2. QED
        BY <1>6, <1>9, <1>11, <2>1, <3>1
    <2>2. CASE k = c
      <3>1. k \in 1..p+2 /\ k <= p + 2 /\ ~(k <= p) /\ k - p = 1 /\ k \in 1..(p+2)+q
        BY <1>1, <1>13, <2>2
      <3>2. QED
        BY <1>8, <1>9, <1>11, <2>2, <3>1
    <2>3. CASE k = c + 1
      <3>1. k \in 1..p+2 /\ k <= p + 2 /\ ~(k <= p) /\ k - p = 2 /\ k \in 1..(p+2)+q
        BY <1>1, <1>13, <2>3
      <3>2. QED
        BY <1>8, <1>9, <1>11, <2>3, <3>1
    <2>4. CASE k > c + 1
      <3>1. /\ ~(k <= p + 2) /\ k \in 1..(p+2)+q /\ k - (p + 2) \in 1..q
            /\ k - (p + 2) + (c + 1) = k
        BY <1>1, <1>13, <2>4
      <3>2. s2[k] = post[k - (p + 2)]
        BY <1>11, <3>1
      <3>3. post[k - (p + 2)] = s[k]
        BY <1>7, <3>1
      <3>4. QED
        BY <3>2, <3>3
    <2>5. QED
      BY <1>1, <1>13, <2>1, <2>2, <2>3, <2>4
  <1>20. ASSUME NEW k \in 1..n-1
         PROVE  /\ k < c \/ k = c \/ k > c
                /\ k > c => /\ ~(k <= p + 1) /\ k \in 1..(p+1)+q /\ k - (p + 1) \in 1..q
                            /\ k - (p + 1) + (c + 1) = k + 1
    <2> SUFFICES ASSUME NEW N \in Nat, NEW C \in Nat, NEW P \in Nat, NEW Q \in Nat,
                        P + 1 = C, P + 2 + Q = N, NEW K \in 1..N-1
                 PROVE  /\ K < C \/ K = C \/ K > C
                        /\ K > C => /\ ~(K <= P + 1) /\ K \in 1..(P+1)+Q /\ K - (P + 1) \in 1..Q
                                    /\ K - (P + 1) + (C + 1) = K + 1
      BY <1>1, <1>13
    <2>1. QED
      OBVIOUS
  <1>15. ASSUME NEW k \in 1..n-1
         PROVE  t2[k] = t[k]
    <2>1. CASE k < c
      <3>1. k \in 1..p /\ k \in 1..p+1 /\ k <= p + 1 /\ k <= p /\ k \in 1..(p+1)+q
        BY <1>1, <1>13, <2>1
      <3>2. t2[k] = s[k]
        BY <1>6, <1>10, <1>12, <3>1
      <3>3. t[k] = s[k]
        BY <1>1, <1>5, <2>1
      <3>4. QED
        BY <3>2, <3>3
    <2>2. CASE k = c
      <3>1. k \in 1..p+1 /\ k <= p + 1 /\ ~(k <= p) /\ k - p = 1 /\ k \in 1..(p+1)+q
        BY <1>1, <1>13, <2>2
      <3>2. t2[k] = x
        BY <1>8, <1>10, <1>12, <3>1
      <3>3. t[k] = x
        BY <1>1, <1>5, <2>2
      <3>4. QED
        BY <3>2, <3>3
    <2>3. CASE k > c
      <3>1. /\ ~(k <= p + 1) /\ k \in 1..(p+1)+q /\ k - (p + 1) \in 1..q
            /\ k - (p + 1) + (c + 1) = k + 1
        BY <1>20, <2>3
      <3>2. t2[k] = post[k - (p + 1)]
        BY <1>12, <3>1
      <3>3. post[k - (p + 1)] = s[k+1]
        BY <1>7, <3>1
      <3>4. t[k] = s[k+1]
        BY <1>1, <1>5, <2>3
      <3>5. QED
        BY <3>2, <3>3, <3>4
    <2>4. QED
      BY <1>20, <2>1, <2>2, <2>3
  <1>16. s2 = s
    <2>0. Len(s) = n /\ Len(s) \in Nat
      BY <1>1 DEF n
    <2>1. s \in Seq(S) /\ s2 \in Seq(S) /\ Len(s2) = Len(s) /\ \A k \in 1..Len(s) : s2[k] = s[k]
      BY <1>11, <1>13, <1>14, <1>1, <2>0
    <2>2. QED
      BY <2>1, SeqEqual
  <1>17. t2 = t
    <2>0. (p + 1) + q = n - 1
      BY <1>1, <1>13
    <2>1. t2 \in Seq(S) /\ Len(t2) = Len(t) /\ \A k \in 1..Len(t) : t2[k] = t[k]
      BY <1>4, <1>12, <1>15, <2>0
    <2>2. QED
      BY <1>4, <2>1, SeqEqual
  <1>18. QED
    BY <1>2, <1>3, <1>4, <1>16, <1>17 DEF s2, s1, t2, t1, two, one, Surrounds

\* The two operators by names that no prover looks behind.
Cat(x, y) == x \o y
Made(x, h) == FlattenSeq(Each(x, h))

LEMMA MadeCat ==
  ASSUME NEW S, NEW T, NEW h, Makes(h, S, T)
  PROVE  \A x, y \in Seq(S) :
            Cat(x, y) \in Seq(S) /\ Made(Cat(x, y), h) = Cat(Made(x, h), Made(y, h))
  <1>1. \A x, y \in Seq(S) : x \o y \in Seq(S)
    BY ConcatProperties
  <1>2. \A a, b \in Seq(S) :
          FlattenSeq(Each(a \o b, h)) = FlattenSeq(Each(a, h)) \o FlattenSeq(Each(b, h))
    BY EachConcat
  <1>3. QED
    BY <1>1, <1>2, Zenon DEF Cat, Made

\* What stands between two sequences matters as far as something is made of it.
LEMMA SameBetween ==
  ASSUME NEW S, NEW T, NEW h, Makes(h, S, T), NEW p \in Seq(S), NEW q \in Seq(S),
         Made(p, h) = Made(q, h), NEW pre \in Seq(S), NEW post \in Seq(S)
  PROVE  Made(Cat(Cat(pre, p), post), h) = Made(Cat(Cat(pre, q), post), h)
  <1>1. \A x, y \in Seq(S) :
            Cat(x, y) \in Seq(S) /\ Made(Cat(x, y), h) = Cat(Made(x, h), Made(y, h))
    BY MadeCat
  <1>2. Made(Cat(pre, p), h) = Made(Cat(pre, q), h)
    BY <1>1
  <1>3. QED
    BY <1>1, <1>2

-----------------------------------------------------------------------------
(* Texts that are made position by position.                                *)

\* The text of the first m pieces.
Upto(piece, m) == FlattenSeq([k \in 1..m |-> piece[k]])

\* The first n pieces are sequences of elements of T.
Pieces(piece, n, T) == \A k \in 1..n : piece[k] \in Seq(T)

LEMMA UptoStarts == \A piece : Upto(piece, 0) = <<>>
  <1> TAKE piece
  <1>1. [k \in 1..0 |-> piece[k]] = <<>>
    OBVIOUS
  <1>2. QED
    BY <1>1, FlattenEmpty DEF Upto

LEMMA UptoStep ==
  ASSUME NEW T, NEW m \in Nat, NEW piece, \A k \in 1..m+1 : piece[k] \in Seq(T)
  PROVE  /\ Upto(piece, m) \in Seq(T)
         /\ Upto(piece, m + 1) = Upto(piece, m) \o piece[m + 1]
  <1> DEFINE n == m + 1
             a == [k \in 1..m |-> piece[k]]
             b == [k \in 1..n |-> piece[k]]
  <1>1. a \in Seq(Seq(T)) /\ Len(a) = m
    <2>1. \A k \in 1..m : k \in 1..m+1
      OBVIOUS
    <2>2. a \in [1..m -> Seq(T)]
      BY <2>1
    <2> HIDE DEF a
    <2>3. QED
      BY <2>2, FunctionIsSeq
  <1>2. b \in Seq(Seq(T)) /\ Len(b) = n /\ n \in Nat /\ piece[n] \in Seq(T)
    <2>1. b \in [1..n -> Seq(T)] /\ n \in Nat /\ n \in 1..m+1
      OBVIOUS
    <2> HIDE DEF b, n
    <2>2. QED
      BY <2>1, FunctionIsSeq
  <1>3. b = Append(a, piece[n])
    <2> DEFINE c == Append(a, piece[n])
               p == piece[n]
    <2>1. c \in Seq(Seq(T)) /\ Len(c) = m + 1 /\ c[m+1] = p /\ \A k \in 1..m : c[k] = a[k]
      <3> HIDE DEF a, n
      <3>1. QED
        BY <1>1, <1>2, AppendProperties
    <2>2. \A k \in 1..m+1 : b[k] = piece[k]
      OBVIOUS
    <2>3. \A k \in 1..m : a[k] = piece[k]
      OBVIOUS
    <2>4. ASSUME NEW k \in 1..m+1 PROVE b[k] = c[k]
      <3> HIDE DEF a, b, c
      <3>1. k \in 1..m \/ k = m + 1
        OBVIOUS
      <3>2. QED
        BY <2>1, <2>2, <2>3, <3>1
    <2> HIDE DEF a, b, c
    <2>5. b = c
      BY <1>2, <2>1, <2>4, SeqEqual
    <2>6. QED
      BY <2>5 DEF c
  <1>4. FlattenSeq(Append(a, piece[n])) = FlattenSeq(a) \o piece[n] /\ FlattenSeq(a) \in Seq(T)
    <2> HIDE DEF a, n
    <2>1. QED
      BY <1>1, <1>2, FlattenAppend, FlattenType
  <1>5. Upto(piece, m) = FlattenSeq(a) /\ Upto(piece, m + 1) = FlattenSeq(b)
    BY DEF Upto
  <1>6. QED
    BY <1>3, <1>4, <1>5 DEF n

LEMMA UptoType ==
  ASSUME NEW T, NEW n \in Nat, NEW piece, Pieces(piece, n, T),
         NEW m \in 0..n
  PROVE  Upto(piece, m) \in Seq(T)
  <1>1. CASE m = 0
    BY <1>1, UptoStarts, EmptySeq
  <1>2. CASE m # 0
    <2> DEFINE j == m - 1
    <2>1. j \in Nat /\ j + 1 = m
      BY <1>2
    <2> HIDE DEF j
    <2>2. \A k \in 1..j+1 : piece[k] \in Seq(T)
      BY <2>1 DEF Pieces
    <2>3. Upto(piece, j) \in Seq(T) /\ Upto(piece, j + 1) = Upto(piece, j) \o piece[j + 1]
      BY <2>1, <2>2, UptoStep
    <2>4. piece[j+1] \in Seq(T)
      BY <2>1, <2>2
    <2>5. Upto(piece, j) \o piece[j+1] \in Seq(T)
      BY <2>3, <2>4, ConcatProperties
    <2>6. QED
      BY <2>1, <2>3, <2>5
  <1>3. QED
    BY <1>1, <1>2

\* Positions with nothing ...
LEMMA UptoNothing ==
  ASSUME NEW T, NEW n \in Nat, NEW piece, Pieces(piece, n, T),
         NEW m \in 0..n, NEW l \in m..n, \A k \in m+1..l : piece[k] = <<>>
  PROVE  Upto(piece, l) = Upto(piece, m)
  <1> DEFINE Y == {j \in Nat : m + j <= l => Upto(piece, m + j) = Upto(piece, m)}
  <1>1. 0 \in Y
    OBVIOUS
  <1>2. ASSUME NEW j \in Nat, j \in Y
        PROVE  j + 1 \in Y
    <2> SUFFICES ASSUME m + (j + 1) <= l PROVE Upto(piece, m + (j + 1)) = Upto(piece, m)
      OBVIOUS
    <2> DEFINE p == m + j
    <2>1. p \in Nat /\ p + 1 = m + (j + 1) /\ p + 1 \in m+1..l /\ p <= l /\ p + 1 <= n /\ p \in 0..n
      OBVIOUS
    <2>2. Upto(piece, p) = Upto(piece, m)
      BY <1>2, <2>1
    <2> HIDE DEF p
    <2>3. \A k \in 1..p+1 : piece[k] \in Seq(T)
      BY <2>1 DEF Pieces
    <2>4. Upto(piece, p) \in Seq(T) /\ Upto(piece, p + 1) = Upto(piece, p) \o piece[p + 1]
      BY <2>1, <2>3, UptoStep
    <2>5. piece[p+1] = <<>>
      BY <2>1
    <2>6. QED
      BY <2>1, <2>2, <2>4, <2>5, ConcatEmptySeq
  <1> HIDE DEF Y
  <1>3. Nat \subseteq Y
    BY <1>1, <1>2, Induction
  <1> DEFINE d == l - m
  <1>4. d \in Nat /\ m + d = l /\ m + d <= l
    OBVIOUS
  <1> HIDE DEF d
  <1>5. QED
    BY <1>3, <1>4 DEF Y

\* ... and positions with a character of s each.
LEMMA UptoItself ==
  ASSUME NEW T, NEW s \in Seq(T), NEW piece, Pieces(piece, Len(s), T)
  PROVE  \A m \in 0..Len(s) : \A l \in m..Len(s) :
           (\A k \in m+1..l : piece[k] = <<s[k]>>) =>
             Upto(piece, l) = Upto(piece, m) \o SubSeq(s, m + 1, l)
  <1> DEFINE n == Len(s)
  <1>0. n \in Nat /\ Len(s) = n
    BY LenProperties
  <1>00. Pieces(piece, n, T)
    OBVIOUS
  <1> HIDE DEF n
  <1> SUFFICES ASSUME NEW m \in 0..n, NEW l \in m..n, \A k \in m+1..l : piece[k] = <<s[k]>>
               PROVE  Upto(piece, l) = Upto(piece, m) \o SubSeq(s, m + 1, l)
    BY DEF n
  <1> DEFINE Holds(j) == m + j <= l =>
                           Upto(piece, m + j) = Upto(piece, m) \o SubSeq(s, m + 1, m + j)
             Y == {j \in Nat : Holds(j)}
  <1>1. 0 \in Y
    <2>1. m + 0 = m /\ m < m + 1 /\ m + 1 \in Int /\ m \in Int
      OBVIOUS
    <2>2. SubSeq(s, m + 1, m) = <<>>
      BY <2>1, SubSeqEmpty
    <2>3. Upto(piece, m) \o <<>> = Upto(piece, m)
      BY <1>0, <1>00, UptoType, ConcatEmptySeq
    <2>4. QED
      BY <2>1, <2>2, <2>3
  <1>2. ASSUME NEW j \in Nat, j \in Y
        PROVE  j + 1 \in Y
    <2> SUFFICES ASSUME m + (j + 1) <= l
                 PROVE  Upto(piece, m + (j + 1)) = Upto(piece, m) \o SubSeq(s, m + 1, m + (j + 1))
      <3>1. Holds(j + 1) => j + 1 \in Y
        <4> HIDE DEF Holds
        <4>1. QED
          OBVIOUS
      <3>2. QED
        BY <3>1, Zenon
    <2> DEFINE p == m + j
               q == m + 1
    <2>1. /\ p \in Nat /\ p + 1 = m + (j + 1) /\ p + 1 \in m+1..l /\ p <= l /\ p + 1 <= n
          /\ p \in 0..n /\ q \in 1..n /\ p + 1 \in q..n /\ p \in q-1..n /\ q <= p + 1 /\ p + 1 \in 1..n
      BY <1>0
    <2>2. Upto(piece, p) = Upto(piece, m) \o SubSeq(s, q, p)
      BY <1>2, <2>1
    <2> HIDE DEF p, q
    <2>3. \A k \in 1..p+1 : piece[k] \in Seq(T)
      BY <1>0, <1>00, <2>1 DEF Pieces
    <2>4. Upto(piece, p) \in Seq(T) /\ Upto(piece, p + 1) = Upto(piece, p) \o piece[p + 1]
      BY <2>1, <2>3, UptoStep
    <2>5. piece[p+1] = <<s[p+1]>> /\ <<s[p+1]>> \in Seq(T)
      BY <1>0, <2>1
    <2>6. SubSeq(s, q, p + 1) = SubSeq(s, q, p) \o <<s[p+1]>> /\ SubSeq(s, q, p) \in Seq(T)
      <3> DEFINE t == SubSeq(s, q, p)
      <3>1. t \in Seq(T)
        <4>1. \A k \in q..p : s[k] \in T
          <5>1. \A k \in q..p : k \in 1..Len(s)
            BY <1>0, <2>1
          <5>2. QED
            BY <5>1, ElementOfSeq
        <4>2. q \in Int /\ p \in Int
          BY <2>1
        <4>3. QED
          BY <4>1, <4>2, SubSeqProperties
      <3> DEFINE r == p + 1
      <3>2. r \in q..Len(s) /\ q \in 1..Len(s) /\ r - 1 = p
        BY <1>0, <2>1
      <3> HIDE DEF r, t
      <3>3. SubSeq(s, q, r) = SubSeq(s, q, r - 1) \o <<s[r]>>
        BY <3>2, SubSeqRecursiveSecond
      <3>4. QED
        BY <3>1, <3>2, <3>3 DEF r, t
    <2>7. Upto(piece, m) \in Seq(T)
      BY <1>0, <1>00, UptoType
    <2>8. (Upto(piece, m) \o SubSeq(s, q, p)) \o <<s[p+1]>>
          = Upto(piece, m) \o (SubSeq(s, q, p) \o <<s[p+1]>>)
      <3> DEFINE x == Upto(piece, m)
                 y == SubSeq(s, q, p)
                 z == <<s[p+1]>>
      <3>1. x \in Seq(T) /\ y \in Seq(T) /\ z \in Seq(T)
        BY <2>5, <2>6, <2>7
      <3> HIDE DEF x, y, z
      <3>2. (x \o y) \o z = x \o (y \o z)
        BY <3>1, ConcatAssociative
      <3>3. QED
        BY <3>2 DEF x, y, z
    <2>9. QED
      BY <2>1, <2>2, <2>4, <2>5, <2>6, <2>8 DEF q
  <1> HIDE DEF Y
  <1>3. Nat \subseteq Y
    BY <1>1, <1>2, Induction
  <1> DEFINE d == l - m
  <1>4. d \in Nat /\ m + d = l /\ m + d <= l
    OBVIOUS
  <1> HIDE DEF d
  <1>5. QED
    BY <1>3, <1>4 DEF Y

-----------------------------------------------------------------------------
(* Quoting modes.                                                           *)

Modes(f, s, k, n) ==
  f = [j \in k..n |-> IF j = k THEN "none" ELSE Toggle(f[j-1], s[j-1])]

LEMMA ModesExist ==
  ASSUME NEW s, NEW k \in Nat, NEW n \in Nat, k <= n
  PROVE  \E f : Modes(f, s, k, n)
  <1> DEFINE Y == {d \in Nat : \E f : Modes(f, s, k, k + d)}
  <1>1. 0 \in Y
    <2>1. Modes([j \in k..k |-> "none"], s, k, k + 0)
      <3>1. k + 0 = k /\ \A j \in k..k : j = k
        OBVIOUS
      <3>2. QED
        BY <3>1 DEF Modes
    <2>2. QED
      BY <2>1
  <1>2. ASSUME NEW d \in Nat, d \in Y
        PROVE  d + 1 \in Y
    <2>1. PICK f : Modes(f, s, k, k + d)
      BY <1>2
    <2> DEFINE m == k + (d + 1)
               g == [j \in k..m |-> IF j # m THEN f[j] ELSE Toggle(f[j-1], s[j-1])]
    <2>2. m \in Nat /\ k < m /\ m - 1 = k + d
      OBVIOUS
    <2>3. ASSUME NEW j \in k..m
          PROVE  g[j] = IF j = k THEN "none" ELSE Toggle(g[j-1], s[j-1])
      <3>1. j # k => g[j-1] = f[j-1]
        <4>1. j # k => j - 1 \in k..m /\ j - 1 # m
          BY <2>2
        <4>2. QED
          BY <4>1
      <3>2. CASE j # m
        <4>1. j \in k..k+d /\ g[j] = f[j]
          BY <2>2, <3>2
        <4> HIDE DEF g
        <4>2. f[j] = IF j = k THEN "none" ELSE Toggle(f[j-1], s[j-1])
          BY <2>1, <4>1, Zenon DEF Modes
        <4>3. QED
          BY <3>1, <4>1, <4>2
      <3>3. CASE j = m
        <4>1. g[j] = Toggle(f[j-1], s[j-1]) /\ j # k
          BY <2>2, <3>3
        <4> HIDE DEF g
        <4>2. QED
          BY <3>1, <4>1
      <3>4. QED
        BY <3>2, <3>3
    <2>4. g = [j \in k..m |-> g[j]]
      OBVIOUS
    <2> HIDE DEF g
    <2>5. Modes(g, s, k, m)
      BY <2>3, <2>4 DEF Modes
    <2>6. QED
      BY <2>5
  <1> HIDE DEF Y
  <1>3. Nat \subseteq Y
    BY <1>1, <1>2, Induction
  <1> DEFINE d == n - k
  <1>4. d \in Nat /\ k + d = n
    OBVIOUS
  <1> HIDE DEF d
  <1>5. QED
    BY <1>3, <1>4 DEF Y

\* The scan starts outside quotes, and each character toggles the mode.
LEMMA ModeSteps ==
  ASSUME NEW s \in Seq(Char), NEW k \in 1..Len(s)+1
  PROVE  /\ QuoteMode(s, k)[k] = "none"
         /\ \A j \in k+1..Len(s)+1 :
              QuoteMode(s, k)[j] = Toggle(QuoteMode(s, k)[j-1], s[j-1])
  <1> DEFINE n == Len(s) + 1
             mode == QuoteMode(s, k)
  <1>1. Len(s) \in Nat
    BY LenProperties
  <1>2. n \in Nat /\ k \in Nat /\ k <= n /\ k \in k..n
    BY <1>1
  <1>3. \E f : Modes(f, s, k, n)
    <2> HIDE DEF n
    <2>1. QED
      BY <1>2, ModesExist
  <1>4. Modes(mode, s, k, n)
    BY <1>3 DEF QuoteMode, Modes
  <1> HIDE DEF n, mode
  <1>5. \A j \in k..n : mode[j] = IF j = k THEN "none" ELSE Toggle(mode[j-1], s[j-1])
    BY <1>4, Zenon DEF Modes
  <1>6. \A j \in k+1..n : j \in k..n /\ j # k
    BY <1>2
  <1>7. QED
    BY <1>2, <1>5, <1>6 DEF n, mode

\* A stretch of characters that do not toggle it keeps the mode.
LEMMA ModeStays ==
  ASSUME NEW s \in Seq(Char), NEW k \in 1..Len(s)+1, NEW a \in k..Len(s)+1,
         NEW b \in a..Len(s)+1, NEW m, QuoteMode(s, k)[a] = m,
         \A j \in a..b-1 : Toggle(m, s[j]) = m
  PROVE  \A j \in a..b : QuoteMode(s, k)[j] = m
  <1> DEFINE n == Len(s) + 1
             mode == QuoteMode(s, k)
             Holds(d) == a + d <= b => mode[a + d] = m
             Y == {d \in Nat : Holds(d)}
  <1>1. n \in Nat /\ k \in Nat /\ a \in Nat /\ b \in Nat /\ k <= a /\ b <= n
    BY LenProperties
  <1>2. \A j \in k+1..n : mode[j] = Toggle(mode[j-1], s[j-1])
    BY ModeSteps
  <1> HIDE DEF n, mode
  <1>3. 0 \in Y
    BY <1>1 DEF mode
  <1>4. ASSUME NEW d \in Nat, d \in Y
        PROVE  d + 1 \in Y
    <2> SUFFICES ASSUME a + (d + 1) <= b PROVE mode[a + (d + 1)] = m
      OBVIOUS
    <2> DEFINE j == a + (d + 1)
    <2>1. j \in k+1..n /\ j - 1 = a + d /\ j - 1 \in a..b-1 /\ a + d <= b
      BY <1>1
    <2>2. mode[j - 1] = m
      BY <1>4, <2>1
    <2> HIDE DEF j
    <2>3. mode[j] = Toggle(mode[j-1], s[j-1])
      BY <1>2, <2>1
    <2>4. mode[j] = m
      BY <2>1, <2>2, <2>3
    <2>5. QED
      BY <2>4 DEF j
  <1> HIDE DEF Y
  <1>5. Nat \subseteq Y
    BY <1>3, <1>4, Induction
  <1>6. ASSUME NEW j \in a..b
        PROVE  mode[j] = m
    <2> DEFINE d == j - a
    <2>1. d \in Nat /\ a + d = j /\ a + d <= b
      BY <1>1
    <2> HIDE DEF d
    <2>2. QED
      BY <1>5, <2>1 DEF Y
  <1>7. QED
    BY <1>6 DEF mode

\* Where a scan that started at the beginning is outside quotes, one that starts there
\* goes on as it does.
LEMMA ModesAgree ==
  ASSUME NEW s \in Seq(Char), NEW k \in 1..Len(s)+1, QuoteMode(s, 1)[k] = "none"
  PROVE  \A j \in k..Len(s)+1 : QuoteMode(s, k)[j] = QuoteMode(s, 1)[j]
  <1> DEFINE n == Len(s) + 1
             mode == QuoteMode(s, k)
             whole == QuoteMode(s, 1)
             Holds(d) == k + d <= n => mode[k + d] = whole[k + d]
             Y == {d \in Nat : Holds(d)}
  <1>1. n \in Nat /\ k \in Nat /\ 1 <= k /\ 1 \in 1..n
    BY LenProperties
  <1>2. mode[k] = "none" /\ \A j \in k+1..n : mode[j] = Toggle(mode[j-1], s[j-1])
    BY ModeSteps
  <1>3. \A j \in 1+1..n : whole[j] = Toggle(whole[j-1], s[j-1])
    BY <1>1, ModeSteps
  <1> HIDE DEF n, mode, whole
  <1>4. 0 \in Y
    BY <1>1, <1>2 DEF whole
  <1>5. ASSUME NEW d \in Nat, d \in Y
        PROVE  d + 1 \in Y
    <2> SUFFICES ASSUME k + (d + 1) <= n PROVE mode[k + (d + 1)] = whole[k + (d + 1)]
      OBVIOUS
    <2> DEFINE j == k + (d + 1)
    <2>1. j \in k+1..n /\ j \in 1+1..n /\ j - 1 = k + d /\ k + d <= n
      BY <1>1
    <2>2. mode[j - 1] = whole[j - 1]
      BY <1>5, <2>1
    <2> HIDE DEF j
    <2>3. mode[j] = Toggle(mode[j-1], s[j-1]) /\ whole[j] = Toggle(whole[j-1], s[j-1])
      BY <1>2, <1>3, <2>1
    <2>4. mode[j] = whole[j]
      BY <2>2, <2>3
    <2>5. QED
      BY <2>4 DEF j
  <1> HIDE DEF Y
  <1>6. Nat \subseteq Y
    BY <1>4, <1>5, Induction
  <1>7. ASSUME NEW j \in k..n
        PROVE  mode[j] = whole[j]
    <2> DEFINE d == j - k
    <2>1. d \in Nat /\ k + d = j /\ k + d <= n
      BY <1>1
    <2> HIDE DEF d
    <2>2. QED
      BY <1>6, <2>1 DEF Y
  <1>8. QED
    BY <1>7 DEF mode, whole, n

-----------------------------------------------------------------------------
(* What scans pass over.                                                    *)

LEMMA EndOfRunPasses ==
  ASSUME NEW s \in Seq(Char), NEW k \in 1..Len(s)+1, NEW Stop
  PROVE  \A j \in k..EndOfRun(s, k, Stop)-1 : j \in 1..Len(s) /\ s[j] \notin Stop
  <1> DEFINE S == {j \in k..Len(s)+1 : j = Len(s)+1 \/ s[j] \in Stop}
  <1>1. Len(s) \in Nat
    BY LenProperties
  <1>2. Len(s) + 1 \in S /\ S \subseteq Nat
    BY <1>1
  <1>3. Min(S) \in S /\ \A y \in S : Min(S) <= y
    BY <1>2, MinIsElement
  <1> DEFINE e == Min(S)
  <1>4. e \in k..Len(s)+1 /\ EndOfRun(s, k, Stop) = e
    BY <1>3 DEF EndOfRun
  <1>5. ASSUME NEW j \in k..e-1
        PROVE  j \in 1..Len(s) /\ s[j] \notin Stop
    <2>1. \A y \in S : e <= y
      BY <1>3
    <2> HIDE DEF e
    <2>2. j \in 1..Len(s) /\ j \in k..Len(s)+1 /\ ~(e <= j)
      BY <1>1, <1>4
    <2>3. j \notin S
      BY <2>1, <2>2
    <2>4. QED
      BY <2>2, <2>3
  <1>6. QED
    BY <1>4, <1>5

\* Without backslashes a quoted text goes on to the next quote of its kind.
LEMMA ClosingQuotePasses ==
  ASSUME NEW s \in Seq(Char), NEW k \in 1..Len(s)+1, NEW quote,
         \A j \in 1..Len(s) : s[j] # "\\"
  PROVE  /\ \A j \in k..ClosingQuote(s, k, quote)-1 : j \in 1..Len(s) /\ s[j] # quote
         /\ \/ ClosingQuote(s, k, quote) = Len(s) + 1
            \/ s[ClosingQuote(s, k, quote)] = quote
  <1> DEFINE S == {j \in k..Len(s)+1 :
                     \/ j = Len(s)+1
                     \/ s[j] = quote /\ ~(quote = DoubleQuote /\ Escaped(s, k)[j])}
  <1>1. Len(s) \in Nat
    BY LenProperties
  <1>2. Len(s) + 1 \in S /\ S \subseteq Nat
    BY <1>1
  <1>3. Min(S) \in S /\ \A y \in S : Min(S) <= y
    BY <1>2, MinIsElement
  <1> DEFINE e == Min(S)
  <1>4. e \in k..Len(s)+1 /\ ClosingQuote(s, k, quote) = e /\ (e = Len(s) + 1 \/ s[e] = quote)
    BY <1>3 DEF ClosingQuote
  <1>5. \A j \in k..Len(s) : ~Escaped(s, k)[j]
    <2> DEFINE Is(f) == f = [j \in k..Len(s) |-> j > k /\ s[j-1] = "\\" /\ ~f[j-1]]
    <2>1. \A j \in k..Len(s) : ~(j > k /\ s[j-1] = "\\")
      BY <1>1
    <2>2. Is([j \in k..Len(s) |-> FALSE])
      BY <2>1
    <2>3. Is(Escaped(s, k))
      <3>1. Escaped(s, k) = CHOOSE f : Is(f)
        BY DEF Escaped
      <3> HIDE DEF Is
      <3>2. QED
        BY <2>2, <3>1
    <2> DEFINE f == Escaped(s, k)
    <2>4. f = [j \in k..Len(s) |-> j > k /\ s[j-1] = "\\" /\ ~f[j-1]]
      BY <2>3
    <2> HIDE DEF f
    <2>5. \A j \in k..Len(s) : f[j] = (j > k /\ s[j-1] = "\\" /\ ~f[j-1])
      BY <2>4, Zenon
    <2>6. QED
      BY <2>1, <2>5 DEF f
  <1>6. ASSUME NEW j \in k..e-1
        PROVE  j \in 1..Len(s) /\ s[j] # quote
    <2>1. \A y \in S : e <= y
      BY <1>3
    <2> HIDE DEF e
    <2>2. j \in 1..Len(s) /\ j \in k..Len(s)+1 /\ j \in k..Len(s) /\ ~(e <= j)
      BY <1>1, <1>4
    <2>3. j \notin S
      BY <2>1, <2>2
    <2>4. QED
      BY <1>5, <2>2, <2>3
  <1>7. QED
    BY <1>4, <1>6

LEMMA WordEndPasses ==
  ASSUME NEW s \in Seq(Char), NEW k \in 1..Len(s)+1
  PROVE  /\ \A j \in k..WordEnd(s, k)-1 :
              j \in 1..Len(s) /\ (QuoteMode(s, k)[j] = "none" => s[j] \notin Blank \cup Operator)
         /\ WordEnd(s, k) <= Len(s) => QuoteMode(s, k)[WordEnd(s, k)] = "none"
  <1> DEFINE S == {j \in k..Len(s)+1 :
                     \/ j = Len(s)+1
                     \/ QuoteMode(s, k)[j] = "none" /\ s[j] \in Blank \cup Operator}
  <1>1. Len(s) \in Nat
    BY LenProperties
  <1>2. Len(s) + 1 \in S /\ S \subseteq Nat
    BY <1>1
  <1>3. Min(S) \in S /\ \A y \in S : Min(S) <= y
    BY <1>2, MinIsElement
  <1> DEFINE e == Min(S)
  <1>4. /\ e \in k..Len(s)+1 /\ WordEnd(s, k) = e
        /\ e = Len(s) + 1 \/ QuoteMode(s, k)[e] = "none"
    BY <1>3 DEF WordEnd
  <1>5. ASSUME NEW j \in k..e-1
        PROVE  j \in 1..Len(s) /\ (QuoteMode(s, k)[j] = "none" => s[j] \notin Blank \cup Operator)
    <2>1. \A y \in S : e <= y
      BY <1>3
    <2> HIDE DEF e
    <2>2. j \in 1..Len(s) /\ j \in k..Len(s)+1 /\ ~(e <= j)
      BY <1>1, <1>4
    <2>3. j \notin S
      BY <2>1, <2>2
    <2>4. QED
      BY <2>2, <2>3
  <1>6. e <= Len(s) => QuoteMode(s, k)[e] = "none"
    <2>1. e <= Len(s) => e # Len(s) + 1
      BY <1>1, <1>4
    <2>2. QED
      BY <1>4, <2>1
  <1>7. QED
    BY <1>4, <1>5, <1>6

-----------------------------------------------------------------------------
(* Conversions that change nothing.                                         *)

\* A text without "$" has no variables to expand.
LEMMA ExpandNothing ==
  ASSUME NEW s \in Seq(Char), \A k \in 1..Len(s) : s[k] # "$", NEW status
  PROVE  expand_variables(s, status) = remove_quotes(s)
  <1> DEFINE Is(f) == f = [k \in 1..Len(s)+1 |->
                        LET d == EndOfRun(s, k, {"$"})
                        IN  IF d >= Len(s) THEN SubSeq(s, k, Len(s))
                            ELSE SubSeq(s, k, d - 1) \o get_env_value(s, d + 1, status)
                                   \o f[EndOfName(s, d + 1)]]
             g == [k \in 1..Len(s)+1 |-> SubSeq(s, k, Len(s))]
             from == CHOOSE f : Is(f)
  <1>1. Len(s) \in Nat
    BY LenProperties
  <1>2. ASSUME NEW k \in 1..Len(s)+1
        PROVE  EndOfRun(s, k, {"$"}) >= Len(s)
    <2> DEFINE d == EndOfRun(s, k, {"$"})
    <2>1. d \in k..Len(s)+1 /\ (d = Len(s) + 1 \/ s[d] \in {"$"})
      BY EndOfRunType, EndOfRunStops
    <2> HIDE DEF d
    <2>2. d = Len(s) + 1
      BY <1>1, <2>1
    <2>3. d >= Len(s)
      BY <1>1, <2>2
    <2>4. QED
      BY <2>3 DEF d
  <1>3. Is(g)
    BY <1>2
  <1>4. Is(from)
    <2> HIDE DEF Is
    <2>1. QED
      BY <1>3
  <1>5. expand_variables(s, status) = remove_quotes(from[1])
    BY DEF expand_variables
  <1>6. from[1] = SubSeq(s, 1, Len(s))
    <2> DEFINE f == from
    <2>1. f = [k \in 1..Len(s)+1 |->
                        LET d == EndOfRun(s, k, {"$"})
                        IN  IF d >= Len(s) THEN SubSeq(s, k, Len(s))
                            ELSE SubSeq(s, k, d - 1) \o get_env_value(s, d + 1, status)
                                   \o f[EndOfName(s, d + 1)]]
      BY <1>4
    <2> HIDE DEF f
    <2>2. \A k \in 1..Len(s)+1 :
             f[k] = LET d == EndOfRun(s, k, {"$"})
                    IN  IF d >= Len(s) THEN SubSeq(s, k, Len(s))
                        ELSE SubSeq(s, k, d - 1) \o get_env_value(s, d + 1, status)
                               \o f[EndOfName(s, d + 1)]
      BY <2>1, Zenon
    <2>3. 1 \in 1..Len(s)+1
      BY <1>1
    <2>4. f[1] = SubSeq(s, 1, Len(s))
      BY <1>2, <2>2, <2>3
    <2>5. QED
      BY <2>4 DEF f
  <1>7. SubSeq(s, 1, Len(s)) = s
    BY SubSeqFull
  <1>8. QED
    BY <1>5, <1>6, <1>7

LEMMA QuotesNothing ==
  ASSUME NEW s \in Seq(Char), \A k \in 1..Len(s) : s[k] \notin Quote
  PROVE  remove_quotes(s) = s /\ remove_single_quotes(s) = s
  <1>1. \A quote \in Quote : Without(s, {quote}) = s
    <2> TAKE quote \in Quote
    <2>1. \A k \in 1..Len(s) : s[k] \notin {quote}
      OBVIOUS
    <2>2. QED
      BY <2>1, WithoutNone
  <1>2. DoubleQuote \in Quote /\ "'" \in Quote
    BY DEF Quote
  <1>3. QED
    BY <1>1, <1>2 DEF remove_quotes, remove_single_quotes, WithoutPaired

\* One character, and two, of a text.
LEMMA SubSeqOne ==
  ASSUME NEW s \in Seq(Char), NEW k \in 1..Len(s)
  PROVE  SubSeq(s, k, k) = <<s[k]>>
  <1>1. Len(s) \in Nat /\ k \in k..Len(s) /\ k - 1 < k /\ k \in Int /\ k - 1 \in Int
    BY LenProperties
  <1>2. SubSeq(s, k, k - 1) = <<>>
    BY <1>1, SubSeqEmpty
  <1>3. SubSeq(s, k, k) = SubSeq(s, k, k - 1) \o <<s[k]>>
    BY <1>1, SubSeqRecursiveSecond
  <1>4. <<>> \o <<s[k]>> = <<s[k]>>
    <2>1. <<s[k]>> \in Seq(Char)
      BY ElementOfSeq
    <2>2. QED
      BY <2>1, ConcatEmptySeq
  <1>5. QED
    BY <1>2, <1>3, <1>4

LEMMA SubSeqTwo ==
  ASSUME NEW s \in Seq(Char), NEW k \in 1..Len(s)-1
  PROVE  SubSeq(s, k, k + 1) = <<s[k], s[k+1]>>
  <1> DEFINE left == SubSeq(s, k, k + 1)
             right == <<s[k], s[k+1]>>
  <1>1. Len(s) \in Nat /\ k \in 1..Len(s) /\ k + 1 \in 1..Len(s) /\ k \in Int /\ k + 1 \in Int
        /\ \A j \in k..k+1 : j \in 1..Len(s)
    BY LenProperties
  <1>2. \A j \in k..k+1 : s[j] \in Char
    BY <1>1, ElementOfSeq
  <1>3. /\ left \in Seq(Char) /\ Len(left) = IF k <= k + 1 THEN (k + 1) - k + 1 ELSE 0
        /\ \A j \in 1..(k + 1)-k+1 : left[j] = s[k+j-1]
    BY <1>1, <1>2, SubSeqProperties
  <1>4. /\ k <= k + 1 /\ (k + 1) - k + 1 = 2 /\ k + 1 - 1 = k /\ k + 2 - 1 = k + 1
        /\ 1 \in 1..2 /\ 2 \in 1..2 /\ \A j \in 1..2 : j = 1 \/ j = 2
    BY <1>1
  <1>5. right \in Seq(Char) /\ Len(right) = 2 /\ right[1] = s[k] /\ right[2] = s[k+1]
    <2>1. s[k] \in Char /\ s[k+1] \in Char
      BY <1>1, ElementOfSeq
    <2>2. QED
      BY <2>1
  <1> HIDE DEF left, right
  <1>6. Len(left) = 2 /\ left[1] = s[k] /\ left[2] = s[k+1]
    BY <1>3, <1>4
  <1>7. \A j \in 1..Len(left) : left[j] = right[j]
    BY <1>4, <1>5, <1>6
  <1>8. left = right
    BY <1>3, <1>5, <1>6, <1>7, SeqEqual
  <1>9. QED
    BY <1>8 DEF left, right

=============================================================================
