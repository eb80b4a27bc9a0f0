-------------------------- MODULE LineReaderProofs --------------------------
(***************************************************************************)
(* Proofs about LineReader, for any number of files, of any length, and any *)
(* size of the buffer: what get_next_line() returns is a whole line, is the *)
(* caller's own, and adds up to what has been read of the file.             *)
(***************************************************************************)
EXTENDS LineReader, SequenceTheorems, WellFoundedInduction, TLAPS

\* The loop ends without a newline only where the file does.
StoppedAtEnd == pc = "read" /\ ~rd => AtEnd(fd)

\* What waits between two calls is of the file of the last one, and nothing waits behind
\* a NULL: without this a caller that goes on to another file would get it.
RestHeld ==
  ~failed => /\ pc = "idle" /\ null => line = <<>>
             /\ drained => \A k \in DOMAIN line : line[k].of = fd

Inv == TypeOK /\ StoppedAtEnd /\ LinesWhole /\ RestHeld /\ OwnText

-----------------------------------------------------------------------------
(* What a line is cut into.                                                 *)

\* The minimum of some naturals is the least of them.
LEMMA MinIsLeast ==
  ASSUME NEW S, S \subseteq Nat, S # {}
  PROVE  Min(S) \in S /\ \A y \in S : Min(S) <= y
  <1> DEFINE R == OpToRel(<, Nat)
  <1>1. \A x, y \in Nat : x < y => <<x, y>> \in R
    BY DEF OpToRel
  <1>2. IsWellFoundedOn(R, Nat)
    BY NatLessThanWellFounded
  <1> HIDE DEF R
  <1>3. PICK x \in S : \A y \in S : <<y, x>> \notin R
    BY <1>2, WFMin
  <1>4. \A y \in S : x <= y
    <2> SUFFICES ASSUME NEW y \in S PROVE x <= y
      OBVIOUS
    <2>1. x \in Nat /\ y \in Nat /\ ~(y < x)
      BY <1>1, <1>3
    <2>2. QED
      BY <2>1
  <1>5. QED
    BY <1>4 DEF Min

\* The first line of a text ends at its first newline, or with the text.
LEMMA LineEndLocated ==
  ASSUME NEW text \in Seq(Bytes)
  PROVE  /\ LineEnd(text) \in 0..Len(text)
         /\ text # <<>> => LineEnd(text) \in 1..Len(text)
         /\ \A k \in NewlinesOf(text) : k <= LineEnd(text) => k = LineEnd(text)
         /\ NewlinesOf(text) # {} => LineEnd(text) \in NewlinesOf(text)
         /\ NewlinesOf(text) = {} => LineEnd(text) = Len(text)
  <1>1. Len(text) \in Nat /\ DOMAIN text = 1..Len(text) /\ (text # <<>> => Len(text) # 0)
    BY LenProperties, EmptySeq
  <1>2. NewlinesOf(text) \subseteq 1..Len(text) /\ NewlinesOf(text) \subseteq Nat
    BY <1>1 DEF NewlinesOf
  <1>3. CASE NewlinesOf(text) = {}
    BY <1>1, <1>3 DEF LineEnd
  <1>4. CASE NewlinesOf(text) # {}
    <2>1. LineEnd(text) = Min(NewlinesOf(text))
      BY <1>4 DEF LineEnd
    <2>2. LineEnd(text) \in NewlinesOf(text) /\ \A k \in NewlinesOf(text) : LineEnd(text) <= k
      BY <1>2, <1>4, <2>1, MinIsLeast
    <2>3. QED
      BY <1>1, <1>2, <1>4, <2>2
  <1>5. QED
    BY <1>3, <1>4

\* A part of a text is the bytes of that part.
LEMMA PartOfText ==
  ASSUME NEW text \in Seq(Bytes), NEW m \in 1..Len(text)+1, NEW n \in 0..Len(text)
  PROVE  LET part == SubSeq(text, m, n)
         IN  /\ part \in Seq(Bytes)
             /\ DOMAIN part = 1..Len(part)
             /\ Len(part) = IF m <= n THEN n - m + 1 ELSE 0
             /\ \A k \in DOMAIN part : m + k - 1 \in DOMAIN text /\ part[k] = text[m + k - 1]
  <1> DEFINE part == SubSeq(text, m, n)
  <1>1. Len(text) \in Nat /\ DOMAIN text = 1..Len(text)
    BY LenProperties
  <1>2. \A k \in m..n : k \in 1..Len(text)
    BY <1>1
  <1>3. /\ part \in Seq(Bytes)
        /\ Len(part) = IF m <= n THEN n - m + 1 ELSE 0
        /\ \A k \in 1..n-m+1 : part[k] = text[m + k - 1]
    BY <1>1, <1>2, ElementOfSeq, SubSeqProperties
  <1> HIDE DEF part
  <1>4. DOMAIN part = 1..Len(part)
    BY <1>3, LenProperties
  <1>5. \A k \in DOMAIN part : k \in 1..n-m+1 /\ m + k - 1 \in DOMAIN text
    BY <1>1, <1>3, <1>4
  <1>6. QED
    BY <1>3, <1>4, <1>5 DEF part

\* The line cut off a text is not empty, has a newline at most at its end, and has none
\* only if the text has none.
LEMMA FirstLine ==
  ASSUME NEW text \in Seq(Bytes), text # <<>>
  PROVE  LET first == SubSeq(text, 1, LineEnd(text))
         IN  /\ first \in Seq(Bytes) /\ first # <<>>
             /\ \A k \in DOMAIN first : k \in DOMAIN text /\ first[k] = text[k]
             /\ NewlinesOf(first) \subseteq {Len(first)}
             /\ NewlinesOf(first) = {} => NewlinesOf(text) = {}
  <1> DEFINE end == LineEnd(text)
             first == SubSeq(text, 1, end)
  <1>1. /\ end \in 1..Len(text)
        /\ \A k \in NewlinesOf(text) : k <= end => k = end
        /\ NewlinesOf(text) # {} => end \in NewlinesOf(text)
    BY LineEndLocated
  <1>2. Len(text) \in Nat /\ DOMAIN text = 1..Len(text)
    BY LenProperties
  <1> HIDE DEF end
  <1>3. 1 \in 1..Len(text)+1 /\ end \in 0..Len(text) /\ end \in Nat
    BY <1>1, <1>2
  <1>4. /\ first \in Seq(Bytes)
        /\ DOMAIN first = 1..Len(first)
        /\ Len(first) = IF 1 <= end THEN end - 1 + 1 ELSE 0
        /\ \A k \in DOMAIN first : 1 + k - 1 \in DOMAIN text /\ first[k] = text[1 + k - 1]
    BY <1>3, PartOfText
  <1> HIDE DEF first
  <1>5. Len(first) = end /\ DOMAIN first = 1..end
    BY <1>1, <1>3, <1>4
  <1>6. \A k \in DOMAIN first : k \in DOMAIN text /\ first[k] = text[k]
    BY <1>3, <1>4, <1>5
  <1>7. first # <<>>
    BY <1>1, <1>5, EmptySeq
  <1>8. NewlinesOf(first) = {k \in NewlinesOf(text) : k <= end}
    BY <1>2, <1>3, <1>5, <1>6 DEF NewlinesOf
  <1>9. QED
    BY <1>1, <1>3, <1>4, <1>5, <1>6, <1>7, <1>8 DEF first, end

\* What stays behind a line is bytes of the text, and is nothing behind the last one.
LEMMA RestOfLine ==
  ASSUME line \in Seq(Bytes)
  PROVE  /\ Rest \in Seq(Bytes)
         /\ \A k \in DOMAIN Rest : \E j \in DOMAIN line : Rest[k] = line[j]
         /\ line = <<>> => Rest = <<>>
  <1>1. LineEnd(line) \in 0..Len(line) /\ Len(line) \in Nat
    BY LineEndLocated, LenProperties
  <1>2. LineEnd(line) + 1 \in 1..Len(line)+1 /\ Len(line) \in 0..Len(line)
    BY <1>1
  <1>3. Rest \in Seq(Bytes)
    BY <1>2, PartOfText DEF Rest
  <1>4. \A k \in DOMAIN Rest : \E j \in DOMAIN line : Rest[k] = line[j]
    <2>1. \A k \in DOMAIN Rest :
            LineEnd(line) + 1 + k - 1 \in DOMAIN line /\ Rest[k] = line[LineEnd(line) + 1 + k - 1]
      BY <1>2, PartOfText DEF Rest
    <2>2. QED
      BY <2>1
  <1>5. line = <<>> => Rest = <<>>
    <2>1. line = <<>> => DOMAIN line = {}
      BY EmptySeq, LenProperties
    <2>2. line = <<>> => DOMAIN Rest = {}
      BY <1>4, <2>1
    <2>3. Rest # <<>> => Len(Rest) \in Nat \ {0} /\ DOMAIN Rest = 1..Len(Rest)
      BY <1>3, EmptySeq, LenProperties
    <2>4. QED
      BY <2>2, <2>3
  <1>6. QED
    BY <1>3, <1>4, <1>5

-----------------------------------------------------------------------------
(* The invariant.                                                           *)

LEMMA InitInv == Init => Inv
  <1> SUFFICES ASSUME Init PROVE Inv
    OBVIOUS
  <1>1. content \in [Fd -> Seq({"text", "newline"})]
    BY LineReaderAssumption DEF Init
  <1>2. \A f \in Fd : Len(content[f]) \in Nat
    BY <1>1, LenProperties
  <1>3. line = <<>> /\ returned = <<>> /\ line \in Seq(Bytes)
        /\ returned \in Seq([fd : Fd, text : Seq(Bytes)])
        /\ DOMAIN line = {} /\ DOMAIN returned = {}
    BY EmptySeq, LenProperties DEF Init
  <1>4. TypeOK
    <2>1. \A f \in Fd : offset[f] = 0 /\ offset[f] <= Len(content[f])
      BY <1>2 DEF Init
    <2>2. content \in Contents /\ offset \in [Fd -> Nat]
      BY DEF Init
    <2>3. pc \in {"idle", "read"} /\ fd \in Fd /\ rd \in BOOLEAN
          /\ null \in BOOLEAN /\ drained \in BOOLEAN /\ failed \in BOOLEAN
      BY DEF Init
    <2>4. \A k \in DOMAIN line : line[k].at <= offset[line[k].of]
      BY <1>3
    <2>5. QED
      BY <1>3, <2>1, <2>2, <2>3, <2>4 DEF TypeOK
  <1>5. QED
    BY <1>3, <1>4 DEF Init, Inv, StoppedAtEnd, LinesWhole, RestHeld, OwnText

\* What can be read of a file: bytes that follow each other, and nothing only at its end.
LEMMA ReadsFollow ==
  ASSUME TypeOK, NEW buff \in Reads
  PROVE  /\ buff \in Seq(Bytes)
         /\ Len(buff) \in Nat /\ DOMAIN buff = 1..Len(buff)
         /\ offset[fd] + Len(buff) <= Len(content[fd])
         /\ \A k \in DOMAIN buff : buff[k].of = fd /\ buff[k].at <= offset[fd] + Len(buff)
         /\ buff = <<>> <=> AtEnd(fd)
  <1> DEFINE left  == Len(content[fd]) - offset[fd]
             sizes == IF left = 0 THEN {0} ELSE 1..Min({left, BUFFER_SIZE})
  <1>1. fd \in Fd /\ offset[fd] \in Nat /\ Len(content[fd]) \in Nat /\ offset[fd] <= Len(content[fd])
    <2>1. content[fd] \in Seq({"text", "newline"})
      BY LineReaderAssumption DEF TypeOK
    <2>2. QED
      BY <2>1, LenProperties DEF TypeOK
  <1>2. BUFFER_SIZE \in Nat \ {0}
    BY LineReaderAssumption
  <1>3. left \in Nat
    BY <1>1
  <1>4. \A n \in sizes : n \in Nat /\ n <= left /\ (n = 0 <=> left = 0)
    <2>1. {left, BUFFER_SIZE} \subseteq Nat /\ {left, BUFFER_SIZE} # {}
      BY <1>2, <1>3
    <2>2. Min({left, BUFFER_SIZE}) \in Nat /\ Min({left, BUFFER_SIZE}) <= left
      BY <2>1, MinIsLeast
    <2> HIDE DEF left
    <2>3. QED
      BY <1>3, <2>2
  <1>5. PICK n \in sizes : buff = [k \in 1..n |-> [of |-> fd, at |-> offset[fd] + k]]
    BY DEF Reads
  <1>6. n \in Nat /\ n <= left /\ (n = 0 <=> left = 0)
    BY <1>4
  <1> HIDE DEF sizes
  <1>7. \A k \in 1..n : [of |-> fd, at |-> offset[fd] + k] \in Bytes
    BY <1>1, <1>6 DEF Bytes
  <1>8. buff \in Seq(Bytes) /\ DOMAIN buff = 1..n
    BY <1>5, <1>6, <1>7
  <1>9. Len(buff) = n
    BY <1>6, <1>8, LenProperties
  <1>10. buff = <<>> <=> n = 0
    BY <1>6, <1>8, <1>9, EmptySeq
  <1>11. QED
    BY <1>1, <1>5, <1>6, <1>8, <1>9, <1>10 DEF AtEnd

LEMMA ReadsFollowOn ==
  ASSUME NEW buff \in Reads
  PROVE  \A k \in DOMAIN buff : buff[k] = [of |-> fd, at |-> offset[fd] + k]
  BY DEF Reads

\* A file that has been read to its end stays so.
LEMMA EndStaysEnd ==
  ASSUME TypeOK, NEW buff \in Reads, Read(buff), content' = content, fd' = fd
  PROVE  /\ offset' \in [Fd -> Nat]
         /\ \A f \in Fd : /\ offset[f] <= offset'[f] /\ offset'[f] <= Len(content[f])
                          /\ AtEnd(f) => AtEnd(f)'
         /\ offset'[fd] = offset[fd] + Len(buff)
         /\ rd' \in BOOLEAN
         /\ ~rd' => AtEnd(fd)'
  <1>1. /\ Len(buff) \in Nat /\ offset[fd] + Len(buff) <= Len(content[fd])
        /\ buff = <<>> <=> AtEnd(fd)
    BY ReadsFollow
  <1>2. offset \in [Fd -> Nat] /\ fd \in Fd /\ \A f \in Fd : offset[f] <= Len(content[f])
    BY DEF TypeOK
  <1>3. offset' = [offset EXCEPT ![fd] = offset[fd] + Len(buff)] /\ rd' = (buff # <<>>)
    BY DEF Read, GoesOn
  <1>4. offset' \in [Fd -> Nat] /\ offset'[fd] = offset[fd] + Len(buff)
        /\ \A f \in Fd \ {fd} : offset'[f] = offset[f]
    BY <1>1, <1>2, <1>3
  <1>5. buff = <<>> => Len(buff) = 0
    BY EmptySeq
  <1>6. \A f \in Fd : AtEnd(f) => offset'[f] = Len(content[f])
    BY <1>1, <1>2, <1>4, <1>5 DEF AtEnd
  <1>7. \A f \in Fd : AtEnd(f) => AtEnd(f)'
    BY <1>6 DEF AtEnd
  <1>8. \A f \in Fd : offset[f] \in Nat
    BY <1>2
  <1>9. \A f \in Fd : offset[f] <= offset'[f] /\ offset'[f] <= Len(content[f])
    BY <1>1, <1>2, <1>4, <1>8
  <1>10. QED
    BY <1>1, <1>2, <1>3, <1>4, <1>7, <1>9

\* What has been returned remains a whole line.
LEMMA ReturnedStays ==
  ASSUME Inv, content' = content, returned' = returned,
         \A f \in Fd : AtEnd(f) => AtEnd(f)'
  PROVE  LinesWhole' /\ \A k \in DOMAIN returned' : returned'[k] = returned[k]
  <1>1. \A k \in DOMAIN returned : returned[k].fd \in Fd
    <2>1. returned \in Seq([fd : Fd, text : Seq(Bytes)])
      BY DEF Inv, TypeOK
    <2>2. DOMAIN returned = 1..Len(returned)
      BY <2>1, LenProperties
    <2>3. \A k \in DOMAIN returned : returned[k] \in [fd : Fd, text : Seq(Bytes)]
      BY <2>1, <2>2, ElementOfSeq
    <2>4. QED
      BY <2>3
  <1>2. \A text : NewlinesOf(text)' = NewlinesOf(text)
    BY DEF NewlinesOf, IsNewline
  <1>3. QED
    BY <1>1, <1>2 DEF Inv, LinesWhole

\* A call that returns a line returns a whole one, and its file's own if the text was.
LEMMA LineReturned ==
  ASSUME Inv, ReturnsLine, pc = "read", ~Reading, line # <<>>,
         content' = content, offset' = offset
  PROVE  /\ LinesWhole'
         /\ returned' \in Seq([fd : Fd, text : Seq(Bytes)])
         /\ (\A k \in DOMAIN line : line[k].of = fd) /\ drained /\ ~failed =>
              \A k \in DOMAIN returned' : \A j \in DOMAIN returned'[k].text :
                returned'[k].text[j].of = returned'[k].fd
  <1> DEFINE first == SubSeq(line, 1, LineEnd(line))
             answer == [fd |-> fd, text |-> first]
  <1>1. line \in Seq(Bytes) /\ fd \in Fd /\ returned \in Seq([fd : Fd, text : Seq(Bytes)])
        /\ rd \in BOOLEAN
    BY DEF Inv, TypeOK
  <1>2. /\ first \in Seq(Bytes) /\ first # <<>>
        /\ \A k \in DOMAIN first : k \in DOMAIN line /\ first[k] = line[k]
        /\ NewlinesOf(first) \subseteq {Len(first)}
        /\ NewlinesOf(first) = {} => NewlinesOf(line) = {}
    BY <1>1, FirstLine
  <1>3. NewlinesOf(line) = {} => AtEnd(fd)
    BY <1>1 DEF Reading, Inv, StoppedAtEnd
  <1>4. returned' = Append(returned, answer)
    BY DEF ReturnsLine
  <1> HIDE DEF first
  <1>5. answer \in [fd : Fd, text : Seq(Bytes)]
    BY <1>1, <1>2
  <1> HIDE DEF answer
  <1>6. /\ returned' \in Seq([fd : Fd, text : Seq(Bytes)])
        /\ Len(returned') = Len(returned) + 1
        /\ \A k \in 1..Len(returned) : returned'[k] = returned[k]
        /\ returned'[Len(returned)+1] = answer
    BY <1>1, <1>4, <1>5, AppendProperties
  <1>7. DOMAIN returned' = 1..Len(returned)+1 /\ DOMAIN returned = 1..Len(returned)
        /\ Len(returned) \in Nat
    BY <1>1, <1>6, LenProperties
  <1>8. \A k \in DOMAIN returned' : \/ k \in DOMAIN returned /\ returned'[k] = returned[k]
                                    \/ returned'[k] = answer
    BY <1>6, <1>7
  <1>9. answer.fd = fd /\ answer.text = first
    BY DEF answer
  <1>10. LinesWhole'
    <2>1. \A text : NewlinesOf(text)' = NewlinesOf(text)
      BY DEF NewlinesOf, IsNewline
    <2>2. \A f : AtEnd(f)' <=> AtEnd(f)
      BY DEF AtEnd
    <2> SUFFICES ASSUME NEW k \in DOMAIN returned'
                 PROVE  /\ returned'[k].text # <<>>
                        /\ NewlinesOf(returned'[k].text) \subseteq {Len(returned'[k].text)}
                        /\ NewlinesOf(returned'[k].text) = {} => AtEnd(returned'[k].fd)
      BY <2>1, <2>2 DEF LinesWhole
    <2>3. CASE k \in DOMAIN returned /\ returned'[k] = returned[k]
      BY <2>3 DEF Inv, LinesWhole
    <2>4. CASE returned'[k] = answer
      BY <1>2, <1>3, <1>9, <2>4
    <2>5. QED
      BY <1>8, <2>3, <2>4
  <1>11. ASSUME \A k \in DOMAIN line : line[k].of = fd, drained, ~failed,
                NEW k \in DOMAIN returned', NEW j \in DOMAIN returned'[k].text
         PROVE  returned'[k].text[j].of = returned'[k].fd
    <2>1. CASE k \in DOMAIN returned /\ returned'[k] = returned[k]
      BY <1>11, <2>1 DEF Inv, OwnText
    <2>2. CASE returned'[k] = answer
      BY <1>2, <1>9, <1>11, <2>2
    <2>3. QED
      BY <1>8, <2>1, <2>2
  <1>12. QED
    BY <1>6, <1>10, <1>11

\* Text that was read before is still so later.
LEMMA ReadStaysRead ==
  ASSUME TypeOK, \A f \in Fd : offset[f] <= offset'[f], offset' \in [Fd -> Nat]
  PROVE  \A k \in DOMAIN line : line[k].of \in Fd /\ line[k].at <= offset'[line[k].of]
  <1> SUFFICES ASSUME NEW k \in DOMAIN line
               PROVE  line[k].of \in Fd /\ line[k].at <= offset'[line[k].of]
    OBVIOUS
  <1>1. line[k] \in Bytes
    BY LenProperties, ElementOfSeq DEF TypeOK
  <1>2. line[k].of \in Fd /\ line[k].at \in Nat
    BY <1>1 DEF Bytes
  <1>3. /\ offset[line[k].of] \in Nat /\ offset'[line[k].of] \in Nat
        /\ offset[line[k].of] <= offset'[line[k].of]
        /\ line[k].at <= offset[line[k].of]
    BY <1>2 DEF TypeOK
  <1>4. QED
    BY <1>2, <1>3

LEMMA CallPreservesInv == Inv /\ get_next_line => Inv'
  <1> SUFFICES ASSUME Inv, get_next_line PROVE Inv'
    OBVIOUS
  <1>1. PICK f \in Fd : Called(f)
    BY DEF get_next_line
  <1>2. fd' \in Fd /\ drained' \in BOOLEAN
    BY <1>1 DEF Called, Inv, TypeOK
  <1>3. TypeOK'
    BY <1>2 DEF get_next_line, Inv, TypeOK
  <1>4. LinesWhole'
    BY ReturnedStays DEF get_next_line, AtEnd
  <1>5. drained' /\ ~failed => drained /\ (line = <<>> \/ fd' = fd)
    BY <1>1 DEF Called, get_next_line, Inv, RestHeld
  <1>6. line = <<>> => DOMAIN line = {}
    BY EmptySeq, LenProperties
  <1>7. RestHeld'
    BY <1>5, <1>6 DEF get_next_line, Inv, RestHeld
  <1>8. OwnText'
    BY <1>5 DEF get_next_line, Inv, OwnText
  <1>9. StoppedAtEnd'
    BY DEF get_next_line, StoppedAtEnd
  <1>10. QED
    BY <1>3, <1>4, <1>7, <1>8, <1>9 DEF Inv

\* A call that fails, with nothing held and nothing returned.
LEMMA FailurePreservesInv ==
  ASSUME Inv, ReturnsNull, failed' = TRUE, fd' \in Fd, drained' \in BOOLEAN,
         content' = content, offset' = offset, line' \in Seq(Bytes),
         \A k \in DOMAIN line' : \E j \in DOMAIN line : line'[k] = line[j]
  PROVE  Inv'
  <1>1. TypeOK'
    <2>1. \A k \in DOMAIN line' : line'[k].at <= offset'[line'[k].of]
      BY DEF Inv, TypeOK
    <2>2. QED
      BY <2>1 DEF Inv, TypeOK, ReturnsNull
  <1>2. LinesWhole'
    BY ReturnedStays DEF ReturnsNull, AtEnd
  <1>3. RestHeld' /\ OwnText' /\ StoppedAtEnd'
    BY DEF ReturnsNull, RestHeld, OwnText, StoppedAtEnd
  <1>4. QED
    BY <1>1, <1>2, <1>3 DEF Inv

LEMMA NothingHeld == <<>> \in Seq(Bytes) /\ DOMAIN <<>> = {}
  BY EmptySeq, LenProperties

LEMMA BufferPreservesInv == Inv /\ (buffer_fails \/ read_fails) => Inv'
  <1> SUFFICES ASSUME Inv, buffer_fails \/ read_fails PROVE Inv'
    OBVIOUS
  <1>1. fd' \in Fd /\ drained' \in BOOLEAN
    BY DEF buffer_fails, read_fails, Called, Inv, TypeOK
  <1>2. /\ ReturnsNull /\ failed' = TRUE /\ content' = content /\ offset' = offset
        /\ line' = <<>>
    BY DEF buffer_fails, read_fails, Fails
  <1>3. QED
    BY <1>1, <1>2, NothingHeld, FailurePreservesInv

LEMMA ReadPreservesInv == Inv /\ (read_joined \/ join_fails) => Inv'
  <1> SUFFICES ASSUME Inv, read_joined \/ join_fails PROVE Inv'
    OBVIOUS
  <1>1. PICK buff \in Reads : /\ Read(buff)
                              /\ \/ line' = line \o buff /\ failed' = failed
                                 \/ line' = <<>> /\ failed' = TRUE
    BY DEF read_joined, join_fails, Fails
  <1>2. /\ content' = content /\ pc' = pc /\ fd' = fd /\ returned' = returned
        /\ null' = null /\ drained' = drained /\ pc = "read"
    BY DEF read_joined, join_fails, Reading
  <1>3. /\ offset' \in [Fd -> Nat]
        /\ \A f \in Fd : /\ offset[f] <= offset'[f] /\ offset'[f] <= Len(content[f])
                         /\ AtEnd(f) => AtEnd(f)'
        /\ offset'[fd] = offset[fd] + Len(buff)
        /\ rd' \in BOOLEAN
        /\ ~rd' => AtEnd(fd)'
    BY <1>1, <1>2, EndStaysEnd DEF Inv
  <1>4. /\ buff \in Seq(Bytes) /\ Len(buff) \in Nat /\ DOMAIN buff = 1..Len(buff)
        /\ \A k \in DOMAIN buff : buff[k].of = fd /\ buff[k].at <= offset[fd] + Len(buff)
    BY ReadsFollow DEF Inv
  <1>5. line \in Seq(Bytes) /\ Len(line) \in Nat /\ DOMAIN line = 1..Len(line) /\ fd \in Fd
    BY LenProperties DEF Inv, TypeOK
  <1>6. \A k \in DOMAIN line : line[k].of \in Fd /\ line[k].at <= offset'[line[k].of]
    BY <1>3, ReadStaysRead DEF Inv
  <1>7. /\ line' \in Seq(Bytes)
        /\ \A k \in DOMAIN line' :
             \/ \E j \in DOMAIN line : line'[k] = line[j]
             \/ \E j \in DOMAIN buff : line'[k] = buff[j]
    <2>1. CASE line' = <<>>
      BY <2>1, NothingHeld
    <2>2. CASE line' = line \o buff
      <3> DEFINE joined == line \o buff
      <3>1. /\ joined \in Seq(Bytes) /\ Len(joined) = Len(line) + Len(buff)
            /\ \A k \in 1..Len(line) + Len(buff) :
                 joined[k] = IF k <= Len(line) THEN line[k] ELSE buff[k - Len(line)]
        BY <1>4, <1>5, ConcatProperties
      <3> HIDE DEF joined
      <3>2. DOMAIN joined = 1..Len(line) + Len(buff)
        BY <3>1, LenProperties
      <3>3. \A k \in DOMAIN joined : \/ k \in DOMAIN line /\ joined[k] = line[k]
                                     \/ k - Len(line) \in DOMAIN buff /\ joined[k] = buff[k - Len(line)]
        BY <1>4, <1>5, <3>1, <3>2
      <3>4. line' = joined
        BY <2>2 DEF joined
      <3>5. QED
        BY <3>1, <3>3, <3>4
    <2>3. QED
      BY <1>1, <2>1, <2>2
  <1>8. \A k \in DOMAIN line' : line'[k].at <= offset'[line'[k].of]
    BY <1>3, <1>4, <1>6, <1>7
  <1>9. TypeOK'
    <2>1. \A f \in Fd : offset'[f] <= Len(content'[f])
      BY <1>2, <1>3
    <2>2. failed' \in BOOLEAN
      BY <1>1 DEF Inv, TypeOK
    <2>3. QED
      BY <1>2, <1>3, <1>7, <1>8, <2>1, <2>2 DEF Inv, TypeOK
  <1>10. LinesWhole'
    BY <1>2, <1>3, ReturnedStays
  <1>11. RestHeld' /\ OwnText'
    <2>1. failed \in BOOLEAN /\ failed' \in BOOLEAN
      BY <1>1 DEF Inv, TypeOK
    <2>2. ~failed' => ~failed
      BY <1>1
    <2>3. ~failed' /\ drained => \A k \in DOMAIN line' : line'[k].of = fd
      BY <1>4, <1>7, <2>2 DEF Inv, RestHeld
    <2>4. QED
      BY <1>2, <2>2, <2>3 DEF Inv, RestHeld, OwnText
  <1>12. StoppedAtEnd'
    BY <1>2, <1>3 DEF StoppedAtEnd, AtEnd
  <1>13. QED
    BY <1>9, <1>10, <1>11, <1>12 DEF Inv

LEMMA ReturnPreservesInv == Inv /\ (line_returned \/ line_lost \/ rest_lost) => Inv'
  <1> SUFFICES ASSUME Inv, line_returned \/ line_lost \/ rest_lost PROVE Inv'
    OBVIOUS
  <1>1. /\ pc = "read" /\ ~Reading /\ pc' = "idle" /\ rd' = FALSE
        /\ content' = content /\ offset' = offset /\ fd' = fd /\ drained' = drained
    BY DEF line_returned, line_lost, rest_lost, ReturnsNull, ReturnsLine
  <1>2. /\ line \in Seq(Bytes) /\ fd \in Fd /\ drained \in BOOLEAN /\ failed \in BOOLEAN
        /\ \A k \in DOMAIN line : line[k].at <= offset[line[k].of]
    BY DEF Inv, TypeOK
  <1>3. /\ line' \in Seq(Bytes)
        /\ \A k \in DOMAIN line' : \E j \in DOMAIN line : line'[k] = line[j]
        /\ line = <<>> => Rest = <<>>
    BY <1>2, RestOfLine, NothingHeld DEF line_returned, line_lost, rest_lost
  <1>4. CASE ReturnsNull /\ failed' = TRUE
    BY <1>1, <1>2, <1>3, <1>4, FailurePreservesInv
  <1>5. CASE ReturnsNull /\ failed' = failed /\ line = <<>> /\ line' = Rest
    <2>1. TypeOK'
      <3>1. \A k \in DOMAIN line' : line'[k].at <= offset'[line'[k].of]
        BY <1>1, <1>2, <1>3
      <3>2. QED
        BY <1>1, <1>3, <1>5, <3>1 DEF Inv, TypeOK, ReturnsNull
    <2>2. LinesWhole'
      BY <1>1, <1>5, ReturnedStays DEF ReturnsNull, AtEnd
    <2>3. RestHeld' /\ OwnText' /\ StoppedAtEnd'
      BY <1>1, <1>3, <1>5, NothingHeld DEF ReturnsNull, Inv, RestHeld, OwnText, StoppedAtEnd
    <2>4. QED
      BY <2>1, <2>2, <2>3 DEF Inv
  <1>6. CASE ReturnsLine /\ line # <<>> /\ (failed' = failed \/ failed' = TRUE)
    <2>1. /\ LinesWhole'
          /\ returned' \in Seq([fd : Fd, text : Seq(Bytes)])
          /\ (\A k \in DOMAIN line : line[k].of = fd) /\ drained /\ ~failed =>
               \A k \in DOMAIN returned' : \A j \in DOMAIN returned'[k].text :
                 returned'[k].text[j].of = returned'[k].fd
      BY <1>1, <1>6, LineReturned
    <2>2. TypeOK'
      <3>1. \A k \in DOMAIN line' : line'[k].at <= offset'[line'[k].of]
        BY <1>1, <1>2, <1>3
      <3>2. failed' \in BOOLEAN /\ null' = FALSE
        BY <1>2, <1>6 DEF ReturnsLine
      <3>3. QED
        BY <1>1, <1>3, <2>1, <3>1, <3>2 DEF Inv, TypeOK
    <2>3. ~failed' => ~failed
      BY <1>6
    <2>4. ~failed' /\ drained => \A k \in DOMAIN line : line[k].of = fd
      BY <2>3 DEF Inv, RestHeld
    <2>5. RestHeld'
      BY <1>1, <1>3, <1>6, <2>4 DEF RestHeld, ReturnsLine
    <2>6. OwnText'
      BY <1>1, <2>1, <2>3, <2>4 DEF OwnText
    <2>7. StoppedAtEnd'
      BY <1>1 DEF StoppedAtEnd
    <2>8. QED
      BY <2>1, <2>2, <2>5, <2>6, <2>7 DEF Inv
  <1>7. CASE line_returned
    BY <1>5, <1>6, <1>7 DEF line_returned, NothingRead
  <1>8. CASE line_lost
    BY <1>4, <1>8 DEF line_lost, Fails
  <1>9. CASE rest_lost
    <2>1. line # <<>>
      BY <1>9, NothingHeld DEF rest_lost, NewlinesOf
    <2>2. QED
      BY <1>6, <1>9, <2>1 DEF rest_lost, Fails
  <1>10. QED
    BY <1>7, <1>8, <1>9

LEMMA StutterPreservesInv == Inv /\ UNCHANGED vars => Inv'
  BY DEF Inv, TypeOK, StoppedAtEnd, LinesWhole, RestHeld, OwnText, AtEnd, NewlinesOf,
         IsNewline, vars

THEOREM Invariance == Spec => []Inv
  <1>1. Inv /\ [Next]_vars => Inv'
    BY CallPreservesInv, BufferPreservesInv, ReadPreservesInv, ReturnPreservesInv,
       StutterPreservesInv DEF Next
  <1>2. QED
    BY <1>1, InitInv, PTL DEF Spec

-----------------------------------------------------------------------------
(* The order of what is returned and held.                                  *)

Texts(answers, rest) == Append([k \in DOMAIN answers |-> answers[k].text], rest)

\* A byte's place in some texts, before another one's.
Before(m, j, n, k) == m < n \/ (m = n /\ j < k)

Ordered(texts) ==
  \A m, n \in DOMAIN texts : \A j \in DOMAIN texts[m], k \in DOMAIN texts[n] :
    texts[m][j].of = texts[n][k].of /\ Before(m, j, n, k) => texts[m][j].at < texts[n][k].at

\* No text holds a byte that was not read: the next read() adds only later ones.
Within(texts, read) ==
  \A n \in DOMAIN texts : \A k \in DOMAIN texts[n] :
    texts[n][k].of \in Fd /\ texts[n][k].at \in Nat /\ texts[n][k].at <= read[texts[n][k].of]

Covering(texts, read) ==
  \A f \in Fd : \A at \in 1..read[f] : \E n \in DOMAIN texts : [of |-> f, at |-> at] \in Range(texts[n])

OrderInv == Ordered(Out) /\ Within(Out, offset) /\ (~failed => Covering(Out, offset))

LEMMA TextsAre ==
  ASSUME NEW answers \in Seq([fd : Fd, text : Seq(Bytes)]), NEW rest \in Seq(Bytes)
  PROVE  /\ Len(answers) \in Nat
         /\ DOMAIN answers = 1..Len(answers)
         /\ DOMAIN Texts(answers, rest) = 1..Len(answers)+1
         /\ \A n \in 1..Len(answers) : /\ Texts(answers, rest)[n] = answers[n].text
                                       /\ answers[n].text \in Seq(Bytes)
         /\ Texts(answers, rest)[Len(answers)+1] = rest
  <1> DEFINE texts == [k \in DOMAIN answers |-> answers[k].text]
  <1>1. Len(answers) \in Nat /\ DOMAIN answers = 1..Len(answers)
    BY LenProperties
  <1>2. \A n \in 1..Len(answers) : answers[n].text \in Seq(Bytes)
    <2>1. \A n \in 1..Len(answers) : answers[n] \in [fd : Fd, text : Seq(Bytes)]
      BY ElementOfSeq
    <2>2. QED
      BY <2>1
  <1>3. texts \in Seq(Seq(Bytes)) /\ Len(texts) = Len(answers)
    <2>1. texts \in [1..Len(answers) -> Seq(Bytes)]
      BY <1>1, <1>2
    <2>2. QED
      BY <1>1, <2>1, LenProperties
  <1>4. \A n \in 1..Len(answers) : texts[n] = answers[n].text
    BY <1>1
  <1> HIDE DEF texts
  <1>5. /\ Append(texts, rest) \in Seq(Seq(Bytes))
        /\ Len(Append(texts, rest)) = Len(texts) + 1
        /\ \A n \in 1..Len(texts) : Append(texts, rest)[n] = texts[n]
        /\ Append(texts, rest)[Len(texts)+1] = rest
    BY <1>3, AppendProperties
  <1>6. DOMAIN Append(texts, rest) = 1..Len(texts)+1
    BY <1>5, LenProperties
  <1>7. Texts(answers, rest) = Append(texts, rest)
    BY DEF Texts, texts
  <1>8. QED
    BY <1>1, <1>2, <1>3, <1>4, <1>5, <1>6, <1>7

\* A call that returns the line, or loses it, and holds the rest, or loses that too.
LEMMA CutKeepsOrder ==
  ASSUME TypeOK, Ordered(Out), Within(Out, offset),
         \/ returned' = returned
         \/ returned' = Append(returned, [fd |-> fd, text |-> SubSeq(line, 1, LineEnd(line))]),
         line' \in {<<>>, Rest}
  PROVE  /\ Ordered(Out') /\ Within(Out', offset)
         /\ Covering(Out, offset) /\ line' = Rest /\ (returned' = returned => line = <<>>) =>
              Covering(Out', offset)
  <1> DEFINE first == SubSeq(line, 1, LineEnd(line))
             answer == [fd |-> fd, text |-> first]
             size == Len(returned)
             last == Len(returned') + 1
             of == [n \in 1..last |-> IF n = last THEN size + 1 ELSE n]
             skip == [n \in 1..last |-> IF n = last THEN LineEnd(line) ELSE 0]
  <1>1. line \in Seq(Bytes) /\ fd \in Fd /\ returned \in Seq([fd : Fd, text : Seq(Bytes)])
    BY DEF TypeOK
  <1>2. /\ LineEnd(line) \in 0..Len(line) /\ Len(line) \in Nat /\ DOMAIN line = 1..Len(line)
        /\ LineEnd(line) \in Nat /\ LineEnd(line) <= Len(line)
    BY <1>1, LineEndLocated, LenProperties
  <1>3. /\ first \in Seq(Bytes) /\ DOMAIN first = 1..LineEnd(line)
        /\ \A k \in DOMAIN first : k \in DOMAIN line /\ first[k] = line[k]
    <2>1. 1 \in 1..Len(line)+1
      BY <1>2
    <2>2. /\ first \in Seq(Bytes) /\ DOMAIN first = 1..Len(first)
          /\ Len(first) = IF 1 <= LineEnd(line) THEN LineEnd(line) - 1 + 1 ELSE 0
          /\ \A k \in DOMAIN first : 1 + k - 1 \in DOMAIN line /\ first[k] = line[1 + k - 1]
      BY <1>1, <1>2, <2>1, PartOfText
    <2> HIDE DEF first
    <2>3. Len(first) = LineEnd(line)
      BY <1>2, <2>2
    <2>4. QED
      BY <1>2, <2>2, <2>3
  <1>4. /\ Rest \in Seq(Bytes) /\ DOMAIN Rest = 1..Len(line) - LineEnd(line)
        /\ \A k \in DOMAIN Rest : LineEnd(line) + k \in DOMAIN line /\ Rest[k] = line[LineEnd(line) + k]
    <2>1. LineEnd(line) + 1 \in 1..Len(line)+1 /\ Len(line) \in 0..Len(line)
      BY <1>2
    <2>2. /\ Rest \in Seq(Bytes) /\ DOMAIN Rest = 1..Len(Rest)
          /\ Len(Rest) = IF LineEnd(line) + 1 <= Len(line) THEN Len(line) - (LineEnd(line) + 1) + 1 ELSE 0
          /\ \A k \in DOMAIN Rest : /\ LineEnd(line) + 1 + k - 1 \in DOMAIN line
                                    /\ Rest[k] = line[LineEnd(line) + 1 + k - 1]
      BY <1>1, <1>2, <2>1, PartOfText DEF Rest
    <2>3. Len(Rest) = Len(line) - LineEnd(line)
      BY <1>2, <2>2
    <2>4. QED
      BY <1>2, <2>2, <2>3
  <1>5. line' \in Seq(Bytes) /\ DOMAIN line' \subseteq DOMAIN Rest
        /\ \A k \in DOMAIN line' : LineEnd(line) + k \in DOMAIN line /\ line'[k] = line[LineEnd(line) + k]
    BY <1>4, NothingHeld
  <1> HIDE DEF first
  <1>6. /\ returned' \in Seq([fd : Fd, text : Seq(Bytes)])
        /\ size \in Nat /\ last \in Nat /\ last = Len(returned') + 1
        /\ \A n \in 1..size : returned'[n] = returned[n]
        /\ \/ returned' = returned /\ last = size + 1
           \/ last = size + 2 /\ returned'[size + 1].text = first
    <2>1. CASE returned' = returned
      BY <1>1, <2>1, LenProperties
    <2>2. CASE returned' = Append(returned, answer)
      <3>1. answer \in [fd : Fd, text : Seq(Bytes)] /\ answer.text = first
        BY <1>1, <1>3
      <3> HIDE DEF answer
      <3>2. QED
        BY <1>1, <2>2, <3>1, AppendProperties, LenProperties
    <2>3. QED
      BY <2>1, <2>2 DEF first
  <1>7. /\ DOMAIN Out = 1..size+1
        /\ \A n \in 1..size : Out[n] = returned[n].text
        /\ Out[size + 1] = line
    BY <1>1, TextsAre DEF Out, Texts
  <1>8. /\ DOMAIN Out' = 1..last
        /\ \A n \in 1..last-1 : Out'[n] = returned'[n].text /\ Out'[n] \in Seq(Bytes)
        /\ Out'[last] = line'
    <2>1. Out' = Texts(returned', line')
      BY DEF Out, Texts
    <2>2. /\ DOMAIN Texts(returned', line') = 1..Len(returned')+1
          /\ \A n \in 1..Len(returned') : /\ Texts(returned', line')[n] = returned'[n].text
                                         /\ returned'[n].text \in Seq(Bytes)
          /\ Texts(returned', line')[Len(returned')+1] = line'
      BY <1>5, <1>6, TextsAre
    <2>3. Len(returned') = last - 1
      BY <1>6, LenProperties
    <2>4. QED
      BY <2>1, <2>2, <2>3
  <1> HIDE DEF size, last
  <1>9. \A n \in 1..last : \/ n \in 1..size /\ Out'[n] = Out[n]
                           \/ n = size + 1 /\ n # last /\ last = size + 2 /\ Out'[n] = first
                           \/ n = last /\ Out'[n] = line'
    <2> SUFFICES ASSUME NEW n \in 1..last, n # last
                 PROVE  \/ n \in 1..size /\ Out'[n] = Out[n]
                        \/ n = size + 1 /\ last = size + 2 /\ Out'[n] = first
      BY <1>8
    <2>1. Out'[n] = returned'[n].text /\ (n \in 1..size \/ (n = size + 1 /\ last = size + 2))
      BY <1>6, <1>8
    <2>2. n \in 1..size => Out'[n] = Out[n]
      BY <1>6, <1>7, <2>1
    <2>3. QED
      BY <1>6, <2>1, <2>2
  <1>10. \A n \in DOMAIN Out' : \A k \in DOMAIN Out'[n] :
           /\ k \in Nat /\ of[n] \in DOMAIN Out
           /\ skip[n] + k \in DOMAIN Out[of[n]] /\ Out'[n][k] = Out[of[n]][skip[n] + k]
           /\ n # last => k = skip[n] + k
           /\ n = size + 1 /\ n # last => k <= LineEnd(line)
    <2> SUFFICES ASSUME NEW n \in DOMAIN Out', NEW k \in DOMAIN Out'[n]
                 PROVE  /\ k \in Nat /\ of[n] \in DOMAIN Out
                        /\ skip[n] + k \in DOMAIN Out[of[n]] /\ Out'[n][k] = Out[of[n]][skip[n] + k]
                        /\ n # last => k = skip[n] + k
                        /\ n = size + 1 /\ n # last => k <= LineEnd(line)
      OBVIOUS
    <2>1. k \in Nat
      <3>1. Out'[n] \in Seq(Bytes)
        BY <1>5, <1>6, <1>8
      <3>2. QED
        BY <3>1, LenProperties
    <2>2. CASE n \in 1..size /\ Out'[n] = Out[n]
      BY <1>6, <1>7, <2>1, <2>2
    <2>3. CASE n = size + 1 /\ n # last /\ last = size + 2 /\ Out'[n] = first
      <3>1. of[n] = size + 1 /\ skip[n] = 0 /\ size + 1 \in DOMAIN Out /\ Out[size + 1] = line
        BY <1>6, <1>7, <1>8, <2>3
      <3>2. k \in DOMAIN line /\ first[k] = line[k] /\ k <= LineEnd(line) /\ k = 0 + k
        BY <1>2, <1>3, <2>1, <2>3
      <3> HIDE DEF of, skip
      <3>3. QED
        BY <2>1, <2>3, <3>1, <3>2
    <2>4. CASE n = last /\ Out'[n] = line'
      BY <1>2, <1>5, <1>6, <1>7, <1>8, <2>1, <2>4
    <2>5. QED
      BY <1>8, <1>9, <2>2, <2>3, <2>4
  <1>11. \A m, n \in DOMAIN Out' : \A j \in DOMAIN Out'[m], k \in DOMAIN Out'[n] :
           Before(m, j, n, k) => Before(of[m], skip[m] + j, of[n], skip[n] + k)
    <2> SUFFICES ASSUME NEW m \in DOMAIN Out', NEW n \in DOMAIN Out',
                        NEW j \in DOMAIN Out'[m], NEW k \in DOMAIN Out'[n], Before(m, j, n, k)
                 PROVE  Before(of[m], skip[m] + j, of[n], skip[n] + k)
      OBVIOUS
    <2>1. j \in Nat /\ k \in Nat /\ j >= 1 /\ k >= 1
      <3>1. Out'[m] \in Seq(Bytes) /\ Out'[n] \in Seq(Bytes)
        BY <1>5, <1>6, <1>8
      <3>2. QED
        BY <3>1, LenProperties
    <2>2. m # last => j = skip[m] + j /\ (m = size + 1 => j <= LineEnd(line))
      BY <1>10
    <2>3. QED
      BY <1>2, <1>6, <1>8, <2>1, <2>2 DEF Before
  <1>12. Ordered(Out') /\ Within(Out', offset)
    <2> HIDE DEF of, skip
    <2>1. \A n \in DOMAIN Out' : \A k \in DOMAIN Out'[n] :
            of[n] \in DOMAIN Out /\ skip[n] + k \in DOMAIN Out[of[n]] /\ Out'[n][k] = Out[of[n]][skip[n] + k]
      BY <1>10
    <2>2. Within(Out', offset)
      BY <2>1 DEF Within
    <2>3. Ordered(Out')
      BY <1>11, <2>1 DEF Ordered
    <2>4. QED
      BY <2>2, <2>3
  <1>13. ASSUME Covering(Out, offset), line' = Rest, returned' = returned => line = <<>>
         PROVE  Covering(Out', offset)
    <2> SUFFICES ASSUME NEW f \in Fd, NEW at \in 1..offset[f]
                 PROVE  \E n \in DOMAIN Out' : [of |-> f, at |-> at] \in Range(Out'[n])
      BY DEF Covering
    <2>1. PICK n \in DOMAIN Out : [of |-> f, at |-> at] \in Range(Out[n])
      BY <1>13 DEF Covering
    <2>2. CASE n \in 1..size
      <3>1. n \in 1..last /\ n # size + 1 /\ n # last
        BY <1>6, <2>2
      <3>2. n \in DOMAIN Out' /\ Out'[n] = Out[n]
        BY <1>8, <1>9, <3>1
      <3>3. QED
        BY <2>1, <3>2
    <2>3. CASE n = size + 1
      <3>1. PICK k \in DOMAIN line : line[k] = [of |-> f, at |-> at]
        BY <1>7, <2>1, <2>3 DEF Range
      <3>2. line # <<>>
        BY <3>1, NothingHeld
      <3>3. last = size + 2 /\ Out'[size + 1] = first /\ Out'[last] = Rest
        BY <1>6, <1>7, <1>8, <1>13, <3>2
      <3>4. \/ k \in DOMAIN first /\ first[k] = line[k]
            \/ k - LineEnd(line) \in DOMAIN Rest /\ Rest[k - LineEnd(line)] = line[k]
        BY <1>2, <1>3, <1>4
      <3>5. size + 1 \in DOMAIN Out' /\ last \in DOMAIN Out'
        BY <1>6, <1>8, <3>3
      <3>6. QED
        BY <3>1, <3>3, <3>4, <3>5 DEF Range
    <2>4. QED
      BY <1>6, <1>7, <2>2, <2>3
  <1>14. QED
    BY <1>12, <1>13

\* A read(), and the join behind it or its failure: the bytes of the read are behind all
\* that was read of the file.
LEMMA ReadKeepsOrder ==
  ASSUME TypeOK, Ordered(Out), Within(Out, offset), NEW buff \in Reads, Read(buff),
         content' = content, fd' = fd, returned' = returned, line' \in {<<>>, line \o buff}
  PROVE  /\ Ordered(Out') /\ Within(Out', offset')
         /\ Covering(Out, offset) /\ line' = line \o buff => Covering(Out', offset')
  <1> DEFINE size == Len(returned)
  <1>1. line \in Seq(Bytes) /\ fd \in Fd /\ returned \in Seq([fd : Fd, text : Seq(Bytes)])
        /\ Len(line) \in Nat /\ DOMAIN line = 1..Len(line) /\ size \in Nat /\ offset \in [Fd -> Nat]
    BY LenProperties DEF TypeOK
  <1>2. /\ buff \in Seq(Bytes) /\ Len(buff) \in Nat /\ DOMAIN buff = 1..Len(buff)
        /\ \A k \in DOMAIN buff : buff[k] = [of |-> fd, at |-> offset[fd] + k]
    BY ReadsFollow, ReadsFollowOn
  <1>3. /\ offset' \in [Fd -> Nat] /\ offset'[fd] = offset[fd] + Len(buff)
        /\ \A f \in Fd \ {fd} : offset'[f] = offset[f]
        /\ \A f \in Fd : offset[f] <= offset'[f]
    BY <1>1, <1>2, EndStaysEnd DEF Read
  <1>4. /\ line' \in Seq(Bytes)
        /\ \A k \in DOMAIN line' :
             /\ k \in Nat
             /\ \/ k \in DOMAIN line /\ line'[k] = line[k]
                \/ k > Len(line) /\ k - Len(line) \in DOMAIN buff /\ line'[k] = buff[k - Len(line)]
        /\ line' = line \o buff =>
             /\ \A k \in DOMAIN line : k \in DOMAIN line' /\ line'[k] = line[k]
             /\ \A k \in DOMAIN buff : Len(line) + k \in DOMAIN line' /\ line'[Len(line) + k] = buff[k]
    <2>1. CASE line' = line \o buff
      <3> DEFINE joined == line \o buff
      <3>1. /\ joined \in Seq(Bytes) /\ Len(joined) = Len(line) + Len(buff)
            /\ \A k \in 1..Len(line) + Len(buff) :
                 joined[k] = IF k <= Len(line) THEN line[k] ELSE buff[k - Len(line)]
        BY <1>1, <1>2, ConcatProperties
      <3>2. line' = joined
        BY <2>1
      <3> HIDE DEF joined
      <3>3. DOMAIN joined = 1..Len(line) + Len(buff)
        BY <3>1, LenProperties
      <3>4. \A k \in DOMAIN buff : Len(line) + k - Len(line) = k
        BY <1>1, <1>2
      <3>5. QED
        BY <1>1, <1>2, <3>1, <3>2, <3>3, <3>4
    <2>2. CASE line' # line \o buff
      BY <2>2, NothingHeld
    <2>3. QED
      BY <2>1, <2>2
  <1>5. /\ DOMAIN Out = 1..size+1
        /\ \A n \in 1..size : Out[n] = returned[n].text /\ Out[n] \in Seq(Bytes)
        /\ Out[size + 1] = line
    BY <1>1, TextsAre DEF Out, Texts
  <1>6. /\ DOMAIN Out' = 1..size+1
        /\ \A n \in 1..size : Out'[n] = returned[n].text
        /\ Out'[size + 1] = line'
    <2>1. Out' = Texts(returned, line')
      BY DEF Out, Texts
    <2>2. QED
      BY <1>1, <1>4, <2>1, TextsAre
  <1> HIDE DEF size
  <1>7. \A n \in DOMAIN Out' : \A k \in DOMAIN Out'[n] :
          \/ n \in DOMAIN Out /\ k \in DOMAIN Out[n] /\ Out'[n][k] = Out[n][k]
          \/ /\ n = size + 1 /\ k > Len(line) /\ k - Len(line) \in DOMAIN buff
             /\ Out'[n][k] = buff[k - Len(line)]
    <2> SUFFICES ASSUME NEW n \in DOMAIN Out', NEW k \in DOMAIN Out'[n]
                 PROVE  \/ n \in DOMAIN Out /\ k \in DOMAIN Out[n] /\ Out'[n][k] = Out[n][k]
                        \/ /\ n = size + 1 /\ k > Len(line) /\ k - Len(line) \in DOMAIN buff
                           /\ Out'[n][k] = buff[k - Len(line)]
      OBVIOUS
    <2>1. CASE n \in 1..size
      BY <1>5, <1>6, <2>1
    <2>2. CASE n = size + 1
      BY <1>4, <1>5, <1>6, <2>2
    <2>3. QED
      BY <1>1, <1>6, <2>1, <2>2
  <1>8. \A k \in DOMAIN buff : /\ buff[k].of = fd /\ buff[k].at = offset[fd] + k /\ k >= 1
                               /\ buff[k].at \in Nat /\ buff[k].at <= offset'[fd]
    BY <1>1, <1>2, <1>3
  <1>9. Within(Out', offset')
    <2> SUFFICES ASSUME NEW n \in DOMAIN Out', NEW k \in DOMAIN Out'[n]
                 PROVE  /\ Out'[n][k].of \in Fd /\ Out'[n][k].at \in Nat
                        /\ Out'[n][k].at <= offset'[Out'[n][k].of]
      BY DEF Within
    <2>1. CASE n \in DOMAIN Out /\ k \in DOMAIN Out[n] /\ Out'[n][k] = Out[n][k]
      <3>1. /\ Out[n][k].of \in Fd /\ Out[n][k].at \in Nat
            /\ Out[n][k].at <= offset[Out[n][k].of]
        BY <2>1 DEF Within
      <3>2. offset[Out[n][k].of] \in Nat /\ offset'[Out[n][k].of] \in Nat
            /\ offset[Out[n][k].of] <= offset'[Out[n][k].of]
        BY <1>1, <1>3, <3>1
      <3>3. QED
        BY <2>1, <3>1, <3>2
    <2>2. CASE k - Len(line) \in DOMAIN buff /\ Out'[n][k] = buff[k - Len(line)]
      BY <1>1, <1>8, <2>2
    <2>3. QED
      BY <1>7, <2>1, <2>2
  <1>10. Ordered(Out')
    <2> SUFFICES ASSUME NEW m \in DOMAIN Out', NEW n \in DOMAIN Out',
                        NEW j \in DOMAIN Out'[m], NEW k \in DOMAIN Out'[n],
                        Out'[m][j].of = Out'[n][k].of, Before(m, j, n, k)
                 PROVE  Out'[m][j].at < Out'[n][k].at
      BY DEF Ordered
    <2>1. CASE n \in DOMAIN Out /\ k \in DOMAIN Out[n] /\ Out'[n][k] = Out[n][k]
      <3>1. m \in DOMAIN Out /\ j \in DOMAIN Out[m] /\ Out'[m][j] = Out[m][j]
        <4>1. m # size + 1 => m \in 1..size /\ Out'[m] = Out[m]
          BY <1>1, <1>5, <1>6
        <4>2. CASE m = size + 1
          <5>1. n = size + 1 /\ j < k /\ k \in 1..Len(line)
            BY <1>1, <1>5, <1>6, <2>1, <4>2 DEF Before
          <5>2. ~(j > Len(line))
            <6>1. j \in Nat
              BY <1>4, <1>6, <4>2
            <6>2. QED
              BY <1>1, <5>1, <6>1
          <5>3. QED
            BY <1>7, <5>2
        <4>3. QED
          BY <1>5, <1>6, <4>1, <4>2
      <3>2. QED
        BY <2>1, <3>1 DEF Ordered
    <2>2. CASE n = size + 1 /\ k - Len(line) \in DOMAIN buff /\ Out'[n][k] = buff[k - Len(line)]
      <3>1. Out'[n][k].of = fd /\ Out'[n][k].at = offset[fd] + (k - Len(line)) /\ k - Len(line) >= 1
        BY <1>8, <2>2
      <3>2. k \in Nat
        BY <1>4, <1>6, <2>2
      <3>3. CASE m \in DOMAIN Out /\ j \in DOMAIN Out[m] /\ Out'[m][j] = Out[m][j]
        <4>1. Out[m][j].of = fd /\ Out[m][j].at \in Nat /\ Out[m][j].at <= offset[fd]
          BY <3>1, <3>3 DEF Within
        <4>2. QED
          BY <1>1, <3>1, <3>2, <3>3, <4>1
      <3>4. CASE m = size + 1 /\ j - Len(line) \in DOMAIN buff /\ Out'[m][j] = buff[j - Len(line)]
        <4>1. j \in Nat /\ j < k
          BY <1>1, <1>4, <1>6, <2>2, <3>4 DEF Before
        <4>2. Out'[m][j].at = offset[fd] + (j - Len(line))
          BY <1>8, <3>4
        <4>3. QED
          BY <1>1, <3>1, <3>2, <4>1, <4>2
      <3>5. QED
        BY <1>7, <3>3, <3>4
    <2>3. QED
      BY <1>7, <2>1, <2>2
  <1>11. ASSUME Covering(Out, offset), line' = line \o buff
         PROVE  Covering(Out', offset')
    <2> SUFFICES ASSUME NEW f \in Fd, NEW at \in 1..offset'[f]
                 PROVE  \E n \in DOMAIN Out' : [of |-> f, at |-> at] \in Range(Out'[n])
      BY DEF Covering
    <2>1. CASE at \in 1..offset[f]
      <3>1. PICK n \in DOMAIN Out : [of |-> f, at |-> at] \in Range(Out[n])
        BY <1>11, <2>1 DEF Covering
      <3>2. PICK k \in DOMAIN Out[n] : Out[n][k] = [of |-> f, at |-> at]
        BY <3>1 DEF Range
      <3>3. n \in DOMAIN Out' /\ k \in DOMAIN Out'[n] /\ Out'[n][k] = Out[n][k]
        <4>1. CASE n \in 1..size
          BY <1>5, <1>6, <3>2, <4>1
        <4>2. CASE n = size + 1
          BY <1>4, <1>5, <1>6, <1>11, <3>2, <4>2
        <4>3. QED
          BY <1>1, <1>5, <4>1, <4>2
      <3>4. QED
        BY <3>2, <3>3 DEF Range
    <2>2. CASE at \notin 1..offset[f]
      <3>1. f = fd /\ at - offset[fd] \in DOMAIN buff
        BY <1>1, <1>2, <1>3, <2>2
      <3>2. buff[at - offset[fd]] = [of |-> f, at |-> at]
        BY <1>1, <1>2, <3>1
      <3>3. /\ Len(line) + (at - offset[fd]) \in DOMAIN line'
            /\ line'[Len(line) + (at - offset[fd])] = [of |-> f, at |-> at]
        BY <1>4, <1>11, <3>1, <3>2
      <3>4. size + 1 \in DOMAIN Out' /\ [of |-> f, at |-> at] \in Range(Out'[size + 1])
        BY <1>1, <1>6, <3>3 DEF Range
      <3>5. QED
        BY <3>4
    <2>3. QED
      BY <2>1, <2>2
  <1>12. QED
    BY <1>9, <1>10, <1>11

LEMMA InitOrder == Init => OrderInv
  <1> SUFFICES ASSUME Init PROVE OrderInv
    OBVIOUS
  <1>1. <<>> \in Seq([fd : Fd, text : Seq(Bytes)]) /\ Len(<<>>) = 0
    BY EmptySeq
  <1>2. Out = Texts(<<>>, <<>>)
    BY DEF Init, Out, Texts
  <1>3. DOMAIN Out = 1..1 /\ Out[1] = <<>>
    <2>1. /\ DOMAIN Texts(<<>>, <<>>) = 1..Len(<<>>)+1
          /\ Texts(<<>>, <<>>)[Len(<<>>)+1] = <<>>
      BY <1>1, NothingHeld, TextsAre
    <2>2. QED
      BY <1>1, <1>2, <2>1
  <1>4. \A n \in DOMAIN Out : DOMAIN Out[n] = {}
    BY <1>3, NothingHeld
  <1>5. \A f \in Fd : 1..offset[f] = {}
    BY DEF Init
  <1>6. QED
    BY <1>4, <1>5 DEF OrderInv, Ordered, Within, Covering

LEMMA NextKeepsOrder == Inv /\ OrderInv /\ [Next]_vars => OrderInv'
  <1> SUFFICES ASSUME Inv, OrderInv, [Next]_vars PROVE OrderInv'
    OBVIOUS
  <1> USE DEF Inv, OrderInv
  <1>1. ASSUME returned' = returned, line' = line, offset' = offset, ~failed' => ~failed
        PROVE  OrderInv'
    <2>1. Out' = Out
      BY <1>1 DEF Out
    <2>2. QED
      BY <1>1, <2>1
  <1>2. ASSUME offset' = offset, failed' = TRUE, ReturnsNull, line' \in {<<>>, Rest}
        PROVE  OrderInv'
    BY <1>2, CutKeepsOrder DEF ReturnsNull
  <1>3. CASE get_next_line
    BY <1>1, <1>3 DEF get_next_line
  <1>4. CASE UNCHANGED vars
    BY <1>1, <1>4 DEF vars
  <1>5. CASE buffer_fails \/ read_fails
    BY <1>2, <1>5 DEF buffer_fails, read_fails, Fails
  <1>6. CASE read_joined \/ join_fails
    <2>1. PICK buff \in Reads : /\ Read(buff)
                                /\ \/ line' = line \o buff /\ failed' = failed
                                   \/ line' = <<>> /\ failed' = TRUE
      BY <1>6 DEF read_joined, join_fails, Fails
    <2>2. content' = content /\ fd' = fd /\ returned' = returned
      BY <1>6 DEF read_joined, join_fails
    <2>3. QED
      BY <2>1, <2>2, ReadKeepsOrder
  <1>7. CASE line_lost
    BY <1>2, <1>7 DEF line_lost, Fails
  <1>8. CASE line_returned
    <2>1. /\ line' = Rest /\ offset' = offset /\ failed' = failed
          /\ \/ returned' = returned /\ line = <<>>
             \/ returned' = Append(returned, [fd |-> fd, text |-> SubSeq(line, 1, LineEnd(line))])
      BY <1>8 DEF line_returned, ReturnsNull, ReturnsLine, NothingRead
    <2>2. QED
      BY <2>1, CutKeepsOrder
  <1>9. CASE rest_lost
    BY <1>9, CutKeepsOrder DEF rest_lost, ReturnsLine, Fails
  <1>10. QED
    BY <1>3, <1>4, <1>5, <1>6, <1>7, <1>8, <1>9 DEF Next

-----------------------------------------------------------------------------
(* The results.                                                             *)

\* No file is read behind its end and nothing is held or returned that was not read.
THEOREM TypeCorrect == Spec => []TypeOK
  <1>1. Inv => TypeOK
    BY DEF Inv
  <1>2. QED
    BY <1>1, Invariance, PTL

\* Every line that get_next_line() returns is a whole line, whatever the sizes of the
\* reads and whatever fails.
THEOREM LinesAreWhole == Spec => []LinesWhole
  <1>1. Inv => LinesWhole
    BY DEF Inv
  <1>2. QED
    BY <1>1, Invariance, PTL

\* A caller that reads each file to its NULL gets no other file's text from the variable
\* that all files share.
THEOREM TextIsOwn == Spec => []OwnText
  <1>1. Inv => OwnText
    BY DEF Inv
  <1>2. QED
    BY <1>1, Invariance, PTL

\* Whatever the sizes of the reads, the order of the calls and the failures, no byte of a
\* file is returned twice or out of its order, and as long as nothing has failed none is
\* missing.
THEOREM TextInOrder == Spec => []ReadInOrder
  <1>1. OrderInv => ReadInOrder
    BY DEF OrderInv, Ordered, Before, Covering, ReadInOrder
  <1>2. QED
    BY <1>1, InitOrder, NextKeepsOrder, Invariance, PTL DEF Spec

=============================================================================
