--------------------------- MODULE TempFileProofs ----------------------------
(***************************************************************************)
(* What holds of the temporary files of any number of shells, for any       *)
(* generator, any length of names and whatever files were there before.     *)
(***************************************************************************)
EXTENDS TempFile, SequenceTheorems, FiniteSetTheorems, WellFoundedInduction, TLAPS

\* A shell that writes has a file that it has made and that no other shell has.
WritersApart ==
  /\ \A s \in Shell : pc[s] = "write" =>
       /\ template[s] \in DOMAIN files
       /\ ~files[template[s]].closed
  /\ \A s, t \in Shell :
       pc[s] = "write" /\ pc[t] = "write" /\ template[s] = template[t] => s = t

Inv == TypeOK /\ WritersApart /\ OneFileEach /\ DocumentKept

LEMMA RandLetterType ==
  ASSUME NEW n \in Nat PROVE /\ NextSeed(n) \in Nat /\ RandLetter(n) \in Letter
<1>. USE TempFileAssumption
<1>1. n * Multiplier + Increment \in Nat
  OBVIOUS
<1>2. NextSeed(n) \in Nat
  BY <1>1 DEF NextSeed
<1>3. n \div Divisor \in Nat
  OBVIOUS
<1>4. Rand(n) \in Nat
  BY <1>3 DEF Rand
<1>. QED
  BY <1>2, <1>4 DEF RandLetter, Letter

LEMMA NoRedirections ==
  /\ <<>> \in Seq(Redirection)
  /\ DOMAIN <<>> = {}
BY EmptySeq

\* The redirections after one more here-document.
LEMMA RedirectedProperties ==
  ASSUME NEW rs \in Seq(Redirection), NEW name \in Name, NEW text \in Document \cup {NULL}
  PROVE  /\ Redirected(rs, name, text) \in Seq(Redirection)
         /\ DOMAIN Redirected(rs, name, text) = 1..Len(rs)+1
         /\ DOMAIN rs = 1..Len(rs) /\ Len(rs) \in Nat
         /\ \A i \in 1..Len(rs) : Redirected(rs, name, text)[i] = rs[i]
         /\ Redirected(rs, name, text)[Len(rs)+1] = [filename |-> name, text |-> text]
<1>1. [filename |-> name, text |-> text] \in Redirection
  BY DEF Redirection
<1>. HIDE DEF Redirection
<1>2. Len(rs) \in Nat /\ DOMAIN rs = 1..Len(rs)
  BY LenProperties
<1>. QED
  BY <1>1, <1>2, AppendProperties, LenProperties DEF Redirected

LEMMA InitInv == Init => Inv
<1>. SUFFICES ASSUME Init PROVE Inv
  OBVIOUS
<1>1. [k \in 1..NameLength |-> 0] \in Name
  BY TempFileAssumption DEF Name, Letter
<1>2. /\ pc \in [Shell -> {"idle", "search", "write"}]
      /\ seed \in [Shell -> Nat]
      /\ template \in [Shell -> Name]
      /\ content \in [Shell -> Document \cup {NULL}]
      /\ denied \in BOOLEAN /\ skipped \in BOOLEAN
  BY <1>1 DEF Init
<1>3. drawn \in [Shell -> 0..NameLength]
  BY TempFileAssumption DEF Init
<1>4. redirections \in [Shell -> Seq(Redirection)]
  BY NoRedirections DEF Init
<1>5. /\ files \in [DOMAIN files -> [text : Document \cup {NULL}, closed : BOOLEAN]]
      /\ DOMAIN files \subseteq Name
  BY TempFileAssumption DEF Init, File
<1>6. TypeOK
  BY <1>2, <1>3, <1>4, <1>5 DEF TypeOK
<1>7. WritersApart
  BY DEF Init, WritersApart
<1>8. \A s \in Shell : DOMAIN redirections[s] = {}
  BY NoRedirections DEF Init
<1>9. OneFileEach /\ DocumentKept
  BY <1>8 DEF OneFileEach, DocumentKept
<1>. QED
  BY <1>6, <1>7, <1>9 DEF Inv

LEMMA TypeStep == TypeOK /\ [Next]_vars => TypeOK'
<1>. SUFFICES ASSUME TypeOK, [Next]_vars PROVE TypeOK'
  OBVIOUS
<1>. USE DEF TypeOK
<1>1. ASSUME NEW s \in Shell, draw_letter(s) PROVE TypeOK'
  <2>1. seed' \in [Shell -> Nat] /\ RandLetter(NextSeed(seed[s])) \in Letter
    BY <1>1, RandLetterType DEF draw_letter
  <2>2. drawn[s] + 1 \in 1..NameLength /\ drawn' \in [Shell -> 0..NameLength]
    BY <1>1, TempFileAssumption DEF draw_letter
  <2>3. template' \in [Shell -> Name]
    BY <1>1, <2>1, <2>2 DEF draw_letter, Name
  <2>. QED
    BY <1>1, <2>1, <2>2, <2>3 DEF draw_letter
<1>2. ASSUME NEW s \in Shell, open_succeeds(s) PROVE TypeOK'
  BY <1>2 DEF open_succeeds, WithFile, File
<1>3. ASSUME NEW s \in Shell, open_fails(s) PROVE TypeOK'
  <2>1. KeptLetters \in 0..NameLength
    BY TempFileAssumption DEF KeptLetters
  <2>. QED
    BY <1>3, <2>1 DEF open_fails
<1>4. ASSUME NEW s \in Shell, write_document(s) PROVE TypeOK'
  <2>1. /\ files' \in [DOMAIN files' -> [text : Document \cup {NULL}, closed : BOOLEAN]]
        /\ DOMAIN files' \subseteq Name
    BY <1>4 DEF write_document, WithFile, File
  <2>2. Redirected(redirections[s], template[s], content[s]) \in Seq(Redirection)
    BY RedirectedProperties
  <2>3. redirections' \in [Shell -> Seq(Redirection)]
    BY <1>4, <2>2 DEF write_document
  <2>. QED
    BY <1>4, <2>1, <2>3 DEF write_document
<1>5. ASSUME NEW s \in Shell, heredoc(s) PROVE TypeOK'
  <2>1. 0 \in 0..NameLength
    BY TempFileAssumption
  <2>. QED
    BY <1>5, <2>1 DEF heredoc
<1>6. ASSUME NEW s \in Shell, line_done(s) PROVE TypeOK'
  BY <1>6, NoRedirections DEF line_done
<1>7. ASSUME NEW s \in Shell, interrupted(s) PROVE TypeOK'
  <2>1. [k \in 1..NameLength |-> 0] \in Name
    BY TempFileAssumption DEF Name, Letter
  <2>2. 0 \in 0..NameLength
    BY TempFileAssumption
  <2>. QED
    BY <1>7, <2>1, <2>2, NoRedirections DEF interrupted
<1>8. CASE directory_changes
  BY <1>8 DEF directory_changes, local
<1>9. CASE UNCHANGED vars
  BY <1>9 DEF vars, local
<1>. QED
  BY <1>1, <1>2, <1>3, <1>4, <1>5, <1>6, <1>7, <1>8, <1>9 DEF Next, Step

LEMMA WritersStep == Inv /\ [Next]_vars => WritersApart'
<1>. SUFFICES ASSUME Inv, [Next]_vars PROVE WritersApart'
  OBVIOUS
<1>. USE DEF Inv, TypeOK, WritersApart
<1>1. ASSUME NEW s \in Shell, draw_letter(s) PROVE WritersApart'
  BY <1>1 DEF draw_letter
<1>2. ASSUME NEW s \in Shell, open_succeeds(s) PROVE WritersApart'
  BY <1>2 DEF open_succeeds, Drawn, OpenSucceeds, WithFile, File
<1>3. ASSUME NEW s \in Shell, open_fails(s) PROVE WritersApart'
  BY <1>3 DEF open_fails
<1>4. ASSUME NEW s \in Shell, write_document(s) PROVE WritersApart'
  BY <1>4 DEF write_document, WithFile, File
<1>5. ASSUME NEW s \in Shell, heredoc(s) PROVE WritersApart'
  BY <1>5 DEF heredoc
<1>6. ASSUME NEW s \in Shell, line_done(s) PROVE WritersApart'
  BY <1>6 DEF line_done
<1>7. ASSUME NEW s \in Shell, interrupted(s) PROVE WritersApart'
  BY <1>7 DEF interrupted
<1>8. CASE directory_changes
  BY <1>8 DEF directory_changes, local
<1>9. CASE UNCHANGED vars
  BY <1>9 DEF vars, local
<1>. QED
  BY <1>1, <1>2, <1>3, <1>4, <1>5, <1>6, <1>7, <1>8, <1>9 DEF Next, Step

LEMMA FilesStep == Inv /\ [Next]_vars => (OneFileEach /\ DocumentKept)'
<1>. SUFFICES ASSUME Inv, [Next]_vars PROVE OneFileEach' /\ DocumentKept'
  BY DEF OneFileEach, DocumentKept
\* A new file takes the place of no file.
<1>1. ASSUME NEW s \in Shell, open_succeeds(s) PROVE OneFileEach' /\ DocumentKept'
  <2>1. DOMAIN files \subseteq DOMAIN files' /\ \A n \in DOMAIN files : files'[n] = files[n]
    BY <1>1 DEF open_succeeds, OpenSucceeds, WithFile
  <2>2. redirections' = redirections
    BY <1>1 DEF open_succeeds
  <2>3. OneFileEach'
    BY <2>2 DEF Inv, OneFileEach
  <2>4. DocumentKept'
    BY <2>1, <2>2 DEF Inv, DocumentKept, File
  <2>. QED
    BY <2>3, <2>4
\* The file that is closed was not, and so is none of those the redirections have.
<1>2. ASSUME NEW s \in Shell, write_document(s) PROVE OneFileEach' /\ DocumentKept'
  <2>. DEFINE last == [filename |-> template[s], text |-> content[s]]
  <2>. DEFINE new  == Redirected(redirections[s], template[s], content[s])
  <2>1. ~files[template[s]].closed /\ template[s] \in DOMAIN files
    BY <1>2 DEF write_document, WritersApart, Inv
  <2>2. ASSUME NEW t \in Shell, NEW i \in DOMAIN redirections[t]
        PROVE  redirections[t][i].filename # template[s]
    <3>1. files[redirections[t][i].filename] = [text |-> redirections[t][i].text, closed |-> TRUE]
      BY DEF File, DocumentKept, Inv
    <3>2. files[redirections[t][i].filename].closed = TRUE
      BY <3>1
    <3>. QED
      BY <2>1, <3>2
  <2>3. /\ DOMAIN new = 1..Len(redirections[s])+1
        /\ DOMAIN redirections[s] = 1..Len(redirections[s]) /\ Len(redirections[s]) \in Nat
        /\ \A i \in 1..Len(redirections[s]) : new[i] = redirections[s][i]
        /\ new[Len(redirections[s])+1] = last
    BY RedirectedProperties DEF Inv, TypeOK
  <2>4. redirections'[s] = new /\ \A t \in Shell \ {s} : redirections'[t] = redirections[t]
    BY <1>2 DEF write_document, Inv, TypeOK
  <2>. HIDE DEF new
  <2>5. ASSUME NEW t \in Shell, NEW i \in DOMAIN redirections'[t]
        PROVE  \/ i \in DOMAIN redirections[t] /\ redirections'[t][i] = redirections[t][i]
               \/ t = s /\ i = Len(redirections[s]) + 1 /\ redirections'[t][i] = last
    BY <2>3, <2>4
  <2>6. OneFileEach'
    <3>. SUFFICES ASSUME NEW t \in Shell, NEW u \in Shell,
                         NEW i \in DOMAIN redirections'[t], NEW j \in DOMAIN redirections'[u],
                         redirections'[t][i].filename = redirections'[u][j].filename
                  PROVE  t = u /\ i = j
      BY DEF OneFileEach
    <3>1. last.filename = template[s]
      OBVIOUS
    <3>. HIDE DEF last
    <3>. QED
      BY <2>2, <2>5, <3>1 DEF OneFileEach, Inv
  <2>7. /\ DOMAIN files' = DOMAIN files \cup {template[s]}
        /\ files'[template[s]] = File(content[s], TRUE)
        /\ \A n \in DOMAIN files \ {template[s]} : files'[n] = files[n]
    BY <1>2 DEF write_document, WithFile
  <2>8. DocumentKept'
    <3>. SUFFICES ASSUME NEW t \in Shell, NEW i \in DOMAIN redirections'[t]
                  PROVE  /\ redirections'[t][i].filename \in DOMAIN files'
                         /\ files'[redirections'[t][i].filename]
                              = File(redirections'[t][i].text, TRUE)
      BY DEF DocumentKept, File
    <3>1. last.filename = template[s] /\ last.text = content[s]
      OBVIOUS
    <3>. HIDE DEF last
    <3>2. CASE redirections'[t][i] = last
      BY <2>7, <3>1, <3>2 DEF File
    <3>3. CASE i \in DOMAIN redirections[t] /\ redirections'[t][i] = redirections[t][i]
      <4>. DEFINE name == redirections[t][i].filename
      <4>1. name \in DOMAIN files /\ files[name] = File(redirections[t][i].text, TRUE)
        BY <3>3 DEF DocumentKept, Inv
      <4>2. name \in DOMAIN files' /\ files'[name] = files[name]
        BY <2>2, <2>7, <3>3, <4>1
      <4>. QED
        BY <3>3, <4>1, <4>2 DEF File
    <3>. QED
      BY <2>5, <3>2, <3>3
  <2>. QED
    BY <2>6, <2>8
<1>3. ASSUME NEW s \in Shell, redirections' = [redirections EXCEPT ![s] = <<>>], files' = files
      PROVE  OneFileEach' /\ DocumentKept'
  <2>1. /\ DOMAIN redirections'[s] = {}
        /\ \A t \in Shell \ {s} : redirections'[t] = redirections[t]
    BY <1>3, NoRedirections DEF Inv, TypeOK
  <2>2. OneFileEach'
    BY <2>1 DEF Inv, OneFileEach
  <2>3. DocumentKept'
    BY <1>3, <2>1 DEF Inv, DocumentKept, File
  <2>. QED
    BY <2>2, <2>3
<1>4. CASE files' = files /\ redirections' = redirections
  BY <1>4 DEF Inv, OneFileEach, DocumentKept
<1>. QED
  BY <1>1, <1>2, <1>3, <1>4
  DEF Next, Step, draw_letter, open_fails, heredoc, line_done, interrupted,
      directory_changes, vars, local

LEMMA SpecInv == Spec => []Inv
<1>1. Inv /\ [Next]_vars => Inv'
  BY TypeStep, WritersStep, FilesStep DEF Inv
<1>. QED
  BY InitInv, <1>1, PTL DEF Spec

-----------------------------------------------------------------------------
\* The variables keep their types: every letter of a name is one, whatever the
\* numbers the generator makes.
THEOREM TypeCorrect == Spec => []TypeOK
BY SpecInv, PTL DEF Inv

\* Here-documents never share a file, although all shells draw the same names:
\* open() with O_EXCL gives a name to one of them only, and a file that was closed
\* keeps its name.
THEOREM OneFileEachHolds == Spec => []OneFileEach
BY SpecInv, PTL DEF Inv

\* A redirection's file holds what write() took of its own document for as long as the
\* redirection is there, whatever the other shells do and however often they are
\* interrupted.
THEOREM DocumentKeptHolds == Spec => []DocumentKept
BY SpecInv, PTL DEF Inv

-----------------------------------------------------------------------------
LEMMA StoreInit == Init => Store!Init
<1>. SUFFICES ASSUME Init PROVE Store!Init
  OBVIOUS
<1>1. Closed = {}
  BY DEF Init, Closed, File
<1>2. [n \in Closed |-> files[n].text] = <<>>
  BY <1>1
<1>. QED
  BY <1>2 DEF Init, Store!Init

LEMMA StoreStep == Inv /\ [Next]_vars => [Store!Next]_(Store!vars)
<1>. SUFFICES ASSUME Inv, [Next]_vars PROVE [Store!Next]_(Store!vars)
  OBVIOUS
<1>. USE DEF Inv, TypeOK
<1>. DEFINE stored == [n \in Closed |-> files[n].text]
<1>1. ASSUME NEW s \in Shell, open_succeeds(s) PROVE UNCHANGED Store!vars
  <2>1. Closed' = Closed /\ \A n \in Closed : files'[n] = files[n]
    BY <1>1 DEF open_succeeds, OpenSucceeds, WithFile, Closed, File
  <2>2. stored' = stored /\ redirections' = redirections
    BY <1>1, <2>1 DEF open_succeeds
  <2>. QED
    BY <2>2 DEF Store!vars
<1>2. ASSUME NEW s \in Shell, write_document(s) PROVE Store!Next
  <2>1. template[s] \in DOMAIN files /\ ~files[template[s]].closed
    BY <1>2 DEF write_document, WritersApart
  <2>2. /\ DOMAIN files' = DOMAIN files \cup {template[s]}
        /\ files'[template[s]] = File(content[s], TRUE)
        /\ \A n \in DOMAIN files \ {template[s]} : files'[n] = files[n]
    BY <1>2 DEF write_document, WithFile
  <2>3. Closed' = Closed \cup {template[s]} /\ template[s] \notin Closed
    BY <2>1, <2>2 DEF Closed, File
  <2>4. DOMAIN stored = Closed /\ template[s] \notin DOMAIN stored
    BY <2>3
  <2>5. stored' = [n \in DOMAIN stored \cup {template[s]} |->
                     IF n = template[s] THEN content[s] ELSE stored[n]]
    BY <2>2, <2>3 DEF File, Closed
  <2>6. redirections' = [redirections EXCEPT ![s] =
                           Append(@, [filename |-> template[s], text |-> content[s]])]
    BY <1>2 DEF write_document, Redirected
  <2>7. PICK name \in Name, text \in Document \cup {NULL} :
          name = template[s] /\ text = content[s]
    OBVIOUS
  <2>8. /\ name \notin DOMAIN stored
        /\ stored' = [n \in DOMAIN stored \cup {name} |->
                        IF n = name THEN text ELSE stored[n]]
        /\ redirections' = [redirections EXCEPT ![s] =
                              Append(@, [filename |-> name, text |-> text])]
    BY <2>4, <2>5, <2>6, <2>7
  <2>. QED
    BY <2>8 DEF Store!Next, Store!Store
<1>3. ASSUME NEW s \in Shell, line_done(s) PROVE Store!Next
  <2>1. Store!Release(s)
    BY <1>3 DEF line_done, Store!Release, Closed
  <2>. QED
    BY <2>1 DEF Store!Next
<1>4. ASSUME NEW s \in Shell, interrupted(s) PROVE Store!Next
  <2>1. Store!Release(s)
    BY <1>4 DEF interrupted, Store!Release, Closed
  <2>. QED
    BY <2>1 DEF Store!Next
<1>5. CASE UNCHANGED <<files, redirections>>
  BY <1>5 DEF Store!vars, Closed
<1>. QED
  BY <1>1, <1>2, <1>3, <1>4, <1>5
  DEF Next, Step, draw_letter, open_fails, heredoc, directory_changes, vars, local

\* Searching for a name, making the file, writing and closing it, with other shells
\* in between and interrupts at any point, is to the redirections as one step that
\* stores a document under a name of its own.
THEOREM TempFileImplementsStore == Spec => ImplementsTempStore
  BY StoreInit, StoreStep, SpecInv, PTL DEF Spec, ImplementsTempStore, Store!Spec

-----------------------------------------------------------------------------
(* The sequence of names.                                                   *)

\* A set of naturals that is not empty has a smallest element.
LEMMA SmallestOne ==
  ASSUME NEW S, S \subseteq Nat, S # {}
  PROVE  \E m \in S : \A k \in S : m <= k
<1>. DEFINE R == OpToRel(<, Nat)
<1>1. \A x, y \in Nat : x < y => <<x, y>> \in R
  BY DEF OpToRel
<1>2. IsWellFoundedOn(R, Nat)
  BY NatLessThanWellFounded
<1>. HIDE DEF R
<1>3. PICK m \in S : \A k \in S : <<k, m>> \notin R
  BY <1>2, WFMin
<1>4. ASSUME NEW k \in S PROVE m <= k
  <2>1. m \in Nat /\ k \in Nat /\ ~(k < m)
    BY <1>1, <1>3
  <2>. QED
    BY <2>1
<1>. QED
  BY <1>4

\* f holds the seeds up to the k-th.
Seeds(f, k) == f = [n \in 0..k |-> IF n = 0 THEN 0 ELSE NextSeed(f[n-1])]

\* The first seed is 0, each other one is made from the one before.
LEMMA SeedsElements ==
  ASSUME NEW f, NEW k \in Nat, Seeds(f, k)
  PROVE  f[0] = 0 /\ \A n \in 1..k : f[n] = NextSeed(f[n-1])
<1>1. 0 \in 0..k /\ \A n \in 1..k : n \in 0..k /\ n # 0
  OBVIOUS
<1>. QED
  BY <1>1 DEF Seeds

\* However far two tables of seeds go, they hold the same ones.
LEMMA SeedsAgree ==
  ASSUME NEW f, NEW k \in Nat, Seeds(f, k), NEW g, NEW j \in Nat, Seeds(g, j), k <= j
  PROVE  \A n \in 0..k : f[n] = g[n]
<1>. DEFINE bad == {n \in 0..k : f[n] # g[n]}
<1>1. ASSUME bad # {} PROVE FALSE
  <2>1. bad \subseteq Nat
    OBVIOUS
  <2>2. PICK m \in bad : \A n \in bad : m <= n
    <3>. HIDE DEF bad
    <3>. QED
      BY <1>1, <2>1, SmallestOne
  <2>3. m \in 0..k /\ f[m] # g[m]
    OBVIOUS
  <2>4. m # 0
    BY <2>3, SeedsElements
  <2>5. m \in 1..k /\ m \in 1..j /\ m - 1 \in 0..k /\ ~(m <= m - 1)
    BY <2>3, <2>4
  <2>6. f[m-1] = g[m-1]
    BY <2>2, <2>5
  <2>7. f[m] = NextSeed(f[m-1]) /\ g[m] = NextSeed(g[m-1])
    BY <2>5, SeedsElements
  <2>. QED
    BY <2>3, <2>6, <2>7
<1>. QED
  BY <1>1

\* There is a table of any length.
LEMMA SeedsExist == \A k \in Nat : \E f : Seeds(f, k)
<1>. DEFINE bad == {k \in Nat : ~\E f : Seeds(f, k)}
<1>1. ASSUME bad # {} PROVE FALSE
  <2>1. bad \subseteq Nat
    OBVIOUS
  <2>2. PICK m \in bad : \A n \in bad : m <= n
    <3>. HIDE DEF bad
    <3>. QED
      BY <1>1, <2>1, SmallestOne
  <2>3. m \in Nat /\ ~\E f : Seeds(f, m)
    OBVIOUS
  <2>4. m # 0
    <3>1. Seeds([n \in 0..0 |-> 0], 0)
      BY DEF Seeds
    <3>. QED
      BY <2>3, <3>1
  <2>5. m - 1 \in Nat /\ ~(m <= m - 1)
    BY <2>3, <2>4
  <2>6. PICK f : Seeds(f, m - 1)
    BY <2>2, <2>5
  <2>. DEFINE g == [n \in 0..m |-> IF n = 0 THEN 0 ELSE NextSeed(f[n-1])]
  <2>7. \A n \in 0..m-1 : f[n] = IF n = 0 THEN 0 ELSE NextSeed(f[n-1])
    BY <2>6 DEF Seeds
  <2>8. \A n \in 0..m-1 : f[n] = g[n]
    <3>1. \A n \in 0..m-1 : n \in 0..m
      BY <2>3
    <3>. QED
      BY <2>7, <3>1
  <2>9. \A n \in 0..m : n # 0 => n - 1 \in 0..m-1
    BY <2>3
  <2>10. Seeds(g, m)
    BY <2>8, <2>9 DEF Seeds
  <2>. QED
    BY <2>3, <2>10
<1>. QED
  BY <1>1

\* Each seed is made from the one before.
LEMMA SeedStep ==
  ASSUME NEW k \in Nat
  PROVE  SeedAt(0) = 0 /\ SeedAt(k + 1) = NextSeed(SeedAt(k))
<1>1. ASSUME NEW j \in Nat
      PROVE  \E f : Seeds(f, j) /\ SeedAt(j) = f[j]
  <2>. DEFINE f == CHOOSE f : Seeds(f, j)
  <2>1. Seeds(f, j)
    BY SeedsExist
  <2>2. SeedAt(j) = f[j]
    BY DEF SeedAt, Seeds
  <2>. QED
    BY <2>1, <2>2
<1>2. SeedAt(0) = 0
  <2>1. PICK f : Seeds(f, 0) /\ SeedAt(0) = f[0]
    BY <1>1
  <2>. QED
    BY <2>1, SeedsElements
<1>3. SeedAt(k + 1) = NextSeed(SeedAt(k))
  <2>1. PICK f : Seeds(f, k) /\ SeedAt(k) = f[k]
    BY <1>1
  <2>2. k + 1 \in Nat
    OBVIOUS
  <2>3. PICK g : Seeds(g, k + 1) /\ SeedAt(k + 1) = g[k + 1]
    BY <1>1, <2>2
  <2>4. k \in 0..k /\ k <= k + 1 /\ k + 1 \in 1..k+1 /\ (k + 1) - 1 = k
    OBVIOUS
  <2>5. f[k] = g[k]
    BY <2>1, <2>2, <2>3, <2>4, SeedsAgree
  <2>6. \A n \in 1..k+1 : g[n] = NextSeed(g[n-1])
    BY <2>2, <2>3, SeedsElements
  <2>. QED
    BY <2>1, <2>3, <2>4, <2>5, <2>6
<1>. QED
  BY <1>2, <1>3

\* A seed is a number of the width of unsigned int.
LEMMA SeedType == \A k \in Nat : SeedAt(k) \in 0..Modulus-1
<1>. DEFINE bad == {k \in Nat : SeedAt(k) \notin 0..Modulus-1}
<1>1. ASSUME bad # {} PROVE FALSE
  <2>1. bad \subseteq Nat
    OBVIOUS
  <2>2. PICK m \in bad : \A n \in bad : m <= n
    <3>. HIDE DEF bad
    <3>. QED
      BY <1>1, <2>1, SmallestOne
  <2>3. m \in Nat /\ SeedAt(m) \notin 0..Modulus-1
    OBVIOUS
  <2>4. m # 0
    <3>1. SeedAt(0) = 0
      BY SeedStep
    <3>. QED
      BY <2>3, <3>1, TempFileAssumption
  <2>5. m - 1 \in Nat /\ ~(m <= m - 1) /\ (m - 1) + 1 = m
    BY <2>3, <2>4
  <2>6. SeedAt(m - 1) \in 0..Modulus-1
    BY <2>2, <2>5
  <2>7. SeedAt((m - 1) + 1) = NextSeed(SeedAt(m - 1))
    BY <2>5, SeedStep
  <2>8. NextSeed(SeedAt(m - 1)) \in 0..Modulus-1
    <3>1. SeedAt(m - 1) * Multiplier + Increment \in Nat
      BY <2>6, TempFileAssumption
    <3>. QED
      BY <3>1, TempFileAssumption DEF NextSeed
  <2>. QED
    BY <2>3, <2>5, <2>7, <2>8
<1>. QED
  BY <1>1

\* From a seed that was there before the generator goes the same way again.
LEMMA SeedsRepeat ==
  ASSUME NEW i \in Nat, NEW j \in Nat, SeedAt(i) = SeedAt(j)
  PROVE  \A t \in Nat : SeedAt(i + t) = SeedAt(j + t)
<1>. DEFINE bad == {t \in Nat : SeedAt(i + t) # SeedAt(j + t)}
<1>1. ASSUME bad # {} PROVE FALSE
  <2>1. bad \subseteq Nat
    OBVIOUS
  <2>2. PICK m \in bad : \A n \in bad : m <= n
    <3>. HIDE DEF bad
    <3>. QED
      BY <1>1, <2>1, SmallestOne
  <2>3. m \in Nat /\ SeedAt(i + m) # SeedAt(j + m)
    OBVIOUS
  <2>4. m # 0
    <3>1. i + 0 = i /\ j + 0 = j
      OBVIOUS
    <3>. QED
      BY <2>3, <3>1
  <2>5. /\ m - 1 \in Nat /\ ~(m <= m - 1) /\ i + (m - 1) \in Nat /\ j + (m - 1) \in Nat
        /\ (i + (m - 1)) + 1 = i + m /\ (j + (m - 1)) + 1 = j + m
    BY <2>3, <2>4
  <2>6. SeedAt(i + (m - 1)) = SeedAt(j + (m - 1))
    BY <2>2, <2>5
  <2>7. /\ SeedAt((i + (m - 1)) + 1) = NextSeed(SeedAt(i + (m - 1)))
        /\ SeedAt((j + (m - 1)) + 1) = NextSeed(SeedAt(j + (m - 1)))
    BY <2>5, SeedStep
  <2>. QED
    BY <2>3, <2>5, <2>6, <2>7
<1>. QED
  BY <1>1

\* When two names were drawn from one seed, no name behind them is new.
LEMMA NamesRepeat ==
  ASSUME NEW x \in Nat, NEW y \in Nat, x < y, NEW a \in Nat, y <= a,
         SeedAt(x * NameLength) = SeedAt(y * NameLength)
  PROVE  NameAt(a) \in FirstNames(a)
<1>. DEFINE b == a - (y - x)
<1>1. b \in Nat /\ b \in 0..a-1
  OBVIOUS
<1>2. NameLength \in Nat
  BY TempFileAssumption
<1>3. ASSUME NEW n \in 1..NameLength
      PROVE  SeedAt(a * NameLength + n) = SeedAt(b * NameLength + n)
  <2>. DEFINE t == (a - y) * NameLength + n
  <2>1. x * NameLength \in Nat /\ y * NameLength \in Nat /\ t \in Nat
    <3>1. a - y \in Nat
      OBVIOUS
    <3>2. (a - y) * NameLength \in Nat
      BY <1>2, <3>1
    <3>. QED
      BY <1>2, <3>2
  <2>2. /\ a * NameLength + n = y * NameLength + t
        /\ b * NameLength + n = x * NameLength + t
    BY <1>2
  <2>. HIDE DEF t, b
  <2>3. SeedAt(x * NameLength + t) = SeedAt(y * NameLength + t)
    BY <2>1, SeedsRepeat
  <2>. QED
    BY <2>2, <2>3
<1>. HIDE DEF b
<1>4. NameAt(a) = NameAt(b)
  BY <1>3 DEF NameAt
<1>. QED
  BY <1>1, <1>4 DEF FirstNames

\* After as many names as there are seeds there are no new ones.
LEMMA NamesEnd ==
  ASSUME NEW a \in Nat, Modulus <= a
  PROVE  NameAt(a) \in FirstNames(a)
<1>. DEFINE S == 0..a
            T == 0..Modulus-1
            f == [n \in S |-> SeedAt(n * NameLength)]
<1>1. Modulus \in Nat \ {0} /\ NameLength \in Nat
  BY TempFileAssumption
<1>2. /\ IsFiniteSet(S) /\ Cardinality(S) = a + 1
      /\ IsFiniteSet(T) /\ Cardinality(T) = Modulus
  <2>1. /\ IsFiniteSet(S) /\ Cardinality(S) = IF 0 > a THEN 0 ELSE a - 0 + 1
        /\ IsFiniteSet(T) /\ Cardinality(T) = IF 0 > Modulus-1 THEN 0 ELSE Modulus - 1 - 0 + 1
    BY <1>1, FS_Interval
  <2>. QED
    BY <1>1, <2>1
<1>3. \A n \in S : n * NameLength \in Nat
  BY <1>1
<1>4. f \in [S -> T]
  BY <1>3, SeedType
<1>5. Cardinality(T) < Cardinality(S)
  BY <1>1, <1>2
<1>6. PICK x, y \in S : x # y /\ f[x] = f[y]
  <2>. HIDE DEF S, T, f
  <2>. QED
    BY <1>2, <1>4, <1>5, FS_PigeonHole
<1>7. /\ x \in Nat /\ y \in Nat /\ x <= a /\ y <= a /\ (x < y \/ y < x)
      /\ SeedAt(x * NameLength) = SeedAt(y * NameLength)
  BY <1>6
<1>. QED
  BY <1>7, NamesRepeat

\* The first names are more by one name at each step.
LEMMA NamesStep ==
  ASSUME NEW a \in Nat
  PROVE  /\ FirstNames(0) = {}
         /\ FirstNames(a + 1) = FirstNames(a) \cup {NameAt(a)}
         /\ \A b \in Nat : b <= a => FirstNames(b) \subseteq FirstNames(a)
<1>1. 0..0-1 = {} /\ 0..(a+1)-1 = (0..a-1) \cup {a} /\ \A b \in Nat : b <= a => 0..b-1 \subseteq 0..a-1
  OBVIOUS
<1>2. FirstNames(0) = {}
  BY <1>1 DEF FirstNames
<1>3. FirstNames(a + 1) = FirstNames(a) \cup {NameAt(a)}
  BY <1>1 DEF FirstNames
<1>4. \A b \in Nat : b <= a => FirstNames(b) \subseteq FirstNames(a)
  BY <1>1 DEF FirstNames
<1>. QED
  BY <1>2, <1>3, <1>4

\* Shell s has drawn a names, all of which files have, and the first letters of another.
Walked(s, a) ==
  /\ FirstNames(a) \subseteq DOMAIN files
  /\ pc[s] # "search" => seed[s] = SeedAt(a * NameLength)
  /\ pc[s] = "search" =>
       /\ seed[s] = SeedAt(a * NameLength + drawn[s])
       /\ \A n \in 1..drawn[s] : template[s][n] = RandLetter(SeedAt(a * NameLength + n))

EveryoneWalks == \A s \in Shell : \E a \in Nat : Walked(s, a)

WalkInv == NamesInOrder /\ (~skipped => EveryoneWalks)

\* At first no shell has drawn a letter, and all seeds are 0.
LEMMA WalkInit == Init => WalkInv
<1>. SUFFICES ASSUME Init PROVE WalkInv
  OBVIOUS
<1>1. FirstNames(0) = {} /\ SeedAt(0) = 0 /\ 0 * NameLength = 0
  BY NamesStep, SeedStep, TempFileAssumption
<1>2. 0 \in 0..Modulus
  BY TempFileAssumption
<1>3. DOMAIN files = FirstNames(0) \cup Existing
  BY <1>1 DEF Init
<1>4. \A s \in Shell : Walked(s, 0)
  BY <1>1 DEF Init, Walked
<1>. QED
  BY <1>2, <1>3, <1>4 DEF WalkInv, NamesInOrder, EveryoneWalks

\* A name that is all drawn is the next one of the sequence.
LEMMA DrawnName ==
  ASSUME TypeOK, NEW s \in Shell, Drawn(s), NEW a \in Nat, Walked(s, a)
  PROVE  template[s] = NameAt(a) /\ seed[s] = SeedAt((a + 1) * NameLength)
<1>1. /\ template[s] \in [1..NameLength -> Letter] /\ NameLength \in Nat
      /\ seed[s] = SeedAt(a * NameLength + NameLength)
      /\ \A n \in 1..NameLength : template[s][n] = RandLetter(SeedAt(a * NameLength + n))
  BY TempFileAssumption DEF TypeOK, Name, Drawn, Walked
<1>2. template[s] = NameAt(a)
  BY <1>1 DEF NameAt
<1>3. a * NameLength + NameLength = (a + 1) * NameLength
  BY <1>1
<1>. QED
  BY <1>1, <1>2, <1>3

\* A shell that is left alone has walked as far when there are more files.
LEMMA WalkedAlone ==
  ASSUME NEW s \in Shell, NEW a \in Nat, Walked(s, a), DOMAIN files \subseteq DOMAIN files',
         pc'[s] = pc[s], seed'[s] = seed[s], drawn'[s] = drawn[s], template'[s] = template[s]
  PROVE  Walked(s, a)'
BY DEF Walked, FirstNames

\* A file is made only under the next name of the sequence, and only when it is new:
\* the maker has walked the first a names, all of which are there, so they are all
\* there are.
LEMMA WalkStep == Inv /\ WalkInv /\ [Next]_vars => WalkInv'
<1>. SUFFICES ASSUME Inv, WalkInv, [Next]_vars, ~skipped' PROVE WalkInv'
  BY DEF WalkInv, NamesInOrder
<1>0. ~skipped
  BY DEF Next, Step, draw_letter, open_succeeds, open_fails, write_document, heredoc, line_done,
         interrupted, directory_changes, vars, local, Inv, TypeOK
<1>1. TypeOK /\ EveryoneWalks /\ \E k \in 0..Modulus : DOMAIN files = FirstNames(k) \cup Existing
  BY <1>0 DEF Inv, WalkInv, NamesInOrder
<1>2. NameLength \in Nat \ {0} /\ Modulus \in Nat \ {0}
  BY TempFileAssumption
\* Where one shell moves, the others stay where they are.
<1>3. ASSUME NEW s \in Shell, DOMAIN files \subseteq DOMAIN files',
             \A t \in Shell \ {s} : /\ pc'[t] = pc[t] /\ seed'[t] = seed[t]
                                    /\ drawn'[t] = drawn[t] /\ template'[t] = template[t],
             NEW a \in Nat, Walked(s, a)'
      PROVE  EveryoneWalks'
  <2>. SUFFICES ASSUME NEW t \in Shell PROVE \E b \in Nat : Walked(t, b)'
    BY DEF EveryoneWalks
  <2>1. CASE t = s
    BY <1>3, <2>1
  <2>2. CASE t # s
    <3>1. PICK b \in Nat : Walked(t, b)
      BY <1>1 DEF EveryoneWalks
    <3>. QED
      BY <1>3, <2>2, <3>1, WalkedAlone
  <2>. QED
    BY <2>1, <2>2
<1>4. DOMAIN files' = DOMAIN files => NamesInOrder'
  BY <1>1 DEF NamesInOrder, FirstNames
<1>5. ASSUME NEW s \in Shell, draw_letter(s) PROVE WalkInv'
  <2>1. PICK a \in Nat : Walked(s, a)
    BY <1>1 DEF EveryoneWalks
  <2>2. /\ pc[s] = "search" /\ drawn[s] \in 0..NameLength /\ drawn[s] < NameLength
        /\ seed[s] = SeedAt(a * NameLength + drawn[s])
        /\ \A n \in 1..drawn[s] : template[s][n] = RandLetter(SeedAt(a * NameLength + n))
        /\ template[s] \in [1..NameLength -> Letter]
    BY <1>1, <1>5, <2>1 DEF draw_letter, Walked, TypeOK, Name
  <2>. DEFINE d == drawn[s]
              k == a * NameLength + d
  <2>3. k \in Nat /\ a * NameLength + (d + 1) = k + 1 /\ d + 1 \in 1..NameLength
        /\ (\A n \in 1..d+1 : n \in 1..d \/ n = d + 1)
        /\ (\A n \in 1..d : n # d + 1 /\ n \in 1..NameLength)
    BY <1>2, <2>2
  <2>4. NextSeed(seed[s]) = SeedAt(k + 1)
    BY <2>2, <2>3, SeedStep
  <2>5. /\ files' = files /\ pc'[s] = "search" /\ drawn'[s] = d + 1
        /\ seed'[s] = SeedAt(a * NameLength + (d + 1))
        /\ template'[s] = [template[s] EXCEPT ![d + 1] = RandLetter(NextSeed(seed[s]))]
        /\ \A t \in Shell \ {s} : /\ pc'[t] = pc[t] /\ seed'[t] = seed[t]
                                  /\ drawn'[t] = drawn[t] /\ template'[t] = template[t]
    BY <1>1, <1>5, <2>2, <2>3, <2>4 DEF draw_letter, TypeOK
  <2>. HIDE DEF d, k
  <2>6. \A n \in 1..d+1 : template'[s][n] = RandLetter(SeedAt(a * NameLength + n))
    <3>1. template'[s][d + 1] = RandLetter(NextSeed(seed[s]))
      <4>. DEFINE e == RandLetter(NextSeed(seed[s]))
                  i == d + 1
      <4>1. i \in 1..NameLength /\ template'[s] = [template[s] EXCEPT ![i] = e]
        BY <2>3, <2>5
      <4>. HIDE DEF e, i
      <4>2. template'[s][i] = e
        BY <2>2, <4>1
      <4>. QED
        BY <4>2 DEF e, i
    <3>2. template'[s][d + 1] = RandLetter(SeedAt(a * NameLength + (d + 1)))
      <4>1. NextSeed(seed[s]) = SeedAt(a * NameLength + (d + 1))
        BY <2>3, <2>4
      <4>. QED
        BY <3>1, <4>1
    <3>3. \A n \in 1..d : template'[s][n] = template[s][n]
      <4>. DEFINE e == RandLetter(NextSeed(seed[s]))
                  i == d + 1
      <4>1. /\ template'[s] = [template[s] EXCEPT ![i] = e]
            /\ \A n \in 1..d : n # i /\ n \in 1..NameLength
        BY <2>3, <2>5
      <4>. HIDE DEF e, i
      <4>. QED
        BY <2>2, <4>1
    <3>. QED
      BY <2>2, <2>3, <3>2, <3>3 DEF d
  <2>7. Walked(s, a)'
    BY <2>1, <2>5, <2>6 DEF Walked, FirstNames
  <2>8. EveryoneWalks'
    BY <1>3, <2>5, <2>7
  <2>. QED
    BY <1>4, <2>5, <2>8 DEF WalkInv
<1>6. ASSUME NEW s \in Shell, open_succeeds(s) PROVE WalkInv'
  <2>1. PICK a \in Nat : Walked(s, a)
    BY <1>1 DEF EveryoneWalks
  <2>2. template[s] = NameAt(a) /\ seed[s] = SeedAt((a + 1) * NameLength)
    BY <1>1, <1>6, <2>1, DrawnName DEF open_succeeds
  <2>3. NameAt(a) \notin DOMAIN files /\ DOMAIN files' = DOMAIN files \cup {NameAt(a)}
    BY <1>6, <2>2 DEF open_succeeds, OpenSucceeds, WithFile
  <2>4. FirstNames(a) \subseteq DOMAIN files
    BY <2>1 DEF Walked
  <2>5. a < Modulus
    BY <1>2, <2>3, <2>4, NamesEnd
  <2>6. FirstNames(a + 1) = FirstNames(a) \cup {NameAt(a)}
    BY NamesStep
  <2>7. DOMAIN files = FirstNames(a) \cup Existing
    <3>1. PICK k \in 0..Modulus : DOMAIN files = FirstNames(k) \cup Existing
      BY <1>1
    <3>2. ~(a + 1 <= k)
      <4>1. k \in Nat /\ a + 1 \in Nat
        BY <1>2
      <4>2. ASSUME a + 1 <= k PROVE FALSE
        <5>1. FirstNames(a + 1) \subseteq FirstNames(k)
          BY <4>1, <4>2, NamesStep
        <5>. QED
          BY <2>3, <2>6, <3>1, <5>1
      <4>. QED
        BY <4>2
    <3>3. k \in Nat /\ k <= a
      BY <1>2, <3>2
    <3>4. FirstNames(k) \subseteq FirstNames(a)
      BY <3>3, NamesStep
    <3>. QED
      BY <2>4, <3>1, <3>4
  <2>8. NamesInOrder'
    <3>1. a + 1 \in 0..Modulus /\ DOMAIN files' = FirstNames(a + 1) \cup Existing
      BY <1>2, <2>3, <2>5, <2>6, <2>7
    <3>. QED
      BY <3>1 DEF NamesInOrder, FirstNames
  <2>9. /\ pc'[s] = "write" /\ seed'[s] = seed[s]
        /\ \A t \in Shell \ {s} : /\ pc'[t] = pc[t] /\ seed'[t] = seed[t]
                                  /\ drawn'[t] = drawn[t] /\ template'[t] = template[t]
    BY <1>1, <1>6 DEF open_succeeds, TypeOK
  <2>10. Walked(s, a + 1)'
    <3>1. FirstNames(a + 1) \subseteq DOMAIN files'
      BY <2>3, <2>4, <2>6
    <3>. QED
      BY <2>2, <2>9, <3>1 DEF Walked, FirstNames
  <2>11. EveryoneWalks'
    <3>1. DOMAIN files \subseteq DOMAIN files' /\ a + 1 \in Nat
      BY <2>3
    <3>. QED
      BY <1>3, <2>9, <2>10, <3>1
  <2>. QED
    BY <2>8, <2>11 DEF WalkInv
<1>7. ASSUME NEW s \in Shell, open_fails(s) PROVE WalkInv'
  <2>1. PICK a \in Nat : Walked(s, a)
    BY <1>1 DEF EveryoneWalks
  <2>2. template[s] = NameAt(a) /\ seed[s] = SeedAt((a + 1) * NameLength)
    BY <1>1, <1>7, <2>1, DrawnName DEF open_fails
  <2>3. NameAt(a) \in DOMAIN files
    <3>1. ~denied
      BY <1>7 DEF open_fails
    <3>. QED
      BY <1>7, <2>2, <3>1 DEF open_fails, OpenSucceeds
  <2>4. FirstNames(a + 1) \subseteq DOMAIN files
    <3>1. FirstNames(a + 1) = FirstNames(a) \cup {NameAt(a)}
      BY NamesStep
    <3>. QED
      BY <2>1, <2>3, <3>1 DEF Walked
  <2>5. /\ files' = files /\ pc'[s] = "search" /\ seed'[s] = seed[s] /\ drawn'[s] = 0
        /\ \A t \in Shell \ {s} : /\ pc'[t] = pc[t] /\ seed'[t] = seed[t]
                                  /\ drawn'[t] = drawn[t] /\ template'[t] = template[t]
    BY <1>1, <1>7 DEF open_fails, Drawn, KeptLetters, TypeOK
  <2>6. (a + 1) * NameLength + 0 = (a + 1) * NameLength /\ 1..0 = {}
    BY <1>2
  <2>7. Walked(s, a + 1)'
    BY <2>2, <2>4, <2>5, <2>6 DEF Walked, FirstNames
  <2>8. EveryoneWalks'
    <3>1. a + 1 \in Nat
      OBVIOUS
    <3>. QED
      BY <1>3, <2>5, <2>7, <3>1
  <2>. QED
    BY <1>4, <2>5, <2>8 DEF WalkInv
<1>8. ASSUME NEW s \in Shell, write_document(s) PROVE WalkInv'
  <2>1. PICK a \in Nat : Walked(s, a)
    BY <1>1 DEF EveryoneWalks
  <2>2. DOMAIN files' = DOMAIN files
    <3>1. template[s] \in DOMAIN files
      BY <1>8 DEF write_document, Inv, WritersApart
    <3>. QED
      BY <1>8, <3>1 DEF write_document, WithFile
  <2>3. /\ pc[s] = "write" /\ pc'[s] = "idle" /\ seed' = seed
        /\ \A t \in Shell \ {s} : /\ pc'[t] = pc[t] /\ seed'[t] = seed[t]
                                  /\ drawn'[t] = drawn[t] /\ template'[t] = template[t]
    BY <1>1, <1>8 DEF write_document, TypeOK
  <2>4. Walked(s, a)'
    BY <2>1, <2>2, <2>3 DEF Walked, FirstNames
  <2>5. EveryoneWalks'
    BY <1>3, <2>2, <2>3, <2>4
  <2>. QED
    BY <1>4, <2>2, <2>5 DEF WalkInv
<1>9. ASSUME NEW s \in Shell, heredoc(s) PROVE WalkInv'
  <2>1. PICK a \in Nat : Walked(s, a)
    BY <1>1 DEF EveryoneWalks
  <2>2. /\ files' = files /\ pc[s] = "idle" /\ pc'[s] = "search" /\ seed' = seed /\ drawn'[s] = 0
        /\ \A t \in Shell \ {s} : /\ pc'[t] = pc[t] /\ seed'[t] = seed[t]
                                  /\ drawn'[t] = drawn[t] /\ template'[t] = template[t]
    BY <1>1, <1>9 DEF heredoc, TypeOK
  <2>3. a * NameLength + 0 = a * NameLength /\ 1..0 = {}
    BY <1>2
  <2>4. Walked(s, a)'
    BY <2>1, <2>2, <2>3 DEF Walked, FirstNames
  <2>5. EveryoneWalks'
    BY <1>3, <2>2, <2>4
  <2>. QED
    BY <1>4, <2>2, <2>5 DEF WalkInv
<1>10. ASSUME NEW s \in Shell, interrupted(s) PROVE WalkInv'
  <2>1. /\ files' = files /\ pc'[s] = "idle" /\ seed'[s] = 0
        /\ \A t \in Shell \ {s} : /\ pc'[t] = pc[t] /\ seed'[t] = seed[t]
                                  /\ drawn'[t] = drawn[t] /\ template'[t] = template[t]
    BY <1>1, <1>10 DEF interrupted, TypeOK
  <2>2. FirstNames(0) = {} /\ SeedAt(0) = 0 /\ 0 * NameLength = 0
    BY <1>2, NamesStep, SeedStep
  <2>3. Walked(s, 0)'
    BY <2>1, <2>2 DEF Walked, FirstNames
  <2>4. EveryoneWalks'
    BY <1>3, <2>1, <2>3
  <2>. QED
    BY <1>4, <2>1, <2>4 DEF WalkInv
<1>11. CASE UNCHANGED <<files, pc, seed, drawn, template>>
  <2>1. EveryoneWalks'
    BY <1>1, <1>11 DEF EveryoneWalks, Walked, FirstNames
  <2>. QED
    BY <1>4, <1>11, <2>1 DEF WalkInv
<1>. QED
  BY <1>5, <1>6, <1>7, <1>8, <1>9, <1>10, <1>11
  DEF Next, Step, line_done, directory_changes, vars, local

\* Unless the directory has failed, the files are the ones that were there and a first
\* part of the one sequence of names that all shells walk through, for any number of
\* shells, interrupted or not, and any generator, also one that repeats a name.
THEOREM NamesAreInOrder == Spec => []NamesInOrder
<1>1. WalkInv => NamesInOrder
  BY DEF WalkInv
<1>. QED
  BY WalkInit, WalkStep, SpecInv, <1>1, PTL DEF Spec

=============================================================================
