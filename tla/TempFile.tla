------------------------------ MODULE TempFile -------------------------------
(***************************************************************************)
(* Temporary files for here-documents: my_mkstemp(), create_temp_file() and *)
(* myrand() of parsing/util_herdoc.c, as the here-document branch of        *)
(* parse_tokens() uses them, run by several shells over one /tmp.           *)
(*                                                                         *)
(* A name is its last six letters.  my_mkstemp()'s checks of the template   *)
(* always pass, since parse_tokens() writes the template anew each time.    *)
(* The constants of the generator are parameters.                           *)
(***************************************************************************)
EXTENDS Integers, Sequences, FiniteSets

CONSTANTS
  Shell,       \* the processes
  Document,    \* what handle_heredoc() can return ...
  NULL,        \* ... when it does not return NULL
  Multiplier, Increment,  \* of the generator: 1103515245 and 12345
  Modulus,     \* 2^32, the width of unsigned int
  Divisor,     \* 65536
  RandRange,   \* 32768
  Letters,     \* 26
  NameLength,  \* 6
  Existing,    \* the names that files have before any shell runs
  MaxFiles     \* bound: so many files there may be

Letter == 0..Letters-1
Name   == [1..NameLength -> Letter]

ASSUME TempFileAssumption ==
  /\ {Multiplier, Increment} \subseteq Nat
  /\ {Modulus, Divisor, RandRange, Letters, NameLength} \subseteq Nat \ {0}
  /\ Existing \subseteq Name
  /\ MaxFiles \in Nat
  /\ NULL \notin Document

VARIABLES
  pc,            \* per shell: "idle", "search" or "write"
  seed,          \* per shell: myrand()'s static seed
  template,      \* per shell: the name being made
  drawn,         \* per shell: how many of its letters are made
  content,       \* per shell: heredoc_content
  redirections,  \* per shell: the here-document redirections of its line, as they are made
  files,         \* a function from the names in /tmp to what the files hold
  denied,        \* open() fails for a reason that no other name can cure
  skipped        \* whether a name has been passed over for such a reason

local == <<pc, seed, template, drawn, content, redirections>>
vars  == <<local, files, denied, skipped>>

\* A file and the text it is meant to hold, or what write() took of it: parse_tokens()
\* does not look at what write() returns.
File(text, closed) == [text |-> text, closed |-> closed]

Init ==
  /\ pc = [s \in Shell |-> "idle"]
  /\ seed = [s \in Shell |-> 0]
  /\ template = [s \in Shell |-> [k \in 1..NameLength |-> 0]]
  /\ drawn = [s \in Shell |-> 0]
  /\ content = [s \in Shell |-> NULL]
  /\ redirections = [s \in Shell |-> <<>>]
  /\ files = [n \in Existing |-> File(NULL, FALSE)]
  /\ denied = FALSE
  /\ skipped = FALSE

-----------------------------------------------------------------------------
RoomForOneMore ==
  Cardinality(DOMAIN files) + Cardinality({s \in Shell : pc[s] # "idle"}) < MaxFiles

\* handle_heredoc() has returned a document, or NULL.
heredoc(s) ==
  /\ pc[s] = "idle" /\ RoomForOneMore
  /\ \E text \in Document \cup {NULL} : content' = [content EXCEPT ![s] = text]
  /\ pc' = [pc EXCEPT ![s] = "search"]
  /\ drawn' = [drawn EXCEPT ![s] = 0]
  /\ UNCHANGED <<seed, template, redirections, files, denied, skipped>>

\* Slip: the seed is not static.
NextSeedNotStatic(n) == Increment % Modulus

\* seed * 1103515245 + 12345, and the 15 bits of it that are used.
NextSeed(n) == (n * Multiplier + Increment) % Modulus
Rand(n)     == (n \div Divisor) % RandRange

\* Slip: the number is taken for a letter as it is.
RandLetterAnyNumber(n) == Rand(n)

RandLetter(n) == Rand(n) % Letters

draw_letter(s) ==
  /\ pc[s] = "search" /\ drawn[s] < NameLength
  /\ seed' = [seed EXCEPT ![s] = NextSeed(@)]
  /\ template' = [template EXCEPT ![s][drawn[s] + 1] = RandLetter(NextSeed(seed[s]))]
  /\ drawn' = [drawn EXCEPT ![s] = @ + 1]
  /\ UNCHANGED <<pc, content, redirections, files, denied, skipped>>

Drawn(s) == pc[s] = "search" /\ drawn[s] = NameLength

\* Slip: O_CREAT without O_EXCL.
OpenSucceedsAnyway(name) == ~denied

OpenSucceeds(name) == ~denied /\ name \notin DOMAIN files

WithFile(name, file) ==
  [n \in DOMAIN files \cup {name} |-> IF n = name THEN file ELSE files[n]]

\* open() with O_CREAT and O_EXCL makes the file and tells whether it could at once.
open_succeeds(s) ==
  /\ Drawn(s) /\ OpenSucceeds(template[s])
  /\ files' = WithFile(template[s], File(NULL, FALSE))
  /\ pc' = [pc EXCEPT ![s] = "write"]
  /\ UNCHANGED <<seed, template, drawn, content, redirections, denied, skipped>>

\* Slip: only the last letter is drawn again.
KeptLettersAllButOne == NameLength - 1

KeptLetters == 0

\* Every error is answered by another name.
open_fails(s) ==
  /\ Drawn(s) /\ ~OpenSucceeds(template[s])
  /\ drawn' = [drawn EXCEPT ![s] = KeptLetters]
  /\ skipped' = (skipped \/ denied)
  /\ UNCHANGED <<pc, seed, template, content, redirections, files, denied>>

\* Slip: the redirections point at the one buffer the template is in.
RedirectedShared(rs, name, text) ==
  Append([i \in DOMAIN rs |-> [rs[i] EXCEPT !.filename = name]],
         [filename |-> name, text |-> text])

\* add_redirection() copies the name from the template.
Redirected(rs, name, text) == Append(rs, [filename |-> name, text |-> text])

write_document(s) ==
  /\ pc[s] = "write"
  /\ files' = WithFile(template[s], File(content[s], TRUE))
  /\ redirections' = [redirections EXCEPT ![s] = Redirected(@, template[s], content[s])]
  /\ content' = [content EXCEPT ![s] = NULL]  \* it is freed
  /\ pc' = [pc EXCEPT ![s] = "idle"]
  /\ UNCHANGED <<seed, template, drawn, denied, skipped>>

\* init_shell() frees the commands of the line; nothing unlinks the files.
line_done(s) ==
  /\ pc[s] = "idle" /\ redirections[s] # <<>>
  /\ redirections' = [redirections EXCEPT ![s] = <<>>]
  /\ UNCHANGED <<pc, seed, template, drawn, content, files, denied, skipped>>

\* all_signals() is never called: an interrupt takes its default action.  Another
\* shell is started in its place, whose generator starts from 0 again.
interrupted(s) ==
  /\ pc' = [pc EXCEPT ![s] = "idle"]
  /\ seed' = [seed EXCEPT ![s] = 0]
  /\ template' = [template EXCEPT ![s] = [k \in 1..NameLength |-> 0]]
  /\ drawn' = [drawn EXCEPT ![s] = 0]
  /\ content' = [content EXCEPT ![s] = NULL]
  /\ redirections' = [redirections EXCEPT ![s] = <<>>]
  /\ UNCHANGED <<files, denied, skipped>>

\* No descriptors left, no space for a name, a directory that is gone; and back.
directory_changes ==
  /\ denied' = ~denied
  /\ UNCHANGED <<local, files, skipped>>

-----------------------------------------------------------------------------
\* What a shell does of its own accord once it has a document.
Step(s) ==
  \/ draw_letter(s) \/ open_succeeds(s) \/ open_fails(s) \/ write_document(s)

Next ==
  \/ \E s \in Shell :
       Step(s) \/ heredoc(s) \/ line_done(s) \/ interrupted(s)
  \/ directory_changes

Spec == Init /\ [][Next]_vars

\* The system runs every shell; users and the directory owe nothing.
FairSpec == Spec /\ \A s \in Shell : WF_vars(Step(s))

-----------------------------------------------------------------------------
(* The sequence of names that every shell goes through.                     *)

SeedAt(k) ==
  LET after[n \in 0..k] == IF n = 0 THEN 0 ELSE NextSeed(after[n-1])
  IN  after[k]

\* The k-th name, counted from 0.
NameAt(k) ==
  [n \in 1..NameLength |-> RandLetter(SeedAt(k * NameLength + n))]

FirstNames(k) == {NameAt(n) : n \in 0..k-1}

-----------------------------------------------------------------------------
(* Properties.                                                              *)

Redirection == [filename : Name, text : Document \cup {NULL}]

TypeOK ==
  /\ pc \in [Shell -> {"idle", "search", "write"}]
  /\ seed \in [Shell -> Nat]
  /\ template \in [Shell -> Name]
  /\ drawn \in [Shell -> 0..NameLength]
  /\ content \in [Shell -> Document \cup {NULL}]
  /\ redirections \in [Shell -> Seq(Redirection)]
  /\ files \in [DOMAIN files ->
                  [text : Document \cup {NULL}, closed : BOOLEAN]]
  /\ DOMAIN files \subseteq Name
  /\ denied \in BOOLEAN /\ skipped \in BOOLEAN

\* Two here-documents, of one shell or of two, never share a file, although all
\* shells go through the same names in the same order.
OneFileEach ==
  \A s, t \in Shell : \A i \in DOMAIN redirections[s], j \in DOMAIN redirections[t] :
    redirections[s][i].filename = redirections[t][j].filename => s = t /\ i = j

\* As long as a redirection is there, its file is, closed, and holds what write() took
\* of that document, and nothing of another one.
DocumentKept ==
  \A s \in Shell : \A i \in DOMAIN redirections[s] :
    LET r == redirections[s][i]
    IN  /\ r.filename \in DOMAIN files
        /\ files[r.filename] = File(r.text, TRUE)

\* Unless the directory failed, the names in use are the first ones of the sequence,
\* and the ones that were there: no shell leaves a gap, however many run, are
\* interrupted or started again, so each new shell walks past every file ever made.
\* A generator with so many seeds has no further names.
NamesInOrder ==
  ~skipped => \E k \in 0..Modulus : DOMAIN files = FirstNames(k) \cup Existing

\* A document that no shell is working on any more is never written to again.
Closed == {n \in DOMAIN files : files[n].closed}

Store == INSTANCE TempStore WITH
           Document <- Document \cup {NULL},
           stored   <- [n \in Closed |-> files[n].text],
           held     <- redirections

\* Storing a document looks like one step: it appears with all that write() took of it,
\* under a name of its own, and stays as it is, also when shells are interrupted.
ImplementsTempStore == Store!Spec

Searching(s) == pc[s] = "search"

\* Once the directory stays usable every search for a name ends, although other
\* shells keep taking names.
SearchEnds ==
  (<>[]~denied) => \A s \in Shell : Searching(s) ~> ~Searching(s)

-----------------------------------------------------------------------------
(* What the code says, where it does otherwise.                             *)

\* "Error creating temporary file for heredoc": a search ends also when the file
\* cannot be created.
ErrorsEndTheSearch == \A s \in Shell : Searching(s) ~> ~Searching(s)

=============================================================================
