------------------------------- MODULE Session -------------------------------
(***************************************************************************)
(* What init_shell() of main.c promises the user: every line typed is used  *)
(* once, in order, either at the prompt or for a here-document that the     *)
(* line at the prompt asks for, and the commands that are printed of a line *)
(* have its own documents, one each.                                        *)
(*                                                                         *)
(* A line at the prompt is dealt with in one step.  Shell, where three      *)
(* components share the work and the terminal, implements this.             *)
(***************************************************************************)
EXTENDS Sequences, SequencesExt, FiniteSetsExt

CONSTANTS
  Lines,    \* what can be typed on a line
  EOF,      \* ... or instead of one: the end of the file
  Scripts,  \* what the user types in a session
  Newline,
  NULL,     \* in the place of a file name that could not be copied
  Asks,     \* for each line, the texts that end the documents it asks for ...
  Shows     \* ... and, for the documents its commands are printed with, their places in
            \* that order: in each command the last one comes first

VARIABLES
  typed,   \* what the user types
  next,    \* the position of what is read next
  history, \* the lines in the shell's history, with the documents shown for them
  failed   \* an allocation has failed in a line that is done with

vars == <<typed, next, history, failed>>

-----------------------------------------------------------------------------
\* Where a document that starts at position k ends: at its delimiter or at an EOF.
End(k, delimiter) ==
  Min({j \in k..Len(typed)+1 : j = Len(typed)+1 \/ typed[j] \in {delimiter, EOF}})

\* The position behind what position k holds; a terminal that is closed stays so.
Behind(k) == Min({k, Len(typed)}) + 1

\* Where the n-th document of line starts, the line standing before position k.
Starts(line, k) ==
  LET start[n \in 1..Len(Asks[line])+1] ==
        IF n = 1 THEN k ELSE Behind(End(start[n-1], Asks[line][n-1]))
  IN  start

Text(from, to) ==
  FlattenSeq([k \in 1..to-from |-> Append(typed[from + k - 1], Newline)])

Documents(line, k) ==
  [n \in DOMAIN Asks[line] |->
     LET start == Starts(line, k)[n] IN Text(start, End(start, Asks[line][n]))]

\* The documents as print_command_list() comes to them.
Shown(line, k) == [n \in DOMAIN Shows[line] |-> Documents(line, k)[Shows[line][n]]]

-----------------------------------------------------------------------------
Init ==
  /\ typed \in Scripts
  /\ next = 1
  /\ history = <<>>
  /\ failed = FALSE

AtLine == next <= Len(typed) /\ typed[next] # EOF

EmptyLine ==
  /\ AtLine /\ typed[next] = <<>>
  /\ next' = next + 1
  /\ UNCHANGED <<typed, history, failed>>

Line ==
  /\ AtLine /\ typed[next] # <<>>
  /\ LET line == typed[next]
     IN  /\ next' = Starts(line, next + 1)[Len(Asks[line]) + 1]
         /\ history' = Append(history, [line |-> line, documents |-> Shown(line, next + 1)])
  /\ UNCHANGED <<typed, failed>>

\* Stretches of the terminal between two positions, without an end of the file.
Spans(from, to) ==
  {span \in (from..to) \X (from..to) :
     span[1] <= span[2] /\ \A k \in span[1]..span[2]-1 : typed[k] # EOF}

\* The one line in which memory runs out.  Its commands may not be printed, a document
\* may be given up and then shows nothing, or its file name is NULL; what is left of the
\* documents is read at the prompt.  Still no line is used twice, and none moves from
\* one document to another.
LineInNeed ==
  /\ AtLine /\ typed[next] # <<>> /\ ~failed /\ failed' = TRUE
  /\ LET line  == typed[next]
         shows == Shows[line]
     IN  /\ next' \in next+1..Starts(line, next + 1)[Len(Asks[line]) + 1]
         /\ \E n \in {0, Len(shows)} :
            \E span \in [1..n -> Spans(next + 1, next')], unnamed \in SUBSET (1..n) :
              /\ \A j, k \in 1..n : shows[j] < shows[k] => span[j][2] <= span[k][1]
              /\ Cardinality(unnamed) <= 1
              /\ history' = Append(history, [line |-> line, documents |->
                   [k \in 1..n |-> IF k \in unnamed THEN NULL ELSE Text(span[k][1], span[k][2])]])
  /\ UNCHANGED typed

Next == EmptyLine \/ Line \/ LineInNeed

Spec == Init /\ [][Next]_vars

=============================================================================
