----------------------------- MODULE LineReader -----------------------------
(***************************************************************************)
(* get_next_line() of libft: the calls of one program on several files.     *)
(* What was read behind the end of a line waits in the static variable      *)
(* line, one for all files.  A step is one call's start, one read() with    *)
(* the join behind it, or the split of what was read.                       *)
(*                                                                         *)
(* A byte is its place: the file and the position in it.  No file holds a   *)
(* NUL byte.  ft_strchr() is the one of get_next_line_utils.c, to which     *)
(* NULL is an empty text.                                                   *)
(***************************************************************************)
EXTENDS Naturals, Sequences, SequencesExt, FiniteSetsExt

CONSTANTS
  Fd,          \* the files
  Contents,    \* what they can hold: for each a sequence of "text" and "newline"
  BUFFER_SIZE

ASSUME LineReaderAssumption ==
  /\ Contents \subseteq [Fd -> Seq({"text", "newline"})]
  /\ BUFFER_SIZE \in Nat \ {0}

VARIABLES
  content,
  offset,    \* how much of each file has been read
  line,      \* the static variable; <<>> also for NULL
  pc,        \* "idle", or "read" during a call
  fd,        \* the file of the call, or of the last one
  rd,        \* the last read() of the call returned something, or there was none yet
  returned,  \* the lines the calls have returned, each with its file
  null,      \* the last call returned NULL
  drained,   \* history: the caller has changed files only behind a NULL
  failed     \* a read or an allocation has failed; bound: one does

vars == <<content, offset, line, pc, fd, rd, returned, null, drained, failed>>

Init ==
  /\ content \in Contents
  /\ offset = [f \in Fd |-> 0]
  /\ line = <<>>
  /\ pc = "idle" /\ fd \in Fd /\ rd = FALSE
  /\ returned = <<>>
  /\ null = TRUE /\ drained = TRUE
  /\ failed = FALSE

-----------------------------------------------------------------------------
IsNewline(byte) == content[byte.of][byte.at] = "newline"

NewlinesOf(text) == {k \in DOMAIN text : IsNewline(text[k])}

\* The end of the first line of a text.
LineEnd(text) == IF NewlinesOf(text) = {} THEN Len(text) ELSE Min(NewlinesOf(text))

AtEnd(f) == offset[f] = Len(content[f])

Called(f) == fd' = f /\ drained' = (drained /\ (null \/ f = fd))

\* A call returns: with NULL, or with a line.
ReturnsNull ==
  pc' = "idle" /\ rd' = FALSE /\ null' = TRUE /\ UNCHANGED returned

ReturnsLine ==
  /\ pc' = "idle" /\ rd' = FALSE /\ null' = FALSE
  /\ returned' = Append(returned, [fd |-> fd, text |-> SubSeq(line, 1, LineEnd(line))])

Fails == ~failed /\ failed' = TRUE

-----------------------------------------------------------------------------
get_next_line ==
  /\ pc = "idle"
  /\ \E f \in Fd : Called(f)
  /\ pc' = "read" /\ rd' = TRUE
  /\ UNCHANGED <<content, offset, line, returned, null, failed>>

\* The buffer cannot be allocated, and what line held is lost.
buffer_fails ==
  /\ pc = "idle" /\ Fails
  /\ \E f \in Fd : Called(f)
  /\ line' = <<>>
  /\ ReturnsNull
  /\ UNCHANGED <<content, offset>>

Reading == pc = "read" /\ rd /\ NewlinesOf(line) = {}

\* Slip: the buffer is ended behind its last byte, not behind the last one read.
ReadsFull == {[k \in 1..BUFFER_SIZE |-> [of |-> fd, at |-> offset[fd] + k]]}

\* What read() can return, of the file it is called on.
Reads ==
  LET left  == Len(content[fd]) - offset[fd]
      sizes == IF left = 0 THEN {0} ELSE 1..Min({left, BUFFER_SIZE})
  IN  {[k \in 1..n |-> [of |-> fd, at |-> offset[fd] + k]] : n \in sizes}

\* Slip: a read that did not fill the buffer is taken for the last one.
GoesOnFull(buff) == Len(buff) = BUFFER_SIZE

GoesOn(buff) == buff # <<>>

Read(buff) ==
  /\ offset' = [offset EXCEPT ![fd] = @ + Len(buff)]
  /\ rd' = GoesOn(buff)

read_joined ==
  /\ Reading
  /\ \E buff \in Reads : Read(buff) /\ line' = line \o buff
  /\ UNCHANGED <<content, pc, fd, returned, null, drained, failed>>

\* ft_strjoin() returns NULL: what was read so far is lost, and the loop goes on.
join_fails ==
  /\ Reading /\ Fails
  /\ \E buff \in Reads : Read(buff)
  /\ line' = <<>>
  /\ UNCHANGED <<content, pc, fd, returned, null, drained>>

read_fails ==
  /\ Reading /\ Fails
  /\ line' = <<>>
  /\ ReturnsNull
  /\ UNCHANGED <<content, offset, fd, drained>>

\* Slip: an empty line is taken for the end of the file.
NothingReadOnLine == line = <<>> \/ (LineEnd(line) = 1 /\ IsNewline(line[1]))

\* zyada_mn_rass_l7me9(): whether there is no line to return.
NothingRead == line = <<>>

\* Slip: the rest starts at the newline.
RestWithNewline ==
  IF NewlinesOf(line) = {} THEN <<>> ELSE SubSeq(line, LineEnd(line), Len(line))

\* khli_gha_lmouhim(): what stays behind the line.
Rest == SubSeq(line, LineEnd(line) + 1, Len(line))

line_returned ==
  /\ pc = "read" /\ ~Reading
  /\ line' = Rest
  /\ IF NothingRead THEN ReturnsNull ELSE ReturnsLine
  /\ UNCHANGED <<content, offset, fd, drained, failed>>

\* The line cannot be copied: it is passed over.
line_lost ==
  /\ pc = "read" /\ ~Reading /\ ~NothingRead /\ Fails
  /\ line' = Rest
  /\ ReturnsNull
  /\ UNCHANGED <<content, offset, fd, drained>>

rest_lost ==
  /\ pc = "read" /\ ~Reading /\ NewlinesOf(line) # {} /\ Fails
  /\ line' = <<>>
  /\ ReturnsLine
  /\ UNCHANGED <<content, offset, fd, drained>>

Next ==
  \/ get_next_line \/ buffer_fails
  \/ read_joined \/ join_fails \/ read_fails
  \/ line_returned \/ line_lost \/ rest_lost

Spec == Init /\ [][Next]_vars

-----------------------------------------------------------------------------
(* Properties.                                                              *)

Bytes == [of : Fd, at : Nat \ {0}]

\* No file is read behind its end, and all text is bytes that have been read.
TypeOK ==
  /\ content \in Contents
  /\ offset \in [Fd -> Nat] /\ \A f \in Fd : offset[f] <= Len(content[f])
  /\ line \in Seq(Bytes) /\ \A k \in DOMAIN line : line[k].at <= offset[line[k].of]
  /\ pc \in {"idle", "read"} /\ fd \in Fd /\ rd \in BOOLEAN
  /\ returned \in Seq([fd : Fd, text : Seq(Bytes)])
  /\ null \in BOOLEAN /\ drained \in BOOLEAN /\ failed \in BOOLEAN

\* The lines that were returned and what is held behind them.
Out == Append([k \in DOMAIN returned |-> returned[k].text], line)

\* Whatever the sizes of the reads and the order of the calls on several files, what
\* is read of a file is returned or held once, in its order; a failure loses text but
\* repeats and moves none.
ReadInOrder ==
  /\ \A m, n \in DOMAIN Out : \A j \in DOMAIN Out[m], k \in DOMAIN Out[n] :
       Out[m][j].of = Out[n][k].of /\ (m < n \/ (m = n /\ j < k)) => Out[m][j].at < Out[n][k].at
  /\ ~failed => \A f \in Fd : \A at \in 1..offset[f] :
       \E n \in DOMAIN Out : [of |-> f, at |-> at] \in Range(Out[n])

\* What a call returns is never empty and has a newline at its end and nowhere else;
\* only at the end of the call's file, failures or not, may the newline be missing.
LinesWhole ==
  \A k \in DOMAIN returned :
    LET text == returned[k].text
    IN  /\ text # <<>> /\ NewlinesOf(text) \subseteq {Len(text)}
        /\ NewlinesOf(text) = {} => AtEnd(returned[k].fd)

\* A caller that reads every file to the NULL at its end, unless something failed, gets
\* no text of another file, although all of them share one variable.
OwnText ==
  drained /\ ~failed =>
    \A k \in DOMAIN returned : \A j \in DOMAIN returned[k].text :
      returned[k].text[j].of = returned[k].fd

=============================================================================
