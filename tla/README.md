# minishell in TLA+

TLA+ specifications of the minishell in this repository, the TLC configurations
that check them on small instances, and proofs checked by TLAPS that hold for
every value of the constants.

1. [The system](#1-the-system)
2. [The models](#2-the-models)
3. [What the runs check](#3-what-the-runs-check)
4. [What is proved](#4-what-is-proved)
5. [Where the code does otherwise than it says](#5-where-the-code-does-otherwise-than-it-says)
6. [What is not modelled](#6-what-is-not-modelled)
7. [What could be added](#7-what-could-be-added)

## 1. The system

The program reads a line, cuts it into typed tokens, turns these into a list of
commands linked by pipes, prints both lists, and frees them. It runs nothing: the
files of the executor and most built-ins are empty, and the Makefile builds
`main.c`, `signals.c`, `parsing/parser.c` and `parsing/util_herdoc.c` only.

```
 readline --line--> tokenize_input --tokens--> parse_tokens --commands--> print, free
 (main.c)           concatinate                validate_syntax
                                               parsing loop --"<<"--> my_mkstemp     /tmp
                                                            --"<<"--> handle_heredoc readline
```

Everything runs in one thread. What crosses the process boundary is what the user
types (`readline`, in the prompt and again inside `handle_heredoc()`), the
environment (`getenv`), the files in `/tmp`, and `waitpid()`, whose status is
read where there is no child.

| component | state it keeps | operations | what makes it correct |
|---|---|---|---|
| tokenizer (`parser.c:35-675`, `tokenize_input`, `concatinate`) | index on the line, token list, the flags `expect_heredoc_delim` and `expect_filename`; later the cursor of the gluing loop | one handler per kind of text; merge, advance | the flags mean what the handlers take them to mean; every operand has its operator; quoted operators are text and a variable never makes an operator; no text is lost, doubled or reordered; every turn moves on |
| quoting and expansion (same file) | none: functions of a text | ends of words, names, quotes; quote and backslash removal; `$` expansion; trim, split | each scan returns a position in bounds, and the tokenizer's properties on text |
| parser (`parser.c:682-960`, `validate_syntax`, `parse_tokens`) | position, two counts; token types (edited while walking), command list, open command, temporary files | one branch per token type in either of two loops | the two loops agree on what is an operand and an empty stage; the answer is the pipeline the *whole* line stands for; links; nothing half-built is given up |
| here-document reader (`util_herdoc.c:53-170`) | the line, the expanded text and its block, the document and its block | read a line, expand a variable or a character, append | both blocks always have room; the document is what was typed before the delimiter |
| temporary files (`util_herdoc.c:1-51`) | the generator's seed; the names in `/tmp` | next name, exclusive open, retry | no document takes over a file that is there; a search ends |
| shell loop (`main.c`) | line, history, ownership of both lists | read, tokenize, parse, free, quit | every line typed serves once, at the prompt or in the document it belongs to; both lists are freed between two lines; a line shows its own documents |
| signals (`signals.c`) | dispositions | `all_signals()`, never called | — |
| built-ins `cd`, `unset` (`cd.c`, `env.c`), not built | environment array, working directory | `cd`, `cd -`, `unset` | `PWD` is the working directory; a name that is not set removes nothing, a stored NULL cuts nothing |
| get_next_line (`1337Libft/GNL/`), not called | one static text for all files | read a piece, join, cut a line off, keep the rest | lines come out whole, once and in order, and files are not mixed up |
| rest of libft, ft_printf | none | string helpers | as used by the tokenizer |

**Interaction.** Components call each other downwards and share data by handing
over a list: the tokenizer's list becomes the parser's, which retypes tokens in
it. What one relies on of the other is written down once, as `WellFormed` in
`Tokens`: the tokenizer is proved to return it, the parser is proved correct from
it, and `Shell` composes the two. The prompt and the here-document reader take
turns on one terminal: which of them reads a line decides what the line is. Several
shells share `/tmp`, and there each goes through the same names, since the generator of
each starts from the same seed.

**What is hard.** There are no threads. What goes wrong in such code is
*protocol over a sequence*: a flag that is set in one turn, outlives several
others, and is consulted in a third; two loops over the same list that must skip
the same tokens; a list edited while it is walked; a block that is replaced when
full, by three different tests; a variable that is overwritten before it is read; a
static text that outlives the file it came from; and a failed allocation that every
caller treats in its own way. Between processes it is the race for a name, an interrupt
between two steps, and an error that is retried for ever. Each hazard is listed, with its line and the properties that watch
it, under `hazards` in `PROJECT.json`.

## 2. The models

| module | what it is | code |
|---|---|---|
| `ShellText` | characters, scans and conversions, as operators and recursive functions | the string helpers of `parser.c`, `ft_strtrim`, `ft_substr`; external: `getenv`, `ft_splitD` |
| `Tokens` | token types, the token, and `WellFormed`: the contract between the two halves | `minishell.h:20-60`, `new_token` |
| `Tokenizer` | `tokenize_input()` as a state machine | `parser.c`, the handlers, the scanning loop, `concatinate` |
| `CommandLine` | abstract: the answer to a line, in one step, described from the whole line | what `parse_tokens` promises |
| `Parser` | `parse_tokens()` as a state machine; implements `CommandLine` | `validate_syntax`, the parsing loop |
| `Heredoc` | `handle_heredoc()` with `expand_env_vars()` as a state machine | `util_herdoc.c:53-170` |
| `TempStore` | abstract: a document is stored in one step, with what `write()` took of it, under a name of its own | what the here-documents need of `/tmp` |
| `TempFile` | several shells that search for names in one `/tmp`; implements `TempStore` | `util_herdoc.c:1-51`, the here-document branch of `parser.c` |
| `Session` | abstract: each typed line serves once, at the prompt or for a document | what `init_shell()` promises |
| `Shell` | the loop of `main.c`, composing `Tokenizer`, `Parser` and `Heredoc` (`INSTANCE`); implements `Session` | `main.c:4-34`, `free_tokens`, `free_command_list` |
| `LineReader` | `get_next_line()` called on several files | `1337Libft/GNL` |
| `Builtins` | `cd()` and `unset()` on one environment | `cd.c`, `env.c`; external: four missing helpers |
| `MCTokenizer`, `MCParser`, ... | small instances, one for each module that is checked | |
| `*Proofs` | theorems and lemmas about the module each is named after | |
| `TextProofs` | what they share: lemmas about `ShellText`, `Tokens`, and sequences put together from others | |

**Characters.** A character stands for its class as the code tells them apart. A
`NameChar` is a letter, a digit or `_`; the blanks, operators, quotes, `$`, `?`,
`\`, `{` and `}` are themselves. Lines are sequences of characters. Recursion is
written as recursive functions, so that the modules can be proved about.

**`Tokenizer`.** A step is one turn of the scanning loop with all that its handler
does, or one turn of `concatinate()`'s loop. The guards are the loop's tests in the
loop's order: `AtHeredoc` first, then the delimiter flag, then `Ordinary` text, by
its first character. `i` is one more than the C index. `word_lost`,
`handle_quotes_fails` and `concat_fails` are the allocation failures the code tests
for; `oom` lets at most one of them happen, which bounds the model and still puts it
between any two other steps. `StatusChoices` gives every `$?` inside a word a value
of its own, since `get_status()` returns a variable that `waitpid()` has not written
(`parser.c:46-52`).

**`Parser`.** `pc` is the phase: `start`, `validate`, `parse`, and the three ways to
return: `done`, `rejected` by `validate_syntax()`, `aborted` by the parsing loop.
Every action is one branch. The linked list of commands is a sequence, and
`current_command` an index into it, 0 for NULL, so "the open command is the last
one" is something to prove (`TypeOK`). `add_redirection()` puts a redirection in
front, which the model keeps. A command's name is a copy of its first argument and is
left out. Temporary files are a set of names that grows with each here-document and
starts with the names that exist already. One copy of a text may find no memory in a
call, and the code has two answers to that: `argument_lost` is `add_argument()`, which
returns without the argument when trimming fails and stores a NULL when copying does
(`parser.c:712-721`), and `filename_lost` leaves a redirection without its file name. A
structure that finds no memory is followed as a NULL pointer at once, and the program
ends there. `CommandLine` says what a failed copy may do to the answer: one argument is gone
or is NULL, or one redirection has no file name, and everything else is as it would be. The
answer carries whether a copy failed: without that nothing is damaged.

**`Heredoc`.** A buffer is a sequence, whose length is what the code counts, and a
capacity. When `expand_env_vars()` runs out of room for an ordinary character it
takes a larger block and does *not* copy the old one; the model fills the
sequence with `Junk`, bytes never written, and `expand_end` lets any of them be the
terminator that the caller's `strlen` finds. The single caller passes
`expand_vars = 1`.

**`TempFile`.** A name is its six letters and is drawn letter by letter, so two shells
interleave between any two letters. The generator keeps the shape of the code's, with its
constants as parameters. `interrupted` is the default action of a signal, as
`all_signals()` is never called; the shell started in its place begins with the seed 0.
`directory_changes` makes `open()` fail for a reason no other name cures, and stop
failing. Nothing unlinks a file, so `MaxFiles` bounds the instance.

**`Shell`.** A step is a step of the component whose call is under way, or a call or a
return; the components' variables are the shell's, and the list of tokens is one
variable for the tokenizer and the parser, as it is in the program. The instances are of
`TokenizerProofs` and `ParserProofs`, so that the proofs about `Shell` can go by theirs.
`typed` is all that the user will type, with `EOF` for an end of the file, and `next`
the position of what `readline()` returns next, at the prompt or in a document. `heap`
says which lists of which line are still allocated, each as a whole: the texts inside an
element, and those lost while one is built, are not followed. One allocation may fail in a
session, in any component (`oom`); `oom_before` keeps whether it had before the line, so
that `Session` can give the freedom of `LineInNeed` to that one line. Which
here-documents a line asks for, and in which order its commands are printed with them, is
stated by hand (`Asks`, `Shows` of `Session`), so the promise does not repeat what the
tokenizer and the parser do.

**`LineReader`.** A byte is its place, the file and the position in it, so that a
property can tell whether text was lost, doubled, moved or taken from another file. The
size of each `read()` is any that `read(2)` may return.

**`Builtins`.** The environment is the sequence of entries before its first NULL: a NULL
stored among them (`getcwd()` in a directory that is gone, a failed copy) cuts it, which
`Set` does. `cd()` stores `OLDPWD` first, changes the directory, and stores `PWD`
whatever became of that. `check_dup_env()` returns the first entry that starts with the
text, or 0, which is also the first entry's index. A bare `cd` reads `args[2]`, behind
the end of the arguments: both outcomes are taken.

**Slips.** The definitions commented "Slip:" are plausible mistakes, used
only to test the properties: with a definition replaced by its slip, the property
named in `PROJECT.json` under `mutants` must fail in its run. No specification uses
them.

## 3. What the runs check

Twelve runs. Deadlock checking is off in all but `linereader`: a call returns, or a shell
ends, and the last state has no successor.

| run | result | states | question |
|---|---|---|---|
| `tokenizer` | holds | 620,689 | safety of the tokenizer |
| `tokenizer_live` | holds | 31,927 | every call returns |
| `tokenizer_split` | violated | | finding 1 |
| `parser` | holds | 129,007 | the parser implements `CommandLine`; safety; every call returns |
| `parser_slots` | violated | | finding 2 |
| `parser_delimiter` | violated | | finding 3 |
| `heredoc` | holds | 159,283 | room, faithfulness, every call returns |
| `tempfile` | holds | 696,156 | several shells: exclusive names; implements `TempStore`; searches end |
| `tempfile_errors` | violated | | finding 4 |
| `shell` | holds | 169,796 | the composition: implements `Session`; what leaks; the session ends |
| `linereader` | holds | 443,299 | lines whole, in order, of one file |
| `builtins` | holds | 18,904 | the environment across `cd` and `unset` |

### `tokenizer`

* `HeredocDiscipline`: between two turns of the scan the delimiter flag is up exactly when
  the last token is a `HEREDOC`, for the next turn to take; at any time a `DELIMITER` stands right behind its operator.
* `FilenameDiscipline`: the file name flag is up exactly while a redirection waits,
  however many quoted words, pipes and other redirections come in between, and every
  `FILENAME` answers a redirection.
* `CommandPosition`: a `COMMANDE` starts the line or a stage, although one handler
  looks at the first token and the other at the last. A line that starts with `|`,
  which the parser refuses, is excepted: there `handle_quotes()` types every
  quoted word `COMMANDE`.
* `NoGlueLeft`: after `concatinate()` no two words touch that no space separates.
* `ConcatConserves` (a step property): gluing never changes the text of the list as
  a whole nor any token that is not a word.
* `TextFaithful`: in a line of names, blanks and operators each character that is
  no blank comes out exactly once, in order.
* `OperatorsFaithful`: the operators in the list are the unquoted operators of the
  line, in order, computed from the line by a definition of its own; values of
  variables that hold a `|` make none. Lines with a backslash, `<<` or `${` are left
  out, since those scans know no quotes or know others.
* `Progress`: every turn of the scan moves forward.

*Bounds.* Every line of up to 4 of the 14 characters, which has every pair and triple of
neighbouring handlers, and lines of up to 6 over four alphabets of four, one for each
hazard: operators with file names, quotes around operators, here-documents with
blanks and quotes, words glued by quotes and variables. Flags are carried over at most
as many turns as there are characters, so 6 gives operator, detour, operand, and
what follows. The environment has a value of two words, one of them an operator, a
quoted one, one of blanks only, and an empty one.

### `tokenizer_live`

`Termination` under `WF_vars(Next)`. The fairness is that one thread runs the call
and nothing in it waits. Lines of up to 3 characters, and 4 over the focused
alphabets: each handler, and each handler behind each other one. That no step stays
where it is on longer lines is `Progress`, in the run above.

### `parser`

* `ImplementsCommandLine`: a refinement. `CommandLine` defines from the whole line
  which stage a token belongs to, when the line is acceptable, and what each command
  holds; the two loops, with their counts, skips and retyping, answer with exactly
  that. The mapping is `Answer`, which shows nothing until the call returns. It also
  pins what is easily overlooked: `$?` alone is not a stage, `$?` behind a pipe is a
  command of that name, redirections come out last one first, all `$?` of a line have
  one value, and each here-document has a file of its own that did not exist.
* `PipesLinked`: at every moment the commands are linked up to the open one.
* `NoDanglingPipe`: a returned pipeline is not empty, does not end in a pipe, and
  has no empty command.
* `AbortOnlyOnDoubledHeredoc`: of the parsing loop's own checks, only the one
  for a delimiter can still fail behind `validate_syntax()`, and only for `<<` before
  `<<`.
* `Termination`, under weak fairness; assumes that what the user types into
  a here-document ends, and that a name is found (which `tempfile` looks into).

*Bounds.* Every list that satisfies `WellFormed`, of up to 4 tokens of all ten types, and
up to 6 over three groups of four types (words and pipes, file redirections and pipes,
here-documents and pipes): two stages with a redirection each fit into 6, and every
redirection branch is the same but for its type. One name exists already and three
are free, as many here-documents as 6 tokens can hold.

### `heredoc`

* `ExpansionFits`: during expansion the text and its terminator always fit into the
  block, whichever of the two growth tests ran last. The empty line is left out: there
  the code takes `malloc(0)` and writes the terminator behind it
  (`util_herdoc.c:56, 112`).
* `DocumentFits`: the same for the document.
* `LossNeedsLongValue`: text is lost to the block that is not copied only if some
  variable in the line has a value more than twice as long as `$` and its name.
* `DocumentFaithful`: the document is the lines before the first delimiter, expanded
  unless the delimiter was quoted, for all inputs that exclude that loss.
* `Termination`, under weak fairness: the user goes on typing up to the end of the
  file.

*Bounds.* Every single line of up to 5 characters over two name characters, `$` and
`?`, and documents of up to 4 lines from 6, with four delimiters (plain, quoted,
single-quoted, odd quote). The values lie on both sides of the growth tests: longer
than twice the reference, exactly as long, shorter, empty, unset, and one that is
itself a reference and must not be expanded again. The smallest line that loses text
has 3 characters; the documents grow their block twice.

### `tempfile`

* `OneFileEach`: no two here-documents have one file, of one shell or of two.
* `DocumentKept`: as long as a redirection is there, its file holds what `write()` took of
  its document, and nothing of another one. What `write()` returns is not looked at
  (`parser.c:927`), so a document cut short is one the model has, as a text of `File`.
* `NamesInOrder`: unless the directory failed, the names in use are the first ones of the
  sequence: no race, interrupt or restart leaves a gap. So each new shell walks past
  every file ever made.
* `ImplementsTempStore`: a refinement, under which storing a document is one step. The
  mapping is the closed files, and the redirections.
* `SearchEnds`: if the directory stays usable from some time on, every search for a name
  ends, although others keep taking names.

*Fairness.* Weak, for each shell's own steps once it has a document: the system runs
every process. Users need not type, nothing need be interrupted, and the directory owes
nothing. *Bounds.* Two shells; names of two letters out of three from a generator of 16
seeds, whose round of eight names has one twice, one of them taken before; up to four
files. That is enough for a race, a name that is taken, the same name drawn again in a
round, and a restart behind all of these. With more files than a round has names a search
may go on for ever; `MaxFiles` keeps away from that, as 26^6 names do.

### `shell`

* `HandedWellFormed`: what the parser is given is what its proofs assume.
* `ImplementsSession`: a refinement: every line is read once, by the prompt or by the
  document it belongs to, whatever refusals, pipes and ends of the file came before. A
  line shows its own documents, command by command and in each command the last one first:
  `add_redirection()` puts a redirection in front (`parser.c:733-734`), and
  `print_command_list()` walks from the front. So `<<x <<y` reads the document of `x`
  first and shows that of `y` first. In the one line in which memory ran out a document
  may be given up before its end, and the lines left of it are then commands
  (`LineInNeed`); the lines behind are dealt with as ever.
* `ListLeaksLocated`: between two lines neither list of a line, of tokens or of commands,
  is left, but the commands of a line with a doubled `<<` and the tokens of one whose
  quoted text could not be copied. It says nothing of single texts: on ordinary lines
  the code also loses the name at `parser.c:98`, the copy at line 105 and the block that
  `util_herdoc.c:100-106` replaces.
* `SessionEnds`: the shell ends when the user does. *Fairness.* Weak, for `Next`: one
  thread, and a user who types up to the end of the file.

*Bounds.* Every session of up to 3 out of nine lines and `EOF`, and of up to 5 behind the
two lines that read documents and can go wrong after the first one. The nine are the empty
line, blanks, a refused one, quoted text, two here-documents in one command, one on each
side of a pipe, doubled operators, and two words that are commands at the prompt and
delimiters behind it. A line does not depend on the ones before it but through what is
left on the terminal and the heap, and both show with two lines.

### `linereader`

* `ReadInOrder`: what is read of a file is returned or held once, in order; a failure
  loses text but repeats and moves none.
* `LinesWhole`: a line is not empty, has its newline at its end and nowhere else, and has
  none only at the end of its file, also when something failed.
* `OwnText`: a caller that goes on to another file only behind a NULL gets no text of
  another file.

*Bounds.* Two files of up to 4 and 2 bytes, pieces of up to 3, calls in any order, one
failure: a piece holds up to three lines, a line takes up to four pieces, and the rest of
one file is there when the other one is read. A NUL byte, at which the string
functions would stop, is left out.

### `builtins`

* `PwdFollows`: every `PWD` there is is the working directory, whatever succeeded,
  failed or was refused.
* `EnvironmentKept`: variables keep their order and, but for `PWD` and `OLDPWD`, their
  values, and without a failure the first one is never lost: `unset` of it does nothing.
* `BackStays`: `cd -` stays where it is.

*Bounds.* Every order of up to four variables, one a name that starts with another one's;
two directories, which others may remove; one failed copy. An `unset` looks at two
names and a `cd` at three.

## 4. What is proved

Checked by TLAPS to the last leaf, for every value of the constants: any name
characters, any environment, lines, lists and documents of any length.

| module | theorem | states |
|---|---|---|
| `TokenizerProofs` | `TypeCorrect`, `HeredocsDisciplined`, `FilenamesDisciplined`, `CommandsInPosition` | `TypeOK`, `HeredocDiscipline`, `FilenameDiscipline`, `CommandPosition` are invariants of `Tokenizer` |
| | `ReturnsWellFormed` | a list that is returned satisfies `WellFormed` |
| | `NothingLeftToGlue`, `ScanMovesForward`, `JoiningConserves` | `NoGlueLeft` is an invariant, `Progress` and `ConcatConserves` are properties of every step |
| | `TextIsFaithful`, `OperatorsAreFaithful` | `TextFaithful`, `OperatorsFaithful` are invariants: the list says what the line says |
| `ParserProofs` | `TypeCorrect`, `CommandsLinked`, `NoPipelineDangles`, `AbortsLocated` | `TypeOK`, `PipesLinked`, `NoDanglingPipe`, `AbortOnlyOnDoubledHeredoc` are invariants of `Parser` |
| | `ParserImplementsCommandLine` | `Parser` implements `CommandLine` |
| `HeredocProofs` | `TypeCorrect`, `ExpansionStaysInside`, `DocumentStaysInside`, `LossLocated` | `TypeOK`, `ExpansionFits`, `DocumentFits`, `LossNeedsLongValue` are invariants of `Heredoc` |
| | `DocumentIsFaithful` | `DocumentFaithful` is an invariant: the document is what was typed |
| `TempFileProofs` | `TypeCorrect`, `OneFileEachHolds`, `DocumentKeptHolds`, `NamesAreInOrder` | `TypeOK`, `OneFileEach`, `DocumentKept`, `NamesInOrder` are invariants of `TempFile` |
| | `TempFileImplementsStore` | `TempFile` implements `TempStore` |
| `ShellProofs` | `TypeCorrect`, `HandedIsWellFormed`, `ListLeaksAreLocated` | `TypeOK`, `HandedWellFormed`, `ListLeaksLocated` are invariants of `Shell` |
| `LineReaderProofs` | `TypeCorrect`, `LinesAreWhole`, `TextIsOwn`, `TextInOrder` | `TypeOK`, `LinesWhole`, `OwnText`, `ReadInOrder` are invariants of `LineReader` |
| `BuiltinsProofs` | `PwdAlwaysFollows`, `EnvironmentIsKept`, `BackNeverLeaves` | `PwdFollows` and `EnvironmentKept` are invariants of `Builtins`, `BackStays` a property of every step |

**Assumptions.** `TextAssumption` (special characters are no name characters; names
and values are text; there is a status text), `InputsAssumption` (lines are non-empty
text: `main.c:13` tests the length), `ParserAssumption` (the lists are `WellFormed`;
existing files have names a temporary file can have; `args` has at least one slot),
`HeredocAssumption` (delimiters and scripts are text; a newline or an unwritten byte is
no character), `TempFileAssumption` (the generator's numbers are naturals, its divisors
are not 0), `LineReaderAssumption` (the buffer has a positive size), `BuiltinsAssumption`
(no variable occurs twice; `PWD` and `OLDPWD` differ), `ShellAssumption` (what is typed is
text, `EOF` is no line, `args` has at least one slot). TLC evaluates each on the instances.

**Recursive functions and folds.** What a recursive function computes is proved by induction
over naturals stated with sets, which needs no operator as a parameter (`Induction`,
`SequenceInduction` in `TextProofs`): for any set of naturals that has 0 and with each `n`
also `n + 1`. Where a scan or an expansion recurses over the positions of a line, the
invariant holds the value of the whole against the part that is done and the value of the
rest.

**Tokenizer.** The invariant is the conjunction of the four properties
(`TokenizerProofs!Inv`), and its parts lean on each other. A `FILENAME` is
legitimate because the flag was up, which says a redirection is pending; a
`COMMANDE` is placed right because an ordinary turn cannot happen while the delimiter
flag is up; and gluing keeps all three because what it removes is a word behind
a word. The proof shows first that every turn is an append of tokens that *join*
(`HandlersTakeTurns`), then that appending what joins keeps the order
(`JoinsKeepsOrder` in `TextProofs`), so all handlers share one preservation
argument. `NothingLeftToGlue` adds that behind the cursor nothing is left to glue
(`GlueInv`), and `ScanMovesForward` follows from what each scan of
`ShellText` returns: a position behind the one it was given. `JoiningConserves` cuts the
list into what is before the two words, the words, and what is behind, of which gluing
changes the middle and not its text; that takes values that are texts (`Texts`).

*What the list says.* `OperatorsKept`: the operators of the list are those of the line up
to the index, and the scan stands outside of quotes, as the line's own reading of its
quotes has it (`Outside`); a turn that takes no operator passes over none (`Passes`).
`TextKept` is the same with every character that is no blank. Gluing then keeps both, by
the lemmas of `JoiningConserves`.

**Parser.** `IInv` adds to the properties what each phase has established
(`Phases`). In the validating phase, `Validated`: every operator before the position
has its operand, and counts are zero behind a pipe. In the parsing phase, `Accepted`:
that still holds for the whole line, and the edits made since only retype a token
behind a pipe that is no redirection; and `Parsing`: the loop never stands on an
operand, and where no command is open it is at the start of a stage. This is the
agreement of the two loops: without it, none of the parsing loop's early returns could
be excluded. A copy that failed makes an argument or a file name NULL and changes neither
the types nor the position, so the same argument covers it.

*The refinement* adds what the counts count, stage by stage of the line (`Counting`), and
what is built (`Building`): the commands are the pipeline `CommandLine` describes, cut off
at the position, for some assignment of files to the here-documents so far and at most one
damaged token. Every turn of the loop moves the cut by what it takes, and at the end of the
line the cut pipeline is the whole one. Before the parsing loop no file is made
(`Answering`); every step but the one that returns leaves `Answer` as it is.

**Here-documents.** `ExpansionFits` and `DocumentFits` are inductive with `TypeOK`: each
growth test leaves room for the terminator that is written later. `LossNeedsLongValue` is
not. `IInv` adds `Walk`: while values are short, the text is at most twice as long as what
has been walked over, and the block has at least its first size, so the block never has
to grow for a character; and `Clean`: the text then holds no byte that was never
written. `DocumentIsFaithful` adds `Kept`: the document holds the lines before the current
one, none of which is the delimiter, and what is expanded of the current line together
with the expansion of its rest is the expansion of the line.

**Temporary files.** `OneFileEach` is not inductive: the invariant adds that a shell that
writes owns an open file which no redirection names, and that no other shell writes to it.
This is `WritersApart`; `O_EXCL` establishes it, and the refinement follows from the same
facts: only `write_document` closes a file, and it closes one that nobody else has.
`NamesInOrder` needs where each shell is in the sequence (`Walked`): it has drawn some
number of names, all of which are taken, and the first letters of the next one. A shell
that finds its name free has therefore walked past every other file there is. That the
first `Modulus` names are all there can be is the pigeonhole principle: a seed comes back
within as many draws, and from there on so do the names.

**Shell.** The invariant says for each phase which call is under way: `Calls` is the
component's own invariant in it, so that a step of a component keeps the shell's invariant
by that component's lemmas, reached through the shell's instances `T` and `P`. They may
be used because what the components assume of their constants holds of what the shell
gives them (`TokenizerGiven`, `ParserGiven`), and the parser may be called because of
`ReturnsWellFormed`. `Reading` keeps a document within what is typed. `Heap`: each list
that is allocated belongs to the call under way or is one of the two kinds that nobody
frees. That the lost commands are of a line with `<<<<` takes two traces: the parser gives
up only on two `HEREDOC` tokens in a row, and the tokenizer makes those only of four `<` in
a row (`Traced`).

**Lines.** `LinesWhole` needs that the loop stops without a newline only at the end of
the file (`StoppedAtEnd`), and `OwnText` that nothing waits behind a NULL and that what
waits otherwise is of the file of the last call (`RestHeld`). `ReadInOrder` adds that no
byte held lies behind what was read (`OrderInv`).

**Built-ins.** `PwdFollows` is inductive with the types of the environment. The work is
in what a walk over the environment leaves (`StoreSetsValue`, `RemovalKeepsValues`), also
where a NULL cuts it. `BackStays` follows since the environment has no other `OLDPWD`
than the one stored just before the look-up. `EnvironmentKept` compares with the start by
way of the steps: what is left follows the order of what was there (`Follows`), which
carries on from step to step.

**Only model-checked.** `Termination` (in three runs), `SearchEnds` and `SessionEnds` are liveness
under fairness, which the prover does not do. `ImplementsSession` holds of an instance:
`Asks` and `Shows` say of each line of the run, by hand, which documents it asks for and in
which order they are printed, so there is nothing to prove for lines in general. Every other property of a run that holds
is a theorem.

## 5. Where the code does otherwise than it says

1. `parser.c:427` says each part of a split value becomes a separate token. With
   `x` holding `a b`, the line `"p"$x` becomes one token `pab`: `concatinate()` glues `p`
   to `a` and keeps the space flag of `p`, so the flag set on `a` at line 436 is lost
   and `b` is glued on too. TLC finds it with `$$x` (`tokenizer_split`,
   `PartsStaySeparate`).
2. `parser.c:699` says "Start with space for 64 arguments", and nothing grows the
   array. The 64th argument fills it and the terminating NULL at line 723 is stored
   past it (`parser_slots`, `ArgsInBounds`).
3. `parser.c:801` says any token serves as a here-document's delimiter, and
   `validate_syntax()` accepts it. The parsing loop at line 911 demands a `DELIMITER`
   and gives up on `<<<<`, losing the commands before it (`parser_delimiter`,
   `AnyDelimiterServes`).

4. `util_herdoc.c:44` has a message for a temporary file that could not be made, and
   `parser.c:921` one behind it. `create_temp_file()` answers every error of `open()` with another
   name, also those no name cures, and never comes back to give either
   (`tempfile_errors`, `ErrorsEndTheSearch`).

Met on the way, and shown by the properties rather than against a text of the
repository:

* `cd -` stays where it is, because `OLDPWD` is set before it is read (`BackStays`).
* `unset` never removes the first variable, nor one behind a longer name that starts
  the same way (`EnvironmentKept`).
* The commands built before a doubled `<<` are never freed, nor are the tokens of a line
  whose quoted text finds no memory (`ListLeaksLocated`).
* The documents of a command are printed last one first (`ImplementsSession`).
* A document given up for want of memory leaves the lines behind it to the prompt, where
  they are commands (`LineInNeed` of `Session`).

And outside the properties: the empty line of a here-document (above); a bare `cd` reads
an argument that was never written; libft.a holds two functions `ft_strchr()`, of which
only one takes the NULL that `get_next_line()` gives it; `print_command_list()` prints
here-documents as appends (`parser.c:1010-1030`); single texts are lost on ordinary lines
(`parser.c:98`, `105`, `util_herdoc.c:100-106`); a variable of blanks only has no parts,
so it yields no token.

## 6. What is not modelled

| part | why |
|---|---|
| `executor.c`, `pipes.c` and the other empty files | no code |
| `all_signals()`, `sigint_handler()` | never called or installed; the default action of an interrupt is `interrupted` in `TempFile` |
| `print_tokens()`, `print_command_list()` | output only; which documents a line shows, and in which order, is in `Shell` |
| `calculate_quote_num()`, `is_quoted()`, `remove_enclosing_quotes()` | no caller |
| the parser's `ENV_VAR` branch | dead: no statement builds such a token |
| ft_printf | not called; formatting without a state |
| most of libft | the C library's functions, or not called; `ft_strtrim()` and `ft_substr()` are in `ShellText` |
| `ft_splitD()`, `change_old_pwd()`, `change_pwd()`, `ft_chr()`, `check_dup_env()`, `ft_free()` | in no file of the repository; modelled from their calls, marked external |
| single blocks inside a token or a command, and texts lost while one is built (`parser.c:98`, `105`; `util_herdoc.c:100-106`) | the lists are owned as wholes |
| what `write()` returns for a document | not looked at; a short file is one outcome of `File` |
| NUL bytes in files, and names of variables that occur twice | assumptions |

## 7. What could be added

Every part of the program that keeps state is modelled. What is left is of
less weight:

1. **Text**: `remove_backslashes`, `expand_variables` and the string functions of libft
   (`ft_atoi`, `ft_itoa`, `ft_split`) against reference definitions over bounded texts.
2. **Proofs**: `ImplementsSession`, with `Asks` and `Shows` defined from the text of a line
   by what the tokenizer and the parser are proved to make of it.
3. **Instances**: three shells over one `/tmp`; sessions with two failures.
