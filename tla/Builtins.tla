------------------------------ MODULE Builtins ------------------------------
(***************************************************************************)
(* cd() of cd.c and unset() of env.c, the two builtins the repository has:  *)
(* calls of them in any order on one environment, while other programs      *)
(* remove directories.  The files are not in the Makefile, and four of the  *)
(* functions they call are missing: change_old_pwd() and change_pwd() stand *)
(* for update_old_pwd() and update_pwd(), ft_chr() looks a value up, and    *)
(* check_dup_env() gives the first entry that starts with a text, or 0.     *)
(*                                                                         *)
(* The environment is the entries before the first NULL: no code looks      *)
(* behind one, so a NULL stored among them cuts it.                         *)
(***************************************************************************)
EXTENDS Naturals, Sequences, SequencesExt, FiniteSetsExt

CONSTANTS
  Dirs,          \* directories; the values of variables too
  Names,         \* the names of variables, among them
  PWD, OLDPWD, HOME,
  StartsWith,    \* StartsWith[n]: the names that start with n
  Environments   \* what the shell can be started with, the value of PWD aside

ASSUME BuiltinsAssumption ==
  /\ {PWD, OLDPWD, HOME} \subseteq Names /\ PWD # OLDPWD /\ "none" \notin Names
  /\ StartsWith \in [Names -> SUBSET Names] /\ \A n \in Names : n \in StartsWith[n]
  /\ Environments \subseteq Seq([name : Names, value : Dirs])
  /\ \A e \in Environments : \A j, k \in DOMAIN e : e[j].name = e[k].name => j = k

VARIABLES
  env,      \* the environment
  start,    \* history: the environment at the start
  cwd,      \* the working directory
  removed,  \* the directories that are no longer there
  crashed,  \* a NULL has been followed
  failed    \* a copy of a text has failed; bound: one does

vars == <<env, start, cwd, removed, crashed, failed>>

Places(e, name) == {k \in DOMAIN e : e[k].name = name}

Updated(e, name, dir) ==
  [k \in DOMAIN e |-> IF e[k].name = name THEN [name |-> name, value |-> dir] ELSE e[k]]

\* The parent process has set PWD.
Init ==
  /\ cwd \in Dirs
  /\ \E e \in Environments :
       env = [k \in DOMAIN e |-> [e[k] EXCEPT !.value = IF e[k].name = PWD THEN cwd ELSE @]]
  /\ start = env
  /\ removed = {} /\ crashed = FALSE /\ failed = FALSE

-----------------------------------------------------------------------------
(* cd(): OLDPWD is set first, then the directory is changed, then PWD is    *)
(* set, whatever became of the change.                                      *)

\* The variable whose text finds no memory, if any.
Losses == IF failed THEN {"none"} ELSE {"none", OLDPWD, PWD}

Fails(lost) == failed' = (failed \/ lost # "none")

\* The entry becomes NULL where getcwd() or ft_strjoin() returns it.
Set(e, name, dir, lost) ==
  IF Places(e, name) # {} /\ (dir \in removed \/ lost = name)
  THEN SubSeq(e, 1, Min(Places(e, name)) - 1)
  ELSE Updated(e, name, dir)

\* Slip: OLDPWD is left for the end.
OldStoredLater(lost) == env

OldStored(lost) == Set(env, OLDPWD, cwd, lost)

\* What ft_chr() finds.
Values(e, name) == {e[k].value : k \in Places(e, name)}

\* Where chdir() leaves the shell, given what there is to go to: it may be refused.
Reached(dirs) == {cwd} \cup (dirs \ removed)

\* Slip: PWD is set to where the call wanted to go.
PwdTargeted(dirs, dir) == IF dirs = {} THEN dir ELSE CHOOSE d \in dirs : TRUE

PwdStored(dirs, dir) == dir

Goes(dirs, lost) ==
  /\ cwd' \in Reached(dirs)
  /\ env' = Set(OldStored(lost), PWD, PwdStored(dirs, cwd'), lost)
  /\ Fails(lost)
  /\ UNCHANGED <<start, removed, crashed>>

cd_back == ~crashed /\ \E lost \in Losses : Goes(Values(OldStored(lost), OLDPWD), lost)

cd_home == ~crashed /\ \E lost \in Losses : Goes(Values(OldStored(lost), HOME), lost)

cd_to == ~crashed /\ \E lost \in Losses : \E d \in Dirs : Goes({d}, lost)

cd_too_many ==
  /\ ~crashed
  /\ \E lost \in Losses \ {PWD} : env' = OldStored(lost) /\ Fails(lost)
  /\ UNCHANGED <<start, cwd, removed, crashed>>

\* Without an argument args[2] was never written: unless it happens to hold something,
\* which is one argument too many, ft_strncmp() is given NULL.
cd_bare ==
  \/ cd_too_many
  \/ /\ ~crashed
     /\ \E lost \in Losses \ {PWD} : env' = OldStored(lost) /\ Fails(lost)
     /\ crashed' = TRUE
     /\ UNCHANGED <<start, cwd, removed>>

-----------------------------------------------------------------------------
(* unset().                                                                 *)

Found(name) == {k \in DOMAIN env : env[k].name \in StartsWith[name]}

\* Slip: the index is not compared with 0.
DropsFirst(name) == Found(name) # {} /\ env[Min(Found(name))].name = name

\* The first entry has the index that means "not found", and a name that only starts
\* like the one that is looked for hides those behind it.
Drops(name) ==
  /\ Found(name) # {} /\ Min(Found(name)) # 1
  /\ env[Min(Found(name))].name = name

unset ==
  /\ ~crashed
  /\ \E name \in Names : Drops(name) /\ env' = RemoveAt(env, Min(Found(name)))
  /\ UNCHANGED <<start, cwd, removed, crashed, failed>>

\* One of the copies is NULL.
unset_lost ==
  /\ ~crashed /\ ~failed /\ failed' = TRUE
  /\ \E name \in Names : \E k \in 0..Len(env)-2 :
       Drops(name) /\ env' = SubSeq(RemoveAt(env, Min(Found(name))), 1, k)
  /\ UNCHANGED <<start, cwd, removed, crashed>>

\* Other programs.
rmdir ==
  /\ ~crashed
  /\ \E d \in Dirs \ removed : removed' = removed \cup {d}
  /\ UNCHANGED <<env, start, cwd, crashed, failed>>

Next ==
  \/ cd_back \/ cd_home \/ cd_to \/ cd_too_many \/ cd_bare
  \/ unset \/ unset_lost \/ rmdir

Spec == Init /\ [][Next]_vars

-----------------------------------------------------------------------------
(* Properties.                                                              *)

\* PWD, while there is one, is the working directory after every call, also one that
\* could not change it, had too many arguments, or found that it is gone.
PwdFollows == \A dir \in Values(env, PWD) : dir = cwd

\* "cd -" goes to the directory it starts in, after any calls, because OLDPWD has been
\* overwritten before it is looked up.
BackStays == [][cd_back => cwd' = cwd]_vars

\* The same variable, with the same value unless cd() sets it.
Same(entry, old) ==
  entry.name = old.name /\ (entry.name \notin {PWD, OLDPWD} => entry = old)

\* Whatever is called, no variable appears, and those that remain are in the order of the
\* start, those that cd() does not set with their values; and the first remains unless a
\* NULL was stored in the list.
EnvironmentKept ==
  /\ \A k \in DOMAIN env : \E n \in DOMAIN start : Same(env[k], start[n])
  /\ \A j, k \in DOMAIN env : j < k =>
       \E m, n \in DOMAIN start : m < n /\ Same(env[j], start[m]) /\ Same(env[k], start[n])
  /\ ~failed /\ removed = {} /\ start # <<>> => env # <<>> /\ env[1].name = start[1].name

=============================================================================
