----------------------------- MODULE MCBuiltins -----------------------------
(***************************************************************************)
(* A small instance of Builtins: every order of four variables, and of some *)
(* of them, one a name that starts with another one's.                      *)
(***************************************************************************)
EXTENDS Builtins, TLC

CONSTANTS HOMEX, root, tmp

MCNames == {PWD, OLDPWD, HOME, HOMEX}

MCDirs == {root, tmp}

MCStartsWith == [n \in MCNames |-> IF n = HOME THEN {HOME, HOMEX} ELSE {n}]

MCEnvironments ==
  LET entry(n) == [name |-> n, value |-> root]
  IN  {[k \in DOMAIN names |-> entry(names[k])] :
         names \in {s \in BoundedSeq(MCNames, 4) : Cardinality(Range(s)) = Len(s)}}

=============================================================================
