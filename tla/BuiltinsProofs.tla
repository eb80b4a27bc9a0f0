--------------------------- MODULE BuiltinsProofs ---------------------------
(***************************************************************************)
(* Proofs about Builtins, for every environment and set of directories:     *)
(* PWD follows the working directory, "cd -" stays where it is, and what is *)
(* left of the environment is in the order of the start.  All rest on what  *)
(* storing and removing a variable leave of the environment.                *)
(***************************************************************************)
EXTENDS Builtins, SequenceTheorems, WellFoundedInduction, TLAPS

Entries == Seq([name : Names, value : Dirs])

-----------------------------------------------------------------------------
(* What a walk over the environment leaves.                                 *)

\* The minimum of some naturals is the least of them.
LEMMA MinIsLeast ==
  ASSUME NEW S, S \subseteq Nat, S # {}
  PROVE  Min(S) \in S /\ \A y \in S : Min(S) <= y
  <1> DEFINE R == OpToRel(<, Nat)
  <1>1. \A x, y \in Nat : x < y => <<x, y>> \in R
    BY DEF OpToRel
  <1>2. IsWellFoundedOn(R, Nat)
    BY NatLessThanWellFounded
  <1> HIDE DEF R
  <1>3. PICK x \in S : \A y \in S : <<y, x>> \notin R
    BY <1>2, WFMin
  <1>4. \A y \in S : x <= y
    <2> SUFFICES ASSUME NEW y \in S PROVE x <= y
      OBVIOUS
    <2>1. x \in Nat /\ y \in Nat /\ ~(y < x)
      BY <1>1, <1>3
    <2>2. QED
      BY <2>1
  <1>5. QED
    BY <1>4 DEF Min

\* A part of the environment has no values but its own.
LEMMA PartKeepsValues ==
  ASSUME NEW e \in Entries, NEW m \in 1..Len(e)+1, NEW n \in 0..Len(e)
  PROVE  /\ SubSeq(e, m, n) \in Entries
         /\ \A name : Values(SubSeq(e, m, n), name) \subseteq Values(e, name)
  <1> DEFINE part == SubSeq(e, m, n)
  <1>1. Len(e) \in Nat /\ DOMAIN e = 1..Len(e) /\ \A k \in 1..Len(e) : e[k] \in [name : Names, value : Dirs]
    BY LenProperties, ElementOfSeq DEF Entries
  <1>2. \A k \in m..n : k \in 1..Len(e)
    BY <1>1
  <1>3. /\ part \in Entries
        /\ Len(part) = IF m <= n THEN n - m + 1 ELSE 0
        /\ \A k \in 1..n-m+1 : part[k] = e[m + k - 1]
    BY <1>1, <1>2, SubSeqProperties DEF Entries
  <1>4. \A k \in DOMAIN part : k \in 1..n-m+1 /\ m + k - 1 \in DOMAIN e
    <2> HIDE DEF part
    <2>1. DOMAIN part = 1..Len(part)
      BY <1>3, LenProperties DEF Entries
    <2>2. QED
      BY <1>1, <1>3, <2>1
  <1> HIDE DEF part
  <1>5. \A name : Values(part, name) \subseteq Values(e, name)
    <2> SUFFICES ASSUME NEW name, NEW k \in DOMAIN part, part[k].name = name
                 PROVE  \E j \in DOMAIN e : e[j].name = name /\ part[k].value = e[j].value
      BY DEF Values, Places
    <2>1. part[k] = e[m + k - 1] /\ m + k - 1 \in DOMAIN e
      BY <1>3, <1>4
    <2>2. QED
      BY <2>1
  <1>6. QED
    BY <1>3, <1>5 DEF part

\* Neither has what is left when an entry is taken out.
LEMMA RemovalKeepsValues ==
  ASSUME NEW e \in Entries, NEW k \in 1..Len(e)
  PROVE  /\ RemoveAt(e, k) \in Entries
         /\ \A name : Values(RemoveAt(e, k), name) \subseteq Values(e, name)
  <1> DEFINE left  == SubSeq(e, 1, k - 1)
             right == SubSeq(e, k + 1, Len(e))
  <1>1. Len(e) \in Nat
    BY LenProperties DEF Entries
  <1>2. /\ left \in Entries /\ right \in Entries
        /\ \A name : /\ Values(left, name) \subseteq Values(e, name)
                     /\ Values(right, name) \subseteq Values(e, name)
    <2>1. 1 \in 1..Len(e)+1 /\ k - 1 \in 0..Len(e) /\ k + 1 \in 1..Len(e)+1 /\ Len(e) \in 0..Len(e)
      BY <1>1
    <2>2. QED
      BY <2>1, PartKeepsValues
  <1>3. RemoveAt(e, k) = left \o right
    BY DEF RemoveAt
  <1> HIDE DEF left, right
  <1>4. /\ left \o right \in Entries
        /\ Len(left \o right) = Len(left) + Len(right)
        /\ \A j \in 1..Len(left) + Len(right) :
             (left \o right)[j] = IF j <= Len(left) THEN left[j] ELSE right[j - Len(left)]
    BY <1>2, ConcatProperties DEF Entries
  <1>5. /\ DOMAIN (left \o right) = 1..Len(left) + Len(right)
        /\ DOMAIN left = 1..Len(left) /\ DOMAIN right = 1..Len(right)
        /\ Len(left) \in Nat /\ Len(right) \in Nat
    BY <1>2, <1>4, LenProperties DEF Entries
  <1>6. \A name : Values(left \o right, name) \subseteq Values(left, name) \cup Values(right, name)
    <2> SUFFICES ASSUME NEW name, NEW j \in DOMAIN (left \o right), (left \o right)[j].name = name
                 PROVE  \/ \E n \in DOMAIN left : left[n].name = name /\ (left \o right)[j].value = left[n].value
                        \/ \E n \in DOMAIN right : right[n].name = name /\ (left \o right)[j].value = right[n].value
      BY DEF Values, Places
    <2>1. CASE j <= Len(left)
      BY <1>4, <1>5, <2>1
    <2>2. CASE j > Len(left)
      <3>1. j - Len(left) \in DOMAIN right /\ (left \o right)[j] = right[j - Len(left)]
        BY <1>4, <1>5, <2>2
      <3>2. QED
        BY <3>1
    <2>3. QED
      BY <1>5, <2>1, <2>2
  <1>7. QED
    BY <1>2, <1>3, <1>4, <1>6

\* Removing an entry makes the environment shorter by one and moves those behind it.
LEMMA RemovalShortens ==
  ASSUME NEW e \in Entries, NEW k \in 1..Len(e)
  PROVE  /\ Len(RemoveAt(e, k)) = Len(e) - 1
         /\ \A j \in 1..Len(e)-1 : RemoveAt(e, k)[j] = IF j < k THEN e[j] ELSE e[j + 1]
  <1> DEFINE left  == SubSeq(e, 1, k - 1)
             right == SubSeq(e, k + 1, Len(e))
  <1>1. Len(e) \in Nat /\ \A j \in 1..Len(e) : e[j] \in [name : Names, value : Dirs]
    BY LenProperties, ElementOfSeq DEF Entries
  <1>2. /\ left \in Entries /\ Len(left) = IF 1 <= k - 1 THEN k - 1 - 1 + 1 ELSE 0
        /\ \A j \in 1..k-1-1+1 : left[j] = e[1 + j - 1]
    <2>1. \A j \in 1..k-1 : j \in 1..Len(e)
      BY <1>1
    <2>2. QED
      BY <1>1, <2>1, SubSeqProperties DEF Entries
  <1>3. /\ right \in Entries /\ Len(right) = IF k + 1 <= Len(e) THEN Len(e) - (k + 1) + 1 ELSE 0
        /\ \A j \in 1..Len(e)-(k+1)+1 : right[j] = e[k + 1 + j - 1]
    <2>1. \A j \in k+1..Len(e) : j \in 1..Len(e)
      BY <1>1
    <2>2. QED
      BY <1>1, <2>1, SubSeqProperties DEF Entries
  <1>4. RemoveAt(e, k) = left \o right
    BY DEF RemoveAt
  <1> HIDE DEF left, right
  <1>5. Len(left) = k - 1 /\ Len(right) = Len(e) - k
    BY <1>1, <1>2, <1>3
  <1>6. /\ Len(left \o right) = Len(left) + Len(right)
        /\ \A j \in 1..Len(left) + Len(right) :
             (left \o right)[j] = IF j <= Len(left) THEN left[j] ELSE right[j - Len(left)]
    BY <1>2, <1>3, ConcatProperties DEF Entries
  <1>7. ASSUME NEW j \in 1..Len(e)-1
        PROVE  (left \o right)[j] = IF j < k THEN e[j] ELSE e[j + 1]
    <2>1. CASE j < k
      <3>1. left[j] = e[j]
        BY <1>1, <1>2, <2>1
      <3>2. QED
        BY <1>1, <1>5, <1>6, <2>1, <3>1
    <2>2. CASE ~(j < k)
      <3>1. j - (k - 1) \in 1..Len(e)-(k+1)+1 /\ k + 1 + (j - (k - 1)) - 1 = j + 1
        BY <1>1, <2>2
      <3>2. right[j - (k - 1)] = e[j + 1]
        BY <1>3, <3>1
      <3>3. QED
        BY <1>1, <1>5, <1>6, <2>2, <3>2
    <2>3. QED
      BY <2>1, <2>2
  <1>8. Len(left \o right) = Len(e) - 1
    BY <1>1, <1>5, <1>6
  <1>9. QED
    BY <1>4, <1>7, <1>8

\* Storing a variable leaves no other value of it and no new ones of the others, also
\* where a NULL is stored and cuts the environment.
LEMMA StoreSetsValue ==
  ASSUME NEW e \in Entries, NEW name \in Names, NEW dir \in Dirs, NEW lost
  PROVE  LET stored == Set(e, name, dir, lost)
         IN  /\ stored \in Entries
             /\ Values(stored, name) \subseteq {dir}
             /\ \A other : other # name => Values(stored, other) \subseteq Values(e, other)
  <1>1. Len(e) \in Nat /\ DOMAIN e = 1..Len(e) /\ \A k \in 1..Len(e) : e[k] \in [name : Names, value : Dirs]
    BY LenProperties, ElementOfSeq DEF Entries
  <1>2. CASE Places(e, name) # {} /\ (dir \in removed \/ lost = name)
    <2> DEFINE first == Min(Places(e, name))
    <2>1. Places(e, name) \subseteq 1..Len(e) /\ Places(e, name) \subseteq Nat
      BY <1>1 DEF Places
    <2>2. first \in Places(e, name) /\ \A k \in Places(e, name) : first <= k
      BY <1>2, <2>1, MinIsLeast
    <2> HIDE DEF first
    <2>3. first \in 1..Len(e) /\ first - 1 \in 0..Len(e) /\ 1 \in 1..Len(e)+1
      BY <1>1, <2>1, <2>2
    <2> DEFINE part == SubSeq(e, 1, first - 1)
    <2>4. part \in Entries /\ \A other : Values(part, other) \subseteq Values(e, other)
      BY <2>3, PartKeepsValues
    <2>5. Values(part, name) = {}
      <3>1. /\ Len(part) = first - 1
            /\ \A k \in 1..first-1 : part[k] = e[k]
        <4>1. \A k \in 1..first-1 : k \in 1..Len(e)
          BY <1>1, <2>3
        <4>2. /\ Len(part) = IF 1 <= first - 1 THEN first - 1 - 1 + 1 ELSE 0
              /\ \A k \in 1..first-1-1+1 : part[k] = e[1 + k - 1]
          BY <1>1, <2>3, <4>1, SubSeqProperties DEF Entries
        <4>3. QED
          BY <1>1, <2>3, <4>2
      <3>2. DOMAIN part = 1..Len(part)
        BY <2>4, LenProperties DEF Entries
      <3> HIDE DEF part
      <3>3. \A k \in DOMAIN part : part[k].name # name
        <4> SUFFICES ASSUME NEW k \in DOMAIN part, part[k].name = name PROVE FALSE
          OBVIOUS
        <4>1. k \in 1..Len(e) /\ k < first /\ e[k].name = name
          BY <1>1, <2>3, <3>1, <3>2
        <4>2. k \in Places(e, name)
          BY <1>1, <4>1 DEF Places
        <4>3. QED
          BY <1>1, <2>2, <2>3, <4>1, <4>2
      <3>4. QED
        BY <3>3 DEF Values, Places
    <2>6. Set(e, name, dir, lost) = part
      BY <1>2 DEF Set, first
    <2>7. QED
      BY <2>4, <2>5, <2>6
  <1>3. CASE ~(Places(e, name) # {} /\ (dir \in removed \/ lost = name))
    <2> DEFINE updated == Updated(e, name, dir)
    <2>1. /\ updated = [k \in 1..Len(e) |-> updated[k]]
          /\ \A k \in 1..Len(e) :
               updated[k] = IF e[k].name = name THEN [name |-> name, value |-> dir] ELSE e[k]
      BY <1>1 DEF Updated
    <2> HIDE DEF updated
    <2>2. \A k \in 1..Len(e) : updated[k] \in [name : Names, value : Dirs]
      BY <1>1, <2>1
    <2>3. updated \in Entries
      BY <1>1, <2>1, <2>2, SeqDef DEF Entries
    <2>4. DOMAIN updated = 1..Len(e)
      BY <2>1
    <2>5. Values(updated, name) \subseteq {dir}
      BY <1>1, <2>1, <2>4 DEF Values, Places
    <2>6. ASSUME NEW other, other # name
          PROVE  Values(updated, other) \subseteq Values(e, other)
      BY <1>1, <2>1, <2>4, <2>6 DEF Values, Places
    <2>7. Set(e, name, dir, lost) = updated
      BY <1>3 DEF Set, updated
    <2>8. QED
      BY <2>3, <2>5, <2>6, <2>7
  <1>4. QED
    BY <1>2, <1>3

-----------------------------------------------------------------------------
(* The inductive invariant: an environment of names and directories in      *)
(* which PWD is the working directory.                                      *)

Inv == env \in Entries /\ cwd \in Dirs /\ PwdFollows

LEMMA InitInv == Init => Inv
  <1> SUFFICES ASSUME Init PROVE Inv
    OBVIOUS
  <1>1. PICK e \in Environments :
          env = [k \in DOMAIN e |-> [e[k] EXCEPT !.value = IF e[k].name = PWD THEN cwd ELSE e[k].value]]
    BY DEF Init
  <1>2. e \in Entries /\ cwd \in Dirs
    BY BuiltinsAssumption DEF Entries, Init
  <1>3. Len(e) \in Nat /\ DOMAIN e = 1..Len(e) /\ \A k \in 1..Len(e) : e[k] \in [name : Names, value : Dirs]
    BY <1>2, LenProperties, ElementOfSeq DEF Entries
  <1>4. /\ env = [k \in 1..Len(e) |-> env[k]] /\ DOMAIN env = 1..Len(e)
        /\ \A k \in 1..Len(e) : /\ env[k] \in [name : Names, value : Dirs]
                                /\ env[k].name = PWD => env[k].value = cwd
    <2>1. \A k \in 1..Len(e) :
            env[k] = [e[k] EXCEPT !.value = IF e[k].name = PWD THEN cwd ELSE e[k].value]
      BY <1>1, <1>3
    <2>2. env = [k \in 1..Len(e) |-> env[k]] /\ DOMAIN env = 1..Len(e)
      BY <1>1, <1>3
    <2>3. QED
      BY <1>2, <1>3, <2>1, <2>2
  <1>5. env \in Entries
    BY <1>3, <1>4, SeqDef DEF Entries
  <1>6. PwdFollows
    BY <1>4 DEF PwdFollows, Values, Places
  <1>7. QED
    BY <1>2, <1>5, <1>6 DEF Inv

\* OLDPWD is the working directory, or is not there, when it is looked up.
LEMMA OldPwdStored ==
  ASSUME Inv, NEW lost
  PROVE  /\ OldStored(lost) \in Entries
         /\ Values(OldStored(lost), OLDPWD) \subseteq {cwd}
         /\ Values(OldStored(lost), PWD) \subseteq {cwd}
  <1>1. env \in Entries /\ cwd \in Dirs /\ OLDPWD \in Names /\ PWD # OLDPWD
    BY BuiltinsAssumption DEF Inv
  <1>2. /\ Set(env, OLDPWD, cwd, lost) \in Entries
        /\ Values(Set(env, OLDPWD, cwd, lost), OLDPWD) \subseteq {cwd}
        /\ Values(Set(env, OLDPWD, cwd, lost), PWD) \subseteq Values(env, PWD)
    BY <1>1, StoreSetsValue
  <1>3. Values(env, PWD) \subseteq {cwd}
    BY DEF Inv, PwdFollows
  <1>4. QED
    BY <1>2, <1>3 DEF OldStored

\* A call of cd() that tries to go somewhere.
LEMMA GoingPreservesInv ==
  ASSUME Inv, NEW dirs \in SUBSET Dirs, NEW lost, Goes(dirs, lost)
  PROVE  Inv'
  <1>1. cwd' \in Dirs /\ env' = Set(OldStored(lost), PWD, cwd', lost)
    BY DEF Goes, Reached, PwdStored, Inv
  <1>2. OldStored(lost) \in Entries /\ PWD \in Names
    BY OldPwdStored, BuiltinsAssumption
  <1>3. env' \in Entries /\ Values(env', PWD) \subseteq {cwd'}
    BY <1>1, <1>2, StoreSetsValue
  <1>4. QED
    BY <1>1, <1>3 DEF Inv, PwdFollows, Values, Places

\* An environment with no new value of PWD, in the same directory.
LEMMA FewerValuesPreserveInv ==
  ASSUME Inv, cwd' = cwd, env' \in Entries, Values(env', PWD) \subseteq {cwd}
  PROVE  Inv'
  BY DEF Inv, PwdFollows, Values, Places

LEMMA NextPreservesInv == Inv /\ [Next]_vars => Inv'
  <1> SUFFICES ASSUME Inv, [Next]_vars PROVE Inv'
    OBVIOUS
  <1>1. /\ env \in Entries /\ cwd \in Dirs /\ Values(env, PWD) \subseteq {cwd}
        /\ Len(env) \in Nat /\ DOMAIN env = 1..Len(env)
    BY LenProperties DEF Inv, PwdFollows, Entries
  <1>2. ASSUME NEW e \in Entries
        PROVE  \A name : Values(e, name) \subseteq Dirs
    <2>1. DOMAIN e = 1..Len(e) /\ \A k \in 1..Len(e) : e[k] \in [name : Names, value : Dirs]
      BY <1>2, LenProperties, ElementOfSeq DEF Entries
    <2>2. QED
      BY <2>1 DEF Values, Places
  <1>3. CASE cd_back
    <2>1. PICK lost \in Losses : Goes(Values(OldStored(lost), OLDPWD), lost)
      BY <1>3 DEF cd_back
    <2>2. Values(OldStored(lost), OLDPWD) \in SUBSET Dirs
      BY <1>2, OldPwdStored
    <2>3. QED
      BY <2>1, <2>2, GoingPreservesInv
  <1>4. CASE cd_home
    <2>1. PICK lost \in Losses : Goes(Values(OldStored(lost), HOME), lost)
      BY <1>4 DEF cd_home
    <2>2. Values(OldStored(lost), HOME) \in SUBSET Dirs
      BY <1>2, OldPwdStored
    <2>3. QED
      BY <2>1, <2>2, GoingPreservesInv
  <1>5. CASE cd_to
    <2>1. PICK lost \in Losses, d \in Dirs : Goes({d}, lost)
      BY <1>5 DEF cd_to
    <2>2. {d} \in SUBSET Dirs
      OBVIOUS
    <2>3. QED
      BY <2>1, <2>2, GoingPreservesInv
  <1>6. CASE cd_too_many \/ cd_bare
    <2>1. PICK lost \in Losses : env' = OldStored(lost) /\ cwd' = cwd
      BY <1>6 DEF cd_too_many, cd_bare
    <2>2. QED
      BY <2>1, OldPwdStored, FewerValuesPreserveInv
  <1>7. CASE unset \/ unset_lost
    <2>1. PICK name \in Names : Drops(name) /\ cwd' = cwd /\
            \/ env' = RemoveAt(env, Min(Found(name)))
            \/ \E k \in 0..Len(env)-2 : env' = SubSeq(RemoveAt(env, Min(Found(name))), 1, k)
      BY <1>7 DEF unset, unset_lost
    <2> DEFINE n    == Min(Found(name))
               left == RemoveAt(env, n)
    <2>2. n \in 1..Len(env)
      <3>1. Found(name) \subseteq Nat /\ Found(name) \subseteq 1..Len(env) /\ Found(name) # {}
        BY <1>1, <2>1 DEF Found, Drops
      <3>2. QED
        BY <3>1, MinIsLeast
    <2> HIDE DEF n
    <2>3. left \in Entries /\ Values(left, PWD) \subseteq Values(env, PWD)
      BY <1>1, <2>2, RemovalKeepsValues
    <2>4. CASE env' = left
      BY <1>1, <2>1, <2>3, <2>4, FewerValuesPreserveInv
    <2>5. ASSUME NEW k \in 0..Len(env)-2, env' = SubSeq(left, 1, k)
          PROVE  Inv'
      <3>1. Len(left) = Len(env) - 1
        BY <1>1, <2>2, RemovalShortens
      <3> HIDE DEF left
      <3>2. 1 \in 1..Len(left)+1 /\ k \in 0..Len(left)
        BY <1>1, <2>2, <2>5, <3>1
      <3>3. SubSeq(left, 1, k) \in Entries /\ Values(SubSeq(left, 1, k), PWD) \subseteq Values(left, PWD)
        BY <2>3, <3>2, PartKeepsValues
      <3>4. Values(SubSeq(left, 1, k), PWD) \subseteq {cwd}
        BY <1>1, <2>3, <3>3
      <3>5. QED
        BY <2>1, <2>5, <3>3, <3>4, FewerValuesPreserveInv
    <2>6. QED
      BY <2>1, <2>4, <2>5 DEF n
  <1>8. CASE rmdir \/ UNCHANGED vars
    BY <1>1, <1>8, FewerValuesPreserveInv DEF rmdir, vars
  <1>9. QED
    BY <1>3, <1>4, <1>5, <1>6, <1>7, <1>8 DEF Next

THEOREM Invariance == Spec => []Inv
  <1>1. QED
    BY InitInv, NextPreservesInv, PTL DEF Spec

-----------------------------------------------------------------------------
(* The results.                                                             *)

\* PWD, while the environment has it, is the working directory, whatever calls succeeded,
\* failed, were refused or ran out of memory.
THEOREM PwdAlwaysFollows == Spec => []PwdFollows
  <1>1. Inv => PwdFollows
    BY DEF Inv
  <1>2. QED
    BY <1>1, Invariance, PTL

\* "cd -" never leaves the directory: when it looks OLDPWD up, that has just been made
\* the directory it is in.
THEOREM BackNeverLeaves == Spec => BackStays
  <1>1. Inv /\ [Next]_vars => [cd_back => cwd' = cwd]_vars
    <2> SUFFICES ASSUME Inv, cd_back PROVE cwd' = cwd
      OBVIOUS
    <2>1. PICK lost \in Losses : Goes(Values(OldStored(lost), OLDPWD), lost)
      BY DEF cd_back
    <2>2. Values(OldStored(lost), OLDPWD) \subseteq {cwd}
      BY OldPwdStored
    <2>3. QED
      BY <2>1, <2>2 DEF Goes, Reached
  <1>2. QED
    BY <1>1, Invariance, PTL DEF Spec, BackStays

-----------------------------------------------------------------------------
(* The order of the environment.                                            *)

\* What is left of an environment: entries of it, in its order.
Follows(new, old) ==
  /\ \A k \in DOMAIN new : \E n \in DOMAIN old : Same(new[k], old[n])
  /\ \A j, k \in DOMAIN new : j < k =>
       \E m, n \in DOMAIN old : m < n /\ Same(new[j], old[m]) /\ Same(new[k], old[n])

LEMMA FollowsOn ==
  ASSUME NEW new, NEW mid, NEW old, Follows(new, mid), Follows(mid, old)
  PROVE  Follows(new, old)
  <1>1. \A a, b, c : Same(a, b) /\ Same(b, c) => Same(a, c)
    BY DEF Same
  <1>2. \A k \in DOMAIN new : \E n \in DOMAIN old : Same(new[k], old[n])
    BY <1>1 DEF Follows
  <1>3. ASSUME NEW j \in DOMAIN new, NEW k \in DOMAIN new, j < k
        PROVE  \E m, n \in DOMAIN old : m < n /\ Same(new[j], old[m]) /\ Same(new[k], old[n])
    <2>1. PICK p, q \in DOMAIN mid : p < q /\ Same(new[j], mid[p]) /\ Same(new[k], mid[q])
      BY <1>3 DEF Follows
    <2>2. PICK m, n \in DOMAIN old : m < n /\ Same(mid[p], old[m]) /\ Same(mid[q], old[n])
      BY <2>1 DEF Follows
    <2>3. QED
      BY <1>1, <2>1, <2>2
  <1>4. QED
    BY <1>2, <1>3 DEF Follows

LEMMA ItselfFollows ==
  ASSUME NEW e
  PROVE  Follows(e, e)
  BY DEF Follows, Same

\* The first entries of an environment, its NULL stored behind them.
LEMMA PartFollows ==
  ASSUME NEW e \in Entries, NEW n \in 0..Len(e)
  PROVE  Follows(SubSeq(e, 1, n), e)
  <1> DEFINE part == SubSeq(e, 1, n)
  <1>1. Len(e) \in Nat /\ DOMAIN e = 1..Len(e) /\ \A k \in 1..Len(e) : e[k] \in [name : Names, value : Dirs]
    BY LenProperties, ElementOfSeq DEF Entries
  <1>2. \A k \in 1..n : k \in 1..Len(e)
    BY <1>1
  <1>3. /\ part \in Entries
        /\ Len(part) = IF 1 <= n THEN n - 1 + 1 ELSE 0
        /\ \A k \in 1..n-1+1 : part[k] = e[1 + k - 1]
    BY <1>1, <1>2, SubSeqProperties DEF Entries
  <1> HIDE DEF part
  <1>4. DOMAIN part = 1..Len(part)
    BY <1>3, LenProperties DEF Entries
  <1>5. \A k \in DOMAIN part : k \in DOMAIN e /\ part[k] = e[k]
    BY <1>1, <1>3, <1>4
  <1>6. QED
    BY <1>5 DEF part, Follows, Same

LEMMA RemovalFollows ==
  ASSUME NEW e \in Entries, NEW k \in 1..Len(e)
  PROVE  Follows(RemoveAt(e, k), e)
  <1> DEFINE left == RemoveAt(e, k)
             at(j) == IF j < k THEN j ELSE j + 1
  <1>1. Len(e) \in Nat /\ DOMAIN e = 1..Len(e)
    BY LenProperties DEF Entries
  <1>2. /\ left \in Entries /\ Len(left) = Len(e) - 1
        /\ \A j \in 1..Len(e)-1 : left[j] = IF j < k THEN e[j] ELSE e[j + 1]
    BY RemovalKeepsValues, RemovalShortens
  <1> HIDE DEF left
  <1>3. DOMAIN left = 1..Len(e)-1
    BY <1>2, LenProperties DEF Entries
  <1>4. \A j \in DOMAIN left : at(j) \in DOMAIN e /\ left[j] = e[at(j)]
    BY <1>1, <1>2, <1>3
  <1>5. \A i, j \in DOMAIN left : i < j => at(i) < at(j)
    BY <1>1, <1>3
  <1> HIDE DEF at
  <1>6. QED
    BY <1>4, <1>5 DEF left, Follows, Same

\* cd() stores one of its two variables in its place.
LEMMA StoreFollows ==
  ASSUME NEW e \in Entries, NEW name \in {PWD, OLDPWD}, NEW dir, NEW lost
  PROVE  /\ Follows(Set(e, name, dir, lost), e)
         /\ dir \notin removed /\ lost # name /\ e # <<>> =>
              Set(e, name, dir, lost) # <<>> /\ Set(e, name, dir, lost)[1].name = e[1].name
  <1>1. Len(e) \in Nat /\ DOMAIN e = 1..Len(e)
    BY LenProperties DEF Entries
  <1>2. CASE Places(e, name) # {} /\ (dir \in removed \/ lost = name)
    <2> DEFINE first == Min(Places(e, name))
    <2>1. Places(e, name) \subseteq 1..Len(e) /\ Places(e, name) \subseteq Nat
      BY <1>1 DEF Places
    <2>2. first \in Places(e, name)
      BY <1>2, <2>1, MinIsLeast
    <2>3. Set(e, name, dir, lost) = SubSeq(e, 1, first - 1)
      BY <1>2 DEF Set
    <2> HIDE DEF first
    <2>4. first - 1 \in 0..Len(e)
      BY <1>1, <2>1, <2>2
    <2>5. QED
      BY <1>2, <2>3, <2>4, PartFollows
  <1>3. CASE ~(Places(e, name) # {} /\ (dir \in removed \/ lost = name))
    <2> DEFINE updated == Updated(e, name, dir)
    <2>1. /\ DOMAIN updated = DOMAIN e
          /\ \A k \in DOMAIN e :
               updated[k] = IF e[k].name = name THEN [name |-> name, value |-> dir] ELSE e[k]
      BY DEF Updated
    <2> HIDE DEF updated
    <2>2. \A k \in DOMAIN e : Same(updated[k], e[k])
      <3> SUFFICES ASSUME NEW k \in DOMAIN e PROVE Same(updated[k], e[k])
        OBVIOUS
      <3>1. CASE e[k].name = name
        <4>1. updated[k].name = name
          BY <2>1, <3>1
        <4>2. QED
          BY <3>1, <4>1 DEF Same
      <3>2. CASE e[k].name # name
        BY <2>1, <3>2 DEF Same
      <3>3. QED
        BY <3>1, <3>2
    <2>3. Follows(updated, e)
      BY <2>1, <2>2 DEF Follows
    <2>4. e # <<>> => updated # <<>> /\ updated[1].name = e[1].name
      <3> SUFFICES ASSUME e # <<>> PROVE updated # <<>> /\ updated[1].name = e[1].name
        OBVIOUS
      <3>1. 1 \in DOMAIN e
        BY <1>1, EmptySeq DEF Entries
      <3>2. DOMAIN <<>> = {}
        OBVIOUS
      <3>3. QED
        BY <2>1, <2>2, <3>1, <3>2 DEF Same
    <2>5. QED
      BY <1>3, <2>3, <2>4 DEF Set, updated
  <1>4. QED
    BY <1>2, <1>3

\* What storing OLDPWD leaves.
LEMMA OldFollows ==
  ASSUME Inv, NEW lost
  PROVE  /\ Follows(OldStored(lost), env)
         /\ removed = {} /\ lost # OLDPWD /\ env # <<>> =>
              OldStored(lost) # <<>> /\ OldStored(lost)[1].name = env[1].name
  BY StoreFollows DEF OldStored, Inv

LEMMA GoingFollows ==
  ASSUME Inv, NEW dirs, NEW lost, Goes(dirs, lost)
  PROVE  /\ Follows(env', env)
         /\ removed = {} /\ lost \notin {PWD, OLDPWD} /\ env # <<>> =>
              env' # <<>> /\ env'[1].name = env[1].name
  <1>1. env' = Set(OldStored(lost), PWD, cwd', lost) /\ OldStored(lost) \in Entries
    BY OldPwdStored DEF Goes, PwdStored
  <1>2. /\ Follows(env', OldStored(lost))
        /\ cwd' \notin removed /\ lost # PWD /\ OldStored(lost) # <<>> =>
             env' # <<>> /\ env'[1].name = OldStored(lost)[1].name
    BY <1>1, StoreFollows
  <1>3. QED
    BY <1>2, OldFollows, FollowsOn

\* A removal takes no first entry, and one that finds no memory is a failure.
LEMMA UnsetFollows ==
  ASSUME Inv, unset \/ unset_lost
  PROVE  /\ Follows(env', env)
         /\ ~failed' /\ env # <<>> => env' # <<>> /\ env'[1].name = env[1].name
  <1>1. PICK name \in Names : Drops(name) /\
          \/ env' = RemoveAt(env, Min(Found(name)))
          \/ /\ failed' = TRUE
             /\ \E k \in 0..Len(env)-2 : env' = SubSeq(RemoveAt(env, Min(Found(name))), 1, k)
    BY DEF unset, unset_lost
  <1> DEFINE n    == Min(Found(name))
             left == RemoveAt(env, n)
  <1>2. env \in Entries /\ Len(env) \in Nat /\ DOMAIN env = 1..Len(env)
    BY LenProperties DEF Inv, Entries
  <1>3. n \in 2..Len(env)
    <2>1. Found(name) \subseteq Nat /\ Found(name) \subseteq 1..Len(env) /\ Found(name) # {} /\ n # 1
      BY <1>1, <1>2 DEF Found, Drops
    <2>2. n \in 1..Len(env)
      BY <2>1, MinIsLeast
    <2>3. QED
      BY <1>2, <2>1, <2>2
  <1>4. \/ env' = left
        \/ failed' = TRUE /\ \E k \in 0..Len(env)-2 : env' = SubSeq(left, 1, k)
    BY <1>1
  <1> HIDE DEF n
  <1>5. n \in 1..Len(env)
    BY <1>2, <1>3
  <1>6. left \in Entries /\ Follows(left, env) /\ Len(left) = Len(env) - 1 /\ left[1] = env[1]
    <2>1. \A j \in 1..Len(env)-1 : left[j] = IF j < n THEN env[j] ELSE env[j + 1]
      BY <1>2, <1>5, RemovalShortens
    <2>2. 1 \in 1..Len(env)-1 /\ 1 < n
      BY <1>2, <1>3
    <2>3. left[1] = env[1]
      BY <2>1, <2>2
    <2>4. QED
      BY <1>2, <1>5, <2>3, RemovalKeepsValues, RemovalShortens, RemovalFollows
  <1> HIDE DEF left
  <1>7. left # <<>>
    BY <1>2, <1>3, <1>6, EmptySeq DEF Entries
  <1>8. CASE env' = left
    BY <1>6, <1>7, <1>8
  <1>9. ASSUME failed' = TRUE, NEW k \in 0..Len(env)-2, env' = SubSeq(left, 1, k)
        PROVE  Follows(env', env) /\ failed' = TRUE
    <2>1. k \in 0..Len(left)
      BY <1>2, <1>3, <1>6, <1>9
    <2>2. QED
      BY <1>6, <1>9, <2>1, PartFollows, FollowsOn
  <1>10. QED
    BY <1>4, <1>8, <1>9

LEMMA InitKept == Init => EnvironmentKept
  BY DEF Init, EnvironmentKept, Same

LEMMA NextKeeps == Inv /\ EnvironmentKept /\ [Next]_vars => EnvironmentKept'
  <1> SUFFICES ASSUME Inv, EnvironmentKept, [Next]_vars PROVE EnvironmentKept'
    OBVIOUS
  <1>1. start' = start /\ (~failed' => ~failed) /\ (removed' = {} => removed = {})
    <2>1. CASE cd_back \/ cd_home \/ cd_to \/ cd_too_many \/ cd_bare
      BY <2>1 DEF cd_back, cd_home, cd_to, cd_too_many, cd_bare, Goes, Fails
    <2>2. CASE unset \/ unset_lost \/ rmdir \/ UNCHANGED vars
      BY <2>2 DEF unset, unset_lost, rmdir, vars
    <2>3. QED
      BY <2>1, <2>2 DEF Next
  <1>2. ASSUME Follows(env', env),
               ~failed' /\ removed = {} /\ env # <<>> => env' # <<>> /\ env'[1].name = env[1].name
        PROVE  EnvironmentKept'
    <2>1. Follows(env, start)
      BY DEF EnvironmentKept, Follows
    <2>2. Follows(env', start)
      BY <1>2, <2>1, FollowsOn
    <2>3. QED
      BY <1>1, <1>2, <2>2 DEF EnvironmentKept, Follows, Same
  <1>3. \A lost : Fails(lost) /\ ~failed' => lost \notin {PWD, OLDPWD}
    BY BuiltinsAssumption DEF Fails
  <1>4. CASE cd_back \/ cd_home \/ cd_to
    <2>1. PICK dirs, lost : Goes(dirs, lost)
      BY <1>4 DEF cd_back, cd_home, cd_to
    <2>2. Fails(lost)
      BY <2>1 DEF Goes
    <2>3. QED
      BY <1>2, <1>3, <2>1, <2>2, GoingFollows
  <1>5. CASE cd_too_many \/ cd_bare
    <2>1. PICK lost : env' = OldStored(lost) /\ Fails(lost)
      BY <1>5 DEF cd_too_many, cd_bare
    <2>2. QED
      BY <1>2, <1>3, <2>1, OldFollows
  <1>6. CASE unset \/ unset_lost
    BY <1>2, <1>6, UnsetFollows
  <1>7. CASE rmdir \/ UNCHANGED vars
    <2>1. env' = env
      BY <1>7 DEF rmdir, vars
    <2>2. QED
      BY <1>2, <2>1, ItselfFollows
  <1>8. QED
    BY <1>4, <1>5, <1>6, <1>7 DEF Next

\* cd() and unset() move no variable, bring none in, and change no values but those of PWD
\* and OLDPWD; and unset() never takes the first one.
THEOREM EnvironmentIsKept == Spec => []EnvironmentKept
  <1>1. QED
    BY InitKept, NextKeeps, Invariance, PTL DEF Spec

=============================================================================
