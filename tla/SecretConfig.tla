---------------------------- MODULE SecretConfig ----------------------------
(* config.Load: the walk over the tree of settings that replaces references  *)
(* to secrets by the secrets.  Go walks a map in any order, and whether the  *)
(* walk meets an entry that it has inserted is open.                         *)
EXTENDS Integers, Sequences, SequencesExt

CONSTANTS
  Names,     \* the keys of settings, without suffix, and the indices of lists
  Texts,     \* the non-empty strings that settings and secrets may be
  Env,       \* the environment variables that are set: a function to their texts
  Files,     \* the files that can be read: a function to their texts
  Configs    \* the configurations that are read

\* A key is a sequence, a name and its suffixes, and a tree of maps and lists a
\* function from paths, sequences of keys, to a text, to "map", or to "other",
\* which is a value that is no text or the empty one.
SecretSuffixes == {"_fromenv", "_fromfile"}
Keys == {key \in Seq(Names \cup SecretSuffixes) :
           /\ Len(key) > 0 /\ key[1] \in Names
           /\ \A i \in 2..Len(key) : key[i] \in SecretSuffixes}
Paths == Seq(Keys)
Values == Texts \cup {"map", "other"}

\* The path of the map that holds p, or that holds such a map.
Upto(p, i) == SubSeq(p, 1, i)

IsTree(tree) ==
  \A p \in DOMAIN tree :
    /\ p \in Paths /\ p # <<>> /\ tree[p] \in Values
    /\ \A i \in 1..Len(p) - 1 : Upto(p, i) \in DOMAIN tree /\ tree[Upto(p, i)] = "map"

ASSUME ConfigAssumption ==
  /\ {"map", "other"} \cap Texts = {}
  /\ \A t \in DOMAIN Env : t \in Texts /\ Env[t] \in Texts \cup {"other"}
  /\ \A t \in DOMAIN Files : t \in Texts /\ Files[t] \in Texts \cup {"other"}
  /\ \A tree \in Configs : IsTree(tree)

VARIABLES
  config,   \* the tree as it was read
  m,        \* the tree as it is now
  frames,   \* the calls of resolveSecrets: [at, left], a map and its keys to come
  phase     \* "load", "walk", "ok" or "error"

vars == <<config, m, frames, phase>>

IsReference(key) == Len(key) > 1
Base(key) == Front(key)
Inside(p, q) == Len(q) > Len(p) /\ Upto(q, Len(p)) = p
KeysOf(tree, at) == {Last(p) : p \in {q \in DOMAIN tree : Len(q) = Len(at) + 1 /\ Inside(at, q)}}

\* Mutant: only a literal value is in conflict with a reference.
ConflictWithLiteral(tree, at) ==
  \E key \in KeysOf(tree, at) : IsReference(key) /\ Base(key) \in KeysOf(tree, at)

\* checkSecretConflict finds one for a key of this map.
Conflict(tree, at) ==
  \E key \in KeysOf(tree, at) : IsReference(key) /\
    \/ Base(key) \in KeysOf(tree, at)
    \/ \E other \in SecretSuffixes \ {Last(key)} : Append(Base(key), other) \in KeysOf(tree, at)

Places(key) == IF Last(key) = "_fromenv" THEN Env ELSE Files

\* Load rejects two storage backends, and secrets that are missing or empty.
Accepts(tree) ==
  /\ ~ {<<<<"storage">>, <<"s3">>>>, <<<<"storage">>, <<"localfiles">>>>} \subseteq DOMAIN tree
  /\ \A name \in {"csrf_secret", "jwt_secret"} :
       LET p == <<<<"secrets">>, <<name>>>> IN p \in DOMAIN tree /\ tree[p] \in Texts

---------------------------------------------------------------------------
\* A call of resolveSecrets begins with the check of all keys.
Call(at, outer) ==
  IF Conflict(m, at)
    THEN phase' = "error" /\ UNCHANGED frames
    ELSE phase' = "walk" /\ frames' = Append(outer, [at |-> at, left |-> KeysOf(m, at)])

Init ==
  /\ config \in Configs
  /\ m = config
  /\ frames = <<>>
  /\ phase = "load"

Load ==
  /\ phase = "load"
  /\ Call(<<>>, <<>>)
  /\ UNCHANGED <<config, m>>

Top == Last(frames)
Visits(key) == phase = "walk" /\ key \in Top.left
Leaving(left) == Append(Front(frames), [Top EXCEPT !.left = left])

\* Mutant: m[key] = secret; delete(m, base).
ReplaceWrongKey(p, base, secret) ==
  [q \in {q \in DOMAIN m \ {base} : ~Inside(base, q)} |->
     IF q = p THEN secret ELSE m[q]]

\* m[base] = secret; delete(m, key).
Replace(p, base, secret) ==
  [q \in {q \in DOMAIN m \ {p} : ~Inside(base, q)} \cup {base} |->
     IF q = base THEN secret ELSE m[q]]

\* An inserted key is visited later, or not; one that was there is visited once.
Resolve(key, seen) ==
  LET p == Append(Top.at, key)
      base == Append(Top.at, Base(key))
      rest == Top.left \ {key}
  IN /\ Visits(key) /\ IsReference(key) /\ m[p] \in DOMAIN Places(key)
     /\ m' = Replace(p, base, Places(key)[m[p]])
     /\ seen => base \notin DOMAIN m
     /\ frames' = Leaving(IF seen THEN rest \cup {Base(key)} ELSE rest)
     /\ UNCHANGED <<config, phase>>

ResolveFails(key) ==
  /\ Visits(key) /\ IsReference(key) /\ m[Append(Top.at, key)] \notin DOMAIN Places(key)
  /\ phase' = "error"
  /\ UNCHANGED <<config, m, frames>>

\* resolveNested descends into maps and lists and passes over other values.
Descend(key) ==
  LET p == Append(Top.at, key)
  IN /\ Visits(key) /\ ~IsReference(key)
     /\ IF m[p] = "map"
          THEN Call(p, Leaving(Top.left \ {key}))
          ELSE frames' = Leaving(Top.left \ {key}) /\ UNCHANGED phase
     /\ UNCHANGED <<config, m>>

Return ==
  /\ phase = "walk" /\ Top.left = {}
  /\ frames' = Front(frames)
  /\ phase' = IF Len(frames) > 1 THEN "walk" ELSE IF Accepts(m) THEN "ok" ELSE "error"
  /\ UNCHANGED <<config, m>>

Loaded == phase \in {"ok", "error"} /\ UNCHANGED vars

Next ==
  \/ Load
  \/ phase = "walk" /\ \E key \in Top.left :
       Descend(key) \/ ResolveFails(key) \/ \E seen \in BOOLEAN : Resolve(key, seen)
  \/ Return
  \/ Loaded

Spec == Init /\ [][Next]_vars

---------------------------------------------------------------------------
\* The tree stays a tree, and each call of resolveSecrets has only keys before
\* it that its map still has, although it inserts and deletes while it walks.
TypeOK ==
  /\ IsTree(config) /\ IsTree(m)
  /\ phase \in {"load", "walk", "ok", "error"}
  /\ \A i \in DOMAIN frames : frames[i].left \subseteq KeysOf(m, frames[i].at)

---------------------------------------------------------------------------
(* What a configuration means, whatever the order of the walk.               *)

Setting(p) == Append(Front(p), <<Head(Last(p))>>)
ValueAt(tree, p) ==
  IF IsReference(Last(p)) THEN Places(Last(p))[tree[p]] ELSE tree[p]

GivenTwice(tree) == \E p, q \in DOMAIN tree : p # q /\ Setting(p) = Setting(q)
Dangling(tree) ==
  \E p \in DOMAIN tree : IsReference(Last(p)) /\ tree[p] \notin DOMAIN Places(Last(p))
Resolved(tree) ==
  [s \in {Setting(p) : p \in DOMAIN tree} |->
     ValueAt(tree, CHOOSE p \in DOMAIN tree : Setting(p) = s)]
Meaningful(tree) == ~GivenTwice(tree) /\ ~Dangling(tree) /\ Accepts(Resolved(tree))

\* A setting that a key with several suffixes speaks of, and all within it.
Doubled(p) == Len(Last(p)) > 2
Doubtful(q) ==
  \E p \in DOMAIN config : Doubled(p) /\
    \E i \in 1..Len(q) : Setting(Upto(q, i)) = Setting(p)

\* The order in which Go walks the maps, and what it makes of entries inserted
\* meanwhile, does not matter: a configuration is accepted exactly if no field
\* is given twice, no reference dangles and Load's own conditions hold, and
\* then each field has its one value (config.go:97-181).  Fields of keys with
\* two suffixes or more are excepted, and only these.
OrderIrrelevant ==
  /\ (\A p \in DOMAIN config : ~Doubled(p)) =>
       /\ phase = "ok" => Meaningful(config)
       /\ phase = "error" => ~Meaningful(config)
  /\ phase = "ok" => \A p \in DOMAIN config : ~Doubtful(p) =>
       Setting(p) \in DOMAIN m /\ m[Setting(p)] = ValueAt(config, p)
=============================================================================
