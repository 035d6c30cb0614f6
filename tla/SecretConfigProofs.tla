------------------------ MODULE SecretConfigProofs -------------------------
(* Proofs about SecretConfig: the tree stays a tree, and the order in which  *)
(* maps are walked does not matter, for every tree of settings.              *)
EXTENDS SecretConfig, TLAPS
-----------------------------------------------------------------------------
(* Paths *)

\* Sequences with the same elements are the same.
LEMMA SameSeq ==
  ASSUME NEW S, NEW s \in Seq(S), NEW t \in Seq(S), Len(s) = Len(t),
         \A i \in 1..Len(s) : s[i] = t[i]
  PROVE  s = t
OBVIOUS

\* What the beginning of a sequence is.
LEMMA Beginning ==
  ASSUME NEW S, NEW s \in Seq(S), NEW i \in 0..Len(s)
  PROVE  /\ SubSeq(s, 1, i) \in Seq(S) /\ Len(SubSeq(s, 1, i)) = i
         /\ \A j \in 1..i : SubSeq(s, 1, i)[j] = s[j]
OBVIOUS

\* What the beginning of a path is.
LEMMA UptoPath ==
  ASSUME NEW p \in Paths, NEW i \in 0..Len(p)
  PROVE  /\ Upto(p, i) \in Paths /\ Len(Upto(p, i)) = i
         /\ \A j \in 1..i : Upto(p, i)[j] = p[j]
BY DEF Upto, Paths

\* The beginning of a beginning is one.
LEMMA UptoUpto ==
  ASSUME NEW p \in Paths, NEW i \in 0..Len(p), NEW j \in 0..i
  PROVE  Upto(Upto(p, i), j) = Upto(p, j)
<1>1. /\ Upto(p, i) \in Paths /\ Len(Upto(p, i)) = i
      /\ \A k \in 1..i : Upto(p, i)[k] = p[k]
  BY UptoPath
<1>2. j \in 0..Len(p) /\ j \in 0..Len(Upto(p, i))
  BY <1>1 DEF Paths
<1>3. /\ Upto(Upto(p, i), j) \in Paths /\ Len(Upto(Upto(p, i), j)) = j
      /\ \A k \in 1..j : Upto(Upto(p, i), j)[k] = Upto(p, i)[k]
  BY <1>1, <1>2, UptoPath
<1>4. /\ Upto(p, j) \in Paths /\ Len(Upto(p, j)) = j
      /\ \A k \in 1..j : Upto(p, j)[k] = p[k]
  BY <1>2, UptoPath
<1> QED BY <1>1, <1>3, <1>4, SameSeq DEF Paths

\* A path is its own longest beginning.
LEMMA UptoWhole ==
  ASSUME NEW p \in Paths
  PROVE  Upto(p, Len(p)) = p
<1>1. Len(p) \in 0..Len(p)
  BY DEF Paths
<1> QED BY <1>1, UptoPath, SameSeq DEF Paths

\* A path with one key more.
LEMMA AppendPath ==
  ASSUME NEW p \in Paths, NEW key \in Keys
  PROVE  LET x == Append(p, key)
         IN /\ x \in Paths /\ Len(x) = Len(p) + 1 /\ x # <<>>
            /\ x[Len(p) + 1] = key /\ Last(x) = key /\ Front(x) = p
            /\ \A j \in 1..Len(p) : x[j] = p[j]
            /\ \A j \in 0..Len(p) : Upto(x, j) = Upto(p, j)
<1> DEFINE x == Append(p, key)
<1>1. /\ x \in Paths /\ Len(x) = Len(p) + 1 /\ x # <<>> /\ Len(p) \in Nat
      /\ x[Len(p) + 1] = key /\ \A j \in 1..Len(p) : x[j] = p[j]
  BY DEF Paths
<1>2. Last(x) = key
  BY <1>1 DEF Last
<1>3. ASSUME NEW j \in 0..Len(p) PROVE Upto(x, j) = Upto(p, j)
  <2>1. j \in 0..Len(x)
    BY <1>1
  <2>2. /\ Upto(x, j) \in Paths /\ Len(Upto(x, j)) = j
        /\ \A k \in 1..j : Upto(x, j)[k] = x[k]
    BY <1>1, <2>1, UptoPath
  <2>3. /\ Upto(p, j) \in Paths /\ Len(Upto(p, j)) = j
        /\ \A k \in 1..j : Upto(p, j)[k] = p[k]
    BY UptoPath
  <2> QED BY <1>1, <2>2, <2>3, SameSeq DEF Paths
<1>4. Front(x) = Upto(x, Len(p))
  BY <1>1 DEF Front, Upto
<1>5. Front(x) = p
  BY <1>1, <1>3, <1>4, UptoWhole
<1> QED BY <1>1, <1>2, <1>3, <1>5

\* Each beginning of a path is the one before it with one key more.
LEMMA UptoNext ==
  ASSUME NEW p \in Paths, NEW i \in 1..Len(p)
  PROVE  p[i] \in Keys /\ Upto(p, i - 1) \in Paths /\ Append(Upto(p, i - 1), p[i]) = Upto(p, i)
<1>1. p[i] \in Keys /\ Len(p) \in Nat /\ i - 1 \in 0..Len(p) /\ i \in 0..Len(p)
  BY DEF Paths
<1>2. /\ Upto(p, i - 1) \in Paths /\ Len(Upto(p, i - 1)) = i - 1
      /\ \A j \in 1..(i - 1) : Upto(p, i - 1)[j] = p[j]
  BY <1>1, UptoPath
<1>3. /\ Upto(p, i) \in Paths /\ Len(Upto(p, i)) = i
      /\ \A j \in 1..i : Upto(p, i)[j] = p[j]
  BY <1>1, UptoPath
<1> DEFINE a == Append(Upto(p, i - 1), p[i])
<1>4. /\ a \in Paths /\ Len(a) = i /\ a[i] = p[i]
      /\ \A j \in 1..(i - 1) : a[j] = p[j]
  BY <1>1, <1>2, AppendPath
<1>5. \A j \in 1..i : a[j] = Upto(p, i)[j]
  BY <1>1, <1>3, <1>4
<1> QED BY <1>1, <1>2, <1>3, <1>4, <1>5, SameSeq DEF Paths

\* The last key of a path and the map that it is a key of.
LEMMA SplitPath ==
  ASSUME NEW p \in Paths, p # <<>>
  PROVE  /\ Len(p) \in Nat \ {0} /\ Last(p) = p[Len(p)] /\ Last(p) \in Keys
         /\ Front(p) = Upto(p, Len(p) - 1) /\ Front(p) \in Paths /\ Len(Front(p)) = Len(p) - 1
         /\ Append(Front(p), Last(p)) = p
<1>1. Len(p) \in Nat \ {0} /\ Len(p) \in 1..Len(p) /\ Len(p) - 1 \in 0..Len(p)
  BY DEF Paths
<1>2. Last(p) = p[Len(p)] /\ Front(p) = Upto(p, Len(p) - 1)
  BY <1>1 DEF Last, Front, Upto
<1>3. /\ Upto(p, Len(p) - 1) \in Paths /\ Len(Upto(p, Len(p) - 1)) = Len(p) - 1
      /\ p[Len(p)] \in Keys /\ Append(Upto(p, Len(p) - 1), p[Len(p)]) = Upto(p, Len(p))
  BY <1>1, UptoNext, UptoPath
<1> QED BY <1>1, <1>2, <1>3, UptoWhole

\* A path that is x or lies within it.
Within(x, p) == Len(p) >= Len(x) /\ Upto(p, Len(x)) = x

\* A path within another is that one or has the next key.
LEMMA WithinNext ==
  ASSUME NEW x \in Paths, NEW p \in Paths, Within(x, p)
  PROVE  \/ p = x
         \/ /\ Inside(x, p) /\ Len(p) >= Len(x) + 1
            /\ p[Len(x) + 1] \in Keys
            /\ Append(x, p[Len(x) + 1]) = Upto(p, Len(x) + 1)
<1>1. Len(x) \in Nat /\ Len(p) \in Nat
  BY DEF Paths
<1>2. CASE Len(p) = Len(x)
  BY <1>2, UptoWhole DEF Within
<1>3. CASE Len(p) > Len(x)
  <2>1. Len(x) + 1 \in 1..Len(p)
    BY <1>1, <1>3
  <2>2. p[Len(x) + 1] \in Keys /\ Append(Upto(p, Len(x) + 1 - 1), p[Len(x) + 1]) = Upto(p, Len(x) + 1)
    BY <2>1, UptoNext
  <2>3. Len(x) + 1 - 1 = Len(x)
    BY <1>1
  <2> QED BY <1>1, <1>3, <2>2, <2>3 DEF Within, Inside
<1> QED BY <1>1, <1>2, <1>3 DEF Within

\* The keys of a map are those with which its path is one of the tree's.
LEMMA KeysOfTree ==
  ASSUME NEW tree, IsTree(tree), NEW at \in Paths, NEW key
  PROVE  key \in KeysOf(tree, at) <=> key \in Keys /\ Append(at, key) \in DOMAIN tree
<1>1. ASSUME NEW q \in DOMAIN tree, Len(q) = Len(at) + 1, Inside(at, q)
      PROVE  Last(q) \in Keys /\ Append(at, Last(q)) = q
  <2>1. q \in Paths /\ q # <<>> /\ Len(at) \in Nat
    BY DEF IsTree, Paths
  <2>2. Front(q) = at
    BY <1>1, <2>1, SplitPath DEF Inside
  <2> QED BY <2>1, <2>2, SplitPath
<1>2. ASSUME key \in Keys, Append(at, key) \in DOMAIN tree
      PROVE  key \in KeysOf(tree, at)
  <2> DEFINE q == Append(at, key)
  <2>1. Len(q) = Len(at) + 1 /\ Last(q) = key /\ Len(at) \in Nat /\ Upto(q, Len(at)) = Upto(at, Len(at))
    BY <1>2, AppendPath DEF Paths
  <2>2. Inside(at, q)
    BY <2>1, UptoWhole DEF Inside
  <2> QED BY <1>2, <2>1, <2>2 DEF KeysOf
<1> QED BY <1>1, <1>2 DEF KeysOf

\* A key is a name and its suffixes, and without the last one still a key.
LEMMA KeyForms ==
  ASSUME NEW key \in Keys
  PROVE  /\ Len(key) \in Nat \ {0} /\ Head(key) = key[1]
         /\ <<Head(key)>> \in Keys /\ Head(<<Head(key)>>) = Head(key)
         /\ ~IsReference(<<Head(key)>>)
         /\ ~IsReference(key) => key = <<Head(key)>>
         /\ IsReference(key) =>
              /\ Base(key) \in Keys /\ Base(key) # key /\ Head(Base(key)) = Head(key)
              /\ Len(Base(key)) = Len(key) - 1 /\ Last(key) \in SecretSuffixes
<1> DEFINE S == Names \cup SecretSuffixes
           t == <<Head(key)>>
<1>1. /\ key \in Seq(S) /\ Len(key) \in Nat \ {0}
      /\ key[1] \in Names /\ \A i \in 2..Len(key) : key[i] \in SecretSuffixes
  BY DEF Keys
<1>2. Head(key) = key[1]
  BY <1>1
<1>3. /\ t \in Seq(S) /\ Len(t) <= 1 /\ Len(t) >= 1 /\ t[1] = key[1] /\ Head(t) = Head(key)
  BY <1>1, <1>2
<1> HIDE DEF t
<1>4. t \in Keys
  BY <1>1, <1>3 DEF Keys
<1>5. ~IsReference(t)
  BY <1>3 DEF IsReference
<1>6. ASSUME ~IsReference(key) PROVE key = t
  <2>1. Len(key) = Len(t)
    BY <1>1, <1>3, <1>6 DEF IsReference
  <2>2. \A i \in 1..Len(key) : key[i] = t[i]
    BY <1>1, <1>3, <2>1
  <2> HIDE DEF S
  <2> QED BY <1>1, <1>3, <2>1, <2>2, SameSeq
<1>7. ASSUME IsReference(key)
      PROVE  /\ Base(key) \in Keys /\ Base(key) # key /\ Head(Base(key)) = Head(key)
             /\ Len(Base(key)) = Len(key) - 1 /\ Last(key) \in SecretSuffixes
  <2>1. Len(key) > 1 /\ Len(key) - 1 \in 1..Len(key)
    BY <1>1, <1>7 DEF IsReference
  <2>2. Base(key) = SubSeq(key, 1, Len(key) - 1)
    BY DEF Base, Front
  <2>3. /\ Base(key) \in Seq(S) /\ Len(Base(key)) = Len(key) - 1
        /\ \A i \in 1..Len(Base(key)) : Base(key)[i] = key[i]
    BY <1>1, <2>1, <2>2
  <2>4. Base(key)[1] = key[1]
    BY <2>1, <2>3
  <2>5. Base(key) \in Keys
    BY <1>1, <2>1, <2>3, <2>4 DEF Keys
  <2>6. Head(Base(key)) = Head(key)
    BY <1>1, <1>2, <2>1, <2>3, <2>4
  <2>7. Last(key) \in SecretSuffixes
    BY <1>1, <2>1 DEF Last
  <2> QED BY <1>1, <2>3, <2>5, <2>6, <2>7
<1> QED BY <1>1, <1>2, <1>3, <1>4, <1>5, <1>6, <1>7 DEF t

\* A reference with one suffix is the name and that suffix.
LEMMA OneSuffix ==
  ASSUME NEW key \in Keys, Len(key) <= 2, IsReference(key)
  PROVE  Base(key) = <<Head(key)>> /\ key = Append(<<Head(key)>>, Last(key))
<1>1. Base(key) \in Keys /\ Head(Base(key)) = Head(key) /\ Len(Base(key)) = Len(key) - 1
  BY KeyForms
<1>2. Len(key) \in Nat \ {0}
  BY KeyForms
<1>3. ~IsReference(Base(key))
  BY <1>1, <1>2 DEF IsReference
<1>4. Base(key) = <<Head(key)>>
  BY <1>1, <1>3, KeyForms
<1>5. key \in Seq(Names \cup SecretSuffixes)
  BY DEF Keys
<1> DEFINE a == Append(Base(key), Last(key))
<1>6. Base(key) = SubSeq(key, 1, Len(key) - 1) /\ Last(key) = key[Len(key)]
  BY DEF Base, Front, Last
<1>7. Len(a) = Len(key) /\ \A i \in 1..Len(key) : a[i] = key[i]
  <2>1. /\ Base(key) \in Seq(Names \cup SecretSuffixes)
        /\ \A i \in 1..(Len(key) - 1) : Base(key)[i] = key[i]
    BY <1>2, <1>5, <1>6
  <2> HIDE DEF Base
  <2>2. /\ Len(a) = Len(Base(key)) + 1 /\ a[Len(Base(key)) + 1] = Last(key)
        /\ \A i \in 1..Len(Base(key)) : a[i] = Base(key)[i]
    BY <2>1
  <2> HIDE DEF a
  <2>3. Len(a) = Len(key) /\ a[Len(key)] = key[Len(key)]
    BY <1>1, <1>2, <1>6, <2>2
  <2>4. \A i \in 1..(Len(key) - 1) : a[i] = key[i]
    BY <1>1, <1>2, <2>1, <2>2
  <2> QED BY <1>2, <2>3, <2>4
<1>8. a \in Seq(Names \cup SecretSuffixes)
  <2>1. Base(key) \in Seq(Names \cup SecretSuffixes)
    BY <1>1 DEF Keys
  <2>2. Last(key) \in Names \cup SecretSuffixes
    BY KeyForms
  <2> HIDE DEF Base
  <2> QED BY <2>1, <2>2
<1> HIDE DEF a
<1>9. a = key
  BY <1>5, <1>7, <1>8, SameSeq
<1> QED BY <1>4, <1>9 DEF a

\* Two keys of one name that have no more than one suffix are in conflict.
LEMMA TwoForms ==
  ASSUME NEW k \in Keys, NEW l \in Keys, k # l, Head(k) = Head(l),
         Len(k) <= 2, Len(l) <= 2
  PROVE  \/ IsReference(k) /\ Base(k) = l
         \/ /\ IsReference(k) /\ IsReference(l) /\ Last(l) # Last(k)
            /\ Append(Base(k), Last(l)) = l
         \/ IsReference(l) /\ Base(l) = k
<1>1. ~IsReference(k) => k = <<Head(k)>>
  BY KeyForms
<1>2. ~IsReference(l) => l = <<Head(l)>>
  BY KeyForms
<1>3. IsReference(k) => Base(k) = <<Head(k)>> /\ k = Append(<<Head(k)>>, Last(k))
  BY OneSuffix
<1>4. IsReference(l) => Base(l) = <<Head(l)>> /\ l = Append(<<Head(l)>>, Last(l))
  BY OneSuffix
<1> DEFINE t == <<Head(k)>>
<1> HIDE DEF t
<1>5. /\ ~IsReference(k) => k = t
      /\ ~IsReference(l) => l = t
      /\ IsReference(k) => Base(k) = t /\ k = Append(t, Last(k))
      /\ IsReference(l) => Base(l) = t /\ l = Append(t, Last(l))
  BY <1>1, <1>2, <1>3, <1>4 DEF t
<1>6. IsReference(k) /\ IsReference(l) => Last(l) # Last(k)
  BY <1>5
<1>7. CASE IsReference(k)
  <2>1. CASE IsReference(l)
    BY <1>5, <1>6, <1>7, <2>1
  <2>2. CASE ~IsReference(l)
    BY <1>5, <1>7, <2>2
  <2> QED BY <2>1, <2>2
<1>8. CASE ~IsReference(k)
  <2>1. IsReference(l)
    BY <1>5, <1>8
  <2>2. Base(l) = k
    BY <1>5, <1>8, <2>1
  <2> QED BY <2>1, <2>2
<1> QED BY <1>7, <1>8

\* A setting lies in the map of its key, under the key's name.
LEMMA SettingPath ==
  ASSUME NEW p \in Paths, p # <<>>
  PROVE  LET s == Setting(p)
         IN /\ s \in Paths /\ s # <<>> /\ Len(s) = Len(p) /\ Front(s) = Front(p)
            /\ Last(s) = <<Head(Last(p))>> /\ ~IsReference(Last(s))
            /\ Setting(s) = s
            /\ ~IsReference(Last(p)) => s = p
            /\ IsReference(Last(p)) => s # p
            /\ \A i \in 0..(Len(p) - 1) : Upto(s, i) = Upto(p, i)
<1> DEFINE s == Setting(p)
<1>1. /\ Len(p) \in Nat \ {0} /\ Last(p) \in Keys /\ Append(Front(p), Last(p)) = p
      /\ Front(p) = Upto(p, Len(p) - 1) /\ Front(p) \in Paths /\ Len(Front(p)) = Len(p) - 1
  BY SplitPath
<1>2. /\ <<Head(Last(p))>> \in Keys /\ Head(<<Head(Last(p))>>) = Head(Last(p))
      /\ ~IsReference(<<Head(Last(p))>>)
      /\ ~IsReference(Last(p)) => Last(p) = <<Head(Last(p))>>
  BY <1>1, KeyForms
<1>3. s = Append(Front(p), <<Head(Last(p))>>)
  BY DEF Setting
<1>4. /\ s \in Paths /\ Len(s) = Len(p) /\ s # <<>>
      /\ Last(s) = <<Head(Last(p))>> /\ Front(s) = Front(p)
      /\ \A j \in 0..(Len(p) - 1) : Upto(s, j) = Upto(Front(p), j)
  <2> DEFINE x == Append(Front(p), <<Head(Last(p))>>)
  <2>1. /\ x \in Paths /\ Len(x) = Len(Front(p)) + 1 /\ x # <<>>
        /\ Last(x) = <<Head(Last(p))>> /\ Front(x) = Front(p)
        /\ \A j \in 0..Len(Front(p)) : Upto(x, j) = Upto(Front(p), j)
    BY <1>1, <1>2, AppendPath
  <2> HIDE DEF x
  <2>2. s = x
    BY <1>3 DEF x
  <2> QED BY <1>1, <2>1, <2>2
<1>5. Setting(s) = s
  BY <1>2, <1>3, <1>4 DEF Setting
<1>6. ASSUME NEW i \in 0..(Len(p) - 1) PROVE Upto(s, i) = Upto(p, i)
  <2>1. Len(p) - 1 \in 0..Len(p)
    BY <1>1
  <2> QED BY <1>1, <1>4, <2>1, UptoUpto
<1> QED BY <1>1, <1>2, <1>3, <1>4, <1>5, <1>6
-----------------------------------------------------------------------------
(* The tree and the calls *)

Frame == [at : Paths, left : SUBSET Keys]

\* The calls of resolveSecrets are nested, each within a key that its caller
\* has passed.
Nested(f) ==
  /\ f \in Seq(Frame)
  /\ \A i \in 1..Len(f) : Len(f[i].at) = i - 1
  /\ \A i, j \in 1..Len(f) : i < j =>
       Upto(f[j].at, i - 1) = f[i].at /\ f[j].at[i] \notin f[i].left

FramesInv ==
  /\ Nested(frames)
  /\ phase = "walk" => frames # <<>>
  /\ phase = "load" => m = config /\ frames = <<>>

TypeInv == TypeOK /\ FramesInv

\* The tree in which a reference is replaced is a tree.
LEMMA ReplaceTree ==
  ASSUME IsTree(m), NEW at \in Paths, NEW key \in Keys, IsReference(key),
         Append(at, key) \in DOMAIN m, m[Append(at, key)] \in Texts,
         NEW secret \in Texts \cup {"other"}
  PROVE  IsTree(Replace(Append(at, key), Append(at, Base(key)), secret))
<1> DEFINE x == Append(at, key)
           base == Append(at, Base(key))
           t == Replace(x, base, secret)
<1>1. /\ Base(key) \in Keys /\ Base(key) # key
  BY KeyForms
<1>2. /\ x \in Paths /\ Len(x) = Len(at) + 1
      /\ \A j \in 0..Len(at) : Upto(x, j) = Upto(at, j)
  BY AppendPath
<1>3. /\ base \in Paths /\ Len(base) = Len(at) + 1 /\ base # <<>> /\ Len(at) \in Nat
      /\ \A j \in 0..Len(at) : Upto(base, j) = Upto(at, j)
  BY <1>1, AppendPath DEF Paths
<1>4. /\ DOMAIN t = {q \in DOMAIN m \ {x} : ~Inside(base, q)} \cup {base}
      /\ t[base] = secret
      /\ \A q \in DOMAIN t : q # base => t[q] = m[q]
  BY DEF Replace
<1>5. x \in DOMAIN m /\ m[x] # "map" /\ secret \in Values
  BY ConfigAssumption DEF Values
<1> HIDE DEF x, base, t
<1>6. ASSUME NEW q \in DOMAIN t, q # base
      PROVE  /\ q \in Paths /\ q # <<>> /\ t[q] \in Values
             /\ \A i \in 1..Len(q) - 1 : Upto(q, i) \in DOMAIN t /\ t[Upto(q, i)] = "map"
  <2>1. /\ q \in DOMAIN m /\ ~Inside(base, q) /\ t[q] = m[q]
        /\ q \in Paths /\ q # <<>> /\ m[q] \in Values /\ Len(q) \in Nat
    BY <1>4, <1>6 DEF IsTree, Paths
  <2>2. ASSUME NEW i \in 1..Len(q) - 1
        PROVE  Upto(q, i) \in DOMAIN t /\ t[Upto(q, i)] = "map"
    <3>1. Upto(q, i) \in DOMAIN m /\ m[Upto(q, i)] = "map"
      BY <2>1, <2>2 DEF IsTree
    <3>2. i \in 0..Len(q) /\ i < Len(q) /\ i \in Nat
      BY <2>1, <2>2
    <3>3. Len(Upto(q, i)) = i
      BY <2>1, <3>2, UptoPath
    <3>4. ~(Len(base) <= i /\ Upto(q, Len(base)) = base)
      BY <1>3, <2>1, <3>2 DEF Inside
    <3>5. ~Inside(base, Upto(q, i))
      <4>1. SUFFICES ASSUME Inside(base, Upto(q, i)) PROVE FALSE
        OBVIOUS
      <4>2. Len(base) < i /\ Upto(Upto(q, i), Len(base)) = base
        BY <3>3, <4>1 DEF Inside
      <4>3. Len(base) \in 0..i
        BY <1>3, <3>2, <4>2
      <4>4. Upto(Upto(q, i), Len(base)) = Upto(q, Len(base))
        BY <2>1, <3>2, <4>3, UptoUpto
      <4> QED BY <1>3, <3>2, <3>4, <4>2, <4>4
    <3>6. Upto(q, i) # base
      BY <1>3, <3>2, <3>3, <3>4
    <3> QED BY <1>4, <1>5, <3>1, <3>5, <3>6
  <2> QED BY <2>1, <2>2
<1>7. /\ base \in Paths /\ base # <<>> /\ t[base] \in Values
      /\ \A i \in 1..Len(base) - 1 : Upto(base, i) \in DOMAIN t /\ t[Upto(base, i)] = "map"
  <2>1. ASSUME NEW i \in 1..Len(base) - 1
        PROVE  Upto(base, i) \in DOMAIN t /\ t[Upto(base, i)] = "map"
    <3>1. i \in 1..Len(x) - 1 /\ i \in 0..Len(at) /\ i \in 0..Len(base) /\ i <= Len(at)
      BY <1>2, <1>3
    <3>2. Upto(base, i) = Upto(x, i)
      BY <1>2, <1>3, <3>1
    <3>3. Upto(x, i) \in DOMAIN m /\ m[Upto(x, i)] = "map"
      BY <1>5, <3>1 DEF IsTree
    <3>4. Len(Upto(base, i)) = i
      BY <1>3, <3>1, UptoPath
    <3>5. Upto(base, i) # base /\ ~Inside(base, Upto(base, i))
      BY <1>3, <3>1, <3>4 DEF Inside
    <3> QED BY <1>4, <1>5, <3>2, <3>3, <3>5
  <2> QED BY <1>3, <1>4, <1>5, <2>1
<1> QED BY <1>4, <1>6, <1>7 DEF IsTree, t, x, base

\* A call with other keys to come.
LEMMA LeavingFrames ==
  ASSUME frames \in Seq(Frame), frames # <<>>, NEW left \in SUBSET Keys
  PROVE  LET f == Leaving(left)
             T == Len(frames)
         IN /\ T \in Nat \ {0} /\ Top = frames[T] /\ f \in Seq(Frame) /\ Len(f) = T
            /\ \A i \in 1..(T - 1) : f[i] = frames[i]
            /\ f[T].at = frames[T].at /\ f[T].left = left
<1> DEFINE T == Len(frames)
<1>1. T \in Nat \ {0} /\ T - 1 \in Nat
  OBVIOUS
<1>2. /\ Front(frames) \in Seq(Frame) /\ Len(Front(frames)) = T - 1
      /\ \A i \in 1..(T - 1) : Front(frames)[i] = frames[i]
  <2>1. Front(frames) = SubSeq(frames, 1, T - 1)
    BY DEF Front
  <2>2. T - 1 \in 0..Len(frames)
    BY <1>1
  <2> QED BY <2>1, <2>2, Beginning
<1>3. Top = frames[T] /\ frames[T] \in Frame
  BY <1>1 DEF Top, Last
<1> DEFINE new == [Top EXCEPT !.left = left]
<1>4. new \in Frame /\ new.at = frames[T].at /\ new.left = left
  BY <1>3 DEF Frame
<1>5. Leaving(left) = Append(Front(frames), new)
  BY DEF Leaving
<1> HIDE DEF new
<1> QED BY <1>1, <1>2, <1>3, <1>4, <1>5

\* It is as nested as before.
LEMMA LeavingNested ==
  ASSUME Nested(frames), frames # <<>>, NEW left \in SUBSET Keys
  PROVE  Nested(Leaving(left))
<1> DEFINE f == Leaving(left)
           T == Len(frames)
<1>1. /\ T \in Nat \ {0} /\ f \in Seq(Frame) /\ Len(f) = T
      /\ \A i \in 1..(T - 1) : f[i] = frames[i]
      /\ f[T].at = frames[T].at
  BY LeavingFrames DEF Nested
<1> HIDE DEF f
<1>2. ASSUME NEW i \in 1..T PROVE f[i].at = frames[i].at /\ (i < T => f[i] = frames[i])
  BY <1>1
<1>3. \A i \in 1..T : Len(f[i].at) = i - 1
  BY <1>2 DEF Nested
<1>4. ASSUME NEW i \in 1..T, NEW j \in 1..T, i < j
      PROVE  Upto(f[j].at, i - 1) = f[i].at /\ f[j].at[i] \notin f[i].left
  <2>1. f[i] = frames[i] /\ f[j].at = frames[j].at
    BY <1>1, <1>2, <1>4
  <2>2. Upto(frames[j].at, i - 1) = frames[i].at /\ frames[j].at[i] \notin frames[i].left
    BY <1>4 DEF Nested
  <2> QED BY <2>1, <2>2
<1> QED BY <1>1, <1>3, <1>4 DEF Nested, f

\* So are the calls with one more, for a key that the last one has passed.
LEMMA CallNested ==
  ASSUME NEW f, Nested(f), f # <<>>, NEW key \in Keys, key \notin f[Len(f)].left,
         NEW new \in Frame, new.at = Append(f[Len(f)].at, key)
  PROVE  /\ Nested(Append(f, new)) /\ Len(Append(f, new)) = Len(f) + 1
         /\ Append(f, new)[Len(f) + 1] = new
         /\ \A i \in 1..Len(f) : Append(f, new)[i] = f[i]
<1> DEFINE g == Append(f, new)
           T == Len(f)
<1>1. /\ T \in Nat \ {0} /\ T \in 1..T /\ g \in Seq(Frame) /\ Len(g) = T + 1 /\ g[T + 1] = new
      /\ \A i \in 1..T : g[i] = f[i]
  BY DEF Nested
<1>2. f[T].at \in Paths /\ Len(f[T].at) = T - 1
  <2>1. f[T] \in Frame
    BY <1>1 DEF Nested
  <2> QED BY <1>1, <2>1 DEF Nested, Frame
<1>3. /\ Len(new.at) = T /\ new.at[T] = key
      /\ \A i \in 1..(T - 1) : new.at[i] = f[T].at[i]
      /\ \A i \in 0..(T - 1) : Upto(new.at, i) = Upto(f[T].at, i)
  BY <1>1, <1>2, AppendPath
<1> HIDE DEF g
<1>4. ASSUME NEW i \in 1..(T + 1) PROVE Len(g[i].at) = i - 1
  <2>1. CASE i = T + 1
    BY <1>1, <1>3, <2>1
  <2>2. CASE i # T + 1
    <3>1. i \in 1..T
      BY <1>1, <2>2
    <3>2. g[i] = f[i]
      BY <1>1, <3>1
    <3> QED BY <3>1, <3>2 DEF Nested
  <2> QED BY <2>1, <2>2
<1>5. ASSUME NEW i \in 1..(T + 1), NEW j \in 1..(T + 1), i < j
      PROVE  Upto(g[j].at, i - 1) = g[i].at /\ g[j].at[i] \notin g[i].left
  <2>1. CASE j # T + 1
    <3>1. i \in 1..T /\ j \in 1..T
      BY <1>1, <1>5, <2>1
    <3>2. g[i] = f[i] /\ g[j] = f[j]
      BY <1>1, <3>1
    <3> QED BY <1>5, <3>1, <3>2 DEF Nested
  <2>2. CASE j = T + 1 /\ i < T
    <3>1. /\ Upto(f[T].at, i - 1) = f[i].at /\ f[T].at[i] \notin f[i].left
          /\ g[i] = f[i] /\ g[j] = new /\ i \in 1..(T - 1) /\ i - 1 \in 0..(T - 1)
      BY <1>1, <2>2 DEF Nested
    <3> QED BY <1>3, <3>1
  <2>3. CASE j = T + 1 /\ i = T
    <3>1. g[i] = f[T] /\ g[j] = new /\ T - 1 \in 0..(T - 1)
      BY <1>1, <2>3
    <3>2. Upto(new.at, T - 1) = f[T].at
      BY <1>2, <1>3, <3>1, UptoWhole
    <3> QED BY <1>3, <2>3, <3>1, <3>2
  <2> QED BY <1>1, <1>5, <2>1, <2>2, <2>3
<1>6. Nested(g)
  BY <1>1, <1>4, <1>5 DEF Nested
<1> QED BY <1>1, <1>6 DEF g

\* And so are those that are left when the last one has returned.
LEMMA ReturnNested ==
  ASSUME Nested(frames), frames # <<>>
  PROVE  LET T == Len(frames)
         IN /\ T \in Nat \ {0} /\ Top = frames[T] /\ Top \in Frame
            /\ Nested(Front(frames)) /\ Len(Front(frames)) = T - 1
            /\ \A i \in 1..(T - 1) : Front(frames)[i] = frames[i]
<1> DEFINE T == Len(frames)
           g == Front(frames)
<1>1. T \in Nat \ {0} /\ T - 1 \in Nat /\ frames \in Seq(Frame) /\ T \in 1..T
  BY DEF Nested
<1>2. Front(frames) = SubSeq(frames, 1, T - 1)
  BY DEF Front
<1>3. /\ g \in Seq(Frame) /\ Len(g) = T - 1
      /\ \A i \in 1..(T - 1) : g[i] = frames[i]
  <2>1. T - 1 \in 0..Len(frames)
    BY <1>1
  <2> DEFINE s == SubSeq(frames, 1, T - 1)
  <2>2. s \in Seq(Frame) /\ Len(s) = T - 1 /\ \A i \in 1..(T - 1) : s[i] = frames[i]
    BY <1>1, <2>1, Beginning
  <2> HIDE DEF s
  <2> QED BY <1>2, <2>2 DEF s
<1>4. Top = frames[T] /\ Top \in Frame
  BY <1>1 DEF Top, Last
<1> HIDE DEF g
<1>5. \A i \in 1..(T - 1) : i \in 1..T
  BY <1>1
<1>6. Nested(g)
  BY <1>3, <1>5 DEF Nested
<1> QED BY <1>1, <1>3, <1>4, <1>6 DEF g

\* All calls have only keys before them that their maps have.
Held(f, tree) == \A i \in 1..Len(f) : f[i].left \subseteq KeysOf(tree, f[i].at)

\* The type invariant in parts, with the calls counted.
LEMMA TypeForm ==
  TypeInv <=> /\ FramesInv /\ IsTree(config) /\ IsTree(m) /\ Held(frames, m)
              /\ phase \in {"load", "walk", "ok", "error"}
<1>1. ASSUME Nested(frames) PROVE DOMAIN frames = 1..Len(frames)
  BY <1>1 DEF Nested
<1> QED BY <1>1 DEF TypeInv, TypeOK, FramesInv, Held

\* What is known of a key that is visited.
LEMMA Visited ==
  ASSUME TypeInv, NEW key, Visits(key)
  PROVE  LET T == Len(frames)
             x == Append(Top.at, key)
         IN /\ frames # <<>> /\ T \in Nat \ {0} /\ Top = frames[T] /\ Top \in Frame
            /\ Top.at \in Paths /\ Len(Top.at) = T - 1 /\ Top.left \in SUBSET Keys
            /\ key \in Keys /\ x \in Paths /\ Len(x) = T /\ x \in DOMAIN m /\ m[x] \in Values
<1> DEFINE T == Len(frames)
           x == Append(Top.at, key)
<1>1. frames # <<>> /\ Nested(frames) /\ IsTree(m) /\ Held(frames, m) /\ key \in Top.left
  BY TypeForm DEF Visits, FramesInv
<1>2. T \in Nat \ {0} /\ T \in 1..T /\ Top = frames[T] /\ Top \in Frame
  BY <1>1, ReturnNested
<1>3. Top.at \in Paths /\ Top.left \in SUBSET Keys /\ Len(Top.at) = T - 1
  BY <1>1, <1>2 DEF Frame, Nested
<1>4. key \in KeysOf(m, Top.at)
  BY <1>1, <1>2 DEF Held
<1>5. key \in Keys /\ x \in DOMAIN m
  BY <1>1, <1>3, <1>4, KeysOfTree
<1>6. x \in Paths /\ Len(x) = Len(Top.at) + 1
  BY <1>3, <1>5, AppendPath
<1>7. m[x] \in Values
  BY <1>1, <1>5 DEF IsTree
<1> QED BY <1>1, <1>2, <1>3, <1>5, <1>6, <1>7

\* A secret is no map, and what it is read from is a text.
LEMMA SecretIs ==
  ASSUME NEW key, NEW t \in DOMAIN Places(key)
  PROVE  t \in Texts /\ t # "map" /\ Places(key)[t] \in Texts \cup {"other"}
BY ConfigAssumption DEF Places

\* A reference that is resolved takes no key from the calls that are under way.
LEMMA ResolveHeld ==
  ASSUME TypeInv, NEW key, NEW seen \in BOOLEAN, Resolve(key, seen)
  PROVE  IsTree(m') /\ Nested(frames') /\ frames' # <<>> /\ Held(frames', m')
<1> DEFINE T == Len(frames)
           x == Append(Top.at, key)
           base == Append(Top.at, Base(key))
           secret == Places(key)[m[x]]
           left == IF seen THEN (Top.left \ {key}) \cup {Base(key)} ELSE Top.left \ {key}
<1>1. /\ Visits(key) /\ IsReference(key) /\ m[x] \in DOMAIN Places(key)
      /\ m' = Replace(x, base, secret) /\ frames' = Leaving(left)
  BY DEF Resolve
<1>2. /\ frames # <<>> /\ T \in Nat \ {0} /\ Top = frames[T] /\ Top \in Frame
      /\ Top.at \in Paths /\ Len(Top.at) = T - 1 /\ Top.left \in SUBSET Keys
      /\ key \in Keys /\ x \in Paths /\ Len(x) = T /\ x \in DOMAIN m
  BY <1>1, Visited
<1>3. Base(key) \in Keys /\ Base(key) # key /\ left \in SUBSET Keys
  <2>1. Base(key) \in Keys /\ Base(key) # key
    BY <1>1, <1>2, KeyForms
  <2> QED BY <1>2, <2>1
<1>4. IsTree(m) /\ Nested(frames) /\ Held(frames, m)
  BY TypeForm DEF FramesInv
<1>5. IsTree(m')
  <2>1. m[x] \in Texts /\ secret \in Texts \cup {"other"}
    BY <1>1, SecretIs
  <2> QED BY <1>1, <1>2, <1>4, <2>1, ReplaceTree
<1>6. /\ Nested(frames') /\ Len(frames') = T /\ frames' # <<>>
      /\ \A i \in 1..(T - 1) : frames'[i] = frames[i]
      /\ frames'[T].at = Top.at /\ frames'[T].left = left
  <2>1. Nested(Leaving(left))
    BY <1>2, <1>3, <1>4, LeavingNested
  <2>2. /\ Len(Leaving(left)) = T
        /\ \A i \in 1..(T - 1) : Leaving(left)[i] = frames[i]
        /\ Leaving(left)[T].at = frames[T].at /\ Leaving(left)[T].left = left
    BY <1>2, <1>3, <1>4, LeavingFrames DEF Nested
  <2> HIDE DEF left
  <2> QED BY <1>1, <1>2, <2>1, <2>2
<1>7. base \in Paths /\ Len(base) = T /\ base \in DOMAIN m'
      /\ \A q \in DOMAIN m : q # x /\ ~Inside(base, q) => q \in DOMAIN m'
  <2>1. base \in Paths /\ Len(base) = T
    BY <1>2, <1>3, AppendPath
  <2> QED BY <1>1, <2>1 DEF Replace
<1>8. ASSUME NEW i \in 1..T, NEW k \in frames'[i].left
      PROVE  k \in KeysOf(m', frames'[i].at)
  <2>1. frames'[i].at = frames[i].at /\ frames[i].at \in Paths /\ Len(frames[i].at) = i - 1
    <3>1. frames[i] \in Frame
      BY <1>4 DEF Nested
    <3>2. frames[i].at \in Paths
      BY <3>1 DEF Frame
    <3>3. Len(frames[i].at) = i - 1
      BY <1>4 DEF Nested
    <3>4. frames'[i].at = frames[i].at
      BY <1>2, <1>6
    <3> QED BY <3>2, <3>3, <3>4
  <2>2. CASE i = T /\ k = Base(key)
    BY <1>2, <1>3, <1>5, <1>7, <2>1, <2>2, KeysOfTree
  <2>3. CASE ~(i = T /\ k = Base(key))
    <3>1. k \in frames[i].left /\ (i = T => k # key)
      BY <1>2, <1>6, <1>8, <2>3
    <3>2. k \in KeysOf(m, frames[i].at)
      BY <1>4, <3>1 DEF Held
    <3> DEFINE q == Append(frames[i].at, k)
    <3>3. k \in Keys /\ q \in DOMAIN m
      BY <1>4, <2>1, <3>2, KeysOfTree
    <3>4. Len(q) = i /\ q[i] = k
      BY <2>1, <3>3, AppendPath
    <3>5. x[T] = key
      BY <1>2, AppendPath
    <3>6. q # x
      BY <1>2, <3>1, <3>4, <3>5
    <3>7. ~Inside(base, q)
      BY <1>2, <1>7, <3>4 DEF Inside
    <3>8. q \in DOMAIN m'
      BY <1>7, <3>3, <3>6, <3>7
    <3> QED BY <1>5, <2>1, <3>3, <3>8, KeysOfTree
  <2> QED BY <2>2, <2>3
<1> QED BY <1>5, <1>6, <1>8 DEF Held

\* What the calls are when a key has been passed.
Passed(key, f) ==
  LET T == Len(frames)
  IN /\ \A i \in 1..(T - 1) : f[i] = frames[i]
     /\ f[T].at = Top.at /\ f[T].left = Top.left \ {key}

\* A key is passed, or its map is in conflict, or a call for its map begins.
LEMMA DescendForms ==
  ASSUME TypeInv, NEW key, Descend(key)
  PROVE  LET T == Len(frames)
             x == Append(Top.at, key)
         IN \/ m[x] = "map" /\ Conflict(m, x) /\ phase' = "error" /\ UNCHANGED frames
            \/ /\ m[x] = "map" /\ ~Conflict(m, x) /\ phase' = "walk"
               /\ Nested(frames') /\ Len(frames') = T + 1 /\ Passed(key, frames')
               /\ frames'[T + 1].at = x /\ frames'[T + 1].left = KeysOf(m, x)
            \/ /\ m[x] # "map" /\ phase' = "walk"
               /\ Nested(frames') /\ Len(frames') = T /\ Passed(key, frames')
<1> DEFINE T == Len(frames)
           x == Append(Top.at, key)
           f == Leaving(Top.left \ {key})
           new == [at |-> x, left |-> KeysOf(m, x)]
<1>1. /\ Visits(key) /\ phase = "walk"
      /\ IF m[x] = "map"
           THEN IF Conflict(m, x) THEN phase' = "error" /\ UNCHANGED frames
                                  ELSE phase' = "walk" /\ frames' = Append(f, new)
           ELSE frames' = f /\ UNCHANGED phase
  BY DEF Descend, Call, Visits
<1>2. /\ frames # <<>> /\ T \in Nat \ {0} /\ Top = frames[T]
      /\ Top.at \in Paths /\ Top.left \in SUBSET Keys
      /\ key \in Keys /\ x \in Paths
  BY <1>1, Visited
<1>3. IsTree(m) /\ Nested(frames) /\ Top.left \ {key} \in SUBSET Keys
  BY <1>2, TypeForm DEF FramesInv
<1>4. Nested(f)
  BY <1>2, <1>3, LeavingNested
<1>5. /\ Len(f) = T /\ \A i \in 1..(T - 1) : f[i] = frames[i]
      /\ f[T].at = Top.at /\ f[T].left = Top.left \ {key}
  BY <1>2, <1>3, LeavingFrames DEF Nested
<1>6. Passed(key, f)
  BY <1>5 DEF Passed
<1>7. KeysOf(m, x) \in SUBSET Keys
  BY <1>2, <1>3, KeysOfTree
<1>8. new \in Frame /\ new.at = x /\ new.left = KeysOf(m, x)
  BY <1>2, <1>7 DEF Frame
<1> HIDE DEF x, f, new
<1>9. f # <<>> /\ key \notin f[Len(f)].left /\ new.at = Append(f[Len(f)].at, key)
  BY <1>2, <1>4, <1>5, <1>8 DEF Nested, x
<1>10. /\ Nested(Append(f, new)) /\ Len(Append(f, new)) = T + 1
       /\ Append(f, new)[T + 1] = new
       /\ \A i \in 1..T : Append(f, new)[i] = f[i]
  BY <1>2, <1>4, <1>5, <1>8, <1>9, CallNested
<1>11. Passed(key, Append(f, new))
  <2>1. T \in 1..T /\ \A i \in 1..(T - 1) : i \in 1..T
    BY <1>2
  <2> QED BY <1>5, <1>10, <2>1 DEF Passed
<1>12. CASE m[x] = "map" /\ ~Conflict(m, x)
  BY <1>1, <1>8, <1>10, <1>11, <1>12 DEF x
<1>13. CASE m[x] # "map"
  BY <1>1, <1>4, <1>5, <1>6, <1>13 DEF x
<1>14. CASE m[x] = "map" /\ Conflict(m, x)
  BY <1>1, <1>14 DEF x
<1> QED BY <1>12, <1>13, <1>14

\* Load begins with the call for the whole tree.
LEMMA LoadForms ==
  ASSUME TypeInv, Load
  PROVE  /\ m = config /\ phase = "load" /\ UNCHANGED <<config, m>>
         /\ \/ Conflict(m, <<>>) /\ phase' = "error" /\ UNCHANGED frames
            \/ /\ ~Conflict(m, <<>>) /\ phase' = "walk"
               /\ Nested(frames') /\ Len(frames') = 1
               /\ frames'[1].at = <<>> /\ frames'[1].left = KeysOf(m, <<>>)
<1> DEFINE new == [at |-> <<>>, left |-> KeysOf(m, <<>>)]
<1>1. m = config /\ phase = "load" /\ UNCHANGED <<config, m>> /\ IsTree(m)
  BY TypeForm DEF Load, FramesInv
<1>2. CASE Conflict(m, <<>>)
  BY <1>1, <1>2 DEF Load, Call
<1>3. CASE ~Conflict(m, <<>>)
  <2>1. phase' = "walk" /\ frames' = Append(<<>>, new)
    BY <1>3 DEF Load, Call
  <2>2. <<>> \in Paths /\ Len(<<>>) = 0
    BY DEF Paths
  <2>3. KeysOf(m, <<>>) \in SUBSET Keys
    BY <1>1, <2>2, KeysOfTree
  <2>4. new \in Frame /\ new.at = <<>> /\ new.left = KeysOf(m, <<>>)
    BY <2>2, <2>3 DEF Frame
  <2> HIDE DEF new
  <2>5. frames' \in Seq(Frame) /\ Len(frames') = 1 /\ frames'[1] = new
    BY <2>1, <2>4
  <2>6. Nested(frames')
    BY <2>2, <2>4, <2>5 DEF Nested
  <2> QED BY <1>1, <1>3, <2>1, <2>4, <2>5, <2>6
<1> QED BY <1>2, <1>3

\* The last call returns.
LEMMA ReturnForms ==
  ASSUME TypeInv, Return
  PROVE  LET T == Len(frames)
         IN /\ phase = "walk" /\ T \in Nat \ {0} /\ frames[T].left = {}
            /\ UNCHANGED <<config, m>> /\ Nested(frames') /\ Len(frames') = T - 1
            /\ \A i \in 1..(T - 1) : frames'[i] = frames[i]
            /\ phase' = IF T > 1 THEN "walk" ELSE IF Accepts(m) THEN "ok" ELSE "error"
<1>1. phase = "walk" /\ Nested(frames) /\ frames # <<>>
  BY TypeForm DEF Return, FramesInv
<1> QED BY <1>1, ReturnNested DEF Return

\* What is read is a tree.
LEMMA TypeInit == Init => TypeInv
<1> SUFFICES ASSUME Init PROVE TypeInv
  OBVIOUS
<1>1. config \in Configs /\ m = config /\ frames = <<>> /\ phase = "load"
  BY DEF Init
<1>2. IsTree(config) /\ IsTree(m)
  BY <1>1, ConfigAssumption
<1>3. Nested(frames) /\ Held(frames, m)
  BY <1>1 DEF Nested, Held
<1> QED BY <1>1, <1>2, <1>3, TypeForm DEF FramesInv

\* The calls of a tree that does not change keep their keys.
LEMMA PassedHeld ==
  ASSUME TypeInv, NEW key, Visits(key), UNCHANGED m, Passed(key, frames'), Nested(frames'),
         NEW i \in 1..Len(frames), i \in 1..Len(frames')
  PROVE  frames'[i].left \subseteq KeysOf(m', frames'[i].at)
<1>1. Held(frames, m) /\ Len(frames) \in Nat
  BY TypeForm DEF FramesInv, Nested
<1>2. Top = frames[Len(frames)]
  BY Visited
<1>3. frames'[i].at = frames[i].at /\ frames'[i].left \subseteq frames[i].left
  BY <1>1, <1>2 DEF Passed
<1> QED BY <1>1, <1>3 DEF Held

\* Every step of the walk keeps the tree and the calls in order.
LEMMA TypeStep == TypeInv /\ [Next]_vars => TypeInv'
<1> SUFFICES ASSUME TypeInv, [Next]_vars PROVE TypeInv'
  OBVIOUS
<1>0. FramesInv /\ IsTree(config) /\ IsTree(m) /\ Held(frames, m)
  BY TypeForm
<1>1. SUFFICES (/\ FramesInv /\ IsTree(config) /\ IsTree(m) /\ Held(frames, m)
                /\ phase \in {"load", "walk", "ok", "error"})'
  BY TypeForm, PTL
<1> USE DEF FramesInv
<1> DEFINE Goal == /\ FramesInv' /\ IsTree(config') /\ IsTree(m') /\ Held(frames', m')
                   /\ phase' \in {"load", "walk", "ok", "error"}
<1>2. CASE Load
  <2>1. CASE phase' = "error" /\ UNCHANGED frames
    BY <1>0, <1>2, <2>1, LoadForms
  <2>2. CASE phase' # "error"
    <3>1. /\ phase' = "walk" /\ Nested(frames') /\ Len(frames') = 1 /\ UNCHANGED <<config, m>>
          /\ frames'[1].at = <<>> /\ frames'[1].left = KeysOf(m, <<>>)
      BY <1>2, <2>2, LoadForms
    <3>2. frames' # <<>> /\ Held(frames', m')
      BY <3>1 DEF Held
    <3> QED BY <1>0, <3>1, <3>2
  <2> QED BY <1>2, <2>1, <2>2, LoadForms
<1>3. ASSUME NEW key, Descend(key) PROVE Goal
  <2>1. Visits(key) /\ UNCHANGED <<config, m>>
    BY <1>3 DEF Descend
  <2>2. frames # <<>> /\ Len(frames) \in Nat \ {0}
    BY <2>1, Visited
  <2> DEFINE T == Len(frames)
             x == Append(Top.at, key)
  <2>3. CASE phase' = "error" /\ UNCHANGED frames
    BY <1>0, <2>1, <2>3
  <2>4. CASE phase' # "error"
    <3>1. phase' = "walk" /\ Nested(frames') /\ Passed(key, frames')
      BY <1>3, <2>4, DescendForms
    <3>2. \/ Len(frames') = T
          \/ /\ Len(frames') = T + 1 /\ frames'[T + 1].at = x
             /\ frames'[T + 1].left = KeysOf(m, x)
      BY <1>3, <2>4, DescendForms
    <3>3. ASSUME NEW i \in 1..Len(frames') PROVE frames'[i].left \subseteq KeysOf(m', frames'[i].at)
      <4>1. CASE i \in 1..T
        BY <2>1, <3>1, <3>3, <4>1, PassedHeld
      <4>2. CASE i \notin 1..T
        <5>1. Len(frames') = T + 1 /\ i = T + 1
          BY <2>2, <3>2, <4>2
        <5>2. frames'[i].at = x /\ frames'[i].left = KeysOf(m, x)
          BY <2>2, <3>2, <5>1
        <5>3. m' = m
          BY <2>1
        <5> HIDE DEF x
        <5> QED BY <5>2, <5>3
      <4> QED BY <4>1, <4>2
    <3>4. frames' # <<>>
      BY <2>2, <3>2
    <3> QED BY <1>0, <2>1, <3>1, <3>3, <3>4 DEF Held
  <2> QED BY <1>3, <2>3, <2>4, DescendForms
<1>4. ASSUME NEW key, NEW seen \in BOOLEAN, Resolve(key, seen) PROVE Goal
  <2>1. phase' = "walk" /\ UNCHANGED config
    BY <1>4 DEF Resolve, Visits
  <2> QED BY <1>0, <1>4, <2>1, ResolveHeld
<1>5. ASSUME NEW key, ResolveFails(key) PROVE Goal
  BY <1>0, <1>5 DEF ResolveFails
<1>6. CASE Return
  <2>1. /\ UNCHANGED <<config, m>> /\ Nested(frames') /\ Len(frames') = Len(frames) - 1
        /\ Len(frames) \in Nat \ {0}
        /\ \A i \in 1..(Len(frames) - 1) : frames'[i] = frames[i]
        /\ phase' = IF Len(frames) > 1 THEN "walk" ELSE IF Accepts(m) THEN "ok" ELSE "error"
    BY <1>6, ReturnForms
  <2>2. phase' \in {"walk", "ok", "error"} /\ (phase' = "walk" => frames' # <<>>)
    BY <2>1
  <2>3. \A i \in 1..(Len(frames) - 1) : i \in 1..Len(frames)
    BY <2>1
  <2>4. Held(frames', m')
    BY <1>0, <2>1, <2>3 DEF Held
  <2> QED BY <1>0, <2>1, <2>2, <2>4
<1>7. CASE UNCHANGED vars
  BY <1>0, <1>7, TypeForm DEF vars, TypeInv, TypeOK
<1> QED BY <1>2, <1>3, <1>4, <1>5, <1>6, <1>7 DEF Next, Loaded

\* Although the walk inserts keys into the maps it is on and deletes keys and
\* whole maps, the tree stays a tree and each call finds the keys before it.
THEOREM TypeCorrect == Spec => []TypeOK
  <1>1. TypeInv => TypeOK
    BY DEF TypeInv
  <1> QED BY TypeInit, TypeStep, <1>1, PTL DEF Spec
-----------------------------------------------------------------------------
(* The order of the walk *)

\* The walk has yet to come to p, or to a map that holds it.
Waits(p) ==
  \/ phase = "load"
  \/ \E i \in 1..Len(frames) :
       i <= Len(p) /\ Upto(p, i - 1) = frames[i].at /\ p[i] \in frames[i].left

\* What waits is as it was read, what does not has its value, and nothing else
\* is in the tree; and a field that is given twice is in a map that waits.
WalkInv ==
  /\ \A p \in DOMAIN config : ~Doubtful(p) =>
       /\ Waits(p) => p \in DOMAIN m /\ m[p] = config[p]
       /\ ~Waits(p) =>
            /\ Setting(p) \in DOMAIN m /\ m[Setting(p)] = ValueAt(config, p)
            /\ IsReference(Last(p)) => config[p] \in DOMAIN Places(Last(p))
       /\ \A q \in DOMAIN config : q # p /\ Setting(q) = Setting(p) => Waits(Front(p))
  /\ \A q \in DOMAIN m : ~Doubtful(q) =>
       \/ q \in DOMAIN config /\ Waits(q)
       \/ \E p \in DOMAIN config : ~Waits(p) /\ Setting(p) = q

\* The maps that hold a value are in its tree.
LEMMA TreeUpto ==
  ASSUME NEW tree, IsTree(tree), NEW p \in DOMAIN tree, NEW i \in 1..Len(p)
  PROVE  /\ p \in Paths /\ p # <<>> /\ Len(p) \in Nat \ {0} /\ Upto(p, i) \in DOMAIN tree
         /\ i < Len(p) => tree[Upto(p, i)] = "map"
<1>1. p \in Paths /\ p # <<>>
  BY DEF IsTree
<1>2. Len(p) \in Nat \ {0}
  BY <1>1, SplitPath
<1>3. CASE i = Len(p)
  BY <1>1, <1>2, <1>3, UptoWhole
<1>4. CASE i # Len(p)
  <2>1. i \in 1..Len(p) - 1
    BY <1>2, <1>4
  <2> QED BY <1>1, <1>2, <2>1 DEF IsTree
<1> QED BY <1>3, <1>4

\* A value within a doubtful map is doubtful.
LEMMA DoubtfulWithin ==
  ASSUME NEW p \in Paths, NEW i \in 1..Len(p), Doubtful(Upto(p, i))
  PROVE  Doubtful(p)
<1>1. i \in 0..Len(p) /\ Len(p) \in Nat
  BY DEF Paths
<1>2. Len(Upto(p, i)) = i
  BY <1>1, UptoPath
<1>3. PICK o \in DOMAIN config, j \in 1..i :
        Doubled(o) /\ Setting(Upto(Upto(p, i), j)) = Setting(o)
  BY <1>2 DEF Doubtful
<1>4. j \in 0..i /\ j \in 1..Len(p)
  BY <1>1, <1>3
<1>5. Upto(Upto(p, i), j) = Upto(p, j)
  BY <1>1, <1>4, UptoUpto
<1> QED BY <1>3, <1>4, <1>5 DEF Doubtful

\* Two ways to give a setting are both doubtful or both not.
LEMMA DoubtfulSame ==
  ASSUME NEW p \in Paths, p # <<>>, NEW q \in Paths, q # <<>>, Setting(p) = Setting(q), Doubtful(p)
  PROVE  Doubtful(q)
<1>1. Len(p) = Len(q) /\ Len(p) \in Nat \ {0}
  BY SettingPath, SplitPath
<1>2. PICK o \in DOMAIN config, j \in 1..Len(p) :
        Doubled(o) /\ Setting(Upto(p, j)) = Setting(o)
  BY DEF Doubtful
<1>3. CASE j = Len(p)
  <2>1. Setting(Upto(q, j)) = Setting(o)
    BY <1>1, <1>2, <1>3, UptoWhole
  <2> QED BY <1>1, <1>2, <2>1 DEF Doubtful
<1>4. CASE j # Len(p)
  <2>1. j \in 0..(Len(p) - 1) /\ j \in 1..Len(q)
    BY <1>1, <1>2, <1>4
  <2>2. Upto(p, j) = Upto(q, j)
    BY <1>1, <2>1, SettingPath
  <2> QED BY <1>2, <2>1, <2>2 DEF Doubtful
<1> QED BY <1>3, <1>4

\* A key with several suffixes is doubtful itself.
LEMMA DoubledDoubtful ==
  ASSUME IsTree(config), NEW o \in DOMAIN config, Doubled(o),
         NEW p \in Paths, p # <<>>, Setting(p) = Setting(o)
  PROVE  Doubtful(p)
<1>1. Len(p) \in 1..Len(p) /\ Upto(p, Len(p)) = p
  BY SplitPath, UptoWhole
<1> QED BY <1>1 DEF Doubtful

\* Two keys of one name in a map are in conflict.
LEMMA TwiceConflicts ==
  ASSUME NEW tree, NEW at, NEW k \in KeysOf(tree, at), NEW l \in KeysOf(tree, at),
         k \in Keys, l \in Keys, k # l, Head(k) = Head(l), Len(k) <= 2, Len(l) <= 2
  PROVE  Conflict(tree, at)
<1>1. CASE IsReference(k) /\ Base(k) = l
  BY <1>1 DEF Conflict
<1>2. CASE IsReference(l) /\ Base(l) = k
  BY <1>2 DEF Conflict
<1>3. CASE /\ IsReference(k) /\ IsReference(l) /\ Last(l) # Last(k)
           /\ Append(Base(k), Last(l)) = l
  <2>1. Last(l) \in SecretSuffixes \ {Last(k)}
    BY <1>3, KeyForms
  <2> QED BY <1>3, <2>1 DEF Conflict
<1> QED BY <1>1, <1>2, <1>3, TwoForms

\* Everything within a key that is visited has waited, its map has not.
LEMMA VisitWaits ==
  ASSUME TypeInv, NEW key, Visits(key)
  PROVE  /\ ~Waits(Top.at)
         /\ \A p \in Paths : Within(Append(Top.at, key), p) => Waits(p)
<1> DEFINE T == Len(frames)
           x == Append(Top.at, key)
<1>1. /\ T \in Nat \ {0} /\ T \in 1..T /\ Top = frames[T] /\ Top.at \in Paths
      /\ Len(Top.at) = T - 1 /\ key \in Keys /\ x \in Paths /\ Len(x) = T
      /\ phase = "walk" /\ key \in Top.left
  BY Visited DEF Visits
<1>2. Nested(frames)
  BY TypeForm DEF FramesInv
<1>3. ASSUME NEW i \in 1..T, i <= Len(Top.at), Top.at[i] \in frames[i].left
      PROVE  FALSE
  <2>1. i < T
    BY <1>1, <1>3
  <2> QED BY <1>1, <1>2, <1>3, <2>1 DEF Nested
<1>4. ASSUME NEW p \in Paths, Within(x, p) PROVE Waits(p)
  <2>1. Len(p) >= T /\ Upto(p, T) = x /\ Len(p) \in Nat
    BY <1>1, <1>4 DEF Within, Paths
  <2>2. T \in 0..Len(p) /\ T - 1 \in 0..T
    BY <1>1, <2>1
  <2>3. p[T] = x[T] /\ x[T] = key
    BY <1>1, <2>1, <2>2, UptoPath, AppendPath
  <2>4. Upto(p, T - 1) = Upto(x, T - 1) /\ Upto(x, T - 1) = Upto(Top.at, T - 1)
    <3>1. T - 1 \in 0..Len(Top.at)
      BY <1>1
    <3>2. Upto(Upto(p, T), T - 1) = Upto(p, T - 1)
      BY <2>2, UptoUpto
    <3>3. Upto(x, T - 1) = Upto(Top.at, T - 1)
      BY <1>1, <3>1, AppendPath
    <3> QED BY <2>1, <3>2, <3>3
  <2>5. Upto(Top.at, T - 1) = Top.at
    BY <1>1, UptoWhole
  <2> QED BY <1>1, <2>1, <2>3, <2>4, <2>5 DEF Waits
<1> QED BY <1>1, <1>3, <1>4 DEF Waits

\* What waits outside of it still does when it has been visited.
LEMMA WaitsOutside ==
  ASSUME TypeInv, NEW key, Visits(key), NEW p \in Paths,
         ~Within(Append(Top.at, key), p), Waits(p),
         Len(frames') \in Nat, Len(frames') >= Len(frames),
         \A i \in 1..(Len(frames) - 1) : frames'[i] = frames[i],
         frames'[Len(frames)].at = Top.at, Top.left \ {key} \subseteq frames'[Len(frames)].left
  PROVE  Waits(p)'
<1> DEFINE T == Len(frames)
           x == Append(Top.at, key)
<1>1. /\ T \in Nat \ {0} /\ Top = frames[T] /\ Top.at \in Paths
      /\ Len(Top.at) = T - 1 /\ key \in Keys /\ x \in Paths /\ Len(x) = T
      /\ phase = "walk"
  BY Visited DEF Visits
<1>2. PICK i \in 1..T : i <= Len(p) /\ Upto(p, i - 1) = frames[i].at /\ p[i] \in frames[i].left
  BY <1>1 DEF Waits
<1>3. i \in 1..Len(frames')
  BY <1>1, <1>2
<1>4. CASE i < T
  <2>1. i \in 1..(T - 1)
    BY <1>1, <1>4
  <2>2. frames'[i] = frames[i]
    BY <2>1
  <2> QED BY <1>2, <1>3, <2>2 DEF Waits
<1>5. CASE i = T
  <2>1. p[T] # key
    <3>1. SUFFICES ASSUME p[T] = key PROVE FALSE
      OBVIOUS
    <3>2. T \in 1..Len(p)
      BY <1>1, <1>2, <1>5 DEF Paths
    <3>3. Upto(p, T) = x
      BY <1>2, <1>5, <3>1, <3>2, <1>1, UptoNext
    <3> QED BY <1>1, <1>2, <1>5, <3>3 DEF Within
  <2>2. Upto(p, i - 1) = frames'[i].at /\ p[i] \in frames'[i].left
    BY <1>1, <1>2, <1>5, <2>1
  <2> QED BY <1>2, <1>3, <2>2 DEF Waits
<1> QED BY <1>1, <1>2, <1>4, <1>5

\* Nothing waits that did not, but what lies within a key that was added.
LEMMA WaitedBefore ==
  ASSUME TypeInv, NEW key, Visits(key), NEW p \in Paths,
         \A i \in 1..(Len(frames) - 1) : frames'[i] = frames[i],
         frames'[Len(frames)].at = Top.at,
         NEW i \in 1..Len(frames), i <= Len(p), Upto(p, i - 1) = frames'[i].at, p[i] \in frames'[i].left
  PROVE  Waits(p) \/ (i = Len(frames) /\ p[i] \notin Top.left)
<1>1. /\ Len(frames) \in Nat \ {0} /\ Top = frames[Len(frames)] /\ phase = "walk"
  BY Visited DEF Visits
<1>2. CASE i < Len(frames)
  <2>1. i \in 1..(Len(frames) - 1)
    BY <1>1, <1>2
  <2>2. frames'[i] = frames[i]
    BY <2>1
  <2>3. i <= Len(p) /\ Upto(p, i - 1) = frames[i].at /\ p[i] \in frames[i].left
    BY <2>2
  <2>4. Waits(p)
    BY <2>3 DEF Waits
  <2> QED BY <2>4
<1>3. CASE i = Len(frames)
  <2>1. Upto(p, i - 1) = frames[i].at
    BY <1>1, <1>3
  <2>2. CASE p[i] \in Top.left
    <3>1. i <= Len(p) /\ p[i] \in frames[i].left
      BY <1>1, <1>3, <2>2
    <3>2. Waits(p)
      BY <2>1, <3>1 DEF Waits
    <3> QED BY <3>2
  <2> QED BY <1>3, <2>2
<1> QED BY <1>1, <1>2, <1>3

\* What has been visited does not wait for one of the calls so far.
LEMMA WaitsNoMore ==
  ASSUME TypeInv, NEW key, Visits(key),
         \A i \in 1..(Len(frames) - 1) : frames'[i] = frames[i],
         key \notin frames'[Len(frames)].left,
         NEW i \in 1..Len(frames)
  PROVE  Append(Top.at, key)[i] \notin frames'[i].left
<1> DEFINE T == Len(frames)
           x == Append(Top.at, key)
<1>1. /\ T \in Nat \ {0} /\ T \in 1..T /\ Top = frames[T] /\ Top.at \in Paths
      /\ Len(Top.at) = T - 1 /\ key \in Keys
  BY Visited
<1>2. x[T] = key /\ \A j \in 1..(T - 1) : x[j] = Top.at[j]
  BY <1>1, AppendPath
<1>3. CASE i = T
  BY <1>2, <1>3
<1>4. CASE i < T
  <2>1. Top.at[i] \notin frames[i].left
    BY <1>1, <1>4, TypeForm DEF FramesInv, Nested
  <2> QED BY <1>1, <1>2, <1>4, <2>1
<1> QED BY <1>1, <1>3, <1>4

\* What a step that does not change the configuration has to establish.
LEMMA WalkForm ==
  ASSUME UNCHANGED config,
         \A p \in DOMAIN config : ~Doubtful(p) =>
           /\ Waits(p)' => p \in DOMAIN m' /\ m'[p] = config[p]
           /\ ~Waits(p)' =>
                /\ Setting(p) \in DOMAIN m' /\ m'[Setting(p)] = ValueAt(config, p)
                /\ IsReference(Last(p)) => config[p] \in DOMAIN Places(Last(p))
           /\ \A q \in DOMAIN config : q # p /\ Setting(q) = Setting(p) => Waits(Front(p))',
         \A q \in DOMAIN m' : ~Doubtful(q) =>
           \/ q \in DOMAIN config /\ Waits(q)'
           \/ \E p \in DOMAIN config : ~Waits(p)' /\ Setting(p) = q
  PROVE  WalkInv'
<1>1. \A p : Doubtful(p)' <=> Doubtful(p)
  BY DEF Doubtful
<1> HIDE DEF Doubtful, Waits
<1> QED BY <1>1 DEF WalkInv

\* Values that are given for one setting, where one of them is not doubtful,
\* have keys without a second suffix in one map.
LEMMA TwiceForms ==
  ASSUME IsTree(config), NEW p \in DOMAIN config, ~Doubtful(p),
         NEW q \in DOMAIN config, q # p, Setting(q) = Setting(p)
  PROVE  /\ Last(p) \in Keys /\ Last(q) \in Keys /\ Last(p) # Last(q)
         /\ Head(Last(p)) = Head(Last(q)) /\ Len(Last(p)) <= 2 /\ Len(Last(q)) <= 2
         /\ Front(p) \in Paths /\ Front(q) = Front(p) /\ Len(Front(p)) = Len(p) - 1
         /\ Len(q) = Len(p) /\ Len(p) \in Nat \ {0}
         /\ Append(Front(p), Last(p)) = p /\ Append(Front(p), Last(q)) = q
<1>1. p \in Paths /\ p # <<>> /\ q \in Paths /\ q # <<>>
  BY DEF IsTree
<1>2. /\ Last(p) \in Keys /\ Append(Front(p), Last(p)) = p /\ Len(p) \in Nat \ {0}
      /\ Front(p) \in Paths /\ Len(Front(p)) = Len(p) - 1
  BY <1>1, SplitPath
<1>3. Last(q) \in Keys /\ Append(Front(q), Last(q)) = q
  BY <1>1, SplitPath
<1>4. /\ Front(Setting(p)) = Front(p) /\ Last(Setting(p)) = <<Head(Last(p))>>
      /\ Front(Setting(q)) = Front(q) /\ Last(Setting(q)) = <<Head(Last(q))>>
      /\ Len(Setting(p)) = Len(p) /\ Len(Setting(q)) = Len(q)
  BY <1>1, SettingPath
<1>5. Front(q) = Front(p) /\ Len(q) = Len(p) /\ <<Head(Last(p))>> = <<Head(Last(q))>>
  BY <1>4
<1>6. Head(Last(p)) = Head(Last(q))
  <2>1. Head(<<Head(Last(p))>>) = Head(Last(p)) /\ Head(<<Head(Last(q))>>) = Head(Last(q))
    BY <1>2, <1>3, KeyForms
  <2> QED BY <1>5, <2>1
<1>7. ~Doubled(p) /\ ~Doubled(q)
  BY <1>1, DoubledDoubtful
<1>8. Len(Last(p)) <= 2 /\ Len(Last(q)) <= 2
  BY <1>2, <1>3, <1>7, KeyForms DEF Doubled
<1> QED BY <1>2, <1>3, <1>5, <1>6, <1>8

\* A walk begins with everything before it.
LEMMA LoadWalks ==
  ASSUME TypeInv, Load, phase' = "walk"
  PROVE  WalkInv'
<1>1. /\ m = config /\ UNCHANGED <<config, m>> /\ ~Conflict(config, <<>>)
      /\ Len(frames') = 1 /\ frames'[1].at = <<>> /\ frames'[1].left = KeysOf(config, <<>>)
  BY LoadForms
<1>2. IsTree(config) /\ <<>> \in Paths
  BY TypeForm DEF Paths
<1>3. ASSUME NEW p \in DOMAIN config PROVE Waits(p)' /\ p \in Paths /\ p # <<>>
  <2>1. p \in Paths /\ p # <<>> /\ 1 \in 1..Len(p)
    <3>1. p \in Paths /\ p # <<>>
      BY <1>2 DEF IsTree
    <3> QED BY <3>1, SplitPath
  <2>2. Upto(p, 1) \in DOMAIN config
    BY <1>2, <2>1, TreeUpto
  <2>3. p[1] \in Keys /\ Append(Upto(p, 1 - 1), p[1]) = Upto(p, 1)
    BY <2>1, UptoNext
  <2>4. Upto(p, 0) = <<>>
    BY <2>1 DEF Upto, Paths
  <2>5. p[1] \in KeysOf(config, <<>>)
    <3>1. 1 - 1 = 0
      OBVIOUS
    <3>2. Append(<<>>, p[1]) \in DOMAIN config
      BY <2>2, <2>3, <2>4, <3>1
    <3> QED BY <1>2, <2>3, <3>2, KeysOfTree
  <2>6. 1 <= Len(p) /\ Upto(p, 1 - 1) = frames'[1].at /\ p[1] \in frames'[1].left
    BY <1>1, <2>1, <2>4, <2>5
  <2>7. 1 \in 1..Len(frames')
    BY <1>1
  <2> QED BY <2>1, <2>6, <2>7 DEF Waits
<1>4. ASSUME NEW p \in DOMAIN config, ~Doubtful(p),
             NEW q \in DOMAIN config, q # p, Setting(q) = Setting(p)
      PROVE  Waits(Front(p))'
  <2>1. /\ Last(p) \in Keys /\ Last(q) \in Keys /\ Last(p) # Last(q)
        /\ Head(Last(p)) = Head(Last(q)) /\ Len(Last(p)) <= 2 /\ Len(Last(q)) <= 2
        /\ Append(Front(p), Last(p)) = p /\ Append(Front(p), Last(q)) = q
        /\ Front(p) \in Paths /\ Len(Front(p)) = Len(p) - 1 /\ Len(p) \in Nat \ {0}
    BY <1>2, <1>4, TwiceForms
  <2>2. CASE Front(p) = <<>>
    <3>1. Last(p) \in KeysOf(config, <<>>) /\ Last(q) \in KeysOf(config, <<>>)
      BY <1>2, <2>1, <2>2, KeysOfTree
    <3> QED BY <1>1, <2>1, <3>1, TwiceConflicts
  <2>3. CASE Front(p) # <<>>
    <3>1. Front(p) = Upto(p, Len(p) - 1)
      BY <1>3, SplitPath
    <3>2. Len(p) - 1 \in 1..Len(p)
      BY <2>1, <2>3, SplitPath
    <3>3. Front(p) \in DOMAIN config
      BY <1>2, <3>1, <3>2, TreeUpto
    <3> QED BY <1>3, <3>3
  <2> QED BY <2>2, <2>3
<1> QED BY <1>1, <1>3, <1>4, WalkForm

\* In the map that is visited, no field that is not doubtful is given twice.
LEMMA VisitedOnce ==
  ASSUME TypeInv, WalkInv, NEW key, Visits(key),
         NEW p \in DOMAIN config, ~Doubtful(p), NEW q \in DOMAIN config, Setting(q) = Setting(p),
         Front(p) = Top.at
  PROVE  q = p
<1>1. ~Waits(Top.at)
  BY VisitWaits
<1> QED BY <1>1 DEF WalkInv

\* What is within a key that is visited and not doubtful is as it was read.
LEMMA VisitedMap ==
  ASSUME TypeInv, WalkInv, NEW key, Visits(key),
         NEW p \in DOMAIN config, ~Doubtful(p), Within(Append(Top.at, key), p)
  PROVE  LET x == Append(Top.at, key)
         IN /\ x \in DOMAIN config /\ ~Doubtful(x) /\ Waits(x) /\ m[x] = config[x]
            /\ p # x => m[x] = "map"
<1> DEFINE T == Len(frames)
           x == Append(Top.at, key)
<1>1. x \in Paths /\ Len(x) = T /\ T \in Nat \ {0}
  BY Visited
<1>2. IsTree(config)
  BY TypeForm
<1>3. Len(p) >= T /\ Upto(p, T) = x /\ p \in Paths
  BY <1>1, <1>2 DEF Within, IsTree
<1>4. T \in 1..Len(p) /\ Len(p) \in Nat
  BY <1>1, <1>3 DEF Paths
<1>5. x \in DOMAIN config /\ (T < Len(p) => config[x] = "map")
  BY <1>2, <1>3, <1>4, TreeUpto
<1>6. ~Doubtful(x)
  BY <1>3, <1>4, DoubtfulWithin
<1>7. Within(x, x)
  <2> HIDE DEF x
  <2>1. Upto(x, Len(x)) = x /\ Len(x) >= Len(x)
    BY <1>1, UptoWhole
  <2> QED BY <2>1 DEF Within
<1>8. Waits(x)
  BY <1>1, <1>7, VisitWaits
<1>9. m[x] = config[x]
  BY <1>5, <1>6, <1>8 DEF WalkInv
<1>10. p # x => T < Len(p)
  BY <1>3, <1>4, UptoWhole
<1> QED BY <1>5, <1>6, <1>8, <1>9, <1>10

\* A key is passed; if it has a map, the walk goes on in it.
LEMMA DescendWalks ==
  ASSUME TypeInv, WalkInv, NEW key, Descend(key), phase' = "walk"
  PROVE  WalkInv'
<1> DEFINE T == Len(frames)
           x == Append(Top.at, key)
<1>1. Visits(key) /\ ~IsReference(key) /\ UNCHANGED <<config, m>>
  BY DEF Descend
<1>2. /\ T \in Nat \ {0} /\ Top = frames[T] /\ Top.at \in Paths /\ Len(Top.at) = T - 1
      /\ key \in Keys /\ x \in Paths /\ Len(x) = T /\ x \in DOMAIN m /\ phase = "walk"
  BY <1>1, Visited DEF Visits
<1>3. IsTree(config) /\ IsTree(m)
  BY TypeForm
<1>4. /\ Passed(key, frames')
      /\ \/ /\ m[x] = "map" /\ ~Conflict(m, x) /\ Len(frames') = T + 1
            /\ frames'[T + 1].at = x /\ frames'[T + 1].left = KeysOf(m, x)
         \/ m[x] # "map" /\ Len(frames') = T
  BY DescendForms
<1>5. /\ Len(frames') \in Nat /\ Len(frames') >= T
      /\ \A i \in 1..(T - 1) : frames'[i] = frames[i]
      /\ frames'[T].at = Top.at /\ frames'[T].left = Top.left \ {key}
  BY <1>2, <1>4 DEF Passed
<1>6. x # <<>> /\ Last(x) = key /\ Front(x) = Top.at
  BY <1>2, AppendPath
<1> HIDE DEF x
<1>7. ASSUME NEW p \in Paths, Waits(p)' PROVE Waits(p)
  <2>1. PICK i \in 1..Len(frames') :
          i <= Len(p) /\ Upto(p, i - 1) = frames'[i].at /\ p[i] \in frames'[i].left
    BY <1>7 DEF Waits
  <2>2. CASE i \in 1..T
    <3>1. Waits(p) \/ (i = T /\ p[i] \notin Top.left)
      BY <1>1, <1>5, <2>1, <2>2, WaitedBefore
    <3> QED BY <1>5, <2>1, <3>1
  <2>3. CASE i \notin 1..T
    <3>1. i = T + 1 /\ i - 1 = T /\ frames'[i].at = x
      BY <1>2, <1>4, <2>3
    <3>2. Within(x, p)
      BY <1>2, <2>1, <3>1 DEF Within, Paths
    <3> QED BY <1>1, <3>2, VisitWaits DEF x
  <2> QED BY <2>2, <2>3
<1>8. ASSUME NEW p \in DOMAIN config, ~Doubtful(p), p # x, Waits(p) PROVE Waits(p)'
  <2>1. p \in Paths
    BY <1>3 DEF IsTree
  <2>2. CASE ~Within(x, p)
    BY <1>1, <1>5, <1>8, <2>1, <2>2, WaitsOutside DEF x
  <2>3. CASE Within(x, p)
    <3>1. m[x] = "map"
      BY <1>1, <1>8, <2>3, VisitedMap DEF x
    <3>2. /\ Len(frames') = T + 1 /\ frames'[T + 1].at = x
          /\ frames'[T + 1].left = KeysOf(m, x)
      BY <1>4, <3>1
    <3>3. /\ Inside(x, p) /\ Len(p) >= T + 1 /\ p[T + 1] \in Keys
          /\ Append(x, p[T + 1]) = Upto(p, T + 1)
      BY <1>2, <1>8, <2>1, <2>3, WithinNext
    <3> DEFINE u == Upto(p, T + 1)
    <3>4. T + 1 \in 1..Len(p) /\ T + 1 \in 0..Len(p) /\ T \in 0..(T + 1)
      BY <1>2, <2>1, <3>3 DEF Paths
    <3>5. u \in DOMAIN config /\ ~Doubtful(u)
      BY <1>3, <1>8, <2>1, <3>4, TreeUpto, DoubtfulWithin
    <3>6. u \in Paths /\ Len(u) = T + 1 /\ Upto(u, T) = Upto(p, T)
      BY <2>1, <3>4, UptoPath, UptoUpto
    <3>7. Upto(p, T) = x
      BY <1>2, <2>3 DEF Within
    <3>8. Within(x, u)
      BY <1>2, <3>6, <3>7 DEF Within
    <3>9. Waits(u)
      BY <1>1, <3>6, <3>8, VisitWaits DEF x
    <3>10. u \in DOMAIN m
      BY <3>5, <3>9 DEF WalkInv
    <3>11. p[T + 1] \in KeysOf(m, x)
      BY <1>2, <1>3, <3>3, <3>10, KeysOfTree
    <3>12. T + 1 \in 1..Len(frames') /\ T + 1 - 1 = T
      BY <1>2, <3>2
    <3>13. /\ T + 1 <= Len(p) /\ Upto(p, T + 1 - 1) = frames'[T + 1].at
           /\ p[T + 1] \in frames'[T + 1].left
      BY <3>2, <3>3, <3>7, <3>11, <3>12
    <3> QED BY <3>12, <3>13 DEF Waits
  <2> QED BY <2>2, <2>3
<1>9. ASSUME NEW p \in DOMAIN config, ~Doubtful(p)
       PROVE  /\ Waits(p)' => p \in DOMAIN m /\ m[p] = config[p]
              /\ ~Waits(p)' =>
                   /\ Setting(p) \in DOMAIN m /\ m[Setting(p)] = ValueAt(config, p)
                   /\ IsReference(Last(p)) => config[p] \in DOMAIN Places(Last(p))
  <2>1. p \in Paths /\ p # <<>>
    BY <1>3 DEF IsTree
  <2>2. CASE p # x
    BY <1>7, <1>8, <1>9, <2>1, <2>2 DEF WalkInv
  <2>3. CASE p = x
    <3>1. m[x] = config[x]
      <4>1. Within(x, x)
        BY <1>2, UptoWhole DEF Within
      <4> QED BY <1>1, <1>9, <2>3, <4>1, VisitedMap DEF x
    <3>2. Setting(x) = x
      BY <1>1, <1>6, <2>1, <2>3, SettingPath
    <3>3. ValueAt(config, x) = config[x]
      BY <1>1, <1>6 DEF ValueAt
    <3> QED BY <1>1, <1>2, <1>6, <2>3, <3>1, <3>2, <3>3
  <2> QED BY <2>2, <2>3
<1>10. ASSUME NEW p \in DOMAIN config, ~Doubtful(p),
              NEW q \in DOMAIN config, q # p, Setting(q) = Setting(p)
       PROVE  Waits(Front(p))'
  <2>1. /\ Last(p) \in Keys /\ Last(q) \in Keys /\ Last(p) # Last(q)
        /\ Head(Last(p)) = Head(Last(q)) /\ Len(Last(p)) <= 2 /\ Len(Last(q)) <= 2
        /\ Append(Front(p), Last(p)) = p /\ Append(Front(p), Last(q)) = q
        /\ Front(p) \in Paths /\ Len(Front(p)) = Len(p) - 1 /\ Len(p) \in Nat \ {0}
        /\ Front(q) = Front(p)
    BY <1>3, <1>10, TwiceForms
  <2>2. p \in Paths /\ p # <<>> /\ q \in Paths /\ q # <<>> /\ ~Doubtful(q)
    BY <1>3, <1>10, DoubtfulSame DEF IsTree
  <2>3. Waits(Front(p))
    BY <1>10 DEF WalkInv
  <2>4. Len(Front(p)) > 0
    BY <1>2, <2>1, <2>3 DEF Waits
  <2>5. Front(p) = Upto(p, Len(p) - 1) /\ Len(p) - 1 \in 1..Len(p)
    BY <2>1, <2>2, <2>4, SplitPath
  <2>6. Front(p) \in DOMAIN config /\ ~Doubtful(Front(p))
    BY <1>3, <1>10, <2>2, <2>5, TreeUpto, DoubtfulWithin
  <2>7. CASE Front(p) # x
    BY <1>8, <2>3, <2>6, <2>7
  <2>8. CASE Front(p) = x
    <3>1. Within(x, p) /\ Within(x, q) /\ p # x
      <4>1. /\ Len(p) = T + 1 /\ Upto(p, T) = x
        BY <1>2, <2>1, <2>5, <2>8
      <4>2. Len(q) = Len(p) /\ Upto(q, T) = x
        <5>1. Front(q) = Upto(q, Len(q) - 1) /\ Len(Front(q)) = Len(q) - 1 /\ Len(q) \in Nat
          BY <2>2, SplitPath
        <5> QED BY <1>2, <2>1, <2>8, <4>1, <5>1
      <4> QED BY <1>2, <4>1, <4>2 DEF Within
    <3>2. m[x] = "map" /\ Waits(p) /\ Waits(q)
      BY <1>1, <1>10, <2>2, <3>1, VisitedMap, VisitWaits DEF x
    <3>3. p \in DOMAIN m /\ q \in DOMAIN m
      BY <1>10, <2>2, <3>2 DEF WalkInv
    <3>4. Last(p) \in KeysOf(m, x) /\ Last(q) \in KeysOf(m, x)
      BY <1>2, <1>3, <2>1, <2>8, <3>3, KeysOfTree
    <3>5. Conflict(m, x)
      BY <2>1, <3>4, TwiceConflicts
    <3> QED BY <1>4, <3>2, <3>5
  <2> QED BY <2>7, <2>8
<1>11. ASSUME NEW q \in DOMAIN m, ~Doubtful(q)
       PROVE  \/ q \in DOMAIN config /\ Waits(q)'
              \/ \E p \in DOMAIN config : ~Waits(p)' /\ Setting(p) = q
  <2>1. CASE q \in DOMAIN config /\ Waits(q)
    <3>1. CASE q # x
      BY <1>8, <1>11, <2>1, <3>1
    <3>2. CASE q = x
      BY <1>1, <1>2, <1>6, <2>1, <3>2, SettingPath
    <3> QED BY <3>1, <3>2
  <2>2. ASSUME NEW p \in DOMAIN config, ~Waits(p), Setting(p) = q
        PROVE  ~Waits(p)'
    <3>1. p \in Paths
      BY <1>3 DEF IsTree
    <3> QED BY <1>7, <2>2, <3>1
  <2> QED BY <1>11, <2>1, <2>2 DEF WalkInv
<1> QED BY <1>1, <1>9, <1>10, <1>11, WalkForm

\* A reference that speaks of a setting that is not doubtful is as it was read,
\* and the only key for it; so no value is where the secret is put.
LEMMA ReferenceIsSole ==
  ASSUME TypeInv, WalkInv, NEW key, Visits(key), IsReference(key),
         NEW base, base = Append(Top.at, Base(key))
  PROVE  LET x == Append(Top.at, key)
         IN /\ ~Doubtful(base) => x \in DOMAIN config /\ ~Doubtful(x) /\ base = Setting(x)
            /\ \A p \in DOMAIN config : ~Doubtful(p) =>
                 ~Within(base, p) /\ (p # x => ~Within(base, Setting(p)))
<1> DEFINE T == Len(frames)
           x == Append(Top.at, key)
<1>1. /\ T \in Nat \ {0} /\ Top.at \in Paths /\ Len(Top.at) = T - 1
      /\ key \in Keys /\ x \in Paths /\ Len(x) = T /\ x \in DOMAIN m
  BY Visited
<1>2. IsTree(config)
  BY TypeForm
<1>3. Base(key) \in Keys /\ Base(key) # key /\ Head(Base(key)) = Head(key) /\ Len(Base(key)) = Len(key) - 1
  BY <1>1, KeyForms
<1>4. x # <<>> /\ Last(x) = key /\ Front(x) = Top.at
  BY <1>1, AppendPath
<1>5. base \in Paths /\ base # <<>> /\ Last(base) = Base(key) /\ Front(base) = Top.at /\ Len(base) = T
  BY <1>1, <1>3, AppendPath
<1>6. Setting(base) = Setting(x)
  BY <1>3, <1>4, <1>5 DEF Setting
<1> HIDE DEF x
<1>7. ASSUME ~Doubtful(base)
      PROVE  x \in DOMAIN config /\ ~Doubtful(x) /\ base = Setting(x)
  <2>1. ~Doubtful(x)
    BY <1>1, <1>4, <1>5, <1>6, <1>7, DoubtfulSame
  <2>2. x \in DOMAIN config
    <3>1. ASSUME NEW p \in DOMAIN config, Setting(p) = x PROVE FALSE
      <4>1. p \in Paths /\ p # <<>>
        BY <1>2 DEF IsTree
      <4>2. ~IsReference(Last(x))
        BY <3>1, <4>1, SettingPath
      <4> QED BY <1>4, <4>2
    <3> QED BY <1>1, <2>1, <3>1 DEF WalkInv
  <2>3. Len(key) <= 2
    <3>1. ~Doubled(x)
      BY <1>1, <1>2, <1>4, <2>1, <2>2, DoubledDoubtful
    <3> QED BY <1>1, <1>4, <3>1, KeyForms DEF Doubled
  <2>4. ~IsReference(Base(key))
    BY <1>1, <1>3, <2>3, KeyForms DEF IsReference
  <2>5. Setting(base) = base
    BY <1>5, <2>4, SettingPath
  <2> QED BY <1>6, <2>1, <2>2, <2>5
<1>8. ASSUME NEW p \in DOMAIN config, ~Doubtful(p), Within(base, p) PROVE FALSE
  <2>1. p \in Paths /\ Len(p) >= T /\ Upto(p, T) = base
    BY <1>2, <1>5, <1>8 DEF IsTree, Within
  <2>2. T \in 1..Len(p)
    BY <1>1, <2>1 DEF Paths
  <2>3. base \in DOMAIN config /\ ~Doubtful(base)
    <3>1. Upto(p, T) \in DOMAIN config
      BY <1>2, <2>2, TreeUpto
    <3>2. ~Doubtful(Upto(p, T))
      BY <1>8, <2>1, <2>2, DoubtfulWithin
    <3> QED BY <2>1, <3>1, <3>2
  <2>4. x \in DOMAIN config
    BY <1>7, <2>3
  <2>5. x = base
    BY <1>5, <1>6, <2>3, <2>4, VisitedOnce
  <2> QED BY <1>3, <1>4, <1>5, <2>5
<1>9. ASSUME NEW p \in DOMAIN config, ~Doubtful(p), p # x, Within(base, Setting(p)) PROVE FALSE
  <2>1. p \in Paths /\ p # <<>>
    BY <1>2 DEF IsTree
  <2>2. /\ Setting(p) \in Paths /\ Setting(p) # <<>> /\ Len(Setting(p)) = Len(p) /\ Len(p) \in Nat
        /\ Setting(Setting(p)) = Setting(p) /\ Front(Setting(p)) = Front(p)
        /\ \A i \in 0..(Len(p) - 1) : Upto(Setting(p), i) = Upto(p, i)
    BY <2>1, SettingPath, SplitPath
  <2>3. Len(p) >= T /\ Upto(Setting(p), T) = base
    BY <1>5, <1>9, <2>2 DEF Within
  <2>4. CASE Len(p) > T
    <3>1. T \in 0..(Len(p) - 1)
      BY <1>1, <2>2, <2>4
    <3>2. Within(base, p)
      BY <1>5, <2>2, <2>3, <3>1 DEF Within
    <3> QED BY <1>8, <1>9, <3>2
  <2>5. CASE Len(p) = T
    <3>1. Setting(p) = base
      BY <2>2, <2>3, <2>5, UptoWhole
    <3>2. ~Doubtful(base)
      BY <1>5, <1>9, <2>1, <2>2, <3>1, DoubtfulSame
    <3>3. x \in DOMAIN config /\ ~Doubtful(x) /\ Setting(p) = Setting(x)
      BY <1>7, <3>1, <3>2
    <3>4. p = x
      BY <1>4, <3>3, VisitedOnce
    <3> QED BY <1>9, <3>4
  <2> QED BY <1>1, <2>2, <2>3, <2>4, <2>5
<1> QED BY <1>7, <1>8, <1>9 DEF x

\* A reference is replaced by its secret.
LEMMA ResolveWalks ==
  ASSUME TypeInv, WalkInv, NEW key, NEW seen \in BOOLEAN, Resolve(key, seen)
  PROVE  WalkInv'
<1> DEFINE T == Len(frames)
<1>0. PICK x, base : x = Append(Top.at, key) /\ base = Append(Top.at, Base(key))
  OBVIOUS
<1>1. /\ Visits(key) /\ IsReference(key) /\ m[x] \in DOMAIN Places(key) /\ UNCHANGED <<config, phase>>
      /\ m' = Replace(x, base, Places(key)[m[x]])
      /\ frames' = Leaving(IF seen THEN (Top.left \ {key}) \cup {Base(key)} ELSE Top.left \ {key})
  BY <1>0 DEF Resolve
<1>2. /\ frames # <<>> /\ T \in Nat \ {0} /\ Top = frames[T] /\ Top.at \in Paths
      /\ Len(Top.at) = T - 1 /\ Top.left \in SUBSET Keys
      /\ key \in Keys /\ x \in Paths /\ Len(x) = T /\ x \in DOMAIN m /\ phase = "walk"
  BY <1>0, <1>1, Visited DEF Visits
<1>3. Base(key) \in Keys /\ Base(key) # key
  BY <1>1, <1>2, KeyForms
<1>4. IsTree(config) /\ IsTree(m) /\ Nested(frames)
  BY TypeForm DEF FramesInv
<1>5. /\ x # <<>> /\ Last(x) = key /\ Front(x) = Top.at /\ x[T] = key
      /\ base \in Paths /\ base # <<>> /\ Len(base) = T /\ base[T] = Base(key)
  BY <1>0, <1>2, <1>3, AppendPath
<1>6. /\ Len(frames') = T /\ \A i \in 1..(T - 1) : frames'[i] = frames[i]
      /\ frames'[T].at = Top.at /\ Top.left \ {key} \subseteq frames'[T].left
      /\ frames'[T].left \subseteq (Top.left \ {key}) \cup {Base(key)}
  <2> DEFINE left == IF seen THEN (Top.left \ {key}) \cup {Base(key)} ELSE Top.left \ {key}
  <2>1. /\ left \in SUBSET Keys /\ Top.left \ {key} \subseteq left
        /\ left \subseteq (Top.left \ {key}) \cup {Base(key)}
    BY <1>2, <1>3
  <2> HIDE DEF left
  <2>2. /\ Len(Leaving(left)) = T /\ \A i \in 1..(T - 1) : Leaving(left)[i] = frames[i]
        /\ Leaving(left)[T].at = frames[T].at /\ Leaving(left)[T].left = left
    BY <1>2, <1>4, <2>1, LeavingFrames DEF Nested
  <2>3. frames' = Leaving(left)
    BY <1>1 DEF left
  <2> QED BY <1>2, <2>1, <2>2, <2>3
<1>7. /\ DOMAIN m' = {q \in DOMAIN m \ {x} : ~Inside(base, q)} \cup {base}
      /\ m'[base] = Places(key)[m[x]]
      /\ \A q \in DOMAIN m' : q # base => m'[q] = m[q]
  BY <1>1 DEF Replace
<1>8. m[x] # "map"
  BY <1>1, SecretIs
<1>9. /\ ~Doubtful(base) => x \in DOMAIN config /\ ~Doubtful(x) /\ base = Setting(x)
      /\ \A p \in DOMAIN config : ~Doubtful(p) =>
           ~Within(base, p) /\ (p # x => ~Within(base, Setting(p)))
  BY <1>0, <1>1, ReferenceIsSole
<1>10. ASSUME NEW p \in Paths, p # x, ~Within(base, p)
       PROVE  /\ p # base /\ (p \in DOMAIN m => p \in DOMAIN m' /\ m'[p] = m[p])
  <2>1. p # base
    BY <1>5, <1>10, UptoWhole DEF Within
  <2>2. ~Inside(base, p)
    BY <1>5, <1>10 DEF Within, Inside, Paths
  <2> QED BY <1>7, <1>10, <2>1, <2>2
<1>11. ASSUME NEW p \in DOMAIN config, ~Doubtful(p), Waits(p)' PROVE Waits(p) /\ p # x
  <2>1. p \in Paths /\ Len(p) \in Nat
    BY <1>4 DEF IsTree, Paths
  <2>2. PICK i \in 1..T :
          i <= Len(p) /\ Upto(p, i - 1) = frames'[i].at /\ p[i] \in frames'[i].left
    BY <1>1, <1>2, <1>6, <1>11 DEF Waits
  <2>3. p # x
    <3>1. key \notin frames'[T].left
      BY <1>3, <1>6
    <3> QED BY <1>0, <1>1, <1>6, <2>2, <3>1, WaitsNoMore
  <2>4. Waits(p) \/ (i = T /\ p[i] \notin Top.left)
    BY <1>1, <1>6, <2>1, <2>2, WaitedBefore
  <2>5. CASE i = T /\ p[i] \notin Top.left
    <3>1. p[T] = Base(key) /\ Upto(p, T - 1) = Top.at /\ T \in 1..Len(p)
      BY <1>2, <1>6, <2>2, <2>5
    <3>2. Upto(p, T) = base
      BY <1>0, <2>1, <3>1, UptoNext
    <3> QED BY <1>5, <1>9, <1>11, <2>1, <3>1, <3>2 DEF Within
  <2> QED BY <2>3, <2>4, <2>5
<1>12. ASSUME NEW p \in DOMAIN config, ~Doubtful(p), p # x, Waits(p)
       PROVE  Waits(p)' /\ ~Within(x, p)
  <2>1. p \in Paths
    BY <1>4 DEF IsTree
  <2>2. ~Within(x, p)
    BY <1>0, <1>1, <1>8, <1>12, VisitedMap
  <2>3. Len(frames') \in Nat /\ Len(frames') >= T
    BY <1>2, <1>6
  <2> QED BY <1>0, <1>1, <1>6, <1>12, <2>1, <2>2, <2>3, WaitsOutside
<1>13. x \in DOMAIN config /\ ~Doubtful(x) => Waits(x) /\ m[x] = config[x] /\ config[x] # "map"
  <2>1. Within(x, x)
    BY <1>2, UptoWhole DEF Within
  <2> QED BY <1>0, <1>1, <1>8, <2>1, VisitedMap
<1>14. ASSUME NEW p \in DOMAIN config, ~Doubtful(p)
       PROVE  /\ Waits(p)' => p \in DOMAIN m' /\ m'[p] = config[p]
              /\ ~Waits(p)' =>
                   /\ Setting(p) \in DOMAIN m' /\ m'[Setting(p)] = ValueAt(config, p)
                   /\ IsReference(Last(p)) => config[p] \in DOMAIN Places(Last(p))
  <2>1. p \in Paths /\ p # <<>>
    BY <1>4 DEF IsTree
  <2>2. ASSUME Waits(p)' PROVE p \in DOMAIN m' /\ m'[p] = config[p]
    <3>1. Waits(p) /\ p # x /\ ~Within(base, p)
      BY <1>9, <1>11, <1>14, <2>2
    <3>2. p \in DOMAIN m /\ m[p] = config[p]
      BY <1>14, <3>1 DEF WalkInv
    <3> QED BY <1>10, <2>1, <3>1, <3>2
  <2>3. CASE p = x
    <3>1. base = Setting(x) /\ ~Doubtful(base)
      <4>1. Setting(base) = Setting(x)
        <5>1. Last(base) = Base(key) /\ Front(base) = Top.at
          BY <1>0, <1>2, <1>3, AppendPath
        <5>2. Head(Base(key)) = Head(key)
          BY <1>1, <1>2, KeyForms
        <5> QED BY <1>5, <5>1, <5>2 DEF Setting
      <4>2. ~Doubtful(base)
        BY <1>2, <1>5, <1>14, <2>3, <4>1, DoubtfulSame
      <4> QED BY <1>9, <4>2
    <3>2. m[x] = config[x]
      BY <1>13, <1>14, <2>3
    <3>3. ValueAt(config, x) = Places(key)[config[x]]
      BY <1>1, <1>5 DEF ValueAt
    <3>4. base \in DOMAIN m' /\ m'[base] = Places(key)[m[x]]
      BY <1>7
    <3> QED BY <1>1, <1>5, <2>2, <2>3, <3>1, <3>2, <3>3, <3>4
  <2>4. ASSUME p # x, ~Waits(p)'
        PROVE  /\ Setting(p) \in DOMAIN m' /\ m'[Setting(p)] = ValueAt(config, p)
               /\ IsReference(Last(p)) => config[p] \in DOMAIN Places(Last(p))
    <3>1. ~Waits(p)
      BY <1>12, <1>14, <2>4
    <3>2. /\ Setting(p) \in DOMAIN m /\ m[Setting(p)] = ValueAt(config, p)
          /\ IsReference(Last(p)) => config[p] \in DOMAIN Places(Last(p))
      BY <1>14, <3>1 DEF WalkInv
    <3>3. Setting(p) \in Paths /\ ~IsReference(Last(Setting(p)))
      BY <2>1, SettingPath
    <3>4. Setting(p) # x
      BY <1>1, <1>5, <3>3
    <3>5. ~Within(base, Setting(p))
      BY <1>9, <1>14, <2>4
    <3> QED BY <1>10, <3>2, <3>3, <3>4, <3>5
  <2> QED BY <2>2, <2>3, <2>4
<1>15. ASSUME NEW p \in DOMAIN config, ~Doubtful(p),
              NEW q \in DOMAIN config, q # p, Setting(q) = Setting(p)
       PROVE  Waits(Front(p))'
  <2>1. Front(p) \in Paths /\ Len(Front(p)) = Len(p) - 1 /\ Len(p) \in Nat \ {0}
    BY <1>4, <1>15, TwiceForms
  <2>2. p \in Paths /\ p # <<>>
    BY <1>4 DEF IsTree
  <2>3. Waits(Front(p))
    BY <1>15 DEF WalkInv
  <2>4. Len(Front(p)) > 0
    BY <1>2, <2>1, <2>3 DEF Waits
  <2>5. Front(p) = Upto(p, Len(p) - 1) /\ Len(p) - 1 \in 1..Len(p) /\ Len(p) - 1 < Len(p)
    BY <2>1, <2>2, <2>4, SplitPath
  <2>6. Front(p) \in DOMAIN config /\ ~Doubtful(Front(p)) /\ config[Front(p)] = "map"
    BY <1>4, <1>15, <2>2, <2>5, TreeUpto, DoubtfulWithin
  <2>7. Front(p) # x
    BY <1>13, <2>6
  <2> QED BY <1>12, <2>3, <2>6, <2>7
<1>16. ASSUME NEW q \in DOMAIN m', ~Doubtful(q)
       PROVE  \/ q \in DOMAIN config /\ Waits(q)'
              \/ \E p \in DOMAIN config : ~Waits(p)' /\ Setting(p) = q
  <2>1. CASE q = base
    <3>1. x \in DOMAIN config /\ ~Doubtful(x) /\ base = Setting(x)
      BY <1>9, <1>16, <2>1
    <3>2. ~Waits(x)'
      BY <1>11, <3>1
    <3> QED BY <2>1, <3>1, <3>2
  <2>2. CASE q # base
    <3>1. q \in DOMAIN m /\ q # x
      BY <1>7, <1>16, <2>2
    <3>2. CASE q \in DOMAIN config /\ Waits(q)
      BY <1>12, <1>16, <3>1, <3>2
    <3>3. ASSUME NEW p \in DOMAIN config, ~Waits(p), Setting(p) = q
          PROVE  ~Waits(p)'
      <4>1. p \in Paths /\ p # <<>>
        BY <1>4 DEF IsTree
      <4>2. Setting(p) \in Paths /\ Setting(p) # <<>> /\ Setting(Setting(p)) = Setting(p)
        BY <4>1, SettingPath
      <4>3. ~Doubtful(p)
        BY <1>16, <3>3, <4>1, <4>2, DoubtfulSame
      <4> QED BY <1>11, <3>3, <4>3
    <3> QED BY <1>16, <3>1, <3>2, <3>3 DEF WalkInv
  <2> QED BY <2>1, <2>2
<1> QED BY <1>1, <1>14, <1>15, <1>16, WalkForm

\* The walk goes on where it was.
LEMMA ReturnWalks ==
  ASSUME TypeInv, WalkInv, Return, phase' = "walk"
  PROVE  WalkInv'
<1> DEFINE T == Len(frames)
<1>1. /\ T \in Nat \ {0} /\ frames[T].left = {} /\ phase = "walk" /\ UNCHANGED <<config, m>>
      /\ Len(frames') = T - 1 /\ \A i \in 1..(T - 1) : frames'[i] = frames[i]
  BY ReturnForms
<1>2. ASSUME NEW p, Waits(p) PROVE Waits(p)'
  <2>1. PICK i \in 1..T : i <= Len(p) /\ Upto(p, i - 1) = frames[i].at /\ p[i] \in frames[i].left
    BY <1>1, <1>2 DEF Waits
  <2>2. i \in 1..(T - 1) /\ i \in 1..Len(frames')
    BY <1>1, <2>1
  <2>3. i <= Len(p) /\ Upto(p, i - 1) = frames'[i].at /\ p[i] \in frames'[i].left
    BY <1>1, <2>1, <2>2
  <2> QED BY <2>2, <2>3 DEF Waits
<1>3. ASSUME NEW p, Waits(p)' PROVE Waits(p)
  <2>1. PICK i \in 1..Len(frames') :
          i <= Len(p) /\ Upto(p, i - 1) = frames'[i].at /\ p[i] \in frames'[i].left
    BY <1>1, <1>3 DEF Waits
  <2>2. i \in 1..(T - 1) /\ i \in 1..T
    BY <1>1, <2>1
  <2>3. i <= Len(p) /\ Upto(p, i - 1) = frames[i].at /\ p[i] \in frames[i].left
    BY <1>1, <2>1, <2>2
  <2> QED BY <2>2, <2>3 DEF Waits
<1>4. \A p : Waits(p)' <=> Waits(p)
  BY <1>2, <1>3
<1> HIDE DEF Waits
<1> QED BY <1>1, <1>4, WalkForm DEF WalkInv

Clear == \A p \in DOMAIN config : ~Doubled(p)

\* In a map that waits, a conflict is one of the configuration.
LEMMA ConflictIsTwice ==
  ASSUME TypeInv, WalkInv, Clear, NEW at \in Paths, Conflict(m, at),
         \A p \in Paths : p # <<>> /\ Front(p) = at => Waits(p)
  PROVE  GivenTwice(config)
<1>1. IsTree(config) /\ IsTree(m)
  BY TypeForm
<1>2. ASSUME NEW k \in KeysOf(m, at)
      PROVE  /\ k \in Keys /\ Append(at, k) \in DOMAIN config
             /\ Setting(Append(at, k)) = Append(at, <<Head(k)>>) /\ Last(Append(at, k)) = k
  <2>1. PICK r : r = Append(at, k)
    OBVIOUS
  <2>2. k \in Keys /\ r \in DOMAIN m
    BY <1>1, <2>1, KeysOfTree
  <2>3. r \in Paths /\ r # <<>> /\ Front(r) = at /\ Last(r) = k
    BY <2>1, <2>2, AppendPath
  <2>4. ~Doubtful(r)
    BY DEF Doubtful, Clear
  <2>5. ASSUME NEW p \in DOMAIN config, ~Waits(p), Setting(p) = r PROVE FALSE
    <3>1. p \in Paths /\ p # <<>>
      BY <1>1 DEF IsTree
    <3>2. Front(p) = at
      BY <2>3, <2>5, <3>1, SettingPath
    <3> QED BY <2>5, <3>1, <3>2
  <2>6. r \in DOMAIN config
    BY <2>2, <2>4, <2>5 DEF WalkInv
  <2> QED BY <2>1, <2>2, <2>3, <2>6 DEF Setting
<1>3. PICK key \in KeysOf(m, at), l \in KeysOf(m, at) :
        /\ IsReference(key)
        /\ l = Base(key) \/ \E other \in SecretSuffixes \ {Last(key)} : l = Append(Base(key), other)
  BY DEF Conflict
<1>4. key \in Keys /\ l \in Keys /\ Base(key) \in Keys
  BY <1>2, <1>3, KeyForms
<1>5. l # key /\ Head(l) = Head(key)
  <2>1. CASE l = Base(key)
    BY <1>3, <1>4, <2>1, KeyForms
  <2>2. ASSUME NEW other \in SecretSuffixes \ {Last(key)}, l = Append(Base(key), other)
        PROVE  l # key /\ Head(l) = Head(key)
    <3>1. PICK b : b = Base(key)
      OBVIOUS
    <3>2. b \in Seq(Names \cup SecretSuffixes) /\ Len(b) \in Nat \ {0} /\ Head(b) = b[1] /\ Head(b) = Head(key)
      BY <1>3, <1>4, <3>1, KeyForms DEF Keys
    <3>3. l[1] = b[1] /\ Len(l) = Len(b) + 1 /\ l[Len(b) + 1] = other
      BY <2>2, <3>1, <3>2
    <3>4. Head(l) = l[1]
      BY <1>4, KeyForms
    <3>5. Last(l) = other
      BY <3>3 DEF Last
    <3> QED BY <2>2, <3>2, <3>3, <3>4, <3>5
  <2> QED BY <1>3, <2>1, <2>2
<1>6. Append(at, key) # Append(at, l)
  BY <1>2, <1>5
<1> QED BY <1>2, <1>5, <1>6 DEF GivenTwice

\* When nothing waits any more, every field has its value, and Load accepts the
\* tree exactly if it accepts what the configuration means.
LEMMA Ended ==
  ASSUME TypeInv, WalkInv, \A p : ~Waits(p)
  PROVE  /\ \A p \in DOMAIN config : ~Doubtful(p) =>
              Setting(p) \in DOMAIN m /\ m[Setting(p)] = ValueAt(config, p)
         /\ Clear => (Meaningful(config) <=> Accepts(m))
<1>1. \A p \in DOMAIN config : ~Doubtful(p) =>
        Setting(p) \in DOMAIN m /\ m[Setting(p)] = ValueAt(config, p)
  BY DEF WalkInv
<1>2. ASSUME Clear PROVE Meaningful(config) <=> Accepts(m)
  <2>1. \A q : ~Doubtful(q)
    BY <1>2 DEF Clear, Doubtful
  <2>2. ~GivenTwice(config)
    BY <2>1 DEF WalkInv, GivenTwice
  <2>3. ~Dangling(config)
    BY <2>1 DEF WalkInv, Dangling
  <2>4. DOMAIN Resolved(config) = DOMAIN m
    <3>1. DOMAIN Resolved(config) = {Setting(p) : p \in DOMAIN config}
      BY DEF Resolved
    <3>2. \A q \in DOMAIN m : \E p \in DOMAIN config : Setting(p) = q
      BY <2>1 DEF WalkInv
    <3> QED BY <1>1, <2>1, <3>1, <3>2
  <2>5. ASSUME NEW s \in DOMAIN m PROVE Resolved(config)[s] = m[s]
    <3>1. \E p \in DOMAIN config : Setting(p) = s
      BY <2>1 DEF WalkInv
    <3> DEFINE p == CHOOSE p \in DOMAIN config : Setting(p) = s
    <3>2. p \in DOMAIN config /\ Setting(p) = s
      BY <3>1
    <3>3. Resolved(config)[s] = ValueAt(config, p)
      BY <3>1 DEF Resolved
    <3> HIDE DEF p
    <3> QED BY <1>1, <2>1, <3>2, <3>3
  <2>6. Accepts(Resolved(config)) <=> Accepts(m)
    BY <2>4, <2>5 DEF Accepts
  <2> QED BY <2>2, <2>3, <2>6 DEF Meaningful
<1> QED BY <1>1, <1>2

OrderInv == TypeInv /\ OrderIrrelevant /\ (phase \in {"load", "walk"} => WalkInv)

\* Before the walk, everything waits.
LEMMA OrderInit == Init => OrderInv
<1> SUFFICES ASSUME Init PROVE OrderInv
  OBVIOUS
<1>1. m = config /\ phase = "load"
  BY DEF Init
<1>2. \A p : Waits(p)
  BY <1>1 DEF Waits
<1>3. OrderIrrelevant
  BY <1>1 DEF OrderIrrelevant
<1> QED BY <1>1, <1>2, <1>3, TypeInit DEF OrderInv, WalkInv

\* What a step to the end of the program has to establish.
LEMMA OrderForm ==
  ASSUME UNCHANGED <<config, m>>, phase' \in {"ok", "error"},
         Clear => (phase' = "ok" <=> Meaningful(config)),
         phase' = "ok" => \A p \in DOMAIN config : ~Doubtful(p) =>
           Setting(p) \in DOMAIN m /\ m[Setting(p)] = ValueAt(config, p)
  PROVE  OrderIrrelevant'
<1>1. \A p : Doubtful(p)' <=> Doubtful(p)
  BY DEF Doubtful
<1> HIDE DEF Doubtful
<1> QED BY <1>1 DEF OrderIrrelevant, Clear

\* Every step of the walk accounts for what it has come to.
LEMMA OrderStep == OrderInv /\ [Next]_vars => OrderInv'
<1> SUFFICES ASSUME OrderInv, [Next]_vars
             PROVE  OrderIrrelevant' /\ (phase' \in {"load", "walk"} => WalkInv')
  BY TypeStep DEF OrderInv
<1> DEFINE Goal == OrderIrrelevant' /\ (phase' \in {"load", "walk"} => WalkInv')
<1>0. TypeInv /\ OrderIrrelevant /\ (phase \in {"load", "walk"} => WalkInv)
  BY DEF OrderInv
<1>1. phase' = "walk" => OrderIrrelevant'
  BY DEF OrderIrrelevant
<1>2. CASE Load
  <2>1. phase = "load" /\ UNCHANGED <<config, m>>
    BY <1>0, <1>2, LoadForms
  <2>2. CASE phase' = "walk"
    BY <1>0, <1>1, <1>2, <2>2, LoadWalks
  <2>3. CASE Conflict(m, <<>>) /\ phase' = "error"
    <3>1. \A p : Waits(p)
      BY <2>1 DEF Waits
    <3>2. <<>> \in Paths
      BY DEF Paths
    <3>3. Clear => ~Meaningful(config)
      BY <1>0, <2>1, <2>3, <3>1, <3>2, ConflictIsTwice DEF Meaningful
    <3> QED BY <2>1, <2>3, <3>3, OrderForm
  <2> QED BY <1>0, <1>2, <2>2, <2>3, LoadForms
<1>3. ASSUME NEW key, Descend(key) PROVE Goal
  <2>1. Visits(key) /\ phase = "walk" /\ UNCHANGED <<config, m>>
    BY <1>3 DEF Descend, Visits
  <2>2. CASE phase' = "walk"
    BY <1>0, <1>1, <1>3, <2>1, <2>2, DescendWalks
  <2>3. ASSUME NEW x, x = Append(Top.at, key), Conflict(m, x), phase' = "error" PROVE Goal
    <3>1. x \in Paths
      BY <1>0, <2>1, <2>3, Visited
    <3>2. ASSUME NEW p \in Paths, p # <<>>, Front(p) = x PROVE Waits(p)
      <4>1. Front(p) = Upto(p, Len(p) - 1) /\ Len(Front(p)) = Len(p) - 1 /\ Len(p) \in Nat \ {0}
        BY <3>2, SplitPath
      <4>2. Len(p) - 1 = Len(x) /\ Len(p) >= Len(x)
        BY <3>2, <4>1
      <4>3. Within(x, p)
        BY <3>2, <4>1, <4>2 DEF Within
      <4> QED BY <1>0, <2>1, <2>3, <4>3, VisitWaits
    <3>3. Clear => ~Meaningful(config)
      BY <1>0, <2>1, <2>3, <3>1, <3>2, ConflictIsTwice DEF Meaningful
    <3> QED BY <2>1, <2>3, <3>3, OrderForm
  <2> QED BY <1>0, <1>3, <2>2, <2>3, DescendForms
<1>4. ASSUME NEW key, NEW seen \in BOOLEAN, Resolve(key, seen) PROVE Goal
  <2>1. phase = "walk" /\ phase' = "walk"
    BY <1>4 DEF Resolve, Visits
  <2> QED BY <1>0, <1>1, <1>4, <2>1, ResolveWalks
<1>5. ASSUME NEW key, ResolveFails(key) PROVE Goal
  <2>1. PICK x : x = Append(Top.at, key)
    OBVIOUS
  <2>2. /\ Visits(key) /\ phase = "walk" /\ IsReference(key) /\ m[x] \notin DOMAIN Places(key)
        /\ phase' = "error" /\ UNCHANGED <<config, m>>
    BY <1>5, <2>1 DEF ResolveFails, Visits
  <2>3. x \in DOMAIN m /\ Last(x) = key /\ IsTree(config)
    BY <1>0, <2>1, <2>2, Visited, AppendPath, TypeForm
  <2>4. ASSUME Clear PROVE Dangling(config)
    <3>1. ~Doubtful(x)
      BY <2>4 DEF Clear, Doubtful
    <3>2. ASSUME NEW p \in DOMAIN config, Setting(p) = x PROVE FALSE
      <4>1. p \in Paths /\ p # <<>>
        BY <2>3 DEF IsTree
      <4> QED BY <2>2, <2>3, <3>2, <4>1, SettingPath
    <3>3. x \in DOMAIN config /\ m[x] = config[x]
      BY <1>0, <2>2, <2>3, <3>1, <3>2 DEF WalkInv
    <3> QED BY <2>2, <2>3, <3>3 DEF Dangling
  <2> QED BY <2>2, <2>4, OrderForm DEF Meaningful
<1>6. CASE Return
  <2>1. /\ Len(frames) \in Nat \ {0} /\ frames[Len(frames)].left = {} /\ phase = "walk"
        /\ UNCHANGED <<config, m>>
        /\ phase' = IF Len(frames) > 1 THEN "walk" ELSE IF Accepts(m) THEN "ok" ELSE "error"
    BY <1>0, <1>6, ReturnForms
  <2>2. CASE phase' = "walk"
    BY <1>0, <1>1, <1>6, <2>1, <2>2, ReturnWalks
  <2>3. CASE phase' # "walk"
    <3>1. \A i \in 1..Len(frames) : i = Len(frames)
      BY <2>1, <2>3
    <3>2. \A p : ~Waits(p)
      BY <2>1, <3>1 DEF Waits
    <3>3. /\ Clear => (Meaningful(config) <=> Accepts(m))
          /\ \A p \in DOMAIN config : ~Doubtful(p) =>
               Setting(p) \in DOMAIN m /\ m[Setting(p)] = ValueAt(config, p)
      BY <1>0, <2>1, <3>2, Ended
    <3>4. phase' = IF Accepts(m) THEN "ok" ELSE "error"
      BY <2>1, <2>3
    <3> QED BY <2>1, <3>3, <3>4, OrderForm
  <2> QED BY <2>2, <2>3
<1>7. CASE UNCHANGED vars
  <2>1. \A p : Doubtful(p)' <=> Doubtful(p)
    BY <1>7 DEF vars, Doubtful
  <2>2. \A p : Waits(p)' <=> Waits(p)
    BY <1>7 DEF vars, Waits
  <2> HIDE DEF Doubtful, Waits
  <2>3. OrderIrrelevant'
    BY <1>0, <1>7, <2>1 DEF vars, OrderIrrelevant
  <2>4. WalkInv => WalkInv'
    BY <1>7, <2>1, <2>2 DEF vars, WalkInv
  <2> QED BY <1>0, <1>7, <2>3, <2>4 DEF vars
<1> QED BY <1>2, <1>3, <1>4, <1>5, <1>6, <1>7 DEF Next, Loaded

\* Whatever is in the configuration, and in whatever order its maps are walked:
\* it is accepted exactly if it has a meaning, and then has that meaning, where
\* no key with several suffixes speaks of the field.
THEOREM OrderCorrect == Spec => []OrderIrrelevant
  <1>1. OrderInv => OrderIrrelevant
    BY DEF OrderInv
  <1> QED BY OrderInit, OrderStep, <1>1, PTL DEF Spec
=============================================================================
