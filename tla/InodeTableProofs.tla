-------------------------- MODULE InodeTableProofs --------------------------
(* TableSound and ListingCurrent of the inode table, for any number of        *)
(* threads, directories, files, handles and requests, and whether or not      *)
(* directories are renamed while others work inside them.                     *)
EXTENDS InodeTable, FiniteSetTheorems, SequenceTheorems, TLAPS

Names == Dirs \cup Files

-----------------------------------------------------------------------------
(* Paths: at most a directory and a file in it.                              *)

LEMMA RelIs ==
  ASSUME NEW r \in Rels
  PROVE  /\ r \in Seq(Names) /\ Len(r) \in Nat /\ Len(r) <= 2
         /\ Len(r) > 0 => r[1] \in Dirs
         /\ Len(r) = 2 => r[2] \in Files
<1>1. CASE r = <<>>
  BY <1>1
<1>2. CASE \E d \in Dirs : r = <<d>>
  BY <1>2 DEF Names
<1>3. CASE \E d \in Dirs, f \in Files : r = <<d, f>>
  BY <1>3 DEF Names
<1> QED BY <1>1, <1>2, <1>3 DEF Rels

LEMMA RelFrom ==
  ASSUME NEW r \in Seq(Names), Len(r) <= 2, Len(r) > 0 => r[1] \in Dirs, Len(r) = 2 => r[2] \in Files
  PROVE  r \in Rels
<1>1. CASE Len(r) = 0
  BY <1>1, EmptySeq DEF Rels
<1>2. CASE Len(r) = 1
  <2>1. r = <<r[1]>>
    BY <1>2
  <2> QED BY <1>2, <2>1 DEF Rels
<1>3. CASE Len(r) = 2
  <2>1. r = <<r[1], r[2]>>
    BY <1>3
  <2> QED BY <1>3, <2>1 DEF Rels
<1>4. Len(r) = 0 \/ Len(r) = 1 \/ Len(r) = 2
  <2>1. Len(r) \in Nat
    OBVIOUS
  <2>2. \A n \in Nat : n <= 2 => n = 0 \/ n = 1 \/ n = 2
    OBVIOUS
  <2> QED BY <2>1, <2>2
<1> QED BY <1>1, <1>2, <1>3, <1>4, Zenon

LEMMA EmptyRel ==
  /\ <<>> \in Rels /\ Len(<<>>) = 0
  /\ \A r \in Rels : Len(r) = 0 <=> r = <<>>
BY RelIs, EmptySeq DEF Rels

\* A name below a directory of the top, or a directory at the top.
LEMMA ChildRel ==
  ASSUME NEW r \in Rels, NEW n,
         \/ r = <<>> /\ n \in Dirs
         \/ Len(r) = 1 /\ n \in Files
  PROVE  Append(r, n) \in Rels /\ Append(r, n) # <<>> /\ Len(Append(r, n)) = Len(r) + 1
<1>1. r \in Seq(Names) /\ n \in Names /\ Len(<<>>) = 0
  BY RelIs, EmptyRel DEF Names
<1> DEFINE c == Append(r, n)
<1>2. /\ c \in Seq(Names) /\ c # <<>> /\ Len(c) = Len(r) + 1
      /\ \A i \in 1 .. Len(r) : c[i] = r[i]
      /\ c[Len(r) + 1] = n
  BY <1>1, AppendProperties
<1>3. c \in Rels
  <2> HIDE DEF c
  <2>1. CASE r = <<>>
    <3>1. Len(c) = 1 /\ c[1] = n /\ n \in Dirs
      BY <1>1, <1>2, <2>1
    <3> QED BY <1>2, <3>1, RelFrom
  <2>2. CASE Len(r) = 1 /\ n \in Files
    <3>1. r[1] \in Dirs
      BY <2>2, RelIs
    <3>2. Len(c) = 2 /\ c[1] = r[1] /\ c[2] = n
      BY <1>2, <2>2
    <3>3. Len(c) <= 2
      BY <3>2
    <3>4. c[1] \in Dirs /\ c[2] \in Files
      BY <2>2, <3>1, <3>2
    <3> QED BY <1>2, <3>3, <3>4, RelFrom
  <2> QED BY <2>1, <2>2
<1> QED BY <1>2, <1>3

LEMMA ParentRel ==
  ASSUME NEW r \in Rels, r # <<>>
  PROVE  Parent(r) \in Rels /\ Len(Parent(r)) = Len(r) - 1
<1>1. r \in Seq(Names) /\ Len(r) \in Nat /\ Len(r) > 0 /\ Len(r) <= 2 /\ r[1] \in Dirs
  BY RelIs, EmptyRel
<1> DEFINE p == SubSeq(r, 1, Len(r) - 1)
<1>2. p \in Seq(Names) /\ Len(p) = Len(r) - 1 /\ \A i \in 1 .. Len(r) - 1 : p[i] = r[i]
  <2>1. \A i \in 1 .. Len(r) - 1 : r[i] \in Names
    BY <1>1, ElementOfSeq
  <2>2. /\ p \in Seq(Names)
        /\ Len(p) = IF 1 <= Len(r) - 1 THEN Len(r) - 1 - 1 + 1 ELSE 0
        /\ \A i \in 1 .. Len(r) - 1 - 1 + 1 : p[i] = r[1 + i - 1]
    BY <1>1, <2>1, SubSeqProperties
  <2> HIDE DEF p
  <2>3. Len(p) = Len(r) - 1
    <3>1. \A n \in Nat : n > 0 => (IF 1 <= n - 1 THEN n - 1 - 1 + 1 ELSE 0) = n - 1
      OBVIOUS
    <3> QED BY <1>1, <2>2, <3>1
  <2>4. ASSUME NEW i \in 1 .. Len(r) - 1 PROVE p[i] = r[i]
    <3>1. i \in 1 .. Len(r) - 1 - 1 + 1 /\ 1 + i - 1 = i
      BY <1>1, <2>4
    <3> QED BY <2>2, <3>1
  <2> QED BY <2>2, <2>3, <2>4
<1>3. p \in Rels
  <2> HIDE DEF p
  <2>1. Len(p) > 0 => p[1] \in Dirs
    BY <1>1, <1>2
  <2>2. Len(p) <= 2 /\ Len(p) # 2
    BY <1>1, <1>2
  <2> QED BY <1>2, <2>1, <2>2, RelFrom
<1> QED BY <1>2, <1>3 DEF Parent, Front

\* A rename to a path of the same depth keeps the depth of what it moves, and
\* moves different paths to different ones.
LEMMA MovedRel ==
  ASSUME NEW from \in Rels, NEW to \in Rels, from # <<>>, Len(to) = Len(from)
  PROVE  /\ \A r \in Rels : IsPrefix(from, r) =>
              Moved(r, from, to) \in Rels /\ Len(Moved(r, from, to)) = Len(r) /\ Moved(r, from, to) # <<>>
         /\ \A r, s \in Rels : IsPrefix(from, r) /\ IsPrefix(from, s) /\ Moved(r, from, to) = Moved(s, from, to)
              => r = s
<1> DEFINE tail(r) == SubSeq(r, Len(from) + 1, Len(r))
<1>1. /\ from \in Seq(Names) /\ to \in Seq(Names)
      /\ Len(from) \in Nat /\ Len(from) > 0 /\ Len(from) <= 2 /\ Len(to) = Len(from)
      /\ to[1] \in Dirs /\ (Len(to) = 2 => to[2] \in Files)
  <2>1. to \in Seq(Names) /\ (Len(to) > 0 => to[1] \in Dirs) /\ (Len(to) = 2 => to[2] \in Files)
    BY RelIs
  <2>2. from \in Seq(Names) /\ Len(from) \in Nat /\ Len(from) > 0 /\ Len(from) <= 2
    BY RelIs, EmptyRel
  <2> QED BY <2>1, <2>2
<1>2. ASSUME NEW r \in Rels, IsPrefix(from, r)
      PROVE  /\ r \in Seq(Names) /\ Len(r) \in Nat /\ Len(from) <= Len(r) /\ Len(r) <= 2
             /\ tail(r) \in Seq(Names) /\ Len(tail(r)) = Len(r) - Len(from)
             /\ \A i \in 1 .. Len(r) - Len(from) : tail(r)[i] = r[Len(from) + i]
             /\ Moved(r, from, to) \in Seq(Names)
             /\ Len(Moved(r, from, to)) = Len(r)
             /\ \A i \in 1 .. Len(r) : Moved(r, from, to)[i] = IF i <= Len(from) THEN to[i] ELSE r[i]
  <2>1. r \in Seq(Names) /\ Len(r) \in Nat /\ Len(from) <= Len(r) /\ Len(r) <= 2
    BY <1>1, <1>2, RelIs DEF IsPrefix
  <2>2. \A i \in Len(from) + 1 .. Len(r) : r[i] \in Names
    BY <1>1, <2>1, ElementOfSeq
  <2>3. /\ tail(r) \in Seq(Names)
        /\ Len(tail(r)) = IF Len(from) + 1 <= Len(r) THEN Len(r) - (Len(from) + 1) + 1 ELSE 0
        /\ \A i \in 1 .. Len(r) - (Len(from) + 1) + 1 : tail(r)[i] = r[Len(from) + 1 + i - 1]
    BY <1>1, <2>1, <2>2, SubSeqProperties
  <2>4. /\ Len(tail(r)) = Len(r) - Len(from)
        /\ \A i \in 1 .. Len(r) - Len(from) : tail(r)[i] = r[Len(from) + i]
    BY <1>1, <2>1, <2>3
  <2>5. /\ to \o tail(r) \in Seq(Names)
        /\ Len(to \o tail(r)) = Len(to) + Len(tail(r))
        /\ \A i \in 1 .. Len(to) + Len(tail(r)) :
              (to \o tail(r))[i] = IF i <= Len(to) THEN to[i] ELSE tail(r)[i - Len(to)]
    <3> HIDE DEF tail
    <3> QED BY <1>1, <2>3, ConcatProperties
  <2>6. Moved(r, from, to) = to \o tail(r)
    BY DEF Moved
  <2>7. Len(to) + Len(tail(r)) = Len(r)
    BY <1>1, <2>1, <2>4
  <2>8. ASSUME NEW i \in 1 .. Len(r)
        PROVE  (to \o tail(r))[i] = IF i <= Len(from) THEN to[i] ELSE r[i]
    <3> HIDE DEF tail
    <3>1. CASE i <= Len(from)
      BY <1>1, <2>5, <2>7, <2>8, <3>1
    <3>2. CASE i > Len(from)
      <4>1. i - Len(to) \in 1 .. Len(r) - Len(from) /\ Len(from) + (i - Len(to)) = i
        BY <1>1, <2>1, <2>8, <3>2
      <4>2. tail(r)[i - Len(to)] = r[i]
        BY <2>4, <4>1
      <4> QED BY <1>1, <2>5, <2>7, <2>8, <3>2, <4>2
    <3>3. i <= Len(from) \/ i > Len(from)
      BY <1>1, <2>1, <2>8
    <3> QED BY <3>1, <3>2, <3>3
  <2> HIDE DEF tail
  <2> QED BY <2>1, <2>3, <2>4, <2>5, <2>6, <2>7, <2>8
<1>3. ASSUME NEW r \in Rels, IsPrefix(from, r)
      PROVE  Moved(r, from, to) \in Rels /\ Len(Moved(r, from, to)) = Len(r) /\ Moved(r, from, to) # <<>>
  <2>1. /\ r \in Seq(Names) /\ Len(r) \in Nat /\ Len(from) <= Len(r) /\ Len(r) <= 2 /\ r[1] \in Dirs /\ (Len(r) = 2 => r[2] \in Files)
    BY <1>1, <1>2, <1>3, RelIs
  <2>2. Moved(r, from, to)[1] \in Dirs
    BY <1>1, <1>2, <1>3, <2>1
  <2>3. Len(r) = 2 => Moved(r, from, to)[2] \in Files
    BY <1>1, <1>2, <1>3, <2>1
  <2>4. Moved(r, from, to) \in Seq(Names) /\ Len(Moved(r, from, to)) = Len(r) /\ Len(r) \in Nat /\ Len(r) > 0 /\ Len(r) <= 2
    BY <1>1, <1>2, <1>3, <2>1
  <2> QED BY <2>2, <2>3, <2>4, RelFrom, EmptyRel
<1>4. ASSUME NEW r \in Rels, NEW s \in Rels, IsPrefix(from, r), IsPrefix(from, s),
             Moved(r, from, to) = Moved(s, from, to)
      PROVE  r = s
  <2>1. Len(r) = Len(s) /\ r \in Seq(Names) /\ s \in Seq(Names) /\ Len(r) \in Nat /\ Len(from) <= Len(r) /\ Len(r) <= 2
    BY <1>2, <1>4
  <2>2. \A i \in 1 .. Len(from) : r[i] = from[i] /\ s[i] = from[i]
    <3>1. /\ SubSeq(from, 1, Len(from)) = SubSeq(r, 1, Len(from))
          /\ SubSeq(from, 1, Len(from)) = SubSeq(s, 1, Len(from))
      BY <1>4 DEF IsPrefix
    <3>2. /\ \A i \in 1 .. Len(from) : from[i] \in Names
          /\ \A i \in 1 .. Len(from) : r[i] \in Names
          /\ \A i \in 1 .. Len(from) : s[i] \in Names
      BY <1>1, <2>1, ElementOfSeq
    <3>3. \A i \in 1 .. Len(from) - 1 + 1 : SubSeq(from, 1, Len(from))[i] = from[1 + i - 1]
      BY <1>1, <3>2, SubSeqProperties
    <3>4. \A i \in 1 .. Len(from) - 1 + 1 : SubSeq(r, 1, Len(from))[i] = r[1 + i - 1]
      BY <1>1, <3>2, SubSeqProperties
    <3>5. \A i \in 1 .. Len(from) - 1 + 1 : SubSeq(s, 1, Len(from))[i] = s[1 + i - 1]
      BY <1>1, <3>2, SubSeqProperties
    <3> QED BY <1>1, <3>1, <3>3, <3>4, <3>5
  <2>3. \A i \in 1 .. Len(r) : i > Len(from) => r[i] = s[i]
    <3>1. \A i \in 1 .. Len(r) : Moved(r, from, to)[i] = IF i <= Len(from) THEN to[i] ELSE r[i]
      BY <1>2, <1>4
    <3>2. \A i \in 1 .. Len(r) : Moved(s, from, to)[i] = IF i <= Len(from) THEN to[i] ELSE s[i]
      BY <1>2, <1>4, <2>1
    <3> QED BY <1>1, <1>4, <3>1, <3>2
  <2>4. \A i \in 1 .. Len(r) : r[i] = s[i]
    BY <1>1, <2>1, <2>2, <2>3
  <2> QED BY <2>1, <2>4, SeqEqual
<1> QED BY <1>3, <1>4

\* A path is at or below itself; so is what is strictly below.
LEMMA PrefixRel ==
  \A r, s \in Rels : IsPrefix(r, r) /\ (IsStrictPrefix(r, s) => IsPrefix(r, s))
BY RelIs DEF IsPrefix, IsStrictPrefix

-----------------------------------------------------------------------------
(* The operations on the table, for any table that is sound.                 *)

Sound(t) ==
  /\ DOMAIN t = {"inodes", "paths", "ver", "looks", "drefs", "next"}
  /\ t.next \in Nat /\ t.next > Root
  /\ DOMAIN t.inodes \subseteq Rels
  /\ DOMAIN t.paths \subseteq Root .. t.next - 1
  /\ DOMAIN t.ver = DOMAIN t.paths
  /\ \A i \in DOMAIN t.paths : t.paths[i] \in Rels /\ (t.paths[i] = <<>> => i = Root)
  /\ \A r \in DOMAIN t.inodes : t.inodes[r] \in DOMAIN t.paths /\ t.paths[t.inodes[r]] = r
  /\ <<>> \in DOMAIN t.inodes /\ t.inodes[<<>>] = Root
  /\ DOMAIN t.looks \subseteq DOMAIN t.paths /\ DOMAIN t.drefs \subseteq DOMAIN t.paths
  /\ \A i \in DOMAIN t.looks : t.looks[i] \in Nat \ {0}
  /\ \A i \in DOMAIN t.drefs : t.drefs[i] \in Nat \ {0} /\ i # Root
\* Nothing is kept that nobody refers to.
Kept(t) == \A i \in DOMAIN t.paths \ {Root} : i \in DOMAIN t.looks \cup DOMAIN t.drefs
\* Numbers are not used again, and an inode stays at its depth.
Follows(t, u) ==
  /\ t.next <= u.next
  /\ DOMAIN u.paths \subseteq DOMAIN t.paths \cup (t.next .. u.next - 1)
  /\ \A i \in DOMAIN t.paths \cap DOMAIN u.paths : Len(u.paths[i]) = Len(t.paths[i])

LEMMA InoForPathSound ==
  ASSUME NEW t, Sound(t), NEW rel \in Rels
  PROVE  LET u == InoForPath(t, rel)
         IN /\ Sound(u) /\ Follows(t, u) /\ u.looks = t.looks /\ u.drefs = t.drefs
            /\ u.next <= t.next + 1
            /\ rel \in DOMAIN u.inodes
            /\ \A i \in DOMAIN u.paths : i \in DOMAIN t.paths \/ i = u.inodes[rel]
<1> DEFINE u == InoForPath(t, rel)
<1>1. CASE rel \in DOMAIN t.inodes
  BY <1>1 DEF InoForPath, Sound, Follows
<1>2. CASE rel \notin DOMAIN t.inodes
  <2>1. /\ DOMAIN u = {"inodes", "paths", "ver", "looks", "drefs", "next"}
        /\ u.inodes = With(t.inodes, rel, t.next) /\ u.paths = With(t.paths, t.next, rel)
        /\ u.ver = With(t.ver, t.next, 0) /\ u.looks = t.looks /\ u.drefs = t.drefs
        /\ u.next = t.next + 1
    BY <1>2 DEF InoForPath, Sound
  <2>2. t.next \notin DOMAIN t.paths /\ rel # <<>>
    BY <1>2 DEF Sound
  <2> HIDE DEF u
  <2>3. Sound(u)
    BY <2>1, <2>2 DEF Sound, With
  <2>4. Follows(t, u)
    BY <2>1, <2>2 DEF Sound, Follows, With
  <2>5. rel \in DOMAIN u.inodes /\ \A i \in DOMAIN u.paths : i \in DOMAIN t.paths \/ i = u.inodes[rel]
    BY <2>1 DEF With
  <2>6. u.next <= t.next + 1
    BY <2>1 DEF Sound
  <2> QED BY <2>1, <2>3, <2>4, <2>5, <2>6 DEF u
<1> QED BY <1>1, <1>2

LEMMA AddLookupSound ==
  ASSUME NEW t, Sound(t), NEW i \in DOMAIN t.paths
  PROVE  LET u == AddLookup(t, i)
         IN /\ Sound(u) /\ Follows(t, u) /\ u.drefs = t.drefs /\ u.next = t.next
            /\ u.inodes = t.inodes /\ u.paths = t.paths
            /\ \A k : Count(u.looks, k) = Count(t.looks, k) + (IF k = i THEN 1 ELSE 0)
            /\ DOMAIN u.looks = DOMAIN t.looks \cup {i}
<1> DEFINE u == AddLookup(t, i)
<1>1. /\ DOMAIN u = {"inodes", "paths", "ver", "looks", "drefs", "next"}
      /\ u.inodes = t.inodes /\ u.paths = t.paths /\ u.ver = t.ver /\ u.drefs = t.drefs /\ u.next = t.next
      /\ u.looks = With(t.looks, i, Count(t.looks, i) + 1)
  BY DEF AddLookup, Sound
<1> HIDE DEF u
<1>2. Count(t.looks, i) \in Nat
  BY DEF Sound, Count
<1>3. Sound(u)
  BY <1>1, <1>2 DEF Sound, With
<1>4. Follows(t, u)
  BY <1>1 DEF Sound, Follows
<1>5. \A k : Count(t.looks, k) \in Nat
  BY DEF Sound, Count
<1>6. \A k : Count(u.looks, k) = Count(t.looks, k) + (IF k = i THEN 1 ELSE 0)
  <2> TAKE k
  <2>1. CASE k = i
    BY <1>1, <1>2, <2>1 DEF Count, With
  <2>2. CASE k # i
    BY <1>1, <1>5, <2>2 DEF Count, With
  <2> QED BY <2>1, <2>2
<1>7. DOMAIN u.looks = DOMAIN t.looks \cup {i}
  BY <1>1 DEF With
<1> QED BY <1>1, <1>3, <1>4, <1>6, <1>7 DEF u

LEMMA DropSound ==
  ASSUME NEW t, Sound(t), NEW i
  PROVE  LET u == DropUnreferenced(t, i)
         IN /\ Sound(u) /\ Follows(t, u) /\ u.looks = t.looks /\ u.drefs = t.drefs /\ u.next = t.next
            /\ DOMAIN u.paths \subseteq DOMAIN t.paths
            /\ i \in DOMAIN u.paths \ {Root} => i \in DOMAIN u.looks \cup DOMAIN u.drefs
<1> DEFINE u == DropUnreferenced(t, i)
<1>1. CASE i = Root \/ i \in DOMAIN t.looks \/ i \in DOMAIN t.drefs \/ i \notin DOMAIN t.paths
  <2>1. u = t
    BY <1>1 DEF DropUnreferenced
  <2>2. Follows(t, t)
    BY DEF Follows, Sound
  <2> QED BY <1>1, <2>1, <2>2
<1>2. CASE ~(i = Root \/ i \in DOMAIN t.looks \/ i \in DOMAIN t.drefs \/ i \notin DOMAIN t.paths)
  <2>1. /\ DOMAIN u = {"inodes", "paths", "ver", "looks", "drefs", "next"}
        /\ u.inodes = Without(t.inodes, {t.paths[i]}) /\ u.paths = Without(t.paths, {i})
        /\ u.ver = Without(t.ver, {i}) /\ u.looks = t.looks /\ u.drefs = t.drefs /\ u.next = t.next
    BY <1>2 DEF DropUnreferenced, Sound
  <2> HIDE DEF u
  <2>2. t.paths[i] # <<>>
    BY <1>2 DEF Sound
  <2>3. Sound(u)
    BY <1>2, <2>1, <2>2 DEF Sound, Without, Restrict
  <2>4. Follows(t, u)
    BY <2>1 DEF Sound, Follows, Without, Restrict
  <2>5. DOMAIN u.paths \subseteq DOMAIN t.paths /\ i \notin DOMAIN u.paths
    BY <2>1 DEF Without, Restrict
  <2> QED BY <2>1, <2>3, <2>4, <2>5 DEF u
<1> QED BY <1>1, <1>2

LEMMA LessCounts ==
  ASSUME NEW f, \A k \in DOMAIN f : f[k] \in Nat \ {0}, NEW i, NEW n \in Nat \ {0}
  PROVE  /\ DOMAIN Less(f, i, n) \subseteq DOMAIN f
         /\ \A k \in DOMAIN Less(f, i, n) : Less(f, i, n)[k] \in Nat \ {0}
         /\ \A k \in DOMAIN f \ {i} : k \in DOMAIN Less(f, i, n)
         /\ \A k : k # i => Count(Less(f, i, n), k) = Count(f, k)
         /\ Count(f, i) <= n => Count(Less(f, i, n), i) = 0
         /\ Count(f, i) > n => Count(Less(f, i, n), i) = Count(f, i) - n
<1>1. CASE Count(f, i) <= n
  <2>1. Less(f, i, n) = Without(f, {i})
    BY <1>1 DEF Less
  <2>2. ~(Count(f, i) > n)
    BY <1>1 DEF Count
  <2> QED BY <1>1, <2>1, <2>2 DEF Without, Restrict, Count
<1>2. CASE ~(Count(f, i) <= n)
  <2>1. i \in DOMAIN f /\ f[i] \in Nat /\ f[i] > n /\ Count(f, i) = f[i]
    BY <1>2 DEF Count
  <2>2. Less(f, i, n) = With(f, i, f[i] - n)
    BY <1>2 DEF Less
  <2>3. f[i] - n \in Nat \ {0}
    BY <2>1
  <2> QED BY <1>2, <2>1, <2>2, <2>3 DEF With, Count
<1> QED BY <1>1, <1>2

LEMMA RemoveLookupSound ==
  ASSUME NEW t, Sound(t), NEW i, NEW n \in Nat \ {0}
  PROVE  LET u == RemoveLookup(t, i, n)
         IN /\ Sound(u) /\ Follows(t, u) /\ u.next = t.next /\ u.drefs = t.drefs
            /\ DOMAIN u.paths \subseteq DOMAIN t.paths
            /\ u.looks = Less(t.looks, i, n)
            /\ Kept(t) => Kept(u)
<1> DEFINE v == [t EXCEPT !.looks = Less(@, i, n)]
           u == RemoveLookup(t, i, n)
<1>1. u = DropUnreferenced(v, i)
  BY DEF RemoveLookup
<1>2. /\ DOMAIN v = {"inodes", "paths", "ver", "looks", "drefs", "next"}
      /\ v.inodes = t.inodes /\ v.paths = t.paths /\ v.ver = t.ver /\ v.drefs = t.drefs /\ v.next = t.next
      /\ v.looks = Less(t.looks, i, n)
  BY DEF Sound
<1> HIDE DEF v
<1>3. /\ DOMAIN v.looks \subseteq DOMAIN t.looks
      /\ \A k \in DOMAIN v.looks : v.looks[k] \in Nat \ {0}
      /\ \A k \in DOMAIN t.looks \ {i} : k \in DOMAIN v.looks
  BY <1>2, LessCounts DEF Sound
<1>4. Sound(v) /\ Follows(t, v)
  BY <1>2, <1>3 DEF Sound, Follows
<1> HIDE DEF u
<1>5. /\ Sound(u) /\ Follows(v, u) /\ u.looks = v.looks /\ u.drefs = v.drefs /\ u.next = v.next
      /\ DOMAIN u.paths \subseteq DOMAIN v.paths
      /\ i \in DOMAIN u.paths \ {Root} => i \in DOMAIN u.looks \cup DOMAIN u.drefs
  BY <1>1, <1>4, DropSound
<1>6. Follows(t, u)
  BY <1>2, <1>5 DEF Follows
<1>7. Kept(t) => Kept(u)
  BY <1>2, <1>3, <1>5 DEF Kept
<1> QED BY <1>2, <1>5, <1>6, <1>7 DEF u

LEMMA AddRefsSound ==
  ASSUME NEW t, Sound(t), NEW ents, ents \subseteq DOMAIN t.paths
  PROVE  LET u == AddRefs(t, ents)
         IN /\ Sound(u) /\ Follows(t, u) /\ u.next = t.next /\ u.looks = t.looks
            /\ u.inodes = t.inodes /\ u.paths = t.paths
            /\ DOMAIN u.drefs = DOMAIN t.drefs \cup (ents \ {Root})
            /\ \A k : k # Root => Count(u.drefs, k) = Count(t.drefs, k) + (IF k \in ents THEN 1 ELSE 0)
<1> DEFINE dr == [i \in DOMAIN t.drefs \cup (ents \ {Root}) |->
                    Count(t.drefs, i) + (IF i \in ents THEN 1 ELSE 0)]
           u == AddRefs(t, ents)
<1>1. /\ DOMAIN u = {"inodes", "paths", "ver", "looks", "drefs", "next"}
      /\ u.inodes = t.inodes /\ u.paths = t.paths /\ u.ver = t.ver /\ u.looks = t.looks /\ u.next = t.next
      /\ u.drefs = dr
  <2>1. u = [t EXCEPT !.drefs = dr]
    BY DEF AddRefs
  <2> HIDE DEF dr, u
  <2> QED BY <2>1 DEF Sound
<1> HIDE DEF u
<1>2. \A k : Count(t.drefs, k) \in Nat /\ (k \in DOMAIN t.drefs => Count(t.drefs, k) > 0)
             /\ (k \notin DOMAIN t.drefs => Count(t.drefs, k) = 0)
  BY DEF Sound, Count
<1>3. DOMAIN u.drefs = DOMAIN t.drefs \cup (ents \ {Root})
  BY <1>1
<1>4. \A k \in DOMAIN u.drefs : u.drefs[k] \in Nat \ {0} /\ k # Root
  <2> SUFFICES ASSUME NEW k \in DOMAIN u.drefs PROVE u.drefs[k] \in Nat \ {0} /\ k # Root
    OBVIOUS
  <2>1. u.drefs[k] = Count(t.drefs, k) + (IF k \in ents THEN 1 ELSE 0)
    BY <1>1
  <2>2. k \in ents \/ Count(t.drefs, k) > 0
    BY <1>2, <1>3
  <2>3. k # Root
    BY <1>3 DEF Sound
  <2> QED BY <1>2, <2>1, <2>2, <2>3
<1>5. DOMAIN u.drefs \subseteq DOMAIN t.paths
  BY <1>3 DEF Sound
<1>6. Sound(u) /\ Follows(t, u)
  <2> HIDE DEF dr
  <2>1. Sound(u)
    BY <1>1, <1>4, <1>5 DEF Sound
  <2>2. Follows(t, u)
    BY <1>1 DEF Sound, Follows
  <2> QED BY <2>1, <2>2
<1>7. \A k : k # Root => Count(u.drefs, k) = Count(t.drefs, k) + (IF k \in ents THEN 1 ELSE 0)
  <2> TAKE k
  <2>1. CASE k \in DOMAIN u.drefs
    BY <1>1, <2>1 DEF Count
  <2>2. CASE k \notin DOMAIN u.drefs /\ k # Root
    <3>1. k \notin DOMAIN t.drefs /\ k \notin ents
      BY <1>3, <2>2
    <3>2. Count(u.drefs, k) = 0 /\ Count(t.drefs, k) = 0
      BY <2>2, <3>1 DEF Count
    <3> QED BY <3>1, <3>2
  <2> QED BY <2>1, <2>2
<1> QED BY <1>1, <1>3, <1>6, <1>7 DEF u

LEMMA RemoveRefsSound ==
  ASSUME NEW t, Sound(t), NEW ents
  PROVE  LET u == RemoveRefs(t, ents)
         IN /\ Sound(u) /\ Follows(t, u) /\ u.next = t.next /\ u.looks = t.looks
            /\ DOMAIN u.paths \subseteq DOMAIN t.paths
            /\ \A k \in DOMAIN t.drefs :
                  Count(u.drefs, k) = Count(t.drefs, k) - (IF k \in ents THEN 1 ELSE 0)
            /\ DOMAIN u.drefs \subseteq DOMAIN t.drefs
            /\ Kept(t) => Kept(u)
<1> DEFINE gone == {i \in ents \ {Root} : Count(t.drefs, i) <= 1}
           less == [t EXCEPT !.drefs = [i \in DOMAIN @ \ gone |-> IF i \in ents THEN @[i] - 1 ELSE @[i]]]
           dead == {i \in (ents \ {Root}) \cap DOMAIN t.paths : i \notin DOMAIN less.looks \cup DOMAIN less.drefs}
           u == RemoveRefs(t, ents)
           dr == [i \in DOMAIN t.drefs \ gone |-> IF i \in ents THEN t.drefs[i] - 1 ELSE t.drefs[i]]
<1>1. /\ DOMAIN u = {"inodes", "paths", "ver", "looks", "drefs", "next"}
      /\ u.inodes = Without(t.inodes, {t.paths[i] : i \in dead})
      /\ u.paths = Without(t.paths, dead) /\ u.ver = Without(t.ver, dead)
      /\ u.looks = t.looks /\ u.next = t.next /\ u.drefs = dr
  BY DEF RemoveRefs, Sound
<1>2. \A i \in dead : i # Root /\ i \in DOMAIN t.paths /\ i \notin DOMAIN t.looks /\ i \notin DOMAIN dr
  BY DEF Sound
<1>3. \A i \in (ents \ {Root}) \cap DOMAIN t.paths : i \in dead \/ i \in DOMAIN t.looks \cup DOMAIN dr
  BY DEF Sound
<1>4. /\ DOMAIN dr \subseteq DOMAIN t.drefs
      /\ \A i \in DOMAIN t.drefs : i \in DOMAIN dr \/ (i \in ents /\ t.drefs[i] <= 1)
      /\ \A i \in DOMAIN dr : /\ dr[i] = IF i \in ents THEN t.drefs[i] - 1 ELSE t.drefs[i]
                              /\ i \in ents => ~(t.drefs[i] <= 1)
  BY DEF Sound, Count
<1> HIDE DEF u, dr, dead, less, gone
<1>5. \A i \in DOMAIN dr : dr[i] \in Nat \ {0} /\ i # Root
  BY <1>4 DEF Sound
<1>6. {t.paths[i] : i \in dead} \cap {<<>>} = {}
  BY <1>2 DEF Sound
<1>7. Sound(u)
  BY <1>1, <1>2, <1>4, <1>5, <1>6 DEF Sound, Without, Restrict
<1>8. Follows(t, u) /\ DOMAIN u.paths \subseteq DOMAIN t.paths
  BY <1>1 DEF Sound, Follows, Without, Restrict
<1>9. Kept(t) => Kept(u)
  BY <1>1, <1>2, <1>3, <1>4 DEF Kept, Without, Restrict
<1>10. ASSUME NEW k \in DOMAIN t.drefs
       PROVE  Count(u.drefs, k) = Count(t.drefs, k) - (IF k \in ents THEN 1 ELSE 0)
  <2>1. Count(t.drefs, k) = t.drefs[k] /\ t.drefs[k] \in Nat \ {0}
    BY DEF Sound, Count
  <2>2. CASE k \in DOMAIN dr
    BY <1>1, <1>4, <2>1, <2>2 DEF Count
  <2>3. CASE k \notin DOMAIN dr
    <3>1. k \in ents /\ t.drefs[k] = 1
      BY <1>4, <2>1, <2>3
    <3>2. Count(u.drefs, k) = 0
      BY <1>1, <2>3 DEF Count
    <3> QED BY <2>1, <3>1, <3>2
  <2> QED BY <2>2, <2>3
<1> QED BY <1>1, <1>4, <1>7, <1>8, <1>9, <1>10 DEF u

LEMMA RemovePathSound ==
  ASSUME NEW t, Sound(t), NEW rel \in Rels, rel # <<>>
  PROVE  LET u == RemovePath(t, rel)
         IN /\ Sound(u) /\ Follows(t, u) /\ u.next = t.next
            /\ DOMAIN u.paths \subseteq DOMAIN t.paths
            /\ \A k \in DOMAIN u.paths : /\ Count(u.looks, k) = Count(t.looks, k)
                                         /\ Count(u.drefs, k) = Count(t.drefs, k)
            /\ rel \notin DOMAIN u.inodes
            /\ Kept(t) => Kept(u)
<1> DEFINE u == RemovePath(t, rel)
           i == t.inodes[rel]
<1>1. CASE rel \notin DOMAIN t.inodes
  <2>1. u = t
    BY <1>1 DEF RemovePath
  <2>2. Follows(t, t)
    BY DEF Follows, Sound
  <2> QED BY <1>1, <2>1, <2>2
<1>2. CASE rel \in DOMAIN t.inodes
  <2>1. /\ DOMAIN u = {"inodes", "paths", "ver", "looks", "drefs", "next"}
        /\ u.inodes = Without(t.inodes, {rel}) /\ u.paths = Without(t.paths, {i})
        /\ u.ver = Without(t.ver, {i}) /\ u.looks = Without(t.looks, {i})
        /\ u.drefs = Without(t.drefs, {i}) /\ u.next = t.next
    BY <1>2 DEF RemovePath, Sound
  <2>2. i \in DOMAIN t.paths /\ t.paths[i] = rel
    BY <1>2 DEF Sound
  <2> HIDE DEF u, i
  <2>3. Sound(u)
    BY <2>1, <2>2 DEF Sound, Without, Restrict
  <2>4. Follows(t, u) /\ DOMAIN u.paths \subseteq DOMAIN t.paths
    BY <2>1 DEF Sound, Follows, Without, Restrict
  <2>5. /\ DOMAIN u.paths = DOMAIN t.paths \ {i} /\ rel \notin DOMAIN u.inodes
        /\ DOMAIN u.looks = DOMAIN t.looks \ {i} /\ DOMAIN u.drefs = DOMAIN t.drefs \ {i}
        /\ \A k \in DOMAIN u.looks : u.looks[k] = t.looks[k]
        /\ \A k \in DOMAIN u.drefs : u.drefs[k] = t.drefs[k]
    BY <2>1 DEF Without, Restrict
  <2>6. \A k \in DOMAIN u.paths : /\ Count(u.looks, k) = Count(t.looks, k)
                                  /\ Count(u.drefs, k) = Count(t.drefs, k)
    BY <2>5 DEF Count
  <2>7. Kept(t) => Kept(u)
    BY <2>5 DEF Kept
  <2> QED BY <2>1, <2>3, <2>4, <2>5, <2>6, <2>7 DEF u
<1> QED BY <1>1, <1>2

LEMMA RemapSound ==
  ASSUME NEW t0, Sound(t0), NEW from \in Rels, NEW to \in Rels, from # <<>>, Len(to) = Len(from)
  PROVE  LET u == Remap(t0, from, to)
         IN /\ Sound(u) /\ Follows(t0, u) /\ u.next = t0.next
            /\ DOMAIN u.paths \subseteq DOMAIN t0.paths
            /\ \A k \in DOMAIN u.paths : /\ Count(u.looks, k) = Count(t0.looks, k)
                                         /\ Count(u.drefs, k) = Count(t0.drefs, k)
            /\ Kept(t0) => Kept(u)
<1> DEFINE t == RemovePath(t0, to)
           rs == MovesWith(t, from) \cup (DOMAIN t.inodes \cap {from})
           is == {t.inodes[r] : r \in rs}
           back(q) == CHOOSE o \in rs : Moved(o, from, to) = q
           new == [q \in {Moved(r, from, to) : r \in rs} |-> t.inodes[back(q)]]
           u == Remap(t0, from, to)
<1>0. to # <<>>
  BY EmptyRel
<1>1. /\ Sound(t) /\ Follows(t0, t) /\ t.next = t0.next
      /\ DOMAIN t.paths \subseteq DOMAIN t0.paths
      /\ \A k \in DOMAIN t.paths : /\ Count(t.looks, k) = Count(t0.looks, k)
                                   /\ Count(t.drefs, k) = Count(t0.drefs, k)
      /\ Kept(t0) => Kept(t)
  BY <1>0, RemovePathSound
<1> HIDE DEF t
<1>2. \A r \in rs : r \in DOMAIN t.inodes /\ r \in Rels /\ IsPrefix(from, r)
  BY <1>1, PrefixRel DEF MovesWith, Sound
<1>3. /\ DOMAIN u = {"inodes", "paths", "ver", "looks", "drefs", "next"}
      /\ u.inodes = Over(new, Without(t.inodes, rs))
      /\ u.paths = [i \in DOMAIN t.paths |-> IF i \in is THEN Moved(t.paths[i], from, to) ELSE t.paths[i]]
      /\ u.ver = [i \in DOMAIN t.ver |-> IF i \in is THEN t.ver[i] + 1 ELSE t.ver[i]]
      /\ u.looks = t.looks /\ u.drefs = t.drefs /\ u.next = t.next
  BY <1>1 DEF Remap, Sound, t
<1> DEFINE ups == [i \in DOMAIN t.paths |-> IF i \in is THEN Moved(t.paths[i], from, to) ELSE t.paths[i]]
<1>4. \A r \in rs : t.inodes[r] \in is /\ t.inodes[r] \in DOMAIN t.paths /\ t.paths[t.inodes[r]] = r
  BY <1>1, <1>2 DEF Sound
<1>5. \A i \in is : i \in DOMAIN t.paths /\ t.paths[i] \in rs /\ t.inodes[t.paths[i]] = i
  BY <1>4
<1>6. \A r \in rs : /\ Moved(r, from, to) \in Rels /\ Len(Moved(r, from, to)) = Len(r)
                    /\ Moved(r, from, to) # <<>>
                    /\ Moved(r, from, to) \in DOMAIN new
                    /\ new[Moved(r, from, to)] = t.inodes[r]
  <2> SUFFICES ASSUME NEW r \in rs
               PROVE  /\ Moved(r, from, to) \in Rels /\ Len(Moved(r, from, to)) = Len(r)
                      /\ Moved(r, from, to) # <<>> /\ Moved(r, from, to) \in DOMAIN new
                      /\ new[Moved(r, from, to)] = t.inodes[r]
    OBVIOUS
  <2>1. /\ Moved(r, from, to) \in Rels /\ Len(Moved(r, from, to)) = Len(r) /\ Moved(r, from, to) # <<>>
    BY <1>2, MovedRel
  <2>2. back(Moved(r, from, to)) \in rs /\ Moved(back(Moved(r, from, to)), from, to) = Moved(r, from, to)
    OBVIOUS
  <2>3. back(Moved(r, from, to)) = r
    <3> HIDE DEF rs, back
    <3> QED BY <1>2, <2>2, MovedRel
  <2>4. Moved(r, from, to) \in DOMAIN new /\ new[Moved(r, from, to)] = t.inodes[back(Moved(r, from, to))]
    OBVIOUS
  <2> QED BY <2>1, <2>3, <2>4
<1>7. \A q \in DOMAIN new : \E r \in rs : q = Moved(r, from, to)
  OBVIOUS
<1> HIDE DEF new, is, rs, u
<1>8. \A i \in DOMAIN t.paths : /\ u.paths[i] \in Rels /\ Len(u.paths[i]) = Len(t.paths[i])
                                /\ u.paths[i] = <<>> => i = Root
  <2> SUFFICES ASSUME NEW i \in DOMAIN t.paths
               PROVE  /\ u.paths[i] \in Rels /\ Len(u.paths[i]) = Len(t.paths[i])
                      /\ u.paths[i] = <<>> => i = Root
    OBVIOUS
  <2>1. CASE i \in is
    <3>1. u.paths[i] = Moved(t.paths[i], from, to)
      BY <1>3, <2>1
    <3> QED BY <1>5, <1>6, <2>1, <3>1
  <2>2. CASE i \notin is
    <3>1. u.paths[i] = t.paths[i]
      BY <1>3, <2>2
    <3> QED BY <1>1, <3>1 DEF Sound
  <2> QED BY <2>1, <2>2
<1>9. DOMAIN u.paths = DOMAIN t.paths /\ DOMAIN u.ver = DOMAIN t.paths
      /\ DOMAIN u.inodes = DOMAIN new \cup (DOMAIN t.inodes \ rs)
  BY <1>1, <1>3 DEF Sound, Over, Without, Restrict
<1>10. \A q \in DOMAIN u.inodes : u.inodes[q] \in DOMAIN u.paths /\ u.paths[u.inodes[q]] = q
  <2> SUFFICES ASSUME NEW q \in DOMAIN u.inodes
               PROVE  u.inodes[q] \in DOMAIN u.paths /\ u.paths[u.inodes[q]] = q
    OBVIOUS
  <2>1. CASE q \in DOMAIN new
    <3>1. PICK r \in rs : q = Moved(r, from, to)
      BY <1>7, <2>1
    <3>2. u.inodes[q] = t.inodes[r]
      BY <1>3, <1>6, <2>1, <3>1 DEF Over
    <3>3. t.inodes[r] \in is /\ t.inodes[r] \in DOMAIN t.paths /\ t.paths[t.inodes[r]] = r
      BY <1>4
    <3>4. u.paths[t.inodes[r]] = Moved(r, from, to)
      BY <1>3, <3>3
    <3> QED BY <1>9, <3>1, <3>2, <3>3, <3>4
  <2>2. CASE q \notin DOMAIN new
    <3>1. q \in DOMAIN t.inodes /\ q \notin rs /\ u.inodes[q] = t.inodes[q]
      BY <1>3, <1>9, <2>2 DEF Over, Without, Restrict
    <3>2. t.inodes[q] \in DOMAIN t.paths /\ t.paths[t.inodes[q]] = q
      BY <1>1, <3>1 DEF Sound
    <3>3. t.inodes[q] \notin is
      BY <1>5, <3>1, <3>2
    <3>4. u.paths[t.inodes[q]] = q
      BY <1>3, <3>2, <3>3
    <3> QED BY <1>9, <3>1, <3>2, <3>4
  <2> QED BY <2>1, <2>2
<1>11. <<>> \in DOMAIN u.inodes /\ u.inodes[<<>>] = Root
  <2>1. <<>> \notin rs
    BY <1>6, <1>2, EmptyRel
  <2>2. <<>> \notin DOMAIN new
    BY <1>6, <1>7
  <2> QED BY <1>1, <1>3, <1>9, <2>1, <2>2 DEF Sound, Over, Without, Restrict
<1>12. DOMAIN u.inodes \subseteq Rels
  BY <1>1, <1>6, <1>7, <1>9 DEF Sound
<1>13. Sound(u)
  BY <1>1, <1>3, <1>8, <1>9, <1>10, <1>11, <1>12 DEF Sound
<1>14. Follows(t0, u)
  BY <1>1, <1>3, <1>8, <1>9 DEF Follows
<1>15. Kept(t0) => Kept(u)
  BY <1>1, <1>3, <1>9 DEF Kept
<1> QED BY <1>1, <1>3, <1>9, <1>13, <1>14, <1>15 DEF u

\* Finitely many things can be numbered from any number on.
LEMMA Numbering ==
  ASSUME NEW S, IsFiniteSet(S), NEW m \in Nat
  PROVE  /\ Cardinality(S) \in Nat
         /\ \E f \in [S -> m .. m + Cardinality(S) - 1] : IsInjective(f)
<1> DEFINE n == Cardinality(S)
<1>1. n \in Nat /\ ExistsBijection(1 .. n, S)
  BY FS_CardinalityType
<1>2. PICK b \in [1 .. n -> S] : \A x \in S : \E k \in 1 .. n : b[k] = x
  BY <1>1 DEF ExistsBijection, Bijection, Surjection, Injection
<1> DEFINE at(x) == CHOOSE k \in 1 .. n : b[k] = x
           f == [x \in S |-> m + at(x) - 1]
<1> HIDE DEF n
<1>3. \A x \in S : at(x) \in 1 .. n /\ b[at(x)] = x
  BY <1>2
<1> HIDE DEF at
<1>4. \A x \in S : m + at(x) - 1 \in m .. m + n - 1
  BY <1>1, <1>3
<1>5. f \in [S -> m .. m + n - 1]
  BY <1>4
<1>6. ASSUME NEW x \in S, NEW y \in S, f[x] = f[y] PROVE x = y
  <2>1. m + at(x) - 1 = m + at(y) - 1
    BY <1>6
  <2>2. at(x) = at(y)
    BY <1>1, <1>3, <2>1
  <2> QED BY <1>3, <2>2
<1>7. IsInjective(f)
  BY <1>6 DEF IsInjective
<1> QED BY <1>1, <1>5, <1>7 DEF n

LEMMA MaterializeSound ==
  ASSUME NEW t, Sound(t), NEW cands \in SUBSET Rels, IsFiniteSet(cands)
  PROVE  LET u == Materialize(t, cands)
         IN /\ Sound(u) /\ Follows(t, u) /\ u.looks = t.looks /\ u.drefs = t.drefs
            /\ DOMAIN t.paths \subseteq DOMAIN u.paths
            /\ \A i \in DOMAIN t.paths : u.paths[i] = t.paths[i]
            /\ DOMAIN t.inodes \subseteq DOMAIN u.inodes
            /\ \A q \in DOMAIN t.inodes : u.inodes[q] = t.inodes[q]
            /\ cands \subseteq DOMAIN u.inodes
            /\ \A i \in DOMAIN u.paths : i \in DOMAIN t.paths \/ i \in {u.inodes[r] : r \in cands}
<1> DEFINE new == cands \ DOMAIN t.inodes
           card == Cardinality(new)
           to == t.next .. t.next + card - 1
           no == CHOOSE f \in [new -> to] : IsInjective(f)
           of == [i \in Range(no) |-> CHOOSE r \in new : no[r] = i]
           zero == [i \in Range(no) |-> 0]
           u == Materialize(t, cands)
<1>1. t.next \in Nat /\ IsFiniteSet(new)
  BY FS_Subset DEF Sound
<1>2. card \in Nat /\ \E f \in [new -> to] : IsInjective(f)
  <2> HIDE DEF new
  <2> QED BY <1>1, Numbering
<1>3. no \in [new -> to] /\ IsInjective(no)
  <2> HIDE DEF new, to
  <2> QED BY <1>2
<1>4. /\ DOMAIN u = {"inodes", "paths", "ver", "looks", "drefs", "next"}
      /\ u.inodes = Over(no, t.inodes) /\ u.paths = Over(of, t.paths) /\ u.ver = Over(zero, t.ver)
      /\ u.looks = t.looks /\ u.drefs = t.drefs /\ u.next = t.next + card
  <2>1. u = [t EXCEPT !.inodes = Over(no, @), !.next = @ + card, !.paths = Over(of, @), !.ver = Over(zero, @)]
    BY DEF Materialize
  <2> HIDE DEF u, no, of, zero, card
  <2> QED BY <2>1 DEF Sound
<1>5. \A r \in new : no[r] \in Range(no) /\ no[r] \in to
  <2> HIDE DEF no, new, to
  <2> QED BY <1>3 DEF Range
<1>6. \A i \in Range(no) : /\ of[i] \in new /\ no[of[i]] = i
                           /\ i \in to
  <2> SUFFICES ASSUME NEW i \in Range(no) PROVE of[i] \in new /\ no[of[i]] = i /\ i \in to
    OBVIOUS
  <2>1. of[i] = CHOOSE r \in new : no[r] = i
    BY DEF of
  <2> HIDE DEF no, new, to, of
  <2>2. \E r \in new : no[r] = i
    BY <1>3 DEF Range
  <2>3. of[i] \in new /\ no[of[i]] = i
    BY <2>1, <2>2
  <2> QED BY <1>5, <2>3
<1>7. \A r \in new : of[no[r]] = r
  <2> HIDE DEF no, new, to, of
  <2> QED BY <1>3, <1>5, <1>6 DEF IsInjective
<1>8. DOMAIN of = Range(no) /\ DOMAIN zero = Range(no) /\ DOMAIN no = new
  BY <1>3
<1>9. \A i \in to : i \notin DOMAIN t.paths /\ i \in Root .. t.next + card - 1 /\ i # Root
  BY <1>2 DEF Sound
<1>10. new \cap DOMAIN t.inodes = {} /\ new \subseteq Rels /\ cands \subseteq new \cup DOMAIN t.inodes
  OBVIOUS
<1> HIDE DEF u, no, of, zero, to, card, new
<1>11. /\ DOMAIN u.paths = Range(no) \cup DOMAIN t.paths
       /\ \A i \in Range(no) : u.paths[i] = of[i]
       /\ \A i \in DOMAIN t.paths : u.paths[i] = t.paths[i]
  BY <1>4, <1>6, <1>8, <1>9 DEF Over
<1>12. /\ DOMAIN u.inodes = new \cup DOMAIN t.inodes
       /\ \A r \in new : u.inodes[r] = no[r]
       /\ \A r \in DOMAIN t.inodes : u.inodes[r] = t.inodes[r]
  BY <1>4, <1>8, <1>10 DEF Over
<1>13. DOMAIN u.ver = DOMAIN u.paths
  BY <1>4, <1>8, <1>11 DEF Over, Sound
<1>14. u.next \in Nat /\ u.next > Root /\ t.next <= u.next
  BY <1>1, <1>2, <1>4 DEF Sound
<1>21. \A i \in to : i \in Root .. u.next - 1 /\ i \in t.next .. u.next - 1
  <2>1. u.next - 1 = t.next + card - 1
    <3>1. u.next = t.next + card
      BY <1>4
    <3> QED BY <1>1, <1>2, <3>1
  <2>2. to = t.next .. u.next - 1
    BY <2>1 DEF to
  <2>3. \A i \in to : i \in Root .. u.next - 1
    BY <1>9, <2>1
  <2> QED BY <2>2, <2>3
<1>15. DOMAIN u.paths \subseteq Root .. u.next - 1
  <2>1. Range(no) \subseteq Root .. u.next - 1
    BY <1>6, <1>21
  <2>2. DOMAIN t.paths \subseteq Root .. u.next - 1
    BY <1>1, <1>14 DEF Sound
  <2> QED BY <1>11, <2>1, <2>2
<1>16. \A i \in DOMAIN u.paths : u.paths[i] \in Rels /\ (u.paths[i] = <<>> => i = Root)
  <2>1. <<>> \notin new
    BY <1>10 DEF Sound
  <2> QED BY <1>6, <1>10, <1>11, <2>1 DEF Sound
<1>17. \A r \in DOMAIN u.inodes : u.inodes[r] \in DOMAIN u.paths /\ u.paths[u.inodes[r]] = r
  BY <1>5, <1>7, <1>11, <1>12 DEF Sound
<1>18. Sound(u)
  BY <1>4, <1>10, <1>11, <1>12, <1>13, <1>14, <1>15, <1>16, <1>17 DEF Sound
<1>19. Follows(t, u)
  <2>1. \A i \in Range(no) : i \in t.next .. u.next - 1
    BY <1>6, <1>21
  <2> QED BY <1>11, <1>14, <2>1 DEF Follows
<1>20. \A i \in DOMAIN u.paths : i \in DOMAIN t.paths \/ i \in {u.inodes[r] : r \in cands}
  <2>1. \A i \in Range(no) : of[i] \in cands /\ u.inodes[of[i]] = i
    BY <1>6, <1>12 DEF new
  <2> QED BY <1>11, <2>1
<1> QED BY <1>4, <1>10, <1>11, <1>12, <1>18, <1>19, <1>20 DEF u

-----------------------------------------------------------------------------
(* The inductive invariant.  The counts follow from who holds a number: the  *)
(* kernel, a forget on its way, a thread between Insert and ReplyEntry, an   *)
(* open listing.  That paths stay paths (at most a directory and a file)     *)
(* needs the depth of what a request names, whatever is renamed meanwhile:   *)
(* a number is not given out twice and a rename keeps the depth.             *)

\* A number that names a directory of the top, or did before it was dropped.
DirNo(i, ps, nx) == i = Root \/ (i \in Root .. nx - 1 /\ (i \in DOMAIN ps => Len(ps[i]) = 1))
\* What a number can be the entry n of directory p.
EntryRight(p, n, i, ps, nx) ==
  /\ DirNo(p, ps, nx) /\ n \in NamesIn(p)
  /\ i \in Root + 1 .. nx - 1 /\ (p = Root => DirNo(i, ps, nx))

InsertRight(j, ps, nx) ==
  /\ DirNo(j.par, ps, nx) /\ j.name \in NamesIn(j.par)
  /\ j.rel \in Rels /\ j.rel # <<>> /\ (j.par = Root => Len(j.rel) = 1)
JobRight(j, ps, nx) ==
  /\ "op" \in DOMAIN j
  /\ j.op \in {"create", "insert"} =>
       InsertRight(j, ps, nx) /\ DOMAIN j = {"op", "par", "par2", "victim", "name", "rel"}
  /\ j.op = "stat" => EntryRight(j.par, j.name, j.ino, ps, nx)
  /\ j.op \in {"remove", "removed"} =>
       j.rel \in Rels /\ j.rel # <<>> /\ DOMAIN j = {"op", "par", "par2", "victim", "name", "rel"}
  /\ j.op \in {"rename", "renamed"} =>
       /\ DOMAIN j = {"op", "par", "par2", "name", "name2", "moved", "victim", "rel", "rel2", "keep"}
       /\ EntryRight(j.par2, j.name2, j.moved, ps, nx)
       /\ j.rel \in Rels /\ j.rel # <<>> /\ j.rel2 \in Rels /\ Len(j.rel2) = Len(j.rel)
  /\ j.op \in {"scan", "commit"} => j.rel \in Rels
  /\ j.op = "commit" => j.cands \in SUBSET Rels /\ \A r \in j.cands : r # <<>> /\ Parent(r) = j.rel

Stats(i, jb) == {t \in Threads : jb[t].op = "stat" /\ jb[t].ino = i}
Opens(i, ds) == {fh \in DOMAIN ds : i \in ds[fh].ents}

TableRight == Sound(T) /\ Kept(T) /\ next <= MaxIno + 1
JobsRight == DOMAIN jobs = Threads /\ \A t \in Threads : JobRight(jobs[t], paths, next)
KernelRight ==
  /\ \A e \in DOMAIN kd : EntryRight(e[1], e[2], kd[e], paths, next)
  /\ DOMAIN knl \subseteq Root .. next - 1 /\ \A i \in DOMAIN knl : knl[i] \in Nat \ {0}
  /\ DOMAIN pend \subseteq Root .. next - 1 /\ \A i \in DOMAIN pend : pend[i] \in Nat \ {0}
DirsRight == IsFiniteSet(DOMAIN dirs) /\ \A fh \in DOMAIN dirs : dirs[fh].ents \subseteq Root .. next - 1
LooksRight ==
  \A i \in DOMAIN paths \ {Root} : Count(looks, i) = Count(knl, i) + Count(pend, i) + Cardinality(Stats(i, jobs))
DrefsRight == \A i \in DOMAIN paths \ {Root} : Count(drefs, i) = Cardinality(Opens(i, dirs))

IInv ==
  /\ TableRight /\ disk \subseteq Rels
  /\ JobsRight /\ KernelRight /\ DirsRight
  /\ LooksRight /\ DrefsRight

-----------------------------------------------------------------------------
(* What the steps share.                                                     *)

LEMMA IInvInit == Init => IInv
<1> SUFFICES ASSUME Init PROVE IInv
  OBVIOUS
<1>1. /\ inodes = [r \in {<<>>} |-> Root] /\ paths = [i \in {Root} |-> <<>>] /\ ver = [i \in {Root} |-> 0]
      /\ looks = <<>> /\ drefs = <<>> /\ next = Root + 1 /\ dirs = <<>> /\ kd = <<>> /\ knl = <<>> /\ pend = <<>>
      /\ jobs = [t \in Threads |-> Idle]
  BY DEF Init
<1>2. DOMAIN <<>> = {}
  OBVIOUS
<1>3. TableRight
  BY <1>1, <1>2, EmptyRel, InodeAssumption DEF TableRight, Sound, Kept, T, Root
<1>4. disk \subseteq Rels
  BY DEF Init
<1>5. JobsRight
  BY <1>1 DEF JobsRight, JobRight, Idle
<1>6. KernelRight
  BY <1>1, <1>2 DEF KernelRight
<1>7. DirsRight
  BY <1>1, <1>2, FS_EmptySet DEF DirsRight
<1>8. LooksRight /\ DrefsRight
  BY <1>1 DEF LooksRight, DrefsRight
<1> QED BY <1>3, <1>4, <1>5, <1>6, <1>7, <1>8 DEF IInv

Grows(ps, nx, ps2, nx2) ==
  /\ nx \in Nat /\ nx2 \in Nat /\ nx <= nx2
  /\ \A i : DirNo(i, ps, nx) => DirNo(i, ps2, nx2)

LEMMA GrowsKeeps ==
  ASSUME NEW ps, NEW nx, NEW ps2, NEW nx2, Grows(ps, nx, ps2, nx2)
  PROVE  /\ \A p, n, i : EntryRight(p, n, i, ps, nx) => EntryRight(p, n, i, ps2, nx2)
         /\ \A j : JobRight(j, ps, nx) => JobRight(j, ps2, nx2)
         /\ \A S : S \subseteq Root .. nx - 1 => S \subseteq Root .. nx2 - 1
<1>1. \A p, n, i : EntryRight(p, n, i, ps, nx) => EntryRight(p, n, i, ps2, nx2)
  BY DEF Grows, EntryRight, Root
<1>2. \A j : InsertRight(j, ps, nx) => InsertRight(j, ps2, nx2)
  BY DEF Grows, InsertRight
<1>3. \A j : JobRight(j, ps, nx) => JobRight(j, ps2, nx2)
  <2> TAKE j
  <2> QED BY <1>1, <1>2 DEF JobRight
<1>4. \A S : S \subseteq Root .. nx - 1 => S \subseteq Root .. nx2 - 1
  BY DEF Grows
<1> QED BY <1>1, <1>3, <1>4

LEMMA Intervals ==
  \A a, b \in Nat : a <= b => \A i \in Root .. a - 1 : i \in Root .. b - 1 /\ i \notin a .. b - 1
BY DEF Root

\* A step that leaves a sound table behind.
LEMMA TableStep ==
  ASSUME Sound(T), NEW u, Sound(u), Follows(T, u), SetTable(u)
  PROVE  Sound(T)' /\ (Kept(u) => Kept(T)') /\ Grows(paths, next, paths', next')
<1>1. /\ inodes' = u.inodes /\ paths' = u.paths /\ ver' = u.ver
      /\ looks' = u.looks /\ drefs' = u.drefs /\ next' = u.next
  BY DEF SetTable
<1>2. Sound(T)'
  BY <1>1 DEF Sound, T
<1>3. Kept(u) => Kept(T)'
  BY <1>1 DEF Kept, T
<1>4. next \in Nat /\ next' \in Nat /\ next <= next'
  BY <1>1 DEF Sound, Follows, T
<1>5. ASSUME NEW i, DirNo(i, paths, next) PROVE DirNo(i, paths', next')
  <2>1. CASE i = Root
    BY <2>1 DEF DirNo
  <2>2. CASE i # Root
    <3>1. i \in Root .. next - 1 /\ (i \in DOMAIN paths => Len(paths[i]) = 1)
      BY <1>5, <2>2 DEF DirNo
    <3>2. i \in Root .. next' - 1 /\ i \notin next .. next' - 1
      BY <1>4, <3>1, Intervals
    <3>3. i \in DOMAIN paths' => i \in DOMAIN paths
      BY <1>1, <3>2 DEF Follows, T
    <3>4. i \in DOMAIN paths' => Len(paths'[i]) = 1
      BY <1>1, <3>1, <3>3 DEF Follows, T
    <3> QED BY <3>2, <3>4 DEF DirNo
  <2> QED BY <2>1, <2>2
<1> QED BY <1>2, <1>3, <1>4, <1>5 DEF Grows

LEMMA StatsFinite ==
  ASSUME NEW i, NEW jb
  PROVE  IsFiniteSet(Stats(i, jb)) /\ Cardinality(Stats(i, jb)) \in Nat
<1>1. Stats(i, jb) \in SUBSET Threads /\ IsFiniteSet(Threads)
  BY InodeAssumption DEF Stats
<1> QED BY <1>1, FS_Subset, FS_CardinalityType

\* A thread comes to hold a number, gives one up, or neither.
LEMMA StatsSame ==
  ASSUME NEW t \in Threads, \A x \in Threads : x # t => jobs'[x] = jobs[x], NEW i,
         ~(jobs[t].op = "stat" /\ jobs[t].ino = i), ~(jobs'[t].op = "stat" /\ jobs'[t].ino = i)
  PROVE  Cardinality(Stats(i, jobs')) = Cardinality(Stats(i, jobs))
<1>1. Stats(i, jobs') = Stats(i, jobs)
  BY DEF Stats
<1> QED BY <1>1

LEMMA StatsMore ==
  ASSUME NEW t \in Threads, \A x \in Threads : x # t => jobs'[x] = jobs[x], NEW i,
         ~(jobs[t].op = "stat" /\ jobs[t].ino = i), jobs'[t].op = "stat" /\ jobs'[t].ino = i
  PROVE  Cardinality(Stats(i, jobs')) = Cardinality(Stats(i, jobs)) + 1
<1>1. Stats(i, jobs') = Stats(i, jobs) \cup {t} /\ t \notin Stats(i, jobs)
  BY DEF Stats
<1>2. IsFiniteSet(Stats(i, jobs))
  BY StatsFinite
<1> QED BY <1>1, <1>2, FS_AddElement

LEMMA StatsLess ==
  ASSUME NEW t \in Threads, \A x \in Threads : x # t => jobs'[x] = jobs[x], NEW i,
         jobs[t].op = "stat" /\ jobs[t].ino = i, ~(jobs'[t].op = "stat" /\ jobs'[t].ino = i)
  PROVE  Cardinality(Stats(i, jobs')) = Cardinality(Stats(i, jobs)) - 1
<1>1. Stats(i, jobs') = Stats(i, jobs) \ {t} /\ t \in Stats(i, jobs)
  BY DEF Stats
<1>2. IsFiniteSet(Stats(i, jobs))
  BY StatsFinite
<1> QED BY <1>1, <1>2, FS_RemoveElement

\* Numbers that are not in use yet count nothing.
LEMMA FreshCounts ==
  ASSUME IInv, NEW i, i \in DOMAIN paths \/ i \notin Root .. next - 1, i # Root
  PROVE  /\ Count(looks, i) = Count(knl, i) + Count(pend, i) + Cardinality(Stats(i, jobs))
         /\ Count(drefs, i) = Cardinality(Opens(i, dirs))
<1>1. CASE i \in DOMAIN paths
  BY <1>1 DEF IInv, LooksRight, DrefsRight
<1>2. CASE i \notin Root .. next - 1
  <2>1. Count(looks, i) = 0 /\ Count(drefs, i) = 0
    BY <1>2 DEF IInv, TableRight, Sound, T, Count
  <2>2. Count(knl, i) = 0 /\ Count(pend, i) = 0
    BY <1>2 DEF IInv, KernelRight, Count
  <2>3. Stats(i, jobs) = {}
    <3>1. \A t \in Threads : jobs[t].op = "stat" => jobs[t].ino \in Root + 1 .. next - 1
      BY DEF IInv, JobsRight, JobRight, EntryRight
    <3>2. \A k \in Root + 1 .. next - 1 : k \in Root .. next - 1
      BY DEF Root
    <3> QED BY <1>2, <3>1, <3>2 DEF Stats
  <2>4. Opens(i, dirs) = {}
    BY <1>2 DEF IInv, DirsRight, Opens
  <2> QED BY <2>1, <2>2, <2>3, <2>4, FS_EmptySet
<1> QED BY <1>1, <1>2

\* A step that leaves the table, the kernel and the listings alone.
LEMMA JobStep ==
  ASSUME IInv, UNCHANGED <<table, dirs, kernel>>, disk' \subseteq Rels,
         NEW t \in Threads, jobs[t].op # "stat",
         NEW j, j.op # "stat", JobRight(j, paths, next), jobs' = [jobs EXCEPT ![t] = j]
  PROVE  IInv'
<1> USE DEF IInv
<1>1. /\ inodes' = inodes /\ paths' = paths /\ ver' = ver /\ looks' = looks /\ drefs' = drefs /\ next' = next
      /\ dirs' = dirs /\ kd' = kd /\ knl' = knl /\ pend' = pend
  BY DEF table, kernel
<1>2. TableRight'
  BY <1>1 DEF TableRight, T
<1>3. JobsRight'
  BY <1>1 DEF JobsRight
<1>4. KernelRight' /\ DirsRight'
  BY <1>1 DEF KernelRight, DirsRight
<1>5. LooksRight'
  <2>1. ASSUME NEW i PROVE Cardinality(Stats(i, jobs')) = Cardinality(Stats(i, jobs))
    <3>1. DOMAIN jobs = Threads
      BY DEF JobsRight
    <3>2. jobs'[t] = j /\ \A x \in Threads : x # t => jobs'[x] = jobs[x]
      BY <3>1
    <3> QED BY <3>2, StatsSame
  <2> QED BY <1>1, <2>1 DEF LooksRight
<1>6. DrefsRight'
  BY <1>1 DEF DrefsRight
<1> QED BY <1>2, <1>3, <1>4, <1>5, <1>6

LEMMA ChildRight ==
  ASSUME IInv, NEW p \in DOMAIN paths, DirNo(p, paths, next), NEW n \in NamesIn(p)
  PROVE  /\ Child(p, n) \in Rels /\ Child(p, n) # <<>>
         /\ Len(Child(p, n)) = IF p = Root THEN 1 ELSE 2
<1>1. paths[p] \in Rels
  BY DEF IInv, TableRight, Sound, T
<1>2. CASE p = Root
  <2>1. paths[p] = <<>> /\ n \in Dirs
    BY <1>2 DEF IInv, TableRight, Sound, T, NamesIn
  <2>2. /\ Append(paths[p], n) \in Rels /\ Append(paths[p], n) # <<>>
        /\ Len(Append(paths[p], n)) = Len(paths[p]) + 1
    BY <1>1, <2>1, ChildRel
  <2>3. Len(paths[p]) = 0
    BY <2>1, EmptyRel
  <2> QED BY <1>2, <2>2, <2>3 DEF Child
<1>3. CASE p # Root
  <2>1. Len(paths[p]) = 1 /\ n \in Files
    BY <1>3 DEF DirNo, NamesIn
  <2>2. /\ Append(paths[p], n) \in Rels /\ Append(paths[p], n) # <<>>
        /\ Len(Append(paths[p], n)) = Len(paths[p]) + 1
    BY <1>1, <2>1, ChildRel
  <2> QED BY <1>3, <2>1, <2>2 DEF Child
<1> QED BY <1>2, <1>3

\* The directories a request can name.
LEMMA KernelDirsRight ==
  ASSUME IInv
  PROVE  /\ \A p \in KernelDirs : DirNo(p, paths, next)
         /\ \A e \in DOMAIN kd : /\ EntryRight(e[1], e[2], kd[e], paths, next)
                                 /\ DirNo(e[1], paths, next) /\ e[2] \in NamesIn(e[1])
BY DEF IInv, KernelRight, KernelDirs, EntryRight, DirNo

LEMMA LookupStep == ASSUME IInv, NEW t \in Threads, Lookup(t) PROVE IInv'
<1>1. PICK p \in KernelDirs \cap DOMAIN paths : \E n \in NamesIn(p) :
        /\ Start(t, [op |-> "insert", par |-> p, par2 |-> p, victim |-> {}, name |-> n, rel |-> Child(p, n)])
        /\ UNCHANGED <<disk, table, dirs, kernel>>
  BY DEF Lookup
<1>2. PICK n \in NamesIn(p) :
        /\ Start(t, [op |-> "insert", par |-> p, par2 |-> p, victim |-> {}, name |-> n, rel |-> Child(p, n)])
        /\ UNCHANGED <<disk, table, dirs, kernel>>
  BY <1>1
<1> DEFINE j == [op |-> "insert", par |-> p, par2 |-> p, victim |-> {}, name |-> n, rel |-> Child(p, n)]
<1>3. DirNo(p, paths, next) /\ Child(p, n) \in Rels /\ Child(p, n) # <<>> /\ (p = Root => Len(Child(p, n)) = 1)
  BY KernelDirsRight, ChildRight
<1>4. JobRight(j, paths, next) /\ j.op # "stat"
  BY <1>3 DEF JobRight, InsertRight
<1>5. jobs[t].op # "stat" /\ jobs' = [jobs EXCEPT ![t] = j]
  BY <1>2 DEF Start, Idle
<1>6. UNCHANGED <<table, dirs, kernel>> /\ disk' \subseteq Rels
  BY <1>2 DEF IInv
<1> HIDE DEF j
<1> QED BY <1>4, <1>5, <1>6, JobStep

LEMMA CreateStep == ASSUME IInv, NEW t \in Threads, Create(t) PROVE IInv'
<1>1. PICK p \in KernelDirs \cap DOMAIN paths : \E n \in NamesIn(p) :
        /\ Start(t, [op |-> "create", par |-> p, par2 |-> p, victim |-> {}, name |-> n, rel |-> Child(p, n)])
        /\ UNCHANGED <<disk, table, dirs, kernel>>
  BY DEF Create
<1>2. PICK n \in NamesIn(p) :
        /\ Start(t, [op |-> "create", par |-> p, par2 |-> p, victim |-> {}, name |-> n, rel |-> Child(p, n)])
        /\ UNCHANGED <<disk, table, dirs, kernel>>
  BY <1>1
<1> DEFINE j == [op |-> "create", par |-> p, par2 |-> p, victim |-> {}, name |-> n, rel |-> Child(p, n)]
<1>3. DirNo(p, paths, next) /\ Child(p, n) \in Rels /\ Child(p, n) # <<>> /\ (p = Root => Len(Child(p, n)) = 1)
  BY KernelDirsRight, ChildRight
<1>4. JobRight(j, paths, next) /\ j.op # "stat"
  BY <1>3 DEF JobRight, InsertRight
<1>5. jobs[t].op # "stat" /\ jobs' = [jobs EXCEPT ![t] = j]
  BY <1>2 DEF Start, Idle
<1>6. UNCHANGED <<table, dirs, kernel>> /\ disk' \subseteq Rels
  BY <1>2 DEF IInv
<1> HIDE DEF j
<1> QED BY <1>4, <1>5, <1>6, JobStep

LEMMA IdleRight == Idle.op # "stat" /\ \A ps, nx : JobRight(Idle, ps, nx)
BY DEF JobRight, Idle

LEMMA CreateOnDiskStep == ASSUME IInv, NEW t \in Threads, CreateOnDisk(t) PROVE IInv'
<1> DEFINE r == jobs[t].rel
           j == [jobs[t] EXCEPT !.op = "insert"]
<1>1. /\ jobs[t].op = "create" /\ JobRight(jobs[t], paths, next)
      /\ UNCHANGED <<table, dirs, kernel>>
  BY DEF CreateOnDisk, IInv, JobsRight
<1>2. r \in Rels /\ r # <<>> /\ InsertRight(jobs[t], paths, next)
      /\ DOMAIN jobs[t] = {"op", "par", "par2", "victim", "name", "rel"}
  BY <1>1 DEF JobRight, InsertRight
<1>3. Parent(r) \in Rels
  BY <1>2, ParentRel
<1>4. CASE Done(t) /\ disk' = disk \cup {Parent(r)}
  <2>1. jobs' = [jobs EXCEPT ![t] = Idle] /\ disk' \subseteq Rels
    BY <1>3, <1>4 DEF Done, Goto, IInv
  <2> QED BY <1>1, <2>1, IdleRight, JobStep
<1>5. CASE Goto(t, j) /\ disk' = disk \cup {r, Parent(r)}
  <2>1. jobs' = [jobs EXCEPT ![t] = j] /\ disk' \subseteq Rels
    BY <1>2, <1>3, <1>5 DEF Goto, IInv
  <2>2. j.op = "insert" /\ DOMAIN j = DOMAIN jobs[t]
        /\ j.par = jobs[t].par /\ j.name = jobs[t].name /\ j.rel = jobs[t].rel
    BY <1>2
  <2>3. JobRight(j, paths, next)
    <3> HIDE DEF j, r
    <3> QED BY <1>2, <2>2 DEF JobRight, InsertRight
  <2>4. j.op # "stat" /\ jobs[t].op # "stat"
    BY <1>1, <2>2
  <2> HIDE DEF j, r
  <2> QED BY <1>1, <2>1, <2>3, <2>4, JobStep
<1>6. \/ Done(t) /\ disk' = disk \cup {Parent(r)}
      \/ Goto(t, j) /\ disk' = disk \cup {r, Parent(r)}
  BY DEF CreateOnDisk
<1> QED BY <1>4, <1>5, <1>6

LEMMA RemoveChildStep == ASSUME IInv, NEW t \in Threads, RemoveChild(t) PROVE IInv'
<1>1. PICK e \in DOMAIN kd :
        /\ e[1] \in DOMAIN paths
        /\ Start(t, [op |-> "remove", par |-> e[1], par2 |-> e[1], victim |-> {kd[e]}, name |-> e[2],
                     rel |-> Child(e[1], e[2])])
        /\ UNCHANGED <<disk, table, dirs, kernel>>
  BY DEF RemoveChild
<1> DEFINE j == [op |-> "remove", par |-> e[1], par2 |-> e[1], victim |-> {kd[e]}, name |-> e[2],
                 rel |-> Child(e[1], e[2])]
<1>2. Child(e[1], e[2]) \in Rels /\ Child(e[1], e[2]) # <<>>
  BY <1>1, KernelDirsRight, ChildRight
<1>3. JobRight(j, paths, next) /\ j.op # "stat"
  BY <1>2 DEF JobRight
<1>4. jobs[t].op # "stat" /\ jobs' = [jobs EXCEPT ![t] = j]
  BY <1>1 DEF Start, Idle
<1>5. UNCHANGED <<table, dirs, kernel>> /\ disk' \subseteq Rels
  BY <1>1 DEF IInv
<1> HIDE DEF j
<1> QED BY <1>3, <1>4, <1>5, JobStep

LEMMA RemoveOnDiskStep == ASSUME IInv, NEW t \in Threads, RemoveOnDisk(t) PROVE IInv'
<1> DEFINE j == [jobs[t] EXCEPT !.op = "removed"]
<1>1. /\ jobs[t].op = "remove" /\ JobRight(jobs[t], paths, next)
      /\ UNCHANGED <<table, dirs, kernel>> /\ disk' \subseteq Rels
  BY DEF RemoveOnDisk, IInv, JobsRight
<1>2. jobs[t].rel \in Rels /\ jobs[t].rel # <<>>
      /\ DOMAIN jobs[t] = {"op", "par", "par2", "victim", "name", "rel"}
  BY <1>1 DEF JobRight
<1>3. CASE Done(t)
  <2>1. jobs' = [jobs EXCEPT ![t] = Idle]
    BY <1>3 DEF Done, Goto
  <2> QED BY <1>1, <2>1, IdleRight, JobStep
<1>4. CASE Goto(t, j)
  <2>1. jobs' = [jobs EXCEPT ![t] = j]
    BY <1>4 DEF Goto
  <2>2. j.op = "removed" /\ DOMAIN j = DOMAIN jobs[t] /\ j.rel = jobs[t].rel
    BY <1>2
  <2> HIDE DEF j
  <2>3. JobRight(j, paths, next) /\ j.op # "stat"
    BY <1>2, <2>2 DEF JobRight
  <2> QED BY <1>1, <2>1, <2>3, JobStep
<1>5. Done(t) \/ Goto(t, j)
  BY DEF RemoveOnDisk
<1> QED BY <1>3, <1>4, <1>5

LEMMA StartIs ==
  ASSUME NEW t, NEW j, Start(t, j)
  PROVE  jobs[t].op = "idle" /\ jobs' = [jobs EXCEPT ![t] = j]
BY DEF Start, Idle

LEMMA RenameStep == ASSUME IInv, NEW t \in Threads, Rename(t) PROVE IInv'
<1> SUFFICES ASSUME NEW e \in DOMAIN kd, NEW p2 \in KernelDirs \cap DOMAIN paths, NEW keep \in BOOLEAN,
                    NEW n2 \in NamesIn(p2),
                    e[1] \in DOMAIN paths, e[1] = Root <=> p2 = Root,
                    Start(t, RenameJob(e, p2, n2, keep)),
                    UNCHANGED <<disk, table, dirs, kernel>>
             PROVE  IInv'
  BY DEF Rename
<1> DEFINE j == RenameJob(e, p2, n2, keep)
<1>3. e[1] = Root <=> p2 = Root
  OBVIOUS
<1>4. /\ DirNo(e[1], paths, next) /\ e[2] \in NamesIn(e[1]) /\ DirNo(p2, paths, next)
      /\ EntryRight(e[1], e[2], kd[e], paths, next)
  BY KernelDirsRight
<1>5. /\ Child(e[1], e[2]) \in Rels /\ Child(e[1], e[2]) # <<>>
      /\ Len(Child(e[1], e[2])) = IF e[1] = Root THEN 1 ELSE 2
  BY <1>4, ChildRight
<1>6. Child(p2, n2) \in Rels /\ Len(Child(p2, n2)) = IF p2 = Root THEN 1 ELSE 2
  BY <1>4, ChildRight
<1>7. EntryRight(p2, n2, kd[e], paths, next)
  BY <1>3, <1>4 DEF EntryRight
<1>8. /\ j.op = "rename" /\ j.par2 = p2 /\ j.name2 = n2 /\ j.moved = kd[e]
      /\ j.rel = Child(e[1], e[2]) /\ j.rel2 = Child(p2, n2)
      /\ DOMAIN j = {"op", "par", "par2", "name", "name2", "moved", "victim", "rel", "rel2", "keep"}
  BY DEF RenameJob
<1>9. /\ jobs[t].op # "stat" /\ jobs' = [jobs EXCEPT ![t] = j]
      /\ UNCHANGED <<table, dirs, kernel>> /\ disk' \subseteq Rels
  <2>1. Start(t, j)
    OBVIOUS
  <2> HIDE DEF j
  <2>2. jobs[t].op = "idle" /\ jobs' = [jobs EXCEPT ![t] = j]
    BY <2>1, StartIs, Zenon
  <2>3. UNCHANGED <<table, dirs, kernel>> /\ disk' \subseteq Rels
    BY DEF IInv
  <2> QED BY <2>2, <2>3
<1> HIDE DEF j
<1>10. JobRight(j, paths, next)
  BY <1>3, <1>5, <1>6, <1>7, <1>8 DEF JobRight
<1>11. j.op # "stat"
  BY <1>8
<1> QED BY <1>9, <1>10, <1>11, JobStep

LEMMA RenameOnDiskStep == ASSUME IInv, NEW t \in Threads, RenameOnDisk(t) PROVE IInv'
<1> DEFINE r == jobs[t].rel
           r2 == jobs[t].rel2
           base == disk \cup {Parent(r2)}
           sub == {s \in base : IsPrefix(r, s)}
           j == [jobs[t] EXCEPT !.op = "renamed"]
<1>1. /\ jobs[t].op = "rename" /\ JobRight(jobs[t], paths, next)
      /\ UNCHANGED <<table, dirs, kernel>>
  BY DEF RenameOnDisk, IInv, JobsRight
<1>2. /\ DOMAIN jobs[t] = {"op", "par", "par2", "name", "name2", "moved", "victim", "rel", "rel2", "keep"}
      /\ EntryRight(jobs[t].par2, jobs[t].name2, jobs[t].moved, paths, next)
      /\ r \in Rels /\ r # <<>> /\ r2 \in Rels /\ Len(r2) = Len(r)
  BY <1>1 DEF JobRight
<1>3. base \subseteq Rels
  <2>1. r2 # <<>>
    BY <1>2, EmptyRel
  <2>2. Parent(r2) \in Rels
    BY <1>2, <2>1, ParentRel
  <2> QED BY <2>2 DEF IInv
<1>4. \/ disk' = (base \ sub) \cup {Moved(s, r, r2) : s \in sub} /\ Goto(t, j)
      \/ disk' = base /\ Done(t)
  BY DEF RenameOnDisk
<1>5. CASE disk' = base /\ Done(t)
  <2>1. jobs' = [jobs EXCEPT ![t] = Idle] /\ disk' \subseteq Rels
    BY <1>3, <1>5 DEF Done, Goto
  <2>2. jobs[t].op # "stat"
    BY <1>1
  <2> QED BY <1>1, <2>1, <2>2, IdleRight, JobStep
<1>6. CASE disk' = (base \ sub) \cup {Moved(s, r, r2) : s \in sub} /\ Goto(t, j)
  <2>1. \A s \in sub : Moved(s, r, r2) \in Rels
    <3> HIDE DEF base, r, r2
    <3> QED BY <1>2, <1>3, MovedRel
  <2>2. disk' \subseteq Rels /\ jobs' = [jobs EXCEPT ![t] = j]
    <3> HIDE DEF base, r, r2, sub, j
    <3> QED BY <1>3, <1>6, <2>1 DEF Goto
  <2>3. /\ j.op = "renamed" /\ DOMAIN j = DOMAIN jobs[t] /\ j.par2 = jobs[t].par2 /\ j.name2 = jobs[t].name2
        /\ j.moved = jobs[t].moved /\ j.rel = r /\ j.rel2 = r2
    BY <1>2
  <2> HIDE DEF j
  <2>4. JobRight(j, paths, next)
    BY <1>2, <2>3 DEF JobRight
  <2>5. j.op # "stat" /\ jobs[t].op # "stat"
    BY <1>1, <2>3
  <2> QED BY <1>1, <2>2, <2>4, <2>5, JobStep
<1> QED BY <1>4, <1>5, <1>6

LEMMA OpenDirStep == ASSUME IInv, NEW t \in Threads, OpenDir(t) PROVE IInv'
<1>1. PICK i \in KernelDirs \cap DOMAIN paths :
        /\ Start(t, [op |-> "scan", ino |-> i, rel |-> paths[i], ver |-> ver[i]])
        /\ UNCHANGED <<disk, table, dirs, kernel>>
  BY DEF OpenDir
<1> DEFINE j == [op |-> "scan", ino |-> i, rel |-> paths[i], ver |-> ver[i]]
<1>2. paths[i] \in Rels
  BY DEF IInv, TableRight, Sound, T
<1>3. JobRight(j, paths, next) /\ j.op # "stat"
  BY <1>2 DEF JobRight
<1>4. jobs[t].op # "stat" /\ jobs' = [jobs EXCEPT ![t] = j] /\ UNCHANGED <<table, dirs, kernel>> /\ disk' \subseteq Rels
  BY <1>1 DEF Start, Idle, IInv
<1> HIDE DEF j
<1> QED BY <1>3, <1>4, JobStep

LEMMA ScanStep == ASSUME IInv, NEW t \in Threads, Scan(t) PROVE IInv'
<1> DEFINE cands == {r \in disk : r # <<>> /\ Parent(r) = jobs[t].rel}
           j == [op |-> "commit", ino |-> jobs[t].ino, rel |-> jobs[t].rel, ver |-> jobs[t].ver, cands |-> cands]
<1>1. /\ jobs[t].op = "scan" /\ JobRight(jobs[t], paths, next) /\ jobs[t].rel \in Rels
      /\ UNCHANGED <<table, dirs, kernel>> /\ disk' \subseteq Rels
  BY DEF Scan, IInv, JobsRight, JobRight
<1>2. Goto(t, j) \/ Done(t)
  BY DEF Scan
<1>3. CASE Done(t)
  <2>1. jobs' = [jobs EXCEPT ![t] = Idle] /\ jobs[t].op # "stat"
    BY <1>1, <1>3 DEF Done, Goto
  <2> QED BY <1>1, <2>1, IdleRight, JobStep
<1>4. CASE Goto(t, j)
  <2>1. jobs' = [jobs EXCEPT ![t] = j] /\ jobs[t].op # "stat"
    BY <1>1, <1>4 DEF Goto
  <2>2. j.op = "commit" /\ j.rel = jobs[t].rel /\ j.cands = cands /\ "op" \in DOMAIN j
    OBVIOUS
  <2>3. cands \in SUBSET Rels /\ \A r \in cands : r # <<>> /\ Parent(r) = jobs[t].rel
    BY DEF IInv
  <2> HIDE DEF j, cands
  <2>4. JobRight(j, paths, next) /\ j.op # "stat"
    BY <1>1, <2>2, <2>3 DEF JobRight
  <2> QED BY <1>1, <2>1, <2>4, JobStep
<1> QED BY <1>2, <1>3, <1>4

\* What a step that replaces the table by u leaves right.
LEMMA TableInv ==
  ASSUME IInv, NEW u, Sound(u), Follows(T, u), Kept(u), SetTable(u), u.next <= MaxIno + 1
  PROVE  /\ TableRight' /\ Grows(paths, next, paths', next')
         /\ inodes' = u.inodes /\ paths' = u.paths /\ ver' = u.ver
         /\ looks' = u.looks /\ drefs' = u.drefs /\ next' = u.next
         /\ \A k \in DOMAIN paths' \ {Root} :
               /\ Count(looks, k) = Count(knl, k) + Count(pend, k) + Cardinality(Stats(k, jobs))
               /\ Count(drefs, k) = Cardinality(Opens(k, dirs))
<1>1. Sound(T) /\ T.next = next /\ T.paths = paths
  BY DEF IInv, TableRight, T
<1>2. Sound(T)' /\ Kept(T)' /\ Grows(paths, next, paths', next')
  BY <1>1, TableStep
<1>3. /\ inodes' = u.inodes /\ paths' = u.paths /\ ver' = u.ver
      /\ looks' = u.looks /\ drefs' = u.drefs /\ next' = u.next
  BY DEF SetTable
<1>4. TableRight'
  BY <1>2, <1>3 DEF TableRight
<1>5. ASSUME NEW k \in DOMAIN paths' \ {Root}
      PROVE  /\ Count(looks, k) = Count(knl, k) + Count(pend, k) + Cardinality(Stats(k, jobs))
             /\ Count(drefs, k) = Cardinality(Opens(k, dirs))
  <2>1. k \in DOMAIN paths \/ k \in next .. next' - 1
    BY <1>1, <1>3 DEF Follows
  <2>2. next \in Nat /\ next' \in Nat /\ next <= next'
    BY <1>2 DEF Grows
  <2>3. k \in DOMAIN paths \/ k \notin Root .. next - 1
    BY <2>1, <2>2, Intervals
  <2> QED BY <2>3, FreshCounts
<1> QED BY <1>2, <1>3, <1>4, <1>5

LEMMA JobsGrow ==
  ASSUME IInv, Grows(paths, next, paths', next'), NEW t \in Threads, NEW j, JobRight(j, paths', next'),
         jobs' = [jobs EXCEPT ![t] = j]
  PROVE  JobsRight'
<1>1. DOMAIN jobs = Threads /\ \A x \in Threads : JobRight(jobs[x], paths, next)
  BY DEF IInv, JobsRight
<1>2. \A x \in Threads : JobRight(jobs[x], paths', next')
  BY <1>1, GrowsKeeps
<1>3. DOMAIN jobs' = Threads /\ \A x \in Threads : jobs'[x] = IF x = t THEN j ELSE jobs[x]
  BY <1>1
<1>4. \A x \in Threads : JobRight(jobs'[x], paths', next')
  BY <1>2, <1>3
<1> QED BY <1>3, <1>4 DEF JobsRight

LEMMA KernelGrow ==
  ASSUME IInv, Grows(paths, next, paths', next')
  PROVE  /\ \A e \in DOMAIN kd : EntryRight(e[1], e[2], kd[e], paths', next')
         /\ DOMAIN knl \subseteq Root .. next' - 1 /\ DOMAIN pend \subseteq Root .. next' - 1
         /\ UNCHANGED kernel => KernelRight'
         /\ UNCHANGED dirs => DirsRight'
<1>1. \A e \in DOMAIN kd : EntryRight(e[1], e[2], kd[e], paths', next')
  BY GrowsKeeps DEF IInv, KernelRight
<1>2. DOMAIN knl \subseteq Root .. next' - 1 /\ DOMAIN pend \subseteq Root .. next' - 1
  BY GrowsKeeps DEF IInv, KernelRight
<1>3. UNCHANGED kernel => KernelRight'
  BY <1>1, <1>2 DEF IInv, KernelRight, kernel
<1>4. ASSUME UNCHANGED dirs PROVE DirsRight'
  <2>1. \A fh \in DOMAIN dirs : dirs[fh].ents \subseteq Root .. next' - 1
    BY GrowsKeeps DEF IInv, DirsRight
  <2> QED BY <1>4, <2>1 DEF IInv, DirsRight
<1> QED BY <1>1, <1>2, <1>3, <1>4

LEMMA InsertStep == ASSUME IInv, NEW t \in Threads, Insert(t) PROVE IInv'
<1> DEFINE j == jobs[t]
           new == InoForPath(T, j.rel)
           i == new.inodes[j.rel]
           u == AddLookup(new, i)
           j2 == [op |-> "stat", par |-> j.par, par2 |-> j.par, victim |-> {}, name |-> j.name,
                  rel |-> j.rel, ino |-> i]
<1>1. /\ j.op = "insert" /\ next <= MaxIno /\ SetTable(u) /\ jobs' = [jobs EXCEPT ![t] = j2]
      /\ UNCHANGED <<disk, dirs, kernel>>
  BY DEF Insert, Goto
<1>2. JobRight(j, paths, next) /\ Sound(T) /\ Kept(T) /\ disk \subseteq Rels
  BY DEF IInv, JobsRight, TableRight
<1>3. InsertRight(j, paths, next) /\ j.rel \in Rels /\ j.rel # <<>> /\ (j.par = Root => Len(j.rel) = 1)
  BY <1>1, <1>2 DEF JobRight, InsertRight
<1>4. T.looks = looks /\ T.drefs = drefs /\ T.next = next /\ T.paths = paths
  BY DEF T
<1> HIDE DEF j
<1>5. /\ Sound(new) /\ Follows(T, new) /\ new.looks = looks /\ new.drefs = drefs
      /\ new.next <= next + 1 /\ j.rel \in DOMAIN new.inodes
      /\ \A k \in DOMAIN new.paths : k \in DOMAIN paths \/ k = i
  BY <1>2, <1>3, <1>4, InoForPathSound
<1> HIDE DEF new
<1>6. i \in DOMAIN new.paths /\ new.paths[i] = j.rel /\ i # Root
  BY <1>3, <1>5 DEF Sound
<1> HIDE DEF i
<1>7. /\ Sound(u) /\ u.drefs = new.drefs /\ u.next = new.next /\ u.paths = new.paths
      /\ \A k : Count(u.looks, k) = Count(new.looks, k) + (IF k = i THEN 1 ELSE 0)
      /\ DOMAIN u.looks = DOMAIN new.looks \cup {i}
  BY <1>5, <1>6, AddLookupSound
<1> HIDE DEF u
<1>8. Follows(T, u)
  BY <1>5, <1>7 DEF Follows
<1>9. Kept(u)
  BY <1>2, <1>4, <1>5, <1>7 DEF Kept
<1>10. u.next <= MaxIno + 1
  <2>1. next \in Nat /\ new.next \in Nat /\ MaxIno \in Nat
    BY <1>2, <1>4, <1>5, InodeAssumption DEF Sound
  <2> QED BY <1>1, <1>5, <1>7, <2>1
<1>11. /\ TableRight' /\ Grows(paths, next, paths', next') /\ paths' = u.paths /\ next' = u.next
       /\ looks' = u.looks /\ drefs' = u.drefs
       /\ \A k \in DOMAIN paths' \ {Root} :
            /\ Count(looks, k) = Count(knl, k) + Count(pend, k) + Cardinality(Stats(k, jobs))
            /\ Count(drefs, k) = Cardinality(Opens(k, dirs))
  BY <1>1, <1>7, <1>8, <1>9, <1>10, TableInv
<1>12. i \in Root + 1 .. next' - 1
  BY <1>6, <1>7, <1>11 DEF Sound, Root
<1>13. EntryRight(j.par, j.name, i, paths', next')
  <2>1. DirNo(j.par, paths', next') /\ j.name \in NamesIn(j.par)
    BY <1>3, <1>11 DEF Grows, InsertRight
  <2>2. j.par = Root => DirNo(i, paths', next')
    BY <1>3, <1>6, <1>7, <1>11 DEF DirNo, Sound
  <2> QED BY <1>12, <2>1, <2>2 DEF EntryRight
<1>14. j2.op = "stat" /\ j2.par = j.par /\ j2.name = j.name /\ j2.ino = i /\ "op" \in DOMAIN j2
  OBVIOUS
<1> HIDE DEF j2
<1>15. JobsRight'
  <2>1. JobRight(j2, paths', next')
    BY <1>13, <1>14 DEF JobRight
  <2> QED BY <1>1, <1>11, <2>1, JobsGrow
<1>16. KernelRight' /\ DirsRight' /\ disk' \subseteq Rels
  BY <1>1, <1>2, <1>11, KernelGrow
<1>17. LooksRight'
  <2> SUFFICES ASSUME NEW k \in DOMAIN paths' \ {Root}
               PROVE  Count(looks', k) = Count(knl', k) + Count(pend', k) + Cardinality(Stats(k, jobs'))
    BY DEF LooksRight
  <2>1. Count(looks', k) = Count(looks, k) + (IF k = i THEN 1 ELSE 0)
    BY <1>5, <1>7, <1>11
  <2>2. Cardinality(Stats(k, jobs')) = Cardinality(Stats(k, jobs)) + (IF k = i THEN 1 ELSE 0)
    <3>1. DOMAIN jobs = Threads /\ jobs[t].op # "stat"
      BY <1>1 DEF IInv, JobsRight, j
    <3>4. jobs'[t] = j2 /\ \A x \in Threads : x # t => jobs'[x] = jobs[x]
      BY <1>1, <3>1
    <3>2. CASE k = i
      BY <1>14, <3>1, <3>2, <3>4, StatsMore
    <3>3. CASE k # i
      <4>1. Cardinality(Stats(k, jobs')) = Cardinality(Stats(k, jobs))
        BY <1>14, <3>1, <3>3, <3>4, StatsSame
      <4>2. Cardinality(Stats(k, jobs)) \in Nat
        BY StatsFinite
      <4> QED BY <3>3, <4>1, <4>2
    <3> QED BY <3>2, <3>3
  <2>3. knl' = knl /\ pend' = pend
    BY <1>1 DEF kernel
  <2>4. /\ Count(knl, k) \in Nat /\ Count(pend, k) \in Nat /\ Cardinality(Stats(k, jobs)) \in Nat
    BY StatsFinite DEF IInv, KernelRight, Count
  <2> QED BY <1>11, <2>1, <2>2, <2>3, <2>4
<1>18. DrefsRight'
  BY <1>1, <1>5, <1>7, <1>11 DEF DrefsRight
<1> QED BY <1>11, <1>15, <1>16, <1>17, <1>18 DEF IInv

LEMMA GrowsSame ==
  ASSUME IInv, UNCHANGED table
  PROVE  TableRight' /\ Grows(paths, next, paths', next')
<1>1. inodes' = inodes /\ paths' = paths /\ ver' = ver /\ looks' = looks /\ drefs' = drefs /\ next' = next
  BY DEF table
<1>2. TableRight'
  BY <1>1 DEF IInv, TableRight, T
<1>3. next \in Nat
  BY DEF IInv, TableRight, Sound, T
<1> QED BY <1>1, <1>2, <1>3 DEF Grows

LEMMA KdWithout ==
  ASSUME NEW ps, NEW nx, NEW f, \A e \in DOMAIN f : EntryRight(e[1], e[2], f[e], ps, nx), NEW X
  PROVE  \A e \in DOMAIN Without(f, X) : EntryRight(e[1], e[2], Without(f, X)[e], ps, nx)
BY DEF Without, Restrict

LEMMA KdWith ==
  ASSUME NEW ps, NEW nx, NEW f, \A e \in DOMAIN f : EntryRight(e[1], e[2], f[e], ps, nx),
         NEW p, NEW n, NEW i, EntryRight(p, n, i, ps, nx)
  PROVE  \A e \in DOMAIN With(f, <<p, n>>, i) : EntryRight(e[1], e[2], With(f, <<p, n>>, i)[e], ps, nx)
<1> SUFFICES ASSUME NEW e \in DOMAIN With(f, <<p, n>>, i)
             PROVE  EntryRight(e[1], e[2], With(f, <<p, n>>, i)[e], ps, nx)
  OBVIOUS
<1>1. CASE e = <<p, n>>
  <2>1. e[1] = p /\ e[2] = n /\ With(f, <<p, n>>, i)[e] = i
    BY <1>1 DEF With
  <2> QED BY <2>1
<1>2. CASE e # <<p, n>>
  <2>1. e \in DOMAIN f /\ With(f, <<p, n>>, i)[e] = f[e]
    BY <1>2 DEF With
  <2> QED BY <2>1
<1> QED BY <1>1, <1>2

LEMMA CountsNat ==
  ASSUME IInv, NEW k
  PROVE  /\ Count(knl, k) \in Nat /\ Count(pend, k) \in Nat /\ Count(looks, k) \in Nat
         /\ Cardinality(Stats(k, jobs)) \in Nat
BY StatsFinite DEF IInv, KernelRight, TableRight, Sound, T, Count

\* The end of a handler that holds no number.
LEMMA DoneStep ==
  ASSUME IInv, NEW t \in Threads, jobs[t].op # "stat", jobs' = [jobs EXCEPT ![t] = Idle],
         NEW u, Sound(u), Follows(T, u), Kept(u), SetTable(u), u.next = next,
         \A k \in DOMAIN u.paths : Count(u.looks, k) = Count(looks, k) /\ Count(u.drefs, k) = Count(drefs, k),
         UNCHANGED <<disk, dirs, knl, pend>>,
         \A e \in DOMAIN kd' : EntryRight(e[1], e[2], kd'[e], paths', next')
  PROVE  IInv'
<1>1. u.next <= MaxIno + 1
  BY DEF IInv, TableRight
<1>2. /\ TableRight' /\ Grows(paths, next, paths', next') /\ paths' = u.paths /\ next' = u.next
      /\ looks' = u.looks /\ drefs' = u.drefs
      /\ \A k \in DOMAIN paths' \ {Root} :
           /\ Count(looks, k) = Count(knl, k) + Count(pend, k) + Cardinality(Stats(k, jobs))
           /\ Count(drefs, k) = Cardinality(Opens(k, dirs))
  BY <1>1, TableInv
<1>3. JobsRight'
  BY <1>2, IdleRight, JobsGrow
<1>4. KernelRight' /\ DirsRight'
  <2>1. DOMAIN knl \subseteq Root .. next' - 1 /\ DOMAIN pend \subseteq Root .. next' - 1 /\ DirsRight'
    BY <1>2, KernelGrow
  <2> QED BY <2>1 DEF IInv, KernelRight
<1>5. LooksRight'
  <2> SUFFICES ASSUME NEW k \in DOMAIN paths' \ {Root}
               PROVE  Count(looks', k) = Count(knl', k) + Count(pend', k) + Cardinality(Stats(k, jobs'))
    BY DEF LooksRight
  <2>1. DOMAIN jobs = Threads
    BY DEF IInv, JobsRight
  <2>2. jobs'[t] = Idle /\ \A x \in Threads : x # t => jobs'[x] = jobs[x]
    BY <2>1
  <2>3. Cardinality(Stats(k, jobs')) = Cardinality(Stats(k, jobs))
    BY <2>2, IdleRight, StatsSame
  <2>4. Count(looks', k) = Count(looks, k)
    BY <1>2
  <2> QED BY <1>2, <2>3, <2>4
<1>6. DrefsRight'
  BY <1>2 DEF DrefsRight
<1>7. disk' \subseteq Rels
  BY DEF IInv
<1> QED BY <1>2, <1>3, <1>4, <1>5, <1>6, <1>7 DEF IInv

LEMMA RemoveInodePathStep == ASSUME IInv, NEW t \in Threads, RemoveInodePath(t) PROVE IInv'
<1> DEFINE r == jobs[t].rel
           u == RemovePath(T, r)
           X == Below(kd[<<jobs[t].par, jobs[t].name>>])
<1>1. /\ jobs[t].op = "removed" /\ jobs' = [jobs EXCEPT ![t] = Idle] /\ SetTable(u)
      /\ kd' = Without(kd, X) /\ UNCHANGED <<disk, dirs, knl, pend>>
  BY DEF RemoveInodePath, Done, Goto
<1>2. JobRight(jobs[t], paths, next) /\ Sound(T) /\ Kept(T)
  BY DEF IInv, JobsRight, TableRight
<1>3. r \in Rels /\ r # <<>>
  BY <1>1, <1>2 DEF JobRight
<1>4. T.looks = looks /\ T.drefs = drefs /\ T.next = next /\ T.paths = paths
  BY DEF T
<1> HIDE DEF r, X
<1>5. /\ Sound(u) /\ Follows(T, u) /\ u.next = next /\ Kept(u)
      /\ \A k \in DOMAIN u.paths : Count(u.looks, k) = Count(looks, k) /\ Count(u.drefs, k) = Count(drefs, k)
  BY <1>2, <1>3, <1>4, RemovePathSound
<1> HIDE DEF u
<1>6. Grows(paths, next, paths', next')
  BY <1>1, <1>2, <1>5, TableStep
<1>7. \A e \in DOMAIN kd' : EntryRight(e[1], e[2], kd'[e], paths', next')
  <2>1. \A e \in DOMAIN kd : EntryRight(e[1], e[2], kd[e], paths', next')
    BY <1>6, KernelGrow
  <2> QED BY <1>1, <2>1, KdWithout
<1>8. jobs[t].op # "stat"
  BY <1>1
<1> QED BY <1>1, <1>5, <1>7, <1>8, DoneStep

LEMMA RemapInodePathStep == ASSUME IInv, NEW t \in Threads, RemapInodePath(t) PROVE IInv'
<1> DEFINE j == jobs[t]
           u == Remap(T, j.rel, j.rel2)
           e1 == <<j.par, j.name>>
           e2 == <<j.par2, j.name2>>
           X == IF e2 \in DOMAIN kd THEN Below(kd[e2]) ELSE {}
<1>1. /\ j.op = "renamed" /\ jobs' = [jobs EXCEPT ![t] = Idle] /\ SetTable(u)
      /\ kd' = With(Without(Without(kd, X), {e1}), e2, j.moved) /\ UNCHANGED <<disk, dirs, knl, pend>>
  BY DEF RemapInodePath, Done, Goto
<1>2. JobRight(j, paths, next) /\ Sound(T) /\ Kept(T)
  BY DEF IInv, JobsRight, TableRight
<1>3. /\ j.rel \in Rels /\ j.rel # <<>> /\ j.rel2 \in Rels /\ Len(j.rel2) = Len(j.rel)
      /\ EntryRight(j.par2, j.name2, j.moved, paths, next)
  BY <1>1, <1>2 DEF JobRight
<1>4. T.looks = looks /\ T.drefs = drefs /\ T.next = next /\ T.paths = paths
  BY DEF T
<1>8. jobs[t].op # "stat"
  BY <1>1
<1> HIDE DEF j, X
<1>5. /\ Sound(u) /\ Follows(T, u) /\ u.next = next /\ Kept(u)
      /\ \A k \in DOMAIN u.paths : Count(u.looks, k) = Count(looks, k) /\ Count(u.drefs, k) = Count(drefs, k)
  BY <1>2, <1>3, <1>4, RemapSound
<1> HIDE DEF u
<1>6. Grows(paths, next, paths', next')
  BY <1>1, <1>2, <1>5, TableStep
<1>7. \A e \in DOMAIN kd' : EntryRight(e[1], e[2], kd'[e], paths', next')
  <2>1. \A e \in DOMAIN kd : EntryRight(e[1], e[2], kd[e], paths', next')
    BY <1>6, KernelGrow
  <2>2. EntryRight(j.par2, j.name2, j.moved, paths', next')
    BY <1>3, <1>6, GrowsKeeps
  <2> DEFINE f == Without(kd, X)
             g == Without(f, {e1})
  <2>3. \A e \in DOMAIN f : EntryRight(e[1], e[2], f[e], paths', next')
    BY <2>1, KdWithout
  <2> HIDE DEF f
  <2>4. \A e \in DOMAIN g : EntryRight(e[1], e[2], g[e], paths', next')
    BY <2>3, KdWithout
  <2>5. kd' = With(g, <<j.par2, j.name2>>, j.moved)
    BY <1>1 DEF f
  <2> HIDE DEF g
  <2> QED BY <2>2, <2>4, <2>5, KdWith
<1> QED BY <1>1, <1>5, <1>7, <1>8, DoneStep

LEMMA WithCount ==
  ASSUME NEW f, NEW i, NEW v
  PROVE  Count(With(f, i, v), i) = v /\ \A k : k # i => Count(With(f, i, v), k) = Count(f, k)
BY DEF With, Count

LEMMA ReplyEntryStep == ASSUME IInv, NEW t \in Threads, ReplyEntry(t) PROVE IInv'
<1> DEFINE j == jobs[t]
           i == j.ino
           old == IF <<j.par, j.name>> \in DOMAIN kd THEN kd[<<j.par, j.name>>] ELSE Root
           X == IF old \in {Root, j.ino} THEN {} ELSE Below(old)
           Y == IF old = Root THEN {} ELSE Below(old)
           u == RemoveLookup(T, i, 1)
<1>1. /\ j.op = "stat" /\ jobs' = [jobs EXCEPT ![t] = Idle] /\ UNCHANGED <<disk, dirs>>
  BY DEF ReplyEntry, Done, Goto
<1>2. \/ /\ kd' = With(Without(kd, X), <<j.par, j.name>>, i) /\ knl' = With(knl, i, Count(knl, i) + 1)
         /\ UNCHANGED <<table, pend>>
      \/ /\ SetTable(u) /\ kd' = Without(kd, Y) /\ UNCHANGED <<knl, pend>>
  BY DEF ReplyEntry
<1>3. JobRight(j, paths, next) /\ Sound(T) /\ Kept(T) /\ next <= MaxIno + 1 /\ DOMAIN jobs = Threads
      /\ disk \subseteq Rels
  BY DEF IInv, JobsRight, TableRight
<1>4. EntryRight(j.par, j.name, i, paths, next)
  BY <1>1, <1>3 DEF JobRight
<1>5. T.looks = looks /\ T.drefs = drefs /\ T.next = next /\ T.paths = paths
  BY DEF T
<1>6. jobs[t].op = "stat" /\ jobs[t].ino = i
  BY <1>1
<1>7. jobs'[t] = Idle /\ \A x \in Threads : x # t => jobs'[x] = jobs[x]
  BY <1>1, <1>3
<1> HIDE DEF i, j, X, Y
<1>8. Cardinality(Stats(i, jobs')) = Cardinality(Stats(i, jobs)) - 1
  BY <1>6, <1>7, IdleRight, StatsLess
<1>9. ASSUME NEW k, k # i PROVE Cardinality(Stats(k, jobs')) = Cardinality(Stats(k, jobs))
  BY <1>6, <1>7, <1>9, IdleRight, StatsSame
<1>10. Cardinality(Stats(i, jobs)) >= 1
  <2>1. Cardinality(Stats(i, jobs)) - 1 \in Nat /\ Cardinality(Stats(i, jobs)) \in Nat
    BY <1>8, StatsFinite
  <2> QED BY <2>1
<1>11. disk' \subseteq Rels
  BY <1>1, <1>3
<1>12. CASE /\ kd' = With(Without(kd, X), <<j.par, j.name>>, i) /\ knl' = With(knl, i, Count(knl, i) + 1)
            /\ UNCHANGED <<table, pend>>
  <2>1. TableRight' /\ Grows(paths, next, paths', next')
    BY <1>12, GrowsSame
  <2>2. /\ paths' = paths /\ looks' = looks /\ drefs' = drefs /\ next' = next
    BY <1>12 DEF table
  <2>3. JobsRight' /\ DirsRight'
    BY <1>1, <2>1, IdleRight, JobsGrow, KernelGrow
  <2>4. \A e \in DOMAIN kd' : EntryRight(e[1], e[2], kd'[e], paths', next')
    <3> DEFINE f == Without(kd, X)
    <3>1. \A e \in DOMAIN f : EntryRight(e[1], e[2], f[e], paths', next')
      BY <2>1, KernelGrow, KdWithout
    <3>2. EntryRight(j.par, j.name, i, paths', next')
      BY <1>4, <2>1, GrowsKeeps
    <3>3. kd' = With(f, <<j.par, j.name>>, i)
      BY <1>12
    <3> HIDE DEF f
    <3> QED BY <3>1, <3>2, <3>3, KdWith
  <2>5. KernelRight'
    <3>1. DOMAIN knl \subseteq Root .. next - 1 /\ \A k \in DOMAIN knl : knl[k] \in Nat \ {0}
      BY DEF IInv, KernelRight
    <3>2. Count(knl, i) + 1 \in Nat \ {0}
      BY CountsNat
    <3>3. i \in Root .. next - 1
      BY <1>4 DEF EntryRight, Root
    <3>4. DOMAIN knl' \subseteq Root .. next' - 1 /\ \A k \in DOMAIN knl' : knl'[k] \in Nat \ {0}
      BY <1>12, <2>2, <3>1, <3>2, <3>3 DEF With
    <3>5. DOMAIN pend' \subseteq Root .. next' - 1 /\ \A k \in DOMAIN pend' : pend'[k] \in Nat \ {0}
      BY <1>12, <2>2 DEF IInv, KernelRight
    <3> QED BY <2>4, <3>4, <3>5 DEF KernelRight
  <2>6. LooksRight'
    <3> SUFFICES ASSUME NEW k \in DOMAIN paths \ {Root}
                 PROVE  Count(looks, k) = Count(knl', k) + Count(pend, k) + Cardinality(Stats(k, jobs'))
      BY <1>12, <2>2 DEF LooksRight
    <3>1. Count(looks, k) = Count(knl, k) + Count(pend, k) + Cardinality(Stats(k, jobs))
      BY DEF IInv, LooksRight
    <3>2. CASE k = i
      <4>1. Count(knl', k) = Count(knl, k) + 1
        BY <1>12, <3>2, WithCount
      <4>2. Cardinality(Stats(k, jobs')) = Cardinality(Stats(k, jobs)) - 1
        BY <1>8, <3>2
      <4>3. /\ Count(knl, k) \in Nat /\ Count(pend, k) \in Nat /\ Cardinality(Stats(k, jobs)) \in Nat
        BY CountsNat
      <4> QED BY <3>1, <4>1, <4>2, <4>3
    <3>3. CASE k # i
      BY <1>9, <1>12, <3>1, <3>3, WithCount
    <3> QED BY <3>2, <3>3
  <2>7. DrefsRight'
    BY <1>1, <2>2 DEF IInv, DrefsRight
  <2> QED BY <1>11, <2>1, <2>3, <2>5, <2>6, <2>7 DEF IInv
<1>13. CASE SetTable(u) /\ kd' = Without(kd, Y) /\ UNCHANGED <<knl, pend>>
  <2>1. /\ Sound(u) /\ Follows(T, u) /\ u.next = next /\ u.drefs = drefs /\ Kept(u)
        /\ u.looks = Less(looks, i, 1)
    BY <1>3, <1>5, RemoveLookupSound
  <2> HIDE DEF u
  <2>2. /\ TableRight' /\ Grows(paths, next, paths', next') /\ paths' = u.paths /\ next' = u.next
        /\ looks' = u.looks /\ drefs' = u.drefs
        /\ \A k \in DOMAIN paths' \ {Root} :
             /\ Count(looks, k) = Count(knl, k) + Count(pend, k) + Cardinality(Stats(k, jobs))
             /\ Count(drefs, k) = Cardinality(Opens(k, dirs))
    BY <1>3, <1>13, <2>1, TableInv
  <2>3. JobsRight' /\ DirsRight'
    BY <1>1, <2>2, IdleRight, JobsGrow, KernelGrow
  <2>4. KernelRight'
    <3>1. \A e \in DOMAIN kd' : EntryRight(e[1], e[2], kd'[e], paths', next')
      BY <1>13, <2>2, KernelGrow, KdWithout
    <3>2. DOMAIN knl \subseteq Root .. next' - 1 /\ DOMAIN pend \subseteq Root .. next' - 1
      BY <2>2, KernelGrow
    <3> QED BY <1>13, <3>1, <3>2 DEF IInv, KernelRight
  <2>5. LooksRight'
    <3> SUFFICES ASSUME NEW k \in DOMAIN paths' \ {Root}
                 PROVE  Count(looks', k) = Count(knl', k) + Count(pend', k) + Cardinality(Stats(k, jobs'))
      BY DEF LooksRight
    <3>1. Count(looks, k) = Count(knl', k) + Count(pend', k) + Cardinality(Stats(k, jobs))
      BY <1>13, <2>2
    <3>2. /\ Count(knl', k) \in Nat /\ Count(pend', k) \in Nat /\ Cardinality(Stats(k, jobs)) \in Nat
          /\ Count(looks, k) \in Nat
      BY <1>13, CountsNat
    <3>3. \A x \in DOMAIN looks : looks[x] \in Nat \ {0}
      BY <1>3, <1>5 DEF Sound
    <3>4. CASE k = i
      <4>1. Count(looks, k) >= 1
        BY <1>10, <3>1, <3>2, <3>4
      <4>2. Count(looks', k) = Count(looks, k) - 1
        <5>1. Count(looks, i) <= 1 => Count(looks', i) = 0
          BY <2>1, <2>2, <3>3, LessCounts
        <5>2. Count(looks, i) > 1 => Count(looks', i) = Count(looks, i) - 1
          BY <2>1, <2>2, <3>3, LessCounts
        <5> QED BY <3>2, <3>4, <4>1, <5>1, <5>2
      <4>3. Cardinality(Stats(k, jobs')) = Cardinality(Stats(k, jobs)) - 1
        BY <1>8, <3>4
      <4> QED BY <3>1, <3>2, <4>2, <4>3
    <3>5. CASE k # i
      <4>1. Count(looks', k) = Count(looks, k)
        BY <2>1, <2>2, <3>3, <3>5, LessCounts
      <4>2. Cardinality(Stats(k, jobs')) = Cardinality(Stats(k, jobs))
        BY <1>9, <3>5
      <4> QED BY <3>1, <4>1, <4>2
    <3> QED BY <3>4, <3>5
  <2>6. DrefsRight'
    BY <1>1, <2>1, <2>2 DEF DrefsRight
  <2> QED BY <1>11, <2>2, <2>3, <2>4, <2>5, <2>6 DEF IInv
<1> QED BY <1>2, <1>12, <1>13

LEMMA EvictStep == ASSUME IInv, Evict PROVE IInv'
<1>1. PICK i \in DOMAIN knl :
        /\ pend' = With(pend, i, Count(pend, i) + knl[i])
        /\ knl' = Without(knl, {i}) /\ kd' = Without(kd, Below(i))
        /\ UNCHANGED <<disk, table, dirs, jobs, reqs>>
  BY DEF Evict
<1>2. TableRight' /\ Grows(paths, next, paths', next')
  BY <1>1, GrowsSame
<1>3. /\ paths' = paths /\ looks' = looks /\ drefs' = drefs /\ next' = next
  BY <1>1 DEF table
<1>4. JobsRight' /\ DirsRight' /\ DrefsRight' /\ disk' \subseteq Rels
  BY <1>1, <1>3 DEF IInv, JobsRight, DirsRight, DrefsRight
<1>5. /\ DOMAIN knl \subseteq Root .. next - 1 /\ \A k \in DOMAIN knl : knl[k] \in Nat \ {0}
      /\ DOMAIN pend \subseteq Root .. next - 1 /\ \A k \in DOMAIN pend : pend[k] \in Nat \ {0}
  BY DEF IInv, KernelRight
<1>6. KernelRight'
  <2>1. \A e \in DOMAIN kd' : EntryRight(e[1], e[2], kd'[e], paths', next')
    BY <1>1, <1>2, KernelGrow, KdWithout
  <2>2. DOMAIN knl' \subseteq Root .. next' - 1 /\ \A k \in DOMAIN knl' : knl'[k] \in Nat \ {0}
    BY <1>1, <1>3, <1>5 DEF Without, Restrict
  <2>3. Count(pend, i) + knl[i] \in Nat \ {0}
    BY <1>5, CountsNat
  <2>4. DOMAIN pend' \subseteq Root .. next' - 1 /\ \A k \in DOMAIN pend' : pend'[k] \in Nat \ {0}
    BY <1>1, <1>3, <1>5, <2>3 DEF With
  <2> QED BY <2>1, <2>2, <2>4 DEF KernelRight
<1>7. LooksRight'
  <2> SUFFICES ASSUME NEW k \in DOMAIN paths \ {Root}
               PROVE  Count(looks, k) = Count(knl', k) + Count(pend', k) + Cardinality(Stats(k, jobs))
    BY <1>1, <1>3 DEF LooksRight
  <2>1. Count(looks, k) = Count(knl, k) + Count(pend, k) + Cardinality(Stats(k, jobs))
    BY DEF IInv, LooksRight
  <2>2. CASE k = i
    <3>1. Count(knl', k) = 0 /\ Count(knl, k) = knl[i]
      BY <1>1, <2>2 DEF Without, Restrict, Count
    <3>2. Count(pend', k) = Count(pend, k) + knl[i]
      BY <1>1, <2>2, WithCount
    <3>3. knl[i] \in Nat /\ Count(pend, k) \in Nat /\ Cardinality(Stats(k, jobs)) \in Nat
      BY <1>5, CountsNat
    <3> QED BY <2>1, <3>1, <3>2, <3>3
  <2>3. CASE k # i
    <3>1. Count(knl', k) = Count(knl, k)
      BY <1>1, <2>3 DEF Without, Restrict, Count
    <3>2. Count(pend', k) = Count(pend, k)
      BY <1>1, <2>3, WithCount
    <3> QED BY <2>1, <3>1, <3>2
  <2> QED BY <2>2, <2>3
<1> QED BY <1>2, <1>4, <1>6, <1>7 DEF IInv

LEMMA ForgetStep == ASSUME IInv, Forget PROVE IInv'
<1>1. PICK i \in DOMAIN pend : \E n \in 1 .. pend[i] :
        /\ SetTable(RemoveLookup(T, i, n)) /\ pend' = Less(pend, i, n)
        /\ UNCHANGED <<disk, dirs, kd, knl, jobs, reqs>>
  BY DEF Forget
<1>2. PICK n \in 1 .. pend[i] :
        /\ SetTable(RemoveLookup(T, i, n)) /\ pend' = Less(pend, i, n)
        /\ UNCHANGED <<disk, dirs, kd, knl, jobs, reqs>>
  BY <1>1
<1> DEFINE u == RemoveLookup(T, i, n)
<1>3. Sound(T) /\ Kept(T) /\ next <= MaxIno + 1
  BY DEF IInv, TableRight
<1>4. T.looks = looks /\ T.drefs = drefs /\ T.next = next /\ T.paths = paths
  BY DEF T
<1>5. /\ DOMAIN pend \subseteq Root .. next - 1 /\ \A k \in DOMAIN pend : pend[k] \in Nat \ {0}
      /\ \A k \in DOMAIN looks : looks[k] \in Nat \ {0}
  BY <1>3, <1>4 DEF IInv, KernelRight, Sound
<1>6. n \in Nat \ {0} /\ pend[i] \in Nat /\ n <= pend[i] /\ Count(pend, i) = pend[i]
  BY <1>5 DEF Count
<1>7. /\ Sound(u) /\ Follows(T, u) /\ u.next = next /\ u.drefs = drefs /\ Kept(u)
      /\ u.looks = Less(looks, i, n)
  BY <1>3, <1>4, <1>6, RemoveLookupSound
<1> HIDE DEF u
<1>8. SetTable(u)
  BY <1>2 DEF u
<1>9. /\ TableRight' /\ Grows(paths, next, paths', next') /\ paths' = u.paths /\ next' = u.next
      /\ looks' = u.looks /\ drefs' = u.drefs
      /\ \A k \in DOMAIN paths' \ {Root} :
           /\ Count(looks, k) = Count(knl, k) + Count(pend, k) + Cardinality(Stats(k, jobs))
           /\ Count(drefs, k) = Cardinality(Opens(k, dirs))
  BY <1>3, <1>7, <1>8, TableInv
<1>10. JobsRight'
  <2>1. \A x \in Threads : JobRight(jobs[x], paths', next')
    BY <1>9, GrowsKeeps DEF IInv, JobsRight
  <2> QED BY <1>2, <2>1 DEF IInv, JobsRight
<1>11. DirsRight' /\ disk' \subseteq Rels
  BY <1>2, <1>9, KernelGrow DEF IInv
<1>12. /\ DOMAIN pend' \subseteq DOMAIN pend /\ \A k \in DOMAIN pend' : pend'[k] \in Nat \ {0}
       /\ \A k : k # i => Count(pend', k) = Count(pend, k)
       /\ Count(pend, i) <= n => Count(pend', i) = 0
       /\ Count(pend, i) > n => Count(pend', i) = Count(pend, i) - n
  BY <1>2, <1>5, <1>6, LessCounts
<1>13. /\ \A k : k # i => Count(looks', k) = Count(looks, k)
       /\ Count(looks, i) <= n => Count(looks', i) = 0
       /\ Count(looks, i) > n => Count(looks', i) = Count(looks, i) - n
  <2>1. looks' = Less(looks, i, n)
    BY <1>7, <1>9
  <2>2. n \in Nat \ {0} /\ \A k \in DOMAIN looks : looks[k] \in Nat \ {0}
    BY <1>5, <1>6
  <2>3. /\ \A k : k # i => Count(Less(looks, i, n), k) = Count(looks, k)
        /\ Count(looks, i) <= n => Count(Less(looks, i, n), i) = 0
        /\ Count(looks, i) > n => Count(Less(looks, i, n), i) = Count(looks, i) - n
    BY <2>2, LessCounts
  <2> QED BY <2>1, <2>3
<1>14. KernelRight'
  <2>1. \A e \in DOMAIN kd' : EntryRight(e[1], e[2], kd'[e], paths', next')
    BY <1>2, <1>9, KernelGrow
  <2>2. DOMAIN knl \subseteq Root .. next' - 1 /\ DOMAIN pend \subseteq Root .. next' - 1
    BY <1>9, KernelGrow
  <2> QED BY <1>2, <1>12, <2>1, <2>2 DEF IInv, KernelRight
<1>15. LooksRight'
  <2> SUFFICES ASSUME NEW k \in DOMAIN paths' \ {Root}
               PROVE  Count(looks', k) = Count(knl, k) + Count(pend', k) + Cardinality(Stats(k, jobs))
    BY <1>2 DEF LooksRight
  <2>1. Count(looks, k) = Count(knl, k) + Count(pend, k) + Cardinality(Stats(k, jobs))
    BY <1>9
  <2>2. /\ Count(knl, k) \in Nat /\ Count(pend, k) \in Nat /\ Cardinality(Stats(k, jobs)) \in Nat
        /\ Count(looks, k) \in Nat
    BY CountsNat
  <2>3. CASE k = i
    <3>1. Count(pend', k) = Count(pend, k) - n
      BY <1>6, <1>12, <2>2, <2>3
    <3>2. Count(looks, k) >= n
      BY <1>6, <2>1, <2>2, <2>3
    <3>3. Count(looks', k) = Count(looks, k) - n
      BY <1>6, <1>13, <2>2, <2>3, <3>2
    <3> QED BY <1>6, <2>1, <2>2, <3>1, <3>3
  <2>4. CASE k # i
    BY <1>12, <1>13, <2>1, <2>4
  <2> QED BY <2>3, <2>4
<1>16. DrefsRight'
  BY <1>2, <1>7, <1>9 DEF DrefsRight
<1> QED BY <1>9, <1>10, <1>11, <1>14, <1>15, <1>16 DEF IInv

LEMMA OpensFinite ==
  ASSUME IInv, NEW k
  PROVE  IsFiniteSet(Opens(k, dirs)) /\ Cardinality(Opens(k, dirs)) \in Nat
<1>1. Opens(k, dirs) \in SUBSET DOMAIN dirs /\ IsFiniteSet(DOMAIN dirs)
  BY DEF IInv, DirsRight, Opens
<1> QED BY <1>1, FS_Subset, FS_CardinalityType

LEMMA ReleaseDirStep == ASSUME IInv, ReleaseDir PROVE IInv'
<1>1. PICK fh \in DOMAIN dirs :
        /\ SetTable(RemoveRefs(T, dirs[fh].ents)) /\ dirs' = Without(dirs, {fh})
        /\ UNCHANGED <<disk, kernel, jobs, reqs>>
  BY DEF ReleaseDir
<1> DEFINE ents == dirs[fh].ents
           u == RemoveRefs(T, ents)
<1>2. Sound(T) /\ Kept(T) /\ next <= MaxIno + 1
  BY DEF IInv, TableRight
<1>3. T.looks = looks /\ T.drefs = drefs /\ T.next = next /\ T.paths = paths
  BY DEF T
<1>4. /\ Sound(u) /\ Follows(T, u) /\ u.next = next /\ u.looks = looks /\ Kept(u)
      /\ \A k \in DOMAIN drefs : Count(u.drefs, k) = Count(drefs, k) - (IF k \in ents THEN 1 ELSE 0)
      /\ DOMAIN u.drefs \subseteq DOMAIN drefs
  <2> HIDE DEF ents
  <2> QED BY <1>2, <1>3, RemoveRefsSound
<1>5. SetTable(u)
  BY <1>1
<1> HIDE DEF u
<1>6. /\ TableRight' /\ Grows(paths, next, paths', next') /\ paths' = u.paths /\ next' = u.next
      /\ looks' = u.looks /\ drefs' = u.drefs
      /\ \A k \in DOMAIN paths' \ {Root} :
           /\ Count(looks, k) = Count(knl, k) + Count(pend, k) + Cardinality(Stats(k, jobs))
           /\ Count(drefs, k) = Cardinality(Opens(k, dirs))
  BY <1>2, <1>4, <1>5, TableInv
<1>7. JobsRight'
  <2>1. \A x \in Threads : JobRight(jobs[x], paths', next')
    BY <1>6, GrowsKeeps DEF IInv, JobsRight
  <2> QED BY <1>1, <2>1 DEF IInv, JobsRight
<1>8. KernelRight' /\ disk' \subseteq Rels
  <2>1. UNCHANGED kernel /\ disk' = disk
    BY <1>1
  <2> QED BY <1>6, <2>1, KernelGrow DEF IInv
<1>9. DOMAIN dirs' = DOMAIN dirs \ {fh} /\ \A x \in DOMAIN dirs' : dirs'[x] = dirs[x]
  BY <1>1 DEF Without, Restrict
<1>10. DirsRight'
  <2>1. IsFiniteSet(DOMAIN dirs')
    BY <1>9, FS_RemoveElement DEF IInv, DirsRight
  <2>2. \A x \in DOMAIN dirs : dirs[x].ents \subseteq Root .. next - 1
    BY DEF IInv, DirsRight
  <2> QED BY <1>4, <1>6, <1>9, <2>1, <2>2 DEF DirsRight
<1>11. LooksRight'
  <2>1. knl' = knl /\ pend' = pend
    BY <1>1 DEF kernel
  <2> QED BY <1>1, <1>4, <1>6, <2>1 DEF LooksRight
<1>12. DrefsRight'
  <2> SUFFICES ASSUME NEW k \in DOMAIN paths' \ {Root}
               PROVE  Count(drefs', k) = Cardinality(Opens(k, dirs'))
    BY DEF DrefsRight
  <2>1. Count(drefs, k) = Cardinality(Opens(k, dirs))
    BY <1>6
  <2>2. IsFiniteSet(Opens(k, dirs)) /\ Cardinality(Opens(k, dirs)) \in Nat
    BY OpensFinite
  <2>3. Opens(k, dirs') = Opens(k, dirs) \ {fh}
    BY <1>9 DEF Opens
  <2>4. fh \in Opens(k, dirs) <=> k \in ents
    BY DEF Opens
  <2>5. Cardinality(Opens(k, dirs')) = Cardinality(Opens(k, dirs)) - (IF k \in ents THEN 1 ELSE 0)
    <3>1. CASE k \in ents
      <4>1. fh \in Opens(k, dirs)
        BY <2>4, <3>1
      <4>2. Cardinality(Opens(k, dirs')) = Cardinality(Opens(k, dirs)) - 1
        BY <2>2, <2>3, <4>1, FS_RemoveElement
      <4> QED BY <3>1, <4>2
    <3>2. CASE k \notin ents
      <4>1. fh \notin Opens(k, dirs)
        BY <2>4, <3>2
      <4>2. Cardinality(Opens(k, dirs')) = Cardinality(Opens(k, dirs))
        BY <2>2, <2>3, <4>1, FS_RemoveElement
      <4> QED BY <2>2, <3>2, <4>2
    <3> QED BY <3>1, <3>2
  <2>6. CASE k \in DOMAIN drefs
    BY <1>4, <1>6, <2>1, <2>5, <2>6
  <2>7. CASE k \notin DOMAIN drefs
    <3>1. Count(drefs, k) = 0 /\ Count(drefs', k) = 0
      BY <1>4, <1>6, <2>7 DEF Count
    <3>2. Opens(k, dirs) = {}
      BY <2>1, <2>2, <3>1, FS_EmptySet
    <3>3. Opens(k, dirs') = {}
      BY <2>3, <3>2
    <3> QED BY <3>1, <3>3, FS_EmptySet
  <2> QED BY <2>6, <2>7
<1> QED BY <1>6, <1>7, <1>8, <1>10, <1>11, <1>12 DEF IInv

LEMMA RelsFinite == IsFiniteSet(Rels)
<1> DEFINE tops == {<<d>> : d \in Dirs}
           below == {<<d, f>> : d \in Dirs, f \in Files}
           top == [d \in Dirs |-> <<d>>]
<1>1. IsFiniteSet(Dirs) /\ IsFiniteSet(Files)
  BY InodeAssumption
<1>2. top \in Surjection(Dirs, tops)
  BY DEF Surjection
<1>3. IsFiniteSet(tops)
  <2> HIDE DEF top, tops
  <2> QED BY <1>1, <1>2, FS_Surjection
<1>4. IsFiniteSet(below)
  <2>1. below = Dirs \X Files
    OBVIOUS
  <2> QED BY <1>1, <2>1, FS_Product
<1>5. IsFiniteSet({<<>>})
  BY FS_Singleton
<1>6. IsFiniteSet({<<>>} \cup tops)
  <2> HIDE DEF tops
  <2> QED BY <1>3, <1>5, FS_Union
<1>7. IsFiniteSet(({<<>>} \cup tops) \cup below)
  <2> HIDE DEF tops, below
  <2> QED BY <1>4, <1>6, FS_Union
<1>8. Rels = ({<<>>} \cup tops) \cup below
  BY DEF Rels
<1> QED BY <1>7, <1>8

\* What a commit does: the entries it numbers, and whom it refers to.
LEMMA CommitTable ==
  ASSUME IInv, NEW i \in DOMAIN paths, NEW rel, NEW cands \in SUBSET Rels,
         NEW new, new = Materialize(T, cands),
         NEW ents, ents = {i, ParentIno(rel)} \cup {new.inodes[r] : r \in cands},
         NEW u, u = AddRefs(new, ents)
  PROVE  /\ Sound(u) /\ Follows(T, u) /\ Kept(u) /\ u.next = new.next
         /\ u.looks = looks /\ u.paths = new.paths /\ u.inodes = new.inodes
         /\ ents \subseteq DOMAIN u.paths /\ ents \subseteq Root .. u.next - 1
         /\ \A k : k # Root => Count(u.drefs, k) = Count(drefs, k) + (IF k \in ents THEN 1 ELSE 0)
         /\ \A r \in cands : u.inodes[r] = new.inodes[r] /\ u.paths[new.inodes[r]] = r
<1>1. Sound(T) /\ Kept(T)
  BY DEF IInv, TableRight
<1>2. T.looks = looks /\ T.drefs = drefs /\ T.next = next /\ T.paths = paths /\ T.inodes = inodes
  BY DEF T
<1>3. IsFiniteSet(cands)
  BY RelsFinite, FS_Subset
<1>4. /\ Sound(new) /\ Follows(T, new) /\ new.looks = looks /\ new.drefs = drefs
      /\ DOMAIN paths \subseteq DOMAIN new.paths
      /\ cands \subseteq DOMAIN new.inodes
      /\ \A k \in DOMAIN new.paths : k \in DOMAIN paths \/ k \in {new.inodes[r] : r \in cands}
  BY <1>1, <1>2, <1>3, MaterializeSound
<1>5. ParentIno(rel) \in DOMAIN paths
  <2>1. Root \in DOMAIN paths
    BY <1>1, <1>2 DEF Sound
  <2>2. \A r \in DOMAIN inodes : inodes[r] \in DOMAIN paths
    BY <1>1, <1>2 DEF Sound
  <2> QED BY <2>1, <2>2 DEF ParentIno
<1>6. \A r \in cands : new.inodes[r] \in DOMAIN new.paths /\ new.paths[new.inodes[r]] = r
  BY <1>4 DEF Sound
<1>7. ents \subseteq DOMAIN new.paths
  BY <1>4, <1>5, <1>6
<1>8. {new.inodes[r] : r \in cands} \subseteq ents /\ ents \subseteq ents
  OBVIOUS
<1>9. /\ Sound(u) /\ Follows(new, u) /\ u.next = new.next /\ u.looks = new.looks
      /\ u.inodes = new.inodes /\ u.paths = new.paths
      /\ DOMAIN u.drefs = DOMAIN new.drefs \cup (ents \ {Root})
      /\ \A k : k # Root => Count(u.drefs, k) = Count(new.drefs, k) + (IF k \in ents THEN 1 ELSE 0)
  BY <1>4, <1>7, AddRefsSound
<1>10. Follows(T, u)
  BY <1>4, <1>9 DEF Follows
<1>11. Kept(u)
  <2> SUFFICES ASSUME NEW k \in DOMAIN u.paths \ {Root} PROVE k \in DOMAIN u.looks \cup DOMAIN u.drefs
    BY DEF Kept
  <2>1. CASE k \in DOMAIN paths
    <3>1. k \in DOMAIN looks \cup DOMAIN drefs
      BY <1>1, <1>2, <2>1 DEF Kept
    <3> QED BY <1>4, <1>9, <3>1
  <2>2. CASE k \in {new.inodes[r] : r \in cands}
    BY <1>8, <1>9, <2>2
  <2> QED BY <1>4, <1>9, <2>1, <2>2
<1>12. DOMAIN u.paths \subseteq Root .. u.next - 1
  BY <1>9 DEF Sound
<1>13. ents \subseteq DOMAIN u.paths /\ ents \subseteq Root .. u.next - 1
  BY <1>7, <1>9, <1>12
<1>14. \A k : k # Root => Count(u.drefs, k) = Count(drefs, k) + (IF k \in ents THEN 1 ELSE 0)
  BY <1>4, <1>9
<1>15. \A r \in cands : u.inodes[r] = new.inodes[r] /\ u.paths[new.inodes[r]] = r
  BY <1>6, <1>9
<1>16. u.looks = looks
  BY <1>4, <1>9
<1> QED BY <1>9, <1>10, <1>11, <1>13, <1>14, <1>15, <1>16

\* The entries a commit refers to have the paths it found.
LEMMA CommitPaths ==
  ASSUME IInv, NEW cands \in SUBSET Rels, NEW ents
  PROVE  LET new == Materialize(T, cands)
         IN \A r \in cands : AddRefs(new, ents).paths[new.inodes[r]] = r
<1> DEFINE new == Materialize(T, cands)
<1>1. Sound(T) /\ IsFiniteSet(cands)
  BY RelsFinite, FS_Subset DEF IInv, TableRight
<1>2. Sound(new) /\ cands \subseteq DOMAIN new.inodes
  BY <1>1, MaterializeSound
<1> HIDE DEF new
<1>3. "paths" \in DOMAIN new /\ \A r \in cands : new.paths[new.inodes[r]] = r
  BY <1>2 DEF Sound
<1>4. AddRefs(new, ents).paths = new.paths
  BY <1>3 DEF AddRefs
<1>5. \A r \in cands : AddRefs(new, ents).paths[new.inodes[r]] = r
  BY <1>3, <1>4
<1> QED BY <1>5 DEF new

LEMMA CommitStep == ASSUME IInv, NEW t \in Threads, Commit(t) PROVE IInv'
<1> DEFINE j == jobs[t]
           new == Materialize(T, j.cands)
           ents == {j.ino, ParentIno(j.rel)} \cup {new.inodes[r] : r \in j.cands}
           u == AddRefs(new, ents)
           again == [op |-> "scan", ino |-> j.ino, rel |-> paths[j.ino], ver |-> ver[j.ino]]
<1>1. j.op = "commit" /\ UNCHANGED <<disk, kernel>>
  BY DEF Commit
<1>2. JobRight(j, paths, next) /\ Sound(T) /\ next <= MaxIno + 1 /\ disk \subseteq Rels /\ DOMAIN jobs = Threads
  BY DEF IInv, JobsRight, TableRight
<1>3. j.rel \in Rels /\ j.cands \in SUBSET Rels
  BY <1>1, <1>2 DEF JobRight
<1>4. jobs[t].op # "stat"
  BY <1>1
<1>5. UNCHANGED <<table, dirs, kernel>> /\ Goto(t, again) /\ j.ino \in DOMAIN paths => IInv'
  <2> SUFFICES ASSUME UNCHANGED <<table, dirs, kernel>>, Goto(t, again), j.ino \in DOMAIN paths PROVE IInv'
    OBVIOUS
  <2>1. paths[j.ino] \in Rels
    BY <1>2 DEF Sound, T
  <2>2. again.op = "scan" /\ again.rel = paths[j.ino] /\ "op" \in DOMAIN again
    OBVIOUS
  <2>3. jobs' = [jobs EXCEPT ![t] = again] /\ disk' \subseteq Rels
    BY <1>1, <1>2 DEF Goto
  <2> HIDE DEF again, j
  <2>4. JobRight(again, paths, next) /\ again.op # "stat"
    BY <2>1, <2>2 DEF JobRight
  <2> QED BY <1>4, <2>3, <2>4, JobStep
<1>6. UNCHANGED <<table, dirs, kernel>> /\ Done(t) => IInv'
  <2> SUFFICES ASSUME UNCHANGED <<table, dirs, kernel>>, Done(t) PROVE IInv'
    OBVIOUS
  <2>1. jobs' = [jobs EXCEPT ![t] = Idle] /\ disk' \subseteq Rels
    BY <1>1, <1>2 DEF Done, Goto
  <2> QED BY <1>4, <2>1, IdleRight, JobStep
<1>7. ASSUME j.ino \in DOMAIN paths, NEW fh \in Handles \ DOMAIN dirs, new.next <= MaxIno + 1, SetTable(u),
             dirs' = With(dirs, fh, [ino |-> j.ino, ents |-> ents]), Done(t)
      PROVE  IInv'
  <2>1. jobs' = [jobs EXCEPT ![t] = Idle]
    BY <1>7 DEF Done, Goto
  <2> HIDE DEF j
  <2>0. /\ new = Materialize(T, j.cands) /\ u = AddRefs(new, ents)
        /\ ents = {j.ino, ParentIno(j.rel)} \cup {new.inodes[r] : r \in j.cands}
    OBVIOUS
  <2> HIDE DEF u, ents, new
  <2>2. /\ Sound(u) /\ Follows(T, u) /\ Kept(u) /\ u.next = new.next /\ u.looks = looks
        /\ ents \subseteq Root .. u.next - 1
        /\ \A k : k # Root => Count(u.drefs, k) = Count(drefs, k) + (IF k \in ents THEN 1 ELSE 0)
    BY <1>3, <1>7, <2>0, CommitTable
  <2>3. SetTable(u) /\ u.next <= MaxIno + 1 /\ dirs' = With(dirs, fh, [ino |-> j.ino, ents |-> ents])
    BY <1>7, <2>2
  <2>4. /\ TableRight' /\ Grows(paths, next, paths', next') /\ paths' = u.paths /\ next' = u.next
        /\ looks' = u.looks /\ drefs' = u.drefs
        /\ \A k \in DOMAIN paths' \ {Root} :
             /\ Count(looks, k) = Count(knl, k) + Count(pend, k) + Cardinality(Stats(k, jobs))
             /\ Count(drefs, k) = Cardinality(Opens(k, dirs))
    BY <2>2, <2>3, TableInv
  <2>5. JobsRight'
    BY <2>1, <2>4, IdleRight, JobsGrow
  <2>6. KernelRight' /\ disk' \subseteq Rels
    <3>1. UNCHANGED kernel /\ disk' = disk
      BY <1>1
    <3> QED BY <1>2, <2>4, <3>1, KernelGrow
  <2>7. /\ DOMAIN dirs' = DOMAIN dirs \cup {fh} /\ fh \notin DOMAIN dirs
        /\ dirs'[fh].ents = ents /\ \A x \in DOMAIN dirs : dirs'[x] = dirs[x]
    BY <2>3 DEF With
  <2>8. DirsRight'
    <3>1. IsFiniteSet(DOMAIN dirs')
      BY <2>7, FS_AddElement DEF IInv, DirsRight
    <3>2. \A x \in DOMAIN dirs : dirs[x].ents \subseteq Root .. next' - 1
      BY <2>4, GrowsKeeps DEF IInv, DirsRight
    <3>3. ents \subseteq Root .. next' - 1
      BY <2>2, <2>4
    <3> QED BY <2>7, <3>1, <3>2, <3>3 DEF DirsRight
  <2>9. LooksRight'
    <3> SUFFICES ASSUME NEW k \in DOMAIN paths' \ {Root}
                 PROVE  Count(looks', k) = Count(knl', k) + Count(pend', k) + Cardinality(Stats(k, jobs'))
      BY DEF LooksRight
    <3>1. jobs'[t] = Idle /\ \A x \in Threads : x # t => jobs'[x] = jobs[x]
      BY <1>2, <2>1
    <3>2. Cardinality(Stats(k, jobs')) = Cardinality(Stats(k, jobs))
      BY <1>4, <3>1, IdleRight, StatsSame
    <3>3. knl' = knl /\ pend' = pend
      BY <1>1 DEF kernel
    <3> QED BY <2>2, <2>4, <3>2, <3>3
  <2>10. DrefsRight'
    <3> SUFFICES ASSUME NEW k \in DOMAIN paths' \ {Root}
                 PROVE  Count(drefs', k) = Cardinality(Opens(k, dirs'))
      BY DEF DrefsRight
    <3>1. IsFiniteSet(Opens(k, dirs)) /\ Cardinality(Opens(k, dirs)) \in Nat
      BY OpensFinite
    <3>2. Count(drefs', k) = Cardinality(Opens(k, dirs)) + (IF k \in ents THEN 1 ELSE 0)
      BY <2>2, <2>4
    <3>3. CASE k \in ents
      <4>1. Opens(k, dirs') = Opens(k, dirs) \cup {fh} /\ fh \notin Opens(k, dirs)
        BY <2>7, <3>3 DEF Opens
      <4>2. Cardinality(Opens(k, dirs')) = Cardinality(Opens(k, dirs)) + 1
        BY <3>1, <4>1, FS_AddElement
      <4> QED BY <3>2, <3>3, <4>2
    <3>4. CASE k \notin ents
      <4>1. Opens(k, dirs') = Opens(k, dirs)
        BY <2>7, <3>4 DEF Opens
      <4> QED BY <3>1, <3>2, <3>4, <4>1
    <3> QED BY <3>3, <3>4
  <2> QED BY <2>4, <2>5, <2>6, <2>8, <2>9, <2>10 DEF IInv
<1>8. \/ /\ j.ino \in DOMAIN paths
         /\ \E fh \in Handles \ DOMAIN dirs : /\ new.next <= MaxIno + 1 /\ SetTable(u)
                                              /\ dirs' = With(dirs, fh, [ino |-> j.ino, ents |-> ents])
         /\ Done(t)
      \/ j.ino \in DOMAIN paths /\ Goto(t, again) /\ UNCHANGED <<table, dirs>>
      \/ Done(t) /\ UNCHANGED <<table, dirs>>
  BY DEF Commit
<1>9. UNCHANGED kernel
  BY <1>1
<1> HIDE DEF j, new, ents, u, again
<1> QED BY <1>5, <1>6, <1>7, <1>8, <1>9

-----------------------------------------------------------------------------
LEMMA IInvNext == IInv /\ [Next]_vars => IInv'
<1> SUFFICES ASSUME IInv, [Next]_vars PROVE IInv'
  OBVIOUS
<1>1. ASSUME NEW t \in Threads, Lookup(t) \/ Create(t) \/ CreateOnDisk(t) \/ Insert(t) \/ ReplyEntry(t)
      PROVE  IInv'
  BY <1>1, LookupStep, CreateStep, CreateOnDiskStep, InsertStep, ReplyEntryStep
<1>2. ASSUME NEW t \in Threads, RemoveChild(t) \/ RemoveOnDisk(t) \/ RemoveInodePath(t)
      PROVE  IInv'
  BY <1>2, RemoveChildStep, RemoveOnDiskStep, RemoveInodePathStep
<1>3. ASSUME NEW t \in Threads, Rename(t) \/ RenameOnDisk(t) \/ RemapInodePath(t)
      PROVE  IInv'
  BY <1>3, RenameStep, RenameOnDiskStep, RemapInodePathStep
<1>4. ASSUME NEW t \in Threads, OpenDir(t) \/ Scan(t) \/ Commit(t)
      PROVE  IInv'
  BY <1>4, OpenDirStep, ScanStep, CommitStep
<1>5. ASSUME ReleaseDir \/ Evict \/ Forget PROVE IInv'
  BY <1>5, ReleaseDirStep, EvictStep, ForgetStep
<1>6. CASE UNCHANGED vars
  BY <1>6 DEF vars, IInv, TableRight, Kept, Sound, T, JobsRight, KernelRight, DirsRight, LooksRight, DrefsRight
<1> QED BY <1>1, <1>2, <1>3, <1>4, <1>5, <1>6 DEF Next

LEMMA Inductive == Spec => []IInv
BY IInvInit, IInvNext, PTL DEF Spec

\* A path mapped to a number is the one kept for that number, and numbers, paths and
\* counts are in range
\* (fuse_redirect/inode.rs: ino_for_path_locked, remap_inode_path, materialize_dir_entries).
LEMMA TableTypeCorrect == IInv => TypeOK
<1> SUFFICES ASSUME IInv PROVE TypeOK
  OBVIOUS
<1>1. Sound(T) /\ next <= MaxIno + 1 /\ disk \subseteq Rels
  BY DEF IInv, TableRight
<1>2. next \in 1 .. MaxIno + 1
  BY <1>1, InodeAssumption DEF Sound, T, Root
<1> QED BY <1>1, <1>2 DEF Sound, T, TypeOK, Root

\* An inode of the table counts exactly the lookups that the kernel has still to give
\* back and the open listings it is in, and one that has neither is not kept
\* (fuse_redirect/inode.rs: remove_lookup_locked, add_dir_entry_refs, remove_dir_entry_refs).
LEMMA CountsAreExact == IInv => CountsExact
<1> SUFFICES ASSUME IInv, NEW i \in DOMAIN paths \ {Root}
             PROVE  /\ Count(looks, i) = Count(knl, i) + Count(pend, i)
                                         + Cardinality({t \in Threads : jobs[t].op = "stat" /\ jobs[t].ino = i})
                    /\ Count(drefs, i) = Cardinality({fh \in DOMAIN dirs : i \in dirs[fh].ents})
                    /\ Count(looks, i) + Count(drefs, i) > 0
  BY DEF CountsExact
<1>1. Count(looks, i) = Count(knl, i) + Count(pend, i) + Cardinality(Stats(i, jobs))
  BY DEF IInv, LooksRight
<1>2. Count(drefs, i) = Cardinality(Opens(i, dirs))
  BY DEF IInv, DrefsRight
<1>3. Count(looks, i) \in Nat /\ Count(drefs, i) \in Nat /\ (Count(looks, i) > 0 \/ Count(drefs, i) > 0)
  BY DEF IInv, TableRight, Sound, Kept, T, Count
<1>4. Count(looks, i) + Count(drefs, i) > 0
  BY <1>3
<1> QED BY <1>1, <1>2, <1>4 DEF Stats, Opens

\* In every behaviour the table's maps agree, and an inode counts exactly the lookups
\* the kernel has still to give back and the open listings it is in; one that has
\* neither is not kept (fuse_redirect/inode.rs and fuse_redirect/mod.rs).
THEOREM TableIsSound == Spec => []TableSound
<1>1. IInv => TableSound
  BY TableTypeCorrect, CountsAreExact DEF TableSound
<1> QED BY <1>1, Inductive, PTL

\* What opendir commits are children of the path its directory has at that moment,
\* whatever was renamed while the storage was scanned (fuse_redirect/callbacks.rs: opendir
\* compares path and version again under the lock).
THEOREM ListingsCurrent == Spec => ListingCurrent
<1> DEFINE Current ==
      \A fh \in DOMAIN dirs' \ DOMAIN dirs :
         \A i \in dirs'[fh].ents :
            \/ i \in {Root, dirs'[fh].ino, ParentIno(paths[dirs'[fh].ino])}
            \/ Parent(paths'[i]) = paths[dirs'[fh].ino]
<1>1. IInv /\ [Next]_vars => Current
  <2> SUFFICES ASSUME IInv, [Next]_vars, NEW fh \in DOMAIN dirs' \ DOMAIN dirs, NEW i \in dirs'[fh].ents
               PROVE  \/ i \in {Root, dirs'[fh].ino, ParentIno(paths[dirs'[fh].ino])}
                      \/ Parent(paths'[i]) = paths[dirs'[fh].ino]
    OBVIOUS
  <2>1. ASSUME NEW t \in Threads, Commit(t)
        PROVE  \/ i \in {Root, dirs'[fh].ino, ParentIno(paths[dirs'[fh].ino])}
               \/ Parent(paths'[i]) = paths[dirs'[fh].ino]
    <3> DEFINE j == jobs[t]
               new == Materialize(T, j.cands)
               ents == {j.ino, ParentIno(j.rel)} \cup {new.inodes[r] : r \in j.cands}
               u == AddRefs(new, ents)
    <3>1. /\ j.op = "commit" /\ j.ino \in DOMAIN paths /\ paths[j.ino] = j.rel
          /\ \E h \in Handles \ DOMAIN dirs : SetTable(u) /\ dirs' = With(dirs, h, [ino |-> j.ino, ents |-> ents])
      BY <2>1 DEF Commit, Unmoved
    <3>2. JobRight(j, paths, next)
      BY DEF IInv, JobsRight
    <3>3. j.cands \in SUBSET Rels /\ \A r \in j.cands : Parent(r) = j.rel
      BY <3>1, <3>2 DEF JobRight
    <3> HIDE DEF j
    <3>4. \A r \in j.cands : u.paths[new.inodes[r]] = r
      <4>1. j.cands \in SUBSET Rels
        BY <3>3
      <4> QED BY <4>1, CommitPaths
    <3>5. SetTable(u)
      BY <3>1
    <3>6. paths' = u.paths
      <4> HIDE DEF u
      <4> QED BY <3>5 DEF SetTable
    <3>7. dirs'[fh].ino = j.ino /\ dirs'[fh].ents = ents
      <4> HIDE DEF ents
      <4> QED BY <3>1 DEF With
    <3>8. CASE i \in {j.ino, ParentIno(j.rel)}
      BY <3>1, <3>7, <3>8
    <3>9. CASE i \in {new.inodes[r] : r \in j.cands}
      <4>1. PICK r \in j.cands : i = new.inodes[r]
        BY <3>9
      <4>2. Parent(paths'[i]) = j.rel
        <5> HIDE DEF u, new
        <5> QED BY <3>3, <3>4, <3>6, <4>1
      <4> QED BY <3>1, <3>7, <4>2
    <3> QED BY <3>7, <3>8, <3>9
  <2>2. DOMAIN dirs' # DOMAIN dirs /\ ~(DOMAIN dirs' \subseteq DOMAIN dirs)
    OBVIOUS
  <2>3. ~ReleaseDir
    BY <2>2 DEF ReleaseDir, Without, Restrict
  <2>4. dirs' # dirs
    BY <2>2
  <2>5. ~Evict /\ ~Forget /\ ~UNCHANGED vars
    BY <2>4 DEF Evict, Forget, vars
  <2>6. \A t \in Threads : /\ ~Lookup(t) /\ ~Create(t) /\ ~CreateOnDisk(t) /\ ~Insert(t) /\ ~ReplyEntry(t)
    BY <2>4 DEF Lookup, Create, CreateOnDisk, Insert, ReplyEntry
  <2>7. \A t \in Threads : ~RemoveChild(t) /\ ~RemoveOnDisk(t) /\ ~RemoveInodePath(t)
    BY <2>4 DEF RemoveChild, RemoveOnDisk, RemoveInodePath
  <2>8. \A t \in Threads : ~Rename(t) /\ ~RenameOnDisk(t) /\ ~RemapInodePath(t) /\ ~OpenDir(t) /\ ~Scan(t)
    BY <2>4 DEF Rename, RenameOnDisk, RemapInodePath, OpenDir, Scan
  <2>9. \E t \in Threads : Commit(t)
    BY <2>3, <2>5, <2>6, <2>7, <2>8 DEF Next
  <2> QED BY <2>1, <2>9
<1>2. IInv /\ [Next]_vars => [Current]_vars
  BY <1>1
<1> QED BY <1>1, Inductive, PTL DEF Spec, ListingCurrent

=============================================================================
