------------------------- MODULE DirListing_proofs -------------------------
(***************************************************************************)
(* Proofs about directory listings, for any file systems, INI files and    *)
(* lengths of the array.  The places of a listing have an order, and each  *)
(* state of the calls of process_read_dir() under way stands for one point *)
(* of it (Progress): the entries are those of the places before that       *)
(* point, and the calls behind it have their entry in reserve (Counts).    *)
(*                                                                         *)
(* OpenInv says what the names of a listing mean to translate_path(): the  *)
(* open folder is the one found for the path asked for (Opened), entries   *)
(* of its own are in it (OwnSo), and a name that is seen for the first     *)
(* time is in no folder before its own (NamesSo).  The sizes of folders    *)
(* are shown exact from the deepest ones up (AllExact).                    *)
(***************************************************************************)
EXTENDS DirListing, Recursion, SequenceTheorems

EntrySet == [name : STRING, dir : BOOLEAN, size : Nat]
PathSet == Seq(STRING)

-----------------------------------------------------------------------------
(* Sets and sequences *)

LEMMA GreatestExists ==
    ASSUME NEW n \in Nat
    PROVE  \A S \in SUBSET (0 .. n) : 0 \in S => \E x \in S : \A y \in S : x >= y
<1> DEFINE P(m) == \A S \in SUBSET (0 .. m) : 0 \in S => \E x \in S : \A y \in S : x >= y
           C == {m \in Nat : P(m)}
<1>1. 0 \in C
  <2>1. ASSUME NEW S \in SUBSET (0 .. 0), 0 \in S PROVE \A y \in S : 0 >= y
    OBVIOUS
  <2> QED
    BY <2>1
<1>2. ASSUME NEW k \in Nat, k \in C PROVE k + 1 \in C
  <2>1. ASSUME NEW S \in SUBSET (0 .. k + 1), 0 \in S PROVE \E x \in S : \A y \in S : x >= y
    <3>1. CASE k + 1 \in S
      <4>1. \A y \in S : k + 1 >= y
        BY <2>1
      <4> QED
        BY <3>1, <4>1
    <3>2. CASE k + 1 \notin S
      <4>1. S \in SUBSET (0 .. k)
        BY <2>1, <3>2
      <4> QED
        BY <1>2, <2>1, <4>1
    <3> QED
      BY <3>1, <3>2
  <2> QED
    BY <2>1
<1> HIDE DEF C
<1>3. n \in C
  BY <1>1, <1>2, SetInduction
<1> QED
  BY <1>3 DEF C

LEMMA FiniteImage ==
    ASSUME NEW S, IsFiniteSet(S), NEW f, f = [x \in S |-> f[x]]
    PROVE  IsFiniteSet({f[x] : x \in S})
<1> DEFINE T == {f[x] : x \in S}
<1>1. f \in [S -> T]
  OBVIOUS
<1>2. f \in Surjection(S, T)
  BY <1>1 DEF Surjection
<1> HIDE DEF T
<1>3. IsFiniteSet(T)
  BY <1>2, FS_Surjection
<1> QED
  BY <1>3 DEF T

\* The end of a sequence.
Suffix(t, s, S) ==
    /\ t \in Seq(S) /\ s \in Seq(S) /\ Len(t) \in Nat /\ Len(s) \in Nat /\ Len(t) <= Len(s)
    /\ \A i \in 1 .. Len(t) : t[i] = s[Len(s) - Len(t) + i]

LEMMA SuffixWhole ==
    ASSUME NEW S, NEW s \in Seq(S)
    PROVE  Suffix(s, s, S)
BY DEF Suffix

LEMMA SuffixEmpty ==
    ASSUME NEW S, NEW s \in Seq(S)
    PROVE  Suffix(<< >>, s, S)
BY DEF Suffix

LEMMA SuffixTail ==
    ASSUME NEW S, NEW t, NEW s, Suffix(t, s, S), t # << >>
    PROVE  /\ Suffix(Tail(t), s, S) /\ Len(Tail(t)) = Len(t) - 1 /\ Len(t) \in Nat \ {0}
           /\ Head(t) = s[Len(s) - Len(t) + 1] /\ Head(t) \in S
           /\ Len(s) - Len(t) + 1 \in 1 .. Len(s)
<1>1. t \in Seq(S) /\ s \in Seq(S) /\ Len(t) \in Nat /\ Len(s) \in Nat /\ Len(t) <= Len(s)
  BY DEF Suffix
<1>2. Len(t) \in Nat \ {0} /\ Len(Tail(t)) = Len(t) - 1 /\ Tail(t) \in Seq(S) /\ Head(t) = t[1] /\ Head(t) \in S
  BY <1>1
<1>3. \A i \in 1 .. Len(t) - 1 : Tail(t)[i] = t[i + 1]
  BY <1>1, <1>2
<1>4. Head(t) = s[Len(s) - Len(t) + 1]
  BY <1>2 DEF Suffix
<1>5. ASSUME NEW i \in 1 .. Len(Tail(t)) PROVE Tail(t)[i] = s[Len(s) - Len(Tail(t)) + i]
  <2>1. i \in 1 .. Len(t) - 1 /\ i + 1 \in 1 .. Len(t)
    BY <1>1, <1>2
  <2>2. Tail(t)[i] = s[Len(s) - Len(t) + (i + 1)]
    BY <1>3, <2>1 DEF Suffix
  <2>3. Len(s) - Len(t) + (i + 1) = Len(s) - Len(Tail(t)) + i
    BY <1>1, <1>2, <2>1
  <2> QED
    BY <2>2, <2>3
<1>6. Suffix(Tail(t), s, S)
  BY <1>1, <1>2, <1>5 DEF Suffix
<1>7. Len(s) - Len(t) + 1 \in 1 .. Len(s)
  BY <1>1, <1>2
<1> QED
  BY <1>2, <1>4, <1>6, <1>7

LEMMA Tuples ==
    ASSUME NEW f, NEW g, NEW h
    PROVE  /\ << >> # <<f>> /\ << >> # <<g, f>> /\ <<f>> # <<g, h>>
           /\ Head(<<f>>) = f /\ Tail(<<f>>) = << >> /\ <<h>> \o << >> = <<h>>
           /\ Head(<<g, f>>) = g /\ Tail(<<g, f>>) = <<f>> /\ <<h>> \o <<f>> = <<h, f>>
<1> DEFINE S == {f, g, h}
<1>1. /\ << >> \in Seq(S) /\ <<f>> \in Seq(S) /\ <<h>> \in Seq(S) /\ <<g, f>> \in Seq(S) /\ <<h, f>> \in Seq(S)
      /\ Len(<< >>) = 0 /\ Len(<<f>>) = 1 /\ Len(<<h>>) = 1 /\ Len(<<g, f>>) = 2 /\ Len(<<h, f>>) = 2
  OBVIOUS
<1>2. << >> # <<f>> /\ << >> # <<g, f>> /\ <<f>> # <<g, h>>
  OBVIOUS
<1>3. Head(<<f>>) = f /\ Head(<<g, f>>) = g
  OBVIOUS
<1> HIDE DEF S
<1>4. Tail(<<f>>) = << >>
  <2>1. Tail(<<f>>) \in Seq(S) /\ Len(Tail(<<f>>)) = 0
    BY <1>1, <1>2, HeadTailProperties
  <2> QED
    BY <2>1
<1>5. Tail(<<g, f>>) = <<f>>
  <2>1. Tail(<<g, f>>) \in Seq(S) /\ Len(Tail(<<g, f>>)) = 1 /\ Tail(<<g, f>>)[1] = <<g, f>>[2]
    BY <1>1, <1>2, HeadTailProperties
  <2> QED
    BY <1>1, <2>1
<1>6. <<h>> \o << >> = <<h>>
  BY <1>1, ConcatEmptySeq
<1>7. <<h>> \o <<f>> = <<h, f>>
  <2>1. /\ <<h>> \o <<f>> \in Seq(S) /\ Len(<<h>> \o <<f>>) = 2
        /\ (<<h>> \o <<f>>)[1] = h /\ (<<h>> \o <<f>>)[2] = f
    <3>1. /\ <<h>> \o <<f>> \in Seq(S) /\ Len(<<h>> \o <<f>>) = Len(<<h>>) + Len(<<f>>)
          /\ \A i \in 1 .. Len(<<h>>) + Len(<<f>>) :
                (<<h>> \o <<f>>)[i] = IF i <= Len(<<h>>) THEN <<h>>[i] ELSE <<f>>[i - Len(<<h>>)]
      BY <1>1, ConcatProperties
    <3> QED
      BY <1>1, <3>1
  <2> DEFINE hf == <<h>> \o <<f>>
             ht == <<h, f>>
  <2>2. hf \in [1 .. 2 -> S] /\ ht \in [1 .. 2 -> S]
    <3> HIDE DEF hf, ht
    <3>1. hf \in Seq(S) /\ Len(hf) = 2 /\ ht \in Seq(S) /\ Len(ht) = 2
      BY <1>1, <2>1 DEF hf, ht
    <3> QED
      BY <3>1
  <2>3. \A i \in 1 .. 2 : hf[i] = ht[i]
    <3>1. ht[1] = h /\ ht[2] = f
      OBVIOUS
    <3>2. \A i \in 1 .. 2 : i = 1 \/ i = 2
      OBVIOUS
    <3> QED
      BY <2>1, <3>1, <3>2
  <2> HIDE DEF hf, ht
  <2>4. hf = ht
    BY <2>2, <2>3
  <2> QED
    BY <2>4 DEF hf, ht
<1> QED
  BY <1>2, <1>3, <1>4, <1>5, <1>6, <1>7

-----------------------------------------------------------------------------
(* What there is to list *)

LEMMA FoldersTyped ==
    ASSUME world \in Worlds
    PROVE  /\ DOMAIN world.dir \subseteq PathSet
           /\ \A d \in DOMAIN world.dir : world.dir[d] \in Seq(EntrySet) /\ Len(world.dir[d]) \in Nat
           /\ \A d \in DOMAIN world.dir : \A i \in 1 .. Len(world.dir[d]) :
                 /\ world.dir[d][i] \in EntrySet /\ world.dir[d][i].dir \in BOOLEAN
                 /\ world.dir[d][i].dir => Append(d, world.dir[d][i].name) \in DOMAIN world.dir
<1>1. /\ DOMAIN world.dir \subseteq PathSet
      /\ world.dir \in [DOMAIN world.dir -> Seq(EntrySet)]
      /\ \A d \in DOMAIN world.dir : \A i \in 1 .. Len(world.dir[d]) :
            world.dir[d][i].dir => Append(d, world.dir[d][i].name) \in DOMAIN world.dir
  BY WorldsAssumption DEF PathSet, EntrySet
<1>2. \A d \in DOMAIN world.dir : world.dir[d] \in Seq(EntrySet) /\ Len(world.dir[d]) \in Nat
  <2>1. \A d \in DOMAIN world.dir : world.dir[d] \in Seq(EntrySet)
    BY <1>1
  <2> QED
    BY <2>1
<1>3. \A d \in DOMAIN world.dir : \A i \in 1 .. Len(world.dir[d]) :
         world.dir[d][i] \in EntrySet
  BY <1>2
<1>4. \A e \in EntrySet : e.dir \in BOOLEAN
  BY DEF EntrySet
<1> QED
  BY <1>1, <1>2, <1>3, <1>4

\* The lines in the buffer are paths, those found behind it as well.
LEMMA LinesReadTyped ==
    ASSUME world \in Worlds, NEW d \in DOMAIN world.ini
    PROVE  /\ LinesRead(d) \in Seq(PathSet) /\ Len(LinesRead(d)) \in Nat
           /\ \A i \in 1 .. Len(LinesRead(d)) : LinesRead(d)[i] # << >>
<1> DEFINE s == world.ini[d]
           b == world.beyond[d]
           m == MAX_LINK_LEN - 1
           c == Prefix(s, m)
<1>1. s \in Seq(PathSet) /\ b \in Seq(PathSet)
  <2>1. /\ world.ini \in [DOMAIN world.ini -> Seq(PathSet)]
        /\ world.beyond \in [DOMAIN world.ini -> Seq(PathSet)]
    BY WorldsAssumption DEF PathSet
  <2> QED
    BY <2>1
<1>2. (\A i \in 1 .. Len(s) : s[i] # << >>) /\ (\A i \in 1 .. Len(b) : b[i] # << >>)
  BY PathsAssumption
<1>3. CASE Len(s) < MAX_LINK_LEN
  BY <1>1, <1>2, <1>3 DEF LinesRead
<1>4. CASE ~(Len(s) < MAX_LINK_LEN)
  <2>1. LinesRead(d) = c \o b
    BY <1>4 DEF LinesRead
  <2>2. m \in Nat /\ m <= Len(s) /\ Len(s) \in Nat /\ 1 \in Int /\ m \in Int
    BY <1>1, <1>4, EntriesAssumption
  <2> HIDE DEF s, b, m
  <2>3. \A i \in 1 .. m : s[i] \in PathSet
    BY <1>1, <2>2
  <2>4. /\ c \in Seq(PathSet) /\ Len(c) = IF 1 <= m THEN m - 1 + 1 ELSE 0
        /\ \A i \in 1 .. m - 1 + 1 : c[i] = s[1 + i - 1]
    BY <2>2, <2>3, SubSeqProperties DEF Prefix
  <2>5. Len(c) = m /\ \A i \in 1 .. m : c[i] = s[i]
    BY <2>2, <2>4
  <2> HIDE DEF c
  <2>6. /\ c \o b \in Seq(PathSet) /\ Len(c \o b) = Len(c) + Len(b)
        /\ \A i \in 1 .. Len(c) + Len(b) : (c \o b)[i] = IF i <= Len(c) THEN c[i] ELSE b[i - Len(c)]
    BY <1>1, <2>4, ConcatProperties
  <2>7. Len(b) \in Nat /\ Len(c \o b) \in Nat
    BY <1>1, <2>6
  <2>8. ASSUME NEW i \in 1 .. Len(c \o b) PROVE (c \o b)[i] # << >>
    <3>1. CASE i <= m
      <4>1. i \in 1 .. Len(s) /\ (c \o b)[i] = s[i]
        BY <2>2, <2>5, <2>6, <2>7, <3>1
      <4> QED
        BY <1>2, <4>1
    <3>2. CASE ~(i <= m)
      <4>1. i - m \in 1 .. Len(b) /\ (c \o b)[i] = b[i - m]
        BY <2>2, <2>5, <2>6, <2>7, <3>2
      <4> QED
        BY <1>2, <4>1
    <3> QED
      BY <3>1, <3>2
  <2> QED
    BY <2>1, <2>6, <2>7, <2>8
<1> QED
  BY <1>3, <1>4

LEMMA LinesTyped ==
    ASSUME world \in Worlds, NEW p \in PathSet
    PROVE  LinesOf(p) \in Seq(PathSet) /\ Len(LinesOf(p)) \in Nat
<1> DEFINE S == {0} \cup {n \in 1 .. Len(p) : Prefix(p, n) \in DOMAIN world.ini}
<1>1. Len(p) \in Nat
  BY DEF PathSet
<1>2. S \in SUBSET (0 .. Len(p)) /\ 0 \in S
  BY <1>1
<1>3. IniOf(p) \in S
  <2>1. \E x \in S : \A y \in S : x >= y
    BY <1>1, <1>2, GreatestExists
  <2> HIDE DEF S
  <2>2. Max(S) \in S
    BY <2>1 DEF Max
  <2> QED
    BY <2>2 DEF IniOf, S
<1>5. CASE IniOf(p) = 0
  BY <1>5 DEF LinesOf
<1>6. CASE IniOf(p) # 0
  <2>1. Prefix(p, IniOf(p)) \in DOMAIN world.ini
    BY <1>3, <1>6
  <2>2. LinesOf(p) \in Seq(PathSet)
    BY <1>6, <2>1, LinesReadTyped DEF LinesOf
  <2> QED
    BY <2>2
<1> QED
  BY <1>5, <1>6

LEMMA FolderFacts ==
    ASSUME world \in Worlds, IsDir(dirpath)
    PROVE  /\ Len(LinesOf(dirpath)) \in Nat /\ LinesOf(dirpath) \in Seq(PathSet)
           /\ Folders \subseteq 0 .. Len(LinesOf(dirpath)) /\ 0 \in Folders /\ IsFiniteSet(Folders)
           /\ \A k \in Folders : Folder(k) \in DOMAIN world.dir /\ Len(world.dir[Folder(k)]) \in Nat
<1>1. dirpath \in PathSet /\ dirpath \in DOMAIN world.dir
  BY FoldersTyped DEF IsDir
<1>2. Len(LinesOf(dirpath)) \in Nat /\ LinesOf(dirpath) \in Seq(PathSet)
  BY <1>1, LinesTyped
<1>3. Folders \subseteq 0 .. Len(LinesOf(dirpath)) /\ \A k \in Folders : Folder(k) \in DOMAIN world.dir
  BY DEF Folders, IsDir
<1>4. Folder(0) = dirpath
  BY DEF Folder
<1>5. 0 \in Folders
  BY <1>2, <1>4 DEF Folders
<1>6. IsFiniteSet(Folders)
  <2>1. IsFiniteSet(0 .. Len(LinesOf(dirpath)))
    BY <1>2, FS_Interval
  <2> QED
    BY <1>3, <2>1, FS_Subset
<1> QED
  BY <1>2, <1>3, <1>5, <1>6, FoldersTyped

\* The places, one by one.
IsPlace(p) ==
    /\ p = <<p[1], p[2], p[3]>> /\ p[1] \in Folders /\ p[1] \in Nat
    /\ p[2] \in 1 .. Len(world.dir[Folder(p[1])]) /\ p[2] \in Nat /\ p[3] \in Nat
    /\ IF asked.subdirs /\ Item(p[1], p[2]).dir
       THEN /\ p[3] \in 1 .. Len(world.dir[Below(p[1], p[2])])
            /\ ~world.dir[Below(p[1], p[2])][p[3]].dir
       ELSE p[3] = 0

LEMMA PlaceFacts ==
    ASSUME world \in Worlds, IsDir(dirpath)
    PROVE  IsFiniteSet(Places) /\ \A p : p \in Places <=> IsPlace(p)
<1> DEFINE Inner(k, j) == {l \in 1 .. Len(world.dir[Below(k, j)]) : ~world.dir[Below(k, j)][l].dir}
<1>1. ASSUME NEW k \in Folders, NEW j \in 1 .. Len(world.dir[Folder(k)])
      PROVE  /\ k \in Nat /\ j \in Nat /\ Item(k, j).dir \in BOOLEAN
             /\ Item(k, j).dir => Below(k, j) \in DOMAIN world.dir /\ Len(world.dir[Below(k, j)]) \in Nat
  <2>1. k \in Nat /\ Folder(k) \in DOMAIN world.dir /\ Len(world.dir[Folder(k)]) \in Nat
    BY FolderFacts
  <2>2. Item(k, j).dir \in BOOLEAN /\ (Item(k, j).dir => Below(k, j) \in DOMAIN world.dir)
    BY <2>1, FoldersTyped DEF Item, Below
  <2> QED
    BY <2>1, <2>2, FoldersTyped
<1>2. ASSUME NEW p, p \in Places PROVE IsPlace(p)
  <2>1. PICK k \in Folders : p \in PlacesOf(k)
    BY <1>2 DEF Places
  <2>2. PICK j \in 1 .. Len(world.dir[Folder(k)]) : p \in PlacesAt(k, j)
    BY <2>1 DEF PlacesOf
  <2>3. CASE asked.subdirs /\ Item(k, j).dir
    <3>1. PICK l \in Inner(k, j) : p = <<k, j, l>>
      BY <2>2, <2>3 DEF PlacesAt
    <3>2. l \in 1 .. Len(world.dir[Below(k, j)]) /\ ~world.dir[Below(k, j)][l].dir
      OBVIOUS
    <3>3. p[1] = k /\ p[2] = j /\ p[3] = l /\ l \in Nat
      BY <1>1, <2>3, <3>1, <3>2
    <3> QED
      BY <1>1, <2>3, <3>1, <3>2, <3>3 DEF IsPlace
  <2>4. CASE ~(asked.subdirs /\ Item(k, j).dir)
    <3>1. p = <<k, j, 0>>
      BY <2>2, <2>4 DEF PlacesAt
    <3>2. p[1] = k /\ p[2] = j /\ p[3] = 0
      BY <3>1
    <3> QED
      BY <1>1, <2>4, <3>1, <3>2 DEF IsPlace
  <2> QED
    BY <2>3, <2>4
<1>3. ASSUME NEW p, IsPlace(p) PROVE p \in Places
  <2> DEFINE k == p[1]
             j == p[2]
  <2>1. p = <<k, j, p[3]>> /\ k \in Folders /\ j \in 1 .. Len(world.dir[Folder(k)])
    BY <1>3 DEF IsPlace
  <2>2. p \in PlacesAt(k, j)
    <3>1. CASE asked.subdirs /\ Item(k, j).dir
      <4>1. p[3] \in Inner(k, j)
        BY <1>3, <3>1 DEF IsPlace
      <4> QED
        BY <2>1, <3>1, <4>1 DEF PlacesAt
    <3>2. CASE ~(asked.subdirs /\ Item(k, j).dir)
      <4>1. p[3] = 0
        BY <1>3, <3>2 DEF IsPlace
      <4> QED
        BY <2>1, <3>2, <4>1 DEF PlacesAt
    <3> QED
      BY <3>1, <3>2
  <2> QED
    BY <2>1, <2>2 DEF Places, PlacesOf
<1>4. ASSUME NEW k \in Folders, NEW j \in 1 .. Len(world.dir[Folder(k)]) PROVE IsFiniteSet(PlacesAt(k, j))
  <2>1. CASE asked.subdirs /\ Item(k, j).dir
    <3> DEFINE f == [l \in Inner(k, j) |-> <<k, j, l>>]
    <3>1. IsFiniteSet(Inner(k, j))
      <4>1. IsFiniteSet(1 .. Len(world.dir[Below(k, j)]))
        <5>1. Len(world.dir[Below(k, j)]) \in Int
          BY <1>1, <2>1
        <5> QED
          BY <5>1, FS_Interval
      <4>2. Inner(k, j) \in SUBSET (1 .. Len(world.dir[Below(k, j)]))
        OBVIOUS
      <4> HIDE DEF Inner
      <4> QED
        BY <4>1, <4>2, FS_Subset
    <3>2. IsFiniteSet({f[l] : l \in Inner(k, j)})
      <4>1. f = [l \in Inner(k, j) |-> f[l]]
        OBVIOUS
      <4> HIDE DEF f, Inner
      <4> QED
        BY <3>1, <4>1, FiniteImage
    <3>3. PlacesAt(k, j) = {f[l] : l \in Inner(k, j)}
      BY <2>1 DEF PlacesAt
    <3> QED
      BY <3>2, <3>3
  <2>2. CASE ~(asked.subdirs /\ Item(k, j).dir)
    BY <2>2, FS_Singleton DEF PlacesAt
  <2> QED
    BY <2>1, <2>2
<1>5. ASSUME NEW k \in Folders PROVE IsFiniteSet(PlacesOf(k))
  <2> DEFINE J == 1 .. Len(world.dir[Folder(k)])
             f == [j \in J |-> PlacesAt(k, j)]
  <2>1. IsFiniteSet(J)
    <3>1. Len(world.dir[Folder(k)]) \in Int
      BY FolderFacts
    <3> QED
      BY <3>1, FS_Interval
  <2>2. IsFiniteSet({f[j] : j \in J})
    <3>1. f = [j \in J |-> f[j]]
      OBVIOUS
    <3> HIDE DEF f, J
    <3> QED
      BY <2>1, <3>1, FiniteImage
  <2>3. \A T \in {f[j] : j \in J} : IsFiniteSet(T)
    BY <1>4
  <2>4. PlacesOf(k) = UNION {f[j] : j \in J}
    BY DEF PlacesOf
  <2> QED
    BY <2>2, <2>3, <2>4, FS_UNION
<1>6. IsFiniteSet(Places)
  <2> DEFINE f == [k \in Folders |-> PlacesOf(k)]
  <2>1. IsFiniteSet({f[k] : k \in Folders})
    <3>1. f = [k \in Folders |-> f[k]]
      OBVIOUS
    <3> HIDE DEF f
    <3> QED
      BY <3>1, FolderFacts, FiniteImage
  <2>2. \A T \in {f[k] : k \in Folders} : IsFiniteSet(T)
    BY <1>5
  <2>3. Places = UNION {f[k] : k \in Folders}
    BY DEF Places
  <2> QED
    BY <2>1, <2>2, <2>3, FS_UNION
<1> QED
  BY <1>2, <1>3, <1>6

\* The calls, one by one.
IsCall(c) ==
    /\ c = <<c[1], c[2]>> /\ c[1] \in Folders /\ c[1] \in Nat /\ c[2] \in Nat
    /\ \/ c[2] = 0
       \/ c[2] \in 1 .. Len(world.dir[Folder(c[1])]) /\ asked.subdirs /\ Item(c[1], c[2]).dir

LEMMA CallFacts ==
    ASSUME world \in Worlds, IsDir(dirpath)
    PROVE  IsFiniteSet(Calls) /\ \A c : c \in Calls <=> IsCall(c)
<1> DEFINE J(k) == {j \in 1 .. Len(world.dir[Folder(k)]) : asked.subdirs /\ Item(k, j).dir}
<1>1. \A k \in Folders : k \in Nat /\ Len(world.dir[Folder(k)]) \in Nat
  BY FolderFacts
<1>2. ASSUME NEW c, c \in Calls PROVE IsCall(c)
  <2>1. PICK k \in Folders : c \in CallsFor(k)
    BY <1>2 DEF Calls
  <2>2. c = <<k, 0>> \/ \E j \in J(k) : c = <<k, j>>
    BY <2>1 DEF CallsFor
  <2>3. CASE c = <<k, 0>>
    <3>1. c[1] = k /\ c[2] = 0
      BY <2>3
    <3> QED
      BY <1>1, <2>3, <3>1 DEF IsCall
  <2>4. CASE \E j \in J(k) : c = <<k, j>>
    <3>1. PICK j \in J(k) : c = <<k, j>>
      BY <2>4
    <3>2. c[1] = k /\ c[2] = j /\ j \in Nat
      BY <1>1, <3>1
    <3> QED
      BY <1>1, <3>1, <3>2 DEF IsCall
  <2> QED
    BY <2>2, <2>3, <2>4
<1>3. ASSUME NEW c, IsCall(c) PROVE c \in Calls
  <2>1. c \in CallsFor(c[1])
    BY <1>3 DEF IsCall, CallsFor
  <2> QED
    BY <1>3, <2>1 DEF IsCall, Calls
<1>4. ASSUME NEW k \in Folders PROVE IsFiniteSet(CallsFor(k))
  <2> DEFINE f == [j \in J(k) |-> <<k, j>>]
  <2>1. IsFiniteSet(J(k))
    <3>1. IsFiniteSet(1 .. Len(world.dir[Folder(k)]))
      <4>1. Len(world.dir[Folder(k)]) \in Int
        BY <1>1
      <4> QED
        BY <4>1, FS_Interval
    <3> QED
      BY <3>1, FS_Subset
  <2>2. IsFiniteSet({f[j] : j \in J(k)})
    <3>1. f = [j \in J(k) |-> f[j]]
      OBVIOUS
    <3> HIDE DEF f, J
    <3> QED
      BY <2>1, <3>1, FiniteImage
  <2>3. CallsFor(k) = {f[j] : j \in J(k)} \cup {<<k, 0>>}
    BY DEF CallsFor
  <2> QED
    BY <2>2, <2>3, FS_AddElement
<1>5. IsFiniteSet(Calls)
  <2> DEFINE f == [k \in Folders |-> CallsFor(k)]
  <2>1. IsFiniteSet({f[k] : k \in Folders})
    <3>1. f = [k \in Folders |-> f[k]]
      OBVIOUS
    <3> HIDE DEF f
    <3> QED
      BY <3>1, FolderFacts, FiniteImage
  <2>2. \A T \in {f[k] : k \in Folders} : IsFiniteSet(T)
    BY <1>4
  <2>3. Calls = UNION {f[k] : k \in Folders}
    BY DEF Calls
  <2> QED
    BY <2>1, <2>2, <2>3, FS_UNION
<1> QED
  BY <1>2, <1>3, <1>5

-----------------------------------------------------------------------------
(* Entries and places *)

LEMMA PlaceOrder ==
    ASSUME NEW p, NEW q, NEW r, IsPlace(p), IsPlace(q), IsPlace(r)
    PROVE  /\ UpTo(p, p) /\ (UpTo(p, q) \/ UpTo(q, p))
           /\ UpTo(p, q) /\ UpTo(q, r) => UpTo(p, r)
           /\ UpTo(p, q) /\ UpTo(q, p) => p = q
<1>1. /\ p[1] \in Nat /\ p[2] \in Nat /\ p[3] \in Nat /\ p = <<p[1], p[2], p[3]>>
      /\ q[1] \in Nat /\ q[2] \in Nat /\ q[3] \in Nat /\ q = <<q[1], q[2], q[3]>>
      /\ r[1] \in Nat /\ r[2] \in Nat /\ r[3] \in Nat
  BY DEF IsPlace
<1>2. /\ UpTo(p, p) /\ (UpTo(p, q) \/ UpTo(q, p))
      /\ UpTo(p, q) /\ UpTo(q, r) => UpTo(p, r)
      /\ UpTo(p, q) /\ UpTo(q, p) => p[1] = q[1] /\ p[2] = q[2] /\ p[3] = q[3]
  BY <1>1 DEF UpTo
<1> QED
  BY <1>1, <1>2

PlacesUpTo(q) == {p \in Places : UpTo(p, q)}

LEMMA Ranks ==
    ASSUME world \in Worlds, IsDir(dirpath)
    PROVE  /\ Cardinality(Places) \in Nat
           /\ \A q : IsFiniteSet(PlacesUpTo(q)) /\ Rank(q) = Cardinality(PlacesUpTo(q)) /\ Rank(q) \in Nat
           /\ \A q \in Places : Rank(q) # 0
           /\ \A p, q \in Places : UpTo(p, q) => Rank(p) <= Rank(q)
           /\ \A p, q \in Places : UpTo(p, q) /\ p # q => Rank(p) < Rank(q)
<1>1. IsFiniteSet(Places) /\ \A p : p \in Places <=> IsPlace(p)
  BY PlaceFacts
<1>2. \A q : PlacesUpTo(q) \in SUBSET Places /\ Rank(q) = Cardinality(PlacesUpTo(q))
  BY DEF PlacesUpTo, Rank
<1>3. \A q : IsFiniteSet(PlacesUpTo(q)) /\ Rank(q) \in Nat
  BY <1>1, <1>2, FS_Subset, FS_CardinalityType
<1>4. ASSUME NEW q \in Places PROVE Rank(q) # 0
  <2>1. q \in PlacesUpTo(q)
    BY <1>1, PlaceOrder DEF PlacesUpTo
  <2> QED
    BY <1>2, <1>3, <2>1, FS_EmptySet
<1>5. ASSUME NEW p \in Places, NEW q \in Places, UpTo(p, q)
      PROVE  Rank(p) <= Rank(q) /\ (p # q => Rank(p) < Rank(q))
  <2>1. PlacesUpTo(p) \in SUBSET PlacesUpTo(q)
    BY <1>1, <1>5, PlaceOrder DEF PlacesUpTo
  <2>2. p # q => q \in PlacesUpTo(q) /\ q \notin PlacesUpTo(p)
    BY <1>1, <1>5, PlaceOrder DEF PlacesUpTo
  <2>3. /\ Cardinality(PlacesUpTo(p)) <= Cardinality(PlacesUpTo(q))
        /\ Cardinality(PlacesUpTo(p)) = Cardinality(PlacesUpTo(q)) => PlacesUpTo(p) = PlacesUpTo(q)
    BY <1>3, <2>1, FS_Subset
  <2> QED
    BY <1>2, <1>3, <2>2, <2>3
<1>6. Cardinality(Places) \in Nat
  BY <1>1, FS_CardinalityType
<1> QED
  BY <1>2, <1>3, <1>4, <1>5, <1>6

\* The entries so far are those of the places that have been passed; once the
\* array is full they are those of the first places.
ListedSo(en, passed) ==
    IF Len(en) < max_items
    THEN Len(en) = Cardinality(passed) /\ \A p \in passed : en[Rank(p)].src = PathAt(p)
    ELSE /\ Cardinality(Places) >= max_items
         /\ \A p \in Places : Rank(p) <= max_items => en[Rank(p)].src = PathAt(p)

\* The array is exceeded by no more than one entry for each call, and those
\* under way and still to come have their one in reserve.
Bounded(n, depth, ahead) ==
    /\ Cardinality(ahead) + depth <= Cardinality(Calls)
    /\ n >= max_items => n + depth + Cardinality(ahead) <= max_items + Cardinality(Calls) - 1

Counts(en, fl, depth, ahead, passed) ==
    /\ \E S : en \in Seq(S)
    /\ ahead \in SUBSET Calls /\ passed \in SUBSET Places
    /\ Bounded(Len(en), depth, ahead)
    /\ fl = {} => ListedSo(en, passed)

\* A step that adds no entry, makes no call, and passes no place.
LEMMA CountsSkip ==
    ASSUME world \in Worlds, IsDir(dirpath), max_items \in Nat, NEW en, NEW fl, NEW fl2,
           NEW depth \in Nat, NEW depth2 \in Nat, depth2 <= depth,
           NEW ahead, NEW ahead2 \in SUBSET ahead,
           NEW passed, NEW passed2 \in SUBSET Places,
           Counts(en, fl, depth, ahead, passed),
           fl2 = {} => fl = {} /\ passed2 = passed
    PROVE  Counts(en, fl2, depth2, ahead2, passed2)
<1>1. IsFiniteSet(Calls) /\ ahead \in SUBSET Calls /\ \E S : en \in Seq(S)
  BY CallFacts DEF Counts
<1>2. IsFiniteSet(ahead) /\ IsFiniteSet(ahead2)
  BY <1>1, FS_Subset
<1>3. /\ Cardinality(ahead) \in Nat /\ Cardinality(ahead2) \in Nat /\ Cardinality(Calls) \in Nat
      /\ Cardinality(ahead2) <= Cardinality(ahead)
  BY <1>1, <1>2, FS_Subset, FS_CardinalityType
<1>4. Len(en) \in Nat
  BY <1>1
<1>5. Bounded(Len(en), depth2, ahead2)
  BY <1>3, <1>4 DEF Counts, Bounded
<1> QED
  BY <1>1, <1>5 DEF Counts

\* A call of process_read_dir() begins.
LEMMA CountsCall ==
    ASSUME world \in Worlds, IsDir(dirpath), max_items \in Nat, NEW en, NEW fl, NEW fl2,
           NEW depth \in Nat, NEW ahead, NEW ahead2 \in SUBSET ahead,
           NEW c \in ahead, c \notin ahead2,
           NEW passed, NEW passed2 \in SUBSET Places,
           Counts(en, fl, depth, ahead, passed),
           fl2 = {} => fl = {} /\ passed2 = passed
    PROVE  Counts(en, fl2, depth + 1, ahead2, passed2)
<1>1. IsFiniteSet(Calls) /\ ahead \in SUBSET Calls /\ \E S : en \in Seq(S)
  BY CallFacts DEF Counts
<1>2. IsFiniteSet(ahead) /\ ahead2 \in SUBSET (ahead \ {c})
  BY <1>1, FS_Subset
<1>3. IsFiniteSet(ahead \ {c}) /\ Cardinality(ahead \ {c}) = Cardinality(ahead) - 1
  BY <1>2, FS_RemoveElement
<1>4. IsFiniteSet(ahead2) /\ Cardinality(ahead2) <= Cardinality(ahead \ {c})
  BY <1>2, <1>3, FS_Subset
<1>5. Cardinality(ahead) \in Nat /\ Cardinality(ahead2) \in Nat /\ Cardinality(Calls) \in Nat
  BY <1>1, <1>2, <1>4, FS_CardinalityType
<1>6. Len(en) \in Nat
  BY <1>1
<1>7. Bounded(Len(en), depth + 1, ahead2)
  BY <1>3, <1>4, <1>5, <1>6 DEF Counts, Bounded
<1> QED
  BY <1>1, <1>7 DEF Counts

LEMMA AppendFacts ==
    ASSUME NEW en, NEW x, \E S : en \in Seq(S)
    PROVE  /\ Len(en) \in Nat /\ Len(Append(en, x)) = Len(en) + 1 /\ \E S : Append(en, x) \in Seq(S)
           /\ \A i \in 1 .. Len(en) : Append(en, x)[i] = en[i]
           /\ Append(en, x)[Len(en) + 1] = x
<1>1. PICK S : en \in Seq(S)
  OBVIOUS
<1>2. en \in Seq(S \cup {x})
  BY <1>1
<1>3. Append(en, x) \in Seq(S \cup {x})
  BY <1>2, AppendProperties
<1>4. /\ Len(en) \in Nat /\ Len(Append(en, x)) = Len(en) + 1
      /\ \A i \in 1 .. Len(en) : Append(en, x)[i] = en[i]
      /\ Append(en, x)[Len(en) + 1] = x
  BY <1>2, AppendProperties
<1> QED
  BY <1>3, <1>4

\* q is the place that comes after those passed, and x stands for it unless a
\* system call has failed.
NextPlace(q, passed) == q \in Places /\ q \notin passed /\ passed \cup {q} = PlacesUpTo(q)
Shows(x, q, fl, fl2) == fl2 = {} => fl = {} /\ x.src = PathAt(q)

\* An entry is added for place q: the innermost call returns if the array is
\* full, else it has passed the place.
LEMMA CountsAdd ==
    ASSUME world \in Worlds, IsDir(dirpath), max_items \in Nat \ {0}, NEW en, NEW fl, NEW fl2,
           NEW depth \in Nat \ {0}, NEW ahead, NEW passed, NEW q, NEW x,
           Counts(en, fl, depth, ahead, passed), NextPlace(q, passed), Shows(x, q, fl, fl2)
    PROVE  \A ahead2 \in SUBSET ahead, passed2 \in SUBSET Places :
              /\ Full(Len(en) + 1) => Counts(Append(en, x), fl2, depth - 1, ahead2, passed2)
              /\ ~Full(Len(en) + 1) => Counts(Append(en, x), fl2, depth, ahead2, passed \cup {q})
<1> SUFFICES ASSUME NEW ahead2 \in SUBSET ahead, NEW passed2 \in SUBSET Places
             PROVE  /\ Full(Len(en) + 1) => Counts(Append(en, x), fl2, depth - 1, ahead2, passed2)
                    /\ ~Full(Len(en) + 1) => Counts(Append(en, x), fl2, depth, ahead2, passed \cup {q})
  OBVIOUS
<1>0. /\ q \in Places /\ q \notin passed /\ passed \cup {q} = PlacesUpTo(q)
      /\ fl2 = {} => fl = {} /\ x.src = PathAt(q)
  BY DEF NextPlace, Shows
<1> DEFINE n == Len(en)
           en2 == Append(en, x)
<1>1. IsFiniteSet(Calls) /\ ahead \in SUBSET Calls /\ passed \in SUBSET Places /\ \E S : en \in Seq(S)
  BY CallFacts DEF Counts
<1>2. IsFiniteSet(ahead) /\ IsFiniteSet(ahead2)
  BY <1>1, FS_Subset
<1>3. /\ Cardinality(ahead) \in Nat /\ Cardinality(ahead2) \in Nat /\ Cardinality(Calls) \in Nat
      /\ Cardinality(ahead2) <= Cardinality(ahead)
  BY <1>1, <1>2, FS_Subset, FS_CardinalityType
<1>4. /\ n \in Nat /\ Len(en2) = n + 1 /\ \E S : en2 \in Seq(S)
      /\ \A i \in 1 .. n : en2[i] = en[i]
      /\ en2[n + 1] = x
  BY <1>1, AppendFacts
<1> HIDE DEF n, en2
<1>5. Bounded(n, depth, ahead)
  BY DEF Counts, n
<1>6. n + 1 >= max_items => Bounded(n + 1, depth - 1, ahead2)
  BY <1>3, <1>4, <1>5 DEF Bounded
<1>7. n + 1 < max_items => Bounded(n + 1, depth, ahead2)
  BY <1>3, <1>4, <1>5 DEF Bounded
<1>8. \A p : p \in Places <=> IsPlace(p)
  BY PlaceFacts
<1>9. \A p \in passed : UpTo(p, q) /\ p # q /\ p \in Places
  BY <1>0, <1>1 DEF PlacesUpTo
<1>10. ASSUME fl2 = {} PROVE ListedSo(en2, passed \cup {q}) /\ (n + 1 >= max_items => ListedSo(en2, passed2))
  <2>1. ListedSo(en, passed) /\ x.src = PathAt(q)
    BY <1>0, <1>10 DEF Counts
  <2>2. IsFiniteSet(passed) /\ Rank(q) = Cardinality(passed) + 1 /\ Cardinality(passed) \in Nat
    <3>1. IsFiniteSet(passed \cup {q}) /\ Rank(q) = Cardinality(passed \cup {q})
      BY <1>0, Ranks
    <3>2. IsFiniteSet(passed)
      BY <3>1, FS_Subset
    <3> QED
      BY <1>0, <3>1, <3>2, FS_AddElement, FS_CardinalityType
  <2>3. \A p \in passed : Rank(p) \in 1 .. Cardinality(passed)
    BY <1>0, <1>9, <2>2, Ranks
  <2>4. CASE n >= max_items
    <3>1. /\ Cardinality(Places) >= max_items
          /\ \A p \in Places : Rank(p) <= max_items => en[Rank(p)].src = PathAt(p)
      BY <1>4, <2>1, <2>4 DEF ListedSo, n
    <3>2. \A p \in Places : Rank(p) <= max_items => Rank(p) \in 1 .. n
      BY <1>4, <2>4, Ranks
    <3>3. \A p \in Places : Rank(p) <= max_items => en2[Rank(p)].src = PathAt(p)
      BY <1>4, <3>1, <3>2
    <3>4. ~(Len(en2) < max_items)
      BY <1>4, <2>4
    <3> QED
      BY <3>1, <3>3, <3>4 DEF ListedSo
  <2>5. CASE n < max_items
    <3>1. n = Cardinality(passed) /\ \A p \in passed : en[Rank(p)].src = PathAt(p)
      BY <2>1, <2>5 DEF ListedSo, n
    <3>2. \A p \in passed \cup {q} : en2[Rank(p)].src = PathAt(p)
      <4>1. \A p \in passed : en2[Rank(p)] = en[Rank(p)]
        BY <1>4, <2>3, <3>1
      <4>2. en2[Rank(q)] = x
        BY <1>4, <2>2, <3>1
      <4> QED
        BY <2>1, <3>1, <4>1, <4>2
    <3>3. Cardinality(passed \cup {q}) = n + 1
      BY <1>0, <2>2, <3>1, FS_AddElement
    <3>4. CASE n + 1 < max_items
      BY <1>4, <3>2, <3>3, <3>4 DEF ListedSo
    <3>5. CASE n + 1 = max_items
      <4>1. Cardinality(Places) >= max_items
        <5>1. IsFiniteSet(Places) /\ passed \cup {q} \in SUBSET Places
          BY <1>0, <1>1, PlaceFacts
        <5>2. Cardinality(passed \cup {q}) <= Cardinality(Places)
          BY <5>1, FS_Subset
        <5> QED
          BY <3>3, <3>5, <5>2
      <4>2. ASSUME NEW p \in Places, Rank(p) <= max_items PROVE p \in passed \cup {q}
        <5>1. ~UpTo(p, q) => UpTo(q, p) /\ p # q
          BY <1>0, <1>8, PlaceOrder
        <5>2. Rank(q) = max_items /\ Rank(p) \in Nat
          BY <2>2, <3>1, <3>5, Ranks
        <5>3. UpTo(p, q)
          BY <1>0, <4>2, <5>1, <5>2, Ranks
        <5> QED
          BY <1>0, <5>3 DEF PlacesUpTo
      <4>3. \A p \in Places : Rank(p) <= max_items => en2[Rank(p)].src = PathAt(p)
        BY <3>2, <4>2
      <4>4. ~(Len(en2) < max_items)
        BY <1>4, <3>5
      <4> QED
        BY <4>1, <4>3, <4>4 DEF ListedSo
    <3> QED
      BY <1>4, <2>5, <3>4, <3>5
  <2> QED
    BY <1>4, <2>4, <2>5
<1>11. CASE Full(n + 1)
  <2>1. n + 1 >= max_items
    BY <1>11 DEF Full
  <2>2. Counts(en2, fl2, depth - 1, ahead2, passed2)
    BY <1>1, <1>4, <1>6, <1>10, <2>1 DEF Counts
  <2> QED
    BY <1>11, <2>2 DEF n, en2
<1>12. CASE ~Full(n + 1)
  <2>1. n + 1 < max_items
    BY <1>4, <1>12 DEF Full
  <2>2. passed \cup {q} \in SUBSET Places
    BY <1>0, <1>1
  <2>3. Counts(en2, fl2, depth, ahead2, passed \cup {q})
    BY <1>1, <1>4, <1>7, <1>10, <2>1, <2>2 DEF Counts
  <2> QED
    BY <1>12, <2>3 DEF n, en2
<1> QED
  BY <1>11, <1>12 DEF n

\* What is to be listed does not change while it is listed.
LEMMA SameLines ==
    ASSUME UNCHANGED <<world, asked, dirpath>>
    PROVE  LinesOf(dirpath)' = LinesOf(dirpath)
<1>1. IniOf(dirpath)' = IniOf(dirpath)
  BY DEF IniOf, Prefix
<1> QED
  BY <1>1 DEF LinesOf, LinesRead, Prefix

LEMMA SamePlaces ==
    ASSUME UNCHANGED <<world, asked, dirpath>>
    PROVE  /\ Folders' = Folders /\ \A k : Folder(k)' = Folder(k)
           /\ \A k, j : Item(k, j)' = Item(k, j) /\ Below(k, j)' = Below(k, j)
           /\ Places' = Places /\ Calls' = Calls
           /\ \A p : Rank(p)' = Rank(p) /\ PathAt(p)' = PathAt(p)
<1>1. \A k : Folder(k)' = Folder(k)
  BY SameLines DEF Folder
<1>2. Folders' = Folders
  BY <1>1, SameLines DEF Folders, IsDir
<1>3. \A k, j : Item(k, j)' = Item(k, j) /\ Below(k, j)' = Below(k, j)
  BY <1>1 DEF Item, Below
<1>4. \A k, j : PlacesAt(k, j)' = PlacesAt(k, j)
  BY <1>3 DEF PlacesAt
<1>5. \A k : PlacesOf(k)' = PlacesOf(k)
  BY <1>1, <1>4 DEF PlacesOf
<1>6. Places' = Places
  BY <1>2, <1>5 DEF Places
<1>7. \A k : CallsFor(k)' = CallsFor(k)
  BY <1>1, <1>3 DEF CallsFor
<1>8. Calls' = Calls
  BY <1>2, <1>7 DEF Calls
<1>9. \A p : Rank(p)' = Rank(p)
  BY <1>6 DEF Rank
<1>10. \A p : PathAt(p)' = PathAt(p)
  BY <1>3 DEF PathAt
<1> QED
  BY <1>1, <1>2, <1>3, <1>6, <1>8, <1>9, <1>10

-----------------------------------------------------------------------------
(* How far the calls under way have come *)

PassedFolders(k) == {p \in Places : p[1] <= k}
PassedEntries(k, j) == {p \in Places : p[1] < k \/ (p[1] = k /\ p[2] <= j)}
CallsAfter(k) == {c \in Calls : c[1] > k}
CallsPast(k, j) == {c \in Calls : c[1] > k \/ (c[1] = k /\ c[2] > j)}

FrameSet == [dir : PathSet, todo : Seq(EntrySet), subdirs : 0 .. 2, own : BOOLEAN, skip : Nat]

\* How many lines of the INI file, and how many entries of a folder, are done.
K(ln) == Len(LinesOf(dirpath)) - Len(ln)
J(f) == Len(world.dir[f.dir]) - Len(f.todo)

\* f is the call for folder k, and g the one for the entry f has come to.
Outer(f, k) ==
    /\ f \in FrameSet /\ k \in Folders /\ f.dir = Folder(k)
    /\ f.subdirs = IF asked.subdirs THEN 1 ELSE 0
    /\ Suffix(f.todo, world.dir[f.dir], EntrySet)
Inner(g, f, k) ==
    /\ g \in FrameSet /\ asked.subdirs
    /\ J(f) \in 1 .. Len(world.dir[Folder(k)]) /\ Item(k, J(f)).dir
    /\ g.dir = Below(k, J(f)) /\ g.subdirs = 2
    /\ Suffix(g.todo, world.dir[g.dir], EntrySet)

NoCall(st, ln, en, fl) ==
    st = << >> /\ Counts(en, fl, 0, CallsAfter(K(ln)), PassedFolders(K(ln)))
OneCall(st, ln, en, fl) ==
    \E f : /\ st = <<f>> /\ Outer(f, K(ln))
           /\ Counts(en, fl, 1, CallsPast(K(ln), J(f)), PassedEntries(K(ln), J(f)))
TwoCalls(st, ln, en, fl) ==
    \E f, g : /\ st = <<g, f>> /\ Outer(f, K(ln)) /\ Inner(g, f, K(ln))
              /\ Counts(en, fl, 2, CallsPast(K(ln), J(f)), PlacesUpTo(<<K(ln), J(f), J(g)>>))

Progress(st, ln, en, fl) ==
    /\ Suffix(ln, LinesOf(dirpath), PathSet)
    /\ NoCall(st, ln, en, fl) \/ OneCall(st, ln, en, fl) \/ TwoCalls(st, ln, en, fl)

Fits == world \in Worlds /\ IsDir(dirpath) /\ max_items \in Nat \ {0}

LEMMA Difference ==
    ASSUME NEW a \in Nat, NEW b \in Nat, b <= a, NEW c, c = b - 1
    PROVE  a - b \in 0 .. a /\ a - b \in Nat /\ a - c = (a - b) + 1
OBVIOUS

LEMMA FrameFacts ==
    ASSUME Fits, NEW k, NEW f, Outer(f, k)
    PROVE  /\ k \in Nat /\ f.dir \in DOMAIN world.dir /\ Len(world.dir[f.dir]) \in Nat
           /\ J(f) \in 0 .. Len(world.dir[f.dir]) /\ J(f) \in Nat
           /\ f.todo = << >> => J(f) = Len(world.dir[f.dir])
           /\ f.todo # << >> =>
                 /\ J(f) + 1 \in 1 .. Len(world.dir[Folder(k)]) /\ Head(f.todo) = Item(k, J(f) + 1)
                 /\ Item(k, J(f) + 1).dir \in BOOLEAN
                 /\ Append(f.dir, Head(f.todo).name) = Below(k, J(f) + 1)
                 /\ Item(k, J(f) + 1).dir => Below(k, J(f) + 1) \in DOMAIN world.dir
                 /\ LET r == [f EXCEPT !.todo = Tail(@)]
                    IN  Outer(r, k) /\ J(r) = J(f) + 1 /\ r.dir = f.dir
<1>1. k \in Folders /\ f.dir = Folder(k) /\ f \in FrameSet /\ Suffix(f.todo, world.dir[f.dir], EntrySet)
  BY DEF Outer
<1>2. k \in Nat /\ f.dir \in DOMAIN world.dir /\ Len(world.dir[f.dir]) \in Nat
  BY <1>1, FolderFacts DEF Fits
<1>3. Len(f.todo) \in Nat /\ Len(f.todo) <= Len(world.dir[f.dir])
  BY <1>1 DEF Suffix
<1>4. J(f) \in 0 .. Len(world.dir[f.dir]) /\ J(f) \in Nat
  BY <1>2, <1>3, Difference DEF J
<1>5. f.todo = << >> => J(f) = Len(world.dir[f.dir])
  BY <1>2 DEF J
<1>6. ASSUME f.todo # << >>
      PROVE  /\ J(f) + 1 \in 1 .. Len(world.dir[Folder(k)]) /\ Head(f.todo) = Item(k, J(f) + 1)
             /\ Item(k, J(f) + 1).dir \in BOOLEAN
             /\ Append(f.dir, Head(f.todo).name) = Below(k, J(f) + 1)
             /\ Item(k, J(f) + 1).dir => Below(k, J(f) + 1) \in DOMAIN world.dir
             /\ LET r == [f EXCEPT !.todo = Tail(@)]
                IN  Outer(r, k) /\ J(r) = J(f) + 1 /\ r.dir = f.dir
  <2>1. /\ Suffix(Tail(f.todo), world.dir[f.dir], EntrySet) /\ Len(Tail(f.todo)) = Len(f.todo) - 1
        /\ Head(f.todo) = world.dir[f.dir][J(f) + 1]
        /\ J(f) + 1 \in 1 .. Len(world.dir[f.dir])
    BY <1>1, <1>6, SuffixTail DEF J
  <2>2. Head(f.todo) = Item(k, J(f) + 1) /\ Append(f.dir, Head(f.todo).name) = Below(k, J(f) + 1)
    BY <1>1, <2>1 DEF Item, Below
  <2>3. Item(k, J(f) + 1).dir \in BOOLEAN /\ (Item(k, J(f) + 1).dir => Below(k, J(f) + 1) \in DOMAIN world.dir)
    BY <1>1, <1>2, <2>1, FoldersTyped DEF Item, Below, Fits
  <2> DEFINE r == [f EXCEPT !.todo = Tail(@)]
  <2>4. Tail(f.todo) \in Seq(EntrySet)
    BY <2>1 DEF Suffix
  <2>5. r \in FrameSet /\ r.todo = Tail(f.todo) /\ r.dir = f.dir /\ r.subdirs = f.subdirs
    BY <1>1, <2>4 DEF FrameSet
  <2> HIDE DEF r
  <2>6. Outer(r, k)
    BY <2>1, <2>5 DEF Outer
  <2>7. J(r) = J(f) + 1
    <3>1. Len(r.todo) = Len(f.todo) - 1
      BY <2>1, <2>5
    <3>2. J(r) = Len(world.dir[f.dir]) - Len(r.todo) /\ J(f) = Len(world.dir[f.dir]) - Len(f.todo)
      BY <2>5 DEF J
    <3> QED
      BY <1>2, <1>3, <3>1, <3>2, Difference
  <2> QED
    BY <1>1, <2>1, <2>2, <2>3, <2>5, <2>6, <2>7 DEF r
<1> QED
  BY <1>2, <1>4, <1>5, <1>6

LEMMA InnerFacts ==
    ASSUME Fits, NEW k, NEW f, NEW g, Outer(f, k), Inner(g, f, k)
    PROVE  /\ g.dir \in DOMAIN world.dir /\ Len(world.dir[g.dir]) \in Nat
           /\ J(g) \in 0 .. Len(world.dir[g.dir]) /\ J(g) \in Nat
           /\ g.todo = << >> => J(g) = Len(world.dir[g.dir])
           /\ g.todo # << >> =>
                 /\ J(g) + 1 \in 1 .. Len(world.dir[g.dir]) /\ Head(g.todo) = world.dir[g.dir][J(g) + 1]
                 /\ Head(g.todo).dir \in BOOLEAN
                 /\ LET r == [g EXCEPT !.todo = Tail(@)]
                    IN  Inner(r, f, k) /\ J(r) = J(g) + 1 /\ r.dir = g.dir
<1>1. /\ g.dir = Below(k, J(f)) /\ g \in FrameSet /\ Suffix(g.todo, world.dir[g.dir], EntrySet)
      /\ J(f) \in 1 .. Len(world.dir[Folder(k)]) /\ Item(k, J(f)).dir
  BY DEF Inner
<1>2. k \in Folders /\ Folder(k) \in DOMAIN world.dir
  BY FolderFacts DEF Outer, Fits
<1>3. g.dir \in DOMAIN world.dir /\ Len(world.dir[g.dir]) \in Nat
  BY <1>1, <1>2, FoldersTyped DEF Item, Below, Fits
<1>4. Len(g.todo) \in Nat /\ Len(g.todo) <= Len(world.dir[g.dir])
  BY <1>1 DEF Suffix
<1>5. J(g) \in 0 .. Len(world.dir[g.dir]) /\ J(g) \in Nat
  BY <1>3, <1>4, Difference DEF J
<1>6. g.todo = << >> => J(g) = Len(world.dir[g.dir])
  BY <1>3 DEF J
<1>7. ASSUME g.todo # << >>
      PROVE  /\ J(g) + 1 \in 1 .. Len(world.dir[g.dir]) /\ Head(g.todo) = world.dir[g.dir][J(g) + 1]
             /\ Head(g.todo).dir \in BOOLEAN
             /\ LET r == [g EXCEPT !.todo = Tail(@)]
                IN  Inner(r, f, k) /\ J(r) = J(g) + 1 /\ r.dir = g.dir
  <2>1. /\ Suffix(Tail(g.todo), world.dir[g.dir], EntrySet) /\ Len(Tail(g.todo)) = Len(g.todo) - 1
        /\ Head(g.todo) = world.dir[g.dir][J(g) + 1]
        /\ J(g) + 1 \in 1 .. Len(world.dir[g.dir])
    BY <1>1, <1>7, SuffixTail DEF J
  <2>2. Head(g.todo).dir \in BOOLEAN
    BY <1>3, <2>1, FoldersTyped DEF Fits
  <2> DEFINE r == [g EXCEPT !.todo = Tail(@)]
  <2>4. Tail(g.todo) \in Seq(EntrySet)
    BY <2>1 DEF Suffix
  <2>5. r \in FrameSet /\ r.todo = Tail(g.todo) /\ r.dir = g.dir /\ r.subdirs = g.subdirs
    BY <1>1, <2>4 DEF FrameSet
  <2> HIDE DEF r
  <2>6. Inner(r, f, k)
    BY <2>1, <2>5 DEF Inner
  <2>7. J(r) = J(g) + 1
    <3>1. Len(r.todo) = Len(g.todo) - 1
      BY <2>1, <2>5
    <3>2. J(r) = Len(world.dir[g.dir]) - Len(r.todo) /\ J(g) = Len(world.dir[g.dir]) - Len(g.todo)
      BY <2>5 DEF J
    <3> QED
      BY <1>3, <1>4, <3>1, <3>2, Difference
  <2> QED
    BY <1>1, <2>1, <2>2, <2>5, <2>6, <2>7 DEF r
<1> QED
  BY <1>3, <1>5, <1>6, <1>7

\* The places that a step of the listing passes.
LEMMA PassedSets ==
    ASSUME Fits
    PROVE  /\ \A k : PassedFolders(k) \in SUBSET Places
           /\ \A k, j : PassedEntries(k, j) \in SUBSET Places
           /\ \A q : PlacesUpTo(q) \in SUBSET Places
           /\ PassedFolders(Len(LinesOf(dirpath))) = Places
           /\ \A k \in Folders : PassedEntries(k, Len(world.dir[Folder(k)])) = PassedFolders(k)
           /\ \A k \in Nat : PassedFolders(k) = PassedEntries(k + 1, 0)
           /\ \A k \in Nat : k + 1 \notin Folders => PassedFolders(k + 1) = PassedFolders(k)
<1>1. \A p : p \in Places <=> IsPlace(p)
  BY PlaceFacts DEF Fits
<1>2. \A p \in Places : p[1] \in Nat /\ p[2] \in 1 .. Len(world.dir[Folder(p[1])]) /\ p[2] \in Nat \ {0} /\ p[1] \in Folders
  <2>1. \A p \in Places : p[1] \in Nat /\ p[2] \in 1 .. Len(world.dir[Folder(p[1])]) /\ p[2] \in Nat /\ p[1] \in Folders
    BY <1>1 DEF IsPlace
  <2>2. \A k \in Folders : Len(world.dir[Folder(k)]) \in Nat
    BY FolderFacts DEF Fits
  <2> QED
    BY <2>1, <2>2
<1>3. PassedFolders(Len(LinesOf(dirpath))) = Places
  <2>1. \A k \in Folders : k <= Len(LinesOf(dirpath))
    BY FolderFacts DEF Fits
  <2> QED
    BY <1>2, <2>1 DEF PassedFolders
<1>4. ASSUME NEW k \in Folders PROVE PassedEntries(k, Len(world.dir[Folder(k)])) = PassedFolders(k)
  <2>1. k \in Nat /\ Len(world.dir[Folder(k)]) \in Nat
    BY FolderFacts DEF Fits
  <2>2. \A p \in Places : (p[1] < k \/ (p[1] = k /\ p[2] <= Len(world.dir[Folder(k)]))) <=> p[1] <= k
    BY <1>2, <2>1
  <2> QED
    BY <2>2 DEF PassedEntries, PassedFolders
<1>5. ASSUME NEW k \in Nat PROVE PassedFolders(k) = PassedEntries(k + 1, 0)
  <2>1. \A p \in Places : (p[1] < k + 1 \/ (p[1] = k + 1 /\ p[2] <= 0)) <=> p[1] <= k
    BY <1>2
  <2> QED
    BY <2>1 DEF PassedEntries, PassedFolders
<1>6. ASSUME NEW k \in Nat, k + 1 \notin Folders PROVE PassedFolders(k + 1) = PassedFolders(k)
  <2>1. \A p \in Places : p[1] <= k + 1 <=> p[1] <= k
    BY <1>2, <1>6
  <2> QED
    BY <2>1 DEF PassedFolders
<1> QED
  BY <1>3, <1>4, <1>5, <1>6 DEF PassedFolders, PassedEntries, PlacesUpTo

\* An entry that is listed.
LEMMA PassEntry ==
    ASSUME Fits, NEW k \in Folders, NEW j \in 1 .. Len(world.dir[Folder(k)]),
           ~(asked.subdirs /\ Item(k, j).dir), NEW q, q = <<k, j, 0>>
    PROVE  /\ q \in Places /\ q \notin PassedEntries(k, j - 1)
           /\ PassedEntries(k, j - 1) \cup {q} = PlacesUpTo(q)
           /\ PassedEntries(k, j - 1) \cup {q} = PassedEntries(k, j)
<1>1. \A p : p \in Places <=> IsPlace(p)
  BY PlaceFacts DEF Fits
<1>2. k \in Nat /\ Len(world.dir[Folder(k)]) \in Nat /\ j \in Nat \ {0}
  BY FolderFacts DEF Fits
<1>3. q[1] = k /\ q[2] = j /\ q[3] = 0
  OBVIOUS
<1>4. q \in Places
  BY <1>1, <1>2, <1>3 DEF IsPlace
<1>5. \A p \in Places : /\ p[1] \in Nat /\ p[2] \in Nat /\ p[3] \in Nat
                        /\ p[1] = k /\ p[2] = j => p = q
  BY <1>1, <1>2 DEF IsPlace
<1>6. \A p \in Places : p \in PassedEntries(k, j) <=> p \in PassedEntries(k, j - 1) \/ p = q
  BY <1>2, <1>3, <1>5 DEF PassedEntries
<1>7. \A p \in Places : UpTo(p, q) <=> p \in PassedEntries(k, j)
  BY <1>2, <1>3, <1>5 DEF PassedEntries, UpTo
<1>8. q \notin PassedEntries(k, j - 1)
  BY <1>2, <1>3 DEF PassedEntries
<1>9. PassedEntries(k, j - 1) \cup {q} = PassedEntries(k, j)
  BY <1>4, <1>6 DEF PassedEntries
<1>10. PlacesUpTo(q) = PassedEntries(k, j)
  BY <1>7 DEF PassedEntries, PlacesUpTo
<1> QED
  BY <1>4, <1>8, <1>9, <1>10

\* An entry whose files are listed.
LEMMA PassFolder ==
    ASSUME Fits, NEW k \in Folders, NEW j \in 1 .. Len(world.dir[Folder(k)]),
           asked.subdirs, Item(k, j).dir
    PROVE  /\ PlacesUpTo(<<k, j, 0>>) = PassedEntries(k, j - 1)
           /\ PlacesUpTo(<<k, j, Len(world.dir[Below(k, j)])>>) = PassedEntries(k, j)
<1>1. \A p : p \in Places <=> IsPlace(p)
  BY PlaceFacts DEF Fits
<1>2. k \in Nat /\ Len(world.dir[Folder(k)]) \in Nat /\ j \in Nat \ {0} /\ Len(world.dir[Below(k, j)]) \in Nat
  <2>1. k \in Nat /\ Len(world.dir[Folder(k)]) \in Nat /\ Folder(k) \in DOMAIN world.dir
    BY FolderFacts DEF Fits
  <2>2. Below(k, j) \in DOMAIN world.dir
    BY <2>1, FoldersTyped DEF Item, Below, Fits
  <2> QED
    BY <2>1, <2>2, FoldersTyped DEF Fits
<1>3. \A p \in Places : /\ p[1] \in Nat /\ p[2] \in Nat /\ p[3] \in Nat
                        /\ p[1] = k /\ p[2] = j => p[3] \in 1 .. Len(world.dir[Below(k, j)])
  BY <1>1, <1>2 DEF IsPlace
<1>4. ASSUME NEW p \in Places PROVE UpTo(p, <<k, j, 0>>) <=> p \in PassedEntries(k, j - 1)
  <2>1. UpTo(p, <<k, j, 0>>) <=> p[1] < k \/ (p[1] = k /\ p[2] < j) \/ (p[1] = k /\ p[2] = j /\ p[3] <= 0)
    BY DEF UpTo
  <2> QED
    BY <1>2, <1>3, <2>1 DEF PassedEntries
<1>5. ASSUME NEW p \in Places PROVE UpTo(p, <<k, j, Len(world.dir[Below(k, j)])>>) <=> p \in PassedEntries(k, j)
  <2> DEFINE n == Len(world.dir[Below(k, j)])
  <2>1. UpTo(p, <<k, j, n>>) <=> p[1] < k \/ (p[1] = k /\ p[2] < j) \/ (p[1] = k /\ p[2] = j /\ p[3] <= n)
    BY DEF UpTo
  <2> QED
    BY <1>2, <1>3, <2>1 DEF PassedEntries
<1> QED
  BY <1>4, <1>5 DEF PlacesUpTo, PassedEntries

\* An entry of such a folder.
LEMMA PassFile ==
    ASSUME Fits, NEW k \in Folders, NEW j \in 1 .. Len(world.dir[Folder(k)]),
           asked.subdirs, Item(k, j).dir, NEW l \in 1 .. Len(world.dir[Below(k, j)]),
           NEW q, q = <<k, j, l>>
    PROVE  /\ world.dir[Below(k, j)][l].dir => PlacesUpTo(q) = PlacesUpTo(<<k, j, l - 1>>)
           /\ ~world.dir[Below(k, j)][l].dir =>
                 /\ q \in Places /\ q \notin PlacesUpTo(<<k, j, l - 1>>)
                 /\ PlacesUpTo(<<k, j, l - 1>>) \cup {q} = PlacesUpTo(q)
<1>1. \A p : p \in Places <=> IsPlace(p)
  BY PlaceFacts DEF Fits
<1>2. k \in Nat /\ j \in Nat \ {0} /\ l \in Nat \ {0}
  <2>1. k \in Nat /\ Len(world.dir[Folder(k)]) \in Nat /\ Folder(k) \in DOMAIN world.dir
    BY FolderFacts DEF Fits
  <2>2. Below(k, j) \in DOMAIN world.dir
    BY <2>1, FoldersTyped DEF Item, Below, Fits
  <2>3. Len(world.dir[Below(k, j)]) \in Nat
    BY <2>1, <2>2, FoldersTyped DEF Fits
  <2> QED
    BY <2>1, <2>3
<1>3. q[1] = k /\ q[2] = j /\ q[3] = l
  OBVIOUS
<1>4. \A p \in Places : /\ p[1] \in Nat /\ p[2] \in Nat /\ p[3] \in Nat
                        /\ p[1] = k /\ p[2] = j /\ p[3] = l => p = q /\ ~world.dir[Below(k, j)][l].dir
  BY <1>1, <1>2 DEF IsPlace
<1>5. ASSUME NEW p \in Places PROVE UpTo(p, q) <=> UpTo(p, <<k, j, l - 1>>) \/ p = q
  <2>1. UpTo(p, <<k, j, l - 1>>) <=> p[1] < k \/ (p[1] = k /\ p[2] < j) \/ (p[1] = k /\ p[2] = j /\ p[3] <= l - 1)
    BY DEF UpTo
  <2>2. UpTo(p, q) <=> p[1] < k \/ (p[1] = k /\ p[2] < j) \/ (p[1] = k /\ p[2] = j /\ p[3] <= l)
    BY <1>3 DEF UpTo
  <2> QED
    BY <1>2, <1>3, <1>4, <2>1, <2>2
<1>6. CASE world.dir[Below(k, j)][l].dir
  <2>1. \A p \in Places : p # q
    BY <1>2, <1>3, <1>4, <1>6
  <2> QED
    BY <1>5, <1>6, <2>1 DEF PlacesUpTo
<1>7. CASE ~world.dir[Below(k, j)][l].dir
  <2>1. q \in Places
    BY <1>1, <1>2, <1>3, <1>7 DEF IsPlace
  <2>2. ~UpTo(q, <<k, j, l - 1>>)
    <3>1. UpTo(q, <<k, j, l - 1>>) <=> q[1] < k \/ (q[1] = k /\ q[2] < j) \/ (q[1] = k /\ q[2] = j /\ q[3] <= l - 1)
      BY DEF UpTo
    <3> QED
      BY <1>2, <1>3, <3>1
  <2> QED
    BY <1>5, <1>7, <2>1, <2>2 DEF PlacesUpTo
<1> QED
  BY <1>6, <1>7

\* The calls that are still to come.
LEMMA CallSets ==
    ASSUME Fits
    PROVE  /\ \A k : CallsAfter(k) \in SUBSET Calls
           /\ \A k, j : CallsPast(k, j) \in SUBSET Calls /\ CallsAfter(k) \in SUBSET CallsPast(k, j)
           /\ \A k, m \in Nat : k <= m => CallsAfter(m) \in SUBSET CallsAfter(k)
           /\ \A k \in Nat, j \in Nat : CallsPast(k, j + 1) \in SUBSET CallsPast(k, j)
           /\ \A k \in Nat : CallsPast(k + 1, 0) \in SUBSET CallsAfter(k)
           /\ \A k \in Folders : <<k, 0>> \in Calls /\ <<k, 0>> \notin CallsPast(k, 0)
           /\ \A k \in Nat : k + 1 \in Folders => <<k + 1, 0>> \in CallsAfter(k)
           /\ \A k \in Folders, j \in Nat : <<k, j>> \notin CallsPast(k, j)
           /\ \A k \in Folders, j \in Nat :
                 j + 1 \in 1 .. Len(world.dir[Folder(k)]) /\ asked.subdirs /\ Item(k, j + 1).dir =>
                    <<k, j + 1>> \in CallsPast(k, j)
<1>1. \A c : c \in Calls <=> IsCall(c)
  BY CallFacts DEF Fits
<1>2. \A c \in Calls : c[1] \in Nat /\ c[2] \in Nat
  BY <1>1 DEF IsCall
<1>3. \A k \in Folders : k \in Nat
  BY FolderFacts DEF Fits
<1>4. /\ \A k : CallsAfter(k) \in SUBSET Calls
      /\ \A k, j : CallsPast(k, j) \in SUBSET Calls /\ CallsAfter(k) \in SUBSET CallsPast(k, j)
  BY DEF CallsAfter, CallsPast
<1>5. \A k, m \in Nat : k <= m => CallsAfter(m) \in SUBSET CallsAfter(k)
  BY <1>2 DEF CallsAfter
<1>6. \A k \in Nat, j \in Nat : CallsPast(k, j + 1) \in SUBSET CallsPast(k, j)
  BY <1>2 DEF CallsPast
<1>7. \A k \in Nat : CallsPast(k + 1, 0) \in SUBSET CallsAfter(k)
  BY <1>2 DEF CallsPast, CallsAfter
<1>8. ASSUME NEW k \in Folders PROVE <<k, 0>> \in Calls
  BY <1>1, <1>3 DEF IsCall
<1>9. ASSUME NEW k \in Folders, NEW j \in Nat PROVE <<k, j>> \notin CallsPast(k, j)
  BY <1>3 DEF CallsPast
<1>10. ASSUME NEW k \in Nat, k + 1 \in Folders PROVE <<k + 1, 0>> \in CallsAfter(k)
  BY <1>8, <1>10 DEF CallsAfter
<1>11. ASSUME NEW k \in Folders, NEW j \in Nat, j + 1 \in 1 .. Len(world.dir[Folder(k)]),
              asked.subdirs, Item(k, j + 1).dir
       PROVE  <<k, j + 1>> \in CallsPast(k, j)
  <2>1. <<k, j + 1>> \in Calls
    BY <1>1, <1>3, <1>11 DEF IsCall
  <2> QED
    BY <1>3, <2>1 DEF CallsPast
<1> QED
  BY <1>4, <1>5, <1>6, <1>7, <1>8, <1>9, <1>10, <1>11

LEMMA LineFacts ==
    ASSUME Fits, NEW ln, Suffix(ln, LinesOf(dirpath), PathSet)
    PROVE  /\ K(ln) \in 0 .. Len(LinesOf(dirpath)) /\ K(ln) \in Nat /\ Len(LinesOf(dirpath)) \in Nat
           /\ ln = << >> => K(ln) = Len(LinesOf(dirpath))
           /\ ln # << >> =>
                 /\ Suffix(Tail(ln), LinesOf(dirpath), PathSet) /\ K(Tail(ln)) = K(ln) + 1
                 /\ Head(ln) = Folder(K(ln) + 1)
                 /\ IsDir(Head(ln)) <=> K(ln) + 1 \in Folders
<1>1. Len(LinesOf(dirpath)) \in Nat /\ Len(ln) \in Nat /\ Len(ln) <= Len(LinesOf(dirpath))
  BY DEF Suffix
<1>2. K(ln) \in 0 .. Len(LinesOf(dirpath)) /\ K(ln) \in Nat
  BY <1>1, Difference DEF K
<1>3. ln = << >> => K(ln) = Len(LinesOf(dirpath))
  BY <1>1 DEF K
<1>4. ASSUME ln # << >>
      PROVE  /\ Suffix(Tail(ln), LinesOf(dirpath), PathSet) /\ K(Tail(ln)) = K(ln) + 1
             /\ Head(ln) = Folder(K(ln) + 1)
             /\ IsDir(Head(ln)) <=> K(ln) + 1 \in Folders
  <2>1. /\ Suffix(Tail(ln), LinesOf(dirpath), PathSet) /\ Len(Tail(ln)) = Len(ln) - 1
        /\ Head(ln) = LinesOf(dirpath)[K(ln) + 1] /\ K(ln) + 1 \in 1 .. Len(LinesOf(dirpath))
    BY <1>4, SuffixTail DEF K
  <2>2. K(Tail(ln)) = K(ln) + 1
    <3>1. K(Tail(ln)) = Len(LinesOf(dirpath)) - Len(Tail(ln)) /\ K(ln) = Len(LinesOf(dirpath)) - Len(ln)
      BY DEF K
    <3> QED
      BY <1>1, <2>1, <3>1, Difference
  <2>3. Head(ln) = Folder(K(ln) + 1)
    BY <1>2, <2>1 DEF Folder
  <2>4. K(ln) + 1 \in 0 .. Len(LinesOf(dirpath))
    BY <1>1, <2>1
  <2> QED
    BY <2>1, <2>2, <2>3, <2>4 DEF Folders
<1> QED
  BY <1>1, <1>2, <1>3, <1>4

LEMMA NewCalls ==
    ASSUME Fits, NEW own \in BOOLEAN, NEW skip \in Nat
    PROVE  /\ \A k \in Folders :
                 LET f == Call(Folder(k), IF asked.subdirs THEN 1 ELSE 0, own, skip)
                 IN  Outer(f, k) /\ J(f) = 0
           /\ \A f, k :
                 LET g == Call(Below(k, J(f)), 2, own, skip)
                 IN  /\ Outer(f, k) /\ asked.subdirs
                     /\ J(f) \in 1 .. Len(world.dir[Folder(k)]) /\ Item(k, J(f)).dir
                     => Inner(g, f, k) /\ J(g) = 0
<1>1. ASSUME NEW d \in DOMAIN world.dir, NEW s \in 0 .. 2
      PROVE  LET f == Call(d, s, own, skip)
             IN  /\ f \in FrameSet /\ f.dir = d /\ f.subdirs = s
                 /\ Suffix(f.todo, world.dir[f.dir], EntrySet) /\ J(f) = 0
  <2> DEFINE f == Call(d, s, own, skip)
  <2>1. d \in PathSet /\ world.dir[d] \in Seq(EntrySet) /\ Len(world.dir[d]) \in Nat
    BY FoldersTyped DEF Fits
  <2>2. f \in FrameSet /\ f.dir = d /\ f.subdirs = s /\ f.todo = world.dir[d]
    BY <2>1 DEF FrameSet, Call
  <2> HIDE DEF f
  <2>3. Suffix(f.todo, world.dir[f.dir], EntrySet)
    BY <2>1, <2>2, SuffixWhole
  <2>4. J(f) = 0
    BY <2>1, <2>2 DEF J
  <2>5. f \in FrameSet /\ f.dir = d /\ f.subdirs = s /\ Suffix(f.todo, world.dir[f.dir], EntrySet) /\ J(f) = 0
    BY <2>2, <2>3, <2>4
  <2> QED
    BY <2>5 DEF f
<1>2. ASSUME NEW k \in Folders
      PROVE  LET f == Call(Folder(k), IF asked.subdirs THEN 1 ELSE 0, own, skip)
             IN  Outer(f, k) /\ J(f) = 0
  <2>1. Folder(k) \in DOMAIN world.dir
    BY FolderFacts DEF Fits
  <2> DEFINE s == IF asked.subdirs THEN 1 ELSE 0
             f == Call(Folder(k), s, own, skip)
  <2>2. s \in 0 .. 2
    OBVIOUS
  <2>3. /\ f \in FrameSet /\ f.dir = Folder(k) /\ f.subdirs = s
        /\ Suffix(f.todo, world.dir[f.dir], EntrySet) /\ J(f) = 0
    <3> HIDE DEF s
    <3> QED
      BY <1>1, <2>1, <2>2
  <2> QED
    BY <2>3 DEF Outer
<1>3. ASSUME NEW f, NEW k, Outer(f, k), asked.subdirs,
             J(f) \in 1 .. Len(world.dir[Folder(k)]), Item(k, J(f)).dir
      PROVE  LET g == Call(Below(k, J(f)), 2, own, skip)
             IN  Inner(g, f, k) /\ J(g) = 0
  <2>1. Below(k, J(f)) \in DOMAIN world.dir
    <3>1. k \in Folders /\ Folder(k) \in DOMAIN world.dir
      BY <1>3, FolderFacts DEF Outer, Fits
    <3> QED
      BY <1>3, <3>1, FoldersTyped DEF Item, Below, Fits
  <2> DEFINE g == Call(Below(k, J(f)), 2, own, skip)
  <2>2. /\ g \in FrameSet /\ g.dir = Below(k, J(f)) /\ g.subdirs = 2
        /\ Suffix(g.todo, world.dir[g.dir], EntrySet) /\ J(g) = 0
    BY <1>1, <2>1
  <2> QED
    BY <1>3, <2>2 DEF Inner
<1> QED
  BY <1>2, <1>3

-----------------------------------------------------------------------------
(* The steps of a listing *)

\* A step of the call for a folder.
LEMMA OuterEntry ==
    ASSUME Fits, Suffix(lines, LinesOf(dirpath), PathSet),
           NEW f, stack = <<f>>, Outer(f, K(lines)), ReadEntry,
           Counts(entries, faults, 1, CallsPast(K(lines), J(f)), PassedEntries(K(lines), J(f)))
    PROVE  Progress(stack', lines, entries', faults')
<1> DEFINE k == K(lines)
           e == Head(f.todo)
           r == [f EXCEPT !.todo = Tail(@)]
           j == J(f) + 1
<1>1. f.todo # << >> /\ Head(stack) = f /\ Tail(stack) = << >> /\ <<r>> \o Tail(stack) = <<r>>
  <2>1. Head(stack) = f /\ Tail(stack) = << >> /\ <<r>> \o << >> = <<r>>
    BY Tuples
  <2>2. Head(stack).todo # << >>
    BY DEF ReadEntry
  <2> QED
    BY <2>1, <2>2
<1>2. PICK stat \in BOOLEAN :
        LET is_directory == e.dir \/ ~stat
            failed == IF stat THEN {} ELSE {Append(f.dir, e.name)}
        IN  IF is_directory /\ f.subdirs > 0
            THEN /\ UNCHANGED entries
                 /\ IF f.subdirs = 1 /\ e.dir
                    THEN \/ /\ stack' = <<Call(Append(f.dir, e.name), 2, f.own, f.skip)>> \o <<r>>
                            /\ faults' = faults \cup failed
                         \/ stack' = <<r>> /\ NotListed(Append(f.dir, e.name))
                    ELSE stack' = <<r>> /\ faults' = faults \cup failed
            ELSE /\ entries' = Append(entries, Entry(f, e, is_directory))
                 /\ stack' = IF Full(Len(entries')) THEN << >> ELSE <<r>>
                 /\ faults' = faults \cup failed
  BY <1>1 DEF ReadEntry
<1>3. /\ k \in Folders /\ k \in Nat /\ J(f) \in Nat
      /\ j \in 1 .. Len(world.dir[Folder(k)]) /\ e = Item(k, j) /\ e.dir \in BOOLEAN
      /\ Append(f.dir, e.name) = Below(k, j) /\ (e.dir => Below(k, j) \in DOMAIN world.dir)
      /\ Outer(r, k) /\ J(r) = j /\ f.own \in BOOLEAN /\ f.skip \in Nat
      /\ f.subdirs = IF asked.subdirs THEN 1 ELSE 0
  <2>1. Outer(f, k) /\ k \in Folders /\ f.dir = Folder(k) /\ f.subdirs = IF asked.subdirs THEN 1 ELSE 0
    BY DEF Outer
  <2>2. f.own \in BOOLEAN /\ f.skip \in Nat
    BY DEF Outer, FrameSet
  <2> HIDE DEF k
  <2>3. /\ k \in Nat /\ J(f) \in Nat
        /\ j \in 1 .. Len(world.dir[Folder(k)]) /\ e = Item(k, j) /\ Item(k, j).dir \in BOOLEAN
        /\ Append(f.dir, e.name) = Below(k, j) /\ (Item(k, j).dir => Below(k, j) \in DOMAIN world.dir)
        /\ Outer(r, k) /\ J(r) = j
    BY <1>1, <2>1, FrameFacts
  <2> QED
    BY <2>1, <2>2, <2>3
<1> HIDE DEF k, e, r
<1>4. (j - 1 = J(f)) /\ j \in Nat
  BY <1>3
<1>5. Counts(entries, faults, 1, CallsPast(k, J(f)), PassedEntries(k, J(f)))
  BY DEF k
<1> HIDE DEF j
<1>6. /\ CallsPast(k, j) \in SUBSET CallsPast(k, J(f)) /\ CallsAfter(k) \in SUBSET CallsPast(k, J(f))
      /\ PassedEntries(k, j) \in SUBSET Places /\ PassedFolders(k) \in SUBSET Places
      /\ PlacesUpTo(<<k, j, 0>>) \in SUBSET Places
  BY <1>3, CallSets, PassedSets DEF j
<1>7. CASE (e.dir \/ ~stat) /\ f.subdirs > 0
  <2>1. asked.subdirs /\ f.subdirs = 1 /\ entries' = entries
    BY <1>2, <1>3, <1>7
  <2>2. CASE e.dir
    <3> DEFINE g == Call(Below(k, j), 2, f.own, f.skip)
    <3>1. \/ stack' = <<g>> \o <<r>> /\ (faults' = {} => faults = {})
          \/ stack' = <<r>> /\ faults' # {}
      BY <1>2, <1>3, <1>7, <2>1, <2>2 DEF NotListed
    <3>2. CASE stack' = <<g>> \o <<r>> /\ (faults' = {} => faults = {})
      <4>1. stack' = <<g, r>>
        BY <3>2, Tuples
      <4>2. Inner(g, r, k) /\ J(g) = 0
        BY <1>3, <2>1, <2>2, NewCalls
      <4> HIDE DEF g
      <4>3. PlacesUpTo(<<k, j, 0>>) = PassedEntries(k, J(f))
        BY <1>3, <1>4, <2>1, <2>2, PassFolder
      <4>4. <<k, j>> \in CallsPast(k, J(f)) /\ <<k, j>> \notin CallsPast(k, j)
        BY <1>3, <1>4, <2>1, <2>2, CallSets DEF j
      <4>5. Counts(entries, faults', 1 + 1, CallsPast(k, j), PlacesUpTo(<<k, j, 0>>))
        BY <1>5, <1>6, <3>2, <4>3, <4>4, CountsCall DEF Fits
      <4>6. TwoCalls(stack', lines, entries', faults')
        BY <1>3, <2>1, <4>1, <4>2, <4>5 DEF TwoCalls, k
      <4> QED
        BY <4>6 DEF Progress
    <3>3. CASE stack' = <<r>> /\ faults' # {}
      <4>1. Counts(entries, faults', 1, CallsPast(k, j), PassedEntries(k, j))
        BY <1>5, <1>6, <3>3, CountsSkip DEF Fits
      <4>2. OneCall(stack', lines, entries', faults')
        BY <1>3, <2>1, <3>3, <4>1 DEF OneCall, k
      <4> QED
        BY <4>2 DEF Progress
    <3> QED
      BY <3>1, <3>2, <3>3
  <2>3. CASE ~e.dir
    <3>1. stack' = <<r>> /\ faults' # {}
      BY <1>2, <1>3, <1>7, <2>1, <2>3
    <3>2. Counts(entries, faults', 1, CallsPast(k, j), PassedEntries(k, j))
      BY <1>5, <1>6, <3>1, CountsSkip DEF Fits
    <3>3. OneCall(stack', lines, entries', faults')
      BY <1>3, <2>1, <3>1, <3>2 DEF OneCall, k
    <3> QED
      BY <3>3 DEF Progress
  <2> QED
    BY <2>2, <2>3
<1>8. CASE ~((e.dir \/ ~stat) /\ f.subdirs > 0)
  <2> DEFINE x == Entry(f, e, e.dir \/ ~stat)
             q == <<k, j, 0>>
  <2>1. /\ entries' = Append(entries, x) /\ stack' = IF Full(Len(entries')) THEN << >> ELSE <<r>>
        /\ faults' = {} => faults = {}
    BY <1>2, <1>8
  <2>2. ~(asked.subdirs /\ Item(k, j).dir)
    BY <1>3, <1>8
  <2>3. /\ q \in Places /\ q \notin PassedEntries(k, J(f))
        /\ PassedEntries(k, J(f)) \cup {q} = PlacesUpTo(q)
        /\ PassedEntries(k, J(f)) \cup {q} = PassedEntries(k, j)
    BY <1>3, <1>4, <2>2, PassEntry
  <2>4. x.src = PathAt(q)
    <3>1. x.src = Below(k, j)
      BY <1>3 DEF Entry
    <3>2. PathAt(q) = Below(k, j)
      BY DEF PathAt
    <3> QED
      BY <3>1, <3>2
  <2> HIDE DEF x, q
  <2>5. Len(entries') = Len(entries) + 1
    BY <1>5, <2>1, AppendFacts DEF Counts
  <2>6. NextPlace(q, PassedEntries(k, J(f))) /\ Shows(x, q, faults, faults')
    BY <2>1, <2>3, <2>4 DEF NextPlace, Shows
  <2>7. ASSUME NEW ahead \in SUBSET CallsPast(k, J(f))
        PROVE  /\ Full(Len(entries) + 1) => Counts(entries', faults', 0, ahead, PassedFolders(k))
               /\ ~Full(Len(entries) + 1) => Counts(entries', faults', 1, ahead, PassedEntries(k, j))
    <3> DEFINE before == CallsPast(k, J(f))
               passed == PassedEntries(k, J(f))
               passed2 == PassedFolders(k)
    <3>1. /\ Counts(entries, faults, 1, before, passed) /\ ahead \in SUBSET before
          /\ passed2 \in SUBSET Places /\ NextPlace(q, passed)
      BY <1>5, <1>6, <2>6
    <3> HIDE DEF before, passed, passed2
    <3>0. 1 \in Nat \ {0} /\ 1 - 1 = 0
      OBVIOUS
    <3>2. /\ Full(Len(entries) + 1) => Counts(Append(entries, x), faults', 1 - 1, ahead, passed2)
          /\ ~Full(Len(entries) + 1) => Counts(Append(entries, x), faults', 1, ahead, passed \cup {q})
      BY <2>6, <3>1, <3>0, CountsAdd DEF Fits
    <3> QED
      BY <2>1, <2>3, <3>0, <3>2 DEF passed, passed2
  <2>8. CASE Full(Len(entries) + 1)
    <3>1. NoCall(stack', lines, entries', faults')
      BY <1>6, <2>1, <2>5, <2>7, <2>8 DEF NoCall, k
    <3> QED
      BY <3>1 DEF Progress
  <2>9. CASE ~Full(Len(entries) + 1)
    <3>1. OneCall(stack', lines, entries', faults')
      BY <1>3, <1>6, <2>1, <2>5, <2>7, <2>9 DEF OneCall, k
    <3> QED
      BY <3>1 DEF Progress
  <2> QED
    BY <2>8, <2>9
<1> QED
  BY <1>7, <1>8

\* A step of the call for a folder in the folder.
LEMMA InnerEntry ==
    ASSUME Fits, Suffix(lines, LinesOf(dirpath), PathSet),
           NEW f, NEW g, stack = <<g, f>>, Outer(f, K(lines)), Inner(g, f, K(lines)), ReadEntry,
           Counts(entries, faults, 2, CallsPast(K(lines), J(f)), PlacesUpTo(<<K(lines), J(f), J(g)>>))
    PROVE  Progress(stack', lines, entries', faults')
<1> DEFINE k == K(lines)
           e == Head(g.todo)
           r == [g EXCEPT !.todo = Tail(@)]
           j == J(f)
           l == J(g) + 1
<1>1. g.todo # << >> /\ Head(stack) = g /\ Tail(stack) = <<f>> /\ <<r>> \o Tail(stack) = <<r, f>>
  <2>1. Head(stack) = g /\ Tail(stack) = <<f>> /\ <<r>> \o <<f>> = <<r, f>>
    BY Tuples
  <2>2. Head(stack).todo # << >>
    BY DEF ReadEntry
  <2> QED
    BY <2>1, <2>2
<1>2. g.subdirs = 2
  BY DEF Inner
<1>3. PICK stat \in BOOLEAN :
        LET is_directory == e.dir \/ ~stat
            failed == IF stat THEN {} ELSE {Append(g.dir, e.name)}
        IN  IF is_directory
            THEN entries' = entries /\ stack' = <<r, f>> /\ faults' = faults \cup failed
            ELSE /\ entries' = Append(entries, Entry(g, e, is_directory))
                 /\ stack' = IF Full(Len(entries')) THEN <<f>> ELSE <<r, f>>
                 /\ faults' = faults \cup failed
  BY <1>1, <1>2 DEF ReadEntry
<1>4. /\ Outer(f, k) /\ Inner(g, f, k) /\ asked.subdirs /\ k \in Folders
      /\ g.dir = Below(k, j) /\ Item(k, j).dir /\ j \in 1 .. Len(world.dir[Folder(k)])
      /\ Counts(entries, faults, 2, CallsPast(k, j), PlacesUpTo(<<k, j, J(g)>>))
  BY DEF Outer, Inner
<1> HIDE DEF k
<1>5. /\ J(g) \in Nat /\ l \in 1 .. Len(world.dir[Below(k, j)])
      /\ e = world.dir[Below(k, j)][l] /\ e.dir \in BOOLEAN
      /\ Inner(r, f, k) /\ J(r) = l
  <2>1. /\ J(g) \in Nat /\ l \in 1 .. Len(world.dir[g.dir])
        /\ e = world.dir[Below(k, j)][l] /\ e.dir \in BOOLEAN
        /\ Inner(r, f, k) /\ J(r) = l
    <3>1. J(g) \in Nat
      BY <1>4, InnerFacts
    <3>2. J(g) + 1 \in 1 .. Len(world.dir[g.dir])
      BY <1>1, <1>4, InnerFacts
    <3>3. Head(g.todo) = world.dir[g.dir][J(g) + 1]
      BY <1>1, <1>4, InnerFacts
    <3>5. Head(g.todo).dir \in BOOLEAN
      BY <1>1, <1>4, InnerFacts
    <3>4. Inner(r, f, k) /\ J(r) = J(g) + 1
      BY <1>1, <1>4, InnerFacts
    <3> QED
      BY <1>4, <3>1, <3>2, <3>3, <3>4, <3>5
  <2> QED
    BY <1>4, <2>1
<1> HIDE DEF e, r, j
<1>6. l - 1 = J(g) /\ l # 0
  BY <1>5
<1> HIDE DEF l
<1>7. /\ PlacesUpTo(<<k, j, l>>) \in SUBSET Places /\ PassedEntries(k, j) \in SUBSET Places
      /\ CallsPast(k, j) \in SUBSET CallsPast(k, j)
  BY PassedSets
<1>8. CASE e.dir \/ ~stat
  <2>1. entries' = entries /\ stack' = <<r, f>> /\ (faults' = {} => faults = {} /\ e.dir)
    BY <1>3, <1>5, <1>8
  <2>2. e.dir => PlacesUpTo(<<k, j, l>>) = PlacesUpTo(<<k, j, J(g)>>)
    BY <1>4, <1>5, <1>6, PassFile
  <2>3. Counts(entries, faults', 2, CallsPast(k, j), PlacesUpTo(<<k, j, l>>))
    BY <1>4, <1>7, <2>1, <2>2, CountsSkip DEF Fits
  <2>4. TwoCalls(stack', lines, entries', faults')
    BY <1>4, <1>5, <2>1, <2>3 DEF TwoCalls, k, j
  <2> QED
    BY <2>4 DEF Progress
<1>9. CASE ~(e.dir \/ ~stat)
  <2> DEFINE x == Entry(g, e, e.dir \/ ~stat)
             q == <<k, j, l>>
  <2>1. /\ entries' = Append(entries, x) /\ stack' = IF Full(Len(entries')) THEN <<f>> ELSE <<r, f>>
        /\ faults' = {} => faults = {}
    BY <1>3, <1>9
  <2>2. NextPlace(q, PlacesUpTo(<<k, j, J(g)>>)) /\ PlacesUpTo(<<k, j, J(g)>>) \cup {q} = PlacesUpTo(q)
    <3>1. ~world.dir[Below(k, j)][l].dir
      BY <1>5, <1>9
    <3> QED
      BY <1>4, <1>5, <1>6, <3>1, PassFile DEF NextPlace
  <2>3. x.src = PathAt(q)
    <3>1. x.src = Append(Below(k, j), world.dir[Below(k, j)][l].name)
      BY <1>4, <1>5 DEF Entry
    <3>2. PathAt(q) = Append(Below(k, j), world.dir[Below(k, j)][l].name)
      BY <1>6 DEF PathAt
    <3> QED
      BY <3>1, <3>2
  <2>4. Shows(x, q, faults, faults')
    BY <2>1, <2>3 DEF Shows
  <2> HIDE DEF x
  <2>5. Len(entries') = Len(entries) + 1
    BY <1>4, <2>1, AppendFacts DEF Counts
  <2>6. /\ Full(Len(entries) + 1) => Counts(entries', faults', 1, CallsPast(k, j), PassedEntries(k, j))
        /\ ~Full(Len(entries) + 1) => Counts(entries', faults', 2, CallsPast(k, j), PlacesUpTo(q))
    <3> DEFINE before == CallsPast(k, j)
               passed == PlacesUpTo(<<k, j, J(g)>>)
               passed2 == PassedEntries(k, j)
    <3>1. /\ Counts(entries, faults, 2, before, passed) /\ before \in SUBSET before
          /\ passed2 \in SUBSET Places /\ NextPlace(q, passed)
      BY <1>4, <1>7, <2>2
    <3> HIDE DEF before, passed, passed2, q
    <3>2. 2 \in Nat \ {0} /\ 2 - 1 = 1
      OBVIOUS
    <3>3. /\ Full(Len(entries) + 1) => Counts(Append(entries, x), faults', 2 - 1, before, passed2)
          /\ ~Full(Len(entries) + 1) => Counts(Append(entries, x), faults', 2, before, passed \cup {q})
      BY <2>4, <3>1, <3>2, CountsAdd DEF Fits
    <3> QED
      BY <2>1, <2>2, <3>2, <3>3 DEF passed, passed2, before
  <2>7. CASE Full(Len(entries) + 1)
    <3>1. OneCall(stack', lines, entries', faults')
      BY <1>4, <2>1, <2>5, <2>6, <2>7 DEF OneCall, k, j
    <3> QED
      BY <3>1 DEF Progress
  <2>8. CASE ~Full(Len(entries) + 1)
    <3>1. TwoCalls(stack', lines, entries', faults')
      BY <1>4, <1>5, <2>1, <2>5, <2>6, <2>8 DEF TwoCalls, k, j
    <3> QED
      BY <3>1 DEF Progress
  <2> QED
    BY <2>7, <2>8
<1> QED
  BY <1>8, <1>9

LEMMA EntryStep ==
    ASSUME Fits, Progress(stack, lines, entries, faults), ReadEntry
    PROVE  Progress(stack', lines', entries', faults')
<1>1. stack # << >> /\ lines' = lines
  BY DEF ReadEntry
<1>2. Suffix(lines, LinesOf(dirpath), PathSet)
  BY DEF Progress
<1>3. CASE OneCall(stack, lines, entries, faults)
  BY <1>1, <1>2, <1>3, OuterEntry DEF OneCall
<1>4. CASE TwoCalls(stack, lines, entries, faults)
  BY <1>1, <1>2, <1>4, InnerEntry DEF TwoCalls
<1> QED
  BY <1>1, <1>3, <1>4 DEF Progress, NoCall

LEMMA ReturnStep ==
    ASSUME Fits, Progress(stack, lines, entries, faults), ReturnFrom
    PROVE  Progress(stack', lines', entries', faults')
<1> DEFINE k == K(lines)
<1>1. /\ stack # << >> /\ stack' = Tail(stack) /\ lines' = lines /\ entries' = entries
      /\ faults' = {} => faults = {} /\ Head(stack).todo = << >>
  BY DEF ReturnFrom, NotListed
<1>2. Suffix(lines, LinesOf(dirpath), PathSet)
  BY DEF Progress
<1>3. CASE OneCall(stack, lines, entries, faults)
  <2>1. PICK f : /\ stack = <<f>> /\ Outer(f, k)
                 /\ Counts(entries, faults, 1, CallsPast(k, J(f)), PassedEntries(k, J(f)))
    BY <1>3 DEF OneCall
  <2> HIDE DEF k
  <2>2. stack' = << >> /\ (faults' = {} => f.todo = << >>)
    BY <1>1, <2>1, Tuples
  <2>3. faults' = {} => PassedFolders(k) = PassedEntries(k, J(f))
    <3> SUFFICES ASSUME faults' = {} PROVE PassedFolders(k) = PassedEntries(k, J(f))
      OBVIOUS
    <3>1. k \in Folders /\ f.dir = Folder(k)
      BY <2>1 DEF Outer
    <3>2. J(f) = Len(world.dir[Folder(k)])
      BY <2>1, <2>2, <3>1, FrameFacts
    <3> QED
      BY <3>1, <3>2, PassedSets
  <2>4. CallsAfter(k) \in SUBSET CallsPast(k, J(f)) /\ PassedFolders(k) \in SUBSET Places
    BY CallSets, PassedSets
  <2>5. Counts(entries, faults', 0, CallsAfter(k), PassedFolders(k))
    BY <1>1, <2>1, <2>3, <2>4, CountsSkip DEF Fits
  <2> QED
    BY <1>1, <1>2, <2>2, <2>5 DEF Progress, NoCall, k
<1>4. CASE TwoCalls(stack, lines, entries, faults)
  <2>1. PICK f, g : /\ stack = <<g, f>> /\ Outer(f, k) /\ Inner(g, f, k)
                    /\ Counts(entries, faults, 2, CallsPast(k, J(f)), PlacesUpTo(<<k, J(f), J(g)>>))
    BY <1>4 DEF TwoCalls
  <2> HIDE DEF k
  <2>2. stack' = <<f>> /\ (faults' = {} => g.todo = << >>)
    BY <1>1, <2>1, Tuples
  <2>3. faults' = {} => PassedEntries(k, J(f)) = PlacesUpTo(<<k, J(f), J(g)>>)
    <3> SUFFICES ASSUME faults' = {} PROVE PassedEntries(k, J(f)) = PlacesUpTo(<<k, J(f), J(g)>>)
      OBVIOUS
    <3>1. /\ k \in Folders /\ J(f) \in 1 .. Len(world.dir[Folder(k)]) /\ asked.subdirs
          /\ Item(k, J(f)).dir /\ g.dir = Below(k, J(f))
      BY <2>1 DEF Outer, Inner
    <3>2. J(g) = Len(world.dir[Below(k, J(f))])
      BY <2>1, <2>2, <3>1, InnerFacts
    <3> QED
      BY <3>1, <3>2, PassFolder
  <2>4. CallsPast(k, J(f)) \in SUBSET CallsPast(k, J(f)) /\ PassedEntries(k, J(f)) \in SUBSET Places
    BY PassedSets
  <2>5. Counts(entries, faults', 1, CallsPast(k, J(f)), PassedEntries(k, J(f)))
    BY <1>1, <2>1, <2>3, <2>4, CountsSkip DEF Fits
  <2>6. OneCall(stack', lines, entries, faults')
    BY <2>1, <2>2, <2>5 DEF OneCall, k
  <2> QED
    BY <1>1, <1>2, <2>6 DEF Progress
<1> QED
  BY <1>1, <1>3, <1>4 DEF Progress, NoCall

LEMMA LineStep ==
    ASSUME Fits, Progress(stack, lines, entries, faults), NextLine
    PROVE  Progress(stack', lines', entries', faults')
<1> DEFINE k == K(lines)
           skip == IF Head(lines)[1] = Root THEN 1 ELSE 0
           s == IF asked.subdirs THEN 1 ELSE 0
           f == Call(Head(lines), s, FALSE, skip)
<1>1. /\ stack = << >> /\ lines # << >> /\ lines' = Tail(lines) /\ entries' = entries
      /\ \/ IsDir(Head(lines)) /\ stack' = <<f>> /\ faults' = faults
         \/ stack' = << >> /\ (IF IsDir(Head(lines)) THEN faults' # {} ELSE faults' = faults)
  BY DEF NextLine, NotListed
<1>2. Suffix(lines, LinesOf(dirpath), PathSet)
  BY DEF Progress
<1>3. Counts(entries, faults, 0, CallsAfter(k), PassedFolders(k))
  <2>1. ~OneCall(stack, lines, entries, faults) /\ ~TwoCalls(stack, lines, entries, faults)
    BY <1>1, Tuples DEF OneCall, TwoCalls
  <2> QED
    BY <2>1 DEF Progress, NoCall
<1>4. /\ k \in Nat /\ Suffix(Tail(lines), LinesOf(dirpath), PathSet) /\ K(Tail(lines)) = k + 1
      /\ Head(lines) = Folder(k + 1) /\ (IsDir(Head(lines)) <=> k + 1 \in Folders)
  BY <1>1, <1>2, LineFacts
<1> HIDE DEF k
<1>5. PassedFolders(k + 1) \in SUBSET Places /\ PassedEntries(k + 1, 0) \in SUBSET Places
  BY PassedSets
<1>6. CASE IsDir(Head(lines)) /\ stack' = <<f>> /\ faults' = faults
  <2>1. k + 1 \in Folders /\ skip \in Nat /\ FALSE \in BOOLEAN
    BY <1>4, <1>6
  <2>2. Outer(f, k + 1) /\ J(f) = 0
    <3> HIDE DEF skip
    <3> QED
      BY <1>4, <2>1, NewCalls
  <2> HIDE DEF f
  <2>3. /\ <<k + 1, 0>> \in CallsAfter(k) /\ <<k + 1, 0>> \notin CallsPast(k + 1, 0)
        /\ CallsPast(k + 1, 0) \in SUBSET CallsAfter(k)
    BY <1>4, <2>1, CallSets
  <2>4. PassedEntries(k + 1, 0) = PassedFolders(k)
    BY <1>4, PassedSets
  <2>5. Counts(entries, faults, 0 + 1, CallsPast(k + 1, 0), PassedEntries(k + 1, 0))
    BY <1>3, <1>5, <2>3, <2>4, CountsCall DEF Fits
  <2>6. OneCall(stack', lines', entries', faults')
    BY <1>1, <1>4, <1>6, <2>2, <2>5 DEF OneCall
  <2> QED
    BY <1>1, <1>4, <2>6 DEF Progress
<1>7. CASE stack' = << >> /\ (IF IsDir(Head(lines)) THEN faults' # {} ELSE faults' = faults)
  <2>1. faults' = {} => faults = {} /\ PassedFolders(k + 1) = PassedFolders(k)
    BY <1>4, <1>7, PassedSets
  <2>2. CallsAfter(k + 1) \in SUBSET CallsAfter(k)
    BY <1>4, CallSets
  <2>3. Counts(entries, faults', 0, CallsAfter(k + 1), PassedFolders(k + 1))
    BY <1>3, <1>5, <2>1, <2>2, CountsSkip DEF Fits
  <2>4. NoCall(stack', lines', entries', faults')
    BY <1>1, <1>4, <1>7, <2>3 DEF NoCall
  <2> QED
    BY <1>1, <1>4, <2>4 DEF Progress
<1> QED
  BY <1>1, <1>6, <1>7

LEMMA NoLinesStep ==
    ASSUME Fits, Progress(stack, lines, entries, faults), NoLines
    PROVE  Progress(stack', lines', entries', faults')
<1> DEFINE k == K(lines)
           m == Len(LinesOf(dirpath))
<1>1. stack = << >> /\ stack' = << >> /\ lines' = << >> /\ entries' = entries /\ faults' # {}
  BY DEF NoLines, NotListed
<1>2. Suffix(lines, LinesOf(dirpath), PathSet)
  BY DEF Progress
<1>3. Counts(entries, faults, 0, CallsAfter(k), PassedFolders(k))
  <2>1. ~OneCall(stack, lines, entries, faults) /\ ~TwoCalls(stack, lines, entries, faults)
    BY <1>1, Tuples DEF OneCall, TwoCalls
  <2> QED
    BY <2>1 DEF Progress, NoCall
<1>4. Suffix(<< >>, LinesOf(dirpath), PathSet)
  BY <1>2, SuffixEmpty DEF Suffix
<1>5. K(<< >>) = m /\ m \in Nat /\ k \in Nat /\ k <= m
  BY <1>2, <1>4, LineFacts
<1> HIDE DEF k, m
<1>6. CallsAfter(m) \in SUBSET CallsAfter(k) /\ PassedFolders(m) \in SUBSET Places
  BY <1>5, CallSets, PassedSets
<1>7. Counts(entries, faults', 0, CallsAfter(m), PassedFolders(m))
  BY <1>1, <1>3, <1>6, CountsSkip DEF Fits
<1> QED
  BY <1>1, <1>4, <1>5, <1>7 DEF Progress, NoCall

-----------------------------------------------------------------------------
(* The invariant *)

LEMMA SameCounts ==
    ASSUME UNCHANGED <<world, asked, dirpath, max_items>>
    PROVE  \A en, fl, depth, ahead, passed :
              Counts(en, fl, depth, ahead, passed)' <=> Counts(en, fl, depth, ahead, passed)
<1>1. /\ Places' = Places /\ Calls' = Calls
      /\ \A p : Rank(p)' = Rank(p) /\ PathAt(p)' = PathAt(p)
  BY SamePlaces
<1>2. \A en, passed : ListedSo(en, passed)' <=> ListedSo(en, passed)
  BY <1>1 DEF ListedSo
<1>3. \A n, depth, ahead : Bounded(n, depth, ahead)' <=> Bounded(n, depth, ahead)
  BY <1>1 DEF Bounded
<1> QED
  BY <1>1, <1>2, <1>3 DEF Counts

LEMMA SameProgress ==
    ASSUME UNCHANGED <<world, asked, dirpath, max_items>>
    PROVE  Progress(stack', lines', entries', faults') => Progress(stack, lines, entries, faults)'
<1>1. /\ LinesOf(dirpath)' = LinesOf(dirpath) /\ Folders' = Folders /\ \A k : Folder(k)' = Folder(k)
      /\ \A k, j : Item(k, j)' = Item(k, j) /\ Below(k, j)' = Below(k, j)
      /\ Places' = Places /\ Calls' = Calls
      /\ \A p : Rank(p)' = Rank(p) /\ PathAt(p)' = PathAt(p)
  BY SameLines, SamePlaces
<1>2. \A ln : K(ln)' = K(ln)
  BY <1>1 DEF K
<1>3. \A f : J(f)' = J(f)
  BY DEF J
<1>6. \A en, fl, depth, ahead, passed : Counts(en, fl, depth, ahead, passed)' <=> Counts(en, fl, depth, ahead, passed)
  BY SameCounts
<1>7. /\ \A k : PassedFolders(k)' = PassedFolders(k) /\ CallsAfter(k)' = CallsAfter(k)
      /\ \A k, j : PassedEntries(k, j)' = PassedEntries(k, j) /\ CallsPast(k, j)' = CallsPast(k, j)
      /\ \A q : PlacesUpTo(q)' = PlacesUpTo(q)
  BY <1>1 DEF PassedFolders, CallsAfter, PassedEntries, CallsPast, PlacesUpTo
<1>8. /\ \A f, k : Outer(f, k)' <=> Outer(f, k)
      /\ \A g, f, k : Inner(g, f, k)' <=> Inner(g, f, k)
  BY <1>1, <1>3 DEF Outer, Inner
<1>9. NoCall(stack', lines', entries', faults') => NoCall(stack, lines, entries, faults)'
  BY <1>2, <1>6, <1>7 DEF NoCall
<1>10. OneCall(stack', lines', entries', faults') => OneCall(stack, lines, entries, faults)'
  BY <1>2, <1>3, <1>6, <1>7, <1>8 DEF OneCall
<1>11. TwoCalls(stack', lines', entries', faults') => TwoCalls(stack, lines, entries, faults)'
  BY <1>2, <1>3, <1>6, <1>7, <1>8 DEF TwoCalls
<1> QED
  BY <1>1, <1>9, <1>10, <1>11 DEF Progress

\* What the array has when a listing ends: nothing after a READ_DIR that did not
\* come to list, else the first places of all.
SentSo ==
    \/ entries = << >> /\ faults # {}
    \/ IsDir(dirpath) /\ Counts(entries, faults, 0, {}, Places)

ListInv ==
    /\ world \in Worlds
    /\ phase \in {"idle", "listing", "sent"}
    /\ dir \in BOOLEAN /\ (dir => IsDir(dirpath))
    /\ max_items \in ENTRIES_STEP .. MAX_ENTRIES
    /\ phase # "listing" => stack = << >>
    /\ phase = "listing" => IsDir(dirpath) /\ Progress(stack, lines, entries, faults)
    /\ phase = "sent" => SentSo

LEMMA FitsWhen ==
    ASSUME world \in Worlds, IsDir(dirpath), max_items \in ENTRIES_STEP .. MAX_ENTRIES
    PROVE  Fits
BY EntriesAssumption DEF Fits

\* The counts with which a listing begins.
LEMMA StartCounts ==
    Fits => /\ Counts(<< >>, {}, 1, CallsPast(0, 0), PassedEntries(0, 0))
            /\ \A fl : fl # {} => Counts(<< >>, fl, 0, CallsAfter(0), PassedFolders(0))
<1> SUFFICES ASSUME Fits PROVE
        /\ Counts(<< >>, {}, 1, CallsPast(0, 0), PassedEntries(0, 0))
        /\ \A fl : fl # {} => Counts(<< >>, fl, 0, CallsAfter(0), PassedFolders(0))
  OBVIOUS
<1>1. IsFiniteSet(Calls) /\ Cardinality(Calls) \in Nat /\ Calls \in SUBSET Calls
  BY CallFacts, FS_CardinalityType DEF Fits
<1>2. 0 \in Folders /\ <<0, 0>> \in Calls /\ <<0, 0>> \notin CallsPast(0, 0)
  BY FolderFacts, CallSets DEF Fits
<1>3. Counts(<< >>, {}, 0, Calls, {})
  <2>1. Bounded(0, 0, Calls)
    BY <1>1 DEF Bounded, Fits
  <2>2. ListedSo(<< >>, {})
    BY FS_EmptySet DEF ListedSo, Fits
  <2>3. << >> \in Seq({}) /\ Len(<< >>) = 0
    OBVIOUS
  <2> QED
    BY <1>1, <2>1, <2>2, <2>3 DEF Counts
<1>4. PassedEntries(0, 0) = {}
  <2>1. \A p \in Places : p[1] \in Nat /\ p[2] \in Nat \ {0}
    <3>1. \A p \in Places : IsPlace(p)
      BY PlaceFacts DEF Fits
    <3>2. \A k \in Folders : Len(world.dir[Folder(k)]) \in Nat
      BY FolderFacts DEF Fits
    <3> QED
      BY <3>1, <3>2 DEF IsPlace
  <2> QED
    BY <2>1 DEF PassedEntries
<1>5. CallsPast(0, 0) \in SUBSET Calls /\ PassedEntries(0, 0) \in SUBSET Places
      /\ CallsAfter(0) \in SUBSET Calls /\ PassedFolders(0) \in SUBSET Places
  BY CallSets, PassedSets
<1>6. Counts(<< >>, {}, 0 + 1, CallsPast(0, 0), PassedEntries(0, 0))
  BY <1>2, <1>3, <1>4, <1>5, CountsCall DEF Fits
<1>7. ASSUME NEW fl, fl # {} PROVE Counts(<< >>, fl, 0, CallsAfter(0), PassedFolders(0))
  BY <1>3, <1>5, <1>7, CountsSkip DEF Fits
<1> QED
  BY <1>6, <1>7

\* ... and with which it ends.
LEMMA EndCounts ==
    ASSUME Fits, Progress(stack, lines, entries, faults), stack = << >>, lines = << >>
    PROVE  Counts(entries, faults, 0, {}, Places)
<1>1. ~OneCall(stack, lines, entries, faults) /\ ~TwoCalls(stack, lines, entries, faults)
  BY Tuples DEF OneCall, TwoCalls
<1>2. Counts(entries, faults, 0, CallsAfter(K(lines)), PassedFolders(K(lines)))
  BY <1>1 DEF Progress, NoCall
<1>3. PassedFolders(K(lines)) = Places
  <2>1. K(lines) = Len(LinesOf(dirpath))
    BY LineFacts DEF Progress
  <2> QED
    BY <2>1, PassedSets
<1>4. {} \in SUBSET CallsAfter(K(lines)) /\ Places \in SUBSET Places
  OBVIOUS
<1> QED
  BY <1>2, <1>3, <1>4, CountsSkip DEF Fits

LEMMA ListInvInit == Init => ListInv
<1> SUFFICES ASSUME Init PROVE ListInv
  OBVIOUS
<1>1. max_items \in ENTRIES_STEP .. MAX_ENTRIES
  BY EntriesAssumption DEF Init
<1> QED
  BY <1>1 DEF Init, ListInv

LEMMA ReadDirInv ==
    ASSUME ListInv, ReadDir
    PROVE  ListInv'
<1> DEFINE s == IF asked.subdirs THEN 1 ELSE 0
           f == Call(dirpath, s, TRUE, Len(dirpath))
<1>1. /\ world' = world /\ asked' = asked /\ dirpath' = dirpath /\ IsDir(dirpath) /\ world \in Worlds
      /\ phase' = "listing" /\ entries' = << >> /\ dir' = FALSE /\ lines' = LinesOf(dirpath)
      /\ \/ stack' = <<f>> /\ faults' = {}
         \/ stack' = << >> /\ faults' = {dirpath}
  BY DEF ListInv, ReadDir
<1>2. max_items' \in ENTRIES_STEP .. MAX_ENTRIES
  BY DEF ReadDir
<1>3. IsDir(dirpath)' /\ Fits'
  <2>1. IsDir(dirpath)'
    BY <1>1 DEF IsDir
  <2>2. max_items' \in Nat \ {0}
    BY <1>2, EntriesAssumption
  <2> QED
    BY <1>1, <2>1, <2>2 DEF Fits
<1>4. /\ Counts(<< >>, {}, 1, CallsPast(0, 0), PassedEntries(0, 0))'
      /\ (\A fl : fl # {} => Counts(<< >>, fl, 0, CallsAfter(0), PassedFolders(0)))'
  BY <1>3, StartCounts, PTL
<1>5. /\ LinesOf(dirpath)' = LinesOf(dirpath) /\ Folder(0)' = dirpath /\ 0 \in Folders /\ Folders' = Folders
      /\ LinesOf(dirpath) \in Seq(PathSet) /\ Len(LinesOf(dirpath)) \in Nat
  BY <1>1, SameLines, SamePlaces, FolderFacts DEF Folder
<1>6. Suffix(lines, LinesOf(dirpath), PathSet)'
  BY <1>1, <1>5, SuffixWhole
<1>7. K(lines)' = 0
  BY <1>1, <1>5 DEF K
<1>8. CASE stack' = <<f>> /\ faults' = {}
  <2>1. /\ f \in FrameSet /\ f.dir = dirpath /\ f.subdirs = s /\ f.todo = world.dir[dirpath]
        /\ world.dir[dirpath] \in Seq(EntrySet) /\ Len(world.dir[dirpath]) \in Nat
    <3>1. dirpath \in PathSet /\ world.dir[dirpath] \in Seq(EntrySet) /\ Len(world.dir[dirpath]) \in Nat
      BY <1>1, FoldersTyped DEF IsDir
    <3>2. Len(dirpath) \in Nat
      BY <3>1 DEF PathSet
    <3> QED
      BY <3>1, <3>2 DEF Call, FrameSet
  <2> HIDE DEF f
  <2>0. PICK h : h = f
    OBVIOUS
  <2>2. Outer(h, 0)'
    BY <1>1, <1>5, <2>0, <2>1, SuffixWhole DEF Outer
  <2>3. J(h)' = 0
    BY <1>1, <2>0, <2>1 DEF J
  <2>4. OneCall(stack, lines, entries, faults)'
    BY <1>1, <1>4, <1>7, <1>8, <2>0, <2>2, <2>3 DEF OneCall
  <2> QED
    BY <1>1, <1>2, <1>3, <1>6, <2>4 DEF ListInv, Progress
<1>9. CASE stack' = << >> /\ faults' = {dirpath}
  <2>1. NoCall(stack, lines, entries, faults)'
    BY <1>1, <1>4, <1>7, <1>9 DEF NoCall
  <2> QED
    BY <1>1, <1>2, <1>3, <1>6, <2>1 DEF ListInv, Progress
<1> QED
  BY <1>1, <1>8, <1>9

LEMMA ListInvNext == ListInv /\ [Next]_vars => ListInv'
<1> SUFFICES ASSUME ListInv, [Next]_vars PROVE ListInv'
  OBVIOUS
<1>1. CASE OpenDir
  <2>1. PICK r \in world.requests, subdirs \in BOOLEAN, opendir \in BOOLEAN :
          /\ dir' = (opendir /\ IsDir(translate_path(r, FALSE)))
          /\ dirpath' = IF dir' THEN translate_path(r, FALSE) ELSE NULL
    BY <1>1 DEF OpenDir
  <2>2. dir' \in BOOLEAN
    BY <2>1
  <2>3. world' = world
    BY <1>1 DEF OpenDir
  <2>4. dir' => IsDir(dirpath)'
    BY <2>1, <2>3 DEF IsDir
  <2>5. world' \in Worlds /\ phase' = "idle" /\ stack' = << >> /\ max_items' \in ENTRIES_STEP .. MAX_ENTRIES
    BY <1>1, EntriesAssumption DEF ListInv, OpenDir, Answered
  <2> QED
    BY <2>2, <2>4, <2>5 DEF ListInv
<1>2. CASE GetDirSize
  <2>1. /\ world' = world /\ dir' = dir /\ dirpath' = dirpath
        /\ phase' = "idle" /\ stack' = << >> /\ max_items' \in ENTRIES_STEP .. MAX_ENTRIES
    BY <1>2, EntriesAssumption DEF ListInv, GetDirSize, Answered
  <2> QED
    BY <2>1 DEF ListInv, IsDir
<1>3. CASE ReadNothing
  <2>1. /\ world' = world /\ dir' = dir /\ dirpath' = dirpath /\ max_items' = max_items
        /\ phase' = "sent" /\ stack' = << >> /\ entries' = << >> /\ faults' # {}
    BY <1>3 DEF ListInv, ReadNothing
  <2> QED
    BY <2>1 DEF ListInv, IsDir, SentSo
<1>4. CASE ReadDir
  BY <1>4, ReadDirInv
<1>5. CASE ReadEntry \/ ReturnFrom \/ NextLine \/ NoLines
  <2>1. /\ phase = "listing" /\ phase' = "listing"
        /\ UNCHANGED <<world, asked, dir, dirpath, max_items>>
    BY <1>5 DEF ReadEntry, ReturnFrom, NextLine, NoLines
  <2>2. Fits /\ Progress(stack, lines, entries, faults) /\ IsDir(dirpath)
    BY <2>1, FitsWhen DEF ListInv
  <2>3. Progress(stack', lines', entries', faults')
    BY <1>5, <2>2, EntryStep, ReturnStep, LineStep, NoLinesStep
  <2>4. Progress(stack, lines, entries, faults)'
    BY <2>1, <2>3, SameProgress
  <2>5. IsDir(dirpath)'
    BY <2>1, <2>2 DEF IsDir
  <2> QED
    BY <2>1, <2>4, <2>5, SMTT(40) DEF ListInv
<1>6. CASE Send
  <2>1. /\ phase = "listing" /\ stack = << >> /\ lines = << >> /\ phase' = "sent"
        /\ UNCHANGED <<world, asked, dir, dirpath, max_items, entries, stack, lines, faults>>
    BY <1>6 DEF Send, listVars
  <2>2. Fits /\ Progress(stack, lines, entries, faults) /\ IsDir(dirpath)
    BY <2>1, FitsWhen DEF ListInv
  <2>3. Counts(entries, faults, 0, {}, Places)
    BY <2>1, <2>2, EndCounts
  <2>4. (IsDir(dirpath) /\ Counts(entries, faults, 0, {}, Places))'
    BY <2>1, <2>2, <2>3, SameCounts, SamePlaces DEF IsDir
  <2> QED
    BY <2>1, <2>4 DEF ListInv, SentSo
<1>7. CASE UNCHANGED vars
  <2>1. UNCHANGED <<world, phase, asked, dir, dirpath, max_items, entries, stack, lines, faults>>
    BY <1>7 DEF vars, listVars
  <2>2. IsDir(dirpath)' <=> IsDir(dirpath)
    BY <2>1 DEF IsDir
  <2>3. Progress(stack, lines, entries, faults) => Progress(stack, lines, entries, faults)'
    BY <2>1, SameProgress
  <2>4. SentSo => SentSo'
    BY <2>1, <2>2, SameCounts, SamePlaces DEF SentSo
  <2> QED
    BY <2>1, <2>2, <2>3, <2>4 DEF ListInv
<1> QED
  BY <1>1, <1>2, <1>3, <1>4, <1>5, <1>6, <1>7 DEF Next

LEMMA ListInvAlways == Spec => []ListInv
BY ListInvInit, ListInvNext, PTL DEF Spec

-----------------------------------------------------------------------------
(* Theorems *)

\* In any file system, with any INI files: the calls of process_read_dir() are
\* at most two deep and of folders that exist, only a READ_DIR has any under
\* way, and a directory that is open has a path that is a folder.
THEOREM ListingTyped == Spec => []ListingTypeOK
<1>1. ListInv => ListingTypeOK
  <2> SUFFICES ASSUME ListInv PROVE ListingTypeOK
    OBVIOUS
  <2>1. /\ phase \in {"idle", "listing", "sent"} /\ dir \in BOOLEAN /\ (dir => IsDir(dirpath))
        /\ max_items \in ENTRIES_STEP .. MAX_ENTRIES /\ (stack # << >> => phase = "listing")
    BY DEF ListInv
  <2>2. Len(stack) <= 2 /\ \A i \in 1 .. Len(stack) : IsDir(stack[i].dir) /\ stack[i].subdirs \in 0 .. 2
    <3>1. CASE stack = << >>
      BY <3>1
    <3>2. CASE stack # << >>
      <4>1. Fits /\ Progress(stack, lines, entries, faults)
        BY <2>1, <3>2, FitsWhen DEF ListInv
      <4>2. \A f, k : Outer(f, k) => IsDir(f.dir) /\ f.subdirs \in 0 .. 2
        <5>1. \A f, k : Outer(f, k) => f.dir \in DOMAIN world.dir
          BY <4>1, FrameFacts
        <5>2. \A f, k : Outer(f, k) => f.subdirs \in 0 .. 2
          BY DEF Outer
        <5> QED
          BY <5>1, <5>2 DEF IsDir
      <4>3. \A g, f, k : Outer(f, k) /\ Inner(g, f, k) => IsDir(g.dir) /\ g.subdirs \in 0 .. 2
        <5>1. \A g, f, k : Outer(f, k) /\ Inner(g, f, k) => g.dir \in DOMAIN world.dir
          BY <4>1, InnerFacts
        <5>2. \A g, f, k : Inner(g, f, k) => g.subdirs \in 0 .. 2
          BY DEF Inner
        <5> QED
          BY <5>1, <5>2 DEF IsDir
      <4>4. CASE OneCall(stack, lines, entries, faults)
        <5>1. PICK f : stack = <<f>> /\ Outer(f, K(lines))
          BY <4>4 DEF OneCall
        <5>2. Len(stack) = 1 /\ stack[1] = f
          BY <5>1
        <5> QED
          BY <4>2, <5>1, <5>2
      <4>5. CASE TwoCalls(stack, lines, entries, faults)
        <5>1. PICK f, g : stack = <<g, f>> /\ Outer(f, K(lines)) /\ Inner(g, f, K(lines))
          BY <4>5 DEF TwoCalls
        <5>2. Len(stack) = 2 /\ stack[1] = g /\ stack[2] = f
          BY <5>1
        <5>3. \A i \in 1 .. Len(stack) : stack[i] = g \/ stack[i] = f
          BY <5>2
        <5> QED
          BY <4>2, <4>3, <5>1, <5>2, <5>3
      <4> QED
        BY <3>2, <4>1, <4>4, <4>5 DEF Progress, NoCall
    <3> QED
      BY <3>1, <3>2
  <2> QED
    BY <2>1, <2>2 DEF ListingTypeOK
<1> QED
  BY <1>1, ListInvAlways, PTL

\* Whatever the folders and the INI files hold: if no system call fails and the
\* INI file fits in its buffer, READ_DIR answers with all of the folder, then all
\* of each folder its INI file lists, each entry in its place, up to the length
\* of the array; with // that is one level of folders deep.
THEOREM ListingIsComplete == Spec => []ListingComplete
<1>1. ListInv => ListingComplete
  <2> SUFFICES ASSUME ListInv, phase = "sent", faults = {} PROVE ListingComplete
    BY DEF ListingComplete
  <2>1. world \in Worlds /\ IsDir(dirpath) /\ max_items \in ENTRIES_STEP .. MAX_ENTRIES
    BY DEF ListInv, SentSo
  <2>2. ListedSo(entries, Places) /\ \E S : entries \in Seq(S)
    BY DEF ListInv, SentSo, Counts
  <2>3. Fits
    BY <2>1, FitsWhen
  <2>4. max_items \in Nat /\ Len(entries) \in Nat /\ Cardinality(Places) \in Nat
    BY <2>2, <2>3, Ranks DEF Fits
  <2>5. CASE Len(entries) < max_items
    BY <2>2, <2>5 DEF ListedSo, ListingComplete
  <2>6. CASE ~(Len(entries) < max_items)
    BY <2>2, <2>6 DEF ListedSo, ListingComplete
  <2> QED
    BY <2>5, <2>6
<1> QED
  BY <1>1, ListInvAlways, PTL

\* However long the folders and the INI files are, a listing exceeds the array
\* of dir_entries by at most one entry for each call of process_read_dir()
\* after the first, at any time while it is written.
THEOREM EntriesStayInBounds == Spec => []EntriesInBounds
<1>1. ListInv => EntriesInBounds
  <2> SUFFICES ASSUME ListInv, phase # "idle", entries # << >>
               PROVE  Len(entries) <= max_items + Cardinality(Calls) - 1
    BY DEF EntriesInBounds
  <2>1. world \in Worlds /\ IsDir(dirpath) /\ max_items \in ENTRIES_STEP .. MAX_ENTRIES
    BY DEF ListInv, SentSo
  <2>2. Fits
    BY <2>1, FitsWhen
  <2>3. \E depth \in Nat : \E ahead, passed : Counts(entries, faults, depth, ahead, passed)
    <3>1. CASE phase = "listing"
      BY <3>1 DEF ListInv, Progress, NoCall, OneCall, TwoCalls
    <3>2. CASE phase = "sent"
      BY <3>2 DEF ListInv, SentSo
    <3> QED
      BY <3>1, <3>2 DEF ListInv
  <2>4. PICK depth \in Nat : \E ahead, passed : Counts(entries, faults, depth, ahead, passed)
    BY <2>3
  <2> PICK ahead, passed : Counts(entries, faults, depth, ahead, passed)
    BY <2>4
  <2>5. IsFiniteSet(Calls) /\ ahead \in SUBSET Calls /\ \E S : entries \in Seq(S)
    BY <2>2, CallFacts DEF Counts, Fits
  <2>6. Cardinality(ahead) \in Nat /\ Cardinality(Calls) \in Nat /\ Len(entries) \in Nat
    BY <2>5, FS_Subset, FS_CardinalityType
  <2>7. Cardinality(Calls) # 0
    <3>1. <<0, 0>> \in Calls
      BY <2>2, FolderFacts, CallSets DEF Fits
    <3> QED
      BY <2>5, <3>1, FS_EmptySet
  <2>8. Bounded(Len(entries), depth, ahead) /\ max_items \in Nat
    BY <2>2 DEF Counts, Fits
  <2> QED
    BY <2>6, <2>7, <2>8 DEF Bounded
<1> QED
  BY <1>1, ListInvAlways, PTL

-----------------------------------------------------------------------------
(* What a listed name leads to *)

LEMMA LeastIs ==
    ASSUME NEW S, S \subseteq Nat, NEW m \in S, \A x \in S : m <= x
    PROVE  Min(S) = m
<1>1. Min(S) \in S /\ \A y \in S : Min(S) <= y
  BY DEF Min
<1>2. Min(S) <= m /\ m <= Min(S) /\ Min(S) \in Nat /\ m \in Nat
  BY <1>1
<1> QED
  BY <1>2

LEMMA LeastIn ==
    ASSUME NEW n \in Nat, NEW S, S \subseteq 1 .. n, S # {}
    PROVE  Min(S) \in S /\ \A y \in S : Min(S) <= y
<1> DEFINE R == {0} \cup {n + 1 - x : x \in S}
<1>1. R \in SUBSET (0 .. n + 1) /\ 0 \in R /\ n + 1 \in Nat
  OBVIOUS
<1>2. PICK z \in R : \A y \in R : z >= y
  <2> HIDE DEF R
  <2> QED
    BY <1>1, GreatestExists
<1>3. \A x \in S : x \in Nat /\ x <= n /\ x >= 1 /\ n + 1 - x \in R
  OBVIOUS
<1>4. z # 0
  <2>1. PICK x \in S : TRUE
    OBVIOUS
  <2>2. z >= n + 1 - x /\ n + 1 - x >= 1
    BY <1>2, <1>3
  <2> QED
    BY <2>2
<1>5. PICK x \in S : z = n + 1 - x
  BY <1>2, <1>4
<1>6. \A y \in S : x <= y
  <2> SUFFICES ASSUME NEW y \in S PROVE x <= y
    OBVIOUS
  <2>1. z >= n + 1 - y /\ x \in Nat /\ y \in Nat
    BY <1>2, <1>3
  <2> QED
    BY <1>5, <2>1
<1> HIDE DEF R
<1> QED
  BY <1>6 DEF Min

NameSet == STRING

LEMMA PathsTyped == PathSet = Seq(NameSet)
BY DEF PathSet, NameSet

\* The parts of path q, which is p with one more name x.
Longer(q, p, x) ==
    /\ q \in PathSet /\ Len(p) \in Nat /\ Len(q) = Len(p) + 1 /\ Front(q) = p /\ Last(q) = x
    /\ \A n \in 1 .. Len(p) : Prefix(q, n) = Prefix(p, n)
    /\ Prefix(q, Len(q)) = q
    /\ \A n \in 0 .. Len(p) : After(q, n) = Append(After(p, n), x) /\ After(p, n) \in PathSet
    /\ \A d \in PathSet : \A n \in 0 .. Len(p) : d \o After(q, n) = Append(d \o After(p, n), x)

LEMMA LongerPath ==
    ASSUME NEW p \in PathSet, NEW x \in NameSet
    PROVE  Longer(Append(p, x), p, x)
<1> DEFINE q == Append(p, x)
<1>0. p \in Seq(NameSet)
  BY PathsTyped
<1>1. /\ q \in Seq(NameSet) /\ Len(q) = Len(p) + 1 /\ Len(p) \in Nat
      /\ q[Len(p) + 1] = x /\ \A i \in 1 .. Len(p) : q[i] = p[i]
  BY <1>0, AppendProperties, LenProperties
<1> HIDE DEF q
<1>2. \A i \in 1 .. Len(p) : p[i] \in NameSet
  BY <1>0, ElementOfSeq
<1>3. \A i \in 1 .. Len(q) : q[i] \in NameSet
  BY <1>1, ElementOfSeq
<1>4. ASSUME NEW n \in 0 .. Len(p) PROVE SubSeq(q, 1, n) = SubSeq(p, 1, n)
  <2>1. /\ SubSeq(q, 1, n) \in Seq(NameSet) /\ SubSeq(p, 1, n) \in Seq(NameSet)
        /\ Len(SubSeq(q, 1, n)) = n /\ Len(SubSeq(p, 1, n)) = n
        /\ \A i \in 1 .. n : SubSeq(q, 1, n)[i] = q[i] /\ SubSeq(p, 1, n)[i] = p[i]
    <3>1. 1 \in Int /\ n \in Int /\ \A i \in 1 .. n : i \in 1 .. Len(p) /\ i \in 1 .. Len(q)
      BY <1>1
    <3>2. /\ SubSeq(q, 1, n) \in Seq(NameSet) /\ Len(SubSeq(q, 1, n)) = (IF 1 <= n THEN n - 1 + 1 ELSE 0)
          /\ \A i \in 1 .. n - 1 + 1 : SubSeq(q, 1, n)[i] = q[1 + i - 1]
      BY <1>3, <3>1, SubSeqProperties
    <3>3. /\ SubSeq(p, 1, n) \in Seq(NameSet) /\ Len(SubSeq(p, 1, n)) = (IF 1 <= n THEN n - 1 + 1 ELSE 0)
          /\ \A i \in 1 .. n - 1 + 1 : SubSeq(p, 1, n)[i] = p[1 + i - 1]
      BY <1>2, <3>1, SubSeqProperties
    <3>4. n \in Nat /\ n - 1 + 1 = n /\ \A i \in 1 .. n : 1 + i - 1 = i
      BY <1>1
    <3> QED
      BY <3>2, <3>3, <3>4
  <2>2. \A i \in 1 .. n : SubSeq(q, 1, n)[i] = SubSeq(p, 1, n)[i]
    BY <1>1, <2>1
  <2> QED
    BY <2>1, <2>2, SeqEqual
<1>5. SubSeq(p, 1, Len(p)) = p /\ SubSeq(q, 1, Len(q)) = q
  BY <1>0, <1>1, SubSeqFull
<1>6. Front(q) = p /\ Last(q) = x /\ Prefix(q, Len(q)) = q
  <2>1. Len(q) - 1 = Len(p) /\ Len(p) \in 0 .. Len(p)
    BY <1>1
  <2>2. SubSeq(q, 1, Len(q) - 1) = p
    BY <1>4, <1>5, <2>1
  <2> QED
    BY <1>1, <1>5, <2>2 DEF Front, Last, Prefix
<1>7. \A n \in 1 .. Len(p) : Prefix(q, n) = Prefix(p, n)
  BY <1>1, <1>4 DEF Prefix
<1>8. ASSUME NEW n \in 0 .. Len(p)
      PROVE  After(q, n) = Append(After(p, n), x) /\ After(p, n) \in Seq(NameSet)
  <2> DEFINE a == SubSeq(p, n + 1, Len(p))
             b == SubSeq(q, n + 1, Len(q))
             m == Len(p) - n
  <2>1. /\ n + 1 \in Int /\ Len(p) \in Int /\ Len(q) \in Int /\ n \in Nat /\ m \in Nat
        /\ \A i \in n + 1 .. Len(p) : i \in 1 .. Len(p)
        /\ \A i \in n + 1 .. Len(q) : i \in 1 .. Len(q)
    BY <1>1
  <2>2. /\ a \in Seq(NameSet) /\ Len(a) = (IF n + 1 <= Len(p) THEN Len(p) - (n + 1) + 1 ELSE 0)
        /\ \A i \in 1 .. Len(p) - (n + 1) + 1 : a[i] = p[(n + 1) + i - 1]
    BY <1>2, <2>1, SubSeqProperties
  <2>3. /\ b \in Seq(NameSet) /\ Len(b) = (IF n + 1 <= Len(q) THEN Len(q) - (n + 1) + 1 ELSE 0)
        /\ \A i \in 1 .. Len(q) - (n + 1) + 1 : b[i] = q[(n + 1) + i - 1]
    BY <1>3, <2>1, SubSeqProperties
  <2> HIDE DEF a, b
  <2>4. Len(a) = m /\ Len(b) = m + 1 /\ Len(p) - (n + 1) + 1 = m /\ Len(q) - (n + 1) + 1 = m + 1
    BY <1>1, <2>1, <2>2, <2>3
  <2>5. m = Len(p) - n
    OBVIOUS
  <2> HIDE DEF m
  <2>6. (\A i \in 1 .. m : a[i] = p[n + i]) /\ \A i \in 1 .. m + 1 : b[i] = q[n + i]
    <3>1. \A i : i \in 1 .. m + 1 => (n + 1) + i - 1 = n + i
      BY <2>1
    <3>2. ASSUME NEW i \in 1 .. m PROVE a[i] = p[n + i]
      <4>1. i \in 1 .. m + 1 /\ a[i] = p[(n + 1) + i - 1]
        BY <2>1, <2>2, <2>4
      <4> QED
        BY <3>1, <4>1
    <3>3. ASSUME NEW i \in 1 .. m + 1 PROVE b[i] = q[n + i]
      <4>1. b[i] = q[(n + 1) + i - 1]
        BY <2>3, <2>4
      <4> QED
        BY <3>1, <4>1
    <3> QED
      BY <3>2, <3>3
  <2>7. /\ Append(a, x) \in Seq(NameSet) /\ Len(Append(a, x)) = m + 1
        /\ Append(a, x)[m + 1] = x /\ \A i \in 1 .. m : Append(a, x)[i] = a[i]
    BY <2>2, <2>4, AppendProperties
  <2>8. ASSUME NEW i \in 1 .. m + 1 PROVE b[i] = Append(a, x)[i]
    <3>1. CASE i = m + 1
      <4>1. n + i = Len(p) + 1
        BY <1>1, <2>1, <2>5, <3>1
      <4> QED
        BY <1>1, <2>6, <2>7, <3>1, <4>1
    <3>2. CASE i # m + 1
      <4>1. i \in 1 .. m /\ n + i \in 1 .. Len(p)
        BY <1>1, <2>1, <2>5, <3>2
      <4> QED
        BY <1>1, <2>6, <2>7, <4>1
    <3> QED
      BY <3>1, <3>2
  <2>9. b = Append(a, x)
    BY <2>3, <2>4, <2>7, <2>8, SeqEqual
  <2> QED
    BY <2>2, <2>9 DEF After, a, b
<1>9. ASSUME NEW d \in PathSet, NEW n \in 0 .. Len(p)
      PROVE  d \o After(q, n) = Append(d \o After(p, n), x)
  <2> DEFINE a == After(p, n)
  <2>1. After(q, n) = Append(a, x) /\ a \in Seq(NameSet) /\ d \in Seq(NameSet) /\ <<x>> \in Seq(NameSet)
    BY <1>8, PathsTyped
  <2> HIDE DEF a
  <2>2. Append(a, x) = a \o <<x>>
    BY <2>1, AppendIsConcat
  <2>3. d \o (a \o <<x>>) = (d \o a) \o <<x>>
    BY <2>1, ConcatAssociative
  <2>4. d \o a \in Seq(NameSet)
    BY <2>1, ConcatProperties
  <2>5. (d \o a) \o <<x>> = Append(d \o a, x)
    BY <2>4, AppendIsConcat
  <2> QED
    BY <2>1, <2>2, <2>3, <2>5 DEF a
<1>10. Longer(q, p, x)
  BY <1>1, <1>6, <1>7, <1>8, <1>9, PathsTyped DEF Longer
<1> QED
  BY <1>10 DEF q

\* What exists in a folder is one of its entries.
LEMMA ExistsIn ==
    ASSUME world \in Worlds, NEW p \in PathSet, Len(p) >= 1, NEW x \in NameSet
    PROVE  Exists(Append(p, x)) <=> IsDir(p) /\ \E i \in 1 .. Len(world.dir[p]) : world.dir[p][i].name = x
<1> DEFINE q == Append(p, x)
<1>0. Longer(q, p, x)
  BY LongerPath
<1> HIDE DEF q
<1>1. q \in PathSet /\ Len(q) = Len(p) + 1 /\ Front(q) = p /\ Last(q) = x /\ Len(p) \in Nat
  BY <1>0 DEF Longer
<1>2. Len(q) > 1
  BY <1>1
<1>3. IsDir(q) => IsDir(p) /\ \E i \in 1 .. Len(world.dir[p]) : world.dir[p][i].name = x
  BY <1>1, <1>2, PathsAssumption DEF IsDir
<1>4. IsDir(p) => (Named(q) # {} <=> \E i \in 1 .. Len(world.dir[p]) : world.dir[p][i].name = x)
  <2> SUFFICES ASSUME IsDir(p) PROVE Named(q) # {} <=> \E i \in 1 .. Len(world.dir[p]) : world.dir[p][i].name = x
    OBVIOUS
  <2>1. world.dir[p] \in Seq(EntrySet)
    BY FoldersTyped DEF IsDir
  <2>2. Range(world.dir[p]) = {world.dir[p][i] : i \in 1 .. Len(world.dir[p])}
    BY <2>1 DEF Range
  <2> QED
    BY <1>1, <2>2 DEF Named
<1> QED
  BY <1>1, <1>2, <1>3, <1>4 DEF Exists, q

\* The INI file that counts for a path.
LEMMA IniIs ==
    ASSUME NEW p \in PathSet
    PROVE  /\ IniOf(p) \in 0 .. Len(p) /\ Len(p) \in Nat
           /\ IniOf(p) # 0 => Prefix(p, IniOf(p)) \in DOMAIN world.ini
<1> DEFINE S == {0} \cup {n \in 1 .. Len(p) : Prefix(p, n) \in DOMAIN world.ini}
<1>1. Len(p) \in Nat
  BY DEF PathSet
<1>2. S \in SUBSET (0 .. Len(p)) /\ 0 \in S
  BY <1>1
<1>3. IniOf(p) \in S
  <2>1. \E x \in S : \A y \in S : x >= y
    BY <1>1, <1>2, GreatestExists
  <2> HIDE DEF S
  <2>2. Max(S) \in S
    BY <2>1 DEF Max
  <2> QED
    BY <2>2 DEF IniOf, S
<1> QED
  BY <1>1, <1>2, <1>3

LEMMA IniDeeper ==
    ASSUME NEW p \in PathSet, NEW x \in NameSet, Append(p, x) \notin DOMAIN world.ini
    PROVE  IniOf(Append(p, x)) = IniOf(p) /\ LinesOf(Append(p, x)) = LinesOf(p)
<1> DEFINE q == Append(p, x)
<1>0. Longer(q, p, x) /\ q \notin DOMAIN world.ini
  BY LongerPath
<1> HIDE DEF q
<1>1. /\ q \in PathSet /\ Len(q) = Len(p) + 1 /\ Len(p) \in Nat
      /\ \A n \in 1 .. Len(p) : Prefix(q, n) = Prefix(p, n)
      /\ Prefix(q, Len(q)) = q
  BY <1>0 DEF Longer
<1>2. q \notin DOMAIN world.ini
  BY <1>0
<1>3. {n \in 1 .. Len(q) : Prefix(q, n) \in DOMAIN world.ini} = {n \in 1 .. Len(p) : Prefix(p, n) \in DOMAIN world.ini}
  <2>1. ASSUME NEW n \in 1 .. Len(q), Prefix(q, n) \in DOMAIN world.ini
        PROVE  n \in 1 .. Len(p) /\ Prefix(p, n) \in DOMAIN world.ini
    <3>1. n # Len(q)
      BY <1>1, <1>2, <2>1
    <3>2. n \in 1 .. Len(p)
      BY <1>1, <3>1
    <3> QED
      BY <1>1, <2>1, <3>2
  <2>2. ASSUME NEW n \in 1 .. Len(p), Prefix(p, n) \in DOMAIN world.ini
        PROVE  n \in 1 .. Len(q) /\ Prefix(q, n) \in DOMAIN world.ini
    BY <1>1, <2>2
  <2> QED
    BY <2>1, <2>2
<1>4. IniOf(q) = IniOf(p)
  BY <1>3 DEF IniOf
<1>5. IniOf(p) # 0 => Prefix(q, IniOf(p)) = Prefix(p, IniOf(p))
  BY <1>1, IniIs
<1>6. LinesOf(q) = LinesOf(p)
  BY <1>4, <1>5 DEF LinesOf
<1> QED
  BY <1>4, <1>6 DEF q

\* A path below the shared directory, and the lines of its INI file.
LEMMA BelowRoot ==
    ASSUME NEW r \in PathSet
    PROVE  /\ <<Root>> \o r \in PathSet /\ Len(<<Root>> \o r) = Len(r) + 1 /\ Len(r) \in Nat
           /\ \A i \in 1 .. Len(r) : (<<Root>> \o r)[i + 1] = r[i]
           /\ \A x \in NameSet : <<Root>> \o Append(r, x) = Append(<<Root>> \o r, x)
<1>1. Root \in NameSet
  BY PathsAssumption DEF NameSet
<1>2. <<Root>> \in Seq(NameSet) /\ Len(<<Root>>) = 1 /\ r \in Seq(NameSet)
  BY <1>1, PathsTyped
<1>3. ASSUME NEW x \in NameSet PROVE <<Root>> \o Append(r, x) = Append(<<Root>> \o r, x)
  <2>1. <<x>> \in Seq(NameSet)
    OBVIOUS
  <2>2. Append(r, x) = r \o <<x>>
    BY <1>2, AppendIsConcat
  <2>3. <<Root>> \o (r \o <<x>>) = (<<Root>> \o r) \o <<x>>
    BY <1>2, <2>1, ConcatAssociative
  <2>4. <<Root>> \o r \in Seq(NameSet)
    BY <1>2, ConcatProperties
  <2>5. (<<Root>> \o r) \o <<x>> = Append(<<Root>> \o r, x)
    BY <2>4, AppendIsConcat
  <2> QED
    BY <2>2, <2>3, <2>5
<1>4. /\ <<Root>> \o r \in Seq(NameSet) /\ Len(<<Root>> \o r) = 1 + Len(r) /\ Len(r) \in Nat
      /\ \A i \in 1 .. 1 + Len(r) : (<<Root>> \o r)[i] = IF i <= 1 THEN <<Root>>[i] ELSE r[i - 1]
  BY <1>2, ConcatProperties, LenProperties
<1>5. \A i \in 1 .. Len(r) : (<<Root>> \o r)[i + 1] = r[i]
  <2> SUFFICES ASSUME NEW i \in 1 .. Len(r) PROVE (<<Root>> \o r)[i + 1] = r[i]
    OBVIOUS
  <2>1. i + 1 \in 1 .. 1 + Len(r) /\ ~(i + 1 <= 1) /\ (i + 1) - 1 = i
    BY <1>4
  <2> QED
    BY <1>4, <2>1
<1> QED
  BY <1>3, <1>4, <1>5, PathsTyped

LEMMA LinesAre ==
    ASSUME world \in Worlds, NEW p \in PathSet
    PROVE  /\ LinesOf(p) \in Seq(PathSet) /\ Len(LinesOf(p)) \in Nat
           /\ \A i \in 1 .. Len(LinesOf(p)) : LinesOf(p)[i] \in PathSet /\ Len(LinesOf(p)[i]) >= 1
           /\ Len(LinesOf(p)) # 0 => IniOf(p) # 0
<1>1. LinesOf(p) \in Seq(PathSet) /\ Len(LinesOf(p)) \in Nat
  BY LinesTyped
<1>2. \A i \in 1 .. Len(LinesOf(p)) : LinesOf(p)[i] \in PathSet
  BY <1>1
<1>3. ASSUME NEW i \in 1 .. Len(LinesOf(p)) PROVE LinesOf(p)[i] # << >>
  <2>1. IniOf(p) # 0
    BY <1>1 DEF LinesOf
  <2>2. Prefix(p, IniOf(p)) \in DOMAIN world.ini
    BY <2>1, IniIs
  <2> QED
    BY <2>1, <2>2, LinesReadTyped DEF LinesOf
<1>4. \A q \in PathSet : q # << >> => Len(q) >= 1
  BY PathsTyped
<1>5. Len(LinesOf(p)) # 0 => IniOf(p) # 0
  BY DEF LinesOf
<1> QED
  BY <1>1, <1>2, <1>3, <1>4, <1>5

\* translate_path() takes a name in a folder that it has found for the folder's
\* own entry of that name.
LEMMA Deeper ==
    ASSUME world \in Worlds, NEW r \in PathSet, NEW x \in NameSet,
           IsDir(translate_path(r, FALSE)), Exists(Append(translate_path(r, FALSE), x))
    PROVE  translate_path(Append(r, x), FALSE) = Append(translate_path(r, FALSE), x)
<1> DEFINE p == <<Root>> \o r
           t == translate_path(r, FALSE)
           q == Append(p, x)
           n == IniOf(p)
<1>1. t = (IF Exists(p) THEN p ELSE Redirect(p))
  BY DEF translate_path
<1>2. translate_path(Append(r, x), FALSE) = (IF Exists(q) THEN q ELSE Redirect(q))
  <2>1. <<Root>> \o Append(r, x) = q
    BY BelowRoot
  <2> QED
    BY <2>1 DEF translate_path
<1>3. p \in PathSet /\ Len(p) \in Nat /\ Len(p) >= 1
  BY BelowRoot
<1>4. IsDir(t) /\ Exists(Append(t, x))
  OBVIOUS
<1> HIDE DEF p, t
<1>5. CASE Exists(p)
  BY <1>1, <1>2, <1>4, <1>5 DEF p, t
<1>6. CASE ~Exists(p)
  <2>1. ~IsDir(p) /\ ~Exists(q)
    BY <1>3, <1>6, ExistsIn DEF Exists
  <2>2. q \notin DOMAIN world.ini
    <3>1. Longer(q, p, x)
      BY <1>3, LongerPath
    <3> HIDE DEF q
    <3>2. Len(q) > 1 /\ Front(q) = p
      BY <1>3, <3>1 DEF Longer
    <3> QED
      BY <2>1, <3>2, PathsAssumption DEF IsDir
  <2>3. IniOf(q) = n /\ LinesOf(q) = LinesOf(p)
    BY <1>3, <2>2, IniDeeper
  <2>4. /\ Len(LinesOf(p)) \in Nat
        /\ \A i \in 1 .. Len(LinesOf(p)) : LinesOf(p)[i] \in PathSet /\ Len(LinesOf(p)[i]) >= 1
    BY <1>3, LinesAre
  <2>5. n \in 0 .. Len(p)
    BY <1>3, IniIs
  <2>6. Longer(q, p, x)
    BY <1>3, LongerPath
  <2> DEFINE L == LinesOf(p)
             y(i) == L[i] \o After(p, n)
  <2> HIDE DEF q, n
  <2>7. ASSUME NEW i \in 1 .. Len(L)
        PROVE  y(i) \in PathSet /\ Len(y(i)) >= 1 /\ L[i] \o After(q, n) = Append(y(i), x)
    <3>1. After(p, n) \in PathSet /\ L[i] \o After(q, n) = Append(L[i] \o After(p, n), x)
      BY <2>4, <2>5, <2>6 DEF Longer
    <3>2. L[i] \in Seq(NameSet) /\ After(p, n) \in Seq(NameSet) /\ Len(L[i]) >= 1
      BY <2>4, <3>1, PathsTyped
    <3> HIDE DEF L
    <3>3. y(i) \in Seq(NameSet) /\ Len(y(i)) = Len(L[i]) + Len(After(p, n))
          /\ Len(L[i]) \in Nat /\ Len(After(p, n)) \in Nat
      BY <3>2, ConcatProperties, LenProperties
    <3> HIDE DEF y
    <3> QED
      BY <3>1, <3>2, <3>3, PathsTyped DEF y
  <2>8. Found(p) = {i \in 1 .. Len(L) : Exists(y(i))}
    BY DEF Found, n
  <2>9. Found(q) = {i \in 1 .. Len(L) : Exists(Append(y(i), x))}
    <3>1. Found(q) = {i \in 1 .. Len(L) : Exists(L[i] \o After(q, n))}
      BY <2>3 DEF Found
    <3> HIDE DEF L, y
    <3> QED
      BY <2>7, <3>1
  <2>10. Found(p) # {} /\ t = y(Min(Found(p)))
    <3>1. t # p
      BY <1>4, <2>1
    <3> QED
      BY <1>1, <1>6, <3>1 DEF Redirect, n
  <2> DEFINE m == Min(Found(p))
  <2>11. m \in Found(p) /\ \A i \in Found(p) : m <= i
    <3>1. Found(p) \subseteq 1 .. Len(L)
      BY <2>8
    <3> HIDE DEF L, y
    <3> QED
      BY <2>4, <2>10, <3>1, LeastIn DEF L
  <2> HIDE DEF L, y, m
  <2>12. m \in Found(q)
    BY <1>4, <2>8, <2>9, <2>10, <2>11 DEF m
  <2>13. \A i \in Found(q) : i \in Found(p)
    <3> SUFFICES ASSUME NEW i \in Found(q) PROVE i \in Found(p)
      OBVIOUS
    <3>1. i \in 1 .. Len(L) /\ Exists(Append(y(i), x))
      BY <2>9
    <3>2. y(i) \in PathSet /\ Len(y(i)) >= 1
      BY <2>7, <3>1
    <3>3. IsDir(y(i))
      BY <3>1, <3>2, ExistsIn
    <3> QED
      BY <2>8, <3>1, <3>3 DEF Exists
  <2>14. Min(Found(q)) = m
    <3>1. Found(q) \subseteq Nat /\ \A i \in Found(q) : m <= i
      BY <2>9, <2>11, <2>13
    <3> QED
      BY <2>12, <3>1, LeastIs
  <2>15. Redirect(q) = L[m] \o After(q, n)
    BY <2>3, <2>12, <2>14 DEF Redirect, L
  <2>16. L[m] \o After(q, n) = Append(y(m), x)
    BY <2>7, <2>8, <2>11
  <2> QED
    BY <1>2, <2>1, <2>10, <2>15, <2>16 DEF m, t
<1> QED
  BY <1>5, <1>6

\* No path to a folder begins with the name of a virtual one.
LEMMA NotVirtual ==
    ASSUME world \in Worlds, NEW r \in PathSet, Len(r) >= 1, IsDir(translate_path(r, FALSE))
    PROVE  r[1] \notin Virtual
<1> DEFINE p == <<Root>> \o r
           t == translate_path(r, FALSE)
           n == IniOf(p)
<1>1. t = (IF Exists(p) THEN p ELSE Redirect(p)) /\ t \in DOMAIN world.dir
  BY DEF translate_path, IsDir
<1>2. p \in PathSet /\ Len(p) \in Nat /\ Len(p) >= 2 /\ p[2] = r[1] /\ Len(p) = Len(r) + 1 /\ Len(r) \in Nat
  <2>1. 1 \in 1 .. Len(r) /\ 1 + 1 = 2
    BY BelowRoot
  <2>2. /\ p \in PathSet /\ Len(p) = Len(r) + 1 /\ Len(r) \in Nat
        /\ \A i \in 1 .. Len(r) : p[i + 1] = r[i]
    BY BelowRoot
  <2> HIDE DEF p
  <2> QED
    BY <2>1, <2>2
<1> HIDE DEF p, t
<1>3. \A d \in DOMAIN world.dir \cup DOMAIN world.ini : \A i \in 1 .. Len(d) : d[i] \notin Virtual
  BY PathsAssumption
<1>4. CASE t = p
  BY <1>1, <1>2, <1>3, <1>4
<1>5. CASE t # p
  <2>1. Found(p) # {} /\ t = LinesOf(p)[Min(Found(p))] \o After(p, n)
    BY <1>1, <1>5 DEF Redirect, n
  <2>2. /\ Len(LinesOf(p)) \in Nat
        /\ \A i \in 1 .. Len(LinesOf(p)) : LinesOf(p)[i] \in PathSet /\ Len(LinesOf(p)[i]) >= 1
        /\ Len(LinesOf(p)) # 0 => IniOf(p) # 0
    BY <1>2, LinesAre
  <2>3. Found(p) \subseteq 1 .. Len(LinesOf(p))
    BY DEF Found
  <2> DEFINE m == Min(Found(p))
  <2>4. m \in 1 .. Len(LinesOf(p))
    BY <2>1, <2>2, <2>3, LeastIn
  <2> HIDE DEF m
  <2>5. n \in 1 .. Len(p) /\ Prefix(p, n) \in DOMAIN world.ini
    BY <1>2, <2>2, <2>4, IniIs
  <2> HIDE DEF n
  <2>6. \A i \in 1 .. Len(p) : p[i] \in NameSet
    BY <1>2, PathsTyped, ElementOfSeq
  <2>7. CASE n >= 2
    <3> DEFINE d == SubSeq(p, 1, n)
    <3>1. 1 \in Int /\ n \in Int /\ 1 <= n /\ \A i \in 1 .. n : i \in 1 .. Len(p)
      BY <1>2, <2>5
    <3>2. Len(d) = n - 1 + 1 /\ \A i \in 1 .. n - 1 + 1 : d[i] = p[1 + i - 1]
      BY <2>6, <3>1, SubSeqProperties
    <3> HIDE DEF d
    <3>3. n - 1 + 1 = n /\ 1 + 2 - 1 = 2 /\ 2 \in 1 .. n
      BY <2>5, <2>7
    <3>4. Len(d) = n /\ d[2] = p[2]
      BY <3>2, <3>3
    <3>5. d \in DOMAIN world.ini
      BY <2>5 DEF d, Prefix
    <3>6. d[2] \notin Virtual
      BY <1>3, <3>3, <3>4, <3>5
    <3> QED
      BY <1>2, <3>4, <3>6
  <2>8. CASE n = 1
    <3> DEFINE a == SubSeq(p, 2, Len(p))
               l == LinesOf(p)[m]
    <3>1. After(p, n) = a
      BY <2>8 DEF After
    <3>2. 2 \in Int /\ Len(p) \in Int /\ 2 <= Len(p) /\ \A i \in 2 .. Len(p) : i \in 1 .. Len(p)
      BY <1>2
    <3>3. a \in Seq(NameSet) /\ Len(a) = Len(p) - 2 + 1 /\ \A i \in 1 .. Len(p) - 2 + 1 : a[i] = p[2 + i - 1]
      BY <2>6, <3>2, SubSeqProperties
    <3> HIDE DEF a
    <3>4. Len(a) \in Nat /\ Len(a) >= 1 /\ a[1] = p[2]
      <4>1. 1 \in 1 .. Len(p) - 2 + 1 /\ 2 + 1 - 1 = 2 /\ Len(p) - 2 + 1 \in Nat /\ Len(p) - 2 + 1 >= 1
        BY <1>2
      <4> QED
        BY <3>3, <4>1
    <3>5. l \in Seq(NameSet)
      BY <2>2, <2>4, PathsTyped
    <3> HIDE DEF l
    <3>6. /\ Len(l \o a) = Len(l) + Len(a) /\ Len(l) \in Nat
          /\ \A i \in 1 .. Len(l) + Len(a) : (l \o a)[i] = IF i <= Len(l) THEN l[i] ELSE a[i - Len(l)]
      <4>1. a \in Seq(NameSet)
        BY <3>3
      <4>2. /\ Len(l \o a) = Len(l) + Len(a)
            /\ \A i \in 1 .. Len(l) + Len(a) : (l \o a)[i] = IF i <= Len(l) THEN l[i] ELSE a[i - Len(l)]
        BY <3>5, <4>1, ConcatProperties, Zenon
      <4>3. Len(l) \in Nat
        BY <3>5, LenProperties
      <4> QED
        BY <4>2, <4>3
    <3>7. Len(l) + 1 \in 1 .. Len(l) + Len(a) /\ ~(Len(l) + 1 <= Len(l)) /\ (Len(l) + 1) - Len(l) = 1
      BY <3>4, <3>6
    <3>8. (l \o a)[Len(l) + 1] = a[1]
      BY <3>6, <3>7
    <3>9. t = l \o a
      BY <2>1, <3>1 DEF m, l
    <3>10. (l \o a)[Len(l) + 1] \notin Virtual
      <4>1. Len(l) + 1 \in 1 .. Len(t)
        BY <3>6, <3>7, <3>9
      <4> QED
        BY <1>1, <1>3, <3>9, <4>1
    <3> QED
      BY <1>2, <3>4, <3>8, <3>10
  <2> QED
    BY <1>2, <2>5, <2>7, <2>8
<1> QED
  BY <1>4, <1>5

\* A command finds a file by its path, and OPEN_FILE does so with a virtual
\* folder in front, too.
FoundBy(request, path) ==
    /\ \A viso \in BOOLEAN : translate_path(request, viso) = path
    /\ \A v \in Virtual : translate_path(<<v>> \o request, TRUE) = path

LEMMA OpenedBy ==
    ASSUME NEW q \in PathSet, Len(q) >= 1, q[1] \notin Virtual
    PROVE  FoundBy(q, translate_path(q, FALSE))
<1>1. translate_path(q, TRUE) = translate_path(q, FALSE)
  BY DEF translate_path
<1>2. ASSUME NEW v \in Virtual PROVE translate_path(<<v>> \o q, TRUE) = translate_path(q, FALSE)
  <2> DEFINE S == NameSet \cup {v}
             w == <<v>> \o q
  <2>1. q \in Seq(S) /\ <<v>> \in Seq(S) /\ Len(<<v>>) = 1 /\ <<v>>[1] = v /\ Len(q) \in Nat
    BY PathsTyped, SeqMonotonic
  <2> HIDE DEF S
  <2>2. /\ w \in Seq(S) /\ Len(w) = 1 + Len(q)
        /\ \A i \in 1 .. 1 + Len(q) : w[i] = IF i <= 1 THEN <<v>>[i] ELSE q[i - 1]
    BY <2>1, ConcatProperties
  <2> HIDE DEF w
  <2>3. Len(w) > 1 /\ w[1] = v /\ w # << >>
    BY <2>1, <2>2
  <2>4. Tail(w) \in Seq(S) /\ Len(Tail(w)) = Len(q) /\ \A i \in 1 .. Len(q) : Tail(w)[i] = w[i + 1]
    BY <2>1, <2>2, <2>3, HeadTailProperties
  <2>5. \A i \in 1 .. Len(q) : Tail(w)[i] = q[i]
    <3> SUFFICES ASSUME NEW i \in 1 .. Len(q) PROVE Tail(w)[i] = q[i]
      OBVIOUS
    <3>1. i + 1 \in 1 .. 1 + Len(q) /\ ~(i + 1 <= 1) /\ (i + 1) - 1 = i
      BY <2>1
    <3> QED
      BY <2>2, <2>4, <3>1
  <2>6. Tail(w) = q
    BY <2>1, <2>4, <2>5, SeqEqual
  <2>7. translate_path(w, TRUE) = translate_path(q, FALSE)
    BY <1>2, <2>3, <2>6 DEF translate_path
  <2> QED
    BY <2>7 DEF w
<1> QED
  BY <1>1, <1>2 DEF FoundBy

\* The open folder is the one translate_path() found for the path asked for.
Opened == IsDir(dirpath) /\ asked.path \in PathSet /\ dirpath = translate_path(asked.path, FALSE)

\* An entry of the open folder or, with subdirs, of a folder in it.
OwnEntry(e) ==
    \E j \in 1 .. Len(world.dir[dirpath]) :
        LET path == Append(dirpath, world.dir[dirpath][j].name)
        IN  \/ e.name = <<world.dir[dirpath][j].name>> /\ e.src = path
            \/ /\ path \in DOMAIN world.dir
               /\ \E l \in 1 .. Len(world.dir[path]) :
                     /\ e.name = <<world.dir[dirpath][j].name, world.dir[path][l].name>>
                     /\ e.src = Append(path, world.dir[path][l].name)
OwnSo(en) == \A m \in 1 .. Len(en) : en[m].own => OwnEntry(en[m])

\* Only the first of the calls is for the open folder itself.
FrameSo(f, ln) == (f.own <=> K(ln) = 0) /\ (f.own => f.skip = Len(dirpath))
FramesSo(st, ln) == \A i \in 1 .. Len(st) : FrameSo(st[i], ln)

\* Some entry before number m has the name of entry j of folder k.
Earlier(en, m, k, j) == \E i \in 1 .. m - 1 : en[i].name = <<Item(k, j).name>>

\* Entry number m is one of folder k, and the names of all folders before that
\* one come earlier.
Shown(en, m) ==
    \E k \in Folders : \E j \in 1 .. Len(world.dir[Folder(k)]) :
        /\ en[m].name = <<Item(k, j).name>> /\ en[m].src = Below(k, j) /\ (en[m].own <=> k = 0)
        /\ \A h \in Folders : h < k => \A i \in 1 .. Len(world.dir[Folder(h)]) : Earlier(en, m, h, i)
NamesSo(en) == \A m \in 1 .. Len(en) : m <= max_items => Shown(en, m)

\* What has been passed: all of the folders before k, and of folder k what
\* comes before the point the call has come to.
Past(st, ln, k, j) == k < K(ln) \/ (k = K(ln) /\ (st = << >> \/ j <= J(Head(st))))
PassedSo(st, ln, en) ==
    \A k \in Folders : \A j \in 1 .. Len(world.dir[Folder(k)]) :
        Past(st, ln, k, j) => Earlier(en, Len(en) + 1, k, j)

OpenSo(st, ln, en, fl) ==
    /\ OwnSo(en) /\ FramesSo(st, ln)
    /\ fl = {} /\ ~asked.subdirs =>
          NamesSo(en) /\ (Len(en) < max_items => PassedSo(st, ln, en))

\* The name of an entry of the open folder is the rest of its path.
LEMMA NameIs ==
    ASSUME NEW p \in PathSet, NEW x \in NameSet, NEW y \in NameSet
    PROVE  /\ After(Append(p, x), Len(p)) = <<x>>
           /\ After(Append(Append(p, x), y), Len(p)) = <<x, y>>
<1> DEFINE q == Append(p, x)
           r == Append(q, y)
<1>1. Longer(q, p, x) /\ Longer(r, q, y)
  <2>1. Longer(q, p, x)
    BY LongerPath
  <2>2. q \in PathSet
    BY <2>1 DEF Longer
  <2> QED
    BY <2>1, <2>2, LongerPath
<1> HIDE DEF q, r
<1>2. Len(p) \in Nat /\ Len(q) = Len(p) + 1 /\ Len(p) \in 0 .. Len(p) /\ Len(p) \in 0 .. Len(q)
  BY <1>1 DEF Longer
<1>3. After(p, Len(p)) = << >>
  <2>1. Len(p) < Len(p) + 1 /\ Len(p) + 1 \in Int /\ Len(p) \in Int
    BY <1>2
  <2>2. SubSeq(p, Len(p) + 1, Len(p)) = << >>
    BY <2>1, SubSeqEmpty
  <2> QED
    BY <2>2 DEF After
<1>4. After(q, Len(p)) = Append(<< >>, x)
  <2>1. \A n \in 0 .. Len(p) : After(q, n) = Append(After(p, n), x)
    BY <1>1 DEF Longer
  <2>2. After(q, Len(p)) = Append(After(p, Len(p)), x)
    BY <1>2, <2>1, Zenon
  <2> QED
    BY <1>3, <2>2, Zenon
<1>5. After(r, Len(p)) = Append(Append(<< >>, x), y)
  <2>1. \A n \in 0 .. Len(q) : After(r, n) = Append(After(q, n), y)
    BY <1>1 DEF Longer
  <2>2. After(r, Len(p)) = Append(After(q, Len(p)), y)
    BY <1>2, <2>1, Zenon
  <2> QED
    BY <1>4, <2>2, Zenon
<1>6. Append(<< >>, x) = <<x>> /\ Append(<<x>>, y) = <<x, y>>
  <2>1. << >> \in Seq(NameSet) /\ <<x>> \in Seq(NameSet) /\ <<y>> \in Seq(NameSet)
    OBVIOUS
  <2>2. Append(<< >>, x) = << >> \o <<x>> /\ Append(<<x>>, y) = <<x>> \o <<y>>
    BY <2>1, AppendIsConcat
  <2>3. << >> \o <<x>> = <<x>>
    BY <2>1, ConcatEmptySeq
  <2>4. <<x>> \o <<y>> = <<x, y>>
    BY Tuples
  <2> QED
    BY <2>2, <2>3, <2>4, Zenon
<1> QED
  BY <1>4, <1>5, <1>6 DEF q, r

LEMMA EntryNames ==
    ASSUME world \in Worlds
    PROVE  \A d \in DOMAIN world.dir : d \in PathSet /\ \A i \in 1 .. Len(world.dir[d]) :
              world.dir[d][i].name \in NameSet /\ world.dir[d][i].name \notin Virtual
<1>1. \A d \in DOMAIN world.dir : d \in PathSet /\ \A i \in 1 .. Len(world.dir[d]) : world.dir[d][i] \in EntrySet
  BY FoldersTyped
<1>2. \A e \in EntrySet : e.name \in NameSet
  BY DEF EntrySet, NameSet
<1>3. \A d \in DOMAIN world.dir : \A i \in 1 .. Len(world.dir[d]) : world.dir[d][i].name \notin Virtual
  BY PathsAssumption
<1> QED
  BY <1>1, <1>2, <1>3

\* A call for the open folder lists its entries, and one within it those of the
\* folder in it.
LEMMA OuterOwn ==
    ASSUME Fits, Suffix(lines, LinesOf(dirpath), PathSet), NEW f, Outer(f, K(lines)), FrameSo(f, lines),
           f.todo # << >>, f.own, NEW b
    PROVE  OwnEntry(Entry(f, Head(f.todo), b))
<1> DEFINE e == Head(f.todo)
           j == J(f) + 1
           x == Entry(f, e, b)
<1>1. K(lines) = 0 /\ f.skip = Len(dirpath)
  BY DEF FrameSo
<1>2. f.dir = dirpath /\ dirpath \in DOMAIN world.dir /\ world \in Worlds
  BY <1>1 DEF Outer, Folder, Fits, IsDir
<1>3. j \in 1 .. Len(world.dir[dirpath]) /\ e = world.dir[dirpath][j]
  BY <1>1, FrameFacts, ZenonT(60) DEF Item, Folder
<1> HIDE DEF e, j
<1>4. dirpath \in PathSet /\ e.name \in NameSet
  BY <1>2, <1>3, EntryNames
<1>5. x.src = Append(dirpath, e.name)
  BY <1>2 DEF Entry
<1>6. x.name = <<e.name>>
  BY <1>1, <1>2, <1>4, NameIs DEF Entry
<1> HIDE DEF x
<1>7. OwnEntry(x)
  BY <1>3, <1>5, <1>6 DEF OwnEntry
<1> QED
  BY <1>7 DEF x, e

LEMMA InnerOwn ==
    ASSUME Fits, Suffix(lines, LinesOf(dirpath), PathSet), NEW f, NEW g,
           Outer(f, K(lines)), Inner(g, f, K(lines)), FrameSo(g, lines),
           g.todo # << >>, g.own, NEW b
    PROVE  OwnEntry(Entry(g, Head(g.todo), b))
<1> DEFINE e == Head(g.todo)
           j == J(f)
           l == J(g) + 1
           x == Entry(g, e, b)
           path == Append(dirpath, world.dir[dirpath][j].name)
<1>1. K(lines) = 0 /\ g.skip = Len(dirpath)
  BY DEF FrameSo
<1>2. dirpath \in DOMAIN world.dir /\ world \in Worlds
  BY DEF Fits, IsDir
<1>3. j \in 1 .. Len(world.dir[dirpath]) /\ g.dir = path /\ g.subdirs = 2
  BY <1>1 DEF Inner, Below, Item, Folder
<1>4. g.dir \in DOMAIN world.dir /\ l \in 1 .. Len(world.dir[g.dir]) /\ e = world.dir[g.dir][l]
  BY InnerFacts
<1> HIDE DEF e, j, l
<1>5. dirpath \in PathSet /\ world.dir[dirpath][j].name \in NameSet
  BY <1>2, <1>3, EntryNames
<1>6. e.name \in NameSet
  BY <1>2, <1>4, EntryNames
<1>7. x.src = Append(path, e.name)
  BY <1>3 DEF Entry
<1>8. x.name = After(Append(path, e.name), Len(dirpath))
  BY <1>1, <1>3 DEF Entry
<1>9. x.name = <<world.dir[dirpath][j].name, e.name>>
  BY <1>5, <1>6, <1>8, NameIs
<1> HIDE DEF x
<1>10. OwnEntry(x)
  BY <1>3, <1>4, <1>7, <1>9 DEF OwnEntry
<1> QED
  BY <1>10 DEF x, e

LEMMA FramesOf ==
    ASSUME NEW ln, NEW f, NEW g
    PROVE  /\ FramesSo(<< >>, ln)
           /\ FramesSo(<<f>>, ln) <=> FrameSo(f, ln)
           /\ FramesSo(<<g, f>>, ln) <=> FrameSo(g, ln) /\ FrameSo(f, ln)
<1>1. Len(<< >>) = 0 /\ Len(<<f>>) = 1 /\ Len(<<g, f>>) = 2 /\ <<f>>[1] = f /\ <<g, f>>[1] = g /\ <<g, f>>[2] = f
  OBVIOUS
<1>2. 1 .. 0 = {} /\ 1 .. 1 = {1} /\ 1 .. 2 = {1, 2}
  OBVIOUS
<1> QED
  BY <1>1, <1>2 DEF FramesSo

LEMMA AddOwn ==
    ASSUME NEW en, \E S : en \in Seq(S), OwnSo(en), NEW x, x.own => OwnEntry(x)
    PROVE  OwnSo(Append(en, x))
<1> DEFINE q == Append(en, x)
<1>1. Len(en) \in Nat /\ Len(q) = Len(en) + 1 /\ (\A i \in 1 .. Len(en) : q[i] = en[i]) /\ q[Len(en) + 1] = x
  BY AppendFacts
<1> HIDE DEF q
<1>2. \A i \in 1 .. Len(q) : i \in 1 .. Len(en) \/ i = Len(en) + 1
  BY <1>1
<1>3. OwnSo(q)
  BY <1>1, <1>2 DEF OwnSo
<1> QED
  BY <1>3 DEF q

\* What comes earlier in a listing still does when it goes on.
LEMMA EarlierMore ==
    ASSUME NEW en, \E S : en \in Seq(S), NEW x, NEW k, NEW j
    PROVE  /\ \A m \in 1 .. Len(en) + 1 : Earlier(en, m, k, j) => Earlier(Append(en, x), m, k, j)
           /\ Earlier(en, Len(en) + 1, k, j) => Earlier(Append(en, x), Len(Append(en, x)) + 1, k, j)
           /\ x.name = <<Item(k, j).name>> => Earlier(Append(en, x), Len(Append(en, x)) + 1, k, j)
<1> DEFINE q == Append(en, x)
<1>1. Len(en) \in Nat /\ Len(q) = Len(en) + 1 /\ (\A i \in 1 .. Len(en) : q[i] = en[i]) /\ q[Len(en) + 1] = x
  BY AppendFacts
<1> HIDE DEF q
<1>2. ASSUME NEW m \in 1 .. Len(en) + 1, Earlier(en, m, k, j) PROVE Earlier(q, m, k, j)
  <2>1. PICK i \in 1 .. m - 1 : en[i].name = <<Item(k, j).name>>
    BY <1>2 DEF Earlier
  <2>2. i \in 1 .. Len(en)
    BY <1>1
  <2> QED
    BY <1>1, <2>1, <2>2 DEF Earlier
<1>3. ASSUME Earlier(en, Len(en) + 1, k, j) PROVE Earlier(q, Len(q) + 1, k, j)
  <2>1. PICK i \in 1 .. (Len(en) + 1) - 1 : en[i].name = <<Item(k, j).name>>
    BY <1>3 DEF Earlier
  <2>2. i \in 1 .. Len(en) /\ i \in 1 .. (Len(q) + 1) - 1
    BY <1>1
  <2> QED
    BY <1>1, <2>1, <2>2 DEF Earlier
<1>4. ASSUME x.name = <<Item(k, j).name>> PROVE Earlier(q, Len(q) + 1, k, j)
  <2>1. Len(en) + 1 \in 1 .. (Len(q) + 1) - 1
    BY <1>1
  <2> QED
    BY <1>1, <1>4, <2>1 DEF Earlier
<1> QED
  BY <1>2, <1>3, <1>4 DEF q

\* The call for folder k lists one more of its entries.
LEMMA AddName ==
    ASSUME Fits, Suffix(lines, LinesOf(dirpath), PathSet), NEW en, \E S : en \in Seq(S),
           NEW f, Outer(f, K(lines)), FrameSo(f, lines), f.todo # << >>, ~asked.subdirs, NEW b,
           NamesSo(en), Len(en) < max_items => PassedSo(<<f>>, lines, en)
    PROVE  LET x == Entry(f, Head(f.todo), b)
               r == [f EXCEPT !.todo = Tail(@)]
           IN  /\ NamesSo(Append(en, x))
               /\ Len(Append(en, x)) < max_items => PassedSo(<<r>>, lines, Append(en, x))
<1> DEFINE k == K(lines)
           e == Head(f.todo)
           x == Entry(f, e, b)
           r == [f EXCEPT !.todo = Tail(@)]
           q == Append(en, x)
           j == J(f) + 1
<1>1. /\ k \in Folders /\ k \in Nat /\ J(f) \in Nat /\ f.dir = Folder(k) /\ f.subdirs = 0
      /\ j \in 1 .. Len(world.dir[Folder(k)]) /\ e = Item(k, j) /\ Append(f.dir, e.name) = Below(k, j)
      /\ J(r) = j /\ (f.own <=> k = 0) /\ f.own \in BOOLEAN
  <2>1. Outer(f, k) /\ k \in Folders /\ f.dir = Folder(k) /\ f.subdirs = 0 /\ f.own \in BOOLEAN
    BY DEF Outer, FrameSet
  <2>2. f.own <=> k = 0
    BY DEF FrameSo
  <2> HIDE DEF k
  <2>3. /\ k \in Nat /\ J(f) \in Nat /\ j \in 1 .. Len(world.dir[Folder(k)]) /\ e = Item(k, j)
        /\ Append(f.dir, e.name) = Below(k, j) /\ J(r) = j
    BY <2>1, FrameFacts
  <2> QED
    BY <2>1, <2>2, <2>3
<1>2. x.name = <<Item(k, j).name>> /\ x.src = Below(k, j) /\ x.own = f.own
  BY <1>1 DEF Entry
<1>3. /\ Len(en) \in Nat /\ Len(q) = Len(en) + 1 /\ (\A i \in 1 .. Len(en) : q[i] = en[i])
      /\ q[Len(en) + 1] = x /\ max_items \in Nat
  BY AppendFacts DEF Fits
<1>4. /\ \A h, i : \A m \in 1 .. Len(en) + 1 : Earlier(en, m, h, i) => Earlier(q, m, h, i)
      /\ \A h, i : Earlier(en, Len(en) + 1, h, i) => Earlier(q, Len(q) + 1, h, i)
      /\ Earlier(q, Len(q) + 1, k, j)
  BY <1>2, EarlierMore
<1>5. \A h, i : Past(<<f>>, lines, h, i) <=> h < k \/ (h = k /\ i <= J(f))
  <2>1. Head(<<f>>) = f /\ <<f>> # << >>
    BY Tuples
  <2> QED
    BY <2>1 DEF Past
<1>6. \A h, i : Past(<<r>>, lines, h, i) <=> h < k \/ (h = k /\ i <= j)
  <2> HIDE DEF r
  <2>1. Head(<<r>>) = r /\ <<r>> # << >>
    BY Tuples
  <2> QED
    BY <1>1, <2>1 DEF Past
<1> HIDE DEF k, e, x, r, q, j
<1>7. NamesSo(q)
  <2> SUFFICES ASSUME NEW m \in 1 .. Len(q), m <= max_items PROVE Shown(q, m)
    BY DEF NamesSo
  <2>1. CASE m \in 1 .. Len(en)
    <3>1. Shown(en, m)
      BY <2>1 DEF NamesSo
    <3> PICK h \in Folders : \E i \in 1 .. Len(world.dir[Folder(h)]) :
             /\ en[m].name = <<Item(h, i).name>> /\ en[m].src = Below(h, i) /\ (en[m].own <=> h = 0)
             /\ \A g \in Folders : g < h => \A l \in 1 .. Len(world.dir[Folder(g)]) : Earlier(en, m, g, l)
      BY <3>1 DEF Shown
    <3>2. PICK i \in 1 .. Len(world.dir[Folder(h)]) :
             /\ en[m].name = <<Item(h, i).name>> /\ en[m].src = Below(h, i) /\ (en[m].own <=> h = 0)
             /\ \A g \in Folders : g < h => \A l \in 1 .. Len(world.dir[Folder(g)]) : Earlier(en, m, g, l)
      OBVIOUS
    <3>3. m \in 1 .. Len(en) + 1 /\ q[m] = en[m]
      BY <1>3, <2>1
    <3>4. \A g \in Folders : g < h => \A l \in 1 .. Len(world.dir[Folder(g)]) : Earlier(q, m, g, l)
      BY <1>4, <3>2, <3>3
    <3> QED
      BY <3>2, <3>3, <3>4 DEF Shown
  <2>2. CASE m = Len(en) + 1
    <3>1. PassedSo(<<f>>, lines, en)
      BY <1>3, <2>2
    <3>2. \A g \in Folders : g < k => \A l \in 1 .. Len(world.dir[Folder(g)]) : Earlier(en, m, g, l)
      BY <1>5, <2>2, <3>1 DEF PassedSo
    <3>3. \A g \in Folders : g < k => \A l \in 1 .. Len(world.dir[Folder(g)]) : Earlier(q, m, g, l)
      <4>1. m \in 1 .. Len(en) + 1
        BY <1>3, <2>2
      <4> QED
        BY <1>4, <3>2, <4>1
    <3>4. q[m] = x /\ q[m].name = <<Item(k, j).name>> /\ q[m].src = Below(k, j) /\ (q[m].own <=> k = 0)
      BY <1>1, <1>2, <1>3, <2>2
    <3> QED
      BY <1>1, <3>3, <3>4 DEF Shown
  <2> QED
    BY <1>3, <2>1, <2>2
<1>8. ASSUME Len(q) < max_items PROVE PassedSo(<<r>>, lines, q)
  <2>1. PassedSo(<<f>>, lines, en)
    BY <1>3, <1>8
  <2> SUFFICES ASSUME NEW h \in Folders, NEW i \in 1 .. Len(world.dir[Folder(h)]), Past(<<r>>, lines, h, i)
               PROVE  Earlier(q, Len(q) + 1, h, i)
    BY DEF PassedSo
  <2>2. CASE h = k /\ i = j
    BY <1>4, <2>2
  <2>3. CASE ~(h = k /\ i = j)
    <3>1. h < k \/ (h = k /\ i <= J(f))
      <4>1. j = J(f) + 1
        BY DEF j
      <4>2. h < k \/ (h = k /\ i <= j)
        BY <1>6
      <4>3. h = k => i \in Nat
        BY <1>1
      <4> QED
        BY <1>1, <2>3, <4>1, <4>2, <4>3
    <3>2. Earlier(en, Len(en) + 1, h, i)
      BY <1>5, <2>1, <3>1 DEF PassedSo
    <3> QED
      BY <1>4, <3>2
  <2> QED
    BY <2>2, <2>3
<1> QED
  BY <1>7, <1>8 DEF q, r, x, e

LEMMA SomeCounts ==
    ASSUME Progress(stack, lines, entries, faults)
    PROVE  /\ Suffix(lines, LinesOf(dirpath), PathSet) /\ \E S : entries \in Seq(S)
           /\ \/ stack = << >>
              \/ \E f : stack = <<f>> /\ Outer(f, K(lines))
              \/ \E f, g : stack = <<g, f>> /\ Outer(f, K(lines)) /\ Inner(g, f, K(lines))
  BY DEF Progress, NoCall, OneCall, TwoCalls, Counts

LEMMA EntryOpens ==
    ASSUME Fits, Progress(stack, lines, entries, faults), OpenSo(stack, lines, entries, faults), ReadEntry
    PROVE  OpenSo(stack', lines', entries', faults')
<1>1. /\ Suffix(lines, LinesOf(dirpath), PathSet) /\ \E S : entries \in Seq(S)
      /\ stack # << >> /\ lines' = lines /\ Head(stack).todo # << >>
      /\ \/ \E f : stack = <<f>> /\ Outer(f, K(lines))
         \/ \E f, g : stack = <<g, f>> /\ Outer(f, K(lines)) /\ Inner(g, f, K(lines))
  BY SomeCounts DEF ReadEntry
<1> DEFINE h == Head(stack)
           e == Head(h.todo)
           r == [h EXCEPT !.todo = Tail(@)]
           c == Call(Append(h.dir, e.name), 2, h.own, h.skip)
           x(b) == Entry(h, e, b)
<1>2. /\ \/ entries' = entries /\ (h.subdirs > 0)
         \/ \E b \in BOOLEAN : entries' = Append(entries, x(b)) /\ ~(h.subdirs > 0 /\ b)
                /\ (faults' = {} => faults = {})
                /\ stack' = IF Full(Len(entries')) THEN Tail(stack) ELSE <<r>> \o Tail(stack)
      /\ \/ stack' = <<c>> \o (<<r>> \o Tail(stack)) /\ h.subdirs = 1
         \/ stack' = <<r>> \o Tail(stack)
         \/ stack' = Tail(stack)
  <2>1. PICK stat \in BOOLEAN :
          LET is_directory == e.dir \/ ~stat
              failed == IF stat THEN {} ELSE {Append(h.dir, e.name)}
          IN  IF is_directory /\ h.subdirs > 0
              THEN /\ UNCHANGED entries
                   /\ IF h.subdirs = 1 /\ e.dir
                      THEN \/ stack' = <<c>> \o (<<r>> \o Tail(stack)) /\ faults' = faults \cup failed
                           \/ stack' = <<r>> \o Tail(stack) /\ NotListed(Append(h.dir, e.name))
                      ELSE stack' = <<r>> \o Tail(stack) /\ faults' = faults \cup failed
              ELSE /\ entries' = Append(entries, Entry(h, e, is_directory))
                   /\ stack' = IF Full(Len(entries')) THEN Tail(stack) ELSE <<r>> \o Tail(stack)
                   /\ faults' = faults \cup failed
    BY DEF ReadEntry
  <2> DEFINE b == e.dir \/ ~stat
  <2>2. b \in BOOLEAN
    OBVIOUS
  <2> HIDE DEF h, e, r, c
  <2>3. CASE b /\ h.subdirs > 0
    BY <2>1, <2>3
  <2>4. CASE ~(b /\ h.subdirs > 0)
    <3>1. /\ entries' = Append(entries, x(b)) /\ (faults' = {} => faults = {})
          /\ stack' = IF Full(Len(entries')) THEN Tail(stack) ELSE <<r>> \o Tail(stack)
      BY <2>1, <2>4
    <3> HIDE DEF b
    <3> QED
      BY <2>2, <2>4, <3>1
  <2> QED
    BY <2>3, <2>4
<1>3. r.own = h.own /\ r.skip = h.skip /\ c.own = h.own /\ c.skip = h.skip
  <2>1. h \in FrameSet
    BY <1>1, Tuples DEF Outer, Inner
  <2> HIDE DEF h
  <2> QED
    BY <2>1 DEF FrameSet, Call
<1>4. OwnSo(entries) /\ FramesSo(stack, lines)
  BY DEF OpenSo
<1>5. FrameSo(h, lines) => FrameSo(r, lines) /\ FrameSo(c, lines)
  <2> HIDE DEF h, r, c
  <2> QED
    BY <1>3 DEF FrameSo
<1>6. CASE \E f : stack = <<f>> /\ Outer(f, K(lines))
  <2>1. PICK f : stack = <<f>> /\ Outer(f, K(lines))
    BY <1>6
  <2>2. h = f /\ Tail(stack) = << >> /\ FrameSo(f, lines) /\ f.todo # << >>
    BY <1>1, <1>4, <2>1, Tuples, FramesOf
  <2>3. FrameSo(r, lines) /\ FrameSo(c, lines)
    BY <1>5, <2>2
  <2>4. <<r>> \o Tail(stack) = <<r>> /\ <<c>> \o (<<r>> \o Tail(stack)) = <<c, r>>
    <3> HIDE DEF c, r
    <3>1. <<r>> \o << >> = <<r>> /\ <<c>> \o <<r>> = <<c, r>>
      BY Tuples
    <3> QED
      BY <2>2, <3>1, Zenon
  <2>5. FramesSo(stack', lines)
    <3> HIDE DEF c, r, h, e
    <3> QED
      BY <1>2, <2>2, <2>3, <2>4, FramesOf
  <2>6. \A b : h.own => OwnEntry(x(b))
    BY <1>1, <2>1, <2>2, OuterOwn
  <2>7. OwnSo(entries')
    <3>1. \A b : x(b).own = h.own
      BY DEF Entry
    <3> HIDE DEF c, r, h, e, x
    <3> QED
      BY <1>1, <1>2, <1>4, <2>6, <3>1, AddOwn
  <2>8. ASSUME faults' = {}, ~asked.subdirs
        PROVE  NamesSo(entries') /\ (Len(entries') < max_items => PassedSo(stack', lines, entries'))
    <3>1. h.subdirs = 0
      BY <2>1, <2>2, <2>8 DEF Outer
    <3>2. PICK b \in BOOLEAN :
            /\ entries' = Append(entries, x(b)) /\ faults = {}
            /\ stack' = IF Full(Len(entries')) THEN << >> ELSE <<r>>
      <4> HIDE DEF c, r, h, e, x
      <4>1. ~(h.subdirs > 0)
        BY <3>1
      <4>2. PICK b \in BOOLEAN :
               /\ entries' = Append(entries, x(b)) /\ (faults' = {} => faults = {})
               /\ stack' = IF Full(Len(entries')) THEN Tail(stack) ELSE <<r>> \o Tail(stack)
        BY <1>2, <4>1, Zenon
      <4> QED
        BY <2>2, <2>4, <2>8, <4>2, Zenon
    <3>3. NamesSo(entries) /\ (Len(entries) < max_items => PassedSo(<<f>>, lines, entries))
      BY <2>1, <2>8, <3>2 DEF OpenSo
    <3>4. /\ NamesSo(Append(entries, x(b)))
          /\ Len(Append(entries, x(b))) < max_items => PassedSo(<<r>>, lines, Append(entries, x(b)))
      BY <1>1, <2>1, <2>2, <2>8, <3>3, AddName
    <3>5. Len(entries') < max_items => stack' = <<r>>
      <4>1. Len(entries') \in Nat /\ max_items \in Nat
        BY <1>1, <3>2, AppendFacts DEF Fits
      <4> HIDE DEF c, r, h, e, x
      <4> QED
        BY <3>2, <4>1 DEF Full
    <3> HIDE DEF c, r, h, e, x
    <3> QED
      BY <3>2, <3>4, <3>5
  <2> QED
    BY <1>1, <2>5, <2>7, <2>8 DEF OpenSo
<1>7. CASE \E f, g : stack = <<g, f>> /\ Outer(f, K(lines)) /\ Inner(g, f, K(lines))
  <2>1. PICK f, g : stack = <<g, f>> /\ Outer(f, K(lines)) /\ Inner(g, f, K(lines))
    BY <1>7
  <2>2. h = g /\ Tail(stack) = <<f>> /\ FrameSo(f, lines) /\ FrameSo(g, lines) /\ g.todo # << >>
    BY <1>1, <1>4, <2>1, Tuples, FramesOf
  <2>3. FrameSo(r, lines)
    BY <1>5, <2>2
  <2>4. <<r>> \o Tail(stack) = <<r, f>> /\ h.subdirs = 2 /\ asked.subdirs
    <3>1. <<r>> \o Tail(stack) = <<r, f>>
      <4> HIDE DEF r
      <4>1. <<r>> \o <<f>> = <<r, f>>
        BY Tuples
      <4> QED
        BY <2>2, <4>1, Zenon
    <3> QED
      BY <2>1, <2>2, <3>1 DEF Inner
  <2>5. FramesSo(stack', lines)
    <3> HIDE DEF c, r, h, e, x
    <3>0. ~(h.subdirs = 1)
      BY <2>4
    <3>1. stack' = <<r, f>> \/ stack' = <<f>>
      BY <1>2, <2>2, <2>4, <3>0, Zenon
    <3> QED
      BY <2>2, <2>3, <3>1, FramesOf
  <2>6. \A b : h.own => OwnEntry(x(b))
    BY <1>1, <2>1, <2>2, InnerOwn
  <2>7. OwnSo(entries')
    <3>1. \A b : x(b).own = h.own
      BY DEF Entry
    <3> HIDE DEF c, r, h, e, x
    <3> QED
      BY <1>1, <1>2, <1>4, <2>6, <3>1, AddOwn
  <2> QED
    BY <1>1, <2>4, <2>5, <2>7 DEF OpenSo
<1> QED
  BY <1>1, <1>6, <1>7

LEMMA ReturnOpens ==
    ASSUME Fits, Progress(stack, lines, entries, faults), OpenSo(stack, lines, entries, faults), ReturnFrom
    PROVE  OpenSo(stack', lines', entries', faults')
<1>1. /\ stack # << >> /\ stack' = Tail(stack) /\ lines' = lines /\ entries' = entries
      /\ faults' = {} => faults = {} /\ Head(stack).todo = << >>
  BY DEF ReturnFrom, NotListed
<1>2. /\ OwnSo(entries) /\ FramesSo(stack, lines)
      /\ faults = {} /\ ~asked.subdirs =>
            NamesSo(entries) /\ (Len(entries) < max_items => PassedSo(stack, lines, entries))
  BY DEF OpenSo
<1>3. CASE \E f : stack = <<f>> /\ Outer(f, K(lines))
  <2>1. PICK f : stack = <<f>> /\ Outer(f, K(lines))
    BY <1>3
  <2>2. stack' = << >> /\ (faults' = {} => f.todo = << >>) /\ Head(stack) = f
    BY <1>1, <2>1, Tuples
  <2>3. FramesSo(stack', lines)
    BY <2>2, FramesOf
  <2>4. faults' = {} =>
           K(lines) \in Folders /\ f.dir = Folder(K(lines)) /\ J(f) = Len(world.dir[Folder(K(lines))])
    BY <2>1, <2>2, FrameFacts DEF Outer
  <2>5. ASSUME faults' = {}, PassedSo(stack, lines, entries) PROVE PassedSo(<< >>, lines, entries)
    <3> SUFFICES ASSUME NEW k \in Folders, NEW j \in 1 .. Len(world.dir[Folder(k)]), Past(<< >>, lines, k, j)
                 PROVE  Earlier(entries, Len(entries) + 1, k, j)
      BY DEF PassedSo
    <3>1. k < K(lines) \/ k = K(lines)
      BY DEF Past
    <3>2. k = K(lines) => j <= J(f)
      BY <2>4, <2>5
    <3>3. Past(stack, lines, k, j)
      BY <2>2, <3>1, <3>2 DEF Past
    <3> QED
      BY <2>5, <3>3 DEF PassedSo
  <2> QED
    BY <1>1, <1>2, <2>2, <2>3, <2>5 DEF OpenSo
<1>4. CASE \E f, g : stack = <<g, f>> /\ Outer(f, K(lines)) /\ Inner(g, f, K(lines))
  <2>1. PICK f, g : stack = <<g, f>> /\ Outer(f, K(lines)) /\ Inner(g, f, K(lines))
    BY <1>4
  <2>2. stack' = <<f>> /\ asked.subdirs
    BY <1>1, <2>1, Tuples DEF Inner
  <2>3. FramesSo(stack', lines)
    BY <1>2, <2>1, <2>2, FramesOf
  <2> QED
    BY <1>1, <1>2, <2>2, <2>3 DEF OpenSo
<1> QED
  BY <1>1, <1>3, <1>4, SomeCounts

LEMMA LineOpens ==
    ASSUME Fits, Progress(stack, lines, entries, faults), OpenSo(stack, lines, entries, faults), NextLine
    PROVE  OpenSo(stack', lines', entries', faults')
<1> DEFINE k == K(lines)
           skip == IF Head(lines)[1] = Root THEN 1 ELSE 0
           s == IF asked.subdirs THEN 1 ELSE 0
           f == Call(Head(lines), s, FALSE, skip)
<1>1. /\ stack = << >> /\ lines # << >> /\ lines' = Tail(lines) /\ entries' = entries
      /\ \/ IsDir(Head(lines)) /\ stack' = <<f>> /\ faults' = faults
         \/ stack' = << >> /\ (IF IsDir(Head(lines)) THEN faults' # {} ELSE faults' = faults)
  BY DEF NextLine, NotListed
<1>2. /\ OwnSo(entries) /\ FramesSo(stack, lines)
      /\ faults = {} /\ ~asked.subdirs =>
            NamesSo(entries) /\ (Len(entries) < max_items => PassedSo(stack, lines, entries))
  BY DEF OpenSo
<1>3. /\ k \in Nat /\ K(Tail(lines)) = k + 1
      /\ Head(lines) = Folder(k + 1) /\ (IsDir(Head(lines)) <=> k + 1 \in Folders)
  BY <1>1, SomeCounts, LineFacts
<1>4. IsDir(Head(lines)) => f.own = FALSE /\ J(f) = 0
  <2>1. ASSUME IsDir(Head(lines)) PROVE f.own = FALSE /\ J(f) = 0
    <3>1. k + 1 \in Folders /\ skip \in Nat /\ FALSE \in BOOLEAN
      BY <1>3, <2>1
    <3>2. J(f) = 0
      <4> HIDE DEF skip
      <4> QED
        BY <1>3, <3>1, NewCalls
    <3>3. f.own = FALSE
      BY DEF Call
    <3> QED
      BY <3>2, <3>3
  <2> QED
    BY <2>1
<1> HIDE DEF k, f
<1>5. FramesSo(stack', lines')
  <2>1. CASE stack' = << >>
    BY <2>1, FramesOf
  <2>2. CASE IsDir(Head(lines)) /\ stack' = <<f>>
    <3>1. f.own = FALSE /\ K(lines') # 0
      BY <1>1, <1>3, <1>4, <2>2
    <3>2. FrameSo(f, lines')
      BY <3>1 DEF FrameSo
    <3> QED
      BY <2>2, <3>2, FramesOf
  <2> QED
    BY <1>1, <2>1, <2>2
<1>6. ASSUME faults' = {}, PassedSo(stack, lines, entries) PROVE PassedSo(stack', lines', entries)
  <2> SUFFICES ASSUME NEW h \in Folders, NEW j \in 1 .. Len(world.dir[Folder(h)]), Past(stack', lines', h, j)
               PROVE  Earlier(entries, Len(entries) + 1, h, j)
    BY DEF PassedSo
  <2>0. h \in Nat
    BY FolderFacts DEF Fits, Folders
  <2>1. h < k + 1
    <3>1. h < k + 1 \/ (h = k + 1 /\ (stack' = << >> \/ j <= J(Head(stack'))))
      BY <1>1, <1>3 DEF Past
    <3>2. ~(h = k + 1 /\ (stack' = << >> \/ j <= J(Head(stack'))))
      <4>1. CASE IsDir(Head(lines)) /\ stack' = <<f>>
        <5>1. Head(stack') = f /\ stack' # << >> /\ J(f) = 0
          BY <1>4, <4>1, Tuples
        <5>2. ~(j <= 0)
          OBVIOUS
        <5> QED
          BY <5>1, <5>2
      <4>2. CASE ~IsDir(Head(lines))
        BY <1>3, <4>2
      <4> QED
        BY <1>1, <1>6, <4>1, <4>2
    <3> QED
      BY <3>1, <3>2
  <2>2. h < k \/ h = k
    BY <1>3, <2>0, <2>1
  <2>3. Past(stack, lines, h, j)
    BY <1>1, <2>2 DEF Past, k
  <2> QED
    BY <1>6, <2>3 DEF PassedSo
<1>7. faults' = {} => faults = {}
  BY <1>1
<1> QED
  BY <1>1, <1>2, <1>5, <1>6, <1>7 DEF OpenSo

LEMMA NoLinesOpens ==
    ASSUME OpenSo(stack, lines, entries, faults), NoLines
    PROVE  OpenSo(stack', lines', entries', faults')
<1>1. stack' = << >> /\ entries' = entries /\ faults' # {}
  BY DEF NoLines, NotListed
<1> QED
  BY <1>1, FramesOf DEF OpenSo

\* A listing begins with the open folder.
StartSo ==
    /\ OpenSo(<< >>, lines, << >>, {dirpath})
    /\ \A t : OpenSo(<<Call(dirpath, t, TRUE, Len(dirpath))>>, LinesOf(dirpath), << >>, {})

LEMMA StartOpens == Fits => StartSo
<1> SUFFICES ASSUME Fits PROVE StartSo
  OBVIOUS
<1>1. Len(<< >>) = 0 /\ 1 .. 0 = {}
  OBVIOUS
<1>2. OwnSo(<< >>) /\ NamesSo(<< >>)
  BY <1>1 DEF OwnSo, NamesSo
<1>3. OpenSo(<< >>, lines, << >>, {dirpath})
  BY <1>2, FramesOf DEF OpenSo
<1>4. ASSUME NEW s PROVE OpenSo(<<Call(dirpath, s, TRUE, Len(dirpath))>>, LinesOf(dirpath), << >>, {})
  <2> DEFINE f == Call(dirpath, s, TRUE, Len(dirpath))
             ln == LinesOf(dirpath)
  <2>1. K(ln) = 0
    <3>1. Len(LinesOf(dirpath)) \in Nat
      BY FolderFacts DEF Fits
    <3> QED
      BY <3>1 DEF K
  <2>2. f.own = TRUE /\ f.skip = Len(dirpath) /\ J(f) = 0
    <3>1. Len(world.dir[dirpath]) \in Nat
      BY FoldersTyped DEF Fits, IsDir
    <3> QED
      BY <3>1 DEF Call, J
  <2> HIDE DEF f, ln
  <2>3. FrameSo(f, ln)
    BY <2>1, <2>2 DEF FrameSo
  <2>4. FramesSo(<<f>>, ln)
    BY <2>3, FramesOf
  <2>5. PassedSo(<<f>>, ln, << >>)
    <3> SUFFICES ASSUME NEW h \in Folders, NEW j \in 1 .. Len(world.dir[Folder(h)]), Past(<<f>>, ln, h, j)
                 PROVE  FALSE
      BY DEF PassedSo
    <3>1. h \in Nat
      BY FolderFacts DEF Fits, Folders
    <3>2. Head(<<f>>) = f /\ <<f>> # << >>
      BY Tuples
    <3>3. h < 0 \/ j <= 0
      BY <2>1, <2>2, <3>2 DEF Past
    <3> QED
      BY <3>1, <3>3
  <2> QED
    BY <1>2, <2>4, <2>5 DEF OpenSo, f, ln
<1> QED
  BY <1>3, <1>4 DEF StartSo

LEMMA SameTranslate ==
    ASSUME world' = world
    PROVE  \A r, viso : translate_path(r, viso)' = translate_path(r, viso)
<1>1. \A p : Exists(p)' <=> Exists(p)
  BY DEF Exists, Named, IsDir
<1>2. \A p : IniOf(p)' = IniOf(p)
  BY DEF IniOf
<1>3. \A p : LinesOf(p)' = LinesOf(p)
  BY <1>2 DEF LinesOf, LinesRead
<1>4. \A p : Found(p)' = Found(p)
  BY <1>1, <1>2, <1>3 DEF Found
<1>5. \A p : Redirect(p)' = Redirect(p)
  BY <1>2, <1>3, <1>4 DEF Redirect
<1> QED
  BY <1>1, <1>5 DEF translate_path

LEMMA SameOpened ==
    ASSUME Opened, UNCHANGED <<world, asked, dirpath>>
    PROVE  Opened'
<1>1. translate_path(asked.path, FALSE)' = translate_path(asked.path, FALSE)
  BY SameTranslate
<1> QED
  BY <1>1 DEF Opened, IsDir

LEMMA SameOpens ==
    ASSUME UNCHANGED <<world, asked, dirpath, max_items>>
    PROVE  /\ \A en : OwnSo(en) => OwnSo(en)'
           /\ \A en : NamesSo(en) => NamesSo(en)'
           /\ \A st, ln, en, fl : OpenSo(st, ln, en, fl) => OpenSo(st, ln, en, fl)'
<1>1. /\ LinesOf(dirpath)' = LinesOf(dirpath) /\ Folders' = Folders /\ \A k : Folder(k)' = Folder(k)
      /\ \A k, j : Item(k, j)' = Item(k, j) /\ Below(k, j)' = Below(k, j)
  BY SameLines, SamePlaces
<1>2. (\A ln : K(ln)' = K(ln)) /\ \A f : J(f)' = J(f)
  BY <1>1 DEF K, J
<1>3. \A e : OwnEntry(e)' <=> OwnEntry(e)
  BY DEF OwnEntry
<1>4. \A en : OwnSo(en)' <=> OwnSo(en)
  BY <1>3 DEF OwnSo
<1>5. \A st, ln : FramesSo(st, ln)' <=> FramesSo(st, ln)
  BY <1>2 DEF FramesSo, FrameSo
<1>6. \A en, m, k, j : Earlier(en, m, k, j)' <=> Earlier(en, m, k, j)
  BY <1>1 DEF Earlier
<1>7. \A en, m : Shown(en, m)' <=> Shown(en, m)
  BY <1>1, <1>6 DEF Shown
<1>8. \A en : NamesSo(en)' <=> NamesSo(en)
  BY <1>7 DEF NamesSo
<1>9. \A st, ln, k, j : Past(st, ln, k, j)' <=> Past(st, ln, k, j)
  BY <1>2 DEF Past
<1>10. \A st, ln, en : PassedSo(st, ln, en)' <=> PassedSo(st, ln, en)
  BY <1>1, <1>6, <1>9 DEF PassedSo
<1>11. \A st, ln, en, fl : OpenSo(st, ln, en, fl)' <=> OpenSo(st, ln, en, fl)
  BY <1>4, <1>5, <1>8, <1>10, Zenon DEF OpenSo
<1> QED
  BY <1>4, <1>8, <1>11

\* What the names of a listing say, while it is made and when it is sent.
OpenInv ==
    /\ dir \/ phase = "listing" \/ entries # << >> => Opened
    /\ phase = "listing" => OpenSo(stack, lines, entries, faults)
    /\ phase = "sent" /\ entries # << >> =>
          OwnSo(entries) /\ (faults = {} /\ ~asked.subdirs => NamesSo(entries))

LEMMA OpenInvNext == ListInv /\ OpenInv /\ [Next]_vars => OpenInv'
<1> SUFFICES ASSUME ListInv, OpenInv, [Next]_vars PROVE OpenInv'
  OBVIOUS
<1>1. CASE OpenDir
  <2>1. PICK r \in world.requests, subdirs \in BOOLEAN, opendir \in BOOLEAN :
          /\ asked' = [path |-> r, subdirs |-> subdirs]
          /\ dir' = (opendir /\ IsDir(translate_path(r, FALSE)))
          /\ dirpath' = IF dir' THEN translate_path(r, FALSE) ELSE NULL
    BY <1>1 DEF OpenDir
  <2>2. world' = world /\ phase' = "idle" /\ entries' = << >> /\ world \in Worlds
    BY <1>1 DEF OpenDir, Answered, ListInv
  <2>3. r \in PathSet
    BY <2>2, WorldsAssumption DEF PathSet
  <2>4. ASSUME dir' PROVE Opened'
    <3>1. dirpath' = translate_path(r, FALSE) /\ asked'.path = r /\ dirpath' \in DOMAIN world'.dir
      BY <2>1, <2>2, <2>4 DEF IsDir
    <3>2. translate_path(r, FALSE)' = translate_path(r, FALSE)
      BY <2>2, SameTranslate
    <3> QED
      BY <2>3, <3>1, <3>2 DEF Opened, IsDir
  <2> QED
    BY <2>2, <2>4 DEF OpenInv
<1>2. CASE GetDirSize
  <2>1. UNCHANGED <<world, asked, dir, dirpath>> /\ phase' = "idle" /\ entries' = << >>
    BY <1>2 DEF GetDirSize, Answered
  <2> QED
    BY <2>1, SameOpened DEF OpenInv
<1>3. CASE ReadNothing
  <2>1. UNCHANGED <<world, asked, dir, dirpath>> /\ phase' = "sent" /\ entries' = << >>
    BY <1>3 DEF ReadNothing
  <2> QED
    BY <2>1, SameOpened DEF OpenInv
<1>4. CASE ReadDir
  <2> DEFINE s == IF asked.subdirs THEN 1 ELSE 0
             f == Call(dirpath, s, TRUE, Len(dirpath))
  <2>1. /\ UNCHANGED <<world, asked, dirpath>> /\ dir
        /\ phase' = "listing" /\ entries' = << >> /\ dir' = FALSE /\ lines' = LinesOf(dirpath)
        /\ \/ stack' = <<f>> /\ faults' = {}
           \/ stack' = << >> /\ faults' = {dirpath}
    BY <1>4 DEF ReadDir
  <2>2. Opened'
    BY <2>1, SameOpened DEF OpenInv
  <2>3. Fits'
    <3>1. max_items' \in ENTRIES_STEP .. MAX_ENTRIES
      BY <1>4 DEF ReadDir
    <3>2. max_items' \in Nat \ {0}
      BY <3>1, EntriesAssumption
    <3>3. world' \in Worlds /\ IsDir(dirpath)'
      BY <2>1, <2>2 DEF ListInv, Opened
    <3> QED
      BY <3>2, <3>3 DEF Fits
  <2>4. StartSo'
    BY <2>3, StartOpens, PTL
  <2>5. Call(dirpath, s, TRUE, Len(dirpath))' = f /\ LinesOf(dirpath)' = LinesOf(dirpath)
    <3>1. world' = world /\ dirpath' = dirpath /\ asked' = asked
      BY <2>1
    <3>2. s' = s
      BY <3>1
    <3>3. Call(dirpath, s, TRUE, Len(dirpath))' = f
      BY <3>1, <3>2, Zenon DEF Call
    <3>4. LinesOf(dirpath)' = LinesOf(dirpath)
      BY <3>1, SameLines
    <3> QED
      BY <3>3, <3>4
  <2>6. OpenSo(stack, lines, entries, faults)'
    <3>1. CASE stack' = << >> /\ faults' = {dirpath}
      <4>1. OpenSo(<< >>, lines, << >>, {dirpath})'
        BY <2>4 DEF StartSo
      <4> QED
        BY <2>1, <3>1, <4>1
    <3>2. CASE stack' = <<f>> /\ faults' = {}
      <4>1. OpenSo(<<Call(dirpath, s, TRUE, Len(dirpath))>>, LinesOf(dirpath), << >>, {})'
        BY <2>4 DEF StartSo
      <4> HIDE DEF f
      <4> QED
        BY <2>1, <2>5, <3>2, <4>1
    <3> QED
      BY <2>1, <3>1, <3>2
  <2> QED
    BY <2>1, <2>2, <2>6 DEF OpenInv
<1>5. CASE ReadEntry \/ ReturnFrom \/ NextLine \/ NoLines
  <2>1. /\ phase = "listing" /\ phase' = "listing"
        /\ UNCHANGED <<world, asked, dir, dirpath, max_items>>
    BY <1>5 DEF ReadEntry, ReturnFrom, NextLine, NoLines
  <2>2. Fits /\ Progress(stack, lines, entries, faults) /\ OpenSo(stack, lines, entries, faults) /\ Opened
    BY <2>1, FitsWhen DEF ListInv, OpenInv
  <2>3. OpenSo(stack', lines', entries', faults')
    BY <1>5, <2>2, EntryOpens, ReturnOpens, LineOpens, NoLinesOpens
  <2>4. OpenSo(stack, lines, entries, faults)'
    BY <2>1, <2>3, SameOpens
  <2>5. Opened'
    BY <2>1, <2>2, SameOpened
  <2> QED
    BY <2>1, <2>4, <2>5 DEF OpenInv
<1>6. CASE Send
  <2>1. /\ phase = "listing" /\ phase' = "sent"
        /\ UNCHANGED <<world, asked, dir, dirpath, max_items, entries, stack, lines, faults>>
    BY <1>6 DEF Send, listVars
  <2>2. Opened /\ OwnSo(entries) /\ (faults = {} /\ ~asked.subdirs => NamesSo(entries))
    BY <2>1 DEF OpenInv, OpenSo
  <2>3. Opened' /\ OwnSo(entries)' /\ (faults = {} /\ ~asked.subdirs => NamesSo(entries)')
    BY <2>1, <2>2, SameOpens, SameOpened
  <2> QED
    BY <2>1, <2>3 DEF OpenInv
<1>7. CASE UNCHANGED vars
  <2>1. UNCHANGED <<world, phase, asked, dir, dirpath, max_items, entries, stack, lines, faults>>
    BY <1>7 DEF vars, listVars
  <2>2. Opened => Opened'
    BY <2>1, SameOpened
  <2>3. (OwnSo(entries) => OwnSo(entries)') /\ (NamesSo(entries) => NamesSo(entries)')
    BY <2>1, SameOpens
  <2>4. OpenSo(stack, lines, entries, faults) => OpenSo(stack, lines, entries, faults)'
    BY <2>1, SameOpens
  <2> QED
    BY <2>1, <2>2, <2>3, <2>4 DEF OpenInv
<1> QED
  BY <1>1, <1>2, <1>3, <1>4, <1>5, <1>6, <1>7 DEF Next

LEMMA OpenInvAlways == Spec => []OpenInv
<1>1. Init => OpenInv
  BY DEF Init, OpenInv
<1> QED
  BY <1>1, ListInvAlways, OpenInvNext, PTL DEF Spec

LEMMA Translated ==
    ASSUME world \in Worlds, NEW r \in PathSet, IsDir(translate_path(r, FALSE))
    PROVE  translate_path(r, FALSE) \in PathSet /\ Len(translate_path(r, FALSE)) >= 1
<1> DEFINE p == <<Root>> \o r
           t == translate_path(r, FALSE)
<1>1. t = (IF Exists(p) THEN p ELSE Redirect(p)) /\ t \in DOMAIN world.dir
  BY DEF translate_path, IsDir
<1>2. p \in PathSet /\ Len(p) \in Nat /\ Len(p) >= 1
  BY BelowRoot
<1> HIDE DEF p, t
<1>3. t \in PathSet
  BY <1>1, FoldersTyped
<1>4. CASE t = p
  BY <1>2, <1>3, <1>4 DEF t
<1>5. CASE t # p
  <2> DEFINE n == IniOf(p)
             m == Min(Found(p))
             l == LinesOf(p)[m]
             a == After(p, n)
  <2>1. Found(p) # {} /\ t = l \o a
    BY <1>1, <1>5 DEF Redirect
  <2>2. /\ Len(LinesOf(p)) \in Nat
        /\ \A i \in 1 .. Len(LinesOf(p)) : LinesOf(p)[i] \in PathSet /\ Len(LinesOf(p)[i]) >= 1
    BY <1>2, LinesAre
  <2>3. Found(p) \subseteq 1 .. Len(LinesOf(p))
    BY DEF Found
  <2>4. m \in 1 .. Len(LinesOf(p))
    BY <2>1, <2>2, <2>3, LeastIn
  <2> HIDE DEF m
  <2>5. l \in PathSet /\ Len(l) >= 1
    BY <2>2, <2>4
  <2>6. a \in PathSet
    <3>1. n \in 0 .. Len(p) /\ Root \in NameSet
      BY <1>2, IniIs, PathsAssumption DEF NameSet
    <3> HIDE DEF n
    <3>2. Longer(Append(p, Root), p, Root)
      BY <1>2, <3>1, LongerPath
    <3> QED
      BY <3>1, <3>2 DEF Longer
  <2> HIDE DEF l, a
  <2>7. Len(t) = Len(l) + Len(a) /\ Len(l) \in Nat /\ Len(a) \in Nat
    BY <2>1, <2>5, <2>6, PathsTyped, ConcatProperties, LenProperties
  <2>8. Len(t) >= 1
    BY <2>5, <2>7
  <2> QED
    BY <1>3, <2>8 DEF t
<1> QED
  BY <1>4, <1>5

\* A path with one more name does not begin with that of a virtual folder.
LEMMA NotVirtualIn ==
    ASSUME world \in Worlds, NEW r \in PathSet, IsDir(translate_path(r, FALSE)),
           NEW x \in NameSet, x \notin Virtual
    PROVE  Append(r, x) \in PathSet /\ Len(Append(r, x)) >= 1 /\ Append(r, x)[1] \notin Virtual
<1>1. r \in Seq(NameSet) /\ Len(r) \in Nat
  BY PathsTyped, LenProperties
<1>2. /\ Append(r, x) \in Seq(NameSet) /\ Len(Append(r, x)) = Len(r) + 1
      /\ \A i \in 1 .. Len(r) : Append(r, x)[i] = r[i]
      /\ Append(r, x)[Len(r) + 1] = x
  BY <1>1, AppendProperties
<1>3. CASE Len(r) = 0
  BY <1>1, <1>2, <1>3, PathsTyped
<1>4. CASE Len(r) >= 1
  <2>1. r[1] \notin Virtual
    BY <1>4, NotVirtual
  <2> QED
    BY <1>1, <1>2, <1>4, <2>1, PathsTyped
<1> QED
  BY <1>1, <1>3, <1>4

\* What is in the folder that a path leads to is found by that path and its name.
LEMMA InFolder ==
    ASSUME world \in Worlds, NEW r \in PathSet, NEW t, t = translate_path(r, FALSE), IsDir(t),
           NEW i \in 1 .. Len(world.dir[t])
    PROVE  LET x == world.dir[t][i].name
           IN  x \in NameSet /\ FoundBy(Append(r, x), Append(t, x)) /\ Append(r, x) \in PathSet
<1> DEFINE x == world.dir[t][i].name
<1>1. x \in NameSet /\ x \notin Virtual
  BY EntryNames DEF IsDir
<1>2. t \in PathSet /\ Len(t) >= 1
  BY Translated
<1>3. \E l \in 1 .. Len(world.dir[t]) : world.dir[t][l].name = x
  OBVIOUS
<1> HIDE DEF x
<1>4. Exists(Append(t, x))
  BY <1>1, <1>2, <1>3, ExistsIn
<1>5. translate_path(Append(r, x), FALSE) = Append(t, x)
  BY <1>1, <1>4, Deeper
<1>6. Append(r, x) \in PathSet /\ Len(Append(r, x)) >= 1 /\ Append(r, x)[1] \notin Virtual
  BY <1>1, NotVirtualIn
<1>7. FoundBy(Append(r, x), Append(t, x))
  BY <1>5, <1>6, OpenedBy
<1> QED
  BY <1>1, <1>6, <1>7 DEF x

LEMMA Joined ==
    ASSUME NEW r \in PathSet, NEW x \in NameSet, NEW y \in NameSet
    PROVE  r \o <<x>> = Append(r, x) /\ r \o <<x, y>> = Append(Append(r, x), y)
<1>1. r \in Seq(NameSet)
  BY PathsTyped
<1> QED
  BY <1>1

\* The entries of the open folder, and with subdirs those of the folders in it.
LEMMA OwnOpens ==
    ASSUME world \in Worlds, Opened, NEW e, OwnEntry(e)
    PROVE  FoundBy(asked.path \o e.name, e.src)
<1> DEFINE r == asked.path
<1>1. r \in PathSet /\ dirpath = translate_path(r, FALSE) /\ IsDir(dirpath)
  BY DEF Opened
<1> HIDE DEF r
<1>2. PICK j \in 1 .. Len(world.dir[dirpath]) :
        LET path == Append(dirpath, world.dir[dirpath][j].name)
        IN  \/ e.name = <<world.dir[dirpath][j].name>> /\ e.src = path
            \/ /\ path \in DOMAIN world.dir
               /\ \E l \in 1 .. Len(world.dir[path]) :
                     /\ e.name = <<world.dir[dirpath][j].name, world.dir[path][l].name>>
                     /\ e.src = Append(path, world.dir[path][l].name)
  BY DEF OwnEntry
<1> DEFINE x == world.dir[dirpath][j].name
           t == Append(dirpath, x)
           s == Append(r, x)
<1>3. x \in NameSet /\ FoundBy(s, t) /\ s \in PathSet
  BY <1>1, InFolder
<1>4. t = translate_path(s, FALSE)
  BY <1>3 DEF FoundBy
<1>5. CASE e.name = <<x>> /\ e.src = t
  <2> HIDE DEF x, t
  <2>1. r \o <<x>> = s
    BY <1>1, <1>3, Joined
  <2> QED
    BY <1>3, <1>5, <2>1 DEF r
<1>6. CASE /\ t \in DOMAIN world.dir
           /\ \E l \in 1 .. Len(world.dir[t]) :
                 e.name = <<x, world.dir[t][l].name>> /\ e.src = Append(t, world.dir[t][l].name)
  <2>1. PICK l \in 1 .. Len(world.dir[t]) :
               e.name = <<x, world.dir[t][l].name>> /\ e.src = Append(t, world.dir[t][l].name)
    BY <1>6
  <2> DEFINE y == world.dir[t][l].name
  <2>2. IsDir(t)
    BY <1>6 DEF IsDir
  <2> HIDE DEF x, t
  <2>3. y \in NameSet /\ FoundBy(Append(s, y), Append(t, y))
    BY <1>3, <1>4, <2>2, InFolder
  <2> HIDE DEF y
  <2>4. r \o <<x, y>> = Append(s, y)
    BY <1>1, <1>3, <2>3, Joined
  <2>5. e.name = <<x, y>> /\ e.src = Append(t, y)
    BY <2>1 DEF y
  <2> QED
    BY <2>3, <2>4, <2>5 DEF r
<1> QED
  BY <1>2, <1>5, <1>6

\* The first entry of its name, from the folder itself or from one of the
\* folders in its INI file.
LEMMA MergedOpens ==
    ASSUME world \in Worlds, Opened, dirpath = <<Root>> \o asked.path, IniOf(dirpath) = Len(dirpath),
           NEW en, NEW m \in Nat, Shown(en, m), \A i \in 1 .. m - 1 : en[i].name # en[m].name,
           <<Root>> \o (asked.path \o en[m].name) \notin DOMAIN world.ini
    PROVE  FoundBy(asked.path \o en[m].name, en[m].src)
<1> DEFINE r == asked.path
           p == dirpath
<1>1. r \in PathSet /\ p = translate_path(r, FALSE) /\ IsDir(p) /\ p = <<Root>> \o r
  BY DEF Opened
<1>2. p \in PathSet /\ Len(p) >= 1 /\ Len(p) \in Nat
  BY <1>1, BelowRoot
<1> PICK k \in Folders : \E j \in 1 .. Len(world.dir[Folder(k)]) :
        /\ en[m].name = <<Item(k, j).name>> /\ en[m].src = Below(k, j)
        /\ \A h \in Folders : h < k => \A i \in 1 .. Len(world.dir[Folder(h)]) : Earlier(en, m, h, i)
  BY DEF Shown
<1>3. PICK j \in 1 .. Len(world.dir[Folder(k)]) :
        /\ en[m].name = <<Item(k, j).name>> /\ en[m].src = Below(k, j)
        /\ \A h \in Folders : h < k => \A i \in 1 .. Len(world.dir[Folder(h)]) : Earlier(en, m, h, i)
  OBVIOUS
<1> DEFINE x == Item(k, j).name
           q == Append(p, x)
           L == LinesOf(p)
<1>4. /\ Folders \subseteq 0 .. Len(L) /\ 0 \in Folders /\ Len(L) \in Nat
      /\ \A h \in Folders : Folder(h) \in DOMAIN world.dir
  BY <1>1, FolderFacts
<1>5. /\ x \in NameSet /\ x \notin Virtual
      /\ \E i \in 1 .. Len(world.dir[Folder(k)]) : world.dir[Folder(k)][i].name = x
  BY <1>4, EntryNames DEF Item
<1>6. ASSUME NEW h \in Folders, h < k, NEW i \in 1 .. Len(world.dir[Folder(h)]),
             world.dir[Folder(h)][i].name = x
      PROVE  FALSE
  <2>1. Earlier(en, m, h, i) /\ Item(h, i).name = x
    BY <1>3, <1>6 DEF Item
  <2> HIDE DEF x
  <2>2. \E l \in 1 .. m - 1 : en[l].name = <<x>>
    BY <2>1 DEF Earlier
  <2> QED
    BY <1>3, <2>2 DEF x
<1>7. Below(k, j) = Append(Folder(k), x)
  BY DEF Below
<1> HIDE DEF x, r
<1>8. r \o <<x>> = Append(r, x)
  BY <1>1, <1>5, Joined
<1>9. translate_path(Append(r, x), FALSE) = Append(Folder(k), x)
  <2>1. CASE k = 0
    <3>1. Folder(k) = p
      BY <2>1 DEF Folder
    <3>2. Exists(Append(p, x))
      BY <1>1, <1>2, <1>5, <3>1, ExistsIn
    <3> QED
      BY <1>1, <1>5, <3>1, <3>2, Deeper
  <2>2. CASE k # 0
    <3>1. k \in 1 .. Len(L) /\ 0 < k
      BY <1>4, <2>2
    <3>2. ~Exists(q)
      <4>1. Folder(0) = p
        BY DEF Folder
      <4> SUFFICES ASSUME Exists(q) PROVE FALSE
        OBVIOUS
      <4>2. \E i \in 1 .. Len(world.dir[p]) : world.dir[p][i].name = x
        BY <1>2, <1>5, ExistsIn
      <4> QED
        BY <1>4, <1>6, <3>1, <4>1, <4>2
    <3>3. <<Root>> \o Append(r, x) = q
      BY <1>1, <1>5, BelowRoot
    <3>4. q \notin DOMAIN world.ini
      BY <1>3, <1>8, <3>3 DEF x, r
    <3>5. IniOf(q) = Len(p) /\ LinesOf(q) = L
      BY <1>2, <1>5, <3>4, IniDeeper
    <3>6. After(q, Len(p)) = <<x>>
      BY <1>2, <1>5, NameIs
    <3>7. \A i \in 1 .. Len(L) : L[i] \in PathSet /\ Len(L[i]) >= 1
      BY <1>2, LinesAre
    <3> HIDE DEF q, L
    <3>8. \A i \in 1 .. Len(L) : L[i] \o After(q, IniOf(q)) = Append(L[i], x)
      <4>1. \A i \in 1 .. Len(L) : L[i] \o <<x>> = Append(L[i], x)
        BY <1>5, <3>7, Joined
      <4> QED
        BY <3>5, <3>6, <4>1
    <3>9. Found(q) = {i \in 1 .. Len(L) : Exists(Append(L[i], x))}
      <4>1. Found(q) = {i \in 1 .. Len(L) : Exists(L[i] \o After(q, IniOf(q)))}
        BY <3>5 DEF Found
      <4> QED
        BY <3>8, <4>1
    <3>10. \A i \in 1 .. Len(L) : Exists(Append(L[i], x)) <=>
              IsDir(L[i]) /\ \E l \in 1 .. Len(world.dir[L[i]]) : world.dir[L[i]][l].name = x
      BY <1>5, <3>7, ExistsIn
    <3>11. \A i \in 1 .. Len(L) : Folder(i) = L[i]
      BY DEF Folder, L
    <3>12. k \in Found(q)
      <4>1. IsDir(L[k])
        BY <1>4, <3>1, <3>11 DEF IsDir
      <4> QED
        BY <1>5, <3>1, <3>9, <3>10, <3>11, <4>1
    <3>13. \A i \in Found(q) : k <= i
      <4> SUFFICES ASSUME NEW i \in Found(q), ~(k <= i) PROVE FALSE
        OBVIOUS
      <4>1. i \in 1 .. Len(L) /\ Exists(Append(L[i], x)) /\ i < k
        BY <3>1, <3>9
      <4>2. IsDir(Folder(i)) /\ \E l \in 1 .. Len(world.dir[Folder(i)]) : world.dir[Folder(i)][l].name = x
        BY <3>10, <3>11, <4>1
      <4>3. i \in Folders
        BY <1>4, <4>1, <4>2 DEF Folders, L
      <4> QED
        BY <1>6, <4>1, <4>2, <4>3
    <3>14. Min(Found(q)) = k
      <4>1. Found(q) \subseteq Nat
        BY <3>9
      <4> QED
        BY <3>12, <3>13, <4>1, LeastIs
    <3>15. Redirect(q) = Append(L[k], x)
      BY <3>1, <3>5, <3>8, <3>12, <3>14 DEF Redirect
    <3>16. translate_path(Append(r, x), FALSE) = Redirect(q)
      BY <3>2, <3>3 DEF translate_path
    <3> QED
      BY <3>1, <3>11, <3>15, <3>16
  <2> QED
    BY <2>1, <2>2
<1>10. Append(r, x) \in PathSet /\ Len(Append(r, x)) >= 1 /\ Append(r, x)[1] \notin Virtual
  BY <1>1, <1>5, NotVirtualIn
<1>11. FoundBy(Append(r, x), Append(Folder(k), x))
  BY <1>9, <1>10, OpenedBy
<1> QED
  BY <1>3, <1>7, <1>8, <1>11 DEF r, x

\* A name in a listing leads back to what was listed (ListedOpens): with the
\* path that was asked for in front, translate_path() takes it to the file or
\* folder that process_read_dir() read, for the folder's own entries and for
\* the first entry of each name from the folder's own INI file.
THEOREM ListedNamesOpen == Spec => []ListedOpens
<1>1. ListInv /\ OpenInv => ListedOpens
  <2> DEFINE whole == Whole(dirpath) /\ Whole(<<Root>> \o asked.path)
  <2> SUFFICES ASSUME ListInv, OpenInv, phase = "sent", NEW k \in 1 .. Len(entries),
                      \A j \in 1 .. k - 1 : entries[j].name # entries[k].name,
                      \/ entries[k].own
                      \/ /\ k <= max_items
                         /\ dirpath = <<Root>> \o asked.path /\ ~asked.subdirs
                         /\ IniOf(dirpath) = Len(dirpath)
                         /\ <<Root>> \o (asked.path \o entries[k].name) \notin DOMAIN world.ini
                         /\ faults = {}
               PROVE  FoundBy(asked.path \o entries[k].name, entries[k].src)
    <3> HIDE DEF whole
    <3>1. /\ phase # "sent" \/ ~whole => 1 .. (IF phase = "sent" /\ whole THEN Len(entries) ELSE 0) = {}
          /\ phase = "sent" /\ whole =>
                1 .. (IF phase = "sent" /\ whole THEN Len(entries) ELSE 0) = 1 .. Len(entries)
      OBVIOUS
    <3> USE DEF whole
    <3> QED
      BY <3>1 DEF ListedOpens, FoundBy
  <2>1. world \in Worlds
    BY DEF ListInv
  <2>2. entries # << >>
    <3>1. Len(<< >>) = 0 /\ 1 .. 0 = {}
      OBVIOUS
    <3> QED
      BY <3>1
  <2>3. Opened /\ OwnSo(entries) /\ (faults = {} /\ ~asked.subdirs => NamesSo(entries))
    BY <2>2 DEF OpenInv
  <2>4. CASE entries[k].own
    <3>1. OwnEntry(entries[k])
      BY <2>3, <2>4 DEF OwnSo
    <3> QED
      BY <2>1, <2>3, <3>1, OwnOpens
  <2>5. CASE ~entries[k].own
    <3>1. Shown(entries, k)
      BY <2>3, <2>5 DEF NamesSo
    <3>2. k \in Nat
      OBVIOUS
    <3> QED
      BY <2>1, <2>3, <2>5, <3>1, <3>2, MergedOpens
  <2> QED
    BY <2>4, <2>5
<1> QED
  BY <1>1, ListInvAlways, OpenInvAlways, PTL

-----------------------------------------------------------------------------
(* Folds *)

\* One step of a fold over the finite set S that takes element c[s] of s next,
\* and the function that is the fold of each subset.
Choice(c, S) == \A s \in SUBSET S : s # {} => c[s] \in s
FoldStep(g, s, a, c, G) == IF s = {} THEN a ELSE G[c[s]][g[s \ {c[s]}]]
Steps(G, S, V) == G \in [S -> [V -> V]]
IsFold(g, S, V, a, c, G) ==
    g \in [SUBSET S -> V] /\ \A s \in SUBSET S : g[s] = FoldStep(g, s, a, c, G)

LEMMA Smaller ==
    ASSUME NEW S, IsFiniteSet(S), NEW s \in SUBSET S, NEW x \in s
    PROVE  /\ s \ {x} \in SUBSET S /\ Cardinality(s) \in Nat \ {0} /\ Cardinality(s \ {x}) \in Nat
           /\ Cardinality(s \ {x}) = Cardinality(s) - 1
<1>1. IsFiniteSet(s)
  BY FS_Subset
<1>2. IsFiniteSet(s \ {x}) /\ Cardinality(s \ {x}) = Cardinality(s) - 1
  BY <1>1, FS_RemoveElement
<1>3. Cardinality(s) \in Nat /\ Cardinality(s \ {x}) \in Nat
  BY <1>1, <1>2, FS_CardinalityType
<1> QED
  BY <1>2, <1>3

LEMMA FoldExists ==
    ASSUME NEW S, IsFiniteSet(S), NEW V, NEW a \in V, NEW c, Choice(c, S), NEW G, Steps(G, S, V)
    PROVE  \E g : IsFold(g, S, V, a, c, G)
<1> USE DEF Steps
<1> DEFINE Upto(g, k) == \A s \in SUBSET S : Cardinality(s) <= k => g[s] = FoldStep(g, s, a, c, G)
           Next1(g) == [s \in SUBSET S |-> FoldStep(g, s, a, c, G)]
           C == {k \in Nat : \E g \in [SUBSET S -> V] : Upto(g, k)}
<1>0. ASSUME NEW s \in SUBSET S, s # {}
      PROVE  /\ Cardinality(s) \in Nat /\ ~(Cardinality(s) <= 0) /\ c[s] \in s /\ c[s] \in S /\ s \ {c[s]} \in SUBSET S
             /\ Cardinality(s \ {c[s]}) \in Nat /\ Cardinality(s \ {c[s]}) = Cardinality(s) - 1
  <2>1. c[s] \in s
    BY <1>0 DEF Choice
  <2>2. s \ {c[s]} \in SUBSET S /\ Cardinality(s) \in Nat \ {0} /\ Cardinality(s \ {c[s]}) \in Nat
        /\ Cardinality(s \ {c[s]}) = Cardinality(s) - 1
    BY <2>1, Smaller
  <2> QED
    BY <2>1, <2>2
<1>1. ASSUME NEW g \in [SUBSET S -> V] PROVE Next1(g) \in [SUBSET S -> V]
  <2>1. ASSUME NEW s \in SUBSET S PROVE FoldStep(g, s, a, c, G) \in V
    <3>1. CASE s = {}
      BY <3>1 DEF FoldStep
    <3>2. CASE s # {}
      <4>1. c[s] \in S /\ g[s \ {c[s]}] \in V
        BY <1>0, <3>2
      <4>2. G[c[s]][g[s \ {c[s]}]] \in V
        BY <4>1
      <4> QED
        BY <3>2, <4>2 DEF FoldStep
    <3> QED
      BY <3>1, <3>2
  <2> QED
    BY <2>1
<1>2. 0 \in C
  <2> DEFINE g == [s \in SUBSET S |-> a]
  <2>1. ASSUME NEW s \in SUBSET S, Cardinality(s) <= 0 PROVE g[s] = FoldStep(g, s, a, c, G)
    <3>1. s = {}
      BY <1>0, <2>1
    <3> QED
      BY <3>1 DEF FoldStep
  <2>2. g \in [SUBSET S -> V] /\ Upto(g, 0)
    BY <2>1
  <2> HIDE DEF g
  <2> QED
    BY <2>2
<1>3. ASSUME NEW k \in Nat, k \in C PROVE k + 1 \in C
  <2>1. PICK g \in [SUBSET S -> V] : Upto(g, k)
    BY <1>3
  <2> DEFINE h == Next1(g)
  <2>2. ASSUME NEW s \in SUBSET S, Cardinality(s) <= k PROVE h[s] = g[s]
    BY <2>1, <2>2
  <2>3. ASSUME NEW s \in SUBSET S, Cardinality(s) <= k + 1 PROVE h[s] = FoldStep(h, s, a, c, G)
    <3>1. h[s] = FoldStep(g, s, a, c, G)
      OBVIOUS
    <3>2. CASE s = {}
      BY <3>1, <3>2 DEF FoldStep
    <3>3. CASE s # {}
      <4>1. s \ {c[s]} \in SUBSET S /\ Cardinality(s \ {c[s]}) <= k
        BY <1>0, <2>3, <3>3
      <4>2. h[s \ {c[s]}] = g[s \ {c[s]}]
        BY <2>2, <4>1
      <4> HIDE DEF h
      <4> QED
        BY <3>1, <3>3, <4>2 DEF FoldStep
    <3> QED
      BY <3>2, <3>3
  <2>4. h \in [SUBSET S -> V] /\ Upto(h, k + 1)
    BY <1>1, <2>3
  <2> HIDE DEF h
  <2> QED
    BY <2>4
<1>4. Cardinality(S) \in Nat /\ Cardinality(S) \in C
  <2> HIDE DEF C
  <2> QED
    BY <1>2, <1>3, SetInduction, FS_CardinalityType
<1>5. PICK g \in [SUBSET S -> V] : Upto(g, Cardinality(S))
  BY <1>4
<1>6. ASSUME NEW s \in SUBSET S PROVE g[s] = FoldStep(g, s, a, c, G)
  <2>1. Cardinality(s) <= Cardinality(S)
    BY FS_Subset
  <2> QED
    BY <1>5, <2>1
<1> QED
  BY <1>6 DEF IsFold

-----------------------------------------------------------------------------
(* Total sizes *)

Chosen(s) == CHOOSE x \in s : TRUE
Sum1(g, s) == IF s = {} THEN 0 ELSE g[s \ {Chosen(s)}] + Chosen(s)[2].size
Sums(g, S) == \A s \in SUBSET S : g[s] = Sum1(g, s)
Sized(S) == IsFiniteSet(S) /\ \A f \in S : f[2].size \in Nat

LEMMA ChosenFacts ==
    ASSUME NEW S, IsFiniteSet(S), NEW s \in SUBSET S, s # {}
    PROVE  /\ Chosen(s) \in s /\ Cardinality(s) \in Nat /\ ~(Cardinality(s) <= 0)
           /\ s \ {Chosen(s)} \in SUBSET S
           /\ Cardinality(s \ {Chosen(s)}) = Cardinality(s) - 1
<1>1. Chosen(s) \in s
  BY DEF Chosen
<1>2. /\ s \ {Chosen(s)} \in SUBSET S /\ Cardinality(s) \in Nat \ {0}
      /\ Cardinality(s \ {Chosen(s)}) = Cardinality(s) - 1
  BY <1>1, Smaller
<1> QED
  BY <1>1, <1>2

\* Two sums are the same.
LEMMA SameSums ==
    ASSUME NEW S, IsFiniteSet(S), NEW g, NEW h, Sums(g, S), Sums(h, S)
    PROVE  \A s \in SUBSET S : g[s] = h[s]
<1> DEFINE C == {n \in Nat : \A s \in SUBSET S : Cardinality(s) <= n => h[s] = g[s]}
<1>1. h[{}] = 0 /\ g[{}] = 0
  BY DEF Sums, Sum1
<1>2. 0 \in C
  <2>1. \A s \in SUBSET S : Cardinality(s) <= 0 => s = {}
    BY ChosenFacts
  <2> QED
    BY <1>1, <2>1
<1>3. ASSUME NEW n \in Nat, n \in C PROVE n + 1 \in C
  <2>1. ASSUME NEW s \in SUBSET S, Cardinality(s) <= n + 1, s # {} PROVE h[s] = g[s]
    <3> DEFINE r == s \ {Chosen(s)}
    <3>1. r \in SUBSET S /\ Cardinality(r) <= n
      BY <2>1, ChosenFacts
    <3>2. h[s] = h[r] + Chosen(s)[2].size /\ g[s] = g[r] + Chosen(s)[2].size
      BY <2>1 DEF Sums, Sum1
    <3> HIDE DEF r
    <3>3. h[r] = g[r]
      BY <1>3, <3>1
    <3> QED
      BY <3>2, <3>3
  <2>2. \A s \in SUBSET S : Cardinality(s) <= n + 1 => h[s] = g[s]
    BY <1>1, <2>1
  <2> QED
    BY <2>2
<1>4. \A n \in Nat : n \in C
  <2> HIDE DEF C
  <2> QED
    BY <1>2, <1>3, SetInduction
<1>5. ASSUME NEW s \in SUBSET S PROVE g[s] = h[s]
  <2>1. Cardinality(s) \in Nat
    BY FS_Subset, FS_CardinalityType
  <2> QED
    BY <1>4, <2>1
<1> QED
  BY <1>5

LEMMA TotalFold ==
    ASSUME NEW S, Sized(S)
    PROVE  \E g \in [SUBSET S -> Nat] : Total(S) = g[S] /\ Sums(g, S)
<1> DEFINE c == [s \in SUBSET S |-> Chosen(s)]
           G == [f \in S |-> [n \in Nat |-> n + f[2].size]]
           It(g) == [s \in SUBSET S |-> Sum1(g, s)]
<1>0. IsFiniteSet(S) /\ \A f \in S : f[2].size \in Nat
  BY DEF Sized
<1>1. Total(S) = (CHOOSE g : g = It(g))[S]
  BY DEF Total, FoldSet, MapThenFoldSet, Sum1, Chosen
<1>2. \A s \in SUBSET S : s # {} => Chosen(s) \in s
  BY DEF Chosen
<1>3. PICK g \in [SUBSET S -> Nat] : \A s \in SUBSET S : g[s] = FoldStep(g, s, 0, c, G)
  <2>1. Choice(c, S)
    BY <1>2 DEF Choice
  <2>2. Steps(G, S, Nat) /\ 0 \in Nat
    BY <1>0 DEF Steps
  <2> HIDE DEF c, G
  <2>3. \E g : IsFold(g, S, Nat, 0, c, G)
    BY <1>0, <2>1, <2>2, FoldExists
  <2> QED
    BY <2>3 DEF IsFold
<1>4. ASSUME NEW s \in SUBSET S PROVE FoldStep(g, s, 0, c, G) = Sum1(g, s)
  <2>1. CASE s = {}
    BY <2>1 DEF FoldStep, Sum1
  <2>2. CASE s # {}
    <3> DEFINE x == Chosen(s)
    <3>1. x \in s /\ c[s] = x /\ s \ {x} \in SUBSET S
      BY <1>2, <2>2
    <3>2. Sum1(g, s) = g[s \ {x}] + x[2].size
      BY <2>2 DEF Sum1
    <3>3. G[x] = [n \in Nat |-> n + x[2].size]
      BY <3>1
    <3> HIDE DEF x, G, c
    <3>4. G[x][g[s \ {x}]] = g[s \ {x}] + x[2].size
      BY <3>1, <3>3
    <3> QED
      BY <2>2, <3>1, <3>2, <3>4 DEF FoldStep
  <2> QED
    BY <2>1, <2>2
<1>5. Sums(g, S) /\ g = It(g)
  <2>1. \A s \in SUBSET S : g[s] = Sum1(g, s)
    <3> HIDE DEF c, G
    <3> QED
      BY <1>3, <1>4
  <2>2. g = [s \in SUBSET S |-> g[s]]
    OBVIOUS
  <2> QED
    BY <2>1, <2>2 DEF Sums
<1> DEFINE h == CHOOSE h : h = It(h)
<1>6. h = It(h)
  <2> HIDE DEF It
  <2> QED
    BY <1>5
<1>7. Sums(h, S)
  <2> HIDE DEF h
  <2>1. \A s \in SUBSET S : It(h)[s] = Sum1(h, s)
    OBVIOUS
  <2> HIDE DEF It
  <2> QED
    BY <1>6, <2>1 DEF Sums
<1>8. h[S] = g[S]
  <2> HIDE DEF h
  <2> QED
    BY <1>0, <1>5, <1>7, SameSums
<1>9. Total(S) = g[S]
  <2> HIDE DEF It
  <2> QED
    BY <1>1, <1>8 DEF h
<1> QED
  BY <1>5, <1>9

\* One function has the totals of all sets of files.
LEMMA Totals ==
    ASSUME NEW S, Sized(S)
    PROVE  \A s \in SUBSET S :
              /\ Total(s) \in Nat
              /\ s = {} => Total(s) = 0
              /\ s # {} => Total(s) = Total(s \ {Chosen(s)}) + Chosen(s)[2].size
<1>0. IsFiniteSet(S)
  BY DEF Sized
<1>1. PICK g \in [SUBSET S -> Nat] : Total(S) = g[S] /\ Sums(g, S)
  BY TotalFold
<1>2. ASSUME NEW s \in SUBSET S PROVE Total(s) = g[s]
  <2>1. Sized(s)
    BY FS_Subset DEF Sized
  <2>2. PICK h \in [SUBSET s -> Nat] : Total(s) = h[s] /\ Sums(h, s)
    BY <2>1, TotalFold
  <2>3. Sums(g, s)
    BY <1>1 DEF Sums
  <2>4. IsFiniteSet(s) /\ s \in SUBSET s
    BY <2>1 DEF Sized
  <2>5. g[s] = h[s]
    BY <2>2, <2>3, <2>4, SameSums
  <2> QED
    BY <2>2, <2>5
<1>3. ASSUME NEW s \in SUBSET S
      PROVE  /\ Total(s) \in Nat
             /\ s = {} => Total(s) = 0
             /\ s # {} => Total(s) = Total(s \ {Chosen(s)}) + Chosen(s)[2].size
  <2>1. g[s] = Sum1(g, s) /\ g[s] \in Nat
    BY <1>1 DEF Sums
  <2>2. s \ {Chosen(s)} \in SUBSET S
    OBVIOUS
  <2>3. Total(s) = g[s] /\ Total(s \ {Chosen(s)}) = g[s \ {Chosen(s)}]
    BY <1>2, <2>2
  <2> QED
    BY <2>1, <2>3 DEF Sum1
<1> QED
  BY <1>3

\* Any of the files may be added last.
LEMMA TotalWithout ==
    ASSUME NEW S, Sized(S)
    PROVE  \A s \in SUBSET S : \A x \in s : Total(s) = Total(s \ {x}) + x[2].size
<1> DEFINE P(s) == \A x \in s : Total(s) = Total(s \ {x}) + x[2].size
           C == {n \in Nat : \A s \in SUBSET S : Cardinality(s) <= n => P(s)}
<1>0. IsFiniteSet(S) /\ \A f \in S : f[2].size \in Nat
  BY DEF Sized
<1>1. 0 \in C
  <2>1. \A s \in SUBSET S : Cardinality(s) <= 0 => s = {}
    BY <1>0, ChosenFacts
  <2> QED
    BY <2>1
<1>2. ASSUME NEW n \in Nat, n \in C PROVE n + 1 \in C
  <2>1. ASSUME NEW s \in SUBSET S, Cardinality(s) <= n + 1, NEW x \in s
        PROVE  Total(s) = Total(s \ {x}) + x[2].size
    <3> DEFINE y == Chosen(s)
               r == s \ {x}
               t == s \ {y}
               u == r \ {y}
    <3>1. y \in s /\ Total(s) = Total(t) + y[2].size
      BY <1>0, ChosenFacts, Totals
    <3>2. CASE x = y
      BY <3>1, <3>2
    <3>3. CASE x # y
      <4>1. /\ r \in SUBSET S /\ t \in SUBSET S /\ u \in SUBSET S /\ y \in r /\ x \in t
            /\ t \ {x} = u /\ y \in S /\ x \in S
        BY <3>1, <3>3
      <4>2. Cardinality(r) <= n /\ Cardinality(t) <= n
        <5>1. \A z \in s : Cardinality(s \ {z}) = Cardinality(s) - 1 /\ Cardinality(s) \in Nat
          BY <1>0, Smaller
        <5> QED
          BY <2>1, <3>1, <5>1
      <4>3. Total(u) \in Nat /\ y[2].size \in Nat /\ x[2].size \in Nat
        BY <1>0, <4>1, Totals
      <4> HIDE DEF y, r, t, u
      <4>4. Total(r) = Total(r \ {y}) + y[2].size /\ Total(t) = Total(t \ {x}) + x[2].size
        BY <1>2, <4>1, <4>2
      <4>5. r \ {y} = u
        BY DEF u
      <4>6. Total(s) = Total(r) + x[2].size
        BY <3>1, <4>1, <4>3, <4>4, <4>5
      <4> QED
        BY <4>6 DEF r
    <3> QED
      BY <3>2, <3>3
  <2> QED
    BY <2>1
<1>3. \A n \in Nat : n \in C
  <2> HIDE DEF C
  <2> QED
    BY <1>1, <1>2, SetInduction
<1>4. ASSUME NEW s \in SUBSET S PROVE P(s)
  <2>1. Cardinality(s) \in Nat
    BY <1>0, FS_Subset, FS_CardinalityType
  <2> QED
    BY <1>3, <2>1
<1> QED
  BY <1>4

\* The total of two sets that have no file in common.
LEMMA TotalOfBoth ==
    ASSUME NEW S, Sized(S), NEW a \in SUBSET S
    PROVE  \A b \in SUBSET S : a \cap b = {} => Total(a \cup b) = Total(a) + Total(b)
<1> DEFINE P(b) == a \cap b = {} => Total(a \cup b) = Total(a) + Total(b)
           C == {n \in Nat : \A b \in SUBSET S : Cardinality(b) <= n => P(b)}
<1>0. IsFiniteSet(S) /\ \A f \in S : f[2].size \in Nat
  BY DEF Sized
<1>1. P({})
  <2>1. Total({}) = 0 /\ Total(a) \in Nat /\ a \cup {} = a
    BY Totals
  <2> QED
    BY <2>1
<1>2. 0 \in C
  <2>1. \A s \in SUBSET S : Cardinality(s) <= 0 => s = {}
    BY <1>0, ChosenFacts
  <2> HIDE DEF P
  <2> QED
    BY <1>1, <2>1
<1>3. ASSUME NEW n \in Nat, n \in C PROVE n + 1 \in C
  <2>1. ASSUME NEW b \in SUBSET S, Cardinality(b) <= n + 1, b # {}, a \cap b = {}
        PROVE  Total(a \cup b) = Total(a) + Total(b)
    <3>1. PICK x \in b : TRUE
      BY <2>1
    <3> DEFINE r == b \ {x}
               s == a \cup b
    <3>2. r \in SUBSET S /\ s \in SUBSET S /\ a \cap r = {} /\ s \ {x} = a \cup r /\ x \in s /\ x \in S
      BY <2>1, <3>1
    <3>3. Cardinality(r) <= n
      <4>1. Cardinality(b \ {x}) = Cardinality(b) - 1 /\ Cardinality(b) \in Nat
        BY <1>0, <3>1, Smaller
      <4> QED
        BY <2>1, <4>1
    <3>4. Total(b) = Total(r) + x[2].size /\ Total(s) = Total(s \ {x}) + x[2].size
      BY <3>1, <3>2, TotalWithout
    <3>5. Total(r) \in Nat /\ Total(a) \in Nat /\ x[2].size \in Nat
      BY <1>0, <3>2, Totals
    <3> HIDE DEF r, s
    <3>6. Total(a \cup r) = Total(a) + Total(r)
      BY <1>3, <3>2, <3>3
    <3>7. Total(s \ {x}) = Total(a) + Total(r)
      BY <3>2, <3>6, Zenon
    <3>8. Total(s) = Total(a) + Total(b)
      BY <3>4, <3>5, <3>7
    <3> QED
      BY <3>8 DEF s
  <2>2. \A b \in SUBSET S : Cardinality(b) <= n + 1 => P(b)
    <3>1. ASSUME NEW b \in SUBSET S, Cardinality(b) <= n + 1, b # {} PROVE P(b)
      <4> SUFFICES ASSUME a \cap b = {} PROVE Total(a \cup b) = Total(a) + Total(b)
        OBVIOUS
      <4> QED
        BY <2>1, <3>1, Zenon
    <3> HIDE DEF P
    <3> QED
      BY <1>1, <3>1
  <2> QED
    BY <2>2
<1>4. \A n \in Nat : n \in C
  <2> HIDE DEF C
  <2> QED
    BY <1>2, <1>3, SetInduction
<1>5. ASSUME NEW b \in SUBSET S PROVE P(b)
  <2>1. Cardinality(b) \in Nat
    BY <1>0, FS_Subset, FS_CardinalityType
  <2> QED
    BY <1>4, <2>1
<1> QED
  BY <1>5

-----------------------------------------------------------------------------
(* The size of one folder *)

LEMMA MaxIn ==
    ASSUME NEW n \in Nat, NEW s \in SUBSET (1 .. n), s # {}
    PROVE  Max(s) \in s
<1>1. s \cup {0} \in SUBSET (0 .. n) /\ 0 \in s \cup {0}
  OBVIOUS
<1>2. PICK x \in s \cup {0} : \A y \in s \cup {0} : x >= y
  BY <1>1, GreatestExists
<1>3. PICK z \in s : TRUE
  OBVIOUS
<1>4. x \in s
  BY <1>2, <1>3
<1> QED
  BY <1>2, <1>4 DEF Max

LEMMA MaxUpTo ==
    ASSUME NEW k \in Nat \ {0}
    PROVE  Max(1 .. k) = k /\ (1 .. k) \ {k} = 1 .. k - 1
<1>1. k \in 1 .. k /\ \A y \in 1 .. k : k >= y
  OBVIOUS
<1>2. \A x \in 1 .. k : (\A y \in 1 .. k : x >= y) => x = k
  OBVIOUS
<1> QED
  BY <1>1, <1>2 DEF Max

LEMMA ChildFacts ==
    ASSUME world \in Worlds, NEW p \in DOMAIN world.dir, NEW i \in 1 .. Len(world.dir[p])
    PROVE  LET e == world.dir[p][i]
           IN  /\ p \in PathSet /\ Len(p) \in Nat /\ e.name \in NameSet /\ e.dir \in BOOLEAN /\ e.size \in Nat
               /\ Append(p, e.name) \in PathSet /\ Len(Append(p, e.name)) = Len(p) + 1
               /\ e.dir => Append(p, e.name) \in DOMAIN world.dir
<1> DEFINE e == world.dir[p][i]
<1>1. e \in EntrySet /\ e.dir \in BOOLEAN /\ (e.dir => Append(p, e.name) \in DOMAIN world.dir) /\ p \in PathSet
  BY FoldersTyped
<1>2. e.name \in NameSet
  BY EntryNames
<1>3. e.size \in Nat
  BY <1>1 DEF EntrySet
<1> HIDE DEF e
<1>4. Len(p) \in Nat /\ Append(p, e.name) \in PathSet /\ Len(Append(p, e.name)) = Len(p) + 1
  BY <1>1, <1>2, PathsTyped
<1>5. /\ p \in PathSet /\ Len(p) \in Nat /\ e.name \in NameSet /\ e.dir \in BOOLEAN /\ e.size \in Nat
      /\ Append(p, e.name) \in PathSet /\ Len(Append(p, e.name)) = Len(p) + 1
      /\ e.dir => Append(p, e.name) \in DOMAIN world.dir
  BY <1>1, <1>2, <1>3, <1>4
<1> QED
  BY <1>5 DEF e

\* What the walk has after one more entry, and the sizes it has on its way.
Added(p, size, bad, v, e) ==
    IF Append(p, e.name) \in bad THEN FAILED
    ELSE AddSize(v, e, IF e.dir THEN size[Append(p, e.name)] ELSE 0)
Walked(u, p, size, bad) ==
    /\ u \in [0 .. Len(world.dir[p]) -> Int] /\ u[0] = 0
    /\ \A i \in 1 .. Len(world.dir[p]) : u[i] = Added(p, size, bad, u[i - 1], world.dir[p][i])
SizesIn(p, size) ==
    \A i \in 1 .. Len(world.dir[p]) : world.dir[p][i].dir => size[Append(p, world.dir[p][i].name)] \in Int

LEMMA AddedTyped ==
    ASSUME world \in Worlds, NEW p \in DOMAIN world.dir, NEW size, SizesIn(p, size), NEW bad,
           NEW v \in Int, NEW i \in 1 .. Len(world.dir[p])
    PROVE  Added(p, size, bad, v, world.dir[p][i]) \in Int
<1> DEFINE e == world.dir[p][i]
<1>1. e \in EntrySet /\ (e.dir => Append(p, e.name) \in DOMAIN world.dir)
  BY FoldersTyped
<1>2. e.size \in Int /\ e.dir \in BOOLEAN
  BY <1>1 DEF EntrySet
<1>3. e.dir => size[Append(p, e.name)] \in Int
  BY <1>1 DEF SizesIn
<1> HIDE DEF e
<1>4. Added(p, size, bad, v, e) \in Int
  BY <1>2, <1>3 DEF Added, AddSize, FAILED
<1> QED
  BY <1>4 DEF e

LEMMA FolderFold ==
    ASSUME world \in Worlds, NEW p \in DOMAIN world.dir, NEW size, SizesIn(p, size), NEW bad, p \notin bad
    PROVE  \E u : Walked(u, p, size, bad) /\ SizeOfFolder(p, world.dir[p], size, bad) = u[Len(world.dir[p])]
<1> DEFINE seq == world.dir[p]
           n == Len(seq)
           S == 1 .. n
           Op(v, i) == Added(p, size, bad, v, seq[i])
           c == [s \in SUBSET S |-> Max(s)]
           G == [i \in S |-> [v \in Int |-> Op(v, i)]]
           It(g) == [s \in SUBSET S |-> IF s = {} THEN 0 ELSE Op(g[s \ {Max(s)}], Max(s))]
<1>1. n \in Nat /\ DOMAIN seq = S /\ IsFiniteSet(S)
  <2>1. seq \in Seq(EntrySet) /\ n \in Nat
    BY FoldersTyped
  <2>2. n \in Int /\ 1 \in Int
    BY <2>1
  <2>3. IsFiniteSet(S)
    <3> HIDE DEF n
    <3> QED
      BY <2>2, FS_Interval
  <2>4. DOMAIN seq = S
    BY <2>1
  <2> QED
    BY <2>1, <2>3, <2>4
<1>2. SizeOfFolder(p, world.dir[p], size, bad) = (CHOOSE g : g = It(g))[S]
  <2>1. SizeOfFolder(p, world.dir[p], size, bad) =
           (CHOOSE g : g = [s \in SUBSET DOMAIN seq |->
                               IF s = {} THEN 0 ELSE Op(g[s \ {Max(s)}], Max(s))])[DOMAIN seq]
    BY DEF SizeOfFolder, FoldLeft, MapThenFoldSet, Added
  <2> QED
    BY <1>1, <2>1
<1>3. ASSUME NEW i \in S, NEW v \in Int PROVE Op(v, i) \in Int
  BY AddedTyped
<1>4. ASSUME NEW s \in SUBSET S, s # {} PROVE Max(s) \in s /\ Max(s) \in S /\ s \ {Max(s)} \in SUBSET S
  BY <1>1, <1>4, MaxIn
<1>5. PICK g \in [SUBSET S -> Int] : \A s \in SUBSET S : g[s] = FoldStep(g, s, 0, c, G)
  <2>1. Choice(c, S)
    BY <1>4 DEF Choice
  <2>2. Steps(G, S, Int) /\ 0 \in Int
    BY <1>3 DEF Steps
  <2> HIDE DEF c, G, S
  <2>3. \E g : IsFold(g, S, Int, 0, c, G)
    BY <1>1, <2>1, <2>2, FoldExists
  <2> QED
    BY <2>3 DEF IsFold
<1>6. ASSUME NEW s \in SUBSET S PROVE g[s] = It(g)[s]
  <2>1. CASE s = {}
    BY <1>5, <2>1 DEF FoldStep
  <2>2. CASE s # {}
    <3> DEFINE x == Max(s)
    <3>1. x \in S /\ c[s] = x /\ s \ {x} \in SUBSET S
      BY <1>4, <2>2
    <3>2. It(g)[s] = Op(g[s \ {x}], x)
      BY <2>2
    <3>3. G[x] = [v \in Int |-> Op(v, x)]
      BY <3>1
    <3> HIDE DEF x, G, c, It, Op, S
    <3>4. G[x][g[s \ {x}]] = Op(g[s \ {x}], x)
      BY <3>1, <3>3
    <3>5. g[s] = G[x][g[s \ {x}]]
      BY <1>5, <2>2, <3>1 DEF FoldStep
    <3> QED
      BY <3>2, <3>4, <3>5
  <2> QED
    BY <2>1, <2>2
<1>7. g = It(g)
  <2>1. g = [s \in SUBSET S |-> g[s]]
    OBVIOUS
  <2>2. It(g) = [s \in SUBSET S |-> It(g)[s]]
    OBVIOUS
  <2> HIDE DEF It, S
  <2> QED
    BY <1>6, <2>1, <2>2
<1> DEFINE h == CHOOSE h : h = It(h)
<1>8. h = It(h)
  <2> HIDE DEF It
  <2> QED
    BY <1>7
<1> DEFINE u == [k \in 0 .. n |-> h[1 .. k]]
<1>9. u[0] = 0
  <2> HIDE DEF h
  <2>1. 1 .. 0 = {} /\ {} \in SUBSET S
    OBVIOUS
  <2>2. It(h)[{}] = 0
    OBVIOUS
  <2>3. h[{}] = 0
    <3> HIDE DEF It
    <3> QED
      BY <1>8, <2>2
  <2>4. u[0] = h[1 .. 0]
    BY <1>1
  <2> QED
    BY <2>1, <2>3, <2>4, Zenon
<1>10. ASSUME NEW k \in 1 .. n PROVE u[k] = Op(u[k - 1], k)
  <2>1. k \in Nat \ {0} /\ k - 1 \in 0 .. n /\ k \in 0 .. n
    BY <1>1
  <2>2. Max(1 .. k) = k /\ (1 .. k) \ {k} = 1 .. k - 1
    BY <2>1, MaxUpTo
  <2>3. 1 .. k \in SUBSET S /\ 1 .. k # {}
    BY <1>1, <2>1
  <2> HIDE DEF h
  <2> DEFINE t == 1 .. k
  <2>4. It(h)[t] = Op(h[t \ {Max(t)}], Max(t))
    <3> HIDE DEF t, Op, S
    <3>1. t \in SUBSET S /\ t # {}
      BY <2>3 DEF t
    <3> QED
      BY <3>1
  <2>5. h[t] = It(h)[t]
    <3> HIDE DEF It
    <3> QED
      BY <1>8
  <2>6. u[k] = h[t] /\ u[k - 1] = h[1 .. k - 1]
    BY <2>1
  <2>7. h[t \ {Max(t)}] = h[1 .. k - 1] /\ Max(t) = k
    BY <2>2, Zenon DEF t
  <2> HIDE DEF t, It, u, Op
  <2> QED
    BY <2>4, <2>5, <2>6, <2>7
<1>11. ASSUME NEW k \in 0 .. n PROVE u[k] \in Int
  <2> DEFINE C == {j \in Nat : j <= n => u[j] \in Int}
  <2> HIDE DEF u
  <2>1. 0 \in C
    BY <1>9
  <2>2. ASSUME NEW j \in Nat, j \in C PROVE j + 1 \in C
    <3>1. CASE j + 1 <= n
      <4>1. j + 1 \in 1 .. n /\ (j + 1) - 1 = j /\ u[j] \in Int
        BY <1>1, <2>2, <3>1
      <4>2. u[j + 1] = Op(u[j], j + 1)
        <5> HIDE DEF Op
        <5> QED
          BY <1>10, <4>1
      <4>3. Op(u[j], j + 1) \in Int
        <5> HIDE DEF Op
        <5> QED
          BY <1>3, <4>1
      <4> HIDE DEF Op
      <4> QED
        BY <4>2, <4>3
    <3> QED
      BY <3>1
  <2>3. k \in Nat /\ k \in C
    <3> HIDE DEF C
    <3> QED
      BY <1>1, <2>1, <2>2, SetInduction
  <2> QED
    BY <1>1, <2>3
<1>12. u \in [0 .. n -> Int]
  BY <1>11
<1>13. Walked(u, p, size, bad)
  <2> HIDE DEF u
  <2> QED
    BY <1>9, <1>10, <1>12 DEF Walked
<1>14. SizeOfFolder(p, world.dir[p], size, bad) = u[n]
  <2>1. SizeOfFolder(p, world.dir[p], size, bad) = h[S]
    <3> HIDE DEF It
    <3> QED
      BY <1>2
  <2>2. u[n] = h[S]
    <3> HIDE DEF h
    <3> QED
      BY <1>1
  <2> HIDE DEF h, u
  <2> QED
    BY <2>1, <2>2
<1> HIDE DEF u
<1> QED
  BY <1>13, <1>14

-----------------------------------------------------------------------------
(* The sizes of all folders *)

\* The size of a folder depends on those of the folders in it only.
AgreeIn(p, a, b) ==
    \A i \in 1 .. Len(world.dir[p]) :
        world.dir[p][i].dir => a[Append(p, world.dir[p][i].name)] = b[Append(p, world.dir[p][i].name)]

LEMMA SizeOfSame ==
    ASSUME world \in Worlds, NEW p \in DOMAIN world.dir, NEW a, SizesIn(p, a), NEW b, SizesIn(p, b), NEW bad,
           AgreeIn(p, a, b)
    PROVE  SizeOfFolder(p, world.dir[p], a, bad) = SizeOfFolder(p, world.dir[p], b, bad)
<1>1. CASE p \in bad
  BY <1>1 DEF SizeOfFolder
<1>2. CASE p \notin bad
  <2> DEFINE n == Len(world.dir[p])
  <2>0. n \in Nat
    BY FoldersTyped
  <2>1. PICK u : Walked(u, p, a, bad) /\ SizeOfFolder(p, world.dir[p], a, bad) = u[n]
    BY <1>2, FolderFold
  <2>2. PICK v : Walked(v, p, b, bad) /\ SizeOfFolder(p, world.dir[p], b, bad) = v[n]
    BY <1>2, FolderFold
  <2> DEFINE C == {j \in Nat : j <= n => u[j] = v[j]}
  <2>3. 0 \in C
    BY <2>1, <2>2 DEF Walked
  <2>4. ASSUME NEW j \in Nat, j \in C PROVE j + 1 \in C
    <3>1. CASE j + 1 <= n
      <4> DEFINE e == world.dir[p][j + 1]
      <4>1. j + 1 \in 1 .. n /\ (j + 1) - 1 = j /\ u[j] = v[j]
        BY <2>0, <2>4, <3>1
      <4>2. u[j + 1] = Added(p, a, bad, u[j], e) /\ v[j + 1] = Added(p, b, bad, v[j], e)
        BY <2>1, <2>2, <4>1 DEF Walked
      <4>3. e.dir => a[Append(p, e.name)] = b[Append(p, e.name)]
        BY <4>1 DEF AgreeIn
      <4> HIDE DEF e
      <4>4. Added(p, a, bad, u[j], e) = Added(p, b, bad, v[j], e)
        BY <4>1, <4>3 DEF Added
      <4> QED
        BY <4>2, <4>4
    <3> QED
      BY <3>1
  <2>5. n \in C
    <3> HIDE DEF C, n
    <3> QED
      BY <2>0, <2>3, <2>4, SetInduction
  <2> QED
    BY <2>1, <2>2, <2>5
<1> QED
  BY <1>1, <1>2

\* The folders lie no deeper than some depth.
Within(M) == M \in Nat /\ \A p \in DOMAIN world.dir : Len(p) <= M

LEMMA DepthExists ==
    ASSUME world \in Worlds
    PROVE  \E M : Within(M)
<1> DEFINE D == DOMAIN world.dir
           P(s) == \E M \in Nat : \A p \in s : Len(p) <= M
           C == {n \in Nat : \A s \in SUBSET D : Cardinality(s) <= n => P(s)}
<1>0. IsFiniteSet(D) /\ D \subseteq PathSet
  BY WorldsAssumption DEF PathSet
<1>1. \A p \in D : Len(p) \in Nat
  BY <1>0 DEF PathSet
<1>2. P({})
  BY 0 \in Nat
<1>3. 0 \in C
  <2>1. \A s \in SUBSET D : Cardinality(s) <= 0 => s = {}
    BY <1>0, ChosenFacts
  <2> HIDE DEF P
  <2> QED
    BY <1>2, <2>1
<1>4. ASSUME NEW n \in Nat, n \in C PROVE n + 1 \in C
  <2>1. ASSUME NEW s \in SUBSET D, Cardinality(s) <= n + 1, NEW x \in s PROVE P(s)
    <3>1. s \ {x} \in SUBSET D /\ Cardinality(s \ {x}) <= n
      <4>1. Cardinality(s \ {x}) = Cardinality(s) - 1 /\ Cardinality(s) \in Nat /\ s \ {x} \in SUBSET D
        BY <1>0, Smaller
      <4> QED
        BY <2>1, <4>1
    <3>2. PICK M \in Nat : \A p \in s \ {x} : Len(p) <= M
      <4>1. P(s \ {x})
        <5> HIDE DEF P
        <5> QED
          BY <1>4, <3>1
      <4> QED
        BY <4>1
    <3>3. Len(x) \in Nat
      BY <1>1
    <3>4. M + Len(x) \in Nat /\ \A p \in s : Len(p) <= M + Len(x)
      BY <1>1, <3>2, <3>3
    <3> QED
      BY <3>4
  <2>2. \A s \in SUBSET D : Cardinality(s) <= n + 1 => P(s)
    <3> HIDE DEF P
    <3> QED
      BY <1>2, <2>1
  <2> QED
    BY <2>2
<1>5. P(D)
  <2>1. Cardinality(D) \in Nat /\ D \in SUBSET D
    BY <1>0, FS_CardinalityType
  <2>2. Cardinality(D) \in C
    <3> HIDE DEF C
    <3> QED
      BY <1>3, <1>4, <2>1, SetInduction
  <2> HIDE DEF P, D
  <2> QED
    BY <2>1, <2>2
<1> QED
  BY <1>5 DEF Within

\* There is a function with the sizes of all folders: it is made from the deepest
\* folders up.
IsSize(s, bad) ==
    s \in [DOMAIN world.dir -> Int] /\ \A p \in DOMAIN world.dir : s[p] = SizeOfFolder(p, world.dir[p], s, bad)

LEMMA SizeOfTyped ==
    ASSUME world \in Worlds, NEW p \in DOMAIN world.dir, NEW s, SizesIn(p, s), NEW bad
    PROVE  SizeOfFolder(p, world.dir[p], s, bad) \in Int
<1>1. CASE p \in bad
  <2>1. SizeOfFolder(p, world.dir[p], s, bad) = FAILED
    BY <1>1 DEF SizeOfFolder
  <2> QED
    BY <2>1 DEF FAILED
<1>2. CASE p \notin bad
  <2>1. PICK u : Walked(u, p, s, bad) /\ SizeOfFolder(p, world.dir[p], s, bad) = u[Len(world.dir[p])]
    BY <1>2, FolderFold
  <2>2. Len(world.dir[p]) \in Nat
    BY FoldersTyped
  <2> QED
    BY <2>1, <2>2 DEF Walked
<1> QED
  BY <1>1, <1>2

LEMMA SizeExists ==
    ASSUME world \in Worlds, NEW bad
    PROVE  \E s : IsSize(s, bad)
<1> DEFINE D == DOMAIN world.dir
           Upto(s, M, k) == \A p \in D : Len(p) + k > M => s[p] = SizeOfFolder(p, world.dir[p], s, bad)
           C(M) == {k \in Nat : \E s \in [D -> Int] : Upto(s, M, k)}
<1>0. PICK M : Within(M)
  BY DepthExists
<1>1. M \in Nat /\ \A p \in D : Len(p) <= M /\ Len(p) \in Nat
  <2>1. D \subseteq PathSet
    BY FoldersTyped
  <2> QED
    BY <1>0, <2>1 DEF Within, PathSet
<1>2. ASSUME NEW s \in [D -> Int], NEW p \in D PROVE SizesIn(p, s)
  BY ChildFacts DEF SizesIn
<1>3. 0 \in C(M)
  <2> DEFINE s == [p \in D |-> 0]
  <2>1. s \in [D -> Int] /\ Upto(s, M, 0)
    BY <1>1
  <2> HIDE DEF s
  <2> QED
    BY <2>1
<1>4. ASSUME NEW k \in Nat, k \in C(M) PROVE k + 1 \in C(M)
  <2>1. PICK s \in [D -> Int] : Upto(s, M, k)
    BY <1>4
  <2> DEFINE t == [p \in D |-> SizeOfFolder(p, world.dir[p], s, bad)]
  <2>2. t \in [D -> Int] /\ \A p \in D : t[p] = SizeOfFolder(p, world.dir[p], s, bad)
    BY <1>2, SizeOfTyped
  <2> HIDE DEF t
  <2>3. ASSUME NEW p \in D, Len(p) + (k + 1) > M PROVE t[p] = SizeOfFolder(p, world.dir[p], t, bad)
    <3>1. AgreeIn(p, s, t)
      <4> SUFFICES ASSUME NEW i \in 1 .. Len(world.dir[p]), world.dir[p][i].dir
                   PROVE  s[Append(p, world.dir[p][i].name)] = t[Append(p, world.dir[p][i].name)]
        BY DEF AgreeIn
      <4> DEFINE q == Append(p, world.dir[p][i].name)
      <4>1. q \in D /\ Len(q) = Len(p) + 1
        BY ChildFacts
      <4> HIDE DEF q
      <4>2. Len(q) + k > M
        BY <1>1, <2>3, <4>1
      <4>3. s[q] = t[q]
        BY <2>1, <2>2, <4>1, <4>2
      <4> QED
        BY <4>3 DEF q
    <3>2. SizesIn(p, s) /\ SizesIn(p, t)
      BY <1>2, <2>2
    <3>3. SizeOfFolder(p, world.dir[p], s, bad) = SizeOfFolder(p, world.dir[p], t, bad)
      BY <3>1, <3>2, SizeOfSame
    <3> QED
      BY <2>2, <3>3
  <2>4. Upto(t, M, k + 1)
    BY <2>3
  <2> QED
    BY <2>2, <2>4
<1>5. M + 1 \in C(M)
  <2>1. M + 1 \in Nat
    BY <1>1
  <2> HIDE DEF C
  <2> QED
    BY <1>3, <1>4, <2>1, SetInduction
<1>6. PICK s \in [D -> Int] : Upto(s, M, M + 1)
  BY <1>5
<1>7. \A p \in D : s[p] = SizeOfFolder(p, world.dir[p], s, bad)
  BY <1>1, <1>6
<1> QED
  BY <1>6, <1>7 DEF IsSize

LEMMA SizeIs ==
    ASSUME world \in Worlds, NEW bad, NEW d \in DOMAIN world.dir
    PROVE  \E s : IsSize(s, bad) /\ calculate_directory_size(d, world.dir, bad) = s[d]
<1> DEFINE D == DOMAIN world.dir
           It(s) == [p \in D |-> SizeOfFolder(p, world.dir[p], s, bad)]
           h == CHOOSE s : s = It(s)
<1>1. calculate_directory_size(d, world.dir, bad) = h[d]
  BY DEF calculate_directory_size, IsDir
<1>2. PICK s : IsSize(s, bad)
  BY SizeExists
<1>3. s = It(s)
  <2>1. s = [p \in D |-> s[p]]
    BY <1>2 DEF IsSize
  <2> QED
    BY <1>2, <2>1 DEF IsSize
<1>4. h = It(h)
  <2> HIDE DEF It
  <2> QED
    BY <1>3
<1>5. PICK M : Within(M)
  BY DepthExists
<1>6. M \in Nat /\ \A p \in D : Len(p) <= M /\ Len(p) \in Nat
  <2>1. D \subseteq PathSet
    BY FoldersTyped
  <2> QED
    BY <1>5, <2>1 DEF Within, PathSet
<1> HIDE DEF h
<1>7. \A p \in D : h[p] = SizeOfFolder(p, world.dir[p], h, bad)
  <2>1. \A p \in D : It(h)[p] = SizeOfFolder(p, world.dir[p], h, bad)
    OBVIOUS
  <2> HIDE DEF It
  <2> QED
    BY <1>4, <2>1
<1> DEFINE C == {k \in Nat : \A p \in D : Len(p) + k > M => h[p] \in Int}
<1>8. 0 \in C
  BY <1>6
<1>9. ASSUME NEW k \in Nat, k \in C PROVE k + 1 \in C
  <2>1. ASSUME NEW p \in D, Len(p) + (k + 1) > M PROVE h[p] \in Int
    <3>1. SizesIn(p, h)
      <4> SUFFICES ASSUME NEW i \in 1 .. Len(world.dir[p]), world.dir[p][i].dir
                   PROVE  h[Append(p, world.dir[p][i].name)] \in Int
        BY DEF SizesIn
      <4> DEFINE q == Append(p, world.dir[p][i].name)
      <4>1. q \in D /\ Len(q) = Len(p) + 1
        BY ChildFacts
      <4> HIDE DEF q
      <4>2. Len(q) + k > M
        BY <1>6, <2>1, <4>1
      <4>3. h[q] \in Int
        BY <1>9, <4>1, <4>2
      <4> QED
        BY <4>3 DEF q
    <3> QED
      BY <1>7, <3>1, SizeOfTyped
  <2> QED
    BY <2>1
<1>10. M + 1 \in C
  <2>1. M + 1 \in Nat
    BY <1>6
  <2> HIDE DEF C
  <2> QED
    BY <1>8, <1>9, <2>1, SetInduction
<1>11. \A p \in D : h[p] \in Int
  BY <1>6, <1>10
<1>12. h \in [D -> Int]
  <2>1. DOMAIN It(h) = D
    OBVIOUS
  <2>2. h = [p \in DOMAIN h |-> h[p]]
    <3>1. It(h) = [p \in DOMAIN It(h) |-> It(h)[p]]
      OBVIOUS
    <3> HIDE DEF It
    <3> QED
      BY <1>4, <3>1
  <2> HIDE DEF It
  <2> QED
    BY <1>4, <1>11, <2>1, <2>2
<1> QED
  BY <1>1, <1>7, <1>12 DEF IsSize

-----------------------------------------------------------------------------
(* What lies below a folder *)

LEMMA PrefixIs ==
    ASSUME NEW p \in PathSet, NEW t \in PathSet
    PROVE  IsPrefix(p, t) <=> Len(p) <= Len(t) /\ \A i \in 1 .. Len(p) : p[i] = t[i]
<1>0. p \in Seq(NameSet) /\ t \in Seq(NameSet) /\ Len(p) \in Nat /\ Len(t) \in Nat
  BY PathsTyped
<1> DEFINE n == Len(p)
<1>1. SubSeq(p, 1, n) = [i \in 1 .. n |-> p[i]]
  BY <1>0
<1>2. n <= Len(t) => SubSeq(t, 1, n) = [i \in 1 .. n |-> t[i]]
  BY <1>0
<1>3. CASE n <= Len(t)
  <2>1. ASSUME \A i \in 1 .. n : p[i] = t[i] PROVE SubSeq(p, 1, n) = SubSeq(t, 1, n)
    BY <1>1, <1>2, <1>3, <2>1
  <2>2. ASSUME SubSeq(p, 1, n) = SubSeq(t, 1, n), NEW i \in 1 .. n PROVE p[i] = t[i]
    <3>1. SubSeq(p, 1, n)[i] = p[i] /\ SubSeq(t, 1, n)[i] = t[i]
      BY <1>1, <1>2, <1>3
    <3> QED
      BY <2>2, <3>1
  <2> QED
    BY <1>3, <2>1, <2>2 DEF IsPrefix
<1>4. CASE ~(n <= Len(t))
  BY <1>4 DEF IsPrefix
<1> QED
  BY <1>3, <1>4

LEMMA PrefixMore ==
    ASSUME NEW p \in PathSet, NEW x \in NameSet, NEW t \in PathSet
    PROVE  /\ Len(p) \in Nat /\ Len(t) \in Nat
           /\ IsPrefix(Append(p, x), t) <=> IsPrefix(p, t) /\ Len(p) < Len(t) /\ t[Len(p) + 1] = x
           /\ IsPrefix(p, t) /\ ~(Len(p) < Len(t)) => t = p
           /\ IsPrefix(p, p)
<1>0. p \in Seq(NameSet) /\ t \in Seq(NameSet) /\ Len(p) \in Nat /\ Len(t) \in Nat
  BY PathsTyped
<1> DEFINE q == Append(p, x)
<1>1. /\ q \in Seq(NameSet) /\ Len(q) = Len(p) + 1 /\ \A i \in 1 .. Len(p) : q[i] = p[i]
      /\ q[Len(p) + 1] = x
  BY <1>0
<1>2. q \in PathSet
  BY <1>1, PathsTyped
<1> HIDE DEF q
<1>3. IsPrefix(q, t) <=> Len(q) <= Len(t) /\ \A i \in 1 .. Len(q) : q[i] = t[i]
  BY <1>2, PrefixIs
<1>4. IsPrefix(p, t) <=> Len(p) <= Len(t) /\ \A i \in 1 .. Len(p) : p[i] = t[i]
  BY PrefixIs
<1>5. IsPrefix(q, t) => IsPrefix(p, t) /\ Len(p) < Len(t) /\ t[Len(p) + 1] = x
  <2> HAVE IsPrefix(q, t)
  <2>1. Len(p) + 1 \in 1 .. Len(q) /\ \A i \in 1 .. Len(p) : i \in 1 .. Len(q)
    BY <1>0, <1>1
  <2> QED
    BY <1>0, <1>1, <1>3, <1>4, <2>1
<1>6. IsPrefix(p, t) /\ Len(p) < Len(t) /\ t[Len(p) + 1] = x => IsPrefix(q, t)
  <2> HAVE IsPrefix(p, t) /\ Len(p) < Len(t) /\ t[Len(p) + 1] = x
  <2>1. ASSUME NEW i \in 1 .. Len(q) PROVE q[i] = t[i]
    <3>1. i \in 1 .. Len(p) \/ i = Len(p) + 1
      BY <1>0, <1>1
    <3> QED
      BY <1>1, <1>4, <3>1
  <2> QED
    BY <1>0, <1>1, <1>3, <2>1
<1>7. IsPrefix(p, t) /\ ~(Len(p) < Len(t)) => t = p
  <2> HAVE IsPrefix(p, t) /\ ~(Len(p) < Len(t))
  <2>1. Len(t) = Len(p) /\ \A i \in 1 .. Len(p) : p[i] = t[i]
    BY <1>0, <1>4
  <2> QED
    BY <1>0, <2>1, SeqEqual
<1>8. IsPrefix(p, p)
  BY DEF IsPrefix
<1> QED
  BY <1>0, <1>5, <1>6, <1>7, <1>8 DEF q

\* A folder at any depth below p lies in one of the folders of p.
LEMMA UpperFolder ==
    ASSUME world \in Worlds, NEW t \in DOMAIN world.dir, NEW m \in 1 .. Len(t)
    PROVE  Prefix(t, m) \in DOMAIN world.dir
<1> DEFINE D == DOMAIN world.dir
           n == Len(t)
           C == {k \in Nat : k < n => Prefix(t, n - k) \in D}
<1>0. t \in Seq(NameSet) /\ n \in Nat
  BY FoldersTyped, PathsTyped
<1>1. 0 \in C
  <2>1. Prefix(t, n) = t
    BY <1>0 DEF Prefix
  <2>2. n - 0 = n
    BY <1>0
  <2> QED
    BY <2>1, <2>2
<1>2. ASSUME NEW k \in Nat, k \in C PROVE k + 1 \in C
  <2>1. ASSUME k + 1 < n PROVE Prefix(t, n - (k + 1)) \in D
    <3> DEFINE q == Prefix(t, n - k)
    <3>1. q \in D
      BY <1>0, <1>2, <2>1
    <3>2. n - k \in 1 .. n /\ n - k > 1 /\ (n - k) - 1 = n - (k + 1)
      BY <1>0, <2>1
    <3>3. q \in Seq(NameSet) /\ Len(q) = n - k /\ \A i \in 1 .. n - k : q[i] = t[i]
      BY <1>0, <3>2 DEF Prefix
    <3>4. Front(q) = Prefix(t, n - (k + 1))
      <4> HIDE DEF q
      <4>1. Front(q) = SubSeq(q, 1, (n - k) - 1)
        BY <3>3 DEF Front
      <4>2. SubSeq(q, 1, (n - k) - 1) = [i \in 1 .. (n - k) - 1 |-> q[i]]
        BY <1>0, <3>2, <3>3
      <4>3. SubSeq(t, 1, (n - k) - 1) = [i \in 1 .. (n - k) - 1 |-> t[i]]
        BY <1>0, <3>2
      <4>4. \A i \in 1 .. (n - k) - 1 : q[i] = t[i]
        BY <1>0, <3>2, <3>3
      <4>5. SubSeq(q, 1, (n - k) - 1) = SubSeq(t, 1, (n - k) - 1)
        BY <4>2, <4>3, <4>4
      <4> QED
        BY <3>2, <4>1, <4>5 DEF Prefix
    <3>5. Front(q) \in D
      <4> HIDE DEF q
      <4> QED
        BY <3>1, <3>2, <3>3, PathsAssumption
    <3> QED
      BY <3>4, <3>5
  <2> QED
    BY <2>1
<1>3. n - m \in Nat /\ n - m < n /\ n - (n - m) = m
  BY <1>0
<1>4. n - m \in C
  <2> HIDE DEF C, n
  <2> QED
    BY <1>1, <1>2, <1>3, SetInduction
<1> QED
  BY <1>3, <1>4

LEMMA FolderOnTheWay ==
    ASSUME world \in Worlds, NEW p \in DOMAIN world.dir, Len(p) >= 1,
           NEW t \in DOMAIN world.dir, IsPrefix(p, t), t # p
    PROVE  \E i \in 1 .. Len(world.dir[p]) :
              world.dir[p][i].dir /\ IsPrefix(Append(p, world.dir[p][i].name), t)
<1> DEFINE n == Len(p)
           q == Prefix(t, n + 1)
<1>0. p \in PathSet /\ t \in PathSet /\ p \in Seq(NameSet) /\ t \in Seq(NameSet) /\ n \in Nat /\ Len(t) \in Nat
  BY FoldersTyped, PathsTyped
<1>1. \A i \in 1 .. n : p[i] = t[i]
  BY <1>0, PrefixIs
<1>2. n < Len(t)
  <2>1. n <= Len(t)
    BY <1>0, PrefixIs
  <2>2. n = Len(t) => t = p
    BY <1>0, <1>1, SeqEqual
  <2> QED
    BY <1>0, <2>1, <2>2
<1>3. n + 1 \in 1 .. Len(t) /\ t[n + 1] \in NameSet
  BY <1>0, <1>2
<1>4. q \in DOMAIN world.dir
  BY <1>3, UpperFolder
<1>5. q \in Seq(NameSet) /\ Len(q) = n + 1 /\ \A i \in 1 .. n + 1 : q[i] = t[i]
  BY <1>0, <1>3 DEF Prefix
<1> HIDE DEF q
<1>6. Front(q) = p
  <2>1. Front(q) = SubSeq(q, 1, n)
    BY <1>0, <1>5 DEF Front
  <2>2. SubSeq(q, 1, n) \in Seq(NameSet) /\ Len(SubSeq(q, 1, n)) = n /\ \A i \in 1 .. n : SubSeq(q, 1, n)[i] = q[i]
    BY <1>0, <1>5
  <2>3. \A i \in 1 .. n : q[i] = p[i]
    BY <1>0, <1>1, <1>5
  <2> QED
    BY <1>0, <2>1, <2>2, <2>3, SeqEqual
<1>7. Last(q) = t[n + 1]
  BY <1>0, <1>5 DEF Last
<1>8. PICK i \in 1 .. Len(world.dir[p]) : world.dir[p][i].dir /\ world.dir[p][i].name = Last(q)
  <2>1. Len(q) > 1
    BY <1>0, <1>5
  <2> QED
    BY <1>4, <1>6, <2>1, PathsAssumption
<1>9. IsPrefix(Append(p, world.dir[p][i].name), t)
  <2> DEFINE x == world.dir[p][i].name
  <2>1. x = t[n + 1] /\ x \in NameSet
    BY <1>3, <1>7, <1>8
  <2> HIDE DEF x
  <2>2. IsPrefix(Append(p, x), t)
    BY <1>0, <1>2, <2>1, PrefixMore
  <2> QED
    BY <2>2 DEF x
<1> QED
  BY <1>8, <1>9

LEMMA FilesAre ==
    ASSUME world \in Worlds, NEW p, NEW f
    PROVE  f \in FilesBelow(p) <=>
              \E d \in DOMAIN world.dir : \E i \in 1 .. Len(world.dir[d]) :
                  f = <<d, world.dir[d][i]>> /\ ~world.dir[d][i].dir /\ IsPrefix(p, d)
<1>1. \A d \in DOMAIN world.dir : DOMAIN world.dir[d] = 1 .. Len(world.dir[d])
  BY FoldersTyped
<1>2. \A d \in DOMAIN world.dir : Range(world.dir[d]) = {world.dir[d][i] : i \in 1 .. Len(world.dir[d])}
  BY <1>1 DEF Range
<1>3. ASSUME f \in FilesBelow(p)
      PROVE  \E d \in DOMAIN world.dir : \E i \in 1 .. Len(world.dir[d]) :
                 f = <<d, world.dir[d][i]>> /\ ~world.dir[d][i].dir /\ IsPrefix(p, d)
  <2>1. PICK d \in DOMAIN world.dir : f \in {d} \X Range(world.dir[d])
    BY <1>3 DEF FilesBelow
  <2>2. f = <<d, f[2]>> /\ f[2] \in Range(world.dir[d]) /\ f[1] = d
    BY <2>1
  <2>3. PICK i \in 1 .. Len(world.dir[d]) : f[2] = world.dir[d][i]
    BY <1>2, <2>2
  <2>4. ~f[2].dir /\ IsPrefix(p, f[1])
    BY <1>3 DEF FilesBelow
  <2> QED
    BY <2>2, <2>3, <2>4
<1>4. ASSUME NEW d \in DOMAIN world.dir, NEW i \in 1 .. Len(world.dir[d]),
             f = <<d, world.dir[d][i]>>, ~world.dir[d][i].dir, IsPrefix(p, d)
      PROVE  f \in FilesBelow(p)
  <2>1. world.dir[d][i] \in Range(world.dir[d])
    BY <1>2
  <2>2. f \in {d} \X Range(world.dir[d]) /\ f[1] = d /\ f[2] = world.dir[d][i]
    BY <1>4, <2>1
  <2>3. f \in UNION {{q} \X Range(world.dir[q]) : q \in DOMAIN world.dir}
    BY <2>2
  <2> QED
    BY <1>4, <2>2, <2>3 DEF FilesBelow
<1> QED
  BY <1>3, <1>4

AllFiles == UNION {{d} \X Range(world.dir[d]) : d \in DOMAIN world.dir}

LEMMA FilesSized ==
    ASSUME world \in Worlds
    PROVE  Sized(AllFiles) /\ \A p : FilesBelow(p) \in SUBSET AllFiles
<1> DEFINE D == DOMAIN world.dir
           F == [d \in D |-> {d} \X Range(world.dir[d])]
<1>1. IsFiniteSet(D)
  BY WorldsAssumption
<1>2. ASSUME NEW d \in D PROVE IsFiniteSet(F[d])
  <2> DEFINE s == world.dir[d]
             n == Len(s)
  <2>1. n \in Nat /\ n \in Int /\ DOMAIN s = 1 .. n /\ s = [i \in 1 .. n |-> s[i]]
    BY FoldersTyped
  <2> HIDE DEF s, n
  <2>2. IsFiniteSet(1 .. n)
    BY <2>1, FS_Interval
  <2>3. IsFiniteSet({s[i] : i \in 1 .. n})
    BY <2>1, <2>2, FiniteImage
  <2>4. Range(s) = {s[i] : i \in 1 .. n}
    BY <2>1 DEF Range
  <2>5. IsFiniteSet(Range(s)) /\ IsFiniteSet({d})
    BY <2>3, <2>4, FS_Singleton
  <2>6. IsFiniteSet({d} \X Range(s))
    BY <2>5, FS_Product
  <2> QED
    BY <2>6 DEF s
<1>3. F = [d \in D |-> F[d]]
  OBVIOUS
<1>4. IsFiniteSet({F[d] : d \in D})
  <2> HIDE DEF F, D
  <2> QED
    BY <1>1, <1>3, FiniteImage
<1>5. \A T \in {F[d] : d \in D} : IsFiniteSet(T)
  <2> HIDE DEF F
  <2> QED
    BY <1>2
<1>6. AllFiles = UNION {F[d] : d \in D}
  BY DEF AllFiles
<1>7. IsFiniteSet(AllFiles)
  <2> HIDE DEF F
  <2> QED
    BY <1>4, <1>5, <1>6, FS_UNION
<1>8. ASSUME NEW f \in AllFiles PROVE f[2].size \in Nat
  <2>1. PICK d \in D : f \in {d} \X Range(world.dir[d])
    BY DEF AllFiles
  <2>2. f[2] \in Range(world.dir[d])
    BY <2>1
  <2>3. DOMAIN world.dir[d] = 1 .. Len(world.dir[d])
    BY FoldersTyped
  <2>4. PICK i \in 1 .. Len(world.dir[d]) : f[2] = world.dir[d][i]
    BY <2>2, <2>3 DEF Range
  <2>5. world.dir[d][i].size \in Nat
    BY ChildFacts
  <2> QED
    BY <2>4, <2>5
<1>9. \A p : FilesBelow(p) \in SUBSET AllFiles
  BY DEF FilesBelow, AllFiles
<1> QED
  BY <1>7, <1>8, <1>9 DEF Sized

\* What entry i of folder p has to do with a file below p.
Holds(p, i, f) ==
    IF world.dir[p][i].dir THEN IsPrefix(Append(p, world.dir[p][i].name), f[1])
    ELSE f = <<p, world.dir[p][i]>>
FilesUpTo(p, k) == {f \in FilesBelow(p) : \E i \in 1 .. k : Holds(p, i, f)}
FilesAt(p, k) == {f \in FilesBelow(p) : Holds(p, k, f)}

\* Each file is held by one entry.
LEMMA HeldOnce ==
    ASSUME world \in Worlds, NEW p \in DOMAIN world.dir, Len(p) >= 1, NEW f \in FilesBelow(p)
    PROVE  /\ \E i \in 1 .. Len(world.dir[p]) : Holds(p, i, f)
           /\ \A i, j \in 1 .. Len(world.dir[p]) : Holds(p, i, f) /\ Holds(p, j, f) => i = j
<1>0. p \in PathSet /\ Len(p) \in Nat
  BY FoldersTyped, PathsTyped
<1>1. PICK d \in DOMAIN world.dir : \E m \in 1 .. Len(world.dir[d]) :
         f = <<d, world.dir[d][m]>> /\ ~world.dir[d][m].dir /\ IsPrefix(p, d)
  BY FilesAre
<1>2. PICK m \in 1 .. Len(world.dir[d]) : f = <<d, world.dir[d][m]>> /\ ~world.dir[d][m].dir /\ IsPrefix(p, d)
  BY <1>1
<1>3. f[1] = d /\ f[2] = world.dir[d][m] /\ d \in PathSet /\ Len(d) \in Nat
  BY <1>2, FoldersTyped, PathsTyped
<1>4. \E i \in 1 .. Len(world.dir[p]) : Holds(p, i, f)
  <2>1. CASE d = p
    <3>1. m \in 1 .. Len(world.dir[p]) /\ Holds(p, m, f)
      BY <1>2, <2>1 DEF Holds
    <3> QED
      BY <3>1
  <2>2. CASE d # p
    <3>1. PICK i \in 1 .. Len(world.dir[p]) :
             world.dir[p][i].dir /\ IsPrefix(Append(p, world.dir[p][i].name), d)
      BY <1>2, <2>2, FolderOnTheWay
    <3> QED
      BY <1>3, <3>1 DEF Holds
  <2> QED
    BY <2>1, <2>2
\* The name that f has in p.
<1>5. ASSUME NEW i \in 1 .. Len(world.dir[p]), Holds(p, i, f)
      PROVE  /\ world.dir[p][i].dir => Len(p) < Len(d) /\ world.dir[p][i].name = d[Len(p) + 1]
             /\ ~world.dir[p][i].dir => d = p /\ world.dir[p][i] = f[2]
  <2>1. CASE world.dir[p][i].dir
    <3> DEFINE x == world.dir[p][i].name
    <3>1. IsPrefix(Append(p, x), d) /\ x \in NameSet
      BY <1>3, <1>5, <2>1, ChildFacts DEF Holds
    <3> HIDE DEF x
    <3>2. Len(p) < Len(d) /\ d[Len(p) + 1] = x
      BY <1>0, <1>3, <3>1, PrefixMore
    <3> QED
      BY <2>1, <3>2 DEF x
  <2>2. CASE ~world.dir[p][i].dir
    <3>1. f = <<p, world.dir[p][i]>>
      BY <1>5, <2>2 DEF Holds
    <3>2. f[1] = p /\ f[2] = world.dir[p][i]
      BY <3>1
    <3> QED
      BY <1>3, <2>2, <3>2
  <2> QED
    BY <2>1, <2>2
<1>6. ASSUME NEW i \in 1 .. Len(world.dir[p]), NEW j \in 1 .. Len(world.dir[p]), Holds(p, i, f), Holds(p, j, f)
      PROVE  i = j
  <2>1. world.dir[p][i].name = world.dir[p][j].name
    <3>1. world.dir[p][i].dir \in BOOLEAN /\ world.dir[p][j].dir \in BOOLEAN
      BY ChildFacts
    <3>2. CASE world.dir[p][i].dir /\ world.dir[p][j].dir
      BY <1>5, <1>6, <3>2
    <3>3. CASE ~world.dir[p][i].dir /\ ~world.dir[p][j].dir
      BY <1>5, <1>6, <3>3
    <3>4. CASE world.dir[p][i].dir /\ ~world.dir[p][j].dir
      BY <1>0, <1>5, <1>6, <3>4
    <3>5. CASE ~world.dir[p][i].dir /\ world.dir[p][j].dir
      BY <1>0, <1>5, <1>6, <3>5
    <3> QED
      BY <3>1, <3>2, <3>3, <3>4, <3>5
  <2> QED
    BY <2>1, WorldsAssumption
<1> QED
  BY <1>4, <1>6

LEMMA FilesUpToFacts ==
    ASSUME world \in Worlds, NEW p \in DOMAIN world.dir, Len(p) >= 1
    PROVE  /\ Total(FilesUpTo(p, 0)) = 0
           /\ FilesUpTo(p, Len(world.dir[p])) = FilesBelow(p)
           /\ \A k : Total(FilesUpTo(p, k)) \in Nat
           /\ \A k \in 1 .. Len(world.dir[p]) :
                 /\ Total(FilesUpTo(p, k)) = Total(FilesUpTo(p, k - 1)) + Total(FilesAt(p, k))
                 /\ Total(FilesAt(p, k)) =
                       IF world.dir[p][k].dir THEN Total(FilesBelow(Append(p, world.dir[p][k].name)))
                       ELSE world.dir[p][k].size
<1> DEFINE n == Len(world.dir[p])
<1>0. n \in Nat /\ p \in PathSet /\ Len(p) \in Nat
  BY FoldersTyped, PathsTyped
<1>1. Sized(AllFiles) /\ \A q : FilesBelow(q) \in SUBSET AllFiles
  BY FilesSized
<1>2. \A k : FilesUpTo(p, k) \in SUBSET AllFiles /\ FilesAt(p, k) \in SUBSET AllFiles
  BY <1>1 DEF FilesUpTo, FilesAt
<1>3. Total(FilesUpTo(p, 0)) = 0
  <2>1. FilesUpTo(p, 0) = {}
    BY DEF FilesUpTo
  <2> QED
    BY <1>1, <2>1, Totals
<1>4. FilesUpTo(p, n) = FilesBelow(p)
  BY HeldOnce DEF FilesUpTo
<1>5. \A k : Total(FilesUpTo(p, k)) \in Nat
  BY <1>1, <1>2, Totals
<1>6. ASSUME NEW k \in 1 .. n
      PROVE  Total(FilesUpTo(p, k)) = Total(FilesUpTo(p, k - 1)) + Total(FilesAt(p, k))
  <2>1. FilesUpTo(p, k) = FilesUpTo(p, k - 1) \cup FilesAt(p, k)
    <3>1. \A i : i \in 1 .. k <=> i \in 1 .. k - 1 \/ i = k
      BY <1>0
    <3> QED
      BY <3>1 DEF FilesUpTo, FilesAt
  <2>2. FilesUpTo(p, k - 1) \cap FilesAt(p, k) = {}
    <3> SUFFICES ASSUME NEW f \in FilesUpTo(p, k - 1), f \in FilesAt(p, k) PROVE FALSE
      OBVIOUS
    <3>1. f \in FilesBelow(p) /\ Holds(p, k, f)
      BY DEF FilesAt
    <3>2. PICK i \in 1 .. k - 1 : Holds(p, i, f)
      BY DEF FilesUpTo
    <3>3. i \in 1 .. n /\ i # k
      BY <1>0
    <3> QED
      BY <3>1, <3>2, <3>3, HeldOnce
  <2> QED
    BY <1>1, <1>2, <2>1, <2>2, TotalOfBoth
<1>7. ASSUME NEW k \in 1 .. n
      PROVE  Total(FilesAt(p, k)) =
                IF world.dir[p][k].dir THEN Total(FilesBelow(Append(p, world.dir[p][k].name)))
                ELSE world.dir[p][k].size
  <2> DEFINE e == world.dir[p][k]
  <2>1. e.name \in NameSet /\ e.dir \in BOOLEAN /\ e.size \in Nat /\ Append(p, e.name) \in PathSet
    BY ChildFacts
  <2>2. CASE e.dir
    <3> DEFINE q == Append(p, e.name)
    <3>1. ASSUME NEW f PROVE f \in FilesAt(p, k) <=> f \in FilesBelow(q)
      <4>1. f \in FilesAt(p, k) <=> f \in FilesBelow(p) /\ IsPrefix(q, f[1])
        BY <2>2 DEF FilesAt, Holds
      <4>2. ASSUME NEW d \in DOMAIN world.dir, IsPrefix(q, d) PROVE IsPrefix(p, d)
        <5>1. d \in PathSet
          BY FoldersTyped
        <5> HIDE DEF e
        <5> QED
          BY <1>0, <2>1, <4>2, <5>1, PrefixMore
      <4> HIDE DEF q, e
      <4>3. ASSUME f \in FilesBelow(q) PROVE f \in FilesBelow(p) /\ IsPrefix(q, f[1])
        <5>1. PICK d \in DOMAIN world.dir : \E i \in 1 .. Len(world.dir[d]) :
                 f = <<d, world.dir[d][i]>> /\ ~world.dir[d][i].dir /\ IsPrefix(q, d)
          BY <4>3, FilesAre
        <5>2. IsPrefix(p, d)
          BY <4>2, <5>1
        <5>3. f[1] = d
          BY <5>1
        <5>4. f \in FilesBelow(p)
          BY <5>1, <5>2, FilesAre
        <5> QED
          BY <5>1, <5>3, <5>4
      <4>4. ASSUME f \in FilesBelow(p), IsPrefix(q, f[1]) PROVE f \in FilesBelow(q)
        <5>1. PICK d \in DOMAIN world.dir : \E i \in 1 .. Len(world.dir[d]) :
                 f = <<d, world.dir[d][i]>> /\ ~world.dir[d][i].dir /\ IsPrefix(p, d)
          BY <4>4, FilesAre
        <5>2. f[1] = d
          BY <5>1
        <5>3. IsPrefix(q, d)
          BY <4>4, <5>2
        <5> QED
          BY <5>1, <5>3, FilesAre
      <4> QED
        BY <4>1, <4>3, <4>4
    <3>2. FilesAt(p, k) = FilesBelow(q)
      BY <3>1
    <3> QED
      BY <2>2, <3>2
  <2>3. CASE ~e.dir
    <3> DEFINE f == <<p, e>>
    <3>1. IsPrefix(p, p)
      BY <1>0, <2>1, PrefixMore
    <3>2. f \in FilesBelow(p)
      BY <2>3, <3>1, FilesAre
    <3>3. FilesAt(p, k) = {f}
      BY <2>3, <3>2 DEF FilesAt, Holds
    <3>4. {f} \in SUBSET AllFiles /\ {} \in SUBSET AllFiles /\ {f} \ {f} = {} /\ f \in {f}
      BY <1>1, <3>2
    <3>5. f[2].size = e.size
      OBVIOUS
    <3> HIDE DEF f, e
    <3>6. Total({f}) = Total({f} \ {f}) + f[2].size /\ Total({}) = 0
      BY <1>1, <3>4, TotalWithout, Totals
    <3>7. Total({f} \ {f}) = 0
      BY <3>4, <3>6, Zenon
    <3>8. Total(FilesAt(p, k)) = e.size
      BY <2>1, <3>3, <3>5, <3>6, <3>7
    <3> QED
      BY <2>3, <3>8 DEF e
  <2> QED
    BY <2>1, <2>2, <2>3
<1> QED
  BY <1>3, <1>4, <1>5, <1>6, <1>7

-----------------------------------------------------------------------------
(* GET_DIR_SIZE *)

Exact(v, p) == v \in {FAILED, Total(FilesBelow(p))}

LEMMA Failing ==
    \A v, e, below : v = FAILED \/ below = FAILED => AddSize(v, e, below) = FAILED
BY DEF AddSize

\* If the sizes of the folders in a folder are exact, its own is.
LEMMA FolderExact ==
    ASSUME world \in Worlds, NEW p \in DOMAIN world.dir, Len(p) >= 1, NEW bad, NEW s, IsSize(s, bad),
           \A i \in 1 .. Len(world.dir[p]) :
              world.dir[p][i].dir => Exact(s[Append(p, world.dir[p][i].name)], Append(p, world.dir[p][i].name))
    PROVE  Exact(s[p], p)
<1> DEFINE n == Len(world.dir[p])
           T(k) == Total(FilesUpTo(p, k))
<1>0. n \in Nat /\ s[p] = SizeOfFolder(p, world.dir[p], s, bad)
  BY FoldersTyped DEF IsSize
<1>1. CASE p \in bad
  <2>1. SizeOfFolder(p, world.dir[p], s, bad) = FAILED
    BY <1>1 DEF SizeOfFolder
  <2> QED
    BY <1>0, <2>1 DEF Exact
<1>2. CASE p \notin bad
  <2>1. SizesIn(p, s)
    BY ChildFacts DEF SizesIn, IsSize
  <2>2. PICK u : Walked(u, p, s, bad) /\ SizeOfFolder(p, world.dir[p], s, bad) = u[n]
    BY <1>2, <2>1, FolderFold
  <2> DEFINE C == {k \in Nat : k <= n => u[k] \in {FAILED, T(k)}}
  <2>3. 0 \in C
    <3>1. u[0] = 0 /\ T(0) = 0
      BY <2>2, FilesUpToFacts DEF Walked
    <3> QED
      BY <3>1
  <2>4. ASSUME NEW k \in Nat, k \in C PROVE k + 1 \in C
    <3>1. ASSUME k + 1 <= n PROVE u[k + 1] \in {FAILED, T(k + 1)}
      <4> DEFINE e == world.dir[p][k + 1]
                 q == Append(p, e.name)
      <4>1. k + 1 \in 1 .. n /\ (k + 1) - 1 = k /\ u[k] \in {FAILED, T(k)}
        BY <1>0, <2>4, <3>1
      <4>2. u[k + 1] = Added(p, s, bad, u[k], e)
        BY <2>2, <4>1 DEF Walked
      <4>3. T(k) \in Nat /\ T(k + 1) = T(k) + Total(FilesAt(p, k + 1))
        BY <4>1, FilesUpToFacts
      <4>4. Total(FilesAt(p, k + 1)) = IF e.dir THEN Total(FilesBelow(q)) ELSE e.size
        BY <4>1, FilesUpToFacts
      <4>5. e.dir \in BOOLEAN /\ e.size \in Nat /\ (e.dir => s[q] \in {FAILED, Total(FilesBelow(q))})
        BY <4>1, ChildFacts DEF Exact
      <4>6. Added(p, s, bad, u[k], e) =
               IF q \in bad THEN FAILED ELSE AddSize(u[k], e, IF e.dir THEN s[q] ELSE 0)
        BY DEF Added
      <4> HIDE DEF T, e, q
      <4>7. CASE q \in bad
        BY <4>2, <4>6, <4>7
      <4>8. CASE q \notin bad /\ u[k] = FAILED
        <5>1. AddSize(u[k], e, IF e.dir THEN s[q] ELSE 0) = FAILED
          BY <4>8, Failing, Zenon
        <5>2. u[k + 1] = FAILED
          BY <4>2, <4>6, <4>8, <5>1
        <5> QED
          BY <5>2
      <4>9. CASE q \notin bad /\ u[k] # FAILED /\ e.dir
        <5>1. u[k] = T(k) /\ u[k + 1] = AddSize(T(k), e, s[q])
          BY <4>1, <4>2, <4>6, <4>9
        <5>2. CASE s[q] = FAILED
          BY <5>1, <5>2, Failing, Zenon
        <5>3. CASE s[q] # FAILED
          <6>1. s[q] = Total(FilesBelow(q)) /\ T(k + 1) = T(k) + s[q]
            BY <4>3, <4>4, <4>5, <4>9, <5>3
          <6>2. AddSize(T(k), e, s[q]) = T(k) + s[q]
            BY <4>9, <5>1, <5>3 DEF AddSize
          <6> QED
            BY <5>1, <6>1, <6>2
        <5> QED
          BY <5>2, <5>3
      <4>10. CASE q \notin bad /\ u[k] # FAILED /\ ~e.dir
        <5>1. u[k] = T(k) /\ u[k + 1] = AddSize(T(k), e, 0)
          BY <4>1, <4>2, <4>6, <4>10
        <5>2. 0 # FAILED
          BY DEF FAILED
        <5>3. AddSize(T(k), e, 0) = T(k) + e.size
          BY <4>10, <5>1, <5>2 DEF AddSize
        <5>4. T(k + 1) = T(k) + e.size
          BY <4>3, <4>4, <4>10
        <5> QED
          BY <5>1, <5>3, <5>4
      <4> QED
        BY <4>5, <4>7, <4>8, <4>9, <4>10
    <3> HIDE DEF T
    <3> QED
      BY <3>1
  <2>5. n \in C
    <3> HIDE DEF C, n
    <3> QED
      BY <1>0, <2>3, <2>4, SetInduction
  <2>6. u[n] \in {FAILED, T(n)}
    <3> HIDE DEF T
    <3> QED
      BY <1>0, <2>5
  <2>7. FilesUpTo(p, n) = FilesBelow(p)
    BY FilesUpToFacts
  <2> QED
    BY <1>0, <2>2, <2>6, <2>7 DEF Exact
<1> QED
  BY <1>1, <1>2

\* From the deepest folders up, every size is exact.
LEMMA AllExact ==
    ASSUME world \in Worlds, NEW bad, NEW s, IsSize(s, bad), NEW d \in DOMAIN world.dir, Len(d) >= 1
    PROVE  Exact(s[d], d)
<1> DEFINE D == DOMAIN world.dir
<1>1. PICK M : Within(M)
  BY DepthExists
<1>2. M \in Nat /\ \A p \in D : Len(p) <= M /\ Len(p) \in Nat
  <2>1. D \subseteq PathSet
    BY FoldersTyped
  <2> QED
    BY <1>1, <2>1 DEF Within, PathSet
<1> DEFINE C == {k \in Nat : \A p \in D : Len(p) >= 1 /\ Len(p) + k > M => Exact(s[p], p)}
<1>3. 0 \in C
  BY <1>2
<1>4. ASSUME NEW k \in Nat, k \in C PROVE k + 1 \in C
  <2>1. ASSUME NEW p \in D, Len(p) >= 1, Len(p) + (k + 1) > M PROVE Exact(s[p], p)
    <3>1. ASSUME NEW i \in 1 .. Len(world.dir[p]), world.dir[p][i].dir
          PROVE  Exact(s[Append(p, world.dir[p][i].name)], Append(p, world.dir[p][i].name))
      <4> DEFINE q == Append(p, world.dir[p][i].name)
      <4>1. q \in D /\ Len(q) = Len(p) + 1
        BY <3>1, ChildFacts
      <4> HIDE DEF q
      <4>2. Len(q) >= 1 /\ Len(q) + k > M
        BY <1>2, <2>1, <4>1
      <4>3. Exact(s[q], q)
        BY <1>4, <4>1, <4>2
      <4> QED
        BY <4>3 DEF q
    <3> QED
      BY <2>1, <3>1, FolderExact
  <2> QED
    BY <2>1
<1>5. M + 1 \in C
  <2>1. M + 1 \in Nat
    BY <1>2
  <2> HIDE DEF C
  <2> QED
    BY <1>3, <1>4, <2>1, SetInduction
<1> QED
  BY <1>2, <1>5

LEMMA SameFiles ==
    ASSUME UNCHANGED <<world, dirsize>>, DirSizeExact
    PROVE  DirSizeExact'
BY DEF DirSizeExact, FilesBelow, IsDir

LEMMA DirSizeNext == ListInv /\ DirSizeExact /\ [Next]_vars => DirSizeExact'
<1> SUFFICES ASSUME ListInv, DirSizeExact, [Next]_vars PROVE DirSizeExact'
  OBVIOUS
<1>1. world \in Worlds
  BY DEF ListInv
<1>2. CASE UNCHANGED <<world, dirsize>>
  BY <1>2, SameFiles
<1>3. CASE OpenDir \/ ReadDir
  <2>1. NoSize.size = FAILED
    BY DEF NoSize
  <2>2. dirsize' = NoSize
    BY <1>3 DEF OpenDir, ReadDir
  <2> QED
    BY <2>1, <2>2 DEF DirSizeExact
<1>4. CASE GetDirSize
  <2>1. world' = world
    BY <1>4 DEF GetDirSize
  <2> DEFINE Answer(r, z, w) == dirsize' = [of |-> translate_path(r, FALSE), size |-> z, whole |-> w]
  <2>2. PICK r \in world.requests :
           \/ \E bad : Answer(r, calculate_directory_size(translate_path(r, FALSE), world.dir, bad), TRUE)
           \/ \E z : Answer(r, z, FALSE)
    BY <1>4, Zenon DEF GetDirSize
  <2>10. CASE \E z : Answer(r, z, FALSE)
    <3>1. dirsize'.whole = FALSE
      BY <2>10
    <3> QED
      BY <3>1 DEF DirSizeExact
  <2> SUFFICES ASSUME \E bad : Answer(r, calculate_directory_size(translate_path(r, FALSE), world.dir, bad), TRUE)
               PROVE  DirSizeExact'
    BY <2>2, <2>10
  <2>3. \E bad : Answer(r, calculate_directory_size(translate_path(r, FALSE), world.dir, bad), TRUE)
    OBVIOUS
  <2> DEFINE p == translate_path(r, FALSE)
  <2>9. PICK bad : dirsize' = [of |-> p, size |-> calculate_directory_size(p, world.dir, bad), whole |-> TRUE]
    BY <2>3
  <2>4. r \in PathSet
    BY <1>1, WorldsAssumption DEF PathSet
  <2>5. p \in DOMAIN world.dir => Len(p) >= 1
    BY <1>1, <2>4, Translated DEF IsDir
  <2> HIDE DEF p
  <2>6. Exact(calculate_directory_size(p, world.dir, bad), p)
    <3>1. CASE p \in DOMAIN world.dir
      <4>1. PICK s : IsSize(s, bad) /\ calculate_directory_size(p, world.dir, bad) = s[p]
        BY <1>1, <3>1, SizeIs
      <4> QED
        BY <1>1, <2>5, <3>1, <4>1, AllExact
    <3>2. CASE p \notin DOMAIN world.dir
      <4>1. calculate_directory_size(p, world.dir, bad) = FAILED
        BY <3>2 DEF calculate_directory_size, IsDir
      <4> QED
        BY <4>1 DEF Exact
    <3> QED
      BY <3>1, <3>2
  <2>7. dirsize'.of = p /\ dirsize'.size = calculate_directory_size(p, world.dir, bad)
    BY <2>9
  <2>8. FilesBelow(dirsize.of)' = FilesBelow(p)
    BY <2>1, <2>7 DEF FilesBelow
  <2> QED
    BY <2>6, <2>7, <2>8 DEF DirSizeExact, Exact
<1> QED
  BY <1>2, <1>3, <1>4 DEF Next, vars, listVars, ReadNothing, ReadDir, ReadEntry, ReturnFrom, NextLine, NoLines, Send

\* However deep the tree is and whatever stat() or opendir() fail on in it:
\* GET_DIR_SIZE answers with the sizes of all files below the folder or with -1
\* (calculate_directory_size()), as long as no readdir() fails.
THEOREM DirSizesAreExact == Spec => []DirSizeExact
<1>1. Init => DirSizeExact
  BY DEF Init, DirSizeExact, NoSize
<1>2. ListInv /\ DirSizeExact /\ [Next]_vars => DirSizeExact'
  BY DirSizeNext
<1> QED
  BY <1>1, <1>2, ListInvAlways, PTL DEF Spec
=============================================================================
