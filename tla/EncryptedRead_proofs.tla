------------------------ MODULE EncryptedRead_proofs ------------------------
(***************************************************************************)
(* Proofs about EncryptedRead, for discs with any number of regions.  The  *)
(* regions are where the table says only because it is in ascending order, *)
(* and that is an induction along the table.                               *)
(***************************************************************************)
EXTENDS EncryptedRead, Recursion

LEMMA Multiples ==
    ASSUME NEW a \in Nat, NEW b \in Nat, NEW c \in Nat
    PROVE  a * c \in Nat /\ (a <= b => a * c <= b * c) /\ (a < b => a * c + c <= b * c)
<1>1. a * c \in Nat /\ (a <= b => a * c <= b * c)
  OBVIOUS
<1>2. a < b => a * c + c <= b * c
  <2>1. a < b => a + 1 <= b
    OBVIOUS
  <2>2. a + 1 <= b => (a + 1) * c <= b * c
    OBVIOUS
  <2>3. (a + 1) * c = a * c + c
    OBVIOUS
  <2> QED
    BY <1>1, <2>1, <2>2, <2>3
<1> QED
  BY <1>1, <1>2

\* A sector lies before the end of a region, or behind it, with all its bytes.
LEMMA SectorBytes ==
    ASSUME NEW k \in Nat \ {0}, NEW a \in Nat, NEW s \in Nat
    PROVE  /\ s * k <= a * k + k - 1 <=> s <= a
           /\ (s + 1) * k - 1 <= a * k + k - 1 <=> s <= a
           /\ a * k + k - 1 + 1 <= s * k <=> a + 1 <= s
           /\ a * k + k - 1 + 1 <= (s + 1) * k - 1 <=> a + 1 <= s
<1> DEFINE x == a * k
           y == s * k
<1>1. x \in Nat /\ y \in Nat /\ (s + 1) * k = y + k
  BY Multiples
<1>2. /\ a < s => x + k <= y
      /\ s < a => y + k <= x
      /\ a = s => x = y
  BY Multiples
<1> HIDE DEF x, y
<1>3. /\ y <= x + k - 1 <=> s <= a
      /\ y + k - 1 <= x + k - 1 <=> s <= a
      /\ x + k - 1 + 1 <= y <=> a + 1 <= s
      /\ x + k - 1 + 1 <= y + k - 1 <=> a + 1 <= s
  BY <1>1, <1>2
<1> QED
  BY <1>1, <1>3 DEF x, y

-----------------------------------------------------------------------------
(* The regions of a disc *)

\* The last sector of region i, and the sectors of a region.
LastSector(i) == disc.table[i] - (IF i % 2 = 0 THEN 1 ELSE 0)
InRegion(i, s) ==
    /\ i \in 1 .. Len(disc.table)
    /\ i > 1 => LastSector(i - 1) + 1 <= s
    /\ s <= LastSector(i)

LEMMA TableFacts ==
    ASSUME disc \in Discs
    PROVE  /\ Len(disc.table) \in Nat
           /\ \A i \in 1 .. Len(disc.table) : disc.table[i] \in Nat \ {0} /\ LastSector(i) \in Nat
           /\ \A i \in 1 .. Len(disc.table) - 1 :
                 /\ LastSector(i) < LastSector(i + 1)
<1>1. disc.table \in Tables
  BY DEF Discs
<1>2. PICK c \in 1 .. MaxCount : disc.table \in [1 .. 2 * c - 1 -> 1 .. MaxSectors]
  BY <1>1 DEF Tables
<1>3. c \in Nat \ {0} /\ MaxSectors \in Nat
  BY EncryptedAssumption
<1> DEFINE t == disc.table
           n == 2 * c - 1
<1>4. n \in Nat
  BY <1>3
<1>5. Len(t) = n
  <2> HIDE DEF n
  <2> QED
    BY <1>2, <1>4 DEF n
<1>6. \A i \in 1 .. n : t[i] \in Nat \ {0}
  BY <1>2, <1>3
<1>7. \A i \in 1 .. n - 1 : t[i] + (IF i % 2 = 1 THEN 2 ELSE 0) <= t[i + 1]
  BY <1>1, <1>5 DEF Tables
<1> HIDE DEF t, n
<1>8. \A i \in 1 .. n : LastSector(i) \in Nat
  BY <1>6 DEF LastSector, t
<1>9. ASSUME NEW i \in 1 .. n - 1 PROVE LastSector(i) < LastSector(i + 1)
  <2>1. t[i] \in Nat /\ t[i + 1] \in Nat /\ i \in Nat
    BY <1>4, <1>6
  <2>2. ((i % 2) = 1 /\ ((i + 1) % 2) = 0) \/ ((i % 2) = 0 /\ ((i + 1) % 2) = 1)
    BY <2>1
  <2>3. t[i] + (IF i % 2 = 1 THEN 2 ELSE 0) <= t[i + 1]
    BY <1>7
  <2> QED
    BY <2>1, <2>2, <2>3 DEF LastSector, t
<1> QED
  BY <1>4, <1>5, <1>6, <1>8, <1>9 DEF t

\* The ends of the regions are in ascending order.
LEMMA Ascending ==
    ASSUME disc \in Discs, NEW i \in 1 .. Len(disc.table), NEW j \in 1 .. Len(disc.table), i < j
    PROVE  LastSector(i) < LastSector(j)
<1> DEFINE n == Len(disc.table)
           C == {d \in Nat : i + 1 + d <= n => LastSector(i) < LastSector(i + 1 + d)}
<1>1. /\ n \in Nat /\ i \in Nat
      /\ \A h \in 1 .. n : LastSector(h) \in Nat
      /\ \A h \in 1 .. n - 1 : LastSector(h) < LastSector(h + 1)
  BY TableFacts
<1> HIDE DEF n
<1>2. 0 \in C
  <2>1. i + 1 <= n => LastSector(i) < LastSector(i + 1)
    BY <1>1
  <2>2. i + 1 + 0 = i + 1
    BY <1>1
  <2> QED
    BY <2>1, <2>2
<1>3. ASSUME NEW d \in Nat, d \in C PROVE d + 1 \in C
  <2> SUFFICES ASSUME i + 1 + (d + 1) <= n PROVE LastSector(i) < LastSector(i + 1 + (d + 1))
    BY <1>3
  <2> DEFINE h == i + 1 + d
  <2>1. h \in 1 .. n - 1 /\ h \in 1 .. n /\ h + 1 \in 1 .. n /\ i + 1 + (d + 1) = h + 1 /\ h <= n
    BY <1>1
  <2>2. LastSector(i) < LastSector(h)
    BY <1>3, <2>1
  <2> HIDE DEF h
  <2>3. LastSector(h) < LastSector(h + 1) /\ LastSector(h) \in Nat /\ LastSector(h + 1) \in Nat
        /\ LastSector(i) \in Nat
    BY <1>1, <2>1 DEF n
  <2> QED
    BY <2>1, <2>2, <2>3
<1> HIDE DEF C
<1>4. \A d \in Nat : d \in C
  BY <1>2, <1>3, SetInduction
<1>5. j - i - 1 \in Nat /\ i + 1 + (j - i - 1) = j /\ j <= n
  BY <1>1 DEF n
<1>6. j - i - 1 \in C
  BY <1>4, <1>5
<1> QED
  BY <1>5, <1>6 DEF C

\* No sector lies in two regions.
LEMMA OneRegion ==
    ASSUME disc \in Discs, NEW s \in Nat, NEW i, NEW j, InRegion(i, s), InRegion(j, s)
    PROVE  i = j
<1> DEFINE n == Len(disc.table)
<1>1. i \in 1 .. n /\ j \in 1 .. n /\ n \in Nat /\ \A h \in 1 .. n : LastSector(h) \in Nat
  BY TableFacts DEF InRegion
<1>2. ASSUME NEW a, NEW b, InRegion(a, s), InRegion(b, s), a \in 1 .. n, b \in 1 .. n, a < b
      PROVE  FALSE
  <2>1. b > 1 /\ LastSector(b - 1) + 1 <= s /\ s <= LastSector(a) /\ b - 1 \in 1 .. n /\ a <= b - 1
    BY <1>1, <1>2 DEF InRegion
  <2>2. LastSector(b - 1) \in Nat /\ LastSector(a) \in Nat
    BY <1>1, <1>2, <2>1
  <2>3. a = b - 1 \/ a < b - 1
    BY <1>1, <1>2, <2>1
  <2>4. a < b - 1 => LastSector(a) < LastSector(b - 1)
    BY <1>2, <2>1, Ascending
  <2> QED
    BY <2>1, <2>2, <2>3, <2>4
<1>3. i < j \/ j < i \/ i = j
  BY <1>1
<1> HIDE DEF n
<1> QED
  BY <1>1, <1>2, <1>3

\* The regions leave no sector out up to the end of the last one.
LEMMA Covered ==
    ASSUME disc \in Discs, NEW s \in Nat, NEW i \in 1 .. Len(disc.table), s <= LastSector(i)
    PROVE  \E j \in 1 .. Len(disc.table) : InRegion(j, s)
<1> DEFINE n == Len(disc.table)
           Found == \E j \in 1 .. Len(disc.table) : InRegion(j, s)
           C == {d \in Nat : d + 1 <= n /\ s <= LastSector(d + 1) => Found}
<1>1. n \in Nat /\ \A h \in 1 .. n : LastSector(h) \in Nat
  BY TableFacts
<1> HIDE DEF Found
<1>2. 0 \in C
  <2> SUFFICES ASSUME 0 + 1 <= n, s <= LastSector(0 + 1) PROVE Found
    OBVIOUS
  <2>1. InRegion(1, s) /\ 1 \in 1 .. n
    BY <1>1 DEF InRegion
  <2> QED
    BY <2>1 DEF Found
<1>3. ASSUME NEW d \in Nat, d \in C PROVE d + 1 \in C
  <2> SUFFICES ASSUME d + 1 + 1 <= n, s <= LastSector(d + 1 + 1) PROVE Found
    OBVIOUS
  <2>1. d + 1 \in 1 .. n /\ d + 1 + 1 \in 1 .. n /\ (d + 1 + 1) - 1 = d + 1
    BY <1>1
  <2>2. CASE s <= LastSector(d + 1)
    BY <1>3, <2>1, <2>2
  <2>3. CASE ~(s <= LastSector(d + 1))
    <3>1. LastSector(d + 1) + 1 <= s
      BY <1>1, <2>1, <2>3
    <3>2. InRegion(d + 1 + 1, s)
      BY <2>1, <3>1 DEF InRegion
    <3> QED
      BY <2>1, <3>2 DEF Found
  <2> QED
    BY <2>2, <2>3
<1> HIDE DEF C
<1>4. \A d \in Nat : d \in C
  BY <1>2, <1>3, SetInduction
<1>5. i - 1 \in Nat /\ (i - 1) + 1 = i /\ i <= n
  BY <1>1
<1>6. i - 1 \in C
  BY <1>4, <1>5
<1> HIDE DEF n
<1>7. Found
  BY <1>5, <1>6 DEF C
<1> QED
  BY <1>7 DEF Found

\* What File::open() makes of the table gives the regions of the disc.
LEMMA RegionsOf ==
    ASSUME disc \in Discs, region_info_ = Regions, NEW s \in Nat, NEW i
    PROVE  /\ i \in RegionsAt(s * kSectorSize) <=> InRegion(i, s)
           /\ i \in RegionsAt((s + 1) * kSectorSize - 1) <=> InRegion(i, s)
           /\ InRegion(i, s) => (region_info_[i].encrypted <=> i % 2 = 0)
<1> DEFINE n == Len(disc.table)
           k == kSectorSize
<1>1. n \in Nat /\ \A h \in 1 .. n : LastSector(h) \in Nat
  BY TableFacts
<1>2. k \in Nat \ {0}
  BY EncryptedAssumption
<1>3. /\ Len(region_info_) = n
      /\ \A h \in 1 .. n :
            /\ region_info_[h].regions_first_addr = IF h = 1 THEN 0 ELSE LastAddr(h - 1) + 1
            /\ region_info_[h].regions_last_addr = LastAddr(h)
            /\ region_info_[h].encrypted <=> h % 2 = 0
  <2> DEFINE R(h) == [encrypted |-> h % 2 = 0,
                      regions_first_addr |-> IF h = 1 THEN 0 ELSE LastAddr(h - 1) + 1,
                      regions_last_addr |-> LastAddr(h)]
  <2>1. region_info_ = [h \in 1 .. n |-> R(h)]
    BY DEF Regions
  <2> HIDE DEF n, R
  <2>2. Len(region_info_) = n /\ \A h \in 1 .. n : region_info_[h] = R(h)
    BY <1>1, <2>1
  <2>3. ASSUME NEW h \in 1 .. n
        PROVE  /\ R(h).regions_first_addr = IF h = 1 THEN 0 ELSE LastAddr(h - 1) + 1
               /\ R(h).regions_last_addr = LastAddr(h)
    BY DEF R
  <2>4. ASSUME NEW h \in 1 .. n PROVE R(h).encrypted <=> h % 2 = 0
    BY DEF R
  <2> QED
    BY <2>2, <2>3, <2>4
<1>4. \A h : LastAddr(h) = LastSector(h) * k + k - 1
  BY DEF LastAddr, LastSector
<1> HIDE DEF k, n
<1>5. ASSUME NEW h \in 1 .. n
      PROVE  /\ s * k <= LastAddr(h) <=> s <= LastSector(h)
             /\ (s + 1) * k - 1 <= LastAddr(h) <=> s <= LastSector(h)
             /\ LastAddr(h) + 1 <= s * k <=> LastSector(h) + 1 <= s
             /\ LastAddr(h) + 1 <= (s + 1) * k - 1 <=> LastSector(h) + 1 <= s
  BY <1>1, <1>2, <1>4, SectorBytes
<1>6. 0 <= s * k /\ 0 <= (s + 1) * k - 1
  <2>1. s * k \in Nat /\ (s + 1) * k = s * k + k
    BY <1>2, Multiples
  <2> QED
    BY <1>2, <2>1
<1>7. ASSUME NEW p, p \in {s * k, (s + 1) * k - 1}
      PROVE  i \in RegionsAt(p) <=> InRegion(i, s)
  <2>1. i \in RegionsAt(p) <=> /\ i \in 1 .. n
                               /\ region_info_[i].regions_first_addr <= p
                               /\ p <= region_info_[i].regions_last_addr
    BY <1>3 DEF RegionsAt
  <2>2. CASE i \in 1 .. n
    <3>1. p <= region_info_[i].regions_last_addr <=> s <= LastSector(i)
      BY <1>3, <1>5, <1>7, <2>2
    <3>2. CASE i = 1
      <4>1. region_info_[i].regions_first_addr <= p
        BY <1>3, <1>6, <1>7, <2>2, <3>2
      <4> QED
        BY <2>1, <2>2, <3>1, <3>2, <4>1 DEF InRegion, n
    <3>3. CASE i # 1
      <4>1. i - 1 \in 1 .. n /\ i > 1
        BY <1>1, <2>2, <3>3
      <4>2. region_info_[i].regions_first_addr <= p <=> LastSector(i - 1) + 1 <= s
        BY <1>3, <1>5, <1>7, <2>2, <3>3, <4>1
      <4> QED
        BY <2>1, <2>2, <3>1, <4>1, <4>2 DEF InRegion, n
    <3> QED
      BY <3>2, <3>3
  <2>3. CASE i \notin 1 .. n
    BY <2>1, <2>3 DEF InRegion, n
  <2> QED
    BY <2>2, <2>3
<1>8. InRegion(i, s) => (region_info_[i].encrypted <=> i % 2 = 0)
  BY <1>3 DEF InRegion, n
<1> QED
  BY <1>7, <1>8 DEF k

LEMMA EncryptedOf ==
    ASSUME disc \in Discs, NEW s \in Nat
    PROVE  Encrypted(s) <=> \E i : InRegion(i, s) /\ i % 2 = 0
<1> DEFINE n == Len(disc.table)
<1>1. n \in Nat /\ \A h \in 1 .. n : disc.table[h] \in Nat
  BY TableFacts
<1>2. ASSUME NEW i \in 1 .. n, i % 2 = 0
      PROVE  InRegion(i, s) <=> disc.table[i - 1] < s /\ s < disc.table[i]
  <2>1. i \in Nat /\ i > 1 /\ ((i - 1) % 2) # 0 /\ i - 1 \in 1 .. n
    BY <1>1, <1>2
  <2>2. LastSector(i - 1) = disc.table[i - 1] /\ LastSector(i) = disc.table[i] - 1
    BY <1>1, <1>2, <2>1 DEF LastSector
  <2>3. disc.table[i - 1] \in Nat /\ disc.table[i] \in Nat
    BY <1>1, <2>1
  <2> HIDE DEF n
  <2> QED
    BY <2>1, <2>2, <2>3 DEF InRegion, n
<1>3. \A i : InRegion(i, s) => i \in 1 .. n
  BY DEF InRegion
<1> QED
  BY <1>2, <1>3 DEF Encrypted

\* The sectors of a read that begins and ends in the same region.
LEMMA SameRegion ==
    ASSUME disc \in Discs, NEW first \in Nat, NEW last \in Nat, NEW s \in first .. last,
           \A i : InRegion(i, first) <=> InRegion(i, last)
    PROVE  Encrypted(s) <=> \E i : InRegion(i, first) /\ i % 2 = 0
<1>1. s \in Nat /\ \A h \in 1 .. Len(disc.table) : LastSector(h) \in Nat
  BY TableFacts
<1>2. ASSUME NEW i, InRegion(i, first) PROVE InRegion(i, s)
  <2>1. /\ i \in 1 .. Len(disc.table) /\ s <= LastSector(i)
        /\ i > 1 => LastSector(i - 1) + 1 <= first
    BY <1>1, <1>2 DEF InRegion
  <2>2. i > 1 => LastSector(i - 1) \in Nat
    BY <1>1, <2>1, TableFacts
  <2> QED
    BY <1>1, <2>1, <2>2 DEF InRegion
<1>3. ASSUME NEW i, InRegion(i, s) PROVE InRegion(i, first)
  <2>1. i \in 1 .. Len(disc.table) /\ first <= LastSector(i)
    BY <1>1, <1>3 DEF InRegion
  <2>2. PICK j \in 1 .. Len(disc.table) : InRegion(j, first)
    BY <2>1, Covered
  <2>3. j = i
    BY <1>1, <1>2, <1>3, <2>2, OneRegion
  <2> QED
    BY <2>2, <2>3
<1>4. Encrypted(s) <=> \E i : InRegion(i, s) /\ i % 2 = 0
  BY <1>1, EncryptedOf
<1> QED
  BY <1>2, <1>3, <1>4

LEMMA DecryptsOf ==
    ASSUME disc \in Discs, region_info_ = Regions, NEW s \in Nat
    PROVE  Decrypts(s * kSectorSize) <=>
              /\ enc_type_ \in {"3k3yEnc", "Redump"}
              /\ \E i : InRegion(i, s) /\ i % 2 = 0
<1> DEFINE p == s * kSectorSize
<1>1. \A i : /\ i \in RegionsAt(p) <=> InRegion(i, s)
             /\ InRegion(i, s) => (region_info_[i].encrypted <=> i % 2 = 0)
  BY RegionsOf
<1>2. \A i, j : InRegion(i, s) /\ InRegion(j, s) => i = j
  BY OneRegion
<1>3. \A i : InRegion(i, s) => i \in Nat
  BY TableFacts DEF InRegion
<1> HIDE DEF p
<1>4. (\E i \in RegionsAt(p) : /\ \A j \in RegionsAt(p) : i <= j
                               /\ region_info_[i].encrypted)
      <=> \E i : InRegion(i, s) /\ i % 2 = 0
  <2>1. ASSUME NEW i, InRegion(i, s) PROVE \A j \in RegionsAt(p) : i <= j
    BY <1>1, <1>2, <1>3, <2>1
  <2> QED
    BY <1>1, <2>1
<1> QED
  BY <1>4 DEF Decrypts, p

-----------------------------------------------------------------------------
(* What is decrypted *)

\* The inductive invariant: what open() has found out.
OpenInv ==
    /\ disc \in Discs
    /\ phase # "closed" =>
          /\ enc_type_ \in {"3k3yEnc", "Redump"} <=> disc.valid /\ (disc.key \/ disc.mark = "Enc")
          /\ disc.valid => region_info_ = Regions
DecryptInv == OpenInv /\ DecryptedRight

LEMMA OpenStep ==
    ASSUME DecryptInv, Open
    PROVE  DecryptInv'
<1>1. disc \in Discs /\ UNCHANGED disc /\ phase' = "open"
  BY DEF DecryptInv, OpenInv, Open
<1>2. /\ enc_type_' \in {"3k3yEnc", "Redump"} <=> disc.valid /\ (disc.key \/ disc.mark = "Enc")
      /\ disc.valid => region_info_' = Regions
  BY DEF Open
<1>3. Regions' = Regions
  BY <1>1 DEF Regions, LastAddr
<1>4. Discs' = Discs
  BY DEF Discs, Tables
<1>5. OpenInv'
  BY <1>1, <1>2, <1>3, <1>4 DEF OpenInv
<1>6. DecryptedRight'
  BY <1>1 DEF DecryptedRight
<1> QED
  BY <1>5, <1>6 DEF DecryptInv

LEMMA ReadStep ==
    ASSUME ~Straddle, DecryptInv, NEW first \in 0 .. disc.sectors - 1, NEW n \in 1 .. disc.sectors,
           Read(first, n)
    PROVE  DecryptInv'
<1> DEFINE got == IF first + n <= disc.sectors THEN n ELSE disc.sectors - first
           here == first * kSectorSize
           last == first + got - 1
           keyed == disc.valid /\ (disc.key \/ disc.mark = "Enc")
           crash == phase' = "crashed"
<1>1. /\ disc \in Discs /\ phase # "closed"
      /\ enc_type_ \in {"3k3yEnc", "Redump"} <=> keyed
      /\ disc.valid => region_info_ = Regions
      /\ UNCHANGED <<disc, enc_type_, region_info_>> /\ phase' \in {"crashed", "read"}
  BY DEF DecryptInv, OpenInv, Read
<1>2. disc.sectors \in Nat /\ first \in Nat /\ got \in Nat \ {0} /\ last \in Nat
  <2>1. disc.sectors \in Nat
    BY <1>1, EncryptedAssumption DEF Discs
  <2> QED
    BY <2>1
<1>3. /\ RegionsAt(here) = RegionsAt((first + got) * kSectorSize - 1)
      /\ ~crash =>
         /\ done'.first = first /\ done'.sectors = got
         /\ done'.decrypted = IF Decrypts(here) THEN first .. first + got - 1 ELSE {}
  BY DEF Read
<1>4. first + got = last + 1
  BY <1>2
<1> HIDE DEF got, here, last
<1>5. Regions' = Regions /\ Discs' = Discs
  BY <1>1 DEF Regions, LastAddr, Discs, Tables
<1>6. OpenInv'
  BY <1>1, <1>5 DEF OpenInv
<1>7. ~crash => done'.decrypted = {s \in first .. last : keyed /\ Encrypted(s)}
  <2>1. CASE ~keyed
    <3>1. ~Decrypts(here)
      BY <1>1, <2>1 DEF Decrypts
    <3> QED
      BY <1>3, <2>1, <3>1
  <2>2. CASE keyed
    <3>1. region_info_ = Regions
      BY <1>1, <2>2
    <3>2. Decrypts(here) <=> \E i : InRegion(i, first) /\ i % 2 = 0
      BY <1>1, <1>2, <2>2, <3>1, DecryptsOf DEF here
    <3>3. \A i : /\ i \in RegionsAt(here) <=> InRegion(i, first)
                 /\ i \in RegionsAt((last + 1) * kSectorSize - 1) <=> InRegion(i, last)
      BY <1>1, <1>2, <3>1, RegionsOf DEF here
    <3>4. \A i : InRegion(i, first) <=> InRegion(i, last)
      BY <1>3, <1>4, <3>3
    <3>5. \A s \in first .. last : Encrypted(s) <=> Decrypts(here)
      BY <1>1, <1>2, <3>2, <3>4, SameRegion
    <3>6. first + got - 1 = last
      BY DEF last
    <3> QED
      BY <1>3, <2>2, <3>5, <3>6
  <2> QED
    BY <2>1, <2>2
<1>8. \A s : Encrypted(s)' <=> Encrypted(s)
  BY <1>1 DEF Encrypted
<1>9. DecryptedRight'
  <2>1. ~crash => done'.first + done'.sectors - 1 = last
    BY <1>3 DEF last
  <2>2. keyed' <=> keyed
    BY <1>1
  <2> QED
    BY <1>1, <1>3, <1>7, <1>8, <2>1 DEF DecryptedRight
<1> QED
  BY <1>6, <1>9 DEF DecryptInv

\* As long as no read goes from one region into another, which is what the
\* code relies on, the encrypted sectors of a disc with a key are decrypted and
\* no others, whatever the number and the sizes of its regions.
THEOREM DecryptsTheRightSectors ==
    ASSUME ~Straddle
    PROVE  Spec => []DecryptedRight
<1>1. Init => DecryptInv
  BY DEF Init, DecryptInv, OpenInv, DecryptedRight
<1>2. ASSUME DecryptInv, [Next]_vars PROVE DecryptInv'
  <2>1. CASE Open
    BY <1>2, <2>1, OpenStep
  <2>2. ASSUME NEW first \in 0 .. disc.sectors - 1, NEW n \in 1 .. disc.sectors, Read(first, n)
        PROVE  DecryptInv'
    BY <1>2, <2>2, ReadStep
  <2>3. CASE UNCHANGED vars
    <3>1. UNCHANGED disc /\ UNCHANGED phase /\ UNCHANGED enc_type_ /\ UNCHANGED region_info_ /\ UNCHANGED done
      BY <2>3 DEF vars
    <3>2. Regions' = Regions /\ Discs' = Discs
      BY <3>1 DEF Regions, LastAddr, Discs, Tables
    <3>3. OpenInv'
      BY <1>2, <3>1, <3>2 DEF DecryptInv, OpenInv
    <3>4. DecryptedRight'
      BY <1>2, <3>1 DEF DecryptInv, DecryptedRight, Encrypted
    <3> QED
      BY <3>3, <3>4 DEF DecryptInv
  <2> QED
    BY <1>2, <2>1, <2>2, <2>3 DEF Next
<1>3. DecryptInv => DecryptedRight
  BY DEF DecryptInv
<1> QED
  BY <1>1, <1>2, <1>3, PTL DEF Spec
=============================================================================
