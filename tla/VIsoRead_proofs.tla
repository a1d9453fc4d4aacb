-------------------------- MODULE VIsoRead_proofs --------------------------
(***************************************************************************)
(* Proofs about virtual images, for folders with any number of             *)
(* directories and files of any size: that the parts of VIsoInvariants are *)
(* invariants, and what follows from them.  A read takes its bytes from    *)
(* region after region of the image (Regions, Covers), in both versions of *)
(* read(); whoever follows the records of the image gets to its            *)
(* directories and files.                                                  *)
(***************************************************************************)
EXTENDS VIsoInvariants

-----------------------------------------------------------------------------
(* Sectors *)

LEMMA Sectors ==
    ASSUME NEW n \in Nat
    PROVE  /\ bytesToSectors(n) \in Nat /\ RoundUp(n) \in Nat
           /\ n <= RoundUp(n) /\ RoundUp(n) < n + SECTOR_SIZE
<1> DEFINE s == SECTOR_SIZE
           m == n + s - 1
<1>1. s \in Nat \ {0} /\ m \in Nat
  BY SectorAssumption
<1>2. m = s * (m \div s) + (m % s) /\ m \div s \in Nat /\ m % s \in 0 .. s - 1
  <2> HIDE DEF m, s
  <2> QED
    BY <1>1
<1> DEFINE q == m \div s
<1>3. q * s = s * q /\ s * q \in Nat
  <2> HIDE DEF q, s
  <2> QED
    BY <1>1, <1>2 DEF q
<1> QED
  BY <1>1, <1>2, <1>3 DEF bytesToSectors, RoundUp

\* What starts with a sector ends as many sectors later as it has.
LEMMA SectorsBehind ==
    ASSUME NEW a \in Nat, NEW n \in Nat
    PROVE  RoundUp(a * SECTOR_SIZE + n) = (a + bytesToSectors(n)) * SECTOR_SIZE
<1> DEFINE s == SECTOR_SIZE
           m == n + s - 1
<1>1. s \in Nat \ {0} /\ m \in Nat
  BY SectorAssumption
<1>2. (a * s + m) \div s = a + (m \div s)
  <2> HIDE DEF m, s
  <2>1. m = s * (m \div s) + (m % s) /\ m \div s \in Nat /\ m % s \in 0 .. s - 1
    BY <1>1
  <2> DEFINE q == m \div s
             r == m % s
  <2>2. a * s + m = s * (a + q) + r
    <3>1. s * (a + q) = a * s + s * q
      BY <1>1, <2>1 DEF q
    <3> QED
      BY <3>1, <1>1, <2>1 DEF q, r
  <2>3. a + q \in Nat /\ r \in 0 .. s - 1
    BY <2>1
  <2> HIDE DEF q, r
  <2>4. (s * (a + q) + r) \div s = a + q
    BY <2>3, <1>1, Quotient
  <2> QED
    BY <2>2, <2>4 DEF q
<1>3. a * s + n + s - 1 = a * s + m /\ a * s \in Nat
  BY <1>1
<1> QED
  BY <1>2, <1>3 DEF RoundUp, bytesToSectors

-----------------------------------------------------------------------------
(* The other recursions of the builder *)

LEMMA ScanSteps ==
    ASSUME NEW S, NEW list \in Seq(S), NEW keep
    PROVE  \E f : Scanning(f, S, Len(list), list, keep) /\ scandir(list, keep) = f[Len(list)]
<1> DEFINE n == Len(list)
           G == [i \in 1 .. n |-> [t \in Seq(S) |-> IF i \in keep THEN Append(t, list[i]) ELSE t]]
           upto == CHOOSE g : g = [i \in 0 .. n |->
                       IF i = 0 THEN << >>
                       ELSE IF i \in keep THEN Append(g[i - 1], list[i]) ELSE g[i - 1]]
<1>1. scandir(list, keep) = upto[n]
  BY DEF scandir
<1>2. n \in Nat /\ << >> \in Seq(S) /\ \A i \in 1 .. n : list[i] \in S
  OBVIOUS
<1> HIDE DEF n
<1>3. IsStep(G, n, Seq(S))
  BY <1>2 DEF IsStep
<1>4. ASSUME NEW i \in 1 .. n, NEW t \in Seq(S)
      PROVE  G[i][t] = IF i \in keep THEN Append(t, list[i]) ELSE t
  BY Zenon
<1> HIDE DEF G
<1>5. PICK f : Solves(f, n, Seq(S), << >>, G)
  BY <1>2, <1>3, Solution
<1>6. f = [i \in 0 .. n |-> IF i = 0 THEN << >>
                            ELSE IF i \in keep THEN Append(f[i - 1], list[i]) ELSE f[i - 1]]
  <2>1. f \in [0 .. n -> Seq(S)] /\ f[0] = << >> /\ \A i \in 1 .. n : f[i] = G[i][f[i - 1]]
    BY <1>5 DEF Solves
  <2>2. ASSUME NEW i \in 0 .. n, i # 0
        PROVE  f[i] = IF i \in keep THEN Append(f[i - 1], list[i]) ELSE f[i - 1]
    <3>1. i \in 1 .. n /\ i - 1 \in 0 .. n
      BY <1>2, <2>2
    <3>2. f[i - 1] \in Seq(S) /\ f[i] = G[i][f[i - 1]]
      BY <2>1, <3>1, SMTT(40)
    <3> QED
      BY <1>4, <3>1, <3>2
  <2> QED
    BY <2>1, <2>2, Zenon
<1>7. upto = [i \in 0 .. n |-> IF i = 0 THEN << >>
                               ELSE IF i \in keep THEN Append(upto[i - 1], list[i]) ELSE upto[i - 1]]
  BY <1>6
<1> HIDE DEF upto
<1>8. upto[0] = << >> /\ \A i \in 1 .. n : upto[i - 1] \in Seq(S) => upto[i] = G[i][upto[i - 1]]
  <2>1. upto[0] = << >>
    BY <1>2, <1>7
  <2>2. ASSUME NEW i \in 1 .. n, upto[i - 1] \in Seq(S) PROVE upto[i] = G[i][upto[i - 1]]
    <3>1. i \in 0 .. n /\ i # 0
      OBVIOUS
    <3>2. upto[i] = IF i \in keep THEN Append(upto[i - 1], list[i]) ELSE upto[i - 1]
      BY <1>7, <3>1, Zenon
    <3> QED
      BY <1>4, <2>2, <3>2, Zenon
  <2> QED
    BY <2>1, <2>2
<1>9. \A i \in 0 .. n : upto[i] = f[i]
  BY <1>2, <1>5, <1>8, OneSolution
<1>10. f \in [0 .. n -> Seq(S)] /\ f[0] = << >>
  BY <1>5 DEF Solves
<1>11. ASSUME NEW i \in 1 .. n
       PROVE  f[i] = IF i \in keep THEN Append(f[i - 1], list[i]) ELSE f[i - 1]
  <2>1. i \in 0 .. n /\ i # 0
    OBVIOUS
  <2> QED
    BY <1>6, <2>1, Zenon
<1>12. n \in 0 .. n
  BY <1>2
<1> QED
  BY <1>1, <1>9, <1>10, <1>11, <1>12 DEF n, Scanning

LEMMA Scanned ==
    ASSUME NEW S, NEW list \in Seq(S), NEW keep
    PROVE  scandir(list, keep) \in Seq(S)
<1>1. Len(list) \in 0 .. Len(list)
  OBVIOUS
<1> QED
  BY <1>1, ScanSteps DEF Scanning

LEMMA ScannedOnce ==
    ASSUME NEW S, NEW list \in Seq(S), NEW keep
    PROVE  \E g : IsScan(scandir(list, keep), g, list, Len(list), keep)
<1>1. PICK f : Scanning(f, S, Len(list), list, keep) /\ scandir(list, keep) = f[Len(list)]
  BY ScanSteps
<1>2. \E g : IsScan(f[Len(list)], g, list, Len(list), keep)
  BY <1>1, KeptOnce
<1> QED
  BY <1>1, <1>2

\* A filter that keeps everything.
LEMMA ScannedWhole ==
    ASSUME NEW S, NEW list \in Seq(S), NEW keep, \A i \in 1 .. Len(list) : i \in keep
    PROVE  scandir(list, keep) = list
<1> DEFINE n == Len(list)
<1>0. PICK f : Scanning(f, S, n, list, keep) /\ scandir(list, keep) = f[n]
  BY ScanSteps
<1>1. /\ f \in [0 .. n -> Seq(S)] /\ f[0] = << >>
      /\ \A i \in 1 .. n : f[i] = IF i \in keep THEN Append(f[i - 1], list[i]) ELSE f[i - 1]
      /\ scandir(list, keep) = f[n]
  BY <1>0 DEF Scanning
<1>2. n \in Nat /\ (\A i \in 1 .. n : list[i] \in S) /\ \A i \in 1 .. n : i \in keep
  OBVIOUS
<1> HIDE DEF n
<1> DEFINE C == {i \in Nat : i > n \/ (Len(f[i]) = i /\ \A k \in 1 .. i : f[i][k] = list[k])}
<1>3. 0 \in C
  BY <1>1
<1>4. ASSUME NEW i \in Nat, i \in C PROVE i + 1 \in C
  <2>1. CASE i + 1 > n
    BY <2>1
  <2>2. CASE i + 1 <= n
    <3>1. i + 1 \in 1 .. n /\ (i + 1) - 1 = i /\ i \in 0 .. n
      BY <1>2, <2>2
    <3>2. f[i] \in Seq(S) /\ list[i + 1] \in S /\ f[i + 1] = Append(f[i], list[i + 1])
      BY <1>1, <1>2, <3>1
    <3>3. Len(f[i]) = i /\ \A k \in 1 .. i : f[i][k] = list[k]
      BY <1>2, <1>4, <2>2
    <3>4. Len(f[i + 1]) = i + 1 /\ f[i + 1][i + 1] = list[i + 1] /\ \A k \in 1 .. i : f[i + 1][k] = f[i][k]
      BY <3>2, <3>3
    <3>5. \A k \in 1 .. i + 1 : f[i + 1][k] = list[k]
      BY <3>3, <3>4
    <3> QED
      BY <3>4, <3>5
  <2> QED
    BY <1>2, <2>1, <2>2
<1>5. n \in C
  <2> HIDE DEF C
  <2> QED
    BY <1>2, <1>3, <1>4, SetInduction
<1>6. Len(f[n]) = n /\ f[n] \in Seq(S) /\ \A k \in 1 .. n : f[n][k] = list[k]
  BY <1>1, <1>2, <1>5
<1>7. f[n] = list
  BY <1>6 DEF n
<1> QED
  BY <1>1, <1>7

\* How long the entries of a path table are.
TableLens(fs) ==
    [k \in 1 .. Len(dirList) |-> 8 + Even(IF k = 1 THEN 1 ELSE len_fi(fs, TableEntry(fs, k).id))]

LEMMA TableSized ==
    ASSUME NEW fs, Len(dirList) \in Nat, \A k \in 2 .. Len(dirList) : len_fi(fs, TableEntry(fs, k).id) \in Nat
    PROVE  /\ \A k \in 1 .. Len(dirList) : TableLens(fs)[k] \in Nat
           /\ \E f : /\ IsSum(f, Len(dirList), 0, TableLens(fs))
                    /\ \A i \in 0 .. Len(dirList) : TableSize(fs, i) = f[i] /\ TableSize(fs, i) \in Nat
<1> DEFINE n == Len(dirList)
           w(k) == IF k = 1 THEN 1 ELSE len_fi(fs, TableEntry(fs, k).id)
           len == [k \in 1 .. n |-> 8 + Even(w(k))]
           size == CHOOSE g : g = [k \in 0 .. n |-> IF k = 0 THEN 0 ELSE g[k - 1] + 8 + Even(w(k))]
<1>1. \A i : TableSize(fs, i) = size[i]
  BY DEF TableSize
<1>0. TableLens(fs) = len
  BY DEF TableLens
<1> HIDE DEF n
<1>2. \A k \in 1 .. n : w(k) \in Nat
  <2>1. \A k \in 1 .. n : k = 1 \/ k \in 2 .. n
    BY DEF n
  <2> QED
    BY <2>1 DEF n
<1> HIDE DEF w
<1>3. \A k \in 1 .. n : Even(w(k)) \in Nat
  BY <1>2 DEF Even
<1>4. n \in Nat /\ \A k \in 1 .. n : len[k] \in Nat /\ len[k] = 8 + Even(w(k))
  BY <1>3 DEF n
<1> HIDE DEF len
<1>5. PICK f : IsSum(f, n, 0, len)
  BY <1>4, SumExists
<1>6. f = [k \in 0 .. n |-> IF k = 0 THEN 0 ELSE f[k - 1] + 8 + Even(w(k))]
  BY <1>3, <1>4, <1>5, SMTT(40) DEF IsSum
<1>7. size = [k \in 0 .. n |-> IF k = 0 THEN 0 ELSE size[k - 1] + 8 + Even(w(k))]
  BY <1>6
<1> HIDE DEF size
<1>8. size[0] = 0 /\ \A i \in 1 .. n : size[i] = size[i - 1] + 8 + Even(w(i))
  BY <1>4, <1>7
<1>9. \A i \in 0 .. n : size[i] = f[i] /\ size[i] \in Nat
  <2>1. ASSUME NEW i \in 1 .. n, size[i - 1] \in Nat PROVE size[i] = size[i - 1] + len[i]
    <3>1. size[i] = size[i - 1] + 8 + Even(w(i)) /\ Even(w(i)) \in Nat /\ len[i] = 8 + Even(w(i))
      BY <1>3, <1>4, <1>8
    <3>2. \A a, b \in Nat : a + 8 + b = a + (8 + b)
      OBVIOUS
    <3> QED
      BY <2>1, <3>1, <3>2, Zenon
  <2>2. n \in Nat /\ 0 \in Nat /\ LikeSum(size, n, 0, len)
    BY <1>4, <1>8, <2>1 DEF LikeSum
  <2> QED
    BY <1>5, <2>2, SumUnique
<1> QED
  BY <1>0, <1>1, <1>4, <1>5, <1>9 DEF n

\* The types of what the builder works with.
TreeFiles == [name : Names, size : Nat, part : {"plain", "first", "other"}]

\* The files of a directory follow those before without a gap.
LEMMA FilesListed ==
    ASSUME NEW d \in Nat, NEW files \in Seq(TreeFiles), filesSizeSectors \in Nat,
           \A i \in 1 .. Len(files) : IsPath(<<d, files[i].name>>)
    PROVE  LET list == FileList(d, files)
           IN  /\ list \in Seq(FileSet) /\ Len(list) = Len(files)
               /\ \A i \in 1 .. Len(files) :
                     /\ list[i].dir = d /\ list[i].name = files[i].name
                     /\ list[i].size = files[i].size /\ list[i].multipart = (files[i].part = "first")
                     /\ list[i].rlba = IF i = 1 THEN filesSizeSectors ELSE Behind(list[i - 1])
<1> DEFINE n == Len(files)
           first == filesSizeSectors
           w(i) == bytesToSectors(files[i].size)
           len == [i \in 1 .. n |-> w(i)]
           ends == CHOOSE g : g = [i \in 0 .. n |-> IF i = 0 THEN first ELSE g[i - 1] + w(i)]
           list == FileList(d, files)
<1>1. list = [i \in 1 .. n |-> [dir |-> d, name |-> files[i].name, size |-> files[i].size,
                               multipart |-> files[i].part = "first", rlba |-> ends[i - 1]]]
  BY DEF FileList
<1>2. n \in Nat /\ first \in Nat /\ \A i \in 1 .. n : files[i] \in TreeFiles /\ files[i].size \in Nat
  <2>1. n \in Nat /\ first \in Nat /\ \A i \in 1 .. n : files[i] \in TreeFiles
    OBVIOUS
  <2>2. \A f \in TreeFiles : f.size \in Nat
    BY DEF TreeFiles
  <2> QED
    BY <2>1, <2>2
<1> HIDE DEF n, first, list
<1>3. \A i \in 1 .. n : w(i) \in Nat
  BY <1>2, Sectors
<1> HIDE DEF w
<1>4. \A i \in 1 .. n : len[i] \in Nat /\ len[i] = w(i)
  BY <1>3
<1> HIDE DEF len
<1>5. PICK f : IsSum(f, n, first, len)
  BY <1>2, <1>4, SumExists
<1>6. f = [i \in 0 .. n |-> IF i = 0 THEN first ELSE f[i - 1] + w(i)]
  BY <1>4, <1>5 DEF IsSum
<1>7. ends = [i \in 0 .. n |-> IF i = 0 THEN first ELSE ends[i - 1] + w(i)]
  BY <1>6
<1> HIDE DEF ends
<1>8. ends[0] = first /\ \A i \in 1 .. n : ends[i] = ends[i - 1] + w(i)
  BY <1>2, <1>7
<1>9. \A i \in 0 .. n : ends[i] \in Nat
  <2>1. LikeSum(ends, n, first, len)
    BY <1>4, <1>8 DEF LikeSum
  <2> QED
    BY <1>2, <1>5, <2>1, SumUnique
<1>10. ASSUME NEW i \in 1 .. n
       PROVE  /\ list[i] \in FileSet /\ list[i].dir = d /\ list[i].name = files[i].name
              /\ list[i].size = files[i].size /\ list[i].rlba = ends[i - 1]
              /\ list[i].multipart = (files[i].part = "first")
  <2>1. files[i] \in TreeFiles /\ i - 1 \in 0 .. n /\ ends[i - 1] \in Nat
    BY <1>2, <1>9
  <2>2. IsPath(<<d, files[i].name>>)
    BY DEF n
  <2>3. list[i] = [dir |-> d, name |-> files[i].name, size |-> files[i].size,
                   multipart |-> files[i].part = "first", rlba |-> ends[i - 1]]
    BY <1>1
  <2>4. Path(list[i]) = <<d, files[i].name>>
    BY <2>3 DEF Path
  <2>5. list[i].multipart = (files[i].part = "first")
    <3> DEFINE m == files[i].part = "first"
    <3>1. list[i] = [dir |-> d, name |-> files[i].name, size |-> files[i].size,
                     multipart |-> m, rlba |-> ends[i - 1]]
      BY <2>3
    <3> HIDE DEF m
    <3>2. list[i].multipart = m
      BY <3>1
    <3> QED
      BY <3>2 DEF m
  <2>6. /\ list[i] \in FileSet /\ list[i].dir = d /\ list[i].name = files[i].name
        /\ list[i].size = files[i].size /\ list[i].rlba = ends[i - 1]
    BY <2>1, <2>2, <2>3, <2>4 DEF TreeFiles, FileSet
  <2> QED
    BY <2>5, <2>6, Zenon
<1>11. list \in Seq(FileSet) /\ Len(list) = n
  <2>1. list \in [1 .. n -> FileSet]
    BY <1>1, <1>10
  <2> QED
    BY <1>2, <2>1
<1>12. ASSUME NEW i \in 1 .. n
       PROVE  list[i].rlba = IF i = 1 THEN first ELSE Behind(list[i - 1])
  <2>1. CASE i = 1
    BY <1>8, <1>10, <2>1
  <2>2. CASE i # 1
    <3>1. i - 1 \in 1 .. n
      BY <1>2, <2>2
    <3>2. list[i].rlba = ends[i - 1] /\ ends[i - 1] = ends[i - 1 - 1] + w(i - 1)
      BY <1>8, <1>10, <3>1
    <3>3. list[i - 1].rlba = ends[i - 1 - 1] /\ list[i - 1].size = files[i - 1].size
      BY <1>10, <3>1
    <3> QED
      BY <2>2, <3>2, <3>3 DEF Behind, w
  <2> QED
    BY <2>1, <2>2
<1> QED
  BY <1>10, <1>11, <1>12 DEF n, first, list

LEMMA Placed ==
    ASSUME NEW records \in Seq(RecSet)
    PROVE  LET placed == PlaceAll(records)
           IN  /\ placed \in Seq(RecSet) /\ Len(placed) = Len(records)
               /\ \A i \in 1 .. Len(records) :
                     /\ SameRecord(placed[i], records[i])
                     /\ placed[i].start = records[i].start /\ placed[i].length = records[i].length
                     /\ placed[i].pos = Place(IF i = 1 THEN 0 ELSE placed[i - 1].pos + placed[i - 1].len,
                                             placed[i].len)
<1> DEFINE n == Len(records)
           l(i) == records[i].len
           G == [i \in 1 .. n |-> [t \in Nat |-> Place(t, l(i)) + l(i)]]
           ends == CHOOSE g : g = [i \in 0 .. n |-> IF i = 0 THEN 0
                                                   ELSE Place(g[i - 1], l(i)) + l(i)]
           placed == PlaceAll(records)
<1>1. placed = [i \in 1 .. n |-> [records[i] EXCEPT !.pos = Place(ends[i - 1], l(i))]]
  BY DEF PlaceAll
<1>2. n \in Nat /\ \A i \in 1 .. n : records[i] \in RecSet /\ l(i) \in Nat
  <2>1. n \in Nat /\ \A i \in 1 .. n : records[i] \in RecSet
    OBVIOUS
  <2>2. \A r \in RecSet : r.len \in Nat
    <3>1. \A r \in RecSet : r.len \in 0 .. 255
      BY DEF RecSet
    <3>2. \A x \in 0 .. 255 : x \in Nat
      OBVIOUS
    <3> QED
      BY <3>1, <3>2
  <2> QED
    BY <2>1, <2>2
<1> HIDE DEF n, l, placed
<1>3. \A t, k \in Nat : Place(t, k) \in Nat
  BY Sectors DEF Place
<1>4. ASSUME NEW i \in 1 .. n, NEW t \in Nat PROVE Place(t, l(i)) + l(i) \in Nat
  <2>1. l(i) \in Nat /\ Place(t, l(i)) \in Nat
    BY <1>2, <1>3
  <2> QED
    BY <2>1
<1>5. IsStep(G, n, Nat) /\ \A i \in 1 .. n : \A t \in Nat : G[i][t] = Place(t, l(i)) + l(i)
  BY <1>4 DEF IsStep
<1> HIDE DEF G
<1>6. PICK f : Solves(f, n, Nat, 0, G)
  BY <1>2, <1>5, Solution
<1>7. f = [i \in 0 .. n |-> IF i = 0 THEN 0 ELSE Place(f[i - 1], l(i)) + l(i)]
  <2>1. f \in [0 .. n -> Nat] /\ f[0] = 0 /\ \A i \in 1 .. n : f[i] = G[i][f[i - 1]]
    BY <1>6 DEF Solves
  <2>2. ASSUME NEW i \in 0 .. n, i # 0 PROVE f[i] = Place(f[i - 1], l(i)) + l(i)
    <3>1. i \in 1 .. n /\ i - 1 \in 0 .. n
      BY <1>2, <2>2
    <3>2. f[i - 1] \in Nat /\ f[i] = G[i][f[i - 1]]
      BY <2>1, <3>1
    <3> QED
      BY <1>5, <3>1, <3>2
  <2> QED
    BY <2>1, <2>2, Zenon
<1>8. ends = [i \in 0 .. n |-> IF i = 0 THEN 0 ELSE Place(ends[i - 1], l(i)) + l(i)]
  BY <1>7
<1> HIDE DEF ends
<1>9. \A i \in 0 .. n : ends[i] \in Nat
  <2>1. ends[0] = 0 /\ \A i \in 1 .. n : ends[i - 1] \in Nat => ends[i] = G[i][ends[i - 1]]
    BY <1>2, <1>5, <1>8
  <2> QED
    BY <1>2, <1>6, <2>1, OneSolution, SMTT(40)
<1>10. ASSUME NEW i \in 1 .. n
       PROVE  /\ placed[i] \in RecSet /\ SameRecord(placed[i], records[i])
              /\ placed[i].start = records[i].start /\ placed[i].length = records[i].length
              /\ placed[i].pos = Place(ends[i - 1], l(i)) /\ placed[i].len = l(i)
  <2>1. records[i] \in RecSet /\ Place(ends[i - 1], l(i)) \in Nat
    <3>1. i - 1 \in 0 .. n /\ l(i) \in Nat /\ records[i] \in RecSet
      BY <1>2
    <3>2. ends[i - 1] \in Nat
      BY <1>9, <3>1
    <3> QED
      BY <1>3, <3>1, <3>2
  <2>2. placed[i] = [records[i] EXCEPT !.pos = Place(ends[i - 1], l(i))]
    BY <1>1
  <2>3. l(i) = records[i].len
    BY DEF l
  <2>4. ASSUME NEW r \in RecSet, NEW p \in Nat
        PROVE  LET s == [r EXCEPT !.pos = p]
               IN  /\ s \in RecSet /\ s.id = r.id /\ s.flag = r.flag /\ s.len = r.len /\ s.whole = r.whole
                   /\ s.start = r.start /\ s.length = r.length /\ s.pos = p
    BY DEF RecSet
  <2> HIDE DEF l
  <2> DEFINE p == Place(ends[i - 1], l(i))
  <2>5. p \in Nat /\ placed[i] = [records[i] EXCEPT !.pos = p]
    BY <2>1, <2>2
  <2> HIDE DEF p
  <2>6. LET s == [records[i] EXCEPT !.pos = p]
        IN  /\ s \in RecSet /\ s.id = records[i].id /\ s.flag = records[i].flag /\ s.len = records[i].len
            /\ s.whole = records[i].whole
            /\ s.start = records[i].start /\ s.length = records[i].length /\ s.pos = p
    BY <2>1, <2>4, <2>5
  <2>7. /\ placed[i] \in RecSet /\ SameRecord(placed[i], records[i])
        /\ placed[i].start = records[i].start /\ placed[i].length = records[i].length
        /\ placed[i].pos = p /\ placed[i].len = records[i].len
    BY <2>5, <2>6 DEF SameRecord
  <2> QED
    BY <2>3, <2>7 DEF p
<1>11. placed \in [1 .. n -> RecSet]
  BY <1>1, <1>10
<1>12. placed \in Seq(RecSet) /\ Len(placed) = n
  BY <1>2, <1>11
<1>13. ASSUME NEW i \in 1 .. n
       PROVE  placed[i].pos = Place(IF i = 1 THEN 0 ELSE placed[i - 1].pos + placed[i - 1].len, placed[i].len)
  <2>1. ends[i - 1] = IF i = 1 THEN 0 ELSE placed[i - 1].pos + placed[i - 1].len
    <3>1. CASE i = 1
      BY <1>2, <1>8, <3>1
    <3>2. CASE i # 1
      <4>1. i - 1 \in 1 .. n /\ i - 1 \in 0 .. n /\ i - 1 # 0
        BY <1>2, <3>2
      <4>2. ends[i - 1] = Place(ends[i - 1 - 1], l(i - 1)) + l(i - 1)
        BY <1>8, <4>1
      <4> QED
        BY <1>10, <3>2, <4>1, <4>2
    <3> QED
      BY <3>1, <3>2
  <2> QED
    BY <1>10, <2>1
<1> QED
  BY <1>10, <1>12, <1>13 DEF n, placed

-----------------------------------------------------------------------------
(* The records of a directory *)

LEMMA IdsTyped ==
    ASSUME NEW fs \in FS, NEW name \in Names
    PROVE  FileId(fs, name) \in Ids /\ DirId(fs, name) \in Ids
<1>1. name.stem \in Stems /\ name.lower \in BOOLEAN /\ name.len \in Nat
  BY DEF Names, Stems
<1>2. \A n \in Nat : Smaller(name.len, n) \in Nat /\ Smaller(name.len, n) <= n
  BY <1>1 DEF Smaller
<1>3. \A n \in Nat : strncpy_upper(name, n) \in Ids
  BY <1>1, <1>2 DEF strncpy_upper, Ids
<1>4. ASSUME NEW n \in Nat, NEW ver \in Nat PROVE utf8_to_ucs2(name, ver, n) \in Ids
  <2>1. Smaller(ver, n - Smaller(name.len, n)) \in Nat
    BY <1>2 DEF Smaller
  <2> QED
    BY <1>1, <1>2, <2>1 DEF utf8_to_ucs2, Ids
<1>5. MAX_ISONAME - 3 \in Nat /\ MAX_ISONAME \div 2 \in Nat /\ MAX_ISODIR \in Nat /\ MAX_ISODIR \div 2 \in Nat
  BY DEF MAX_ISONAME, MAX_ISODIR
<1>6. [strncpy_upper(name, MAX_ISONAME - 3) EXCEPT !.ver = 2] \in Ids
  BY <1>3, <1>5 DEF Ids
<1> QED
  BY <1>3, <1>4, <1>5, <1>6 DEF FileId, DirId

LEMMA LengthOfId ==
    ASSUME NEW fs, NEW id \in Ids
    PROVE  len_fi(fs, id) \in Nat
  BY DEF len_fi, Ids

LEMMA RecordTyped ==
    ASSUME NEW fs, NEW id \in Ids, NEW flag \in {"dir", "file", "more"},
           NEW start \in Int, NEW length \in Int
    PROVE  Record(fs, id, flag, start, length) \in RecSet
<1> DEFINE n == 39 + len_fi(fs, id)
<1>1. n \in Nat
  BY LengthOfId
<1>2. Even(n) \in Nat /\ Even(n) % 256 \in 0 .. 255
  <2> HIDE DEF n
  <2> QED
    BY <1>1 DEF Even
<1> HIDE DEF n
<1> DEFINE len == IF id \in {Self, Up} THEN 40 ELSE Even(n) % 256
           whole == Even(n) < 256
<1>3. len \in 0 .. 255 /\ whole \in BOOLEAN
  BY <1>2
<1>4. Record(fs, id, flag, start, length) =
          [id |-> id, flag |-> flag, start |-> start, length |-> length, pos |-> 0,
           len |-> len, whole |-> whole]
  BY Zenon DEF Record, n
<1> HIDE DEF len, whole
<1> QED
  BY <1>3, <1>4 DEF RecSet

LEMMA SelfAndUp == Self \in Ids /\ Up \in Ids
<1>1. "." \in Stems /\ ".." \in Stems
  BY Zenon DEF Stems
<1>2. \A stem \in Stems : [stem |-> stem, lower |-> FALSE, len |-> 1, ver |-> 0] \in Ids
  BY DEF Ids
<1> QED
  BY <1>1, <1>2, Zenon DEF Self, Up

LEMMA FileRecordsTyped ==
    ASSUME NEW fs \in FS, NEW f \in FileSet
    PROVE  FileRecords(fs, f) \in Seq(RecSet)
<1> DEFINE m == MULTIEXTENT_PART_SIZE
           parts == IF f.size >= UINT32 THEN (f.size + m - 1) \div m ELSE 1
<1>1. m \in Nat \ {0} /\ UINT32 \in Nat \ {0}
  BY ExtentAssumption, SectorAssumption
<1>2. f.size \in Nat /\ f.rlba \in Nat /\ f.name \in Names
  BY DEF FileSet
<1>3. parts \in Nat
  <2>1. f.size + m - 1 \in Nat
    BY <1>1, <1>2
  <2>2. \A x \in Nat : x \div m \in Nat
    BY <1>1
  <2> QED
    BY <2>1, <2>2
<1>4. FileId(fs, f.name) \in Ids
  BY <1>2, IdsTyped
<1>5. FileRecords(fs, f) =
        [i \in 1 .. parts |->
            Record(fs, FileId(fs, f.name), IF i < parts THEN "more" ELSE "file",
                   f.rlba + (i - 1) * bytesToSectors(m),
                   IF i < parts THEN m ELSE (f.size - (((i - 1) * m) % UINT32)) % UINT32)]
  BY DEF FileRecords, Extents
<1> HIDE DEF parts, m
<1>6. ASSUME NEW i \in 1 .. parts
      PROVE  /\ f.rlba + (i - 1) * bytesToSectors(m) \in Int
             /\ (f.size - (((i - 1) * m) % UINT32)) % UINT32 \in Int
  <2>1. i - 1 \in Nat /\ bytesToSectors(m) \in Nat
    BY <1>1, <1>3, Sectors
  <2>2. (i - 1) * bytesToSectors(m) \in Nat /\ (i - 1) * m \in Nat
    BY <1>1, <2>1
  <2>3. \A x \in Int : x % UINT32 \in Int
    BY <1>1
  <2>4. f.rlba + (i - 1) * bytesToSectors(m) \in Int
    BY <1>2, <2>2
  <2>5. f.size - (((i - 1) * m) % UINT32) \in Int
    BY <1>2, <2>2, <2>3
  <2> QED
    BY <2>3, <2>4, <2>5
<1>7. ASSUME NEW i \in 1 .. parts
      PROVE  Record(fs, FileId(fs, f.name), IF i < parts THEN "more" ELSE "file",
                    f.rlba + (i - 1) * bytesToSectors(m),
                    IF i < parts THEN m ELSE (f.size - (((i - 1) * m) % UINT32)) % UINT32) \in RecSet
  <2>1. (IF i < parts THEN "more" ELSE "file") \in {"dir", "file", "more"}
    OBVIOUS
  <2>2. (IF i < parts THEN m ELSE (f.size - (((i - 1) * m) % UINT32)) % UINT32) \in Int
    BY <1>1, <1>6
  <2> QED
    BY <1>4, <1>6, <2>1, <2>2, RecordTyped
<1>8. FileRecords(fs, f) \in [1 .. parts -> RecSet]
  BY <1>5, <1>7
<1> QED
  BY <1>3, <1>8

-----------------------------------------------------------------------------
(* What holds while an image is built *)

LEMMA TreeTyped ==
    ASSUME tree \in Trees
    PROVE  /\ Len(tree.dirs) \in Nat \ {0}
           /\ \A d \in 1 .. Len(tree.dirs) :
                 /\ tree.dirs[d].name \in Names /\ tree.files[d] \in Seq(TreeFiles)
                 /\ \A i \in 1 .. Len(tree.files[d]) : IsPath(<<d, tree.files[d][i].name>>)
<1>1. /\ tree.dirs \in Seq([name : Names, up : Nat]) /\ tree.dirs # << >>
      /\ tree.files \in [1 .. Len(tree.dirs) -> Seq(TreeFiles)]
  BY TreesAssumption DEF TreeFiles
<1>2. \A d \in 1 .. Len(tree.dirs) : \A i \in 1 .. Len(tree.files[d]) : IsPath(<<d, tree.files[d][i].name>>)
  BY PathAssumption DEF IsPath
<1>3. Len(tree.dirs) \in Nat \ {0}
  BY <1>1
<1>4. ASSUME NEW d \in 1 .. Len(tree.dirs) PROVE tree.dirs[d].name \in Names
  <2>1. tree.dirs[d] \in [name : Names, up : Nat]
    <3> DEFINE D == [name : Names, up : Nat]
    <3>1. tree.dirs \in Seq(D)
      BY <1>1
    <3> HIDE DEF D
    <3>2. tree.dirs[d] \in D
      BY <3>1
    <3> QED
      BY <3>2 DEF D
  <2> QED
    BY <2>1
<1> QED
  BY <1>1, <1>2, <1>3, <1>4

LEMMA DirTyped ==
    ASSUME Linked
    PROVE  /\ Len(dirList) \in Nat
           /\ \A k \in 1 .. Len(dirList) :
                 /\ dirList[k] \in DirSet /\ dirList[k].files \in Seq(FileSet)
                 /\ dirList[k].children \in Seq(Nat) /\ Len(dirList[k].children) \in Nat
                 /\ dirList[k].content \in [FS -> Seq(RecSet)] /\ dirList[k].size \in [FS -> Nat]
<1>1. Len(dirList) \in Nat /\ \A k \in 1 .. Len(dirList) : dirList[k] \in DirSet
  BY DEF Linked
<1>2. \A d \in DirSet : /\ d.files \in Seq(FileSet) /\ d.children \in Seq(Nat)
                        /\ d.content \in [FS -> Seq(RecSet)] /\ d.size \in [FS -> Nat]
  BY DEF DirSet
<1>3. \A t \in Seq(Nat) : Len(t) \in Nat
  OBVIOUS
<1> QED
  BY <1>1, <1>2, <1>3

LEMMA FilesTyped ==
    ASSUME Linked
    PROVE  Files \in Seq(FileSet) /\ Len(Files) \in Nat /\ \A i \in 1 .. Len(Files) : Files[i] \in FileSet
<1> DEFINE n == Len(dirList)
           ss == [d \in 1 .. n |-> dirList[d].files]
<1>1. n \in Nat /\ ss \in [1 .. n -> Seq(FileSet)]
  BY DirTyped
<1>2. Files = FlattenSeq(ss)
  BY DEF Files
<1> HIDE DEF n, ss
<1>3. PICK f \in [0 .. n -> Seq(FileSet)] :
          /\ f[0] = << >> /\ \A i \in 1 .. n : f[i] = f[i - 1] \o ss[i]
          /\ FlattenSeq(ss) = f[n]
  BY <1>1, Flattened
<1>4. Files \in Seq(FileSet)
  BY <1>1, <1>2, <1>3
<1> QED
  BY <1>4

\* The records of a directory itself and of its parent.
SelfRecord(fs) == Record(fs, Self, "dir", dirsSizeSectors[fs], 0)
UpRecord(fs) ==
    LET up == dirList[dirList[cur].parent].content[fs]
    IN  IF dirList[cur].parent = cur THEN Record(fs, Up, "dir", dirsSizeSectors[fs], 0)
                                     ELSE Record(fs, Up, "dir", up[1].start, up[1].length)

LEMMA DirRecordsTyped ==
    ASSUME BuildInv, NEW fs \in FS, pc = fs
    PROVE  /\ DirRecords(fs) \in Seq(RecSet) /\ Len(DirRecords(fs)) \in Nat /\ Len(DirRecords(fs)) >= 2
           /\ SelfRecord(fs) \in RecSet /\ UpRecord(fs) \in RecSet
           /\ FileRecs(fs, dirList[cur].files) \in Seq(RecSet)
           /\ ChildRecords(fs, dirList[cur]) \in Seq(RecSet)
<1> DEFINE d == dirList[cur]
           up == dirList[d.parent].content[fs]
           start == dirsSizeSectors[fs]
           r2 == IF d.parent = cur THEN Record(fs, Up, "dir", start, 0)
                 ELSE Record(fs, Up, "dir", up[1].start, up[1].length)
           ff == [i \in 1 .. Len(d.files) |-> FileRecords(fs, d.files[i])]
<1>0. BuildInv /\ pc \in {"dirs", "files", "iso", "joliet"} /\ pc \in FS
  BY DEF FS
<1>1. Linked /\ Counted /\ Loops /\ tree \in Trees
  BY DEF BuildInv
<1>2. cur \in 1 .. Len(dirList) /\ Len(dirList) \in Nat
  BY <1>0, <1>1, DirTyped DEF Loops
<1>3. d \in DirSet /\ d.files \in Seq(FileSet) /\ d.children \in Seq(Nat) /\ d.parent \in 1 .. cur
  BY <1>1, <1>2, DirTyped DEF Linked
<1>4. start \in Int
  BY <1>1 DEF Counted
<1>5. Record(fs, Self, "dir", start, 0) \in RecSet
  BY <1>4, SelfAndUp, RecordTyped
<1>6. r2 \in RecSet
  <2>1. CASE d.parent = cur
    BY <1>4, <2>1, SelfAndUp, RecordTyped
  <2>2. CASE d.parent # cur
    <3>1. d.parent \in 1 .. cur - 1 /\ d.parent \in 1 .. Len(dirList)
      BY <1>2, <1>3, <2>2
    <3>2. up \in Seq(RecSet)
      BY <1>1, <3>1, DirTyped
    <3>3. up # << >>
      BY <1>0, <1>1, <3>1 DEF Loops
    <3> HIDE DEF up
    <3>4. up[1] \in RecSet
      BY <3>2, <3>3
    <3>5. up[1].start \in Int /\ up[1].length \in Int
      BY <3>4 DEF RecSet
    <3> QED
      BY <2>2, <3>5, SelfAndUp, RecordTyped
  <2> QED
    BY <2>1, <2>2
<1>7. Len(d.files) \in Nat /\ ff \in [1 .. Len(d.files) -> Seq(RecSet)]
  <2> HIDE DEF d
  <2>1. Len(d.files) \in Nat /\ \A i \in 1 .. Len(d.files) : d.files[i] \in FileSet
    BY <1>3
  <2>2. \A i \in 1 .. Len(d.files) : FileRecords(fs, d.files[i]) \in Seq(RecSet)
    BY <2>1, FileRecordsTyped
  <2> QED
    BY <2>1, <2>2
<1>8. FlattenSeq(ff) \in Seq(RecSet)
  <2> DEFINE m == Len(d.files)
  <2> HIDE DEF ff, m
  <2>1. m \in Nat /\ ff \in [1 .. m -> Seq(RecSet)]
    BY <1>7 DEF m
  <2>2. PICK f \in [0 .. m -> Seq(RecSet)] :
            /\ f[0] = << >> /\ \A i \in 1 .. m : f[i] = f[i - 1] \o ff[i]
            /\ FlattenSeq(ff) = f[m]
    BY <2>1, Flattened
  <2> QED
    BY <2>1, <2>2
<1>9. ChildRecords(fs, d) \in Seq(RecSet)
  <2> DEFINE m == Len(d.children)
             c(i) == d.children[i]
  <2>1. m \in Nat /\ \A i \in 1 .. m : c(i) \in 1 .. Len(dirList)
    BY <1>1, <1>2, DirTyped DEF Linked
  <2>2. ASSUME NEW i \in 1 .. m
        PROVE  Record(fs, DirId(fs, tree.dirs[dirList[c(i)].src].name), "dir", 0, 0) \in RecSet
    <3>1. dirList[c(i)].src \in 1 .. Len(tree.dirs)
      BY <1>1, <2>1 DEF Linked
    <3>2. tree.dirs[dirList[c(i)].src].name \in Names
      BY <1>1, <3>1, TreeTyped
    <3>3. DirId(fs, tree.dirs[dirList[c(i)].src].name) \in Ids
      BY <3>2, IdsTyped
    <3> DEFINE id == DirId(fs, tree.dirs[dirList[c(i)].src].name)
    <3> HIDE DEF id
    <3>4. id \in Ids /\ "dir" \in {"dir", "file", "more"} /\ 0 \in Int
      BY <3>3 DEF id
    <3>5. Record(fs, id, "dir", 0, 0) \in RecSet
      BY <3>4, RecordTyped
    <3> QED
      BY <3>5 DEF id
  <2>3. ChildRecords(fs, d) = [i \in 1 .. m |-> Record(fs, DirId(fs, tree.dirs[dirList[c(i)].src].name), "dir", 0, 0)]
    BY DEF ChildRecords
  <2> HIDE DEF m
  <2>4. ChildRecords(fs, d) \in [1 .. m -> RecSet]
    BY <2>2, <2>3
  <2> QED
    BY <2>1, <2>4
<1> DEFINE r1 == Record(fs, Self, "dir", start, 0)
           fl == FlattenSeq(ff)
           ch == ChildRecords(fs, d)
           all == <<r1, r2>> \o fl \o ch
<1>10. DirRecords(fs) = PlaceAll(all)
  BY DEF DirRecords
<1>12. /\ SelfRecord(fs) \in RecSet /\ UpRecord(fs) \in RecSet
       /\ FileRecs(fs, d.files) \in Seq(RecSet) /\ ChildRecords(fs, d) \in Seq(RecSet)
  BY <1>5, <1>6, <1>8, <1>9, Zenon DEF SelfRecord, UpRecord, FileRecs
<1> HIDE DEF r1, r2, fl, ch
<1> HIDE DEF d
<1>11. all \in Seq(RecSet) /\ Len(all) \in Nat /\ Len(all) >= 2
  <2>1. r1 \in RecSet /\ r2 \in RecSet /\ fl \in Seq(RecSet) /\ ch \in Seq(RecSet)
    BY <1>5, <1>6, <1>8, <1>9 DEF r1, fl, ch
  <2> QED
    BY <2>1, ConcatThree
<1> HIDE DEF all
<1> QED
  BY <1>10, <1>11, <1>12, Placed DEF d

-----------------------------------------------------------------------------
(* The steps of the builder *)

LEMMA FilesSame ==
    ASSUME Len(dirList') = Len(dirList), \A k \in 1 .. Len(dirList) : dirList'[k].files = dirList[k].files
    PROVE  Files' = Files
<1>1. [d \in 1 .. Len(dirList') |-> dirList'[d].files] = [d \in 1 .. Len(dirList) |-> dirList[d].files]
  OBVIOUS
<1> QED
  BY <1>1, Zenon DEF Files

LEMMA NoFiles ==
    ASSUME NEW list, Len(list) \in Nat, \A k \in 1 .. Len(list) : list[k].files = << >>
    PROVE  FlattenSeq([d \in 1 .. Len(list) |-> list[d].files]) = << >>
<1> DEFINE n == Len(list)
           ss == [d \in 1 .. n |-> list[d].files]
<1>1. n \in Nat /\ ss \in [1 .. n -> Seq(FileSet)] /\ \A k \in 1 .. n : ss[k] = << >>
  <2>1. << >> \in Seq(FileSet)
    OBVIOUS
  <2> QED
    BY <2>1
<1> HIDE DEF n, ss
<1>2. FlattenSeq(ss) = << >>
  BY <1>1, FlattenEmpty
<1> QED
  BY <1>2 DEF n, ss

\* The list is empty before and after.
LEMMA EmptyList ==
    ASSUME dirList = << >>, filesSizeSectors = 0
    PROVE  Linked /\ Packed
<1>1. Len(dirList) = 0 /\ dirList \in Seq(DirSet)
  OBVIOUS
<1>2. Files = << >>
  <2>1. Len(dirList) \in Nat /\ \A k \in 1 .. Len(dirList) : dirList[k].files = << >>
    BY <1>1
  <2> QED
    BY <2>1, NoFiles, Zenon DEF Files
<1> QED
  BY <1>1, <1>2 DEF Linked, Packed

LEMMA BuildInitially ==
    ASSUME BuildInit
    PROVE  BuildInv
<1>1. dirList = << >> /\ filesSizeSectors = 0 /\ pc = "open" /\ tree \in Trees
  BY DEF BuildInit
<1>2. Linked /\ Packed
  BY <1>1, EmptyList
<1>3. Counted /\ Loops /\ Image
  BY <1>1 DEF Counted, Loops, Image, BuildInit, FS
<1> QED
  BY <1>1, <1>2, <1>3 DEF BuildInv

\* Whatever gives up leaves the list as it is.
LEMMA BuildStopped ==
    ASSUME BuildInv, UNCHANGED <<tree, dirList, filesSizeSectors, dirsSizeSectors>>,
           pc' \in {"failed", "hollow", "crashed"}
    PROVE  BuildInv'
<1>1. Files' = Files
  BY FilesSame
<1>2. Linked' /\ Counted' /\ Packed'
  BY <1>1 DEF BuildInv, Linked, Counted, Packed, Behind, bytesToSectors
<1>3. Loops' /\ Image'
  BY DEF Loops, Image, FS
<1> QED
  BY <1>2, <1>3 DEF BuildInv

LEMMA NewDirTyped ==
    ASSUME NEW src \in Nat, NEW parent \in Nat
    PROVE  NewDir(src, parent) \in DirSet
<1>1. << >> \in Seq(Nat) /\ << >> \in Seq(FileSet) /\ [fs \in FS |-> << >>] \in [FS -> Seq(RecSet)]
  <2>1. << >> \in Seq(RecSet)
    OBVIOUS
  <2> QED
    BY <2>1
<1>2. [fs \in FS |-> 0] \in [FS -> Nat]
  OBVIOUS
<1> QED
  BY <1>1, <1>2 DEF NewDir, DirSet

LEMMA OpenKeeps ==
    ASSUME BuildInv, Open
    PROVE  BuildInv'
<1>1. CASE pc' \in {"failed", "hollow"} /\ UNCHANGED dirList
  BY <1>1, BuildStopped DEF Open
<1>2. CASE pc' = "dirs" /\ dirList' = <<NewDir(1, 1)>> /\ cur' = 1
  <2>1. NewDir(1, 1) \in DirSet /\ NewDir(1, 1).src = 1 /\ NewDir(1, 1).parent = 1
        /\ NewDir(1, 1).files = << >> /\ NewDir(1, 1).children = << >>
    BY NewDirTyped DEF NewDir
  <2>2. dirList' \in Seq(DirSet) /\ Len(dirList') = 1 /\ dirList'[1] = NewDir(1, 1)
    BY <1>2, <2>1
  <2>3. tree' = tree /\ tree \in Trees /\ UNCHANGED <<filesSizeSectors, dirsSizeSectors>> /\ pc = "open"
    BY DEF Open, BuildInv
  <2>4. 1 \in 1 .. Len(tree.dirs)
    BY <2>3, TreeTyped
  <2>5. \A k \in 1 .. Len(dirList') : k = 1
    BY <2>2
  <2>6. Len(<< >>) = 0
    OBVIOUS
  <2>7. Linked'
    <3>1. Len(dirList'[1].children) = 0
      BY <2>1, <2>2, <2>6
    <3> QED
      BY <2>1, <2>2, <2>3, <2>4, <2>5, <3>1 DEF Linked
  <2>8. Counted' /\ filesSizeSectors' = 0
    BY <2>3 DEF Counted, Loops, BuildInv
  <2>9. \A k \in 1 .. Len(dirList') : dirList'[k].files = << >>
    BY <2>1, <2>2, <2>5
  <2>10. Files' = << >>
    <3>1. Len(dirList') \in Nat
      BY <2>2
    <3> QED
      BY <2>9, <3>1, NoFiles DEF Files
  <2>11. Packed'
    BY <2>6, <2>8, <2>10 DEF Packed
  <2>12. Loops' /\ Image'
    BY <1>2, <2>2, <2>8, <2>9 DEF Loops, Image, FS
  <2> QED
    BY <2>3, <2>7, <2>8, <2>11, <2>12 DEF BuildInv
<1> QED
  BY <1>1, <1>2 DEF Open, Return, get_title_id, GenerateFails

\* M is the list L with the directories subs at its end, as children of k.
ScannedTo(L, M, k, subs) ==
    /\ k \in 1 .. Len(L) /\ Len(L) \in Nat /\ Len(subs) \in Nat
    /\ M \in Seq(DirSet) /\ Len(M) = Len(L) + Len(subs)
    /\ \A j \in 1 .. Len(L) :
          /\ M[j].src = L[j].src /\ M[j].parent = L[j].parent /\ M[j].files = L[j].files
          /\ j # k => M[j].children = L[j].children
    /\ Len(M[k].children) = Len(subs)
    /\ \A i \in 1 .. Len(subs) :
          /\ M[k].children[i] = Len(L) + i
          /\ M[Len(L) + i].src = subs[i] /\ M[Len(L) + i].parent = k
          /\ M[Len(L) + i].files = << >> /\ M[Len(L) + i].children = << >>

LEMMA DirsScanned ==
    ASSUME tree \in Trees, Linked, Loops, pc = "dirs",
           LET subs == select_directories(dirList[cur].src)
               new == [i \in 1 .. Len(subs) |-> NewDir(subs[i], cur)]
               n == Len(dirList)
           IN  dirList' = [dirList EXCEPT ![cur].children = [i \in 1 .. Len(subs) |-> n + i]] \o new
    PROVE  LET subs == select_directories(dirList[cur].src)
           IN  /\ ScannedTo(dirList, dirList', cur, subs)
               /\ \A i \in 1 .. Len(subs) : subs[i] \in 1 .. Len(tree.dirs)
<1> DEFINE subs == select_directories(dirList[cur].src)
           new == [i \in 1 .. Len(subs) |-> NewDir(subs[i], cur)]
           n == Len(dirList)
           ch == [i \in 1 .. Len(subs) |-> n + i]
           old == [dirList EXCEPT ![cur].children = ch]
<1>0. tree \in Trees /\ Linked /\ Loops /\ pc = "dirs"
  OBVIOUS
<1>12. dirList' = old \o new
  OBVIOUS
<1>1. cur \in 1 .. n /\ n \in Nat /\ dirList[cur] \in DirSet
  BY <1>0, DirTyped DEF Loops
<1>2. subs \in Seq(1 .. Len(tree.dirs)) /\ Len(tree.dirs) \in Nat
  <2> DEFINE m == Len(tree.dirs)
             list == [c \in 1 .. m |-> c]
             keep == {c \in 2 .. m : tree.dirs[c].up = dirList[cur].src}
  <2>1. m \in Nat
    BY <1>0, TreeTyped
  <2>2. subs = scandir(list, keep)
    BY DEF select_directories
  <2> HIDE DEF m, keep
  <2>3. list \in Seq(1 .. m)
    BY <2>1
  <2> HIDE DEF list
  <2>4. scandir(list, keep) \in Seq(1 .. m)
    BY <2>3, Scanned
  <2> QED
    BY <2>1, <2>2, <2>4 DEF m
<1> HIDE DEF subs
<1>3. Len(subs) \in Nat /\ \A i \in 1 .. Len(subs) : subs[i] \in 1 .. Len(tree.dirs)
  BY <1>2
<1>4. \A i \in 1 .. Len(subs) : /\ new[i] \in DirSet /\ new[i].src = subs[i] /\ new[i].parent = cur
                                /\ new[i].files = << >> /\ new[i].children = << >>
  <2>1. ASSUME NEW i \in 1 .. Len(subs)
        PROVE  /\ NewDir(subs[i], cur) \in DirSet /\ NewDir(subs[i], cur).src = subs[i]
               /\ NewDir(subs[i], cur).parent = cur /\ NewDir(subs[i], cur).files = << >>
               /\ NewDir(subs[i], cur).children = << >>
    <3>1. subs[i] \in Nat /\ cur \in Nat
      BY <1>1, <1>2, <1>3
    <3> QED
      BY <3>1, NewDirTyped DEF NewDir
  <2> QED
    BY <2>1
<1>5. new \in Seq(DirSet) /\ Len(new) = Len(subs)
  <2>1. new \in [1 .. Len(subs) -> DirSet]
    BY <1>4
  <2> HIDE DEF new
  <2> QED
    BY <1>3, <2>1
<1>6. ch \in Seq(Nat) /\ Len(ch) = Len(subs) /\ \A i \in 1 .. Len(subs) : ch[i] = n + i
  <2>1. ch \in [1 .. Len(subs) -> Nat] /\ \A i \in 1 .. Len(subs) : ch[i] = n + i
    BY <1>1, <1>3
  <2> HIDE DEF ch
  <2> QED
    BY <1>3, <2>1
<1> HIDE DEF new, ch
<1>7. /\ old \in Seq(DirSet) /\ Len(old) = n
      /\ \A k \in 1 .. n : /\ old[k].src = dirList[k].src /\ old[k].parent = dirList[k].parent
                           /\ old[k].files = dirList[k].files
                           /\ old[k].children = IF k = cur THEN ch ELSE dirList[k].children
  <2>1. dirList \in [1 .. n -> DirSet]
    BY <1>0 DEF Linked
  <2>2. ASSUME NEW k \in 1 .. n
        PROVE  /\ old[k] \in DirSet /\ old[k].src = dirList[k].src /\ old[k].parent = dirList[k].parent
               /\ old[k].files = dirList[k].files
               /\ old[k].children = IF k = cur THEN ch ELSE dirList[k].children
    <3>1. dirList[k] \in DirSet /\ old[k] = IF k = cur THEN [dirList[k] EXCEPT !.children = ch] ELSE dirList[k]
      BY <1>1, <2>1
    <3> HIDE DEF old
    <3>2. CASE k = cur
      <4>1. old[k] = [dirList[k] EXCEPT !.children = ch]
        BY <3>1, <3>2
      <4> QED
        BY <1>6, <3>1, <3>2, <4>1 DEF DirSet
    <3>3. CASE k # cur
      BY <3>1, <3>3
    <3> QED
      BY <3>2, <3>3
  <2>3. old \in [1 .. n -> DirSet]
    BY <2>1, <2>2
  <2> HIDE DEF old
  <2>4. old \in Seq(DirSet) /\ Len(old) = n
    BY <1>1, <2>3
  <2> QED
    BY <2>2, <2>4
<1> DEFINE m == n + Len(subs)
<1>8. /\ dirList' \in Seq(DirSet) /\ Len(dirList') = m /\ m \in Nat
      /\ \A k \in 1 .. m : dirList'[k] = IF k <= n THEN old[k] ELSE new[k - n]
  <2> HIDE DEF old, n
  <2>0. /\ old \o new \in Seq(DirSet) /\ Len(old \o new) = Len(old) + Len(new)
        /\ \A i \in 1 .. Len(old) + Len(new) :
               (old \o new)[i] = IF i <= Len(old) THEN old[i] ELSE new[i - Len(old)]
    <3>1. old \in Seq(DirSet) /\ new \in Seq(DirSet)
      BY <1>5, <1>7
    <3> QED
      BY <3>1, ConcatFacts
  <2>1. old \o new \in Seq(DirSet) /\ Len(old \o new) = m
    BY <1>5, <1>7, <2>0, Zenon
  <2>2. \A k \in 1 .. m : (old \o new)[k] = IF k <= n THEN old[k] ELSE new[k - n]
    BY <1>5, <1>7, <2>0, Zenon
  <2>3. m \in Nat
    BY <1>1, <1>3
  <2> QED
    BY <1>12, <2>1, <2>2, <2>3, Zenon
<1> HIDE DEF old
<1>9. ASSUME NEW i \in 1 .. Len(subs)
      PROVE  /\ dirList'[n + i].src = subs[i] /\ dirList'[n + i].parent = cur
             /\ dirList'[n + i].files = << >> /\ dirList'[n + i].children = << >>
  <2>1. n + i \in 1 .. m /\ ~(n + i <= n) /\ (n + i) - n = i
    BY <1>1, <1>3
  <2>2. dirList'[n + i] = new[i]
    BY <1>8, <2>1
  <2> QED
    BY <1>4, <2>2
<1>10. ASSUME NEW j \in 1 .. n
       PROVE  /\ dirList'[j].src = dirList[j].src /\ dirList'[j].parent = dirList[j].parent
              /\ dirList'[j].files = dirList[j].files
              /\ dirList'[j].children = IF j = cur THEN ch ELSE dirList[j].children
  <2>1. j \in 1 .. m /\ j <= n
    BY <1>1, <1>3
  <2>2. dirList'[j] = old[j]
    BY <1>8, <2>1
  <2> QED
    BY <1>7, <2>2
<1>11. dirList'[cur].children = ch
  BY <1>1, <1>10
<1> QED
  BY <1>1, <1>3, <1>6, <1>8, <1>9, <1>10, <1>11 DEF ScannedTo, subs, n, m

LEMMA ScanDirsKeeps ==
    ASSUME BuildInv, ScanDirs
    PROVE  BuildInv'
<1>0. /\ pc = "dirs" /\ tree' = tree /\ UNCHANGED <<filesSizeSectors, dirsSizeSectors>>
      /\ tree \in Trees /\ Linked /\ Counted /\ Loops
  BY DEF ScanDirs, BuildInv
<1>1. CASE pc' = "failed" /\ UNCHANGED dirList
  BY <1>0, <1>1, BuildStopped
<1> DEFINE subs == select_directories(dirList[cur].src)
           n == Len(dirList)
           m == n + Len(subs)
<1>2. CASE /\ ScannedTo(dirList, dirList', cur, subs) /\ Advance(dirList', "files")
           /\ \A i \in 1 .. Len(subs) : subs[i] \in 1 .. Len(tree.dirs)
  <2> HIDE DEF subs
  <2>1. cur \in 1 .. n /\ n \in Nat /\ Len(subs) \in Nat
    BY <1>2 DEF ScannedTo
  <2>8. dirList' \in Seq(DirSet) /\ Len(dirList') = m /\ m \in Nat
    BY <1>2, <2>1 DEF ScannedTo
  <2>9. ASSUME NEW k \in 1 .. m
        PROVE  /\ dirList'[k].src \in 1 .. Len(tree.dirs) /\ dirList'[k].parent \in 1 .. k
               /\ \A i \in 1 .. Len(dirList'[k].children) : dirList'[k].children[i] \in 1 .. m
               /\ dirList'[k].files = << >>
    <3>1. CASE k <= n
      <4>1. k \in 1 .. n
        BY <2>1, <3>1
      <4>2. dirList'[k].src \in 1 .. Len(tree.dirs) /\ dirList'[k].parent \in 1 .. k /\ dirList'[k].files = << >>
        BY <1>0, <1>2, <4>1 DEF Linked, Loops, ScannedTo
      <4>3. CASE k = cur
        <5>1. Len(dirList'[k].children) = Len(subs) /\ \A i \in 1 .. Len(subs) : dirList'[k].children[i] = n + i
          BY <1>2, <4>3 DEF ScannedTo
        <5>2. \A i \in 1 .. Len(subs) : n + i \in 1 .. m
          BY <2>1
        <5> QED
          BY <4>2, <5>1, <5>2
      <4>4. CASE k # cur
        <5>1. dirList'[k].children = dirList[k].children
          BY <1>2, <4>1, <4>4 DEF ScannedTo
        <5>2. \A i \in 1 .. Len(dirList[k].children) : dirList[k].children[i] \in 1 .. n
          BY <1>0, <4>1 DEF Linked
        <5> QED
          BY <2>1, <4>2, <5>1, <5>2
      <4> QED
        BY <4>3, <4>4
    <3>2. CASE k > n
      <4>1. PICK i \in 1 .. Len(subs) : k = n + i
        <5>1. k - n \in 1 .. Len(subs) /\ k = n + (k - n)
          BY <2>1, <2>8, <3>2
        <5> QED
          BY <5>1
      <4>2. Len(<< >>) = 0
        OBVIOUS
      <4>3. /\ dirList'[k].src = subs[i] /\ dirList'[k].parent = cur
            /\ dirList'[k].files = << >> /\ dirList'[k].children = << >>
        BY <1>2, <4>1 DEF ScannedTo
      <4>4. Len(dirList'[k].children) = 0 /\ dirList'[k].src \in 1 .. Len(tree.dirs)
        BY <1>2, <4>1, <4>2, <4>3
      <4> QED
        BY <2>1, <3>2, <4>3, <4>4
    <3> QED
      BY <2>1, <2>8, <3>1, <3>2
  <2>10. Linked'
    BY <1>0, <2>8, <2>9 DEF Linked
  <2>11. Files' = << >>
    <3>1. Len(dirList') \in Nat /\ \A k \in 1 .. Len(dirList') : dirList'[k].files = << >>
      BY <2>8, <2>9
    <3> QED
      BY <3>1, NoFiles DEF Files
  <2>12. Packed' /\ Counted' /\ filesSizeSectors' = 0
    <3>1. Len(<< >>) = 0
      OBVIOUS
    <3> QED
      BY <1>0, <2>11, <3>1 DEF Packed, Counted, Loops
  <2>13. Loops' /\ Image'
    <3>1. \/ pc' = "dirs" /\ cur' = cur + 1 /\ cur < m
          \/ pc' = "files" /\ cur' = 1
      BY <1>0, <1>2, <2>8 DEF Advance
    <3> QED
      BY <2>1, <2>8, <2>9, <2>12, <3>1 DEF Loops, Image, FS
  <2> QED
    BY <1>0, <2>10, <2>12, <2>13 DEF BuildInv
<1> QED
  BY <1>0, <1>1, <1>2, DirsScanned DEF ScanDirs, Return

\* The files of a directory that scandir() has found, in a list.
LEMMA ListTyped ==
    ASSUME tree \in Trees, filesSizeSectors \in Nat, NEW d \in 1 .. Len(tree.dirs)
    PROVE  LET list == FileList(d, Listed(select_files(d)))
           IN  /\ list \in Seq(FileSet) /\ Len(list) \in Nat
               /\ \A i \in 1 .. Len(list) :
                     /\ list[i] \in FileSet
                     /\ list[i].rlba = IF i = 1 THEN filesSizeSectors ELSE Behind(list[i - 1])
               /\ SameFiles(list, Listed(tree.files[d]))
<1> DEFINE files == select_files(d)
           S == {files[i] : i \in 1 .. Len(files)}
           keep == {i \in 1 .. Len(files) : files[i].part # "other"}
           fs == Listed(files)
           list == FileList(d, fs)
<1>1. files \in Seq(TreeFiles) /\ \A i \in 1 .. Len(files) : IsPath(<<d, files[i].name>>)
  BY TreeTyped DEF select_files
<1>2. fs = scandir(files, keep)
  BY DEF Listed
<1> HIDE DEF files, keep, fs
<1>3. files \in Seq(S)
  <2>1. files \in [1 .. Len(files) -> S] /\ Len(files) \in Nat
    BY <1>1
  <2> HIDE DEF S
  <2> QED
    BY <2>1
<1>4. \A f \in S : f \in TreeFiles /\ IsPath(<<d, f.name>>)
  <2>1. \A i \in 1 .. Len(files) : files[i] \in TreeFiles
    BY <1>1
  <2> QED
    BY <1>1, <2>1
<1> HIDE DEF S
<1>5. fs \in Seq(S)
  BY <1>2, <1>3, Scanned
<1>6. \A i \in 1 .. Len(fs) : fs[i] \in TreeFiles /\ IsPath(<<d, fs[i].name>>)
  BY <1>4, <1>5
<1>7. fs \in Seq(TreeFiles)
  <2>1. Len(fs) \in Nat /\ fs \in [1 .. Len(fs) -> S]
    BY <1>5
  <2>2. S \subseteq TreeFiles
    BY <1>4
  <2>3. fs \in [1 .. Len(fs) -> TreeFiles]
    BY <2>1, <2>2
  <2> QED
    BY <2>1, <2>3
<1>8. d \in Nat
  BY TreeTyped
<1>9. /\ list \in Seq(FileSet) /\ Len(list) = Len(fs)
      /\ \A i \in 1 .. Len(fs) : list[i].rlba = IF i = 1 THEN filesSizeSectors ELSE Behind(list[i - 1])
      /\ SameFiles(list, fs)
  <2>1. \A i \in 1 .. Len(fs) : IsPath(<<d, fs[i].name>>)
    BY <1>6
  <2>2. /\ list \in Seq(FileSet) /\ Len(list) = Len(fs)
        /\ \A i \in 1 .. Len(fs) :
              /\ list[i].dir = d /\ list[i].name = fs[i].name
              /\ list[i].size = fs[i].size /\ list[i].multipart = (fs[i].part = "first")
              /\ list[i].rlba = IF i = 1 THEN filesSizeSectors ELSE Behind(list[i - 1])
    BY <1>7, <1>8, <2>1, FilesListed, SMTT(20)
  <2> HIDE DEF list
  <2> QED
    BY <2>2 DEF SameFiles
<1> HIDE DEF list
<1>10. Len(list) \in Nat /\ \A i \in 1 .. Len(list) : list[i] \in FileSet
  BY <1>9
<1> QED
  BY <1>9, <1>10 DEF list, fs, files, select_files

LEMMA ScanFilesKeeps ==
    ASSUME BuildInv, ScanFiles
    PROVE  BuildInv'
<1> DEFINE d == dirList[cur].src
           list == FileList(d, Listed(select_files(d)))
           n == Len(dirList)
<1>0. /\ pc = "files" /\ tree' = tree /\ UNCHANGED dirsSizeSectors
      /\ tree \in Trees /\ Linked /\ Counted /\ Loops /\ Packed
  BY DEF ScanFiles, BuildInv
<1>1. cur \in 1 .. n /\ n \in Nat /\ dirList[cur] \in DirSet /\ d \in 1 .. Len(tree.dirs)
  BY <1>0, DirTyped DEF Loops, Linked
<1>2. \A k \in cur .. n : dirList[k].files = << >>
  BY <1>0 DEF Loops
<1>3. CASE UNCHANGED <<dirList, filesSizeSectors>> /\ pc' \in {"failed", "crashed"}
  BY <1>0, <1>3, BuildStopped
<1>4. ASSUME Advance(dirList, "iso"), Len(dirList') = n, Linked', \A k \in cur + 1 .. n : dirList'[k].files = << >>
      PROVE  Loops' /\ Image'
  <2>1. \/ pc' = "files" /\ cur' = cur + 1 /\ cur < n
        \/ pc' = "iso" /\ cur' = 1
    BY <1>0, <1>4 DEF Advance
  <2> HIDE DEF n
  <2> QED
    BY <1>1, <1>4, <2>1 DEF Loops, Image, FS
<1>5. CASE UNCHANGED <<dirList, filesSizeSectors>> /\ Advance(dirList, "iso")
  <2>1. Files' = Files
    BY <1>5, FilesSame
  <2>2. Linked' /\ Counted' /\ Packed'
    BY <1>0, <1>5, <2>1 DEF Linked, Counted, Packed, Behind, bytesToSectors
  <2>3. Loops' /\ Image'
    BY <1>1, <1>2, <1>4, <1>5, <2>2
  <2> QED
    BY <1>0, <2>2, <2>3 DEF BuildInv
<1>6. CASE /\ dirList' = [dirList EXCEPT ![cur].files = list]
           /\ filesSizeSectors' = IF list = << >> THEN filesSizeSectors
                                  ELSE Last(list).rlba + bytesToSectors(Last(list).size)
           /\ Advance(dirList, "iso")
  <2>1. /\ list \in Seq(FileSet) /\ Len(list) \in Nat
        /\ \A i \in 1 .. Len(list) :
              /\ list[i] \in FileSet
              /\ list[i].rlba = IF i = 1 THEN filesSizeSectors ELSE Behind(list[i - 1])
    BY <1>0, <1>1, ListTyped DEF Counted
  <2> HIDE DEF list
  <2>2. /\ dirList' \in [1 .. n -> DirSet]
        /\ \A k \in 1 .. n : /\ dirList'[k].src = dirList[k].src /\ dirList'[k].parent = dirList[k].parent
                             /\ dirList'[k].children = dirList[k].children
                             /\ dirList'[k].files = IF k = cur THEN list ELSE dirList[k].files
    <3>1. dirList \in [1 .. n -> DirSet]
      BY <1>0 DEF Linked
    <3>2. ASSUME NEW k \in 1 .. n
          PROVE  /\ dirList'[k] \in DirSet
                 /\ dirList'[k].src = dirList[k].src /\ dirList'[k].parent = dirList[k].parent
                 /\ dirList'[k].children = dirList[k].children
                 /\ dirList'[k].files = IF k = cur THEN list ELSE dirList[k].files
      <4>1. dirList[k] \in DirSet
        BY <3>1
      <4>2. CASE k = cur
        <5>1. dirList'[k] = [dirList[k] EXCEPT !.files = list]
          BY <1>1, <1>6, <3>1, <4>2
        <5> QED
          BY <2>1, <4>1, <4>2, <5>1 DEF DirSet
      <4>3. CASE k # cur
        <5>1. dirList'[k] = dirList[k]
          BY <1>1, <1>6, <3>1, <4>3
        <5> QED
          BY <4>1, <4>3, <5>1
      <4> QED
        BY <4>2, <4>3
    <3>3. dirList' \in [1 .. n -> DirSet]
      BY <1>6, <3>1, <3>2
    <3> QED
      BY <3>2, <3>3
  <2>3. dirList' \in Seq(DirSet) /\ Len(dirList') = n
    BY <1>1, <2>2
  <2>4. Linked'
    <3> HIDE DEF n
    <3>1. ASSUME NEW k \in 1 .. n
          PROVE  /\ dirList'[k].src \in 1 .. Len(tree.dirs) /\ dirList'[k].parent \in 1 .. k
                 /\ \A i \in 1 .. Len(dirList'[k].children) : dirList'[k].children[i] \in 1 .. n
      BY <1>0, <2>2 DEF Linked, n
    <3> QED
      BY <1>0, <2>3, <3>1 DEF Linked
  <2>5. IsConcat(Files', Files, list, FileSet)
    <3> DEFINE ss == [k \in 1 .. n |-> dirList[k].files]
    <3>1. ss \in [1 .. n -> Seq(FileSet)]
      BY <1>0, DirTyped
    <3>2. \A k \in cur .. n : ss[k] = << >>
      BY <1>1, <1>2
    <3>3. Files = FlattenSeq(ss)
      BY DEF Files
    <3> DEFINE tt == [k \in 1 .. n |-> dirList'[k].files]
    <3>4. tt \in [1 .. n -> Seq(FileSet)] /\ \A k \in 1 .. n : tt[k] = IF k = cur THEN list ELSE ss[k]
      BY <2>1, <2>2, <3>1
    <3>5. Files' = FlattenSeq(tt)
      BY <2>3, Zenon DEF Files
    <3> HIDE DEF ss, tt, n
    <3>6. n \in Nat /\ cur \in 1 .. n /\ list \in Seq(FileSet)
      BY <1>1, <2>1
    <3>7. IsConcat(FlattenSeq(tt), FlattenSeq(ss), list, FileSet)
      BY <3>1, <3>2, <3>4, <3>6, FlattenAppends
    <3> QED
      BY <3>3, <3>5, <3>7, Zenon
  <2>6. filesSizeSectors' = IF list = << >> THEN filesSizeSectors ELSE Behind(list[Len(list)])
    BY <1>6 DEF Behind, Last
  <2>7. Packed' /\ Counted'
    <3>1. Files \in Seq(FileSet) /\ Len(Files) \in Nat
      BY <1>0, FilesTyped
    <3> DEFINE m == Len(Files)
               l == Len(list)
    <3>2. /\ Len(Files') = m + l
          /\ \A i \in 1 .. m + l : Files'[i] = IF i <= m THEN Files[i] ELSE list[i - m]
      BY <2>5, Zenon DEF IsConcat
    <3>3. Files = << >> <=> m = 0
      BY <3>1
    <3>4. list = << >> <=> l = 0
      BY <2>1
    <3>5. Files' = << >> <=> m + l = 0
      BY <2>5, <3>2 DEF IsConcat
    <3>6. m \in Nat /\ l \in Nat
      BY <2>1, <3>1
    <3>7. filesSizeSectors = IF m = 0 THEN 0 ELSE Behind(Files[m])
      BY <1>0, <3>3 DEF Packed
    <3>8. filesSizeSectors' = IF l = 0 THEN filesSizeSectors ELSE Behind(list[l])
      BY <2>6, <3>4
    <3>9. /\ \A i \in 1 .. m : Files[i].rlba = IF i = 1 THEN 0 ELSE Behind(Files[i - 1])
          /\ \A i \in 1 .. l : list[i].rlba = IF i = 1 THEN filesSizeSectors ELSE Behind(list[i - 1])
      BY <1>0, <2>1 DEF Packed
    <3> HIDE DEF m, l
    <3>10. ASSUME NEW i \in 1 .. m + l
           PROVE  Files'[i].rlba = IF i = 1 THEN 0 ELSE Behind(Files'[i - 1])
      <4>1. CASE i <= m
        <5>1. i \in 1 .. m /\ Files'[i] = Files[i]
          BY <3>2, <3>6, <4>1
        <5>2. i # 1 => Files'[i - 1] = Files[i - 1]
          BY <3>2, <3>6, <4>1
        <5> QED
          BY <3>9, <5>1, <5>2
      <4>2. CASE i = m + 1
        <5>1. 1 \in 1 .. l /\ Files'[i] = list[1] /\ list[1].rlba = filesSizeSectors
          BY <3>2, <3>6, <3>9, <4>2
        <5>2. m # 0 => i # 1 /\ i - 1 = m /\ m \in 1 .. m + l /\ Files'[i - 1] = Files[m]
          BY <3>2, <3>6, <4>2
        <5>3. m = 0 => i = 1
          BY <4>2
        <5> QED
          BY <3>7, <5>1, <5>2, <5>3
      <4>3. CASE i > m + 1
        <5>1. /\ i - m \in 1 .. l /\ i - m # 1 /\ i # 1 /\ (i - 1) - m = (i - m) - 1
              /\ i - 1 \in 1 .. m + l /\ ~(i <= m) /\ ~(i - 1 <= m)
          BY <3>6, <4>3
        <5>2. Files'[i] = list[i - m] /\ Files'[i - 1] = list[(i - m) - 1]
          BY <3>2, <5>1
        <5>3. list[i - m].rlba = Behind(list[(i - m) - 1])
          BY <3>9, <5>1
        <5> QED
          BY <5>1, <5>2, <5>3
      <4> QED
        BY <3>6, <4>1, <4>2, <4>3
    <3>11. filesSizeSectors' = IF Files' = << >> THEN 0 ELSE Behind(Files'[m + l])
      <4>1. CASE l = 0
        <5>1. m # 0 => m + l = m /\ Files'[m + l] = Files[m]
          BY <3>2, <3>6, <4>1
        <5> QED
          BY <3>5, <3>6, <3>7, <3>8, <4>1, <5>1
      <4>2. CASE l # 0
        <5>1. Files'[m + l] = list[l] /\ m + l # 0
          BY <3>2, <3>6, <4>2
        <5> QED
          BY <3>5, <3>8, <4>2, <5>1
      <4> QED
        BY <4>1, <4>2
    <3>12. Packed'
      <4>1. Len(Files') = m + l
        BY <3>2
      <4>2. \A f : Behind(f)' = Behind(f')
        BY DEF Behind, bytesToSectors
      <4> QED
        BY <3>10, <3>11, <4>1 DEF Packed, Behind, bytesToSectors
    <3>13. Counted'
      <4>1. l # 0 => list[l] \in FileSet
        BY <2>1, <3>6 DEF l
      <4>2. \A f \in FileSet : Behind(f) \in Nat
        BY Sectors DEF Behind, FileSet
      <4> QED
        BY <1>0, <3>8, <4>1, <4>2 DEF Counted
    <3> QED
      BY <3>12, <3>13
  <2>8. \A k \in cur + 1 .. n : dirList'[k].files = << >>
    BY <1>1, <1>2, <2>2
  <2>9. Loops' /\ Image'
    BY <1>4, <1>6, <2>3, <2>4, <2>8
  <2> QED
    BY <1>0, <2>4, <2>7, <2>9 DEF BuildInv
<1> QED
  BY <1>3, <1>5, <1>6 DEF ScanFiles, Return

\* M is the list L with other records c, and another size z, of the file system
\* fs in the directory k.
Edited(L, M, n, k, fs, c, z) ==
    /\ L \in [1 .. n -> DirSet] /\ M \in [1 .. n -> DirSet]
    /\ \A j \in 1 .. n :
          /\ M[j].src = L[j].src /\ M[j].parent = L[j].parent
          /\ M[j].children = L[j].children /\ M[j].files = L[j].files
          /\ \A g \in FS :
                /\ M[j].content[g] = IF j = k /\ g = fs THEN c ELSE L[j].content[g]
                /\ M[j].size[g] = IF j = k /\ g = fs THEN z ELSE L[j].size[g]

LEMMA ContentReplaced ==
    ASSUME NEW n \in Nat, NEW L \in [1 .. n -> DirSet], NEW k \in 1 .. n, NEW fs \in FS,
           NEW c \in Seq(RecSet)
    PROVE  Edited(L, [L EXCEPT ![k].content[fs] = c], n, k, fs, c, L[k].size[fs])
<1> DEFINE d == L[k]
           con == [d.content EXCEPT ![fs] = c]
           e == [d EXCEPT !.content = con]
           M == [L EXCEPT ![k].content[fs] = c]
<1>1. d \in DirSet /\ d.content \in [FS -> Seq(RecSet)]
  <2>1. d \in DirSet
    OBVIOUS
  <2> HIDE DEF d
  <2> QED
    BY <2>1 DEF DirSet
<1>2. con \in [FS -> Seq(RecSet)] /\ \A g \in FS : con[g] = IF g = fs THEN c ELSE d.content[g]
  <2> HIDE DEF d
  <2> QED
    BY <1>1
<1>3. M = [L EXCEPT ![k] = e]
  OBVIOUS
<1> HIDE DEF con, M
<1>4. /\ e \in DirSet /\ e.src = d.src /\ e.parent = d.parent /\ e.children = d.children
      /\ e.files = d.files /\ e.content = con /\ e.size = d.size
  <2> HIDE DEF d
  <2> QED
    BY <1>1, <1>2 DEF DirSet
<1> HIDE DEF e
<1>5. M \in [1 .. n -> DirSet] /\ \A i \in 1 .. n : M[i] = IF i = k THEN e ELSE L[i]
  BY <1>3, <1>4
<1>6. Edited(L, M, n, k, fs, c, L[k].size[fs])
  BY <1>2, <1>4, <1>5 DEF Edited
<1> QED
  BY <1>6 DEF M

LEMMA SizeReplaced ==
    ASSUME NEW n \in Nat, NEW L \in [1 .. n -> DirSet], NEW k \in 1 .. n, NEW fs \in FS, NEW z \in Nat
    PROVE  Edited(L, [L EXCEPT ![k].size[fs] = z], n, k, fs, L[k].content[fs], z)
<1> DEFINE d == L[k]
           sz == [d.size EXCEPT ![fs] = z]
           e == [d EXCEPT !.size = sz]
           M == [L EXCEPT ![k].size[fs] = z]
<1>1. d \in DirSet /\ d.size \in [FS -> Nat]
  <2>1. d \in DirSet
    OBVIOUS
  <2> HIDE DEF d
  <2> QED
    BY <2>1 DEF DirSet
<1>2. sz \in [FS -> Nat] /\ \A g \in FS : sz[g] = IF g = fs THEN z ELSE d.size[g]
  <2> HIDE DEF d
  <2> QED
    BY <1>1
<1>3. M = [L EXCEPT ![k] = e]
  OBVIOUS
<1> HIDE DEF sz, M
<1>4. /\ e \in DirSet /\ e.src = d.src /\ e.parent = d.parent /\ e.children = d.children
      /\ e.files = d.files /\ e.content = d.content /\ e.size = sz
  <2> HIDE DEF d
  <2> QED
    BY <1>1, <1>2 DEF DirSet
<1> HIDE DEF e
<1>5. M \in [1 .. n -> DirSet] /\ \A i \in 1 .. n : M[i] = IF i = k THEN e ELSE L[i]
  BY <1>3, <1>4
<1>6. Edited(L, M, n, k, fs, L[k].content[fs], z)
  BY <1>2, <1>4, <1>5 DEF Edited
<1> QED
  BY <1>6 DEF M

\* One record gets another place or another size.
WithStart(s, own, x) == [s EXCEPT ![own].start = x]
WithLength(s, own, z) == [s EXCEPT ![own].length = z]
Relocated(s, own, x, z) == WithLength(WithStart(s, own, x), own, z)

LEMMA RecordChanged ==
    ASSUME NEW s \in Seq(RecSet), NEW own, NEW x \in Int
    PROVE  /\ WithStart(s, own, x) \in Seq(RecSet) /\ WithLength(s, own, x) \in Seq(RecSet)
           /\ Len(WithStart(s, own, x)) = Len(s) /\ Len(WithLength(s, own, x)) = Len(s)
<1> DEFINE n == Len(s)
           a == [s EXCEPT ![own].start = x]
           b == [s EXCEPT ![own].length = x]
<1>1. n \in Nat /\ s \in [1 .. n -> RecSet]
  OBVIOUS
<1> HIDE DEF n
<1>2. \A r \in RecSet : [r EXCEPT !.start = x] \in RecSet /\ [r EXCEPT !.length = x] \in RecSet
  BY DEF RecSet
<1>3. a \in [1 .. n -> RecSet] /\ b \in [1 .. n -> RecSet]
  BY <1>1, <1>2
<1> HIDE DEF a, b
<1>4. a \in Seq(RecSet) /\ b \in Seq(RecSet) /\ Len(a) = n /\ Len(b) = n
  BY <1>1, <1>3
<1> QED
  BY <1>4 DEF a, b, n, WithStart, WithLength

LEMMA RecordRelocated ==
    ASSUME NEW s \in Seq(RecSet), NEW own, NEW x \in Int, NEW z \in Int
    PROVE  Relocated(s, own, x, z) \in Seq(RecSet) /\ Len(Relocated(s, own, x, z)) = Len(s)
<1>1. WithStart(s, own, x) \in Seq(RecSet) /\ Len(WithStart(s, own, x)) = Len(s)
  BY RecordChanged
<1>2. \A t \in Seq(RecSet) : WithLength(t, own, z) \in Seq(RecSet) /\ Len(WithLength(t, own, z)) = Len(t)
  BY RecordChanged
<1> QED
  BY <1>1, <1>2 DEF Relocated

\* M is the list L when the directory k has been built, with records c and size
\* z; its parent p, if it is another one, has the records q now.
DirBuilt(L, M, n, fs, k, c, z, p, q) ==
    /\ L \in [1 .. n -> DirSet] /\ M \in [1 .. n -> DirSet]
    /\ \A j \in 1 .. n :
          /\ M[j].src = L[j].src /\ M[j].parent = L[j].parent
          /\ M[j].children = L[j].children /\ M[j].files = L[j].files
          /\ \A g \in FS :
                /\ M[j].content[g] = IF g # fs THEN L[j].content[g]
                                     ELSE IF j = k THEN c ELSE IF j = p THEN q ELSE L[j].content[g]
                /\ M[j].size[g] = IF g = fs /\ j = k THEN z ELSE L[j].size[g]

LEMMA RootBuilt ==
    ASSUME NEW n \in Nat, NEW L \in [1 .. n -> DirSet], NEW k \in 1 .. n, NEW fs \in FS,
           NEW c \in Seq(RecSet), NEW z \in Nat, NEW q
    PROVE  DirBuilt(L, [L EXCEPT ![k].content[fs] = c, ![k].size[fs] = z], n, fs, k, c, z, k, q)
<1> DEFINE L1 == [L EXCEPT ![k].content[fs] = c]
           M == [L1 EXCEPT ![k].size[fs] = z]
<1>1. Edited(L, L1, n, k, fs, c, L[k].size[fs])
  BY ContentReplaced
<1>2. [L EXCEPT ![k].content[fs] = c, ![k].size[fs] = z] = M
  OBVIOUS
<1> HIDE DEF L1
<1>3. L1 \in [1 .. n -> DirSet]
  BY <1>1 DEF Edited
<1>4. Edited(L1, M, n, k, fs, L1[k].content[fs], z)
  BY <1>3, SizeReplaced
<1> HIDE DEF M
<1>5. DirBuilt(L, M, n, fs, k, c, z, k, q)
  BY <1>1, <1>4 DEF Edited, DirBuilt
<1> QED
  BY <1>2, <1>5

LEMMA ChildBuilt ==
    ASSUME NEW n \in Nat, NEW L \in [1 .. n -> DirSet], NEW k \in 1 .. n, NEW fs \in FS,
           NEW c \in Seq(RecSet), NEW z \in Nat, NEW p \in 1 .. n, p # k, NEW own, NEW x \in Int
    PROVE  DirBuilt(L, [L EXCEPT ![k].content[fs] = c, ![k].size[fs] = z,
                                 ![p].content[fs][own].start = x, ![p].content[fs][own].length = z],
                    n, fs, k, c, z, p, Relocated(L[p].content[fs], own, x, z))
<1> DEFINE L1 == [L EXCEPT ![k].content[fs] = c, ![k].size[fs] = z]
           s == L1[p].content[fs]
           a == WithStart(s, own, x)
           b == WithLength(a, own, z)
           L2 == [L1 EXCEPT ![p].content[fs] = a]
           M == [L1 EXCEPT ![p].content[fs][own].start = x, ![p].content[fs][own].length = z]
<1>1. DirBuilt(L, L1, n, fs, k, c, z, k, << >>)
  BY RootBuilt
<1>2. [L EXCEPT ![k].content[fs] = c, ![k].size[fs] = z,
                ![p].content[fs][own].start = x, ![p].content[fs][own].length = z] = M
  OBVIOUS
<1> HIDE DEF L1
<1>3. L1 \in [1 .. n -> DirSet] /\ s = L[p].content[fs] /\ s \in Seq(RecSet)
  <2>1. L1 \in [1 .. n -> DirSet] /\ s = L[p].content[fs]
    BY <1>1 DEF DirBuilt
  <2>2. \A d \in DirSet : d.content[fs] \in Seq(RecSet)
    BY DEF DirSet
  <2> QED
    BY <2>1, <2>2
<1>4. a \in Seq(RecSet)
  BY <1>3, RecordChanged
<1>5. b \in Seq(RecSet)
  <2> HIDE DEF a
  <2> QED
    BY <1>4, RecordChanged
<1>6. Edited(L1, L2, n, p, fs, a, L1[p].size[fs])
  <2> HIDE DEF a
  <2> QED
    BY <1>3, <1>4, ContentReplaced
<1>7. L2 \in [1 .. n -> DirSet] /\ L2[p].content[fs] = a
  <2> HIDE DEF a, L2
  <2> QED
    BY <1>6 DEF Edited
<1>8. M = [L2 EXCEPT ![p].content[fs][own].length = z]
  BY DEF WithStart
<1>9. [L2 EXCEPT ![p].content[fs][own].length = z] = [L2 EXCEPT ![p].content[fs] = b]
  <2> HIDE DEF L2
  <2>1. [L2 EXCEPT ![p].content[fs][own].length = z]
            = [L2 EXCEPT ![p].content[fs] = [L2[p].content[fs] EXCEPT ![own].length = z]]
    OBVIOUS
  <2> QED
    BY <1>7, <2>1 DEF WithLength
<1> HIDE DEF L2, M
<1>10. Edited(L2, M, n, p, fs, b, L2[p].size[fs])
  <2> HIDE DEF b
  <2>1. Edited(L2, [L2 EXCEPT ![p].content[fs] = b], n, p, fs, b, L2[p].size[fs])
    BY <1>5, <1>7, ContentReplaced
  <2> QED
    BY <1>8, <1>9, <2>1
<1>11. b = Relocated(L[p].content[fs], own, x, z)
  BY <1>3 DEF Relocated
<1> HIDE DEF a, b
<1>12. DirBuilt(L, M, n, fs, k, c, z, p, b)
  BY <1>1, <1>6, <1>10 DEF Edited, DirBuilt
<1> QED
  BY <1>2, <1>11, <1>12

\* M is the list L with other records in its directories, none of them empty
\* that was not.
SameDirs(L, M, n) ==
    /\ L \in [1 .. n -> DirSet] /\ M \in [1 .. n -> DirSet]
    /\ \A k \in 1 .. n :
          /\ M[k].src = L[k].src /\ M[k].parent = L[k].parent
          /\ M[k].children = L[k].children /\ M[k].files = L[k].files
          /\ \A g \in FS : L[k].content[g] # << >> => M[k].content[g] # << >>

LEMMA ListKept ==
    ASSUME Linked, tree' = tree, SameDirs(dirList, dirList', Len(dirList))
    PROVE  Linked' /\ Files' = Files /\ Len(dirList') = Len(dirList)
<1> DEFINE n == Len(dirList)
<1>1. /\ n \in Nat /\ dirList' \in [1 .. n -> DirSet]
      /\ \A k \in 1 .. n : /\ dirList'[k].src = dirList[k].src /\ dirList'[k].parent = dirList[k].parent
                           /\ dirList'[k].children = dirList[k].children
                           /\ dirList'[k].files = dirList[k].files
  BY DirTyped DEF SameDirs
<1>2. dirList' \in Seq(DirSet) /\ Len(dirList') = n
  BY <1>1
<1>3. Files' = Files
  BY <1>1, <1>2, FilesSame
<1>4. ASSUME NEW k \in 1 .. n
      PROVE  /\ dirList'[k].src \in 1 .. Len(tree.dirs) /\ dirList'[k].parent \in 1 .. k
             /\ \A i \in 1 .. Len(dirList'[k].children) : dirList'[k].children[i] \in 1 .. n
  <2> HIDE DEF n
  <2> QED
    BY <1>1 DEF Linked, n
<1>5. Linked'
  <2> HIDE DEF n
  <2> QED
    BY <1>2, <1>4 DEF Linked
<1> QED
  BY <1>2, <1>3, <1>5

\* What buildContent() has written when it does not fail.
NewContent(fs) ==
    LET recs == DirRecords(fs)
        size == RoundUp(Last(recs).pos + Last(recs).len)
    IN  IF dirList[cur].parent = cur THEN [recs EXCEPT ![1].length = size, ![2].length = size]
                                     ELSE [recs EXCEPT ![1].length = size]
NewSize(fs) == RoundUp(Last(DirRecords(fs)).pos + Last(DirRecords(fs)).len)
NewUp(fs) ==
    Relocated(dirList[dirList[cur].parent].content[fs], OwnRecord(fs), DirRecords(fs)[1].start, NewSize(fs))

\* The directory fits in tempBuf and has its record in its parent, and none of
\* its files is in parts.
Builds(fs) ==
    LET recs == DirRecords(fs)
    IN  /\ \A i \in 3 .. Len(recs) : recs[i].pos + recs[i].len < TEMP_BUF_SIZE
        /\ \A i \in 1 .. Len(dirList[cur].files) : ~dirList[cur].files[i].multipart
        /\ dirList[cur].parent = cur \/ OwnRecord(fs) # 0

LEMMA ContentBuilt ==
    ASSUME BuildInv, NEW fs \in FS, BuildContent(fs)
    PROVE  /\ pc = fs /\ UNCHANGED <<tree, filesSizeSectors, pathTable, fsBuf>>
           /\ cur \in 1 .. Len(dirList) /\ Len(dirList) \in Nat /\ dirList[cur].parent \in 1 .. cur
           /\ NewContent(fs) \in Seq(RecSet) /\ Len(NewContent(fs)) = Len(DirRecords(fs))
           /\ NewSize(fs) \in Nat /\ DirRecords(fs)[1].start \in Int
           /\ \/ /\ pc' = "failed" /\ UNCHANGED <<dirList, cur, dirsSizeSectors>>
                 /\ Fault("stat") \/ (NoFault /\ ~Builds(fs))
              \/ /\ DirBuilt(dirList, dirList', Len(dirList), fs, cur, NewContent(fs), NewSize(fs),
                             dirList[cur].parent, NewUp(fs))
                 /\ dirsSizeSectors' = [dirsSizeSectors EXCEPT ![fs] = @ + bytesToSectors(NewSize(fs))]
                 /\ Advance(dirList', IF fs = "iso" THEN "joliet" ELSE "tables")
                 /\ Builds(fs) /\ NoFault
<1> DEFINE n == Len(dirList)
           p == dirList[cur].parent
           recs == DirRecords(fs)
           size == NewSize(fs)
           own == OwnRecord(fs)
           c1 == [recs EXCEPT ![1].length = size]
           c2 == [recs EXCEPT ![1].length = size, ![2].length = size]
           first == recs[1].start
<1>0. /\ pc = fs /\ tree \in Trees /\ Linked /\ Counted /\ Loops /\ Packed
      /\ UNCHANGED <<tree, filesSizeSectors, pathTable, fsBuf>>
  BY DEF BuildContent, BuildInv
<1>1. cur \in 1 .. n /\ n \in Nat /\ dirList \in [1 .. n -> DirSet] /\ p \in 1 .. cur
  <2>1. pc \in {"dirs", "files", "iso", "joliet"}
    BY <1>0 DEF FS
  <2> QED
    BY <1>0, <2>1, DirTyped DEF Loops, Linked
<1>2. recs \in Seq(RecSet) /\ Len(recs) \in Nat /\ Len(recs) >= 2
  BY <1>0, DirRecordsTyped
<1>3. NewContent(fs) = IF p = cur THEN c2 ELSE c1
  BY DEF NewContent, NewSize
<1>4. size \in Nat /\ first \in Int
  <2> HIDE DEF recs
  <2>1. Last(recs) \in RecSet /\ recs[1] \in RecSet
    BY <1>2 DEF Last
  <2>2. \A r \in RecSet : r.pos + r.len \in Nat /\ r.start \in Int
    <3>1. \A r \in RecSet : r.pos \in Nat /\ r.len \in 0 .. 255 /\ r.start \in Int
      BY DEF RecSet
    <3>2. \A x \in 0 .. 255 : x \in Nat
      OBVIOUS
    <3> QED
      BY <3>1, <3>2
  <2> QED
    BY <2>1, <2>2, Sectors DEF NewSize, recs
<1>5. \/ /\ pc' = "failed" /\ UNCHANGED <<dirList, cur, dirsSizeSectors>>
         /\ Fault("stat") \/ (NoFault /\ ~Builds(fs))
      \/ /\ dirList' =
                IF p = cur
                THEN [dirList EXCEPT ![cur].content[fs] = c2, ![cur].size[fs] = size]
                ELSE [dirList EXCEPT ![cur].content[fs] = c1, ![cur].size[fs] = size,
                                     ![p].content[fs][own].start = first,
                                     ![p].content[fs][own].length = size]
         /\ dirsSizeSectors' = [dirsSizeSectors EXCEPT ![fs] = @ + bytesToSectors(size)]
         /\ Advance(dirList', IF fs = "iso" THEN "joliet" ELSE "tables")
         /\ Builds(fs) /\ NoFault
  BY Zenon DEF BuildContent, Return, NewSize, Builds
<1> HIDE DEF recs, size, own, first
<1>6. c1 \in Seq(RecSet) /\ Len(c1) = Len(recs) /\ c2 \in Seq(RecSet) /\ Len(c2) = Len(recs)
  <2>1. size \in Int
    BY <1>4
  <2>2. c1 = WithLength(recs, 1, size) /\ c2 = WithLength(c1, 2, size)
    BY DEF WithLength
  <2> HIDE DEF c1, c2
  <2>3. c1 \in Seq(RecSet) /\ Len(c1) = Len(recs)
    BY <1>2, <2>1, <2>2, RecordChanged
  <2>4. WithLength(c1, 2, size) \in Seq(RecSet) /\ Len(WithLength(c1, 2, size)) = Len(c1)
    BY <2>1, <2>3, RecordChanged
  <2> QED
    BY <2>2, <2>3, <2>4
<1> HIDE DEF c1, c2, n, p
<1>7. DirBuilt(dirList, [dirList EXCEPT ![cur].content[fs] = c2, ![cur].size[fs] = size],
               n, fs, cur, c2, size, cur, NewUp(fs))
  BY <1>1, <1>4, <1>6, RootBuilt
<1>8. ASSUME p # cur
      PROVE  DirBuilt(dirList, [dirList EXCEPT ![cur].content[fs] = c1, ![cur].size[fs] = size,
                                               ![p].content[fs][own].start = first,
                                               ![p].content[fs][own].length = size],
                      n, fs, cur, c1, size, p, Relocated(dirList[p].content[fs], own, first, size))
  <2>1. p \in 1 .. n
    BY <1>1
  <2> QED
    BY <1>1, <1>4, <1>6, <1>8, <2>1, ChildBuilt
<1>9. NewUp(fs) = Relocated(dirList[p].content[fs], own, first, size)
  BY DEF NewUp, p, own, first, size, recs
<1>10. NewContent(fs) \in Seq(RecSet) /\ Len(NewContent(fs)) = Len(recs)
  BY <1>3, <1>6
<1>11. ASSUME dirList' =
                 IF p = cur
                 THEN [dirList EXCEPT ![cur].content[fs] = c2, ![cur].size[fs] = size]
                 ELSE [dirList EXCEPT ![cur].content[fs] = c1, ![cur].size[fs] = size,
                                      ![p].content[fs][own].start = first,
                                      ![p].content[fs][own].length = size]
       PROVE  DirBuilt(dirList, dirList', n, fs, cur, NewContent(fs), size, p, NewUp(fs))
  <2>1. CASE p = cur
    <3>1. NewContent(fs) = c2
      BY <1>3, <2>1
    <3>2. dirList' = [dirList EXCEPT ![cur].content[fs] = c2, ![cur].size[fs] = size]
      BY <1>11, <2>1
    <3> QED
      BY <1>7, <2>1, <3>1, <3>2, Zenon
  <2>2. CASE p # cur
    <3>1. NewContent(fs) = c1
      BY <1>3, <2>2
    <3> QED
      BY <1>8, <1>9, <1>11, <2>2, <3>1, Zenon
  <2> QED
    BY <2>1, <2>2
<1> QED
  BY <1>0, <1>1, <1>4, <1>5, <1>10, <1>11, Zenon DEF n, p, recs, size, first

LEMMA BuildContentKeeps ==
    ASSUME BuildInv, NEW fs \in FS, BuildContent(fs)
    PROVE  BuildInv'
<1> DEFINE n == Len(dirList)
           c == NewContent(fs)
           z == NewSize(fs)
           p == dirList[cur].parent
           q == NewUp(fs)
<1>0. /\ pc = fs /\ UNCHANGED <<tree, filesSizeSectors>> /\ tree \in Trees /\ Linked /\ Counted /\ Loops
      /\ Packed /\ cur \in 1 .. n /\ n \in Nat /\ p \in 1 .. cur
      /\ c \in Seq(RecSet) /\ Len(c) = Len(DirRecords(fs)) /\ z \in Nat
  BY ContentBuilt DEF BuildInv
<1>1. CASE pc' = "failed" /\ UNCHANGED <<dirList, dirsSizeSectors>>
  BY <1>0, <1>1, BuildStopped
<1>2. CASE /\ DirBuilt(dirList, dirList', n, fs, cur, c, z, p, q)
           /\ dirsSizeSectors' = [dirsSizeSectors EXCEPT ![fs] = @ + bytesToSectors(z)]
           /\ Advance(dirList', IF fs = "iso" THEN "joliet" ELSE "tables")
  <2>1. \A k \in 1 .. cur - 1 : dirList[k].content[fs] # << >>
    BY <1>0 DEF Loops
  <2>2. c # << >>
    <3>1. Len(c) >= 2
      BY <1>0, DirRecordsTyped
    <3> HIDE DEF c
    <3> QED
      BY <3>1
  <2>3. p # cur => q # << >>
    <3> SUFFICES ASSUME p # cur PROVE q # << >>
      OBVIOUS
    <3> DEFINE s == dirList[p].content[fs]
    <3>1. p \in 1 .. cur - 1 /\ p \in 1 .. n
      <4> HIDE DEF p, n
      <4> QED
        BY <1>0
    <3>2. s # << >> /\ s \in Seq(RecSet)
      BY <1>0, <2>1, <3>1, DirTyped
    <3>3. q = Relocated(s, OwnRecord(fs), DirRecords(fs)[1].start, z)
      BY DEF NewUp
    <3>4. DirRecords(fs)[1].start \in Int /\ z \in Int
      BY <1>0, ContentBuilt
    <3> HIDE DEF s, q, z
    <3>5. q \in Seq(RecSet) /\ Len(q) = Len(s)
      BY <3>2, <3>3, <3>4, RecordRelocated
    <3>6. Len(s) # 0
      BY <3>2
    <3> QED
      BY <3>5, <3>6
  <2> HIDE DEF c, z, q
  <2>4. SameDirs(dirList, dirList', n) /\ dirList'[cur].content[fs] # << >>
    BY <1>0, <1>2, <2>2, <2>3, ZenonT(60) DEF DirBuilt, SameDirs
  <2>5. Linked' /\ Files' = Files /\ Len(dirList') = n
    BY <1>0, <2>4, ListKept
  <2>6. Packed' /\ Counted'
    <3>1. bytesToSectors(z) \in Nat
      BY <1>0, Sectors
    <3>2. dirsSizeSectors' \in [FS -> Nat]
      BY <1>0, <1>2, <3>1 DEF Counted
    <3> QED
      BY <1>0, <2>5, <3>2 DEF Packed, Counted
  <2>7. \/ pc' = fs /\ cur' = cur + 1 /\ cur < n
        \/ pc' \in {"joliet", "tables"} /\ cur' = 1 /\ fs = "iso"
        \/ pc' = "tables"
    BY <1>0, <1>2, <2>5 DEF Advance, FS
  <2>8. \A k \in 1 .. cur : dirList'[k].content[fs] # << >>
    <3>1. \A k \in 1 .. cur : k = cur \/ k \in 1 .. cur - 1
      BY <1>0
    <3>2. \A k \in 1 .. cur - 1 : k \in 1 .. n
      BY <1>0
    <3> QED
      BY <2>1, <2>4, <3>1, <3>2 DEF SameDirs
  <2>9. Loops' /\ Image'
    <3> HIDE DEF n
    <3> QED
      BY <1>0, <2>5, <2>7, <2>8 DEF Loops, Image, FS
  <2> QED
    BY <1>0, <2>5, <2>6, <2>9 DEF BuildInv
<1> QED
  BY <1>1, <1>2, ContentBuilt

LEMMA LbaTyped ==
    ASSUME tree \in Trees, Linked, Counted
    PROVE  isoLba \in Nat /\ jolietLba \in Nat /\ filesLba \in Nat
<1> DEFINE n == Len(dirList)
<1>1. n \in Nat
  BY DirTyped
<1>2. ASSUME NEW fs \in FS PROVE TableSectors(fs) \in Nat
  <2>1. ASSUME NEW k \in 2 .. n PROVE len_fi(fs, TableEntry(fs, k).id) \in Nat
    <3>1. k \in 1 .. n /\ k # 1
      BY <1>1
    <3>2. dirList[k].src \in 1 .. Len(tree.dirs)
      BY <3>1 DEF Linked
    <3>3. tree.dirs[dirList[k].src].name \in Names
      BY <3>2, TreeTyped
    <3>4. DirId(fs, tree.dirs[dirList[k].src].name) \in Ids
      BY <3>3, IdsTyped
    <3>5. TableEntry(fs, k).id = DirId(fs, tree.dirs[dirList[k].src].name)
      BY <3>1 DEF TableEntry
    <3> QED
      BY <3>4, <3>5, LengthOfId
  <2>2. TableSize(fs, Entries) \in Nat
    <3>1. \A i \in 0 .. n : TableSize(fs, i) \in Nat
      BY <1>1, <2>1, TableSized
    <3>2. Entries \in 0 .. n
      BY <1>1, NumberAssumption DEF Entries, Smaller
    <3> QED
      BY <3>1, <3>2
  <2> QED
    BY <2>2, Sectors DEF TableSectors
<1>3. TableSectors("iso") \in Nat /\ TableSectors("joliet") \in Nat
  BY <1>2 DEF FS
<1>4. dirsSizeSectors["iso"] \in Nat /\ dirsSizeSectors["joliet"] \in Nat
  BY DEF Counted, FS
<1>5. isoLba \in Nat
  BY <1>3 DEF isoLba, HEADER_SECTORS
<1>6. jolietLba \in Nat
  BY <1>4, <1>5 DEF jolietLba
<1> QED
  BY <1>4, <1>5, <1>6 DEF filesLba

LEMMA Fixed ==
    ASSUME tree \in Trees, Linked, Counted, NEW fs \in FS, NEW records \in Seq(RecSet)
    PROVE  /\ fixDirLba(fs, records) \in Seq(RecSet)
           /\ records # << >> => fixDirLba(fs, records) # << >>
<1> DEFINE n == Len(records)
           new == fixDirLba(fs, records)
           by(r) == IF r.flag = "dir" THEN dirLba(fs) ELSE filesLba
<1>1. n \in Nat /\ records \in [1 .. n -> RecSet] /\ (records # << >> => n # 0)
  OBVIOUS
<1>2. \A r : by(r) \in Int
  BY LbaTyped DEF dirLba
<1>3. new = [i \in 1 .. n |-> IF i \in Walked(records)
                             THEN [records[i] EXCEPT !.start = @ + by(records[i])] ELSE records[i]]
  BY DEF fixDirLba
<1> HIDE DEF by, n, new
<1>4. \A r \in RecSet : [r EXCEPT !.start = @ + by(r)] \in RecSet
  <2>1. \A r \in RecSet : r.start \in Int
    BY DEF RecSet
  <2>2. \A r \in RecSet : \A x \in Int : [r EXCEPT !.start = x] \in RecSet
    BY DEF RecSet
  <2>3. \A r \in RecSet : r.start + by(r) \in Int
    BY <1>2, <2>1
  <2> QED
    BY <2>2, <2>3
<1>5. new \in [1 .. n -> RecSet]
  BY <1>1, <1>3, <1>4
<1>6. new \in Seq(RecSet) /\ Len(new) = n
  BY <1>1, <1>5
<1>7. records # << >> => new # << >>
  BY <1>1, <1>6
<1> QED
  BY <1>6, <1>7 DEF new

LEMMA FixLbaKeeps ==
    ASSUME BuildInv, FixLba
    PROVE  BuildInv'
<1> DEFINE n == Len(dirList)
           con(d) == [fs \in FS |-> fixDirLba(fs, d.content[fs])]
<1>0. /\ pc' = "write" /\ tree' = tree /\ UNCHANGED <<filesSizeSectors, dirsSizeSectors>>
      /\ tree \in Trees /\ Linked /\ Counted /\ Packed
      /\ dirList' = [k \in 1 .. n |-> [dirList[k] EXCEPT !.content = con(dirList[k])]]
  BY DEF FixLba, BuildInv, Return
<1>1. n \in Nat /\ dirList \in [1 .. n -> DirSet]
  BY <1>0, DirTyped DEF Linked
<1>2. ASSUME NEW d \in DirSet
      PROVE  con(d) \in [FS -> Seq(RecSet)] /\ \A g \in FS : d.content[g] # << >> => con(d)[g] # << >>
  <2>1. \A g \in FS : d.content[g] \in Seq(RecSet)
    BY DEF DirSet
  <2>2. \A g \in FS : /\ fixDirLba(g, d.content[g]) \in Seq(RecSet)
                      /\ d.content[g] # << >> => fixDirLba(g, d.content[g]) # << >>
    BY <1>0, <2>1, Fixed
  <2> QED
    BY <2>2
<1> HIDE DEF con, n
<1>3. ASSUME NEW d \in DirSet
      PROVE  LET e == [d EXCEPT !.content = con(d)]
             IN  /\ e \in DirSet /\ e.src = d.src /\ e.parent = d.parent /\ e.children = d.children
                 /\ e.files = d.files /\ e.content = con(d)
  BY <1>2 DEF DirSet
<1>4. SameDirs(dirList, dirList', n)
  <2>1. ASSUME NEW k \in 1 .. n
        PROVE  /\ dirList'[k] \in DirSet /\ dirList'[k].src = dirList[k].src
               /\ dirList'[k].parent = dirList[k].parent /\ dirList'[k].children = dirList[k].children
               /\ dirList'[k].files = dirList[k].files /\ dirList'[k].content = con(dirList[k])
    <3>1. dirList[k] \in DirSet /\ dirList'[k] = [dirList[k] EXCEPT !.content = con(dirList[k])]
      BY <1>0, <1>1
    <3> QED
      BY <1>3, <3>1, Zenon
  <2>2. dirList' \in [1 .. n -> DirSet]
    BY <1>0, <2>1
  <2>3. \A k \in 1 .. n : dirList[k] \in DirSet
    BY <1>1
  <2> QED
    BY <1>1, <1>2, <2>1, <2>2, <2>3 DEF SameDirs
<1>5. Linked' /\ Files' = Files
  BY <1>0, <1>4, ListKept DEF n
<1>6. Packed' /\ Counted'
  BY <1>0, <1>5 DEF Packed, Counted
<1>7. Loops' /\ Image'
  BY <1>0 DEF Loops, Image, FS
<1> QED
  BY <1>0, <1>5, <1>6, <1>7 DEF BuildInv

LEMMA ResetKeeps ==
    ASSUME tree \in Trees, tree' = tree, Reset, pc' \in {"failed", "deleted"}
    PROVE  BuildInv'
<1>1. dirList' = << >> /\ filesSizeSectors' = 0 /\ dirsSizeSectors' = [fs \in FS |-> 0]
  BY DEF Reset
<1>2. Len(dirList') = 0 /\ dirList' \in Seq(DirSet) /\ Len(<< >>) = 0
  BY <1>1
<1>3. Files' = << >>
  <2>1. Len(dirList') \in Nat /\ \A k \in 1 .. Len(dirList') : dirList'[k].files = << >>
    BY <1>2
  <2> QED
    BY <2>1, NoFiles DEF Files
<1>4. Linked' /\ Packed' /\ Counted'
  BY <1>1, <1>2, <1>3 DEF Linked, Packed, Counted
<1>5. Loops' /\ Image'
  BY DEF Loops, Image, FS
<1> QED
  BY <1>4, <1>5 DEF BuildInv

LEMMA BuildPathTablesKeeps ==
    ASSUME BuildInv, BuildPathTables
    PROVE  BuildInv'
<1>1. tree \in Trees /\ tree' = tree
  BY DEF BuildInv, BuildPathTables
<1>2. CASE Reset /\ pc' = "failed"
  BY <1>1, <1>2, ResetKeeps
<1>3. CASE UNCHANGED <<dirList, filesSizeSectors, dirsSizeSectors>> /\ pc' = "fix"
  <2>1. Files' = Files
    BY <1>3, FilesSame
  <2>2. Linked' /\ Counted' /\ Packed'
    BY <1>1, <1>3, <2>1 DEF BuildInv, Linked, Counted, Packed
  <2>3. Loops' /\ Image'
    BY <1>3 DEF Loops, Image, FS
  <2> QED
    BY <1>1, <2>2, <2>3 DEF BuildInv
<1> QED
  BY <1>2, <1>3 DEF BuildPathTables, Return

LEMMA WriteKeeps ==
    ASSUME BuildInv, Write
    PROVE  BuildInv'
<1>1. /\ tree \in Trees /\ tree' = tree /\ Linked /\ Counted /\ Packed
      /\ UNCHANGED <<dirList, filesSizeSectors, dirsSizeSectors>> /\ pc' = "ready"
  BY DEF BuildInv, Write, Return, listVars
<1>2. Files' = Files
  BY <1>1, FilesSame
<1>3. Linked' /\ Counted' /\ Packed'
  BY <1>1, <1>2 DEF Linked, Counted, Packed
<1> DEFINE l == filesLba
           f == filesSizeSectors
           n == l + f
           p == PadSectors(n)
           s == SECTOR_SIZE
<1>4. /\ fsBuf'.fsBufSize = l * s /\ fsBuf'.padAreaStart = n * s
      /\ fsBuf'.padAreaSize = p * s /\ fsBuf'.totalSize = (n + p) * s
  BY DEF Write
<1>5. l \in Nat /\ f \in Nat /\ n \in Nat /\ s \in Nat \ {0}
  BY <1>1, LbaTyped, SectorAssumption DEF Counted
<1> HIDE DEF l, f, s
<1>6. n \in Nat
  BY <1>5
<1> HIDE DEF n
<1>7. p \in Nat \ {0}
  BY <1>6 DEF PadSectors
<1> HIDE DEF p
<1>8. p * s \in Nat \ {0} /\ (n + p) * s = n * s + p * s
  BY <1>5, <1>6, <1>7
<1>9. n * s = l * s + f * s
  BY <1>5 DEF n
<1>10. Image'
  <2>1. f = filesSizeSectors' /\ s = SECTOR_SIZE
    BY <1>1 DEF f, s
  <2> QED
    BY <1>4, <1>5, <1>8, <1>9, <2>1 DEF Image
<1>11. Loops'
  BY <1>1 DEF Loops, FS
<1> QED
  BY <1>1, <1>3, <1>10, <1>11 DEF BuildInv

\* An image stays as it is while it is in use.
LEMMA BuildSame ==
    ASSUME BuildInv, UNCHANGED buildVars
    PROVE  BuildInv' /\ Files' = Files
<1>1. UNCHANGED <<tree, pc, dirList, cur, filesSizeSectors, dirsSizeSectors, fsBuf>>
  BY DEF buildVars
<1>2. Files' = Files
  BY <1>1, FilesSame
<1>3. Linked' /\ Counted' /\ Packed' /\ Loops' /\ Image'
  BY <1>1, <1>2 DEF BuildInv, Linked, Counted, Packed, Loops, Image
<1> QED
  BY <1>1, <1>2, <1>3 DEF BuildInv

LEMMA BuildKeeps ==
    ASSUME BuildInv, BuildNext
    PROVE  BuildInv'
  BY OpenKeeps, ScanDirsKeeps, ScanFilesKeeps, BuildContentKeeps, BuildPathTablesKeeps, FixLbaKeeps,
     WriteKeeps DEF BuildNext

-----------------------------------------------------------------------------
(* What the image consists of *)

\* The sizes of the areas, and the files between the file system and the
\* padding.
Regions(buf, files) ==
    /\ buf.fsBufSize \in Nat /\ buf.padAreaStart \in Nat /\ buf.padAreaSize \in Nat \ {0}
    /\ buf.totalSize \in Nat /\ buf.totalSize = buf.padAreaStart + buf.padAreaSize
    /\ buf.fsBufSize <= buf.padAreaStart
    /\ files \in Seq(FileSet) /\ Len(files) \in Nat
    /\ \A i \in 1 .. Len(files) :
          /\ files[i] \in FileSet
          /\ StartOf(files[i], buf) \in Nat /\ EndOf(files[i], buf) \in Nat /\ EndSectorOf(files[i], buf) \in Nat
          /\ StartOf(files[i], buf) <= EndOf(files[i], buf)
          /\ EndOf(files[i], buf) <= EndSectorOf(files[i], buf)
          /\ StartOf(files[i], buf) = IF i = 1 THEN buf.fsBufSize ELSE EndSectorOf(files[i - 1], buf)
    /\ buf.padAreaStart = IF files = << >> THEN buf.fsBufSize ELSE EndSectorOf(files[Len(files)], buf)

LEMMA ImageRegions ==
    ASSUME BuildInv, pc = "ready"
    PROVE  Regions(fsBuf, Files)
<1> DEFINE s == SECTOR_SIZE
           b == fsBuf.fsBufSize
           all == Files
<1>1. Linked /\ Counted /\ Packed /\ Image
  BY DEF BuildInv
<1>2. s \in Nat \ {0} /\ filesSizeSectors \in Nat
  BY <1>1, SectorAssumption DEF Counted
<1>3. /\ all \in Seq(FileSet) /\ Len(all) \in Nat /\ (all # << >> => Len(all) \in 1 .. Len(all))
      /\ \A i \in 1 .. Len(all) : all[i] \in FileSet
  <2>1. all \in Seq(FileSet) /\ Len(all) \in Nat /\ \A i \in 1 .. Len(all) : all[i] \in FileSet
    BY <1>1, FilesTyped
  <2> HIDE DEF all
  <2> QED
    BY <2>1
<1>4. PICK n \in Nat : b = n * s
  BY <1>1 DEF Image
<1>5. /\ fsBuf.padAreaStart = b + filesSizeSectors * s /\ fsBuf.padAreaSize \in Nat \ {0}
      /\ fsBuf.totalSize = fsBuf.padAreaStart + fsBuf.padAreaSize
  BY <1>1 DEF Image
<1>6. /\ \A i \in 1 .. Len(all) : all[i].rlba = IF i = 1 THEN 0 ELSE Behind(all[i - 1])
      /\ filesSizeSectors = IF all = << >> THEN 0 ELSE Behind(all[Len(all)])
  BY <1>1 DEF Packed
<1> HIDE DEF s, b, all
<1>7. b \in Nat /\ filesSizeSectors * s \in Nat
  BY <1>2, <1>4
<1>8. ASSUME NEW f \in FileSet
      PROVE  /\ StartOf(f, fsBuf) \in Nat /\ EndOf(f, fsBuf) \in Nat /\ EndSectorOf(f, fsBuf) \in Nat
             /\ StartOf(f, fsBuf) <= EndOf(f, fsBuf) /\ EndOf(f, fsBuf) <= EndSectorOf(f, fsBuf)
             /\ StartOf(f, fsBuf) = b + f.rlba * s
             /\ EndSectorOf(f, fsBuf) = b + Behind(f) * s /\ Behind(f) \in Nat
  <2>1. f.rlba \in Nat /\ f.size \in Nat /\ bytesToSectors(f.size) \in Nat
    BY Sectors DEF FileSet
  <2> DEFINE r == f.rlba
             z == f.size
             k == bytesToSectors(z)
  <2>2. StartOf(f, fsBuf) = b + r * s /\ EndOf(f, fsBuf) = b + r * s + z
    BY DEF StartOf, EndOf, b, s
  <2>3. EndSectorOf(f, fsBuf) = RoundUp(b + r * s + z)
    BY <2>2 DEF EndSectorOf
  <2>4. Behind(f) = r + k
    BY DEF Behind
  <2>5. r \in Nat /\ z \in Nat /\ k \in Nat
    BY <2>1
  <2>6. (n + r) \in Nat /\ RoundUp((n + r) * s + z) = (n + r + k) * s
    BY <2>5, SectorsBehind DEF s
  <2> HIDE DEF r, z, k
  <2>7. r * s \in Nat /\ (n + r) * s = b + r * s /\ (n + r + k) * s = b + (r + k) * s
    <3>1. \A x, y \in Nat : (x + y) * s = x * s + y * s
      BY <1>2
    <3>2. n + r + k = n + (r + k) /\ r + k \in Nat /\ r * s \in Nat
      BY <1>2, <2>5
    <3> QED
      BY <1>4, <2>5, <3>1, <3>2
  <2>8. b + r * s + z \in Nat /\ b + r * s \in Nat /\ b + r * s <= b + r * s + z
    BY <1>7, <2>5, <2>7
  <2>9. b + r * s + z <= RoundUp(b + r * s + z) /\ RoundUp(b + r * s + z) \in Nat
    BY <2>8, Sectors
  <2>10. EndSectorOf(f, fsBuf) = b + Behind(f) * s
    BY <2>3, <2>4, <2>6, <2>7
  <2>11. Behind(f) \in Nat
    BY <2>4, <2>5
  <2> QED
    BY <2>2, <2>3, <2>8, <2>9, <2>10, <2>11 DEF r
<1>9. ASSUME NEW i \in 1 .. Len(all)
      PROVE  StartOf(all[i], fsBuf) = IF i = 1 THEN b ELSE EndSectorOf(all[i - 1], fsBuf)
  <2>1. all[i] \in FileSet /\ StartOf(all[i], fsBuf) = b + all[i].rlba * s
    BY <1>3, <1>8
  <2>2. CASE i = 1
    <3>1. all[i].rlba = 0 /\ 0 * s = 0
      BY <1>2, <1>6, <2>2
    <3> QED
      BY <1>7, <2>1, <2>2, <3>1
  <2>3. CASE i # 1
    <3>1. i - 1 \in 1 .. Len(all)
      BY <1>3, <2>3
    <3>2. EndSectorOf(all[i - 1], fsBuf) = b + Behind(all[i - 1]) * s
      BY <1>3, <1>8, <3>1
    <3> QED
      BY <1>6, <2>1, <2>3, <3>2
  <2> QED
    BY <2>2, <2>3
<1>10. fsBuf.padAreaStart = IF all = << >> THEN b ELSE EndSectorOf(all[Len(all)], fsBuf)
  <2>1. CASE all = << >>
    <3>1. filesSizeSectors = 0 /\ 0 * s = 0
      BY <1>2, <1>6, <2>1
    <3> QED
      BY <1>5, <1>7, <2>1, <3>1
  <2>2. CASE all # << >>
    BY <1>3, <1>5, <1>6, <1>8, <2>2
  <2> QED
    BY <2>1, <2>2
<1>11. fsBuf.padAreaStart \in Nat /\ b <= fsBuf.padAreaStart /\ fsBuf.totalSize \in Nat
  BY <1>5, <1>7
<1> QED
  BY <1>3, <1>5, <1>7, <1>8, <1>9, <1>10, <1>11 DEF Regions, b, all

\* All files end before the padding.
LEMMA FilesBeforePadding ==
    ASSUME NEW buf, NEW files, Regions(buf, files)
    PROVE  \A i \in 1 .. Len(files) : EndSectorOf(files[i], buf) <= buf.padAreaStart
<1> DEFINE n == Len(files)
           e(i) == EndSectorOf(files[i], buf)
           p == buf.padAreaStart
<1>1. /\ n \in Nat /\ p \in Nat
      /\ \A i \in 1 .. n : e(i) \in Nat
      /\ \A i \in 1 .. n : i # 1 => e(i - 1) <= e(i)
      /\ n # 0 => e(n) = p
  <2>1. n \in Nat /\ p \in Nat /\ \A i \in 1 .. n : e(i) \in Nat
    BY DEF Regions
  <2>2. ASSUME NEW i \in 1 .. n, i # 1 PROVE e(i - 1) <= e(i)
    <3>1. StartOf(files[i], buf) = e(i - 1)
      BY <2>2 DEF Regions
    <3>2. i - 1 \in 1 .. n
      BY <2>1, <2>2
    <3>3. e(i - 1) \in Nat /\ e(i) \in Nat /\ EndOf(files[i], buf) \in Nat
      BY <2>1, <3>2 DEF Regions
    <3>4. e(i - 1) <= EndOf(files[i], buf) /\ EndOf(files[i], buf) <= e(i)
      BY <3>1 DEF Regions
    <3> HIDE DEF e
    <3> QED
      BY <3>3, <3>4
  <2>3. n # 0 => files # << >>
    OBVIOUS
  <2>4. n # 0 => e(n) = p
    BY <2>3 DEF Regions
  <2> QED
    BY <2>1, <2>2, <2>4
<1> HIDE DEF n, e, p
<1> DEFINE C == {k \in Nat : k >= n \/ e(n - k) <= p}
<1>2. 0 \in C
  BY <1>1
<1>3. ASSUME NEW k \in Nat, k \in C PROVE k + 1 \in C
  <2>1. CASE k + 1 < n
    <3>1. n - k \in 1 .. n /\ n - k # 1 /\ (n - k) - 1 = n - (k + 1) /\ n - (k + 1) \in 1 .. n
      BY <1>1, <2>1
    <3>2. e(n - k) <= p
      BY <1>1, <1>3, <2>1
    <3>3. e(n - (k + 1)) <= e(n - k)
      BY <1>1, <3>1
    <3>4. e(n - k) \in Nat /\ e(n - (k + 1)) \in Nat
      BY <1>1, <3>1
    <3>5. e(n - (k + 1)) <= p
      BY <1>1, <3>2, <3>3, <3>4
    <3> QED
      BY <3>5
  <2> QED
    BY <1>1, <2>1
<1>4. \A k \in Nat : k \in C
  <2> HIDE DEF C
  <2> QED
    BY <1>2, <1>3, SetInduction
<1>5. ASSUME NEW i \in 1 .. n PROVE e(i) <= p
  <2>1. n - i \in Nat /\ n - i \in C /\ ~(n - i >= n) /\ n - (n - i) = i
    BY <1>1, <1>4
  <2> QED
    BY <2>1
<1> QED
  BY <1>5 DEF n, e, p

-----------------------------------------------------------------------------
(* What a read has put together *)

LEMMA CoversNothing ==
    ASSUME NEW a, NEW buf, NEW files
    PROVE  Covers(<< >>, a, a, buf, files)
<1>1. << >> \in Seq(SegSet) /\ Len(<< >>) = 0
  OBVIOUS
<1> QED
  BY <1>1 DEF Covers

LEMMA CoversMore ==
    ASSUME NEW segs, NEW a, NEW b, NEW buf, NEW files, Covers(segs, a, b, buf, files),
           NEW x \in SegSet, x.at = b, RightOf(x, buf, files)
    PROVE  Covers(Append(segs, x), a, b + x.len, buf, files)
<1> DEFINE n == Len(segs)
           new == Append(segs, x)
<1>1. segs \in Seq(SegSet) /\ n \in Nat
  BY DEF Covers
<1>2. /\ new \in Seq(SegSet) /\ Len(new) = n + 1 /\ new[n + 1] = x
      /\ \A i \in 1 .. n : new[i] = segs[i]
  <2> HIDE DEF SegSet
  <2> QED
    BY <1>1
<1> HIDE DEF new
<1>3. \A i \in 1 .. n + 1 : RightOf(new[i], buf, files)
  <2>1. \A i \in 1 .. n : RightOf(new[i], buf, files)
    BY <1>2 DEF Covers
  <2> QED
    BY <1>1, <1>2, <2>1
<1>4. new[1].at = a
  BY <1>1, <1>2 DEF Covers
<1>5. ASSUME NEW i \in 2 .. n + 1 PROVE new[i].at = new[i - 1].at + new[i - 1].len
  <2>1. CASE i = n + 1
    <3>1. n # 0 /\ i - 1 = n /\ n \in 1 .. n
      BY <1>1, <2>1
    <3>2. segs[n].at + segs[n].len = b
      BY <3>1 DEF Covers
    <3> QED
      BY <1>2, <2>1, <3>1, <3>2
  <2>2. CASE i # n + 1
    <3>1. i \in 2 .. n /\ i \in 1 .. n /\ i - 1 \in 1 .. n
      BY <1>1, <2>2
    <3> QED
      BY <1>2, <3>1 DEF Covers
  <2> QED
    BY <2>1, <2>2
<1>6. Len(new) \in Nat /\ Len(new) # 0
  BY <1>1, <1>2
<1> QED
  BY <1>2, <1>3, <1>4, <1>5, <1>6 DEF Covers, new

AccSet == [ptr : Nat, left : Nat, segs : Seq(SegSet), stop : BOOLEAN, failed : BOOLEAN,
           lastPath : {None} \cup Paths, fds : Int]

\* How far a read of `want` bytes from `at` has come.
Accs(at, want) ==
    {acc \in AccSet :
        /\ acc.ptr + acc.left = at + want /\ acc.ptr <= fsBuf.totalSize
        /\ Covers(acc.segs, at, acc.ptr, fsBuf, Files)
        /\ acc.failed => acc.stop
        /\ acc.stop => acc.failed \/ acc.left = 0
        /\ OneDescriptor(acc.lastPath, acc.fds)}

LEMMA PathsAreNot == None \notin Paths /\ "fsBuf" \notin Paths /\ "zero" \notin Paths
  BY DEF Paths, FileSet, IsPath

\* b is acc with n bytes more.
TakenFrom(b, acc, n) ==
    /\ b.ptr = acc.ptr + n /\ b.left = acc.left - n
    /\ b.stop = acc.stop /\ b.failed = acc.failed

LEMMA TakeKeeps ==
    ASSUME NEW at \in Nat, NEW want \in Nat, NEW acc \in Accs(at, want),
           NEW from \in {"fsBuf", "zero"} \cup Paths, NEW off \in Nat, NEW to_read \in Nat,
           to_read <= acc.left, acc.ptr + to_read <= fsBuf.totalSize,
           to_read # 0 => RightOf(Segment(from, acc.ptr, off, to_read), fsBuf, Files)
    PROVE  LET b == Take(acc, from, off, to_read)
           IN  b \in Accs(at, want) /\ TakenFrom(b, acc, to_read)
<1> DEFINE x == Segment(from, acc.ptr, off, to_read)
           b == Take(acc, from, off, to_read)
           segs == IF to_read = 0 THEN acc.segs ELSE Append(acc.segs, x)
<1>1. acc \in AccSet /\ Covers(acc.segs, at, acc.ptr, fsBuf, Files)
  BY DEF Accs
<1>2. acc.ptr \in Nat /\ acc.left \in Nat
  BY <1>1 DEF AccSet
<1>3. x \in SegSet /\ x.at = acc.ptr /\ x.len = to_read
  BY <1>2 DEF Segment, SegSet
<1>4. Covers(segs, at, acc.ptr + to_read, fsBuf, Files)
  <2>1. CASE to_read = 0
    <3>1. acc.ptr + to_read = acc.ptr
      BY <1>2, <2>1
    <3> QED
      BY <1>1, <2>1, <3>1
  <2>2. CASE to_read # 0
    <3> HIDE DEF x
    <3>1. Covers(Append(acc.segs, x), at, acc.ptr + x.len, fsBuf, Files)
      BY <1>1, <1>3, <2>2, CoversMore DEF x
    <3> QED
      BY <1>3, <2>2, <3>1
  <2> QED
    BY <2>1, <2>2
<1>5. segs \in Seq(SegSet)
  BY <1>4 DEF Covers
<1>6. b = [acc EXCEPT !.segs = segs, !.ptr = acc.ptr + to_read, !.left = acc.left - to_read]
  BY <1>1 DEF Take, AccSet
<1> HIDE DEF b, segs
<1>7. acc.ptr + to_read \in Nat /\ acc.left - to_read \in Nat
  BY <1>2
<1>8. /\ b \in AccSet /\ b.ptr = acc.ptr + to_read /\ b.left = acc.left - to_read /\ b.segs = segs
      /\ b.stop = acc.stop /\ b.failed = acc.failed /\ b.lastPath = acc.lastPath /\ b.fds = acc.fds
  BY <1>1, <1>5, <1>6, <1>7 DEF AccSet
<1>9. b.ptr + b.left = at + want /\ b.ptr <= fsBuf.totalSize
  <2>1. acc.ptr + acc.left = at + want
    BY DEF Accs
  <2> QED
    BY <1>2, <1>8, <2>1
<1>10. b.failed => b.stop
  BY <1>8 DEF Accs
<1>11. b.stop => b.failed \/ b.left = 0
  <2>1. acc.stop => acc.failed \/ acc.left = 0
    BY DEF Accs
  <2>2. acc.left = 0 => b.left = 0
    BY <1>2, <1>8
  <2> QED
    BY <1>8, <2>1, <2>2
<1>12. OneDescriptor(b.lastPath, b.fds)
  BY <1>8 DEF Accs
<1>13. b \in Accs(at, want)
  BY <1>4, <1>8, <1>9, <1>10, <1>11, <1>12 DEF Accs
<1> QED
  BY <1>8, <1>13 DEF b, TakenFrom

LEMMA GiveUpKeeps ==
    ASSUME NEW at, NEW want, NEW acc \in Accs(at, want)
    PROVE  GiveUp(acc) \in Accs(at, want) /\ GiveUp(acc).stop
<1> DEFINE b == GiveUp(acc)
<1>1. acc \in AccSet
  BY DEF Accs
<1>2. /\ b \in AccSet /\ b.ptr = acc.ptr /\ b.left = acc.left /\ b.segs = acc.segs
      /\ b.lastPath = acc.lastPath /\ b.fds = acc.fds
  BY <1>1 DEF GiveUp, AccSet
<1>3. b.stop = TRUE /\ b.failed = TRUE
  BY <1>1 DEF GiveUp, AccSet
<1> HIDE DEF b
<1>4. b \in Accs(at, want)
  BY <1>2, <1>3 DEF Accs
<1> QED
  BY <1>3, <1>4 DEF b

\* Another descriptor, or none.
LEMMA DescriptorReplaced ==
    ASSUME NEW at, NEW want, NEW acc \in Accs(at, want), NEW p \in {None} \cup Paths,
           twin = "VIsoFile2" \/ p = None
    PROVE  LET b == [acc EXCEPT !.lastPath = p, !.fds = IF p = None THEN 0 ELSE 1]
           IN  /\ b \in Accs(at, want) /\ b.ptr = acc.ptr /\ b.left = acc.left
               /\ b.stop = acc.stop /\ b.failed = acc.failed
<1> DEFINE n == IF p = None THEN 0 ELSE 1
           b == [acc EXCEPT !.lastPath = p, !.fds = n]
<1>1. acc \in AccSet /\ n \in Int
  BY DEF Accs
<1>2. OneDescriptor(p, n)
  BY DEF OneDescriptor
<1> HIDE DEF n
<1>3. /\ b \in AccSet /\ b.ptr = acc.ptr /\ b.left = acc.left /\ b.segs = acc.segs
      /\ b.lastPath = p /\ b.fds = n /\ b.stop = acc.stop /\ b.failed = acc.failed
  BY <1>1 DEF AccSet
<1> HIDE DEF b
<1>4. b \in Accs(at, want)
  BY <1>2, <1>3 DEF Accs
<1> QED
  BY <1>3, <1>4 DEF b, n

LEMMA RegionOf ==
    ASSUME NEW f
    PROVE  fStart(f) = StartOf(f, fsBuf) /\ fEnd(f) = EndOf(f, fsBuf) /\ fEndSector(f) = EndSectorOf(f, fsBuf)
  BY DEF fStart, fEnd, fEndSector, StartOf, EndOf, EndSectorOf

LEMMA RegionFacts ==
    ASSUME Regions(fsBuf, Files), NEW i \in 1 .. Len(Files)
    PROVE  LET f == Files[i]
           IN  /\ f \in FileSet /\ Path(f) \in Paths /\ IsPath(Path(f)) /\ f.size \in Nat
               /\ fStart(f) \in Nat /\ fEnd(f) \in Nat /\ fEndSector(f) \in Nat /\ fEnd(f) = fStart(f) + f.size
               /\ fStart(f) <= fEnd(f) /\ fEnd(f) <= fEndSector(f)
               /\ fEndSector(f) <= fsBuf.padAreaStart /\ fEndSector(f) <= fsBuf.totalSize
               /\ fsBuf.totalSize \in Nat /\ fsBuf.padAreaStart \in Nat
<1> DEFINE f == Files[i]
<1>1. f \in FileSet
  BY DEF Regions
<1>2. Path(f) \in Paths /\ IsPath(Path(f)) /\ f.size \in Nat
  BY <1>1 DEF Paths, FileSet
<1>3. /\ StartOf(f, fsBuf) \in Nat /\ EndOf(f, fsBuf) \in Nat /\ EndSectorOf(f, fsBuf) \in Nat
      /\ StartOf(f, fsBuf) <= EndOf(f, fsBuf) /\ EndOf(f, fsBuf) <= EndSectorOf(f, fsBuf)
  BY DEF Regions
<1>4. EndSectorOf(f, fsBuf) <= fsBuf.padAreaStart
  BY FilesBeforePadding
<1>5. /\ fsBuf.padAreaStart \in Nat /\ fsBuf.padAreaSize \in Nat /\ fsBuf.totalSize \in Nat
      /\ fsBuf.totalSize = fsBuf.padAreaStart + fsBuf.padAreaSize
  BY DEF Regions
<1>6. EndOf(f, fsBuf) = StartOf(f, fsBuf) + f.size
  BY DEF EndOf
<1>7. EndSectorOf(f, fsBuf) <= fsBuf.totalSize
  BY <1>3, <1>4, <1>5
<1> HIDE DEF f
<1> QED
  BY <1>1, <1>2, <1>3, <1>4, <1>5, <1>6, <1>7, RegionOf DEF f

\* The file f has been read as far as wanted.
DataRead(b, f) == b.stop \/ b.left = 0 \/ b.ptr = fEnd(f)

\* The bytes of a file.
LEMMA DataKeeps ==
    ASSUME Regions(fsBuf, Files), NEW at \in Nat, NEW want \in Nat, NEW acc \in Accs(at, want),
           NEW i \in 1 .. Len(Files), fStart(Files[i]) <= acc.ptr, acc.ptr < fEnd(Files[i])
    PROVE  LET f == Files[i]
               b == Take(acc, Path(f), acc.ptr - fStart(f), Smaller(fEnd(f) - acc.ptr, acc.left))
           IN  b \in Accs(at, want) /\ DataRead(b, f)
<1> DEFINE f == Files[i]
           off == acc.ptr - fStart(f)
           to_read == Smaller(fEnd(f) - acc.ptr, acc.left)
           x == Segment(Path(f), acc.ptr, off, to_read)
<1>1. /\ f \in FileSet /\ Path(f) \in Paths /\ IsPath(Path(f)) /\ f.size \in Nat
      /\ fStart(f) \in Nat /\ fEnd(f) \in Nat /\ fEndSector(f) \in Nat /\ fEnd(f) = fStart(f) + f.size
      /\ fEnd(f) <= fEndSector(f) /\ fEndSector(f) <= fsBuf.totalSize /\ fsBuf.totalSize \in Nat
  BY RegionFacts
<1>2. acc.ptr \in Nat /\ acc.left \in Nat
  BY DEF Accs, AccSet
<1>3. /\ off \in Nat /\ to_read \in Nat /\ to_read <= acc.left /\ acc.ptr + to_read <= fsBuf.totalSize
      /\ off + to_read <= f.size /\ acc.ptr = fStart(f) + off
      /\ to_read = acc.left \/ acc.ptr + to_read = fEnd(f)
  <2> DEFINE a == fStart(f)
             e == fEnd(f)
  <2>1. /\ a \in Nat /\ e \in Nat /\ e = a + f.size /\ f.size \in Nat
        /\ e <= fsBuf.totalSize /\ fsBuf.totalSize \in Nat
    BY <1>1
  <2>2. to_read = IF e - acc.ptr < acc.left THEN e - acc.ptr ELSE acc.left
    BY DEF Smaller
  <2>3. a <= acc.ptr /\ acc.ptr < e
    OBVIOUS
  <2> HIDE DEF f, a, e, to_read
  <2>4. e - acc.ptr \in Nat
    BY <1>2, <2>1, <2>3
  <2>5. /\ to_read \in Nat /\ to_read <= acc.left /\ to_read <= e - acc.ptr
        /\ to_read = acc.left \/ to_read = e - acc.ptr
    BY <1>2, <2>2, <2>4
  <2>6. off = acc.ptr - a
    BY DEF a
  <2> HIDE DEF off
  <2>7. off \in Nat /\ acc.ptr = a + off
    BY <1>2, <2>1, <2>3, <2>6, SMTT(40)
  <2>8. acc.ptr + to_read <= fsBuf.totalSize /\ off + to_read <= f.size
    BY <1>2, <2>1, <2>5, <2>7, SMTT(40)
  <2>9. to_read = acc.left \/ acc.ptr + to_read = e
    BY <1>2, <2>1, <2>5
  <2> QED
    BY <2>5, <2>7, <2>8, <2>9 DEF a, e
<1>4. RightOf(x, fsBuf, Files)
  <2>1. x.from = Path(f) /\ x.at = acc.ptr /\ x.off = off /\ x.len = to_read
    BY DEF Segment
  <2> HIDE DEF x, off, to_read
  <2>2. IsPath(x.from) /\ x.from = Path(Files[i]) /\ x.at = StartOf(Files[i], fsBuf) + x.off
        /\ x.off + x.len <= Files[i].size
    BY <1>1, <1>3, <2>1, RegionOf
  <2> QED
    BY <2>2, Zenon DEF RightOf
<1>5. Path(f) \in {"fsBuf", "zero"} \cup Paths
  BY <1>1
<1> HIDE DEF off, to_read, f
<1> DEFINE b == Take(acc, Path(f), off, to_read)
<1>6. b \in Accs(at, want) /\ TakenFrom(b, acc, to_read)
  BY <1>3, <1>4, <1>5, TakeKeeps
<1>7. b.left = 0 \/ b.ptr = fEnd(f)
  <2> HIDE DEF b
  <2>1. b.ptr = acc.ptr + to_read /\ b.left = acc.left - to_read
    BY <1>6 DEF TakenFrom
  <2> QED
    BY <1>2, <1>3, <2>1
<1> HIDE DEF b
<1> QED
  BY <1>6, <1>7, Zenon DEF f, off, to_read, b, DataRead

LEMMA OnceKeeps ==
    ASSUME Regions(fsBuf, Files), NEW at \in Nat, NEW want \in Nat, NEW acc \in Accs(at, want), NEW bad,
           NEW i \in 1 .. Len(Files), fStart(Files[i]) <= acc.ptr, acc.ptr < fEnd(Files[i])
    PROVE  LET b == ReadFileOnce(acc, Files[i], bad) IN b \in Accs(at, want) /\ DataRead(b, Files[i])
<1> DEFINE f == Files[i]
           taken == Take(acc, Path(f), acc.ptr - fStart(f), Smaller(fEnd(f) - acc.ptr, acc.left))
           b == ReadFileOnce(acc, f, bad)
<1>1. taken \in Accs(at, want) /\ DataRead(taken, f)
  BY DataKeeps
<1>2. GiveUp(acc) \in Accs(at, want) /\ DataRead(GiveUp(acc), f)
  BY GiveUpKeeps DEF DataRead
<1>3. b = taken \/ b = GiveUp(acc)
  BY Zenon DEF ReadFileOnce
<1> HIDE DEF taken, b
<1> QED
  BY <1>1, <1>2, <1>3 DEF b

LEMMA CachedKeeps ==
    ASSUME Regions(fsBuf, Files), NEW at \in Nat, NEW want \in Nat, NEW acc \in Accs(at, want), NEW bad,
           NEW i \in 1 .. Len(Files), fStart(Files[i]) <= acc.ptr, acc.ptr < fEnd(Files[i]),
           twin = "VIsoFile2"
    PROVE  LET b == ReadFileCached(acc, Files[i], bad) IN b \in Accs(at, want) /\ DataRead(b, Files[i])
<1> DEFINE f == Files[i]
           p == Path(f)
           to_read == Smaller(fEnd(f) - acc.ptr, acc.left)
           off == acc.ptr - fStart(f)
           reset == [acc EXCEPT !.lastPath = None, !.fds = IF acc.lastPath = None THEN @ ELSE @ - 1]
           opened == IF acc.lastPath = p THEN acc ELSE [reset EXCEPT !.lastPath = p, !.fds = @ + 1]
           closed == [opened EXCEPT !.lastPath = None, !.fds = @ - 1]
           b == ReadFileCached(acc, f, bad)
<1>1. acc \in AccSet /\ acc.fds = IF acc.lastPath = None THEN 0 ELSE 1
  BY DEF Accs, OneDescriptor
<1>2. p \in Paths /\ p # None
  BY RegionFacts, PathsAreNot
<1>3. b = GiveUp(reset) \/ b = GiveUp(closed) \/ b = Take(opened, p, off, to_read)
  BY Zenon DEF ReadFileCached
<1> HIDE DEF b
<1> DEFINE none == [acc EXCEPT !.lastPath = None, !.fds = 0]
           one == [acc EXCEPT !.lastPath = p, !.fds = 1]
<1>4. reset = none
  BY <1>1 DEF AccSet
<1>5. opened = one
  <2>1. CASE acc.lastPath = p
    <3>1. acc.fds = 1
      BY <1>1, <1>2, <2>1
    <3> HIDE DEF p
    <3>2. one = acc
      BY <1>1, <2>1, <3>1 DEF AccSet
    <3> QED
      BY <2>1, <3>2
  <2>2. CASE acc.lastPath # p
    <3> HIDE DEF p, reset
    <3>1. opened = [reset EXCEPT !.lastPath = p, !.fds = reset.fds + 1]
      BY <2>2
    <3>2. none.fds + 1 = 1
      BY <1>1 DEF AccSet
    <3>3. opened = [none EXCEPT !.lastPath = p, !.fds = 1]
      BY <1>4, <3>1, <3>2
    <3> QED
      BY <1>1, <3>3 DEF AccSet
  <2> QED
    BY <2>1, <2>2
<1>6. closed = none
  <2> HIDE DEF opened, p
  <2>1. one.fds - 1 = 0
    BY <1>1 DEF AccSet
  <2>2. closed = [one EXCEPT !.lastPath = None, !.fds = 0]
    BY <1>5, <2>1
  <2> QED
    BY <1>1, <2>2 DEF AccSet
<1> HIDE DEF reset, opened, closed
<1>7. none \in Accs(at, want)
  BY DescriptorReplaced
<1>8. one \in Accs(at, want) /\ one.ptr = acc.ptr /\ one.left = acc.left
  <2>1. one = [acc EXCEPT !.lastPath = p, !.fds = IF p = None THEN 0 ELSE 1]
    BY <1>2
  <2>2. p \in {None} \cup Paths
    BY <1>2
  <2> HIDE DEF p
  <2>3. one \in Accs(at, want)
    BY <2>1, <2>2, DescriptorReplaced
  <2>4. one.ptr = acc.ptr /\ one.left = acc.left
    BY <1>1 DEF AccSet
  <2> QED
    BY <2>3, <2>4
<1> HIDE DEF none, one
<1>9. GiveUp(none) \in Accs(at, want) /\ DataRead(GiveUp(none), f)
  BY <1>7, GiveUpKeeps DEF DataRead
<1>10. Take(one, p, off, to_read) \in Accs(at, want) /\ DataRead(Take(one, p, off, to_read), f)
  <2> DEFINE taken == Take(one, p, one.ptr - fStart(f), Smaller(fEnd(f) - one.ptr, one.left))
  <2>1. taken \in Accs(at, want) /\ DataRead(taken, f)
    BY <1>8, DataKeeps
  <2> HIDE DEF f
  <2>2. taken = Take(one, p, off, to_read)
    BY <1>8
  <2> QED
    BY <2>1, <2>2
<1> HIDE DEF off, to_read, p
<1>11. b \in Accs(at, want) /\ DataRead(b, f)
  BY <1>3, <1>4, <1>5, <1>6, <1>9, <1>10, Zenon
<1> QED
  BY <1>11 DEF b

LEMMA FillKeeps ==
    ASSUME Regions(fsBuf, Files), NEW at \in Nat, NEW want \in Nat, NEW acc \in Accs(at, want),
           NEW i \in 1 .. Len(Files), acc.stop \/ acc.left = 0 \/ acc.ptr >= fEnd(Files[i]),
           acc.stop \/ acc.left = 0 \/ acc.ptr <= fEndSector(Files[i])
    PROVE  LET b == FillSector(acc, Files[i])
           IN  b \in Accs(at, want) /\ (b.stop \/ b.left = 0 \/ b.ptr = fEndSector(Files[i]))
<1> DEFINE f == Files[i]
           b == FillSector(acc, f)
           e == fEndSector(f)
           to_read == Smaller(e - acc.ptr, acc.left)
           x == Segment("zero", acc.ptr, 0, to_read)
<1>1. CASE acc.stop \/ acc.left = 0
  BY <1>1 DEF FillSector
<1>2. CASE ~(acc.stop \/ acc.left = 0)
  <2>1. /\ fEnd(f) \in Nat /\ e \in Nat /\ e <= fsBuf.totalSize /\ fsBuf.totalSize \in Nat
    BY RegionFacts
  <2>2. acc.ptr \in Nat /\ acc.left \in Nat
    BY DEF Accs, AccSet
  <2>3. fEnd(f) <= acc.ptr /\ acc.ptr <= e
    BY <1>2, <2>1, <2>2
  <2>4. b = Take(acc, "zero", 0, to_read)
    BY <1>2 DEF FillSector
  <2>5. to_read = IF e - acc.ptr < acc.left THEN e - acc.ptr ELSE acc.left
    BY DEF Smaller
  <2>6. e = EndSectorOf(f, fsBuf) /\ fEnd(f) = EndOf(f, fsBuf)
    BY RegionOf
  <2> HIDE DEF e, to_read, b
  <2>7. e - acc.ptr \in Nat
    BY <2>1, <2>2, <2>3
  <2>8. /\ to_read \in Nat /\ to_read <= acc.left /\ to_read <= e - acc.ptr
        /\ to_read = acc.left \/ to_read = e - acc.ptr
    BY <2>2, <2>5, <2>7
  <2>9. acc.ptr + to_read <= e /\ acc.ptr + to_read <= fsBuf.totalSize
    BY <2>1, <2>2, <2>8
  <2>10. RightOf(x, fsBuf, Files)
    <3>1. x.from = "zero" /\ x.at = acc.ptr /\ x.len = to_read
      BY DEF Segment
    <3> HIDE DEF x
    <3>2. EndOf(Files[i], fsBuf) <= x.at /\ x.at + x.len <= EndSectorOf(Files[i], fsBuf)
      BY <2>3, <2>6, <2>9, <3>1
    <3> QED
      BY <3>1, <3>2, Zenon DEF RightOf
  <2>11. b \in Accs(at, want) /\ TakenFrom(b, acc, to_read)
    <3>1. 0 \in Nat /\ "zero" \in {"fsBuf", "zero"} \cup Paths
      OBVIOUS
    <3> QED
      BY <2>4, <2>8, <2>9, <2>10, <3>1, TakeKeeps
  <2>12. b.ptr = acc.ptr + to_read /\ b.left = acc.left - to_read
    BY <2>11 DEF TakenFrom
  <2>13. b.left = 0 \/ b.ptr = e
    BY <2>1, <2>2, <2>8, <2>12
  <2> QED
    BY <2>11, <2>13 DEF b, e
<1> QED
  BY <1>1, <1>2

\* A turn of the loop that goes on has come to the end of its file.
TurnDone(b, acc, f) == ~b.stop => ~acc.stop /\ (acc.ptr >= fStart(f) => b.ptr >= fEndSector(f))

LEMMA TurnKeeps ==
    ASSUME Regions(fsBuf, Files), NEW at \in Nat, NEW want \in Nat, NEW acc \in Accs(at, want), NEW bad,
           NEW i \in 1 .. Len(Files)
    PROVE  LET b == ReadListed(acc, Files[i], bad) IN b \in Accs(at, want) /\ TurnDone(b, acc, Files[i])
<1> DEFINE f == Files[i]
           b == ReadListed(acc, f, bad)
           data == IF acc.ptr >= fEnd(f) THEN acc
                   ELSE IF twin = "VIsoFile2" THEN ReadFileCached(acc, f, bad)
                   ELSE ReadFileOnce(acc, f, bad)
           filled == FillSector(data, f)
           stopped == [filled EXCEPT !.stop = TRUE]
<1>1. /\ fStart(f) \in Nat /\ fEnd(f) \in Nat /\ fEndSector(f) \in Nat /\ fEnd(f) <= fEndSector(f)
      /\ acc.ptr \in Nat
  <2>1. acc.ptr \in Nat
    BY DEF Accs, AccSet
  <2> QED
    BY <2>1, RegionFacts
<1>2. CASE acc.stop \/ acc.ptr < fStart(f) \/ acc.ptr >= fEndSector(f)
  <2>1. b = acc
    BY <1>2, Zenon DEF ReadListed
  <2>2. TurnDone(acc, acc, f)
    BY <1>1, <1>2 DEF TurnDone
  <2> QED
    BY <2>1, <2>2, Zenon
<1>3. CASE ~(acc.stop \/ acc.ptr < fStart(f) \/ acc.ptr >= fEndSector(f)) /\ f.multipart
  <2>1. b = GiveUp(acc)
    BY <1>3, Zenon DEF ReadListed
  <2>2. GiveUp(acc) \in Accs(at, want) /\ TurnDone(GiveUp(acc), acc, f)
    BY GiveUpKeeps DEF TurnDone
  <2> QED
    BY <2>1, <2>2, Zenon
<1>4. CASE ~(acc.stop \/ acc.ptr < fStart(f) \/ acc.ptr >= fEndSector(f)) /\ ~f.multipart
  <2>1. b = IF filled.left = 0 THEN stopped ELSE filled
    BY <1>4, Zenon DEF ReadListed
  <2>2. fStart(f) <= acc.ptr /\ acc.ptr < fEndSector(f)
    BY <1>1, <1>4
  <2>3. data \in Accs(at, want) /\ (DataRead(data, f) \/ (data = acc /\ acc.ptr >= fEnd(f)))
    <3>1. CASE acc.ptr >= fEnd(f)
      BY <3>1
    <3>2. CASE ~(acc.ptr >= fEnd(f))
      <4>1. acc.ptr < fEnd(f)
        BY <1>1, <3>2
      <4>2. CASE twin = "VIsoFile2"
        <5>1. data = ReadFileCached(acc, f, bad)
          BY <3>2, <4>2
        <5>2. LET c == ReadFileCached(acc, f, bad) IN c \in Accs(at, want) /\ DataRead(c, f)
          BY <2>2, <4>1, <4>2, CachedKeeps
        <5> QED
          BY <5>1, <5>2, Zenon
      <4>3. CASE twin # "VIsoFile2"
        <5>1. data = ReadFileOnce(acc, f, bad)
          BY <3>2, <4>3
        <5>2. LET c == ReadFileOnce(acc, f, bad) IN c \in Accs(at, want) /\ DataRead(c, f)
          BY <2>2, <4>1, OnceKeeps
        <5> QED
          BY <5>1, <5>2, Zenon
      <4> QED
        BY <4>2, <4>3
    <3> QED
      BY <3>1, <3>2
  <2> HIDE DEF data
  <2>4. /\ data.stop \/ data.left = 0 \/ data.ptr >= fEnd(f)
        /\ data.stop \/ data.left = 0 \/ data.ptr <= fEndSector(f)
    BY <1>1, <2>2, <2>3 DEF DataRead
  <2>5. filled \in Accs(at, want) /\ (filled.stop \/ filled.left = 0 \/ filled.ptr = fEndSector(f))
    BY <2>3, <2>4, FillKeeps
  <2> HIDE DEF filled
  <2>6. CASE filled.left = 0
    <3>1. filled \in AccSet
      BY <2>5 DEF Accs
    <3>2. /\ stopped \in AccSet /\ stopped.ptr = filled.ptr /\ stopped.left = filled.left
          /\ stopped.segs = filled.segs /\ stopped.failed = filled.failed
          /\ stopped.lastPath = filled.lastPath /\ stopped.fds = filled.fds
      BY <3>1 DEF AccSet
    <3>3. stopped.stop = TRUE
      BY <3>1 DEF AccSet
    <3> HIDE DEF stopped
    <3>4. stopped \in Accs(at, want) /\ TurnDone(stopped, acc, f)
      BY <2>5, <2>6, <3>2, <3>3 DEF Accs, TurnDone
    <3>5. b = stopped
      BY <2>1, <2>6
    <3> QED
      BY <3>4, <3>5, Zenon
  <2>7. CASE filled.left # 0
    <3>1. b = filled
      BY <2>1, <2>7
    <3>2. TurnDone(filled, acc, f)
      BY <1>1, <1>4, <2>5, <2>7 DEF TurnDone
    <3> QED
      BY <2>5, <3>1, <3>2, Zenon
  <2> QED
    BY <2>6, <2>7
<1> QED
  BY <1>2, <1>3, <1>4, Zenon

ReadAll(ram, bad) ==
    LET upto[i \in 0 .. Len(Files)] == IF i = 0 THEN ram ELSE ReadListed(upto[i - 1], Files[i], bad)
    IN  upto[Len(Files)]

\* The loop over all files gets to the padding unless it stops.
LEMMA LoopKeeps ==
    ASSUME Regions(fsBuf, Files), NEW at \in Nat, NEW want \in Nat, NEW ram \in Accs(at, want), NEW bad,
           ram.ptr >= fsBuf.fsBufSize
    PROVE  LET b == ReadAll(ram, bad)
           IN  b \in Accs(at, want) /\ (b.stop \/ b.ptr >= fsBuf.padAreaStart)
<1> DEFINE n == Len(Files)
           V == Accs(at, want)
           Listed1(t, i) == ReadListed(t, Files[i], bad)
           G == [i \in 1 .. n |-> [t \in V |-> Listed1(t, i)]]
           upto == CHOOSE g : g = [i \in 0 .. n |-> IF i = 0 THEN ram ELSE Listed1(g[i - 1], i)]
<1>1. n \in Nat /\ ram \in V
  BY DEF Regions
<1>2. ASSUME NEW t \in V, NEW i \in 1 .. n PROVE Listed1(t, i) \in V /\ TurnDone(Listed1(t, i), t, Files[i])
  BY TurnKeeps
<1> HIDE DEF n, V, Listed1
<1>3. IsStep(G, n, V) /\ \A i \in 1 .. n : \A t \in V : G[i][t] = Listed1(t, i)
  BY <1>2 DEF IsStep
<1> HIDE DEF G
<1>4. PICK f : Solves(f, n, V, ram, G)
  BY <1>1, <1>3, Solution
<1>5. f = [i \in 0 .. n |-> IF i = 0 THEN ram ELSE Listed1(f[i - 1], i)]
  <2>1. f \in [0 .. n -> V] /\ f[0] = ram /\ \A i \in 1 .. n : f[i] = G[i][f[i - 1]]
    BY <1>4 DEF Solves
  <2>2. ASSUME NEW i \in 0 .. n, i # 0 PROVE f[i] = Listed1(f[i - 1], i)
    <3>1. i \in 1 .. n /\ i - 1 \in 0 .. n
      BY <1>1, <2>2
    <3>2. f[i - 1] \in V /\ f[i] = G[i][f[i - 1]]
      BY <2>1, <3>1
    <3> QED
      BY <1>3, <3>1, <3>2
  <2> QED
    BY <2>1, <2>2, Zenon
<1>6. upto = [i \in 0 .. n |-> IF i = 0 THEN ram ELSE Listed1(upto[i - 1], i)]
  BY <1>5
<1> HIDE DEF upto
<1>7. upto[0] = ram /\ \A i \in 1 .. n : upto[i] = Listed1(upto[i - 1], i)
  <2>1. \A i \in 1 .. n : i \in 0 .. n /\ i # 0
    BY <1>1
  <2>2. 0 \in 0 .. n
    BY <1>1
  <2> QED
    BY <1>6, <2>1, <2>2, Zenon
<1>8. \A i \in 0 .. n : upto[i] \in V
  <2>1. \A i \in 1 .. n : upto[i - 1] \in V => upto[i] = G[i][upto[i - 1]]
    BY <1>3, <1>7
  <2> QED
    BY <1>1, <1>4, <1>7, <2>1, OneSolution
<1> DEFINE Bound(i) == IF i = 0 THEN fsBuf.fsBufSize ELSE fEndSector(Files[i])
           C == {k \in Nat : k > n \/ upto[k].stop \/ upto[k].ptr >= Bound(k)}
<1>9. 0 \in C
  BY <1>7
<1>10. ASSUME NEW k \in Nat, k \in C PROVE k + 1 \in C
  <2>1. CASE k + 1 > n
    BY <2>1
  <2>2. CASE k + 1 <= n
    <3>1. k + 1 \in 1 .. n /\ k \in 0 .. n /\ (k + 1) - 1 = k /\ ~(k > n)
      BY <1>1, <2>2
    <3>2. upto[k] \in V /\ upto[k + 1] = Listed1(upto[k], k + 1)
      BY <1>7, <1>8, <3>1
    <3>3. TurnDone(upto[k + 1], upto[k], Files[k + 1])
      BY <1>2, <3>1, <3>2
    <3>4. fStart(Files[k + 1]) = Bound(k)
      <4>1. StartOf(Files[k + 1], fsBuf) = IF k + 1 = 1 THEN fsBuf.fsBufSize ELSE EndSectorOf(Files[(k + 1) - 1], fsBuf)
        BY <3>1 DEF Regions, n
      <4>2. fStart(Files[k + 1]) = StartOf(Files[k + 1], fsBuf) /\ fEndSector(Files[k]) = EndSectorOf(Files[k], fsBuf)
        BY RegionOf
      <4>3. k + 1 = 1 <=> k = 0
        OBVIOUS
      <4> QED
        BY <3>1, <4>1, <4>2, <4>3, Zenon
    <3>5. Bound(k + 1) = fEndSector(Files[k + 1])
      OBVIOUS
    <3> HIDE DEF Bound
    <3>6. upto[k].stop \/ upto[k].ptr >= Bound(k)
      BY <1>10, <3>1, Zenon
    <3>7. upto[k + 1].stop \/ upto[k + 1].ptr >= Bound(k + 1)
      BY <3>3, <3>4, <3>5, <3>6, Zenon DEF TurnDone
    <3>8. k + 1 \in Nat
      OBVIOUS
    <3> QED
      BY <3>7, <3>8, Zenon
  <2> QED
    BY <1>1, <2>1, <2>2
<1>11. n \in C
  <2> HIDE DEF C
  <2> QED
    BY <1>1, <1>9, <1>10, SetInduction
<1>12. upto[n].stop \/ upto[n].ptr >= Bound(n)
  BY <1>1, <1>11
<1>13. Bound(n) = fsBuf.padAreaStart
  <2>1. n = 0 <=> Files = << >>
    BY DEF Regions, n
  <2>2. fsBuf.padAreaStart = IF Files = << >> THEN fsBuf.fsBufSize ELSE EndSectorOf(Files[n], fsBuf)
    BY DEF Regions, n
  <2> QED
    BY <2>1, <2>2, RegionOf
<1> HIDE DEF Bound, C
<1>14. upto[n] \in V /\ (upto[n].stop \/ upto[n].ptr >= fsBuf.padAreaStart)
  BY <1>1, <1>8, <1>12, <1>13
<1> QED
  BY <1>14, Zenon DEF n, V, Listed1, upto, ReadAll

\* All that was wanted, or all up to the end of the image.
WholeRead(acc, at, want) == ~acc.failed => acc.ptr - at = Smaller(want, fsBuf.totalSize - at)

LEMMA ReadKeeps ==
    ASSUME Regions(fsBuf, Files), vFilePtr \in Nat, vFilePtr < fsBuf.totalSize, NEW nbyte \in Nat, NEW bad,
           lastPath \in {None} \cup Paths, OneDescriptor(lastPath, fds)
    PROVE  LET b == ReadImage(nbyte, bad)
           IN  b \in Accs(vFilePtr, nbyte) /\ WholeRead(b, vFilePtr, nbyte)
<1> DEFINE at == vFilePtr
           size == fsBuf.fsBufSize
           pad == fsBuf.padAreaStart
           total == fsBuf.totalSize
           start == [ptr |-> vFilePtr, left |-> nbyte, segs |-> << >>, stop |-> FALSE, failed |-> FALSE,
                     lastPath |-> lastPath, fds |-> fds]
           ram == IF vFilePtr < fsBuf.fsBufSize
                  THEN Take(start, "fsBuf", vFilePtr, Smaller(fsBuf.fsBufSize - vFilePtr, nbyte))
                  ELSE start
           looped == ReadAll(ram, bad)
           listed == IF ram.left = 0 \/ ram.ptr >= fsBuf.padAreaStart THEN ram ELSE looped
           zeros == Smaller(fsBuf.padAreaSize - (listed.ptr - fsBuf.padAreaStart), listed.left)
           b == ReadImage(nbyte, bad)
<1>0. b = IF listed.stop \/ listed.left = 0 \/ listed.ptr < fsBuf.padAreaStart THEN listed
          ELSE Take(listed, "zero", 0, zeros)
  BY Zenon DEF ReadImage, ReadAll
<1>1. /\ size \in Nat /\ pad \in Nat /\ total \in Nat /\ fsBuf.padAreaSize \in Nat
      /\ size <= pad /\ total = pad + fsBuf.padAreaSize
  BY DEF Regions
<1>2. start \in Accs(at, nbyte) /\ start.ptr = at /\ start.left = nbyte
  <2>1. << >> \in Seq(SegSet) /\ fds \in Int
    BY DEF OneDescriptor
  <2>2. start \in AccSet
    BY <2>1 DEF AccSet
  <2>3. Covers(start.segs, at, start.ptr, fsBuf, Files)
    BY CoversNothing
  <2>4. start.failed = FALSE /\ start.stop = FALSE
    OBVIOUS
  <2>5. start.ptr + start.left = at + nbyte /\ start.ptr <= total
    BY <1>1
  <2>6. OneDescriptor(start.lastPath, start.fds)
    OBVIOUS
  <2>7. start.ptr = at /\ start.left = nbyte
    OBVIOUS
  <2> HIDE DEF start
  <2> QED
    BY <2>2, <2>3, <2>4, <2>5, <2>6, <2>7 DEF Accs
<1> HIDE DEF start
<1>3. ram \in Accs(at, nbyte) /\ (ram.left = 0 \/ ram.ptr >= size)
  <2>1. CASE at < size
    <3> DEFINE n == Smaller(size - at, nbyte)
               x == Segment("fsBuf", at, at, n)
    <3>1. n = IF size - at < nbyte THEN size - at ELSE nbyte
      BY DEF Smaller
    <3> HIDE DEF n
    <3>2. n \in Nat /\ n <= nbyte /\ at + n <= size /\ at + n <= total /\ (n = nbyte \/ at + n = size)
      BY <1>1, <2>1, <3>1
    <3>3. RightOf(x, fsBuf, Files)
      <4>1. x.from = "fsBuf" /\ x.off = x.at /\ x.at = at /\ x.len = n
        BY DEF Segment
      <4> HIDE DEF x
      <4> QED
        BY <3>2, <4>1 DEF RightOf
    <3> DEFINE t == Take(start, "fsBuf", at, n)
    <3>4. t \in Accs(at, nbyte) /\ TakenFrom(t, start, n)
      <4>1. "fsBuf" \in {"fsBuf", "zero"} \cup Paths
        OBVIOUS
      <4>2. n <= start.left /\ start.ptr + n <= fsBuf.totalSize
        BY <1>2, <3>2
      <4>3. RightOf(Segment("fsBuf", start.ptr, at, n), fsBuf, Files)
        BY <1>2, <3>3
      <4> QED
        BY <1>2, <3>2, <4>1, <4>2, <4>3, TakeKeeps
    <3>5. ram = t
      BY <2>1 DEF n
    <3> HIDE DEF t, ram
    <3>6. t.ptr = at + n /\ t.left = nbyte - n
      BY <1>2, <3>4 DEF TakenFrom
    <3> QED
      BY <1>1, <3>2, <3>4, <3>5, <3>6
  <2>2. CASE ~(at < size)
    BY <1>1, <1>2, <2>2
  <2> QED
    BY <2>1, <2>2
<1> HIDE DEF ram
<1>4. listed \in Accs(at, nbyte) /\ (listed.stop \/ listed.left = 0 \/ listed.ptr >= pad)
  <2>1. CASE ram.left = 0 \/ ram.ptr >= pad
    BY <1>3, <2>1
  <2>2. CASE ~(ram.left = 0 \/ ram.ptr >= pad)
    <3>1. listed = looped
      BY <2>2
    <3>2. ram.ptr >= fsBuf.fsBufSize
      BY <1>3, <2>2
    <3>3. looped \in Accs(at, nbyte) /\ (looped.stop \/ looped.ptr >= pad)
      BY <1>3, <3>2, LoopKeeps
    <3> HIDE DEF listed, looped
    <3> QED
      BY <3>1, <3>3
  <2> QED
    BY <2>1, <2>2
<1> HIDE DEF listed, looped, b
<1>5. /\ listed.ptr \in Nat /\ listed.left \in Nat /\ listed.ptr <= total
      /\ listed.ptr + listed.left = at + nbyte
  BY <1>4 DEF Accs, AccSet
<1>6. CASE listed.stop \/ listed.left = 0 \/ listed.ptr < pad
  <2>1. b = listed
    BY <1>0, <1>6
  <2>2. ~listed.failed => listed.left = 0
    <3>1. listed.stop => listed.failed \/ listed.left = 0
      BY <1>4 DEF Accs
    <3> QED
      BY <1>1, <1>4, <1>5, <1>6, <3>1
  <2>3. listed.left = 0 => listed.ptr - at = Smaller(nbyte, total - at)
    BY <1>1, <1>5 DEF Smaller
  <2> QED
    BY <1>4, <2>1, <2>2, <2>3 DEF WholeRead, b
<1>7. CASE ~(listed.stop \/ listed.left = 0 \/ listed.ptr < pad)
  <2> DEFINE x == Segment("zero", listed.ptr, 0, zeros)
  <2>1. b = Take(listed, "zero", 0, zeros) /\ pad <= listed.ptr
    BY <1>0, <1>1, <1>5, <1>7
  <2>2. zeros = IF total - listed.ptr < listed.left THEN total - listed.ptr ELSE listed.left
    <3>1. fsBuf.padAreaSize - (listed.ptr - pad) = total - listed.ptr
      BY <1>1, <1>5
    <3> QED
      BY <3>1 DEF Smaller
  <2> HIDE DEF zeros
  <2>3. /\ zeros \in Nat /\ zeros <= listed.left /\ listed.ptr + zeros <= total
        /\ zeros = listed.left \/ listed.ptr + zeros = total
    BY <1>1, <1>5, <2>2
  <2>4. RightOf(x, fsBuf, Files)
    <3>1. x.from = "zero" /\ x.at = listed.ptr /\ x.len = zeros
      BY DEF Segment
    <3> HIDE DEF x
    <3> QED
      BY <2>1, <2>3, <3>1 DEF RightOf
  <2>5. b \in Accs(at, nbyte) /\ TakenFrom(b, listed, zeros)
    <3>1. 0 \in Nat /\ "zero" \in {"fsBuf", "zero"} \cup Paths
      OBVIOUS
    <3> QED
      BY <1>4, <2>1, <2>3, <2>4, <3>1, TakeKeeps
  <2>6. b.ptr = listed.ptr + zeros
    BY <2>5 DEF TakenFrom
  <2>7. b.ptr - at = Smaller(nbyte, total - at)
    BY <1>1, <1>5, <2>3, <2>6 DEF Smaller
  <2> QED
    BY <2>5, <2>7 DEF WholeRead, b
<1> QED
  BY <1>6, <1>7

-----------------------------------------------------------------------------
(* The image in use *)

\* What holds after a read.
LEMMA ReadRight ==
    ASSUME BuildInv, Kept, pc = "ready", NEW nbyte \in Nat, NEW bad, Read(nbyte, bad),
           UNCHANGED buildVars, twin' = twin
    PROVE  /\ vFilePtr' \in Int /\ lastPath' \in {None} \cup Paths /\ OneDescriptor(lastPath, fds)'
           /\ Right(result', fsBuf, Files)
           /\ result'.at = vFilePtr /\ result'.n \in Int /\ result'.failed \in BOOLEAN
           /\ vFilePtr \in Nat /\ vFilePtr < fsBuf.totalSize /\ nbyte # 0 /\ ~result'.failed =>
                 /\ result'.n = Smaller(nbyte, fsBuf.totalSize - vFilePtr)
                 /\ vFilePtr' = vFilePtr + result'.n
<1>1. Regions(fsBuf, Files)
  BY ImageRegions
<1>2. vFilePtr \in Int /\ lastPath \in {None} \cup Paths /\ OneDescriptor(lastPath, fds) /\ fsBuf.totalSize \in Nat
  BY <1>1 DEF Kept, Regions
<1>3. CASE vFilePtr >= fsBuf.totalSize \/ nbyte = 0
  <2>1. /\ result' = [NoResult EXCEPT !.at = vFilePtr, !.want = nbyte]
        /\ UNCHANGED <<vFilePtr, lastPath, fds>>
    BY <1>3, Zenon DEF Read
  <2>2. result'.at = vFilePtr /\ result'.n = 0
    BY <2>1 DEF NoResult
  <2>3. result'.failed = FALSE
    BY <2>1 DEF NoResult
  <2>4. OneDescriptor(lastPath, fds)'
    BY <1>2, <2>1 DEF OneDescriptor
  <2>5. Right(result', fsBuf, Files) /\ result'.n \in Int
    BY <2>2 DEF Right
  <2>6. ~(vFilePtr < fsBuf.totalSize /\ nbyte # 0)
    BY <1>2, <1>3
  <2>7. result'.failed \in BOOLEAN
    BY <2>3
  <2> QED
    BY <1>2, <2>1, <2>2, <2>4, <2>5, <2>6, <2>7
<1>4. CASE ~(vFilePtr >= fsBuf.totalSize \/ nbyte = 0) /\ vFilePtr < 0
  <2>1. /\ result' = [NoResult EXCEPT !.at = vFilePtr, !.want = nbyte, !.n = -1]
        /\ fd_reset /\ vFilePtr' = vFilePtr
    BY <1>4, Zenon DEF Read
  <2>2. result'.at = vFilePtr /\ result'.n = -1
    BY <2>1 DEF NoResult
  <2>3. result'.failed = FALSE
    BY <2>1 DEF NoResult
  <2>4. OneDescriptor(lastPath, fds)' /\ lastPath' \in {None} \cup Paths
    BY <1>2, <2>1 DEF OneDescriptor, fd_reset
  <2>5. Right(result', fsBuf, Files) /\ result'.n \in Int
    BY <2>2 DEF Right
  <2>6. vFilePtr \notin Nat
    BY <1>2, <1>4
  <2>7. result'.failed \in BOOLEAN
    BY <2>3
  <2> QED
    BY <1>2, <2>1, <2>2, <2>4, <2>5, <2>6, <2>7
<1>5. CASE ~(vFilePtr >= fsBuf.totalSize \/ nbyte = 0) /\ ~(vFilePtr < 0)
  <2> DEFINE acc == ReadImage(nbyte, bad)
  <2>1. /\ result' = [at |-> vFilePtr, want |-> nbyte, n |-> acc.ptr - vFilePtr,
                      failed |-> acc.failed, segs |-> acc.segs]
        /\ vFilePtr' = acc.ptr /\ lastPath' = acc.lastPath /\ fds' = acc.fds
    BY <1>5, Zenon DEF Read
  <2>2. vFilePtr \in Nat /\ vFilePtr < fsBuf.totalSize
    BY <1>2, <1>5
  <2>3. acc \in Accs(vFilePtr, nbyte) /\ WholeRead(acc, vFilePtr, nbyte)
    BY <1>1, <1>2, <2>2, ReadKeeps
  <2> HIDE DEF acc
  <2>4. /\ acc \in AccSet /\ Covers(acc.segs, vFilePtr, acc.ptr, fsBuf, Files)
        /\ OneDescriptor(acc.lastPath, acc.fds)
    BY <2>3 DEF Accs
  <2>5. acc.ptr \in Nat /\ acc.failed \in BOOLEAN /\ acc.lastPath \in {None} \cup Paths
    BY <2>4 DEF AccSet
  <2>6. /\ result'.at = vFilePtr /\ result'.want = nbyte /\ result'.n = acc.ptr - vFilePtr
        /\ result'.segs = acc.segs
    BY <2>1
  <2>7. result'.failed = acc.failed
    BY <2>1
  <2>8. OneDescriptor(lastPath, fds)'
    BY <2>1, <2>4 DEF OneDescriptor
  <2>9. result'.at + result'.n = acc.ptr /\ result'.n \in Int
    BY <2>2, <2>5, <2>6
  <2>10. ~result'.failed => result'.n = Smaller(nbyte, fsBuf.totalSize - vFilePtr)
    BY <2>3, <2>6, <2>7 DEF WholeRead
  <2>11. Right(result', fsBuf, Files)
    BY <2>2, <2>4, <2>6, <2>9, <2>10 DEF Right
  <2>12. vFilePtr' = vFilePtr + result'.n
    BY <2>1, <2>6, <2>9
  <2> QED
    BY <2>1, <2>5, <2>6, <2>7, <2>8, <2>9, <2>10, <2>11, <2>12
<1> QED
  BY <1>3, <1>4, <1>5

LEMMA ReadInitially ==
    ASSUME Init
    PROVE  ReadInv
<1>1. BuildInv
  BY BuildInitially DEF Init
<1>2. Kept
  BY DEF Init, Kept, BuildInit, OneDescriptor, InUse
<1>3. Dumped
  <2>1. output = << >> /\ use = "opening"
    BY DEF Init
  <2>2. << >> \in Seq(OutSet) /\ Len(<< >>) = 0
    OBVIOUS
  <2> QED
    BY <2>1, <2>2 DEF Dumped, Exact
<1>4. Right(result, fsBuf, Files)
  <2>1. result.n = 0
    BY DEF Init, NoResult
  <2> QED
    BY <2>1 DEF Right
<1> QED
  BY <1>1, <1>2, <1>3, <1>4 DEF ReadInv

LEMMA BuildersEnd ==
    ASSUME BuildNext
    PROVE  pc # "ready" /\ pc' # "deleted"
<1>1. ASSUME Open PROVE pc # "ready" /\ pc' # "deleted"
  BY <1>1 DEF Open, Return, get_title_id, GenerateFails
<1>2. ASSUME ScanDirs PROVE pc # "ready" /\ pc' # "deleted"
  BY <1>2, Zenon DEF ScanDirs, Return, Advance
<1>3. ASSUME ScanFiles PROVE pc # "ready" /\ pc' # "deleted"
  BY <1>3, Zenon DEF ScanFiles, Return, Advance
<1>4. ASSUME NEW fs \in FS, BuildContent(fs) PROVE pc # "ready" /\ pc' # "deleted"
  <2>1. pc = fs /\ (pc' = "failed" \/ pc' = pc \/ pc' = IF fs = "iso" THEN "joliet" ELSE "tables")
    BY <1>4, Zenon DEF BuildContent, Return, Advance
  <2> QED
    BY <2>1 DEF FS
<1>5. ASSUME BuildPathTables \/ FixLba \/ Write PROVE pc # "ready" /\ pc' # "deleted"
  BY <1>5 DEF BuildPathTables, FixLba, Write, Return
<1> QED
  BY <1>1, <1>2, <1>3, <1>4, <1>5 DEF BuildNext

LEMMA BuildStepKeeps ==
    ASSUME ReadInv, BuildNext, UNCHANGED readVars
    PROVE  ReadInv'
<1>1. BuildInv /\ Kept /\ Dumped /\ UNCHANGED <<twin, use, vFilePtr, lastPath, fds, result, output>>
  BY DEF ReadInv, readVars
<1>2. pc # "ready" /\ pc' # "deleted" /\ BuildInv'
  BY <1>1, BuildersEnd, BuildKeeps
<1>3. use \notin InUse /\ use \in {"opening", "over"}
  BY <1>1, <1>2 DEF Kept
<1>4. Kept'
  BY <1>1, <1>2, <1>3 DEF Kept, OneDescriptor
<1>5. Dumped'
  BY <1>1, <1>3 DEF Dumped, InUse
<1>6. use' # "over" => Right(result', fsBuf', Files')
  <2>1. use' # "over" => result'.n = 0
    BY <1>1, <1>3 DEF Kept, NoResult
  <2> QED
    BY <2>1 DEF Right
<1> QED
  BY <1>2, <1>4, <1>5, <1>6 DEF ReadInv

LEMMA OpenedKeeps ==
    ASSUME ReadInv, Opened
    PROVE  ReadInv'
<1>1. /\ BuildInv /\ Kept /\ Dumped /\ use = "opening" /\ UNCHANGED buildVars
      /\ UNCHANGED <<twin, vFilePtr, lastPath, fds, result, output>>
  BY DEF ReadInv, Opened
<1>2. BuildInv' /\ Files' = Files /\ pc' = pc /\ fsBuf' = fsBuf
  BY <1>1, BuildSame DEF buildVars
<1>3. (pc = "ready" /\ use' \in {"serving", "dumping"}) \/ use' = "over"
  BY DEF Opened
<1>4. Kept'
  BY <1>1, <1>2, <1>3 DEF Kept, OneDescriptor, InUse
<1>5. Dumped'
  <2>1. use' = "dumping" => fsBuf.totalSize \in Nat /\ 0 < fsBuf.totalSize
    <3>1. use' = "dumping" => Regions(fsBuf, Files)
      BY <1>1, <1>3, ImageRegions
    <3> QED
      BY <3>1 DEF Regions
  <2>2. Offset(output) = 0 /\ Reached(output) = 0 /\ vFilePtr = 0
    BY <1>1 DEF Kept, Offset, Reached
  <2>3. use' # "dumped"
    BY <1>3
  <2>4. fsBuf'.totalSize = fsBuf.totalSize /\ vFilePtr' = vFilePtr /\ output' = output
    BY <1>1, <1>2
  <2> QED
    BY <1>1, <2>1, <2>2, <2>3, <2>4 DEF Dumped
<1>6. Right(result', fsBuf', Files')
  <2>1. result'.n = 0
    BY <1>1 DEF Kept, NoResult
  <2> QED
    BY <2>1 DEF Right
<1> QED
  BY <1>2, <1>4, <1>5, <1>6 DEF ReadInv

LEMMA SeekKeeps ==
    ASSUME ReadInv, Seek
    PROVE  ReadInv'
<1>1. /\ BuildInv /\ Kept /\ Dumped /\ use = "serving" /\ UNCHANGED buildVars
      /\ UNCHANGED <<twin, use, lastPath, fds, output>> /\ result' = NoResult
  BY DEF ReadInv, Seek
<1>2. BuildInv' /\ Files' = Files /\ pc' = pc /\ fsBuf' = fsBuf
  BY <1>1, BuildSame DEF buildVars
<1>3. vFilePtr' \in Int
  <2>1. Regions(fsBuf, Files) /\ vFilePtr \in Int
    BY <1>1, ImageRegions DEF Kept, InUse
  <2>2. fsBuf.totalSize \in Nat /\ fsBuf.fsBufSize \in Nat /\ fsBuf.padAreaStart \in Nat
    BY <2>1 DEF Regions
  <2>3. \A i \in 1 .. Len(Files) : fEnd(Files[i]) \in Int /\ fEndSector(Files[i]) \in Int
    BY <2>1, RegionFacts
  <2>4. ASSUME NEW to \in Edges PROVE to \in Int
    <3> DEFINE S == {0, fsBuf.fsBufSize, fsBuf.padAreaStart, fsBuf.totalSize}
                    \cup UNION {{fEnd(Files[i]), fEndSector(Files[i])} : i \in 1 .. Len(Files)}
    <3>1. \A a \in S : a \in Int
      BY <2>2, <2>3
    <3>2. Edges = UNION {{a - 1, a} : a \in S}
      BY DEF Edges
    <3> HIDE DEF S
    <3>3. PICK a \in S : to \in {a - 1, a}
      BY <3>2
    <3> QED
      BY <3>1, <3>3
  <2>5. PICK to \in Edges : vFilePtr' \in {seek(to, "SEEK_SET"), seek(to - vFilePtr, "SEEK_CUR"),
                                          seek(to - fsBuf.totalSize, "SEEK_END")}
    BY DEF Seek
  <2>6. \A n : /\ seek(n, "SEEK_SET") = n /\ seek(n, "SEEK_CUR") = vFilePtr + n
               /\ seek(n, "SEEK_END") = fsBuf.totalSize + n
    BY DEF seek
  <2> QED
    BY <2>1, <2>2, <2>4, <2>5, <2>6
<1>4. Kept'
  BY <1>1, <1>2, <1>3 DEF Kept, OneDescriptor, InUse
<1>5. Dumped'
  BY <1>1, <1>2 DEF Dumped
<1>6. Right(result', fsBuf', Files')
  <2>1. result'.n = 0
    BY <1>1 DEF NoResult
  <2> QED
    BY <2>1 DEF Right
<1> QED
  BY <1>2, <1>4, <1>5, <1>6 DEF ReadInv

LEMMA ConsoleReadKeeps ==
    ASSUME ReadInv, ConsoleRead
    PROVE  ReadInv'
<1>1. /\ BuildInv /\ Kept /\ Dumped /\ use = "serving" /\ UNCHANGED buildVars
      /\ UNCHANGED <<twin, use, output>>
  BY DEF ReadInv, ConsoleRead
<1>2. BuildInv' /\ Files' = Files /\ pc' = pc /\ fsBuf' = fsBuf
  BY <1>1, BuildSame DEF buildVars
<1>3. pc = "ready"
  BY <1>1 DEF Kept, InUse
<1>4. PICK nbyte \in Lengths, bad \in BadCalls : Read(nbyte, bad)
  BY DEF ConsoleRead
<1>5. nbyte \in Nat
  BY DumpAssumption
<1>6. /\ vFilePtr' \in Int /\ lastPath' \in {None} \cup Paths /\ OneDescriptor(lastPath, fds)'
      /\ Right(result', fsBuf, Files)
  BY <1>1, <1>3, <1>4, <1>5, ReadRight
<1>7. Kept'
  BY <1>1, <1>2, <1>3, <1>6 DEF Kept, InUse
<1>8. Dumped'
  BY <1>1, <1>2 DEF Dumped
<1>9. Right(result', fsBuf', Files')
  BY <1>2, <1>6
<1> QED
  BY <1>2, <1>7, <1>8, <1>9 DEF ReadInv

LEMMA ReadSame ==
    ASSUME ReadInv, UNCHANGED buildVars, UNCHANGED <<twin, use, vFilePtr, lastPath, fds, result, output>>
    PROVE  ReadInv'
<1>1. BuildInv /\ Kept /\ Dumped
  BY DEF ReadInv
<1>2. BuildInv' /\ Files' = Files /\ pc' = pc /\ fsBuf' = fsBuf
  BY <1>1, BuildSame DEF buildVars
<1>3. Kept' /\ Dumped'
  BY <1>1, <1>2 DEF Kept, OneDescriptor, Dumped
<1>4. use' # "over" => Right(result', fsBuf', Files')
  BY <1>2 DEF ReadInv
<1> QED
  BY <1>2, <1>3, <1>4 DEF ReadInv

LEMMA DeleteKeeps ==
    ASSUME ReadInv, Delete
    PROVE  ReadInv'
<1>1. /\ BuildInv /\ Kept /\ Dumped /\ Reset /\ pc' = "deleted" /\ vFilePtr' = 0 /\ fd_reset
      /\ use' = "over" /\ UNCHANGED <<tree, twin, output>>
  BY DEF ReadInv, Delete
<1>2. BuildInv'
  BY <1>1, ResetKeeps DEF BuildInv
<1>3. Kept'
  <2>1. OneDescriptor(lastPath, fds)'
    BY <1>1 DEF Kept, OneDescriptor, fd_reset
  <2> QED
    BY <1>1, <2>1 DEF Kept, fd_reset, InUse
<1>4. Dumped'
  BY <1>1 DEF Dumped
<1> QED
  BY <1>1, <1>2, <1>3, <1>4 DEF ReadInv

LEMMA DumpKeeps ==
    ASSUME ReadInv, Dump
    PROVE  ReadInv'
<1> DEFINE total == fsBuf.totalSize
           offset == Offset(output)
           size == Smaller(DUMP_SIZE, total - offset)
           block(w) == [at |-> offset, want |-> size, from |-> result'.at, n |-> result'.n,
                        failed |-> result'.failed, to |-> Reached(output), written |-> w]
           k == Len(output)
<1>1. BuildInv /\ Kept /\ Dumped /\ use = "dumping" /\ UNCHANGED buildVars /\ twin' = twin
  BY DEF ReadInv, Dump
<1>2. BuildInv' /\ Files' = Files /\ pc' = pc /\ fsBuf' = fsBuf /\ pc = "ready"
  BY <1>1, BuildSame DEF buildVars, Kept, InUse
<1>3. (IF output = << >> THEN 0 ELSE Last(output).at + Last(output).want) = offset
  BY DEF Offset, Last
<1>4. /\ \E bad \in BadCalls : Read(size, bad)
      /\ \E w \in {-1, size - 1, size} : output' = Append(output, block(w))
      /\ use' = IF offset + size = total THEN "dumped" ELSE "dumping"
  BY <1>3, Zenon DEF Dump
<1>5. output \in Seq(OutSet) /\ offset \in Nat /\ offset < total /\ total \in Nat
  <2>1. output \in Seq(OutSet) /\ offset < total
    BY <1>1 DEF Dumped
  <2>2. offset \in Nat
    <3>1. \A o \in OutSet : o.at + o.want \in Nat
      BY DEF OutSet
    <3>2. output # << >> => output[Len(output)] \in OutSet
      BY <2>1
    <3> QED
      BY <3>1, <3>2 DEF Offset
  <2>3. total \in Nat
    BY <1>1, <1>2, ImageRegions DEF Regions
  <2> QED
    BY <2>1, <2>2, <2>3
<1>6. Exact(output) /\ (DoneTo(output, k) => vFilePtr = offset /\ Reached(output) = offset)
  BY <1>1 DEF Dumped
<1>0. Reached(output) \in Int
  <2>1. \A o \in OutSet : o.to \in Int /\ o.written \in Int
    BY DEF OutSet
  <2>2. output # << >> => Last(output) \in OutSet
    BY <1>5 DEF Last
  <2> QED
    BY <2>1, <2>2 DEF Reached
<1> HIDE DEF total, offset
<1>7. size \in Nat /\ size # 0 /\ size <= total - offset
  BY <1>5, DumpAssumption DEF Smaller
<1> HIDE DEF size
<1>8. PICK bad : Read(size, bad)
  BY <1>4
<1>20. PICK w \in {-1, size - 1, size} : output' = Append(output, block(w))
  BY <1>4
<1> DEFINE x == block(w)
<1>9. /\ vFilePtr' \in Int /\ lastPath' \in {None} \cup Paths /\ OneDescriptor(lastPath, fds)'
      /\ Right(result', fsBuf, Files)
      /\ result'.at = vFilePtr /\ result'.n \in Int /\ result'.failed \in BOOLEAN
      /\ vFilePtr \in Nat /\ vFilePtr < fsBuf.totalSize /\ size # 0 /\ ~result'.failed =>
            /\ result'.n = Smaller(size, fsBuf.totalSize - vFilePtr)
            /\ vFilePtr' = vFilePtr + result'.n
  BY <1>1, <1>2, <1>7, <1>8, ReadRight
<1>10. x \in OutSet /\ x.at = offset /\ x.want = size /\ x.from = vFilePtr /\ x.n = result'.n
  <2>1. vFilePtr \in Int /\ w \in Int
    BY <1>1, <1>7 DEF Kept
  <2> QED
    BY <1>0, <1>5, <1>7, <1>9, <2>1 DEF OutSet
<1>11. x.failed = result'.failed /\ x.to = Reached(output) /\ x.written = w
  OBVIOUS
<1> HIDE DEF x
<1>12. /\ output' \in Seq(OutSet) /\ k \in Nat /\ Len(output') = k + 1 /\ output'[k + 1] = x
       /\ \A i \in 1 .. k : output'[i] = output[i]
  <2> HIDE DEF OutSet
  <2> QED
    BY <1>5, <1>10, <1>20 DEF x
<1>13. /\ output' # << >> /\ Offset(output') = offset + size
       /\ Reached(output') = Reached(output) + IF w > 0 THEN w ELSE 0
  <2>1. output' # << >> /\ output'[Len(output')] = x
    BY <1>12
  <2> QED
    BY <1>10, <1>11, <2>1 DEF Offset, Reached, Last
<1>14. /\ DoneTo(output', k) => InItsPlace(x)
       /\ DoneTo(output', k + 1) => vFilePtr' = offset + size /\ Reached(output') = offset + size
  <2>1. DoneTo(output', k + 1) => DoneTo(output', k) /\ Done(x)
    BY <1>12 DEF DoneTo
  <2> SUFFICES ASSUME DoneTo(output', k)
               PROVE  /\ InItsPlace(x)
                      /\ Done(x) => vFilePtr' = offset + size /\ Reached(output') = offset + size
    BY <2>1
  <2>2. vFilePtr = offset /\ Reached(output) = offset
    BY <1>6, <1>12 DEF DoneTo
  <2>3. ~result'.failed => result'.n = size /\ vFilePtr' = offset + size
    <3>1. vFilePtr \in Nat /\ vFilePtr < fsBuf.totalSize
      BY <1>5, <2>2 DEF total
    <3>2. ~result'.failed => result'.n = Smaller(size, total - offset) /\ vFilePtr' = vFilePtr + result'.n
      BY <1>7, <1>9, <2>2, <3>1 DEF total
    <3>3. Smaller(size, total - offset) = size
      BY <1>5, <1>7 DEF Smaller
    <3> QED
      BY <2>2, <3>2, <3>3
  <2>4. InItsPlace(x)
    BY <1>10, <1>11, <2>2, <2>3 DEF InItsPlace
  <2>5. ASSUME Done(x) PROVE vFilePtr' = offset + size /\ Reached(output') = offset + size
    <3>1. ~result'.failed /\ w = size
      BY <1>10, <1>11, <2>5 DEF Done
    <3> QED
      BY <1>7, <1>13, <2>2, <2>3, <3>1
  <2> QED
    BY <2>4, <2>5
<1>19. Exact(output')
  <2> SUFFICES ASSUME NEW i \in 1 .. k + 1, DoneTo(output', i - 1) PROVE InItsPlace(output'[i])
    BY <1>12 DEF Exact
  <2>1. CASE i = k + 1
    <3>1. i - 1 = k
      BY <1>12, <2>1
    <3> QED
      BY <1>12, <1>14, <2>1, <3>1
  <2>2. CASE i \in 1 .. k
    <3>1. DoneTo(output, i - 1)
      BY <1>12, <2>2 DEF DoneTo
    <3> QED
      BY <1>6, <1>12, <2>2, <3>1 DEF Exact
  <2> QED
    BY <1>12, <2>1, <2>2
<1>15. use' = "dumping" => offset + size < total
  BY <1>4, <1>5, <1>7
<1>16. Dumped'
  <2>1. fsBuf'.totalSize = total
    BY <1>2 DEF total
  <2>2. use' = "dumped" => offset + size = total
    BY <1>4
  <2> QED
    BY <1>12, <1>13, <1>14, <1>15, <1>19, <2>1, <2>2, Zenon DEF Dumped
<1>17. Kept'
  <2>1. use' \in {"dumping", "dumped"}
    BY <1>4
  <2> QED
    BY <1>2, <1>9, <2>1 DEF Kept, InUse
<1>18. Right(result', fsBuf', Files')
  BY <1>2, <1>9
<1> QED
  BY <1>2, <1>16, <1>17, <1>18 DEF ReadInv

LEMMA ReadInvariant == Spec => []ReadInv
<1>1. Init => ReadInv
  BY ReadInitially
<1>2. ReadInv /\ [Next]_vars => ReadInv'
  <2> SUFFICES ASSUME ReadInv, [Next]_vars PROVE ReadInv'
    OBVIOUS
  <2>1. CASE BuildNext /\ UNCHANGED readVars
    BY <2>1, BuildStepKeeps
  <2>2. CASE ChangeFile
    BY <2>2, ReadSame DEF ChangeFile
  <2>3. CASE UNCHANGED vars
    BY <2>3, ReadSame DEF vars, readVars
  <2>4. CASE Over
    BY <2>4, ReadSame DEF Over, vars, readVars
  <2> QED
    BY <2>1, <2>2, <2>3, <2>4, OpenedKeeps, SeekKeeps, ConsoleReadKeeps, DumpKeeps, DeleteKeeps DEF Next
<1> QED
  BY <1>1, <1>2, PTL DEF Spec

-----------------------------------------------------------------------------
(* The theorems *)

\* Between two calls VIsoFile2 has the one descriptor that lastPath stands for
\* open or none, VIsoFile none, and nothing is open when the image is deleted,
\* however many reads have failed at whatever file (read(), fd_reset()).
THEOREM DescriptorIsKept == Spec => []DescriptorKept
<1>1. ReadInv => DescriptorKept
  BY DEF ReadInv, Kept, OneDescriptor, DescriptorKept
<1> QED
  BY <1>1, ReadInvariant, PTL

LEMMA RightSegments ==
    ASSUME NEW s, RightOf(s, fsBuf, Files)
    PROVE  RightSegment(s)
<1>1. \A f : fStart(f) = StartOf(f, fsBuf) /\ fEnd(f) = EndOf(f, fsBuf) /\ fEndSector(f) = EndSectorOf(f, fsBuf)
  BY RegionOf
<1>2. CASE s.from = "fsBuf" /\ s.off = s.at /\ s.at + s.len <= fsBuf.fsBufSize
  BY <1>2 DEF RightSegment
<1>3. CASE /\ s.from = "zero"
           /\ \/ fsBuf.padAreaStart <= s.at /\ s.at + s.len <= fsBuf.totalSize
              \/ \E i \in 1 .. Len(Files) :
                    EndOf(Files[i], fsBuf) <= s.at /\ s.at + s.len <= EndSectorOf(Files[i], fsBuf)
  BY <1>1, <1>3 DEF RightSegment
<1>4. CASE \E i \in 1 .. Len(Files) :
              /\ IsPath(s.from) /\ s.from = Path(Files[i]) /\ s.at = StartOf(Files[i], fsBuf) + s.off
              /\ s.off + s.len <= Files[i].size
  BY <1>1, <1>4 DEF RightSegment, IsPath
<1> QED
  BY <1>2, <1>3, <1>4 DEF RightOf

\* Whatever read() of either twin returns, from any place of any image, is what
\* the image has there: the segments follow each other without a gap, each
\* comes from the right place of the right file, and nothing is missing unless
\* a file could not be read.
THEOREM ReadsAreOfTheImage == Spec => []ReadsImage
<1>1. ReadInv => ReadsImage
  <2> SUFFICES ASSUME ReadInv, use # "over", result.n > 0
               PROVE  /\ \A i \in 1 .. Len(result.segs) : RightSegment(result.segs[i])
                      /\ result.segs[1].at = result.at
                      /\ \A i \in 2 .. Len(result.segs) :
                            result.segs[i].at = result.segs[i - 1].at + result.segs[i - 1].len
                      /\ Last(result.segs).at + Last(result.segs).len = result.at + result.n
                      /\ ~result.failed => result.n = Smaller(result.want, fsBuf.totalSize - result.at)
    BY DEF ReadsImage
  <2>1. /\ Covers(result.segs, result.at, result.at + result.n, fsBuf, Files)
        /\ ~result.failed => result.n = Smaller(result.want, fsBuf.totalSize - result.at)
    BY DEF ReadInv, Right
  <2>2. \A i \in 1 .. Len(result.segs) : RightSegment(result.segs[i])
    BY <2>1, RightSegments DEF Covers
  <2>3. Len(result.segs) # 0
    <3>1. result.at \in Int /\ result.n \in Int
      BY DEF ReadInv, Right
    <3> QED
      BY <2>1, <3>1 DEF Covers
  <2> QED
    BY <2>1, <2>2, <2>3 DEF Covers, Last
<1> QED
  BY <1>1, ReadInvariant, PTL

\* Up to the first read that fails and the first write that fails or is short,
\* create_iso() writes every block of the image at its own offset, and if there
\* is none, from the first byte to the last, for an image and a buffer of any
\* size.
THEOREM DumpsAreRight == Spec => []DumpRight
<1>1. ReadInv => DumpRight
  <2> SUFFICES ASSUME ReadInv PROVE DumpRight
    OBVIOUS
  <2>1. Exact(output) /\ output \in Seq(OutSet) /\ (use = "dumped" => output # << >> /\ Offset(output) = fsBuf.totalSize)
    BY DEF ReadInv, Dumped
  <2>2. output # << >> => Len(output) \in 1 .. Len(output)
    BY <2>1
  <2>3. ASSUME use = "dumped", \A i \in 1 .. Len(output) : Done(output[i])
        PROVE  Last(output).to + Last(output).written = fsBuf.totalSize
    <3> DEFINE n == Len(output)
               o == output[n]
    <3>1. n \in 1 .. n /\ o.at + o.want = fsBuf.totalSize
      BY <2>1, <2>2, <2>3 DEF Offset
    <3>2. DoneTo(output, n - 1)
      BY <2>1, <2>3 DEF DoneTo
    <3>3. o.to = o.at /\ o.written = o.want
      BY <2>1, <2>3, <3>1, <3>2 DEF Exact, InItsPlace, Done
    <3> QED
      BY <3>1, <3>3 DEF Last
  <2> QED
    BY <2>1, <2>3 DEF DumpRight, Exact, InItsPlace, DoneTo
<1> QED
  BY <1>1, ReadInvariant, PTL

-----------------------------------------------------------------------------
(* The list has every directory once *)

\* There are no more directories in the list than in the folder.
LEMMA NoMoreDirs ==
    ASSUME NEW t, NEW L, Len(L) \in Nat, Len(t.dirs) \in Nat, ListOnce(L, t),
           \A k \in 1 .. Len(L) : L[k].src \in 1 .. Len(t.dirs)
    PROVE  Len(L) <= Len(t.dirs)
<1> DEFINE n == Len(L)
           m == Len(t.dirs)
           f == [k \in 1 .. n |-> L[k].src]
<1>1. n \in Nat /\ m \in Nat
  OBVIOUS
<1>2. f \in [1 .. n -> 1 .. m] /\ \A j, k \in 1 .. n : f[j] = f[k] => j = k
  BY DEF ListOnce
<1> HIDE DEF n, m, f
<1>3. f \in Injection(1 .. n, 1 .. m)
  BY <1>2 DEF Injection, IsInjective
<1>4. /\ IsFiniteSet(1 .. n) /\ Cardinality(1 .. n) = n
      /\ IsFiniteSet(1 .. m) /\ Cardinality(1 .. m) = m
  <2>1. ASSUME NEW k \in Nat PROVE IsFiniteSet(1 .. k) /\ Cardinality(1 .. k) = k
    <3>1. 1 \in Int /\ k \in Int
      OBVIOUS
    <3>2. IsFiniteSet(1 .. k) /\ Cardinality(1 .. k) = IF 1 > k THEN 0 ELSE k - 1 + 1
      BY <3>1, FS_Interval
    <3> QED
      BY <3>2
  <2> QED
    BY <1>1, <2>1
<1>5. Cardinality(1 .. n) <= Cardinality(1 .. m)
  BY <1>3, <1>4, FS_Injection
<1> QED
  BY <1>4, <1>5 DEF n, m

\* The lists L and M differ in the files and the records of directories only.
SameShape(L, M) ==
    /\ Len(M) = Len(L)
    /\ \A k \in 1 .. Len(L) :
          M[k].src = L[k].src /\ M[k].parent = L[k].parent /\ M[k].children = L[k].children

LEMMA ShapeKeeps ==
    ASSUME NEW L, NEW M, NEW t, Len(L) \in Nat, SameShape(L, M),
           \A k \in 1 .. Len(L) : L[k].parent \in 1 .. Len(L), ListOnce(L, t)
    PROVE  /\ ListOnce(M, t)
           /\ \A k \in 1 .. Len(L) : Complete(L, t, k) => Complete(M, t, k)
<1> DEFINE n == Len(L)
<1>1. /\ Len(M) = n /\ n \in Nat
      /\ \A k \in 1 .. n : M[k].src = L[k].src /\ M[k].parent = L[k].parent /\ M[k].children = L[k].children
      /\ \A k \in 1 .. n : L[k].parent \in 1 .. n
  BY DEF SameShape
<1>2. /\ n >= 1 => L[1].src = 1 /\ L[1].parent = 1
      /\ \A j, k \in 1 .. n : L[j].src = L[k].src => j = k
      /\ \A k \in 2 .. n : /\ L[k].src # 1 /\ L[k].parent \in 1 .. k - 1
                           /\ t.dirs[L[k].src].up = L[L[k].parent].src
                           /\ ChildOf(L, L[k].parent, k)
      /\ \A k \in 1 .. n : \A i, j \in 1 .. Len(L[k].children) :
            /\ L[k].children[i] \in 2 .. n /\ L[L[k].children[i]].parent = k
            /\ L[k].children[i] = L[k].children[j] => i = j
  BY DEF ListOnce
<1> HIDE DEF n
<1>3. \A k \in 2 .. n : k \in 1 .. n
  BY <1>1
<1>4. n >= 1 => M[1].src = 1 /\ M[1].parent = 1
  BY <1>1, <1>2
<1>5. \A j, k \in 1 .. n : M[j].src = M[k].src => j = k
  BY <1>1, <1>2
<1>6. ASSUME NEW k \in 2 .. n
      PROVE  /\ M[k].src # 1 /\ M[k].parent \in 1 .. k - 1
             /\ t.dirs[M[k].src].up = M[M[k].parent].src
             /\ ChildOf(M, M[k].parent, k)
  <2>1. M[k].src = L[k].src /\ M[k].parent = L[k].parent /\ L[k].parent \in 1 .. n
    BY <1>1, <1>3
  <2>2. M[L[k].parent].src = L[L[k].parent].src /\ M[L[k].parent].children = L[L[k].parent].children
    BY <1>1, <2>1
  <2> QED
    BY <1>2, <2>1, <2>2 DEF ChildOf
<1>7. ASSUME NEW k \in 1 .. n, NEW i \in 1 .. Len(M[k].children), NEW j \in 1 .. Len(M[k].children)
      PROVE  /\ M[k].children[i] \in 2 .. n /\ M[M[k].children[i]].parent = k
             /\ M[k].children[i] = M[k].children[j] => i = j
  <2>1. M[k].children = L[k].children
    BY <1>1
  <2>2. L[k].children[i] \in 2 .. n /\ L[L[k].children[i]].parent = k
        /\ (L[k].children[i] = L[k].children[j] => i = j)
    BY <1>2, <2>1
  <2>3. M[L[k].children[i]].parent = L[L[k].children[i]].parent
    BY <1>1, <1>3, <2>2
  <2> QED
    BY <2>1, <2>2, <2>3
<1>8. ASSUME NEW k \in 1 .. n, Complete(L, t, k) PROVE Complete(M, t, k)
  BY <1>1, <1>8 DEF Complete, n
<1> QED
  BY <1>1, <1>4, <1>5, <1>6, <1>7, <1>8 DEF ListOnce, n

\* The steps that leave the list as it is, or change files and records only.
LEMMA EnlistedSame ==
    ASSUME BuildInv, Enlisted, SameShape(dirList, dirList'), tree' = tree,
           pc' = "dirs" => pc = "dirs" /\ UNCHANGED <<dirList, cur>>, pc' \in Building => pc \in Building,
           cur' \in 0 .. Len(dirList) \/ cur' = cur
    PROVE  Enlisted'
<1> DEFINE n == Len(dirList)
<1>1. /\ tree \in Trees /\ n \in Nat /\ Len(tree.dirs) \in Nat
      /\ \A k \in 1 .. n : dirList[k].parent \in 1 .. n /\ dirList[k].src \in 1 .. Len(tree.dirs)
  <2>1. Linked /\ tree \in Trees
    BY DEF BuildInv
  <2>2. n \in Nat /\ Len(tree.dirs) \in Nat
    BY <2>1, DirTyped, TreeTyped
  <2>3. \A k \in 1 .. n : dirList[k].parent \in 1 .. k /\ dirList[k].src \in 1 .. Len(tree.dirs)
    BY <2>1 DEF Linked
  <2> HIDE DEF n
  <2> QED
    BY <2>1, <2>2, <2>3
<1>2. ListOnce(dirList, tree)
  BY DEF Enlisted
<1>3. /\ ListOnce(dirList', tree)
      /\ \A k \in 1 .. n : Complete(dirList, tree, k) => Complete(dirList', tree, k)
  BY <1>1, <1>2, ShapeKeeps
<1>4. n <= Len(tree.dirs)
  BY <1>1, <1>2, NoMoreDirs
<1>5. cur' \in 0 .. Len(tree.dirs)
  BY <1>1, <1>4 DEF Enlisted
<1>6. Len(dirList') = n
  BY DEF SameShape
<1>7. pc' = "dirs" =>
          /\ Len(dirList') >= 1
          /\ \A k \in 2 .. Len(dirList') : dirList'[k].parent < cur'
          /\ \A k \in cur' .. Len(dirList') : dirList'[k].children = << >>
          /\ \A k \in 1 .. cur' - 1 : Complete(dirList', tree', k)
  BY DEF Enlisted
<1>8. pc' \in Building => Len(dirList') >= 1 /\ \A k \in 1 .. Len(dirList') : Complete(dirList', tree', k)
  BY <1>3, <1>6 DEF Enlisted
<1> QED
  BY <1>3, <1>5, <1>7, <1>8 DEF Enlisted

LEMMA EnlistedEmpty ==
    ASSUME Enlisted, tree' = tree, dirList' = << >>, cur' = cur, pc' \notin {"dirs"} \cup Building
    PROVE  Enlisted'
<1>1. Len(dirList') = 0
  OBVIOUS
<1>2. ListOnce(dirList', tree')
  BY <1>1 DEF ListOnce
<1> QED
  BY <1>2 DEF Enlisted

LEMMA OpenEnlists ==
    ASSUME BuildInv, Enlisted, Open
    PROVE  Enlisted'
<1>1. tree' = tree /\ tree \in Trees /\ pc = "open"
  BY DEF Open, BuildInv
<1>2. CASE pc' \in {"failed", "hollow"} /\ UNCHANGED <<dirList, cur>>
  <2>1. SameShape(dirList, dirList') /\ pc' \notin Building /\ pc' # "dirs"
    BY <1>2 DEF SameShape, Building
  <2> QED
    BY <1>1, <1>2, <2>1, EnlistedSame
<1>3. CASE pc' = "dirs" /\ dirList' = <<NewDir(1, 1)>> /\ cur' = 1
  <2>1. NewDir(1, 1).src = 1 /\ NewDir(1, 1).parent = 1 /\ NewDir(1, 1).children = << >>
    BY DEF NewDir
  <2>2. Len(dirList') = 1 /\ dirList'[1] = NewDir(1, 1) /\ Len(<< >>) = 0
    BY <1>3
  <2>3. (\A k \in 1 .. 1 : k = 1) /\ (\A k \in 2 .. 1 : FALSE) /\ (\A k \in 1 .. 0 : FALSE)
    OBVIOUS
  <2>4. Len(dirList'[1].children) = 0
    BY <2>1, <2>2
  <2>5. ListOnce(dirList', tree')
    BY <2>1, <2>2, <2>3, <2>4 DEF ListOnce
  <2>6. cur' \in 0 .. Len(tree.dirs)
    BY <1>1, <1>3, TreeTyped
  <2>7. pc' \notin Building
    BY <1>3 DEF Building
  <2>8. /\ Len(dirList') >= 1
        /\ \A k \in 2 .. Len(dirList') : dirList'[k].parent < cur'
        /\ \A k \in cur' .. Len(dirList') : dirList'[k].children = << >>
        /\ \A k \in 1 .. cur' - 1 : Complete(dirList', tree', k)
    BY <1>3, <2>1, <2>2, <2>3
  <2> QED
    BY <1>1, <2>5, <2>6, <2>7, <2>8 DEF Enlisted
<1> QED
  BY <1>2, <1>3 DEF Open, Return, get_title_id, GenerateFails

\* What scandir() finds of the directories of a folder: each one in it, once.
LEMMA SubsFound ==
    ASSUME tree \in Trees, NEW d
    PROVE  LET subs == select_directories(d)
           IN  /\ Len(subs) \in Nat
               /\ \A i \in 1 .. Len(subs) : subs[i] \in 2 .. Len(tree.dirs) /\ tree.dirs[subs[i]].up = d
               /\ \A i, j \in 1 .. Len(subs) : subs[i] = subs[j] => i = j
               /\ \A c \in 2 .. Len(tree.dirs) : tree.dirs[c].up = d => \E i \in 1 .. Len(subs) : subs[i] = c
<1> DEFINE m == Len(tree.dirs)
           list == [c \in 1 .. m |-> c]
           keep == {c \in 2 .. m : tree.dirs[c].up = d}
           subs == select_directories(d)
<1>1. m \in Nat
  BY TreeTyped
<1>2. subs = scandir(list, keep)
  BY DEF select_directories
<1> HIDE DEF m, keep, subs
<1>3. list \in Seq(1 .. m) /\ Len(list) = m /\ \A c \in 1 .. m : list[c] = c
  BY <1>1
<1> HIDE DEF list
<1>4. subs \in Seq(1 .. m)
  BY <1>2, <1>3, Scanned
<1>5. PICK g : IsScan(subs, g, list, m, keep)
  BY <1>2, <1>3, ScannedOnce
<1>6. /\ g \in [1 .. Len(subs) -> 1 .. m]
      /\ \A k \in 1 .. Len(subs) : g[k] \in keep /\ subs[k] = list[g[k]]
      /\ \A j, k \in 1 .. Len(subs) : g[j] = g[k] => j = k
      /\ \A i \in 1 .. m : i \in keep => \E k \in 1 .. Len(subs) : g[k] = i
  BY <1>5 DEF IsScan
<1>7. \A k \in 1 .. Len(subs) : subs[k] = g[k] /\ g[k] \in keep
  BY <1>3, <1>6
<1>8. Len(subs) \in Nat
  BY <1>4
<1>9. \A i \in 1 .. Len(subs) : subs[i] \in 2 .. m /\ tree.dirs[subs[i]].up = d
  BY <1>7 DEF keep
<1>10. \A i, j \in 1 .. Len(subs) : subs[i] = subs[j] => i = j
  BY <1>6, <1>7
<1>11. ASSUME NEW c \in 2 .. m, tree.dirs[c].up = d PROVE \E i \in 1 .. Len(subs) : subs[i] = c
  <2>1. c \in keep /\ c \in 1 .. m
    BY <1>1, <1>11 DEF keep
  <2> QED
    BY <1>6, <1>7, <2>1
<1> QED
  BY <1>8, <1>9, <1>10, <1>11 DEF subs, m

LEMMA ScanDirsEnlists ==
    ASSUME BuildInv, Enlisted, ScanDirs
    PROVE  Enlisted'
<1> DEFINE L == dirList
           M == dirList'
           n == Len(dirList)
           subs == select_directories(dirList[cur].src)
           l == Len(subs)
           m == n + l
<1>1. tree' = tree /\ tree \in Trees /\ pc = "dirs" /\ Linked /\ Loops
  BY DEF ScanDirs, BuildInv
<1>2. CASE pc' = "failed" /\ UNCHANGED <<dirList, cur>>
  <2>1. SameShape(dirList, dirList') /\ pc' \notin Building /\ pc' # "dirs"
    BY <1>2 DEF SameShape, Building
  <2> QED
    BY <1>1, <1>2, <2>1, EnlistedSame
<1>3. CASE ScannedTo(L, M, cur, subs) /\ Advance(M, "files")
  <2>1. /\ cur \in 1 .. n /\ n \in Nat /\ l \in Nat /\ m \in Nat /\ Len(L) = n /\ Len(M) = m /\ 1 \in 1 .. n
        /\ \A j \in 1 .. n : /\ M[j].src = L[j].src /\ M[j].parent = L[j].parent
                             /\ j # cur => M[j].children = L[j].children
        /\ Len(M[cur].children) = l
        /\ \A i \in 1 .. l : /\ M[cur].children[i] = n + i /\ M[n + i].src = subs[i]
                             /\ M[n + i].parent = cur /\ M[n + i].children = << >>
    BY <1>3 DEF ScannedTo
  <2>2. /\ \A i \in 1 .. l : subs[i] \in 2 .. Len(tree.dirs) /\ tree.dirs[subs[i]].up = L[cur].src
        /\ \A i, j \in 1 .. l : subs[i] = subs[j] => i = j
        /\ \A c \in 2 .. Len(tree.dirs) : tree.dirs[c].up = L[cur].src => \E i \in 1 .. l : subs[i] = c
    BY <1>1, SubsFound
  <2>3. /\ L[1].src = 1 /\ L[1].parent = 1
        /\ \A j, k \in 1 .. n : L[j].src = L[k].src => j = k
        /\ \A k \in 2 .. n : /\ L[k].src # 1 /\ L[k].parent \in 1 .. k - 1
                             /\ tree.dirs[L[k].src].up = L[L[k].parent].src
                             /\ ChildOf(L, L[k].parent, k)
        /\ \A k \in 1 .. n : \A i, j \in 1 .. Len(L[k].children) :
              /\ L[k].children[i] \in 2 .. n /\ L[L[k].children[i]].parent = k
              /\ L[k].children[i] = L[k].children[j] => i = j
    BY <2>1 DEF Enlisted, ListOnce
  <2>4. /\ \A k \in 2 .. n : L[k].parent < cur
        /\ \A k \in cur .. n : L[k].children = << >>
        /\ \A k \in 1 .. cur - 1 : Complete(L, tree, k)
    BY <1>1 DEF Enlisted
  <2>5. /\ \A k \in 1 .. n : dirList[k].src \in 1 .. Len(tree.dirs)
        /\ Len(tree.dirs) \in Nat
    BY <1>1, TreeTyped DEF Linked
  <2>6. \/ pc' = "dirs" /\ cur' = cur + 1 /\ cur < m
        \/ pc' = "files" /\ cur' = 1 /\ ~(cur < m)
    <3>1. Len(M) = m
      BY <2>1
    <3> HIDE DEF M, m
    <3> QED
      BY <1>1, <1>3, <3>1 DEF Advance
  <2> HIDE DEF L, M, n, subs, l
  <2>7. ASSUME NEW k \in 1 .. m
        PROVE  k \in 1 .. n \/ \E i \in 1 .. l : k = n + i
    <3>1. k \in 1 .. n \/ (k - n \in 1 .. l /\ k = n + (k - n))
      BY <2>1
    <3> QED
      BY <3>1
  <2>8. \A k \in 1 .. n : k \in 1 .. m
    BY <2>1
  <2>9. ASSUME NEW j \in 1 .. n, NEW i \in 1 .. l PROVE L[j].src # subs[i]
    <3> SUFFICES ASSUME L[j].src = subs[i] PROVE FALSE
      OBVIOUS
    <3>1. subs[i] # 1 /\ tree.dirs[subs[i]].up = L[cur].src
      BY <2>2, <2>5
    <3>2. j \in 2 .. n
      BY <2>1, <2>3, <3>1
    <3>3. L[j].parent \in 1 .. j - 1 /\ tree.dirs[L[j].src].up = L[L[j].parent].src /\ L[j].parent < cur
      BY <2>3, <2>4, <3>2
    <3>4. L[j].parent \in 1 .. n /\ L[j].parent # cur
      BY <2>1, <3>2, <3>3
    <3> QED
      BY <2>1, <2>3, <3>1, <3>3, <3>4
  <2>10. ASSUME NEW j \in 1 .. m, NEW k \in 1 .. m, M[j].src = M[k].src PROVE j = k
    <3>1. \A a \in 1 .. n : M[a].src = L[a].src
      BY <2>1
    <3>2. \A i \in 1 .. l : M[n + i].src = subs[i]
      BY <2>1
    <3>3. CASE j \in 1 .. n /\ k \in 1 .. n
      BY <2>3, <2>10, <3>1, <3>3
    <3>4. CASE j \in 1 .. n /\ \E i \in 1 .. l : k = n + i
      BY <2>9, <2>10, <3>1, <3>2, <3>4
    <3>5. CASE k \in 1 .. n /\ \E i \in 1 .. l : j = n + i
      BY <2>9, <2>10, <3>1, <3>2, <3>5
    <3>6. CASE (\E i \in 1 .. l : j = n + i) /\ \E i \in 1 .. l : k = n + i
      BY <2>2, <2>10, <3>2, <3>6
    <3> QED
      BY <2>7, <3>3, <3>4, <3>5, <3>6
  <2>11. ASSUME NEW k \in 2 .. m
         PROVE  /\ M[k].src # 1 /\ M[k].parent \in 1 .. k - 1
                /\ tree.dirs[M[k].src].up = M[M[k].parent].src
                /\ ChildOf(M, M[k].parent, k)
    <3>1. CASE k \in 1 .. n
      <4>1. k \in 2 .. n /\ M[k].src = L[k].src /\ M[k].parent = L[k].parent
        BY <2>1, <3>1
      <4>2. L[k].parent \in 1 .. k - 1 /\ L[k].parent # cur
        BY <2>1, <2>3, <2>4, <4>1
      <4>3. L[k].parent \in 1 .. n
        BY <2>1, <4>1, <4>2
      <4>4. M[L[k].parent].src = L[L[k].parent].src /\ M[L[k].parent].children = L[L[k].parent].children
        BY <2>1, <4>2, <4>3
      <4> QED
        BY <2>3, <4>1, <4>2, <4>4 DEF ChildOf
    <3>2. CASE \E i \in 1 .. l : k = n + i
      <4>1. PICK i \in 1 .. l : k = n + i
        BY <3>2
      <4>2. M[k].src = subs[i] /\ M[k].parent = cur /\ subs[i] # 1 /\ tree.dirs[subs[i]].up = L[cur].src
        BY <2>1, <2>2, <2>5, <4>1
      <4>3. M[cur].src = L[cur].src /\ cur \in 1 .. k - 1 /\ M[cur].children[i] = k
        BY <2>1, <4>1
      <4> QED
        BY <2>1, <4>2, <4>3 DEF ChildOf
    <3> QED
      BY <2>7, <3>1, <3>2
  <2>12. ASSUME NEW k \in 1 .. m, NEW i \in 1 .. Len(M[k].children), NEW j \in 1 .. Len(M[k].children)
         PROVE  /\ M[k].children[i] \in 2 .. m /\ M[M[k].children[i]].parent = k
                /\ M[k].children[i] = M[k].children[j] => i = j
    <3>1. CASE k \in 1 .. n /\ k # cur
      <4>1. M[k].children = L[k].children
        BY <2>1, <3>1
      <4>2. /\ L[k].children[i] \in 2 .. n /\ L[L[k].children[i]].parent = k
            /\ L[k].children[i] = L[k].children[j] => i = j
        BY <2>3, <3>1, <4>1
      <4>3. L[k].children[i] \in 1 .. n /\ L[k].children[i] \in 2 .. m
        BY <2>1, <4>2
      <4> QED
        BY <2>1, <4>1, <4>2, <4>3
    <3>2. CASE k = cur
      <4>1. i \in 1 .. l /\ j \in 1 .. l
        BY <2>1, <3>2
      <4>2. M[k].children[i] = n + i /\ M[k].children[j] = n + j /\ M[n + i].parent = cur
        BY <2>1, <3>2, <4>1
      <4>3. n + i \in 2 .. m /\ (n + i = n + j => i = j)
        BY <2>1, <4>1
      <4> QED
        BY <3>2, <4>2, <4>3
    <3>3. CASE \E a \in 1 .. l : k = n + a
      <4>1. M[k].children = << >> /\ Len(<< >>) = 0
        BY <2>1, <3>3
      <4>2. Len(M[k].children) = 0
        BY <4>1
      <4>3. i \in 1 .. 0
        BY <4>2
      <4> QED
        BY <4>3
    <3> QED
      BY <2>7, <3>1, <3>2, <3>3
  <2>13. ListOnce(M, tree)
    <3>1. M[1].src = 1 /\ M[1].parent = 1
      BY <2>1, <2>3
    <3> QED
      BY <2>1, <2>10, <2>11, <2>12, <3>1 DEF ListOnce
  <2>14. \A k \in 1 .. n : Complete(L, tree, k) => Complete(M, tree, k)
    <3>1. ASSUME NEW k \in 1 .. n, Complete(L, tree, k), NEW c \in 2 .. Len(tree.dirs),
                 tree.dirs[c].up = M[k].src
          PROVE  \E j \in 1 .. Len(M) : M[j].src = c
      <4>1. PICK j \in 1 .. n : L[j].src = c
        BY <2>1, <3>1 DEF Complete
      <4> QED
        BY <2>1, <2>8, <4>1
    <3> QED
      BY <3>1 DEF Complete
  <2>15. Complete(M, tree, cur)
    <3>1. ASSUME NEW c \in 2 .. Len(tree.dirs), tree.dirs[c].up = M[cur].src
          PROVE  \E j \in 1 .. m : M[j].src = c
      <4>1. PICK i \in 1 .. l : subs[i] = c
        BY <2>1, <2>2, <3>1
      <4>2. n + i \in 1 .. m /\ M[n + i].src = c
        BY <2>1, <4>1
      <4> QED
        BY <4>2
    <3> QED
      BY <2>1, <3>1 DEF Complete
  <2>16. \A k \in 1 .. cur : Complete(M, tree, k)
    <3>1. \A k \in 1 .. cur : k = cur \/ (k \in 1 .. cur - 1 /\ k \in 1 .. n)
      BY <2>1
    <3> QED
      BY <2>4, <2>14, <2>15, <3>1
  <2>17. m <= Len(tree.dirs)
    <3>1. \A k \in 1 .. m : M[k].src \in 1 .. Len(tree.dirs)
      <4>1. \A i \in 1 .. l : subs[i] \in 1 .. Len(tree.dirs)
        BY <2>2, <2>5
      <4>2. \A k \in 1 .. n : M[k].src \in 1 .. Len(tree.dirs)
        BY <2>1, <2>5 DEF L
      <4>3. \A i \in 1 .. l : M[n + i].src \in 1 .. Len(tree.dirs)
        BY <2>1, <4>1
      <4> QED
        BY <2>7, <4>2, <4>3
    <3> QED
      BY <2>1, <2>5, <2>13, <3>1, NoMoreDirs
  <2>18. cur' \in 0 .. Len(tree.dirs)
    BY <2>1, <2>5, <2>6, <2>17
  <2>19. CASE pc' = "dirs" /\ cur' = cur + 1 /\ cur < m
    <3>1. ASSUME NEW k \in 2 .. m PROVE M[k].parent < cur + 1
      <4>1. k \in 1 .. m
        OBVIOUS
      <4>2. CASE k \in 1 .. n
        <5>1. k \in 2 .. n
          BY <2>1, <4>2
        <5>2. L[k].parent < cur /\ L[k].parent \in 1 .. k - 1
          BY <2>3, <2>4, <5>1
        <5>3. M[k].parent = L[k].parent
          BY <2>1, <4>2
        <5> QED
          BY <2>1, <5>2, <5>3
      <4>3. CASE \E i \in 1 .. l : k = n + i
        <5>1. M[k].parent = cur
          BY <2>1, <4>3
        <5> QED
          BY <2>1, <5>1
      <4> QED
        BY <2>7, <4>1, <4>2, <4>3
    <3>2. ASSUME NEW k \in cur + 1 .. m PROVE M[k].children = << >>
      <4>1. k \in 1 .. m /\ k # cur
        BY <2>1
      <4>2. CASE k \in 1 .. n
        <5>1. k \in cur .. n
          BY <2>1, <4>2
        <5> QED
          BY <2>1, <2>4, <4>1, <4>2, <5>1
      <4>3. CASE \E i \in 1 .. l : k = n + i
        BY <2>1, <4>3
      <4> QED
        BY <2>7, <4>1, <4>2, <4>3
    <3>3. pc' \notin Building /\ m >= 1
      BY <2>1, <2>19 DEF Building
    <3>4. \A k \in 1 .. (cur + 1) - 1 : Complete(M, tree, k)
      BY <2>1, <2>16
    <3> QED
      BY <1>1, <2>1, <2>13, <2>18, <2>19, <3>1, <3>2, <3>3, <3>4 DEF Enlisted, M
  <2>20. CASE pc' = "files" /\ cur' = 1 /\ ~(cur < m)
    <3>1. m = cur /\ m >= 1
      BY <2>1, <2>20
    <3>2. \A k \in 1 .. m : Complete(M, tree, k)
      BY <2>16, <3>1
    <3> QED
      BY <1>1, <2>1, <2>13, <2>18, <2>20, <3>1, <3>2 DEF Enlisted, M
  <2> QED
    BY <2>6, <2>19, <2>20
<1> QED
  BY <1>1, <1>2, <1>3, DirsScanned DEF ScanDirs, Return

\* A step over the files and the records of one directory.
LEMMA FilesStep ==
    ASSUME BuildInv, ScanFiles
    PROVE  /\ pc = "files" /\ tree' = tree /\ cur \in 1 .. Len(dirList) /\ Len(dirList) \in Nat
           /\ UNCHANGED <<dirsSizeSectors, pathTable, fsBuf>>
           /\ SameShape(dirList, dirList')
           /\ \A k \in 1 .. Len(dirList) :
                 /\ k # cur => dirList'[k].files = dirList[k].files
                 /\ dirList'[k].content = dirList[k].content /\ dirList'[k].size = dirList[k].size
           /\ \/ pc' \in {"failed", "crashed"} /\ cur' = cur
              \/ pc' = "files" /\ cur' = cur + 1 /\ cur < Len(dirList)
              \/ pc' = "iso" /\ cur' = 1 /\ cur = Len(dirList)
<1> DEFINE d == dirList[cur].src
           list == FileList(d, Listed(select_files(d)))
           n == Len(dirList)
<1>0. pc = "files" /\ tree' = tree /\ Linked /\ Loops /\ UNCHANGED <<dirsSizeSectors, pathTable, fsBuf>>
  BY DEF ScanFiles, BuildInv
<1>1. cur \in 1 .. n /\ n \in Nat /\ dirList \in [1 .. n -> DirSet]
  BY <1>0, DirTyped DEF Loops, Linked
<1>2. UNCHANGED dirList \/ dirList' = [dirList EXCEPT ![cur].files = list]
  BY Zenon DEF ScanFiles
<1>3. (pc' \in {"failed", "crashed"} /\ cur' = cur) \/ Advance(dirList, "iso")
  BY Zenon DEF ScanFiles, Return
<1> HIDE DEF list
<1>4. /\ Len(dirList') = n
      /\ \A k \in 1 .. n :
            /\ dirList'[k].src = dirList[k].src /\ dirList'[k].parent = dirList[k].parent
            /\ dirList'[k].children = dirList[k].children
            /\ k # cur => dirList'[k].files = dirList[k].files
            /\ dirList'[k].content = dirList[k].content /\ dirList'[k].size = dirList[k].size
  <2>1. CASE UNCHANGED dirList
    BY <2>1
  <2>2. CASE dirList' = [dirList EXCEPT ![cur].files = list]
    <3>1. DOMAIN dirList' = 1 .. n /\ \A k \in 1 .. n :
              dirList'[k] = IF k = cur THEN [dirList[k] EXCEPT !.files = list] ELSE dirList[k]
      BY <1>1, <2>2
    <3>2. \A x \in DirSet : LET y == [x EXCEPT !.files = list]
                            IN  /\ y.src = x.src /\ y.parent = x.parent /\ y.children = x.children
                                /\ y.content = x.content /\ y.size = x.size
      BY DEF DirSet
    <3>3. Len(dirList') = n
      BY <1>1, <2>2
    <3>4. \A k \in 1 .. n : dirList[k] \in DirSet
      BY <1>1
    <3> HIDE DEF n
    <3> QED
      BY <3>1, <3>2, <3>3, <3>4, ZenonT(60)
  <2> QED
    BY <1>2, <2>1, <2>2
<1>5. \/ pc' \in {"failed", "crashed"} /\ cur' = cur
      \/ pc' = "files" /\ cur' = cur + 1 /\ cur < n
      \/ pc' = "iso" /\ cur' = 1 /\ cur = n
  <2>1. Advance(dirList, "iso") => IF cur < n THEN cur' = cur + 1 /\ pc' = pc ELSE cur' = 1 /\ pc' = "iso"
    BY DEF Advance
  <2>2. cur < n \/ cur = n
    <3> HIDE DEF n
    <3> QED
      BY <1>1
  <2> QED
    BY <1>0, <1>3, <2>1, <2>2
<1>6. SameShape(dirList, dirList')
  BY <1>4 DEF SameShape
<1> QED
  BY <1>0, <1>1, <1>4, <1>5, <1>6, Zenon

LEMMA ScanFilesEnlists ==
    ASSUME BuildInv, Enlisted, ScanFiles
    PROVE  Enlisted'
<1>1. /\ pc = "files" /\ tree' = tree /\ cur \in 1 .. Len(dirList) /\ Len(dirList) \in Nat
      /\ SameShape(dirList, dirList')
      /\ \/ pc' \in {"failed", "crashed"} /\ cur' = cur
         \/ pc' = "files" /\ cur' = cur + 1 /\ cur < Len(dirList)
         \/ pc' = "iso" /\ cur' = 1 /\ cur = Len(dirList)
  BY FilesStep
<1>2. pc \in Building /\ pc' # "dirs" /\ (cur' \in 0 .. Len(dirList) \/ cur' = cur)
  BY <1>1 DEF Building
<1> QED
  BY <1>1, <1>2, EnlistedSame

LEMMA BuildContentEnlists ==
    ASSUME BuildInv, Enlisted, NEW fs \in FS, BuildContent(fs)
    PROVE  Enlisted'
<1>1. /\ pc = fs /\ tree' = tree /\ cur \in 1 .. Len(dirList) /\ Len(dirList) \in Nat
      /\ \/ pc' = "failed" /\ UNCHANGED <<dirList, cur>>
         \/ /\ DirBuilt(dirList, dirList', Len(dirList), fs, cur, NewContent(fs), NewSize(fs),
                        dirList[cur].parent, NewUp(fs))
            /\ Advance(dirList', IF fs = "iso" THEN "joliet" ELSE "tables")
  BY ContentBuilt
<1>2. CASE pc' = "failed" /\ UNCHANGED <<dirList, cur>>
  <2>1. SameShape(dirList, dirList') /\ pc' \notin Building /\ pc' # "dirs"
    BY <1>2 DEF SameShape, Building
  <2> QED
    BY <1>1, <1>2, <2>1, EnlistedSame
<1>3. CASE /\ DirBuilt(dirList, dirList', Len(dirList), fs, cur, NewContent(fs), NewSize(fs),
                       dirList[cur].parent, NewUp(fs))
           /\ Advance(dirList', IF fs = "iso" THEN "joliet" ELSE "tables")
  <2>1. SameShape(dirList, dirList')
    <3>1. Len(dirList') = Len(dirList)
      BY <1>1, <1>3 DEF DirBuilt
    <3> QED
      BY <1>3, <3>1 DEF DirBuilt, SameShape
  <2>2. pc \in Building /\ pc' # "dirs" /\ cur' \in 0 .. Len(dirList)
    <3>1. Len(dirList') = Len(dirList)
      BY <2>1 DEF SameShape
    <3> QED
      BY <1>1, <1>3, <3>1 DEF Building, Advance, FS
  <2> QED
    BY <1>1, <2>1, <2>2, EnlistedSame
<1> QED
  BY <1>1, <1>2, <1>3

LEMMA FixLbaStep ==
    ASSUME BuildInv, FixLba
    PROVE  /\ pc = "fix" /\ pc' = "write" /\ Len(dirList) \in Nat
           /\ UNCHANGED <<tree, cur, filesSizeSectors, dirsSizeSectors, fsBuf, faults>>
           /\ pathTable' = [fs \in FS |-> fixPathTableLba(fs)]
           /\ SameShape(dirList, dirList')
           /\ \A k \in 1 .. Len(dirList) :
                 /\ dirList'[k].files = dirList[k].files /\ dirList'[k].size = dirList[k].size
                 /\ \A fs \in FS : dirList'[k].content[fs] = fixDirLba(fs, dirList[k].content[fs])
<1> DEFINE n == Len(dirList)
           con(d) == [fs \in FS |-> fixDirLba(fs, d.content[fs])]
<1>0. /\ pc = "fix" /\ pc' = "write" /\ Linked
      /\ UNCHANGED <<tree, cur, filesSizeSectors, dirsSizeSectors, fsBuf, faults>>
      /\ pathTable' = [fs \in FS |-> fixPathTableLba(fs)]
      /\ dirList' = [k \in 1 .. n |-> [dirList[k] EXCEPT !.content = con(dirList[k])]]
  BY DEF FixLba, BuildInv, Return
<1>1. n \in Nat /\ dirList \in [1 .. n -> DirSet]
  BY <1>0, DirTyped DEF Linked
<1>2. \A d : \A g \in FS : con(d)[g] = fixDirLba(g, d.content[g])
  OBVIOUS
<1> HIDE DEF con
<1>3. \A d \in DirSet :
          LET e == [d EXCEPT !.content = con(d)]
          IN  /\ e.src = d.src /\ e.parent = d.parent /\ e.children = d.children
              /\ e.files = d.files /\ e.content = con(d) /\ e.size = d.size
  BY DEF DirSet
<1> HIDE DEF n
<1>4. Len(dirList') = n
  BY <1>0, <1>1
<1>5. ASSUME NEW k \in 1 .. n
      PROVE  /\ dirList'[k].src = dirList[k].src
             /\ dirList'[k].parent = dirList[k].parent /\ dirList'[k].children = dirList[k].children
             /\ dirList'[k].files = dirList[k].files /\ dirList'[k].size = dirList[k].size
             /\ dirList'[k].content = con(dirList[k])
  <2>1. dirList[k] \in DirSet /\ dirList'[k] = [dirList[k] EXCEPT !.content = con(dirList[k])]
    BY <1>0, <1>1
  <2> QED
    BY <1>3, <2>1, Zenon
<1> QED
  BY <1>0, <1>1, <1>2, <1>4, <1>5 DEF SameShape, n

LEMMA BuildEnlists ==
    ASSUME BuildInv, Enlisted, BuildNext
    PROVE  Enlisted'
<1>1. ASSUME UNCHANGED <<tree, dirList, cur>>, pc' \in Building, pc \in Building PROVE Enlisted'
  <2>1. SameShape(dirList, dirList') /\ pc' # "dirs"
    BY <1>1 DEF SameShape, Building
  <2> QED
    BY <1>1, <2>1, EnlistedSame
<1>2. CASE BuildPathTables
  <2>1. CASE Reset /\ pc' = "failed"
    <3>1. tree' = tree /\ cur' = cur /\ dirList' = << >> /\ pc' \notin {"dirs"} \cup Building
      BY <1>2, <2>1 DEF BuildPathTables, Reset, Building
    <3> QED
      BY <3>1, EnlistedEmpty
  <2>2. CASE UNCHANGED dirList /\ pc' = "fix"
    BY <1>1, <1>2, <2>2 DEF BuildPathTables, Building
  <2> QED
    BY <1>2, <2>1, <2>2 DEF BuildPathTables, Return
<1>3. CASE FixLba
  <2>1. SameShape(dirList, dirList') /\ UNCHANGED <<tree, cur>> /\ pc = "fix" /\ pc' = "write"
    BY <1>3, FixLbaStep
  <2> QED
    BY <2>1, EnlistedSame DEF Building
<1>4. CASE Write
  BY <1>1, <1>4 DEF Write, Return, listVars, Building
<1> QED
  BY <1>2, <1>3, <1>4, OpenEnlists, ScanDirsEnlists, ScanFilesEnlists, BuildContentEnlists DEF BuildNext

-----------------------------------------------------------------------------
(* Path tables *)

\* The path tables of two lists that have the same directories are equally long.
LEMMA TablesSized ==
    ASSUME tree \in Trees, Linked, NEW fs \in FS
    PROVE  /\ \A k \in 1 .. Len(dirList) : TableLens(fs)[k] \in 8 .. 262
           /\ \E f : /\ IsSum(f, Len(dirList), 0, TableLens(fs))
                     /\ \A i \in 0 .. Len(dirList) : TableSize(fs, i) = f[i] /\ TableSize(fs, i) \in Nat
           /\ TableSectors(fs) \in Nat
<1> DEFINE n == Len(dirList)
           id(k) == DirId(fs, tree.dirs[dirList[k].src].name)
<1>1. n \in Nat
  BY DirTyped
<1>2. ASSUME NEW k \in 2 .. n
      PROVE  len_fi(fs, TableEntry(fs, k).id) \in Nat /\ len_fi(fs, TableEntry(fs, k).id) <= 254
  <2>1. k \in 1 .. n /\ k # 1
    BY <1>1
  <2>2. dirList[k].src \in 1 .. Len(tree.dirs)
    BY <2>1 DEF Linked
  <2>3. tree.dirs[dirList[k].src].name \in Names
    BY <2>2, TreeTyped
  <2>4. id(k) \in Ids /\ TableEntry(fs, k).id = id(k)
    BY <2>1, <2>3, IdsTyped DEF TableEntry
  <2>5. \A name \in Names : len_fi(fs, DirId(fs, name)) <= 254
    <3>1. \A name \in Names : name.len \in Nat
      BY DEF Names
    <3> QED
      BY <3>1 DEF len_fi, DirId, strncpy_upper, utf8_to_ucs2, Smaller, MAX_ISODIR, FS
  <2> QED
    BY <2>3, <2>4, <2>5, LengthOfId
<1>3. /\ \A k \in 1 .. n : TableLens(fs)[k] \in Nat
      /\ \E f : /\ IsSum(f, n, 0, TableLens(fs))
                /\ \A i \in 0 .. n : TableSize(fs, i) = f[i] /\ TableSize(fs, i) \in Nat
  BY <1>1, <1>2, TableSized
<1>4. ASSUME NEW k \in 1 .. n PROVE TableLens(fs)[k] \in 8 .. 262
  <2> DEFINE w == IF k = 1 THEN 1 ELSE len_fi(fs, TableEntry(fs, k).id)
  <2>1. w \in Nat /\ w <= 254
    <3>1. k # 1 => k \in 2 .. n
      BY <1>1
    <3> QED
      BY <1>2, <3>1
  <2>2. TableLens(fs)[k] = 8 + Even(w)
    BY DEF TableLens
  <2> HIDE DEF w
  <2> QED
    BY <2>1, <2>2 DEF Even
<1>5. TableSectors(fs) \in Nat
  <2>1. Entries \in 0 .. n
    BY <1>1, NumberAssumption DEF Entries, Smaller
  <2>2. TableSize(fs, Entries) \in Nat
    BY <1>3, <2>1
  <2> QED
    BY <2>2, Sectors DEF TableSectors
<1> QED
  BY <1>3, <1>4, <1>5

TablesFit ==
    \A fs \in FS :
        /\ \A k \in 1 .. Len(dirList) : TableLens(fs)[k] \in 8 .. 262
        /\ \E f : /\ IsSum(f, Len(dirList), 0, TableLens(fs))
                 /\ \A i \in 0 .. Len(dirList) : TableSize(fs, i) = f[i] /\ TableSize(fs, i) \in Nat

LEMMA TablesFitAlways == tree \in Trees /\ Linked => TablesFit
  BY TablesSized DEF TablesFit

LEMMA TablesFitNext == (tree \in Trees)' /\ Linked' => TablesFit'
  BY TablesFitAlways, PTL

LEMMA TablesSame ==
    ASSUME tree \in Trees, tree' = tree, Linked, Linked', SameShape(dirList, dirList'),
           UNCHANGED dirsSizeSectors
    PROVE  /\ \A fs \in FS : TableSectors(fs)' = TableSectors(fs) /\ dirLba(fs)' = dirLba(fs)
           /\ filesLba' = filesLba
<1> DEFINE n == Len(dirList)
<1>1. n \in Nat /\ Len(dirList') = n
  BY DirTyped DEF SameShape
<1>2. TablesFit /\ TablesFit'
  BY TablesFitAlways, TablesFitNext
<1>3. ASSUME NEW fs \in FS PROVE TableSectors(fs)' = TableSectors(fs)
  <2>1. PICK f : /\ IsSum(f, n, 0, TableLens(fs))
                 /\ \A i \in 0 .. n : TableSize(fs, i) = f[i] /\ TableSize(fs, i) \in Nat
    BY <1>2 DEF TablesFit
  <2>2. PICK g : /\ IsSum(g, n, 0, TableLens(fs)')
                 /\ \A i \in 0 .. n : TableSize(fs, i)' = g[i] /\ TableSize(fs, i)' \in Nat
    BY <1>1, <1>2 DEF TablesFit
  <2>3. TableLens(fs)' = TableLens(fs)
    <3> DEFINE w(k) == 8 + Even(IF k = 1 THEN 1 ELSE len_fi(fs, TableEntry(fs, k).id))
               v(k) == 8 + Even(IF k = 1 THEN 1 ELSE len_fi(fs, TableEntry(fs, k).id'))
    <3>1. ASSUME NEW k \in 1 .. n PROVE v(k) = w(k)
      <4>1. dirList'[k].src = dirList[k].src
        BY DEF SameShape
      <4>2. TableEntry(fs, k).id' = TableEntry(fs, k).id
        BY <4>1 DEF TableEntry
      <4> QED
        BY <4>2
    <3>2. TableLens(fs) = [k \in 1 .. n |-> w(k)]
      BY DEF TableLens
    <3>3. TableLens(fs)' = [k \in 1 .. n |-> v(k)]
      <4>1. TableLens(fs)' = [k \in 1 .. Len(dirList') |-> v(k)]
        BY DEF TableLens, Even, len_fi
      <4> QED
        BY <1>1, <4>1
    <3> HIDE DEF w, v
    <3> QED
      BY <3>1, <3>2, <3>3
  <2>4. LikeSum(g, n, 0, TableLens(fs))
    <3>1. \A k \in 1 .. n : TableLens(fs)[k] \in 8 .. 262
      BY <1>2 DEF TablesFit
    <3>2. \A x \in 8 .. 262 : x \in Nat
      OBVIOUS
    <3> QED
      BY <2>2, <2>3, <3>1, <3>2 DEF IsSum, LikeSum
  <2>5. Entries \in 0 .. n /\ 0 \in Nat /\ Entries' = Entries
    BY <1>1, NumberAssumption DEF Entries, Smaller
  <2>6. g[Entries] = f[Entries]
    BY <1>1, <2>1, <2>4, <2>5, SumUnique
  <2>7. PICK m \in Nat : m = Entries
    BY <1>1, <2>5
  <2>8. TableSize(fs, m)' = TableSize(fs, m)
    BY <2>1, <2>2, <2>5, <2>6, <2>7
  <2>9. TableSectors(fs)' = bytesToSectors(TableSize(fs, m)')
    BY <2>5, <2>7 DEF TableSectors, bytesToSectors
  <2> QED
    BY <2>7, <2>8, <2>9 DEF TableSectors
<1>4. TableSectors("iso")' = TableSectors("iso") /\ TableSectors("joliet")' = TableSectors("joliet")
  BY <1>3 DEF FS
<1> QED
  BY <1>3, <1>4 DEF filesLba, dirLba, isoLba, jolietLba

-----------------------------------------------------------------------------
(* What write() copies *)

\* The areas of an image: a header, four path tables, the directories.
LEMMA ContentsAre ==
    ASSUME tree \in Trees, Linked
    PROVE  LET n == Len(dirList)
               S == SECTOR_SIZE
           IN  /\ Contents \in Seq(AreaSet) /\ Len(Contents) = 5 + 2 * n /\ n \in Nat
               /\ Contents[1] = Area("header", 0, 0, HEADER_SECTORS * S)
               /\ Contents[2] = Area("pathTableL", 0, 0, TableSectors("iso") * S)
               /\ Contents[3] = Area("pathTableM", 0, 0, TableSectors("iso") * S)
               /\ Contents[4] = Area("pathTableJolietL", 0, 0, TableSectors("joliet") * S)
               /\ Contents[5] = Area("pathTableJolietM", 0, 0, TableSectors("joliet") * S)
               /\ \A d \in 1 .. n : /\ Contents[5 + d] = Area("iso", d, 0, dirList[d].size["iso"])
                                    /\ Contents[5 + n + d] = Area("joliet", d, 0, dirList[d].size["joliet"])
<1> DEFINE n == Len(dirList)
           S == SECTOR_SIZE
           a1 == Area("header", 0, 0, HEADER_SECTORS * S)
           a2 == Area("pathTableL", 0, 0, TableSectors("iso") * S)
           a3 == Area("pathTableM", 0, 0, TableSectors("iso") * S)
           a4 == Area("pathTableJolietL", 0, 0, TableSectors("joliet") * S)
           a5 == Area("pathTableJolietM", 0, 0, TableSectors("joliet") * S)
           head == <<a1, a2, a3, a4, a5>>
           dirs(fs) == [d \in 1 .. n |-> Area(fs, d, 0, dirList[d].size[fs])]
           i == dirs("iso")
           j == dirs("joliet")
<1>1. n \in Nat /\ S \in Nat
  BY DirTyped, SectorAssumption
<1>2. TableSectors("iso") * S \in Nat /\ TableSectors("joliet") * S \in Nat /\ HEADER_SECTORS * S \in Nat
  <2>1. TableSectors("iso") \in Nat /\ TableSectors("joliet") \in Nat /\ HEADER_SECTORS \in Nat
    BY TablesSized DEF FS, HEADER_SECTORS
  <2> HIDE DEF S
  <2> QED
    BY <1>1, <2>1
<1>3. a1 \in AreaSet /\ a2 \in AreaSet /\ a3 \in AreaSet /\ a4 \in AreaSet /\ a5 \in AreaSet
  <2> HIDE DEF S
  <2> QED
    BY <1>2 DEF Area, AreaSet, AreaKinds
<1>4. ASSUME NEW fs \in FS
      PROVE  dirs(fs) \in Seq(AreaSet) /\ Len(dirs(fs)) = n
             /\ \A d \in 1 .. n : dirs(fs)[d] = Area(fs, d, 0, dirList[d].size[fs])
  <2>1. ASSUME NEW d \in 1 .. n PROVE Area(fs, d, 0, dirList[d].size[fs]) \in AreaSet
    <3>1. dirList[d].size[fs] \in Nat /\ d \in Nat
      BY <1>1, DirTyped
    <3> QED
      BY <3>1 DEF Area, AreaSet, AreaKinds
  <2>2. dirs(fs) \in [1 .. n -> AreaSet]
    BY <2>1
  <2> HIDE DEF n
  <2> QED
    BY <1>1, <2>2
<1>5. Contents = (head \o i) \o j
  BY DEF Contents
<1> HIDE DEF a1, a2, a3, a4, a5
<1>6. head \in Seq(AreaSet) /\ Len(head) = 5 /\ head[1] = a1 /\ head[2] = a2 /\ head[3] = a3
      /\ head[4] = a4 /\ head[5] = a5
  BY <1>3
<1>7. /\ i \in Seq(AreaSet) /\ Len(i) = n /\ \A d \in 1 .. n : i[d] = Area("iso", d, 0, dirList[d].size["iso"])
      /\ j \in Seq(AreaSet) /\ Len(j) = n /\ \A d \in 1 .. n : j[d] = Area("joliet", d, 0, dirList[d].size["joliet"])
  BY <1>4 DEF FS
<1> HIDE DEF head, i, j, n, S
<1> DEFINE hi == head \o i
<1>8. hi \in Seq(AreaSet) /\ Len(hi) = 5 + n /\ \A k \in 1 .. 5 + n : hi[k] = IF k <= 5 THEN head[k] ELSE i[k - 5]
  <2>1. IsConcat(hi, head, i, AreaSet)
    BY <1>6, <1>7, ConcatFacts DEF IsConcat
  <2> HIDE DEF hi
  <2> QED
    BY <1>6, <1>7, <2>1 DEF IsConcat
<1> HIDE DEF hi
<1>9. /\ Contents \in Seq(AreaSet) /\ Len(Contents) = 5 + n + n
      /\ \A k \in 1 .. 5 + n + n : Contents[k] = IF k <= 5 + n THEN hi[k] ELSE j[k - (5 + n)]
  <2>1. IsConcat(hi \o j, hi, j, AreaSet)
    BY <1>7, <1>8, ConcatFacts DEF IsConcat
  <2>2. Contents = hi \o j
    BY <1>5 DEF hi
  <2> QED
    BY <1>7, <1>8, <2>1, <2>2 DEF IsConcat
<1>10. \A k \in 1 .. 5 : Contents[k] = head[k]
  BY <1>1, <1>8, <1>9
<1>11. ASSUME NEW d \in 1 .. n PROVE Contents[5 + d] = i[d] /\ Contents[5 + n + d] = j[d]
  <2>1. /\ 5 + d \in 1 .. 5 + n /\ 5 + d \in 1 .. 5 + n + n /\ (5 + d) - 5 = d /\ 5 + d <= 5 + n /\ ~(5 + d <= 5)
        /\ 5 + n + d \in 1 .. 5 + n + n /\ ~(5 + n + d <= 5 + n) /\ 5 + n + d - (5 + n) = d
    BY <1>1
  <2> QED
    BY <1>8, <1>9, <2>1
<1>12. Len(Contents) = 5 + 2 * n
  BY <1>1, <1>9
<1> QED
  BY <1>1, <1>6, <1>7, <1>9, <1>10, <1>11, <1>12 DEF n, S, a1, a2, a3, a4, a5

\* They follow each other from the start of fsBuf on.
LEMMA WrittenAre ==
    ASSUME tree \in Trees, Linked
    PROVE  /\ Written \in Seq(AreaSet) /\ Len(Written) = 5 + 2 * Len(dirList)
           /\ \A i \in 1 .. Len(Written) :
                 /\ Written[i].what = Contents[i].what /\ Written[i].dir = Contents[i].dir
                 /\ Written[i].len = Contents[i].len
                 /\ Written[i].at = IF i = 1 THEN 0 ELSE Written[i - 1].at + Written[i - 1].len
<1> DEFINE C == Contents
           n == Len(C)
           len == [i \in 1 .. n |-> C[i].len]
           ends == CHOOSE g : g = [i \in 0 .. n |-> IF i = 0 THEN 0 ELSE g[i - 1] + C[i].len]
           W == Written
<1>1. W = [i \in 1 .. n |-> [C[i] EXCEPT !.at = ends[i - 1]]]
  BY DEF Written
<1>2. C \in Seq(AreaSet) /\ n = 5 + 2 * Len(dirList) /\ Len(dirList) \in Nat
  BY ContentsAre
<1> HIDE DEF C, W
<1>3. n \in Nat /\ \A i \in 1 .. n : C[i] \in AreaSet /\ len[i] = C[i].len /\ C[i].len \in Nat
  <2>1. n \in Nat /\ \A i \in 1 .. n : C[i] \in AreaSet
    BY <1>2
  <2>2. \A a \in AreaSet : a.len \in Nat
    BY DEF AreaSet
  <2> QED
    BY <2>1, <2>2
<1> HIDE DEF n, len
<1>4. PICK f : IsSum(f, n, 0, len)
  BY <1>3, SumExists
<1>5. f = [i \in 0 .. n |-> IF i = 0 THEN 0 ELSE f[i - 1] + C[i].len]
  BY <1>3, <1>4 DEF IsSum
<1>6. ends = [i \in 0 .. n |-> IF i = 0 THEN 0 ELSE ends[i - 1] + C[i].len]
  BY <1>5
<1> HIDE DEF ends
<1>7. ends[0] = 0 /\ \A i \in 1 .. n : ends[i] = ends[i - 1] + C[i].len
  BY <1>3, <1>6
<1>8. \A i \in 0 .. n : ends[i] \in Nat
  <2>1. LikeSum(ends, n, 0, len)
    BY <1>3, <1>7 DEF LikeSum
  <2> QED
    BY <1>3, <1>4, <2>1, SumUnique
<1>9. ASSUME NEW i \in 1 .. n
      PROVE  /\ W[i] \in AreaSet /\ W[i].what = C[i].what /\ W[i].dir = C[i].dir /\ W[i].len = C[i].len
             /\ W[i].at = ends[i - 1]
  <2>1. C[i] \in AreaSet /\ W[i] = [C[i] EXCEPT !.at = ends[i - 1]] /\ i - 1 \in 0 .. n
    BY <1>1, <1>3
  <2>2. ends[i - 1] \in Nat
    BY <1>8, <2>1
  <2> QED
    BY <2>1, <2>2 DEF AreaSet
<1>10. W \in Seq(AreaSet) /\ Len(W) = n
  <2>1. W \in [1 .. n -> AreaSet]
    BY <1>1, <1>9
  <2> QED
    BY <1>3, <2>1
<1>11. ASSUME NEW i \in 1 .. n PROVE W[i].at = IF i = 1 THEN 0 ELSE W[i - 1].at + W[i - 1].len
  <2>1. CASE i = 1
    BY <1>7, <1>9, <2>1
  <2>2. CASE i # 1
    <3>1. i - 1 \in 1 .. n
      BY <1>3, <2>2
    <3>2. W[i].at = ends[i - 1] /\ ends[i - 1] = ends[i - 1 - 1] + C[i - 1].len
          /\ W[i - 1].at = ends[i - 1 - 1] /\ W[i - 1].len = C[i - 1].len
      BY <1>7, <1>9, <3>1
    <3> QED
      BY <2>2, <3>2
  <2> QED
    BY <2>1, <2>2
<1> QED
  BY <1>2, <1>9, <1>10, <1>11 DEF W, C, n

-----------------------------------------------------------------------------
(* The places of records *)

LEMMA InSector ==
    ASSUME NEW q \in Nat, NEW e, In(e, q)
    PROVE  /\ e \in Nat /\ e \div SECTOR_SIZE = q /\ (e - 1) \div SECTOR_SIZE = q
           /\ \A i \in Nat : q < i => e < i * SECTOR_SIZE
           /\ RoundUp(e) = (q + 1) * SECTOR_SIZE
<1> DEFINE s == SECTOR_SIZE
<1>1. s \in Nat \ {0} /\ s >= 256
  BY SectorAssumption
<1>2. PICK r \in 1 .. s - 1 : e = s * q + r
  BY DEF In
<1>3. bytesToSectors(r) = 1
  <2>1. r + s - 1 = s * 1 + (r - 1) /\ r - 1 \in 0 .. s - 1
    BY <1>1
  <2> HIDE DEF s
  <2>2. (s * 1 + (r - 1)) \div s = 1
    BY <1>1, <2>1, Quotient
  <2> QED
    BY <2>1, <2>2 DEF bytesToSectors, s
<1> HIDE DEF s
<1>4. s * q \in Nat /\ s * q = q * s
  BY <1>1
<1>5. e \in Nat /\ r \in 0 .. s - 1 /\ r - 1 \in 0 .. s - 1 /\ e - 1 = s * q + (r - 1)
  BY <1>1, <1>2, <1>4
<1>6. e \div s = q /\ (e - 1) \div s = q
  BY <1>1, <1>2, <1>5, Quotient
<1>7. ASSUME NEW i \in Nat, q < i PROVE e < i * s
  <2>1. q + 1 <= i /\ (q + 1) * s = s * q + s
    BY <1>1, <1>7
  <2>2. (q + 1) * s <= i * s
    BY <1>1, <2>1
  <2>3. i * s \in Nat
    BY <1>1
  <2> QED
    BY <1>1, <1>2, <1>4, <2>1, <2>2, <2>3
<1>8. RoundUp(e) = (q + 1) * s
  <2>1. r \in Nat
    BY <1>1
  <2>2. RoundUp(q * s + r) = (q + bytesToSectors(r)) * s
    BY <2>1, SectorsBehind DEF s
  <2> QED
    BY <1>2, <1>3, <1>4, <2>2
<1> QED
  BY <1>5, <1>6, <1>7, <1>8 DEF s

\* A record goes where the one before ends, or to the next sector.
LEMMA PlacedNext ==
    ASSUME NEW q \in Nat, NEW offs, In(offs, q), NEW len \in 0 .. 255
    PROVE  LET p == Place(offs, len)
           IN  \E x \in {q, q + 1} :
                  /\ In(p + len, x) /\ p \div SECTOR_SIZE = x
                  /\ p = offs \/ p = (offs \div SECTOR_SIZE + 1) * SECTOR_SIZE
<1> DEFINE s == SECTOR_SIZE
           p == Place(offs, len)
<1>1. s \in Nat \ {0} /\ s >= 256 /\ len \in Nat /\ len < 256
  BY SectorAssumption
<1>2. PICK r \in 1 .. s - 1 : offs = s * q + r
  BY DEF In
<1>3. offs \in Nat /\ offs \div s = q /\ RoundUp(offs) = (q + 1) * s
  BY InSector
<1>4. p = IF q < (offs + len) \div s THEN (q + 1) * s ELSE offs
  BY <1>3 DEF Place
<1> HIDE DEF s, p
<1>5. s * q \in Nat /\ s * (q + 1) = s * q + s /\ (q + 1) * s = s * (q + 1)
  BY <1>1
<1>6. CASE r + len < s
  <2>1. r + len \in 1 .. s - 1 /\ r + len \in 0 .. s - 1 /\ offs + len = s * q + (r + len)
    BY <1>1, <1>2, <1>5, <1>6
  <2>2. (s * q + (r + len)) \div s = q
    BY <1>1, <2>1, Quotient
  <2>3. p = offs
    BY <1>4, <2>1, <2>2
  <2>4. In(p + len, q)
    BY <2>1, <2>3 DEF In, s
  <2> QED
    BY <1>3, <2>3, <2>4 DEF p, s
<1>7. CASE r + len >= s
  <2>1. /\ r + len - s \in 0 .. s - 1 /\ offs + len = s * (q + 1) + (r + len - s) /\ q + 1 \in Nat
        /\ len \in 1 .. s - 1 /\ 0 \in 0 .. s - 1
    BY <1>1, <1>2, <1>5, <1>7
  <2>2. (s * (q + 1) + (r + len - s)) \div s = q + 1
    BY <1>1, <2>1, Quotient
  <2>3. p = (q + 1) * s
    BY <1>4, <2>1, <2>2
  <2>4. In(p + len, q + 1)
    BY <1>5, <2>1, <2>3 DEF In, s
  <2>5. (s * (q + 1) + 0) \div s = q + 1
    BY <1>1, <2>1, Quotient
  <2>6. p \div s = q + 1
    BY <1>1, <1>5, <2>3, <2>5
  <2> QED
    BY <1>3, <2>3, <2>4, <2>6 DEF p, s
<1>8. r + len < s \/ r + len >= s
  BY <1>1
<1> QED
  BY <1>6, <1>7, <1>8

LEMMA AllPlaced ==
    ASSUME NEW records \in Seq(RecSet), Len(records) >= 1, records[1].len = 40
    PROVE  InPlace(PlaceAll(records))
<1> DEFINE R == PlaceAll(records)
           n == Len(records)
           e(i) == R[i].pos + R[i].len
           C == {k \in Nat : k + 1 > n \/
                   \E q \in 0 .. k : In(e(k + 1), q) /\ R[k + 1].pos \div SECTOR_SIZE = q}
<1>1. /\ n \in Nat /\ R \in Seq(RecSet) /\ Len(R) = n
      /\ \A i \in 1 .. n : /\ SameRecord(R[i], records[i])
                           /\ R[i].pos = Place(IF i = 1 THEN 0 ELSE e(i - 1), R[i].len)
  BY Placed
<1> HIDE DEF R, n, e
<1>2. \A i \in 1 .. n : R[i].len \in 0 .. 255 /\ R[i].pos \in Nat
  <2>1. \A i \in 1 .. n : R[i] \in RecSet
    BY <1>1
  <2> QED
    BY <2>1 DEF RecSet
<1>3. 0 \in C
  <2> SUFFICES ASSUME 1 <= n
               PROVE  \E q \in 0 .. 0 : In(e(1), q) /\ R[1].pos \div SECTOR_SIZE = q
    BY <1>1
  <2>1. 1 \in 1 .. n /\ R[1].len = 40
    BY <1>1 DEF SameRecord
  <2>2. R[1].pos = Place(0, 40)
    BY <1>1, <2>1
  <2>3. SECTOR_SIZE \in Nat \ {0} /\ 40 \in 1 .. SECTOR_SIZE - 1
    BY SectorAssumption
  <2>4. 0 \div SECTOR_SIZE = 0 /\ (0 + 40) \div SECTOR_SIZE = 0
    <3>1. SECTOR_SIZE * 0 + 0 = 0 /\ SECTOR_SIZE * 0 + 40 = 40 /\ 0 \in 0 .. SECTOR_SIZE - 1
          /\ 40 \in 0 .. SECTOR_SIZE - 1 /\ 0 \in Nat
      BY <2>3
    <3>2. (SECTOR_SIZE * 0 + 0) \div SECTOR_SIZE = 0
      BY <2>3, <3>1, Quotient
    <3>3. (SECTOR_SIZE * 0 + 40) \div SECTOR_SIZE = 0
      BY <2>3, <3>1, Quotient
    <3> QED
      BY <3>1, <3>2, <3>3
  <2>5. R[1].pos = 0
    BY <2>2, <2>4 DEF Place
  <2>6. In(40, 0)
    BY <2>3 DEF In
  <2> QED
    BY <2>1, <2>4, <2>5, <2>6 DEF e
<1>4. ASSUME NEW k \in 1 .. n, k + 1 <= n, NEW q \in Nat, In(e(k), q)
      PROVE  /\ \E x \in {q, q + 1} : In(e(k + 1), x) /\ R[k + 1].pos \div SECTOR_SIZE = x
             /\ Follows(R[k], R[k + 1])
  <2>0. n \in Nat
    BY <1>1
  <2>1. k + 1 \in 1 .. n /\ k + 1 # 1 /\ (k + 1) - 1 = k
    BY <1>4, <2>0
  <2>2. R[k + 1].pos = Place(e(k), R[k + 1].len) /\ R[k + 1].len \in 0 .. 255
    BY <1>1, <1>2, <2>1
  <2> DEFINE l == R[k + 1].len
             p == Place(e(k), l)
  <2> HIDE DEF l
  <2>3. \E x \in {q, q + 1} :
            /\ In(p + l, x) /\ p \div SECTOR_SIZE = x
            /\ p = e(k) \/ p = (e(k) \div SECTOR_SIZE + 1) * SECTOR_SIZE
    <3>1. l \in 0 .. 255
      BY <2>2 DEF l
    <3> QED
      BY <1>4, <3>1, PlacedNext
  <2>4. R[k + 1].pos = p /\ e(k + 1) = p + l
    BY <2>2 DEF l, e
  <2> HIDE DEF p
  <2>5. Follows(R[k], R[k + 1])
    BY <2>3, <2>4 DEF Follows, e
  <2> QED
    BY <2>3, <2>4, <2>5
<1>5. ASSUME NEW k \in Nat, k \in C PROVE k + 1 \in C
  <2> SUFFICES ASSUME k + 2 <= n
               PROVE  \E q \in 0 .. k + 1 : In(e(k + 2), q) /\ R[k + 2].pos \div SECTOR_SIZE = q
    BY <1>1
  <2>1. PICK q \in 0 .. k : In(e(k + 1), q)
    BY <1>1, <1>5
  <2>2. k + 1 \in 1 .. n /\ (k + 1) + 1 <= n /\ (k + 1) + 1 = k + 2 /\ q \in Nat
    BY <1>1
  <2>3. PICK x \in {q, q + 1} : In(e(k + 2), x) /\ R[k + 2].pos \div SECTOR_SIZE = x
    BY <1>4, <2>1, <2>2
  <2>4. x \in 0 .. k + 1
    BY <2>1, <2>3
  <2> QED
    BY <2>3, <2>4
<1>6. \A k \in Nat : k \in C
  <2> HIDE DEF C
  <2> QED
    BY <1>3, <1>5, SetInduction
<1>7. ASSUME NEW i \in 1 .. n
      PROVE  \E q \in 0 .. i - 1 : In(e(i), q) /\ R[i].pos \div SECTOR_SIZE = q
  <2>1. i - 1 \in C /\ (i - 1) + 1 = i /\ ~(i > n)
    BY <1>1, <1>6
  <2> QED
    BY <2>1
<1>8. ASSUME NEW i \in 1 .. n - 1 PROVE Follows(R[i], R[i + 1])
  <2>1. i \in 1 .. n /\ i + 1 <= n
    BY <1>1
  <2>2. PICK q \in 0 .. i - 1 : In(e(i), q)
    BY <1>7, <2>1
  <2> QED
    BY <1>4, <2>1, <2>2
<1> QED
  BY <1>1, <1>7, <1>8 DEF InPlace, e, R

\* A loop over such records comes to all of them.
LEMMA AllWalked ==
    ASSUME NEW recs, Len(recs) \in Nat, InPlace(recs)
    PROVE  Walked(recs) = 1 .. Len(recs)
<1>1. ASSUME NEW k \in 1 .. Len(recs), NEW i \in 1 .. k - 1 PROVE Follows(recs[i], recs[i + 1])
  <2>1. i \in 1 .. Len(recs) - 1
    OBVIOUS
  <2> QED
    BY <2>1 DEF InPlace
<1> QED
  BY <1>1 DEF Walked

-----------------------------------------------------------------------------
(* The records that buildContent() writes *)

LEMMA RecordIs ==
    ASSUME NEW fs, NEW id, NEW flag, NEW start, NEW length
    PROVE  LET r == Record(fs, id, flag, start, length)
           IN  /\ r.id = id /\ r.flag = flag /\ r.start = start /\ r.length = length
               /\ id \in {Self, Up} => r.len = 40
  BY DEF Record

LEMMA DirRecordsAre ==
    ASSUME BuildInv, NEW fs \in FS, pc = fs
    PROVE  LET d == dirList[cur]
               F == FileRecs(fs, d.files)
               C == ChildRecords(fs, d)
               R == DirRecords(fs)
           IN  /\ R \in Seq(RecSet) /\ F \in Seq(RecSet) /\ C \in Seq(RecSet)
               /\ Len(C) = Len(d.children) /\ Len(F) \in Nat /\ Len(C) \in Nat
               /\ Shaped(R, F, C)
               /\ R[1].start = dirsSizeSectors[fs]
               /\ R[2].start = UpRecord(fs).start /\ R[2].length = UpRecord(fs).length
               /\ \A i \in 1 .. Len(F) : R[2 + i].start = F[i].start /\ R[2 + i].length = F[i].length
<1> DEFINE d == dirList[cur]
           F == FileRecs(fs, d.files)
           C == ChildRecords(fs, d)
           R == DirRecords(fs)
           a == SelfRecord(fs)
           b == UpRecord(fs)
           ab == <<a, b>>
           all == (ab \o F) \o C
<1>1. a \in RecSet /\ b \in RecSet /\ F \in Seq(RecSet) /\ C \in Seq(RecSet) /\ R \in Seq(RecSet)
  BY DirRecordsTyped
<1>2. R = PlaceAll(all)
  BY Zenon DEF DirRecords, SelfRecord, UpRecord, FileRecs
<1>3. Len(C) = Len(d.children) /\ Len(d.children) \in Nat
  <2>1. Linked /\ Loops /\ pc \in {"dirs", "files", "iso", "joliet"}
    BY DEF BuildInv, FS
  <2>2. cur \in 1 .. Len(dirList)
    BY <2>1 DEF Loops
  <2>3. Len(d.children) \in Nat
    BY <2>1, <2>2, DirTyped
  <2> DEFINE m == Len(d.children)
             rec(i) == Record(fs, DirId(fs, tree.dirs[dirList[d.children[i]].src].name), "dir", 0, 0)
  <2>4. C = [i \in 1 .. m |-> rec(i)]
    BY DEF ChildRecords
  <2> HIDE DEF rec, C, d
  <2>5. m \in Nat
    BY <2>3
  <2>6. Len([i \in 1 .. m |-> rec(i)]) = m
    <3> HIDE DEF m
    <3> QED
      BY <2>5
  <2> QED
    BY <2>4, <2>5, <2>6
<1>4. /\ a.id = Self /\ a.flag = "dir" /\ a.len = 40 /\ a.start = dirsSizeSectors[fs]
      /\ b.id = Up /\ b.flag = "dir"
  BY RecordIs DEF SelfRecord, UpRecord
<1> HIDE DEF a, b, F, C, R, d
<1>5. ab \in Seq(RecSet) /\ Len(ab) = 2 /\ ab[1] = a /\ ab[2] = b
  BY <1>1
<1> HIDE DEF ab
<1> DEFINE s == ab \o F
<1>6. s \in Seq(RecSet) /\ Len(s) = 2 + Len(F) /\ Len(F) \in Nat
      /\ \A i \in 1 .. 2 + Len(F) : s[i] = IF i <= 2 THEN ab[i] ELSE F[i - 2]
  <2>1. IsConcat(s, ab, F, RecSet)
    BY <1>1, <1>5, ConcatFacts DEF IsConcat
  <2> HIDE DEF s
  <2> QED
    BY <1>1, <1>5, <2>1 DEF IsConcat
<1>7. all = s \o C
  OBVIOUS
<1> HIDE DEF s, all
<1>8. all \in Seq(RecSet) /\ Len(all) = 2 + Len(F) + Len(C) /\ Len(C) \in Nat
      /\ \A i \in 1 .. 2 + Len(F) + Len(C) : all[i] = IF i <= 2 + Len(F) THEN s[i] ELSE C[i - (2 + Len(F))]
  <2>1. IsConcat(s \o C, s, C, RecSet)
    BY <1>1, <1>6, ConcatFacts DEF IsConcat
  <2> QED
    BY <1>1, <1>6, <1>7, <2>1 DEF IsConcat
<1> DEFINE f == Len(F)
           c == Len(C)
<1>9. f \in Nat /\ c \in Nat /\ Len(all) = 2 + f + c
  BY <1>6, <1>8
<1>10. all[1] = a /\ all[2] = b
  BY <1>5, <1>6, <1>8
<1>11. ASSUME NEW i \in 1 .. f PROVE 2 + i \in 1 .. 2 + f + c /\ all[2 + i] = F[i]
  <2>1. 2 + i \in 1 .. 2 + f + c /\ 2 + i \in 1 .. 2 + f /\ 2 + i <= 2 + f /\ ~(2 + i <= 2) /\ (2 + i) - 2 = i
    BY <1>9
  <2> QED
    BY <1>6, <1>8, <2>1
<1>12. ASSUME NEW i \in 1 .. c PROVE 2 + f + i \in 1 .. 2 + f + c /\ all[2 + f + i] = C[i]
  <2>1. 2 + f + i \in 1 .. 2 + f + c /\ ~(2 + f + i <= 2 + f) /\ (2 + f + i) - (2 + f) = i
    BY <1>9
  <2> QED
    BY <1>8, <2>1
<1>13. /\ Len(R) = 2 + f + c
       /\ \A i \in 1 .. 2 + f + c :
             SameRecord(R[i], all[i]) /\ R[i].start = all[i].start /\ R[i].length = all[i].length
  BY <1>2, <1>8, <1>9, Placed
<1>14. InPlace(R)
  <2>1. Len(all) >= 1 /\ all[1].len = 40
    BY <1>4, <1>9, <1>10
  <2> QED
    BY <1>2, <1>8, <2>1, AllPlaced
<1> HIDE DEF f, c
<1>15. 1 \in 1 .. 2 + f + c /\ 2 \in 1 .. 2 + f + c
  BY <1>9
<1>16. /\ R[1].id = Self /\ R[1].flag = "dir" /\ R[2].id = Up /\ R[2].flag = "dir"
       /\ R[1].start = dirsSizeSectors[fs] /\ R[2].start = b.start /\ R[2].length = b.length
  BY <1>4, <1>10, <1>13, <1>15 DEF SameRecord
<1>17. \A i \in 1 .. f : SameRecord(R[2 + i], F[i]) /\ R[2 + i].start = F[i].start /\ R[2 + i].length = F[i].length
  BY <1>11, <1>13
<1>18. \A i \in 1 .. c : SameRecord(R[2 + f + i], C[i])
  BY <1>12, <1>13
<1>19. Shaped(R, F, C)
  BY <1>13, <1>14, <1>16, <1>17, <1>18 DEF Shaped, f, c
<1> QED
  BY <1>1, <1>3, <1>9, <1>16, <1>17, <1>19 DEF f, c, d, F, C, R, b

\* The same records in the same places, which may lead elsewhere.
SamePlaces(R, Q) ==
    /\ Len(Q) = Len(R)
    /\ \A i \in 1 .. Len(R) : SameRecord(Q[i], R[i]) /\ Q[i].pos = R[i].pos

LEMMA ShapedSame ==
    ASSUME NEW R, NEW Q, NEW F, NEW C, Len(R) \in Nat, Len(F) \in Nat, Len(C) \in Nat,
           Shaped(R, F, C), SamePlaces(R, Q)
    PROVE  Shaped(Q, F, C)
<1> DEFINE n == Len(R)
           f == Len(F)
           c == Len(C)
<1>1. /\ n = 2 + f + c /\ f \in Nat /\ c \in Nat /\ n \in Nat /\ Len(Q) = n
      /\ \A i \in 1 .. n : /\ Q[i].id = R[i].id /\ Q[i].flag = R[i].flag /\ Q[i].len = R[i].len
                           /\ Q[i].whole = R[i].whole /\ Q[i].pos = R[i].pos
  BY DEF Shaped, SamePlaces, SameRecord
<1>2. InPlace(Q)
  <2>1. ASSUME NEW i \in 1 .. n
        PROVE  \E q \in 0 .. i - 1 : In(Q[i].pos + Q[i].len, q) /\ Q[i].pos \div SECTOR_SIZE = q
    BY <1>1 DEF Shaped, InPlace
  <2>2. ASSUME NEW i \in 1 .. n - 1 PROVE Follows(Q[i], Q[i + 1])
    <3>1. i \in 1 .. n /\ i + 1 \in 1 .. n
      BY <1>1
    <3>2. Follows(R[i], R[i + 1])
      BY DEF Shaped, InPlace
    <3> QED
      BY <1>1, <3>1, <3>2 DEF Follows
  <2> QED
    BY <1>1, <2>1, <2>2 DEF InPlace
<1> HIDE DEF n, f, c
<1>3. 1 \in 1 .. n /\ 2 \in 1 .. n /\ (\A i \in 1 .. f : 2 + i \in 1 .. n) /\ \A i \in 1 .. c : 2 + f + i \in 1 .. n
  BY <1>1
<1>4. \A i \in 1 .. f : SameRecord(Q[2 + i], F[i])
  BY <1>1, <1>3 DEF Shaped, SameRecord, f
<1>5. \A i \in 1 .. c : SameRecord(Q[2 + f + i], C[i])
  BY <1>1, <1>3 DEF Shaped, SameRecord, f, c
<1> QED
  BY <1>1, <1>2, <1>3, <1>4, <1>5 DEF Shaped, f, c

LEMMA PlacesRelocated ==
    ASSUME NEW s \in Seq(RecSet), NEW own \in 1 .. Len(s), NEW x \in Int, NEW z \in Int
    PROVE  LET q == Relocated(s, own, x, z)
           IN  /\ q \in Seq(RecSet) /\ SamePlaces(s, q)
               /\ q[own].start = x /\ q[own].length = z
               /\ \A i \in 1 .. Len(s) : i # own => q[i] = s[i]
<1> DEFINE t == WithStart(s, own, x)
           q == WithLength(t, own, z)
           n == Len(s)
<1>1. n \in Nat /\ \A i \in 1 .. n : s[i] \in RecSet
  OBVIOUS
<1>2. t \in Seq(RecSet) /\ Len(t) = n /\ q \in Seq(RecSet) /\ Len(q) = n
  BY RecordChanged
<1>3. \A i \in 1 .. n : t[i] = IF i = own THEN [s[own] EXCEPT !.start = x] ELSE s[i]
  BY DEF WithStart
<1>4. \A i \in 1 .. n : q[i] = IF i = own THEN [t[own] EXCEPT !.length = z] ELSE t[i]
  BY <1>2 DEF WithLength
<1> HIDE DEF t, q
<1>5. \A r \in RecSet : LET e == [r EXCEPT !.start = x]
                        IN  e \in RecSet /\ SameRecord(e, r) /\ e.pos = r.pos /\ e.start = x
  BY DEF RecSet, SameRecord
<1>6. \A r \in RecSet : LET e == [r EXCEPT !.length = z]
                        IN  SameRecord(e, r) /\ e.pos = r.pos /\ e.length = z /\ e.start = r.start
  BY DEF RecSet, SameRecord
<1>7. own \in 1 .. n
  OBVIOUS
<1> HIDE DEF n
<1>8. t[own] \in RecSet /\ SameRecord(t[own], s[own]) /\ t[own].pos = s[own].pos /\ t[own].start = x
  BY <1>1, <1>3, <1>5, <1>7
<1>9. SameRecord(q[own], t[own]) /\ q[own].pos = t[own].pos /\ q[own].length = z /\ q[own].start = x
  BY <1>4, <1>6, <1>7, <1>8
<1>10. ASSUME NEW i \in 1 .. n PROVE SameRecord(q[i], s[i]) /\ q[i].pos = s[i].pos /\ (i # own => q[i] = s[i])
  <2>1. CASE i = own
    BY <1>8, <1>9, <2>1 DEF SameRecord
  <2>2. CASE i # own
    BY <1>3, <1>4, <2>2 DEF SameRecord
  <2> QED
    BY <2>1, <2>2
<1> QED
  BY <1>2, <1>9, <1>10 DEF SamePlaces, q, t, n, Relocated

\* What buildContent() puts into its list.
LEMMA NewContentIs ==
    ASSUME NEW fs \in FS, DirRecords(fs) \in Seq(RecSet), Len(DirRecords(fs)) >= 2, NewSize(fs) \in Int
    PROVE  LET R == DirRecords(fs)
               N == NewContent(fs)
           IN  /\ N \in Seq(RecSet) /\ SamePlaces(R, N)
               /\ N[1].start = R[1].start /\ N[1].length = NewSize(fs)
               /\ N[2].start = R[2].start
               /\ N[2].length = IF dirList[cur].parent = cur THEN NewSize(fs) ELSE R[2].length
               /\ \A i \in 3 .. Len(R) : N[i] = R[i]
<1> DEFINE R == DirRecords(fs)
           N == NewContent(fs)
           z == NewSize(fs)
           n == Len(R)
           A == WithLength(R, 1, z)
           B == WithLength(A, 2, z)
<1>1. N = IF dirList[cur].parent = cur THEN B ELSE A
  BY DEF NewContent, NewSize, WithLength
<1>2. n \in Nat /\ n >= 2 /\ 1 \in 1 .. n /\ 2 \in 1 .. n /\ \A i \in 1 .. n : R[i] \in RecSet
  OBVIOUS
<1>3. A \in Seq(RecSet) /\ Len(A) = n /\ B \in Seq(RecSet) /\ Len(B) = n
  BY RecordChanged
<1>4. \A i \in 1 .. n : A[i] = IF i = 1 THEN [R[1] EXCEPT !.length = z] ELSE R[i]
  BY DEF WithLength
<1>5. \A i \in 1 .. n : B[i] = IF i = 2 THEN [A[2] EXCEPT !.length = z] ELSE A[i]
  BY <1>3 DEF WithLength
<1>6. \A r \in RecSet : LET e == [r EXCEPT !.length = z]
                        IN  SameRecord(e, r) /\ e.pos = r.pos /\ e.length = z /\ e.start = r.start
  BY DEF RecSet, SameRecord
<1> HIDE DEF R, N, z, n, A, B
<1>7. SameRecord(A[1], R[1]) /\ A[1].pos = R[1].pos /\ A[1].length = z /\ A[1].start = R[1].start /\ A[2] = R[2]
  <2>1. A[1] = [R[1] EXCEPT !.length = z] /\ R[1] \in RecSet /\ A[2] = R[2]
    BY <1>2, <1>4
  <2> QED
    BY <1>6, <2>1
<1>8. SameRecord(B[2], R[2]) /\ B[2].pos = R[2].pos /\ B[2].length = z /\ B[2].start = R[2].start /\ B[1] = A[1]
  <2>1. B[2] = [R[2] EXCEPT !.length = z] /\ R[2] \in RecSet /\ B[1] = A[1]
    BY <1>2, <1>5, <1>7
  <2> QED
    BY <1>6, <2>1
<1>9. \A i \in 3 .. n : i \in 1 .. n /\ A[i] = R[i] /\ B[i] = R[i]
  BY <1>2, <1>4, <1>5
<1>10. \A i \in 1 .. n : SameRecord(A[i], R[i]) /\ A[i].pos = R[i].pos
  BY <1>4, <1>7 DEF SameRecord
<1>11. \A i \in 1 .. n : SameRecord(B[i], R[i]) /\ B[i].pos = R[i].pos
  BY <1>5, <1>8, <1>10
<1>12. SamePlaces(R, A) /\ SamePlaces(R, B)
  BY <1>3, <1>10, <1>11 DEF SamePlaces, n
<1> QED
  BY <1>1, <1>3, <1>7, <1>8, <1>9, <1>12 DEF R, N, z, n

\* What fixDirLba() makes of records that a loop comes to.
LEMMA FixedAre ==
    ASSUME tree \in Trees, Linked, Counted, NEW fs \in FS, NEW records \in Seq(RecSet), InPlace(records)
    PROVE  LET q == fixDirLba(fs, records)
           IN  /\ q \in Seq(RecSet) /\ SamePlaces(records, q)
               /\ dirLba(fs) \in Nat /\ filesLba \in Nat
               /\ \A i \in 1 .. Len(records) :
                     /\ q[i].start = records[i].start + IF records[i].flag = "dir" THEN dirLba(fs) ELSE filesLba
                     /\ q[i].length = records[i].length
<1> DEFINE n == Len(records)
           q == fixDirLba(fs, records)
           a == dirLba(fs)
           b == filesLba
           x(i) == records[i].start + IF records[i].flag = "dir" THEN a ELSE b
<1>1. n \in Nat /\ \A i \in 1 .. n : records[i] \in RecSet
  OBVIOUS
<1>2. a \in Nat /\ b \in Nat
  BY LbaTyped DEF dirLba
<1>3. Walked(records) = 1 .. n
  BY AllWalked
<1>4. q = [i \in 1 .. n |-> [records[i] EXCEPT !.start = x(i)]]
  BY <1>3 DEF fixDirLba
<1>5. q \in Seq(RecSet)
  BY Fixed
<1> HIDE DEF a, b, q
<1>6. \A i \in 1 .. n : records[i].start \in Int /\ x(i) \in Int
  BY <1>1, <1>2 DEF RecSet
<1> HIDE DEF x
<1>7. ASSUME NEW r \in RecSet, NEW y \in Int
      PROVE  LET e == [r EXCEPT !.start = y]
             IN  SameRecord(e, r) /\ e.pos = r.pos /\ e.length = r.length /\ e.start = y
  BY DEF RecSet, SameRecord
<1>8. ASSUME NEW i \in 1 .. n
      PROVE  SameRecord(q[i], records[i]) /\ q[i].pos = records[i].pos
             /\ q[i].length = records[i].length /\ q[i].start = x(i)
  <2>1. q[i] = [records[i] EXCEPT !.start = x(i)]
    BY <1>4
  <2> QED
    BY <1>1, <1>6, <1>7, <2>1
<1>9. Len(q) = n
  <2> HIDE DEF n
  <2> QED
    BY <1>1, <1>4
<1>10. SamePlaces(records, q)
  BY <1>8, <1>9 DEF SamePlaces
<1> QED
  BY <1>2, <1>5, <1>8, <1>10 DEF a, b, q, x

-----------------------------------------------------------------------------
(* What the directories of one file system say *)

ViewSet == [src : Nat, parent : Nat, children : Seq(Nat), files : Seq(FileSet), recs : Seq(RecSet), size : Nat]

LEMMA ViewTyped ==
    ASSUME NEW L, NEW n, n = Len(L), n \in Nat, L \in [1 .. n -> DirSet], NEW fs \in FS
    PROVE  LET V == View(L, fs)
           IN  /\ V \in Seq(ViewSet) /\ V \in [1 .. n -> ViewSet] /\ Len(V) = n
               /\ \A k \in 1 .. n :
                     /\ V[k].src = L[k].src /\ V[k].parent = L[k].parent /\ V[k].children = L[k].children
                     /\ V[k].files = L[k].files /\ V[k].recs = L[k].content[fs] /\ V[k].size = L[k].size[fs]
<1> DEFINE V == View(L, fs)
           v(k) == [src |-> L[k].src, parent |-> L[k].parent, children |-> L[k].children,
                    files |-> L[k].files, recs |-> L[k].content[fs], size |-> L[k].size[fs]]
<1>1. V = [k \in 1 .. n |-> v(k)]
  BY DEF View
<1>2. ASSUME NEW k \in 1 .. n PROVE v(k) \in ViewSet
  <2>1. L[k] \in DirSet
    OBVIOUS
  <2> DEFINE d == L[k]
  <2> HIDE DEF d
  <2>2. /\ d.src \in Nat /\ d.parent \in Nat /\ d.children \in Seq(Nat) /\ d.files \in Seq(FileSet)
        /\ d.content[fs] \in Seq(RecSet) /\ d.size[fs] \in Nat
    BY <2>1 DEF DirSet, d
  <2> QED
    BY <2>2 DEF ViewSet, d
<1>3. \A k \in 1 .. n :
          /\ v(k).src = L[k].src /\ v(k).parent = L[k].parent /\ v(k).children = L[k].children
          /\ v(k).files = L[k].files /\ v(k).recs = L[k].content[fs] /\ v(k).size = L[k].size[fs]
  OBVIOUS
<1> HIDE DEF v
<1>4. V \in [1 .. n -> ViewSet] /\ \A k \in 1 .. n : V[k] = v(k)
  BY <1>1, <1>2
<1>5. V \in Seq(ViewSet) /\ Len(V) = n
  <2> HIDE DEF V
  <2> QED
    BY <1>4
<1> QED
  BY <1>3, <1>4, <1>5

LEMMA FileRecsTyped ==
    ASSUME NEW fs \in FS, NEW files \in Seq(FileSet)
    PROVE  FileRecs(fs, files) \in Seq(RecSet) /\ Len(FileRecs(fs, files)) \in Nat
<1> DEFINE m == Len(files)
           ff == [i \in 1 .. m |-> FileRecords(fs, files[i])]
<1>1. m \in Nat /\ \A i \in 1 .. m : files[i] \in FileSet
  OBVIOUS
<1>2. ff \in [1 .. m -> Seq(RecSet)]
  BY <1>1, FileRecordsTyped
<1>3. FileRecs(fs, files) = FlattenSeq(ff)
  BY DEF FileRecs
<1> HIDE DEF ff, m
<1>4. PICK f \in [0 .. m -> Seq(RecSet)] :
          /\ f[0] = << >> /\ \A i \in 1 .. m : f[i] = f[i - 1] \o ff[i]
          /\ FlattenSeq(ff) = f[m]
  BY <1>1, <1>2, Flattened
<1>5. FileRecs(fs, files) \in Seq(RecSet)
  BY <1>1, <1>3, <1>4
<1> QED
  BY <1>5

\* Before the first directory.
LEMMA KnownNothing ==
    ASSUME NEW V, NEW t, NEW fs, NEW b, NEW fb
    PROVE  Known(V, t, fs, 0, b, fb, 0)
<1>1. \A k \in 1 .. 0 : FALSE
  OBVIOUS
<1>2. IsSum([i \in 0 .. 0 |-> 0], 0, 0, SectorsOf(V)) /\ [i \in 0 .. 0 |-> 0][0] = 0
  BY DEF IsSum
<1>3. Numbered(V, 0, b, 0)
  BY <1>1, <1>2, Zenon DEF Numbered
<1>4. Laid(V, t, fs, 0) /\ Led(V, t, fs, 0) /\ Filed(V, t, fs, 0, fb)
  BY <1>1, Zenon DEF Laid, Led, Filed
<1> QED
  BY <1>3, <1>4 DEF Known

\* V and W have the same directories.
Alike(V, W) ==
    /\ Len(W) = Len(V) /\ Len(V) \in Nat
    /\ V \in [1 .. Len(V) -> ViewSet] /\ W \in [1 .. Len(V) -> ViewSet]
    /\ \A k \in 1 .. Len(V) : /\ W[k].src = V[k].src /\ W[k].parent = V[k].parent
                              /\ W[k].children = V[k].children /\ W[k].files = V[k].files

KidsIn(V, k) == \A i \in 1 .. Len(V[k].children) : V[k].children[i] \in 1 .. Len(V)

LEMMA AlikeNames ==
    ASSUME NEW V, NEW W, Alike(V, W), NEW k \in 1 .. Len(V), KidsIn(V, k), NEW t
    PROVE  \A i \in 1 .. Len(V[k].children) :
              NameOf(W, t, W[k].children[i]) = NameOf(V, t, V[k].children[i])
<1>1. W[k].children = V[k].children
  BY DEF Alike
<1> QED
  BY <1>1 DEF Alike, NameOf, KidsIn

LEMMA SubRecsSame ==
    ASSUME NEW V, NEW W, Alike(V, W), NEW k \in 1 .. Len(V), KidsIn(V, k), NEW t, NEW fs
    PROVE  SubRecs(fs, W, t, k) = SubRecs(fs, V, t, k)
<1> DEFINE m == Len(V[k].children)
           v(i) == Record(fs, DirId(fs, NameOf(V, t, V[k].children[i])), "dir", 0, 0)
           w(i) == Record(fs, DirId(fs, NameOf(W, t, W[k].children[i])), "dir", 0, 0)
<1>1. W[k].children = V[k].children
  BY DEF Alike
<1>2. \A i \in 1 .. m : NameOf(W, t, W[k].children[i]) = NameOf(V, t, V[k].children[i])
  BY AlikeNames, ZenonT(60)
<1>3. \A i \in 1 .. m : v(i) = w(i)
  BY <1>2
<1>4. SubRecs(fs, V, t, k) = [i \in 1 .. m |-> v(i)] /\ SubRecs(fs, W, t, k) = [i \in 1 .. m |-> w(i)]
  BY <1>1 DEF SubRecs
<1> HIDE DEF v, w, m
<1> QED
  BY <1>3, <1>4

\* What the records of the directories in a directory are.
SubRecIs(r, fs, id) == r.id = id /\ r.flag = "dir" /\ r.whole = (Even(39 + len_fi(fs, r.id)) < 256)

LEMMA SubRecsAre ==
    ASSUME NEW V, NEW k, V[k].children \in Seq(Nat), NEW t, NEW fs
    PROVE  /\ Len(SubRecs(fs, V, t, k)) = Len(V[k].children) /\ Len(V[k].children) \in Nat
           /\ \A i \in 1 .. Len(V[k].children) :
                 SubRecIs(SubRecs(fs, V, t, k)[i], fs, DirId(fs, NameOf(V, t, V[k].children[i])))
<1> DEFINE m == Len(V[k].children)
           id(i) == DirId(fs, NameOf(V, t, V[k].children[i]))
           v(i) == Record(fs, id(i), "dir", 0, 0)
<1>1. m \in Nat
  OBVIOUS
<1>2. SubRecs(fs, V, t, k) = [i \in 1 .. m |-> v(i)]
  BY DEF SubRecs
<1> HIDE DEF id
<1>3. \A i \in 1 .. m : SubRecIs(v(i), fs, id(i))
  BY Zenon DEF Record, SubRecIs
<1> HIDE DEF v, m
<1>4. Len([i \in 1 .. m |-> v(i)]) = m
  BY <1>1
<1>5. \A i \in 1 .. m : SubRecs(fs, V, t, k)[i] = v(i)
  BY <1>2
<1>6. \A i \in 1 .. m :
          SubRecIs(SubRecs(fs, V, t, k)[i], fs, id(i))
  BY <1>3, <1>5, Zenon
<1>7. Len(SubRecs(fs, V, t, k)) = m
  BY <1>2, <1>4
<1> QED
  BY <1>1, <1>6, <1>7, Zenon DEF m, id

LEMMA LaidSame ==
    ASSUME NEW V, NEW W, NEW t, NEW fs \in FS, Alike(V, W), ListOnce(V, t), NEW n \in 0 .. Len(V),
           Laid(V, t, fs, n),
           NEW k \in 1 .. n, SamePlaces(V[k].recs, W[k].recs), W[k].size = V[k].size
    PROVE  /\ Shaped(W[k].recs, FileRecs(fs, W[k].files), SubRecs(fs, W, t, k))
           /\ W[k].size = RoundUp(RecsEnd(W[k].recs))
<1> DEFINE R == V[k].recs
           Q == W[k].recs
           F == FileRecs(fs, V[k].files)
           C == SubRecs(fs, V, t, k)
<1>1. Len(V) \in Nat
  BY DEF Alike
<1>2. k \in 1 .. Len(V)
  BY <1>1
<1>3. V[k] \in ViewSet /\ W[k].files = V[k].files
  BY <1>2 DEF Alike
<1>4. R \in Seq(RecSet) /\ V[k].files \in Seq(FileSet)
  BY <1>3 DEF ViewSet
<1>5. KidsIn(V, k)
  <2>1. \A i \in 1 .. Len(V[k].children) : V[k].children[i] \in 2 .. Len(V)
    BY <1>2 DEF ListOnce
  <2> QED
    BY <1>1, <2>1 DEF KidsIn
<1>6. SubRecs(fs, W, t, k) = C /\ Len(C) \in Nat
  <2>1. SubRecs(fs, W, t, k) = SubRecs(fs, V, t, k)
    BY <1>2, <1>5, SubRecsSame
  <2>2. V[k].children \in Seq(Nat)
    BY <1>3 DEF ViewSet
  <2>3. Len(SubRecs(fs, V, t, k)) = Len(V[k].children) /\ Len(V[k].children) \in Nat
    BY <2>2, SubRecsAre
  <2> QED
    BY <2>1, <2>3
<1>7. Len(F) \in Nat
  BY <1>4, FileRecsTyped
<1>8. Shaped(R, F, C) /\ V[k].size = RoundUp(RecsEnd(R))
  BY DEF Laid
<1>9. Len(R) \in Nat
  BY <1>4
<1> HIDE DEF F, C, R, Q
<1>10. SamePlaces(R, Q)
  BY DEF R, Q
<1>11. Shaped(Q, F, C)
  BY <1>6, <1>7, <1>8, <1>9, <1>10, ShapedSame
<1>12. Len(R) \in 1 .. Len(R)
  BY <1>6, <1>7, <1>8 DEF Shaped
<1>13. RecsEnd(Q) = RecsEnd(R)
  <2> DEFINE l == Len(R)
  <2>1. Len(Q) = l /\ Q[l].pos = R[l].pos /\ Q[l].len = R[l].len
    BY <1>10, <1>12 DEF SamePlaces, SameRecord
  <2> QED
    BY <2>1 DEF RecsEnd
<1> QED
  BY <1>3, <1>6, <1>8, <1>11, <1>13 DEF F, C, Q

\* fixLba(): everything is shifted.
FixedFrom(R, Q, a, b) ==
    /\ SamePlaces(R, Q)
    /\ \A i \in 1 .. Len(R) :
          /\ Q[i].start = R[i].start + IF R[i].flag = "dir" THEN a ELSE b
          /\ Q[i].length = R[i].length

LEMMA FileRecsAre ==
    ASSUME NEW fs \in FS, NEW files \in Seq(FileSet), NEW i \in 1 .. Len(FileRecs(fs, files))
    PROVE  \E k \in 1 .. Len(files) : \E j \in 1 .. Len(FileRecords(fs, files[k])) :
              FileRecs(fs, files)[i] = FileRecords(fs, files[k])[j]
<1> DEFINE m == Len(files)
           ff == [k \in 1 .. m |-> FileRecords(fs, files[k])]
<1>1. m \in Nat /\ \A k \in 1 .. m : files[k] \in FileSet
  OBVIOUS
<1>2. ff \in [1 .. m -> Seq(RecSet)] /\ \A k \in 1 .. m : ff[k] = FileRecords(fs, files[k])
  BY <1>1, FileRecordsTyped
<1>3. FileRecs(fs, files) = FlattenSeq(ff)
  BY DEF FileRecs
<1> HIDE DEF ff, m
<1>4. PICK f \in [0 .. m -> Seq(RecSet)] :
          /\ f[0] = << >> /\ \A k \in 1 .. m : f[k] = f[k - 1] \o ff[k]
          /\ FlattenSeq(ff) = f[m]
  BY <1>1, <1>2, Flattened
<1> DEFINE Among(r) == \E k \in 1 .. m : \E j \in 1 .. Len(ff[k]) : r = ff[k][j]
           S == {x \in Nat : x <= m => \A y \in 1 .. Len(f[x]) : Among(f[x][y])}
<1>a. ASSUME NEW k \in 1 .. m, NEW j \in 1 .. Len(ff[k]) PROVE Among(ff[k][j])
  OBVIOUS
<1> HIDE DEF Among
<1>5. 0 \in S
  BY <1>4
<1>6. ASSUME NEW x \in Nat, x \in S PROVE x + 1 \in S
  <2> SUFFICES ASSUME x + 1 <= m, NEW y \in 1 .. Len(f[x + 1])
               PROVE  Among(f[x + 1][y])
    BY <1>1
  <2>1. x \in 0 .. m /\ x + 1 \in 1 .. m /\ (x + 1) - 1 = x /\ x <= m
    BY <1>1
  <2> DEFINE a == f[x]
             b == ff[x + 1]
             c == f[x + 1]
  <2>2. c = a \o b /\ a \in Seq(RecSet) /\ b \in Seq(RecSet)
    BY <1>2, <1>4, <2>1
  <2>4. \A z \in 1 .. Len(a) : Among(a[z])
    BY <1>6, <2>1
  <2>7. \A z \in 1 .. Len(b) : Among(b[z])
    BY <1>a, <2>1
  <2>8. y \in 1 .. Len(c)
    OBVIOUS
  <2> HIDE DEF a, b, c, S
  <2>3. IsConcat(c, a, b, RecSet)
    BY <2>2, ConcatFacts DEF IsConcat
  <2>9. Len(a) \in Nat /\ Len(b) \in Nat
    BY <2>2
  <2>5. CASE y <= Len(a)
    BY <2>3, <2>4, <2>5, <2>8, <2>9 DEF IsConcat, c
  <2>6. CASE ~(y <= Len(a))
    <3>1. y - Len(a) \in 1 .. Len(b) /\ c[y] = b[y - Len(a)]
      BY <2>3, <2>6, <2>8, <2>9 DEF IsConcat
    <3> QED
      BY <2>7, <3>1 DEF c
  <2> QED
    BY <2>5, <2>6
<1>7. m \in S
  <2> HIDE DEF S
  <2> QED
    BY <1>1, <1>5, <1>6, SetInduction
<1>8. Among(FileRecs(fs, files)[i])
  BY <1>1, <1>3, <1>4, <1>7
<1> QED
  BY <1>2, <1>8 DEF m, Among

LEMMA ExtentsTyped ==
    ASSUME NEW size \in Nat
    PROVE  Extents(size) \in Nat
<1>1. MULTIEXTENT_PART_SIZE \in Nat \ {0}
  BY ExtentAssumption
<1> DEFINE m == MULTIEXTENT_PART_SIZE
<1> HIDE DEF m
<1>2. m \in Nat \ {0} /\ size + m - 1 \in Nat
  BY <1>1 DEF m
<1>3. \A x \in Nat : x \div m \in Nat
  BY <1>2
<1> QED
  BY <1>2, <1>3 DEF Extents, m

\* What the records of a file have in common.
LEMMA FileRecordIs ==
    ASSUME NEW fs \in FS, NEW files \in Seq(FileSet), NEW i \in 1 .. Len(FileRecs(fs, files))
    PROVE  LET r == FileRecs(fs, files)[i]
           IN  /\ r \in RecSet /\ r.flag # "dir" /\ r.whole = (Even(39 + len_fi(fs, r.id)) < 256)
               /\ \E k \in 1 .. Len(files) : r.id = FileId(fs, files[k].name)
<1>1. PICK k \in 1 .. Len(files) : \E j \in 1 .. Len(FileRecords(fs, files[k])) :
            FileRecs(fs, files)[i] = FileRecords(fs, files[k])[j]
  BY FileRecsAre
<1>2. PICK j \in 1 .. Len(FileRecords(fs, files[k])) : FileRecs(fs, files)[i] = FileRecords(fs, files[k])[j]
  BY <1>1
<1> DEFINE r == FileRecs(fs, files)[i]
           f == files[k]
           p == Extents(f.size)
           rec(x) == Record(fs, FileId(fs, f.name), IF x < p THEN "more" ELSE "file",
                            f.rlba + (x - 1) * bytesToSectors(MULTIEXTENT_PART_SIZE),
                            IF x < p THEN MULTIEXTENT_PART_SIZE
                            ELSE (f.size - (((x - 1) * MULTIEXTENT_PART_SIZE) % UINT32)) % UINT32)
<1>3. FileRecords(fs, f) = [x \in 1 .. p |-> rec(x)]
  BY DEF FileRecords
<1>4. FileRecords(fs, f) \in Seq(RecSet)
  BY FileRecordsTyped
<1>5. j \in 1 .. p
  <2>1. f \in FileSet
    OBVIOUS
  <2>2. f.size \in Nat
    BY <2>1 DEF FileSet
  <2>3. p \in Nat
    BY <2>2, ExtentsTyped
  <2> HIDE DEF rec, p
  <2>4. Len([x \in 1 .. p |-> rec(x)]) = p
    BY <2>3
  <2> QED
    BY <1>2, <1>3, <2>4
<1>6. r = rec(j) /\ r \in RecSet
  <2>1. r = FileRecords(fs, f)[j] /\ j \in 1 .. Len(FileRecords(fs, f))
    BY <1>2
  <2> HIDE DEF r, rec, p
  <2>2. FileRecords(fs, f)[j] = rec(j)
    BY <1>3, <1>5
  <2>3. FileRecords(fs, f)[j] \in RecSet
    BY <1>4, <2>1
  <2> QED
    BY <2>1, <2>2, <2>3
<1>7. \A id, flag, start, length :
          LET q == Record(fs, id, flag, start, length)
          IN  q.id = id /\ q.flag = flag /\ q.whole = (Even(39 + len_fi(fs, id)) < 256)
  BY ZenonT(60) DEF Record
<1> DEFINE id == FileId(fs, f.name)
           flag == IF j < p THEN "more" ELSE "file"
           a == f.rlba + (j - 1) * bytesToSectors(MULTIEXTENT_PART_SIZE)
           b == IF j < p THEN MULTIEXTENT_PART_SIZE
                ELSE (f.size - (((j - 1) * MULTIEXTENT_PART_SIZE) % UINT32)) % UINT32
<1>8. flag # "dir"
  OBVIOUS
<1>b. r = Record(fs, id, flag, a, b)
  BY <1>6
<1> HIDE DEF flag, id, a, b, r
<1>9. r.id = id /\ r.flag = flag /\ r.whole = (Even(39 + len_fi(fs, id)) < 256)
  BY <1>b, Zenon DEF Record
<1> HIDE DEF rec
<1>10. r.whole = (Even(39 + len_fi(fs, r.id)) < 256)
  BY <1>9, Zenon
<1> QED
  BY <1>6, <1>8, <1>9, <1>10 DEF id, r

\* The records of one of the first n directories.
LaidOut(V, t, fs, k) ==
    LET R == V[k].recs
        F == FileRecs(fs, V[k].files)
        c == Len(V[k].children)
    IN  /\ Len(F) \in Nat /\ c \in Nat /\ R \in Seq(RecSet) /\ Len(R) = 2 + Len(F) + c /\ InPlace(R)
        /\ R[1].id = Self /\ R[1].flag = "dir" /\ R[2].id = Up /\ R[2].flag = "dir"
        /\ \A i \in 1 .. Len(F) : R[2 + i].id = F[i].id /\ R[2 + i].flag = F[i].flag /\ R[2 + i].flag # "dir"
        /\ \A i \in 1 .. c : /\ R[2 + Len(F) + i].id = DirId(fs, NameOf(V, t, V[k].children[i]))
                             /\ R[2 + Len(F) + i].flag = "dir"
        /\ \A i \in 3 .. Len(R) : R[i].whole = (Even(39 + len_fi(fs, R[i].id)) < 256)

LEMMA LaidIs ==
    ASSUME NEW fs \in FS, NEW V, NEW t, Len(V) \in Nat, V \in [1 .. Len(V) -> ViewSet],
           NEW n \in 0 .. Len(V), Laid(V, t, fs, n), NEW k \in 1 .. n
    PROVE  LaidOut(V, t, fs, k)
<1> DEFINE R == V[k].recs
           F == FileRecs(fs, V[k].files)
           C == SubRecs(fs, V, t, k)
           c == Len(V[k].children)
           f == Len(F)
           W(r) == r.whole = (Even(39 + len_fi(fs, r.id)) < 256)
<1>1. k \in 1 .. Len(V)
  OBVIOUS
<1>2. V[k] \in ViewSet
  BY <1>1
<1>3. R \in Seq(RecSet) /\ V[k].files \in Seq(FileSet) /\ V[k].children \in Seq(Nat)
  BY <1>2 DEF ViewSet
<1>4. f \in Nat /\ c \in Nat /\ Len(C) = c
  <2>1. c \in Nat /\ Len(C) = c
    BY <1>3, SubRecsAre
  <2> QED
    BY <1>3, <2>1, FileRecsTyped
<1>5. Shaped(R, F, C)
  BY DEF Laid
<1>6. \A i \in 1 .. f : F[i].flag # "dir" /\ W(F[i])
  BY <1>3, FileRecordIs, SMTT(20)
<1>7. \A i \in 1 .. c : C[i].id = DirId(fs, NameOf(V, t, V[k].children[i])) /\ C[i].flag = "dir" /\ W(C[i])
  <2>1. \A i \in 1 .. c : SubRecIs(C[i], fs, DirId(fs, NameOf(V, t, V[k].children[i])))
    BY <1>3, SubRecsAre
  <2> QED
    BY <2>1, Zenon DEF SubRecIs
<1>8. \A r, s : SameRecord(r, s) /\ W(s) => W(r)
  BY Zenon DEF SameRecord
<1> HIDE DEF R, F, C, W, c, f
<1>9. \A i \in 1 .. f : SameRecord(R[2 + i], F[i])
  BY <1>5 DEF Shaped, f
<1>10. \A i \in 1 .. c : SameRecord(R[2 + f + i], C[i])
  BY <1>4, <1>5 DEF Shaped, f
<1>11. Len(R) = 2 + f + c /\ InPlace(R) /\ R[1].id = Self /\ R[1].flag = "dir" /\ R[2].id = Up /\ R[2].flag = "dir"
  BY <1>4, <1>5 DEF Shaped, f
<1>12. \A i \in 1 .. f : R[2 + i].id = F[i].id /\ R[2 + i].flag = F[i].flag /\ R[2 + i].flag # "dir"
  BY <1>6, <1>9 DEF SameRecord
<1>13. \A i \in 1 .. c : R[2 + f + i].id = DirId(fs, NameOf(V, t, V[k].children[i])) /\ R[2 + f + i].flag = "dir"
  BY <1>7, <1>10 DEF SameRecord
<1>14. ASSUME NEW i \in 3 .. Len(R) PROVE W(R[i])
  <2>1. CASE i <= 2 + f
    <3>1. i - 2 \in 1 .. f /\ 2 + (i - 2) = i
      BY <1>4, <1>11, <2>1
    <3> QED
      BY <1>6, <1>8, <1>9, <3>1
  <2>2. CASE ~(i <= 2 + f)
    <3>1. i - (2 + f) \in 1 .. c /\ 2 + f + (i - (2 + f)) = i
      BY <1>4, <1>11, <2>2
    <3> QED
      BY <1>7, <1>8, <1>10, <3>1
  <2> QED
    BY <2>1, <2>2
<1> QED
  BY <1>3, <1>4, <1>11, <1>12, <1>13, <1>14 DEF LaidOut, R, F, c, f, W

LEMMA KnownFixed ==
    ASSUME NEW V, NEW W, NEW t, NEW fs \in FS, NEW a \in Nat, NEW b \in Nat, NEW total,
           Alike(V, W), ListOnce(V, t), Known(V, t, fs, Len(V), 0, 0, total),
           \A k \in 1 .. Len(V) : FixedFrom(V[k].recs, W[k].recs, a, b) /\ W[k].size = V[k].size
    PROVE  Known(W, t, fs, Len(V), a, b, total)
<1> DEFINE n == Len(V)
<1>1. /\ n \in Nat /\ n \in 0 .. n /\ Len(W) = n /\ V \in [1 .. n -> ViewSet] /\ W \in [1 .. n -> ViewSet]
      /\ \A k \in 1 .. n : W[k].parent = V[k].parent /\ W[k].children = V[k].children /\ W[k].files = V[k].files
  BY DEF Alike
<1>2. Laid(V, t, fs, n) /\ Numbered(V, n, 0, total) /\ Led(V, t, fs, n) /\ Filed(V, t, fs, n, 0)
  BY DEF Known
<1>3. \A k \in 1 .. n : W[k].size = V[k].size /\ SamePlaces(V[k].recs, W[k].recs)
  BY DEF FixedFrom
<1>4. Laid(W, t, fs, n)
  BY <1>1, <1>2, <1>3, LaidSame DEF Laid
<1>5. ASSUME NEW k \in 1 .. n
      PROVE  LET R == V[k].recs
                 Q == W[k].recs
                 f == Len(FileRecs(fs, V[k].files))
             IN  /\ Len(Q) = Len(R) /\ Len(R) \in Nat /\ Len(R) >= 2 /\ f \in Nat
                 /\ \A i \in 1 .. Len(R) : Q[i].id = R[i].id /\ Q[i].length = R[i].length
                 /\ Q[1].start = R[1].start + a /\ Q[2].start = R[2].start + a
                 /\ \A i \in 1 .. f : 2 + i \in 1 .. Len(R) /\ Q[2 + i].start = R[2 + i].start + b
                 /\ \A i \in 1 .. Len(V[k].children) :
                       2 + f + i \in 1 .. Len(R) /\ Q[2 + f + i].start = R[2 + f + i].start + a
  <2> DEFINE R == V[k].recs
             Q == W[k].recs
             F == FileRecs(fs, V[k].files)
             f == Len(F)
             c == Len(V[k].children)
  <2>1. /\ f \in Nat /\ c \in Nat /\ R \in Seq(RecSet) /\ Len(R) = 2 + f + c
        /\ R[1].flag = "dir" /\ R[2].flag = "dir"
        /\ \A i \in 1 .. f : R[2 + i].flag # "dir"
        /\ \A i \in 1 .. c : R[2 + f + i].flag = "dir"
    <3>1. LaidOut(V, t, fs, k)
      BY <1>1, <1>2, LaidIs
    <3> QED
      BY <3>1, Zenon DEF LaidOut
  <2>2. FixedFrom(R, Q, a, b)
    OBVIOUS
  <2> HIDE DEF R, Q, F, f, c
  <2>3. Len(Q) = Len(R) /\ Len(R) \in Nat /\ Len(R) >= 2
    BY <2>1, <2>2 DEF FixedFrom, SamePlaces
  <2>4. \A i \in 1 .. Len(R) : /\ Q[i].id = R[i].id /\ Q[i].length = R[i].length
                               /\ Q[i].start = R[i].start + IF R[i].flag = "dir" THEN a ELSE b
    BY <2>2 DEF FixedFrom, SamePlaces, SameRecord
  <2>5. 1 \in 1 .. Len(R) /\ 2 \in 1 .. Len(R) /\ (\A i \in 1 .. f : 2 + i \in 1 .. Len(R))
        /\ \A i \in 1 .. c : 2 + f + i \in 1 .. Len(R)
    BY <2>1
  <2>6. Q[1].start = R[1].start + a /\ Q[2].start = R[2].start + a
    BY <2>1, <2>4, <2>5
  <2>7. \A i \in 1 .. f : Q[2 + i].start = R[2 + i].start + b
    BY <2>1, <2>4, <2>5
  <2>8. \A i \in 1 .. c : Q[2 + f + i].start = R[2 + f + i].start + a
    BY <2>1, <2>4, <2>5
  <2> QED
    BY <2>1, <2>3, <2>4, <2>5, <2>6, <2>7, <2>8 DEF R, Q, f, F, c
<1>6. SectorsOf(W) = SectorsOf(V)
  BY <1>1, <1>3 DEF SectorsOf
<1>7. \A k \in 1 .. n : \A i \in 1 .. Len(V[k].children) :
          V[k].children[i] \in 1 .. n /\ NameOf(W, t, W[k].children[i]) = NameOf(V, t, V[k].children[i])
  <2>1. \A k \in 1 .. n : KidsIn(V, k)
    <3>1. \A k \in 1 .. n : \A i \in 1 .. Len(V[k].children) : V[k].children[i] \in 2 .. n
      BY DEF ListOnce
    <3> QED
      BY <1>1, <3>1 DEF KidsIn
  <2>2. ASSUME NEW k \in 1 .. n
        PROVE  \A i \in 1 .. Len(V[k].children) :
                  NameOf(W, t, W[k].children[i]) = NameOf(V, t, V[k].children[i])
    BY <2>1, AlikeNames
  <2> QED
    BY <2>1, <2>2 DEF KidsIn
<1>8. \A k \in 1 .. n : V[k].recs[1].start \in Int /\ V[k].parent \in 1 .. n
  <2>1. ASSUME NEW k \in 1 .. n PROVE V[k].recs[1].start \in Int
    <3>1. V[k].recs \in Seq(RecSet)
      BY <1>1 DEF ViewSet
    <3>2. V[k].recs[1] \in RecSet
      BY <1>5, <3>1
    <3> QED
      BY <3>2 DEF RecSet
  <2>2. ASSUME NEW k \in 1 .. n PROVE V[k].parent \in 1 .. n
    <3>1. k = 1 \/ k \in 2 .. n
      BY <1>1
    <3>2. CASE k = 1
      BY <1>1, <3>2 DEF ListOnce
    <3>3. CASE k \in 2 .. n
      <4>1. V[k].parent \in 1 .. k - 1
        BY <3>3 DEF ListOnce
      <4> QED
        BY <1>1, <4>1
    <3> QED
      BY <3>1, <3>2, <3>3
  <2> QED
    BY <2>1, <2>2
<1>9. Numbered(W, n, a, total)
  <2>1. PICK f : /\ IsSum(f, n, 0, SectorsOf(V)) /\ total = f[n]
                 /\ \A k \in 1 .. n :
                       LET R == V[k].recs
                           p == V[k].parent
                       IN  /\ R[1].start = 0 + f[k - 1] /\ R[1].length = V[k].size
                           /\ R[2].start = 0 + f[p - 1] /\ R[2].length = V[p].size
    BY <1>2 DEF Numbered
  <2>2. \A i \in 0 .. n : f[i] \in Nat
    BY <2>1 DEF IsSum
  <2>3. ASSUME NEW k \in 1 .. n
        PROVE  LET R == W[k].recs
                   p == W[k].parent
               IN  /\ R[1].start = a + f[k - 1] /\ R[1].length = W[k].size
                   /\ R[2].start = a + f[p - 1] /\ R[2].length = W[p].size
    <3> DEFINE p == V[k].parent
               x == f[k - 1]
               y == f[p - 1]
    <3>1. p \in 1 .. n /\ W[k].parent = p /\ W[k].size = V[k].size
      BY <1>1, <1>3, <1>8
    <3>2. W[p].size = V[p].size
      BY <1>3, <3>1
    <3>3. x \in Nat /\ y \in Nat
      <4>1. k - 1 \in 0 .. n /\ p - 1 \in 0 .. n
        BY <1>1, <3>1
      <4> QED
        BY <2>2, <4>1
    <3> DEFINE R == V[k].recs
               Q == W[k].recs
    <3>4. /\ Q[1].start = R[1].start + a /\ Q[2].start = R[2].start + a
          /\ Q[1].length = R[1].length /\ Q[2].length = R[2].length
      <4>1. 1 \in 1 .. Len(R) /\ 2 \in 1 .. Len(R)
        BY <1>5
      <4> QED
        BY <1>5, <4>1
    <3>5. /\ R[1].start = 0 + x /\ R[1].length = V[k].size
          /\ R[2].start = 0 + y /\ R[2].length = V[p].size
      BY <2>1
    <3> HIDE DEF p, x, y, R, Q
    <3>6. Q[1].start = a + x /\ Q[2].start = a + y
      BY <3>3, <3>4, <3>5
    <3> QED
      BY <3>1, <3>2, <3>4, <3>5, <3>6 DEF p, x, y, Q
  <2> QED
    BY <1>6, <2>1, <2>3, Zenon DEF Numbered
<1>10. Led(W, t, fs, n)
  <2>1. ASSUME NEW k \in 1 .. n, NEW i \in 1 .. Len(W[k].children), W[k].children[i] <= n
        PROVE  Leads(W, t, fs, k, i)
    <3> DEFINE R == V[k].recs
               Q == W[k].recs
               f == Len(FileRecs(fs, V[k].files))
               o == 2 + f + i
               c == V[k].children[i]
               K == V[k].children
    <3>1. W[k].children = K /\ W[k].files = V[k].files
      BY <1>1
    <3>2. i \in 1 .. Len(K) /\ c <= n /\ Leads(V, t, fs, k, i)
      <4>1. i \in 1 .. Len(K) /\ c <= n
        BY <2>1, <3>1
      <4> QED
        BY <1>2, <4>1 DEF Led
    <3>3. /\ Len(Q) = Len(R) /\ o \in 1 .. Len(R) /\ Q[o].start = R[o].start + a
          /\ \A j \in 1 .. Len(R) : Q[j].id = R[j].id /\ Q[j].length = R[j].length
      BY <1>5, <3>2
    <3>4. c \in 1 .. n
      BY <1>7, <3>2
    <3>5. W[c].recs[1].start = V[c].recs[1].start + a /\ W[c].size = V[c].size
      BY <1>3, <1>5, <3>4
    <3>6. \/ R[o].start = V[c].recs[1].start /\ R[o].length = V[c].size
          \/ \E j \in 3 .. Len(R) : j # o /\ R[j].id = CheckId(fs, NameOf(V, t, c))
          \/ \E x \in 1 .. Len(K) : x # i /\ R[o].id = CheckId(fs, NameOf(V, t, K[x]))
      BY <3>2 DEF Leads, Spot
    <3>7. \A x \in 1 .. Len(K) : NameOf(W, t, K[x]) = NameOf(V, t, K[x])
      BY <1>7, <3>1
    <3>8. \A j \in 3 .. Len(R) : j \in 1 .. Len(R)
      BY <1>5
    <3>9. NameOf(W, t, c) = NameOf(V, t, c)
      BY <3>2, <3>7
    <3> HIDE DEF R, Q, f, o, c, K
    <3>10. \/ Q[o].start = W[c].recs[1].start /\ Q[o].length = W[c].size
           \/ \E j \in 3 .. Len(Q) : j # o /\ Q[j].id = CheckId(fs, NameOf(W, t, c))
           \/ \E x \in 1 .. Len(K) : x # i /\ Q[o].id = CheckId(fs, NameOf(W, t, K[x]))
      <4>1. CASE R[o].start = V[c].recs[1].start /\ R[o].length = V[c].size
        BY <3>3, <3>5, <4>1
      <4>2. CASE \E j \in 3 .. Len(R) : j # o /\ R[j].id = CheckId(fs, NameOf(V, t, c))
        BY <3>3, <3>8, <3>9, <4>2
      <4>3. CASE \E x \in 1 .. Len(K) : x # i /\ R[o].id = CheckId(fs, NameOf(V, t, K[x]))
        BY <3>3, <3>7, <4>3
      <4> QED
        BY <3>6, <4>1, <4>2, <4>3
    <3> QED
      BY <3>1, <3>10 DEF Leads, Spot, Q, o, f, c, K
  <2> QED
    BY <2>1 DEF Led
<1>11. Filed(W, t, fs, n, b)
  <2>1. ASSUME NEW k \in 1 .. n, NEW i \in 1 .. Len(FileRecs(fs, W[k].files))
        PROVE  LET F == FileRecs(fs, W[k].files)
                   R == W[k].recs
               IN  \/ R[2 + i].start = F[i].start + b /\ R[2 + i].length = F[i].length
                   \/ \E x \in 1 .. Len(W[k].children) :
                         R[2 + i].id = CheckId(fs, NameOf(W, t, W[k].children[x]))
    <3> DEFINE R == V[k].recs
               Q == W[k].recs
               F == FileRecs(fs, V[k].files)
               K == V[k].children
    <3>1. W[k].children = K /\ W[k].files = V[k].files
      BY <1>1
    <3>2. i \in 1 .. Len(F)
      BY <2>1, <3>1
    <3>3. \/ R[2 + i].start = F[i].start + 0 /\ R[2 + i].length = F[i].length
          \/ \E x \in 1 .. Len(K) : R[2 + i].id = CheckId(fs, NameOf(V, t, K[x]))
      BY <1>2, <3>2 DEF Filed
    <3>4. /\ 2 + i \in 1 .. Len(R) /\ Q[2 + i].start = R[2 + i].start + b
          /\ Q[2 + i].id = R[2 + i].id /\ Q[2 + i].length = R[2 + i].length
      BY <1>5, <3>2
    <3>5. \A x \in 1 .. Len(K) : NameOf(W, t, K[x]) = NameOf(V, t, K[x])
      BY <1>7, <3>1
    <3>6. F[i].start \in Int
      <4>1. V[k] \in ViewSet
        BY <1>1
      <4>2. V[k].files \in Seq(FileSet)
        BY <4>1 DEF ViewSet
      <4>3. F \in Seq(RecSet)
        BY <4>2, FileRecsTyped
      <4> HIDE DEF F
      <4>4. F[i] \in RecSet
        BY <3>2, <4>3
      <4> QED
        BY <4>4 DEF RecSet
    <3> HIDE DEF R, Q, F, K
    <3>7. \/ Q[2 + i].start = F[i].start + b /\ Q[2 + i].length = F[i].length
          \/ \E x \in 1 .. Len(K) : Q[2 + i].id = CheckId(fs, NameOf(W, t, K[x]))
      <4>1. CASE R[2 + i].start = F[i].start + 0 /\ R[2 + i].length = F[i].length
        <5>1. R[2 + i].start = F[i].start
          BY <3>6, <4>1
        <5> QED
          BY <3>4, <4>1, <5>1
      <4>2. CASE \E x \in 1 .. Len(K) : R[2 + i].id = CheckId(fs, NameOf(V, t, K[x]))
        BY <3>4, <3>5, <4>2
      <4> QED
        BY <3>3, <4>1, <4>2
    <3> QED
      BY <3>1, <3>7 DEF Q, F, K
  <2> QED
    BY <2>1 DEF Filed
<1> QED
  BY <1>4, <1>9, <1>10, <1>11 DEF Known

\* buildContent(): W has the records and the size of one more directory, the
\* k-th, which a record of its parent leads to.
Grown(V, W, t, fs, k, total) ==
    LET N == W[k].recs
        F == FileRecs(fs, V[k].files)
        p == V[k].parent
    IN  /\ Shaped(N, F, SubRecs(fs, V, t, k)) /\ W[k].size = RoundUp(RecsEnd(N))
        /\ N[1].start = total /\ N[1].length = W[k].size
        /\ N[2].start = IF p = k THEN total ELSE V[p].recs[1].start
        /\ N[2].length = IF p = k THEN W[k].size ELSE V[p].recs[1].length
        /\ \A i \in 1 .. Len(F) : N[2 + i].start = F[i].start /\ N[2 + i].length = F[i].length
        /\ \A j \in 1 .. k - 1 : W[j].size = V[j].size /\ (j # p => W[j].recs = V[j].recs)
        /\ p # k => \E own \in 3 .. Len(V[p].recs) :
                       /\ V[p].recs[own].id = CheckId(fs, NameOf(V, t, k))
                       /\ W[p].recs = Relocated(V[p].recs, own, total, W[k].size)

LEMMA KnownMore ==
    ASSUME NEW V, NEW W, NEW t, NEW fs \in FS, NEW k \in 1 .. Len(V), NEW total \in Nat,
           Alike(V, W), ListOnce(V, t), Known(V, t, fs, k - 1, 0, 0, total), Grown(V, W, t, fs, k, total)
    PROVE  Known(W, t, fs, k, 0, 0, total + bytesToSectors(W[k].size))
<1> DEFINE n == Len(V)
           p == V[k].parent
           z == W[k].size
           id == CheckId(fs, NameOf(V, t, k))
<1>1. /\ n \in Nat /\ Len(W) = n /\ V \in [1 .. n -> ViewSet] /\ W \in [1 .. n -> ViewSet]
      /\ \A j \in 1 .. n : W[j].src = V[j].src /\ W[j].parent = V[j].parent
                           /\ W[j].children = V[j].children /\ W[j].files = V[j].files
  BY DEF Alike
<1>2. /\ Laid(V, t, fs, k - 1) /\ Numbered(V, k - 1, 0, total) /\ Led(V, t, fs, k - 1)
      /\ Filed(V, t, fs, k - 1, 0)
  BY DEF Known
<1>3. k \in Nat /\ k - 1 \in 0 .. n /\ (\A j \in 1 .. k - 1 : j \in 1 .. n /\ j \in 1 .. k)
      /\ \A j \in 1 .. k : j = k \/ j \in 1 .. k - 1
  BY <1>1
<1>4. z \in Nat
  BY <1>1 DEF ViewSet
<1>5. p = k \/ p \in 1 .. k - 1
  <2>1. k = 1 \/ k \in 2 .. n
    BY <1>1
  <2> QED
    BY <1>1, <2>1 DEF ListOnce
<1>6. ASSUME NEW j \in 1 .. k - 1
      PROVE  LET R == V[j].recs
                 Q == W[j].recs
             IN  /\ SamePlaces(R, Q) /\ Q[1] = R[1] /\ Q[2] = R[2]
                 /\ Len(R) \in Nat
                 /\ \A i \in 3 .. Len(R) : Q[i] = R[i] \/ (j = p /\ R[i].id = id /\ Q[i].start = total /\ Q[i].length = z)
                 /\ j = p => \E own \in 3 .. Len(R) : R[own].id = id /\ Q[own].start = total /\ Q[own].length = z
  <2> DEFINE R == V[j].recs
             Q == W[j].recs
  <2>1. R \in Seq(RecSet) /\ Len(R) >= 2
    <3>1. LaidOut(V, t, fs, j)
      <4>1. PICK m \in 0 .. n : m = k - 1
        BY <1>3
      <4>2. Laid(V, t, fs, m) /\ j \in 1 .. m
        BY <1>2, <4>1
      <4> QED
        BY <1>1, <4>2, LaidIs
    <3> DEFINE a == Len(FileRecs(fs, V[j].files))
               b == Len(V[j].children)
    <3>2. R \in Seq(RecSet) /\ a \in Nat /\ b \in Nat /\ Len(R) = 2 + a + b
      BY <3>1, Zenon DEF LaidOut
    <3> HIDE DEF a, b
    <3> QED
      BY <3>2
  <2>2. CASE j # p
    <3>1. Q = R
      BY <2>2 DEF Grown
    <3> HIDE DEF Q, R
    <3>2. SamePlaces(R, Q)
      BY <3>1 DEF SamePlaces, SameRecord
    <3>3. Len(R) \in Nat
      BY <2>1
    <3> QED
      BY <2>2, <3>1, <3>2, <3>3 DEF Q, R
  <2>3. CASE j = p
    <3>1. p # k
      BY <1>3, <2>3
    <3>2. PICK own \in 3 .. Len(R) : R[own].id = id /\ Q = Relocated(R, own, total, z)
      BY <2>3, <3>1 DEF Grown
    <3> HIDE DEF Q, R, id, z
    <3>3. own \in 1 .. Len(R) /\ total \in Int /\ z \in Int /\ Len(R) \in Nat
      BY <1>4, <2>1
    <3>4. /\ SamePlaces(R, Q) /\ Q[own].start = total /\ Q[own].length = z
          /\ \A i \in 1 .. Len(R) : i # own => Q[i] = R[i]
      BY <2>1, <3>2, <3>3, PlacesRelocated
    <3>5. 1 \in 1 .. Len(R) /\ 2 \in 1 .. Len(R) /\ own # 1 /\ own # 2 /\ \A i \in 3 .. Len(R) : i \in 1 .. Len(R)
      BY <2>1, <3>3
    <3> QED
      BY <2>3, <3>2, <3>3, <3>4, <3>5 DEF Q, R
  <2> QED
    BY <2>2, <2>3
<1>7. \A j \in 1 .. k - 1 : W[j].size = V[j].size
  BY DEF Grown
<1>8. ASSUME NEW j \in 1 .. n
      PROVE  /\ KidsIn(V, j)
             /\ \A i \in 1 .. Len(V[j].children) : NameOf(W, t, V[j].children[i]) = NameOf(V, t, V[j].children[i])
  <2>1. KidsIn(V, j)
    <3>1. \A i \in 1 .. Len(V[j].children) : V[j].children[i] \in 2 .. n
      BY DEF ListOnce
    <3> QED
      BY <1>1, <3>1 DEF KidsIn
  <2>2. \A i \in 1 .. Len(V[j].children) : NameOf(W, t, W[j].children[i]) = NameOf(V, t, V[j].children[i])
    BY <2>1, AlikeNames
  <2> QED
    BY <1>1, <2>1, <2>2
<1>9. Laid(W, t, fs, k)
  <2>1. ASSUME NEW j \in 1 .. k - 1
        PROVE  /\ Shaped(W[j].recs, FileRecs(fs, W[j].files), SubRecs(fs, W, t, j))
               /\ W[j].size = RoundUp(RecsEnd(W[j].recs))
    BY <1>2, <1>3, <1>6, <1>7, LaidSame
  <2>2. SubRecs(fs, W, t, k) = SubRecs(fs, V, t, k)
    BY <1>8, SubRecsSame
  <2>3. /\ Shaped(W[k].recs, FileRecs(fs, W[k].files), SubRecs(fs, W, t, k))
        /\ W[k].size = RoundUp(RecsEnd(W[k].recs))
    BY <1>1, <2>2 DEF Grown
  <2> QED
    BY <1>3, <2>1, <2>3 DEF Laid
<1>10. PICK f : /\ IsSum(f, k - 1, 0, SectorsOf(V)) /\ total = f[k - 1]
                /\ \A j \in 1 .. k - 1 :
                      LET R == V[j].recs
                          q == V[j].parent
                      IN  /\ R[1].start = 0 + f[j - 1] /\ R[1].length = V[j].size
                          /\ R[2].start = 0 + f[q - 1] /\ R[2].length = V[q].size
  BY <1>2 DEF Numbered
<1>11. Numbered(W, k, 0, total + bytesToSectors(z))
  <2> DEFINE g == [i \in 0 .. k |-> IF i = k THEN total + bytesToSectors(z) ELSE f[i]]
  <2>1. bytesToSectors(z) \in Nat
    BY <1>4, Sectors
  <2>2. f \in [0 .. k - 1 -> Nat] /\ f[0] = 0 /\ \A i \in 1 .. k - 1 : f[i] = f[i - 1] + bytesToSectors(V[i].size)
    BY <1>3, <1>10 DEF IsSum, SectorsOf
  <2>3. /\ g \in [0 .. k -> Nat] /\ g[0] = 0 /\ g[k] = total + bytesToSectors(z)
        /\ \A i \in 0 .. k - 1 : g[i] = f[i]
    BY <1>3, <2>1, <2>2
  <2> HIDE DEF g
  <2>4. \A i \in 1 .. k : g[i] = g[i - 1] + SectorsOf(W)[i]
    <3>1. \A i \in 1 .. n : SectorsOf(W)[i] = bytesToSectors(W[i].size)
      BY <1>1 DEF SectorsOf
    <3>2. ASSUME NEW i \in 1 .. k - 1 PROVE g[i] = g[i - 1] + SectorsOf(W)[i]
      <4>1. i \in 0 .. k - 1 /\ i - 1 \in 0 .. k - 1
        BY <1>3
      <4> QED
        BY <1>3, <1>7, <2>2, <2>3, <3>1, <4>1
    <3>3. g[k] = g[k - 1] + SectorsOf(W)[k]
      <4>1. k - 1 \in 0 .. k - 1
        BY <1>3
      <4> QED
        BY <1>10, <2>3, <3>1, <4>1
    <3> QED
      BY <1>3, <3>2, <3>3
  <2>5. IsSum(g, k, 0, SectorsOf(W))
    BY <2>3, <2>4 DEF IsSum
  <2>6. ASSUME NEW j \in 1 .. k
        PROVE  LET R == W[j].recs
                   q == W[j].parent
               IN  /\ R[1].start = 0 + g[j - 1] /\ R[1].length = W[j].size
                   /\ R[2].start = 0 + g[q - 1] /\ R[2].length = W[q].size
    <3> DEFINE q == V[j].parent
    <3>1. q \in 1 .. j /\ W[j].parent = q
      <4>1. j = 1 \/ j \in 2 .. n
        BY <1>1, <1>3
      <4>2. q \in 1 .. j
        <5>1. CASE j = 1
          BY <1>1, <5>1 DEF ListOnce
        <5>2. CASE j \in 2 .. n
          <6>1. q \in 1 .. j - 1
            BY <5>2 DEF ListOnce
          <6> QED
            BY <5>2, <6>1
        <5> QED
          BY <4>1, <5>1, <5>2
      <4> QED
        BY <1>1, <1>3, <4>2
    <3>2. /\ j - 1 \in 0 .. k - 1 /\ q - 1 \in 0 .. k - 1 /\ g[j - 1] = f[j - 1] /\ g[q - 1] = f[q - 1]
          /\ f[j - 1] \in Nat /\ f[q - 1] \in Nat
      <4>1. j - 1 \in 0 .. k - 1 /\ q - 1 \in 0 .. k - 1
        BY <1>3, <3>1
      <4> QED
        BY <2>2, <2>3, <4>1
    <3>3. CASE j \in 1 .. k - 1
      <4>1. q \in 1 .. k - 1
        BY <1>3, <3>1, <3>3
      <4>2. W[j].recs[1] = V[j].recs[1] /\ W[j].recs[2] = V[j].recs[2]
        BY <1>6, <3>3
      <4>3. W[j].size = V[j].size /\ W[q].size = V[q].size
        BY <1>7, <3>3, <4>1
      <4>4. /\ V[j].recs[1].start = 0 + f[j - 1] /\ V[j].recs[1].length = V[j].size
            /\ V[j].recs[2].start = 0 + f[q - 1] /\ V[j].recs[2].length = V[q].size
        BY <1>10, <3>3
      <4> QED
        BY <3>1, <3>2, <4>2, <4>3, <4>4
    <3>4. CASE j = k
      <4> DEFINE N == W[k].recs
      <4>1. /\ N[1].start = total /\ N[1].length = z
            /\ N[2].start = IF p = k THEN total ELSE V[p].recs[1].start
            /\ N[2].length = IF p = k THEN z ELSE V[p].recs[1].length
        BY DEF Grown
      <4>2. total = f[k - 1] /\ q = p
        BY <1>10, <3>4
      <4>3. CASE p = k
        <5>1. q = k /\ W[j].parent = k /\ g[k - 1] = total /\ N[2].start = total /\ N[2].length = z
          BY <3>1, <3>2, <3>4, <4>1, <4>2, <4>3
        <5>2. 0 + total = total
          OBVIOUS
        <5> QED
          BY <3>4, <4>1, <5>1, <5>2
      <4>4. CASE p # k
        <5>1. p \in 1 .. k - 1
          BY <1>5, <4>4
        <5>2. V[p].recs[1].start = 0 + f[p - 1] /\ V[p].recs[1].length = V[p].size /\ W[p].size = V[p].size
          BY <1>7, <1>10, <5>1
        <5> QED
          BY <3>1, <3>2, <3>4, <4>1, <4>2, <4>4, <5>2
      <4> QED
        BY <4>3, <4>4
    <3> QED
      BY <1>3, <3>3, <3>4
  <2> QED
    BY <2>3, <2>5, <2>6, Zenon DEF Numbered
<1>12. ASSUME NEW j \in 1 .. k - 1
       PROVE  LET f0 == Len(FileRecs(fs, V[j].files))
              IN  /\ f0 \in Nat /\ Len(V[j].recs) = 2 + f0 + Len(V[j].children) /\ Len(V[j].children) \in Nat
                  /\ \A i \in 1 .. f0 : 2 + i \in 3 .. Len(V[j].recs)
                  /\ \A i \in 1 .. Len(V[j].children) : 2 + f0 + i \in 3 .. Len(V[j].recs)
  <2>1. LaidOut(V, t, fs, j)
    <3>1. PICK m \in 0 .. n : m = k - 1
      BY <1>3
    <3>2. Laid(V, t, fs, m) /\ j \in 1 .. m
      BY <1>2, <3>1
    <3> QED
      BY <1>1, <3>2, LaidIs
  <2> DEFINE a == Len(FileRecs(fs, V[j].files))
             b == Len(V[j].children)
             l == Len(V[j].recs)
  <2>2. a \in Nat /\ b \in Nat /\ l = 2 + a + b
    BY <2>1, Zenon DEF LaidOut
  <2> HIDE DEF a, b, l
  <2>3. (\A i \in 1 .. a : 2 + i \in 3 .. l) /\ \A i \in 1 .. b : 2 + a + i \in 3 .. l
    BY <2>2
  <2> QED
    BY <2>2, <2>3 DEF a, b, l
<1>13. ASSUME NEW j \in 1 .. k - 1, NEW i \in 1 .. Len(V[j].recs)
       PROVE  W[j].recs[i].id = V[j].recs[i].id /\ Len(W[j].recs) = Len(V[j].recs)
  BY <1>6 DEF SamePlaces, SameRecord
<1>14. ASSUME p # k
       PROVE  p \in 1 .. k - 1 /\ \E x \in 1 .. Len(V[p].children) : V[p].children[x] = k
  <2>1. p \in 1 .. k - 1
    BY <1>5, <1>14
  <2>2. k \in 2 .. n
    BY <1>1, <1>3, <2>1
  <2>3. ChildOf(V, p, k)
    BY <2>2 DEF ListOnce
  <2> QED
    BY <2>1, <2>3 DEF ChildOf
<1>15. ASSUME NEW j \in 1 .. k, NEW i \in 1 .. Len(V[j].children), V[j].children[i] <= k
       PROVE  Leads(W, t, fs, j, i)
  <2> DEFINE c == V[j].children[i]
             K == V[j].children
             R == V[j].recs
             Q == W[j].recs
             o == 2 + Len(FileRecs(fs, V[j].files)) + i
             Goal == \/ Q[o].start = W[c].recs[1].start /\ Q[o].length = W[c].size
                     \/ \E y \in 3 .. Len(Q) : y # o /\ Q[y].id = CheckId(fs, NameOf(W, t, c))
                     \/ \E x \in 1 .. Len(K) : x # i /\ Q[o].id = CheckId(fs, NameOf(W, t, K[x]))
  <2>1. j \in 1 .. n
    BY <1>3
  <2>2. c \in 2 .. n /\ V[c].parent = j
    BY <2>1 DEF ListOnce
  <2>3. j \in 1 .. c - 1
    BY <2>2 DEF ListOnce
  <2>4. j \in 1 .. k - 1 /\ c \in 1 .. n /\ (c = k \/ c \in 1 .. k - 1)
    BY <1>1, <1>3, <1>15, <2>2, <2>3
  <2>5. W[j].children = K /\ W[j].files = V[j].files
    BY <1>1, <2>1
  <2>6. \A x \in 1 .. Len(K) : NameOf(W, t, K[x]) = NameOf(V, t, K[x])
    BY <1>8, <2>1
  <2>7. NameOf(W, t, c) = NameOf(V, t, c)
    BY <2>6
  <2>8. o \in 3 .. Len(R) /\ Len(R) \in Nat
    BY <1>6, <1>12, <2>4
  <2>9. \A y \in 3 .. Len(R) : y \in 1 .. Len(R)
    BY <2>8
  <2>10. Len(Q) = Len(R) /\ \A y \in 3 .. Len(R) : Q[y].id = R[y].id
    BY <1>13, <2>4, <2>8, <2>9
  <2>11. Goal => Leads(W, t, fs, j, i)
    BY <2>5 DEF Leads, Spot
  <2>12. CASE c = k
    <3>1. p = j
      BY <2>2, <2>12
    <3>2. PICK own \in 3 .. Len(R) : R[own].id = id /\ Q[own].start = total /\ Q[own].length = z
      BY <1>6, <2>4, <3>1
    <3>3. CASE own = o
      <4>1. W[k].recs[1].start = total
        BY DEF Grown
      <4> QED
        BY <2>11, <2>12, <3>2, <3>3, <4>1
    <3>4. CASE own # o
      <4>1. own \in 3 .. Len(Q) /\ own # o /\ Q[own].id = CheckId(fs, NameOf(W, t, c))
        BY <2>7, <2>10, <2>12, <3>2, <3>4
      <4> QED
        BY <2>11, <4>1
    <3> QED
      BY <3>3, <3>4
  <2>13. CASE c \in 1 .. k - 1
    <3>1. W[c].recs[1] = V[c].recs[1] /\ W[c].size = V[c].size
      BY <1>6, <1>7, <2>13
    <3>2. \/ R[o].start = V[c].recs[1].start /\ R[o].length = V[c].size
          \/ \E y \in 3 .. Len(R) : y # o /\ R[y].id = CheckId(fs, NameOf(V, t, c))
          \/ \E x \in 1 .. Len(K) : x # i /\ R[o].id = CheckId(fs, NameOf(V, t, K[x]))
      <4>1. c <= k - 1
        BY <1>3, <2>13
      <4>2. Leads(V, t, fs, j, i)
        BY <1>2, <2>4, <4>1 DEF Led
      <4> QED
        BY <4>2 DEF Leads, Spot
    <3>3. Q[o] = R[o] \/ (j = p /\ R[o].id = id)
      BY <1>6, <2>4, <2>8
    <3>4. CASE j = p /\ R[o].id = id
      <4>1. p # k
        BY <1>3, <2>4, <3>4
      <4>2. PICK x \in 1 .. Len(K) : K[x] = k
        BY <1>14, <3>4, <4>1
      <4>3. x # i
        BY <1>3, <2>13, <4>2
      <4>4. Q[o].id = CheckId(fs, NameOf(W, t, K[x]))
        BY <2>6, <2>8, <2>10, <3>4, <4>2
      <4> QED
        BY <2>11, <4>3, <4>4
    <3>5. CASE Q[o] = R[o]
      <4>1. CASE R[o].start = V[c].recs[1].start /\ R[o].length = V[c].size
        BY <2>11, <3>1, <3>5, <4>1
      <4>2. CASE \E y \in 3 .. Len(R) : y # o /\ R[y].id = CheckId(fs, NameOf(V, t, c))
        <5>1. \E y \in 3 .. Len(Q) : y # o /\ Q[y].id = CheckId(fs, NameOf(W, t, c))
          BY <2>7, <2>10, <4>2
        <5> QED
          BY <2>11, <5>1
      <4>3. CASE \E x \in 1 .. Len(K) : x # i /\ R[o].id = CheckId(fs, NameOf(V, t, K[x]))
        <5>1. \E x \in 1 .. Len(K) : x # i /\ Q[o].id = CheckId(fs, NameOf(W, t, K[x]))
          BY <2>6, <3>5, <4>3
        <5> QED
          BY <2>11, <5>1
      <4> QED
        BY <3>2, <4>1, <4>2, <4>3
    <3> QED
      BY <3>3, <3>4, <3>5
  <2> QED
    BY <2>4, <2>12, <2>13
<1>16. Led(W, t, fs, k)
  BY <1>1, <1>3, <1>15 DEF Led
<1>17. ASSUME NEW j \in 1 .. k, NEW i \in 1 .. Len(FileRecs(fs, V[j].files))
       PROVE  LET F == FileRecs(fs, V[j].files)
                  Q == W[j].recs
              IN  \/ Q[2 + i].start = F[i].start + 0 /\ Q[2 + i].length = F[i].length
                  \/ \E x \in 1 .. Len(V[j].children) : Q[2 + i].id = CheckId(fs, NameOf(W, t, V[j].children[x]))
  <2> DEFINE F == FileRecs(fs, V[j].files)
             R == V[j].recs
             Q == W[j].recs
             K == V[j].children
  <2>1. j \in 1 .. n
    BY <1>3
  <2>2. F[i].start \in Int
    <3>1. V[j] \in ViewSet
      BY <1>1, <2>1
    <3>2. V[j].files \in Seq(FileSet)
      BY <3>1 DEF ViewSet
    <3>3. F \in Seq(RecSet) /\ i \in 1 .. Len(F)
      BY <3>2, FileRecsTyped
    <3> HIDE DEF F
    <3>4. F[i] \in RecSet
      BY <3>3
    <3> QED
      BY <3>4 DEF RecSet
  <2>3. F[i].start + 0 = F[i].start
    <3> DEFINE y == F[i].start
    <3>1. y \in Int
      BY <2>2
    <3> HIDE DEF y
    <3>2. y + 0 = y
      BY <3>1
    <3> QED
      BY <3>2 DEF y
  <2>4. CASE j = k
    <3>1. Q[2 + i].start = F[i].start /\ Q[2 + i].length = F[i].length
      BY <2>4 DEF Grown
    <3> QED
      BY <2>3, <3>1
  <2>5. CASE j \in 1 .. k - 1
    <3>1. \/ R[2 + i].start = F[i].start + 0 /\ R[2 + i].length = F[i].length
          \/ \E x \in 1 .. Len(K) : R[2 + i].id = CheckId(fs, NameOf(V, t, K[x]))
      BY <1>2, <2>5 DEF Filed
    <3>2. 2 + i \in 3 .. Len(R) /\ Len(R) \in Nat
      BY <1>6, <1>12, <2>5
    <3>3. 2 + i \in 1 .. Len(R)
      BY <3>2
    <3>4. Q[2 + i].id = R[2 + i].id
      BY <1>13, <2>5, <3>3
    <3>5. \A x \in 1 .. Len(K) : NameOf(W, t, K[x]) = NameOf(V, t, K[x])
      BY <1>8, <2>1
    <3>6. Q[2 + i] = R[2 + i] \/ (j = p /\ R[2 + i].id = id)
      BY <1>6, <2>5, <3>2
    <3>7. CASE j = p /\ R[2 + i].id = id
      <4>1. p # k
        BY <1>3, <2>5, <3>7
      <4>2. PICK x \in 1 .. Len(K) : K[x] = k
        BY <1>14, <3>7, <4>1
      <4>3. Q[2 + i].id = CheckId(fs, NameOf(W, t, K[x]))
        BY <3>4, <3>5, <3>7, <4>2
      <4> QED
        BY <4>3
    <3>8. CASE Q[2 + i] = R[2 + i]
      <4>1. CASE R[2 + i].start = F[i].start + 0 /\ R[2 + i].length = F[i].length
        BY <3>8, <4>1
      <4>2. CASE \E x \in 1 .. Len(K) : R[2 + i].id = CheckId(fs, NameOf(V, t, K[x]))
        BY <3>5, <3>8, <4>2
      <4> QED
        BY <3>1, <4>1, <4>2
    <3> QED
      BY <3>6, <3>7, <3>8
  <2> QED
    BY <1>3, <2>4, <2>5
<1>18. Filed(W, t, fs, k, 0)
  <2>1. \A j \in 1 .. k : W[j].files = V[j].files /\ W[j].children = V[j].children
    BY <1>1, <1>3
  <2> QED
    BY <1>17, <2>1, Zenon DEF Filed
<1> QED
  BY <1>9, <1>11, <1>16, <1>18 DEF Known

\* What findDirRecord() finds in records that a loop comes to.
LEMMA FoundIs ==
    ASSUME NEW id, NEW recs, Len(recs) \in Nat, InPlace(recs)
    PROVE  LET own == findDirRecord(id, recs)
           IN  /\ own # 0 => own \in 1 .. Len(recs) /\ recs[own].id = id /\ recs[own].whole
               /\ (\E k \in 1 .. Len(recs) : recs[k].id = id /\ recs[k].whole) => own # 0
<1> DEFINE found == {k \in Walked(recs) : recs[k].id = id /\ recs[k].whole}
<1>1. findDirRecord(id, recs) = IF found = {} THEN 0 ELSE Min(found)
  BY DEF findDirRecord
<1>2. Walked(recs) = 1 .. Len(recs)
  BY AllWalked
<1>3. found \subseteq 1 .. Len(recs) /\ found \subseteq Nat
  BY <1>2
<1>4. \A k \in found : recs[k].id = id /\ recs[k].whole
  OBVIOUS
<1>5. (\E k \in 1 .. Len(recs) : recs[k].id = id /\ recs[k].whole) => found # {}
  BY <1>2
<1> HIDE DEF found
<1>6. found # {} => Min(found) \in found /\ Min(found) \in 1 .. Len(recs)
  BY <1>3, MinIn
<1> QED
  BY <1>1, <1>3, <1>4, <1>5, <1>6

LEMMA NamesNotDots ==
    ASSUME NEW name \in Names, NEW fs
    PROVE  CheckId(fs, name) # Self /\ CheckId(fs, name) # Up
<1>1. name.stem # "." /\ name.stem # ".."
  BY DEF Names
<1>2. CheckId(fs, name).stem = name.stem
  BY DEF CheckId, strncpy_upper, utf8_to_ucs2
<1>3. Self.stem = "." /\ Up.stem = ".."
  BY DEF Self, Up
<1> QED
  BY <1>1, <1>2, <1>3

\* The record that its parent has of the directory the loop is at.
OwnFound(R, own, fs, id) ==
    own \in 3 .. Len(R) /\ R[own].id = id /\ Even(39 + len_fi(fs, id)) < 256

LEMMA OwnIs ==
    ASSUME NEW fs \in FS, NEW V, NEW t, NEW p, NEW c, LaidOut(V, t, fs, p), NameOf(V, t, c) \in Names,
           NEW own, own = findDirRecord(CheckId(fs, NameOf(V, t, c)), V[p].recs), own # 0
    PROVE  OwnFound(V[p].recs, own, fs, CheckId(fs, NameOf(V, t, c)))
<1> DEFINE R == V[p].recs
           id == CheckId(fs, NameOf(V, t, c))
<1>1. R \in Seq(RecSet) /\ InPlace(R) /\ R[1].id = Self /\ R[2].id = Up
  BY DEF LaidOut
<1>2. \A i \in 3 .. Len(R) : R[i].whole = (Even(39 + len_fi(fs, R[i].id)) < 256)
  BY DEF LaidOut
<1>3. id # Self /\ id # Up
  BY NamesNotDots
<1> HIDE DEF R, id
<1>4. Len(R) \in Nat
  BY <1>1
<1>5. own \in 1 .. Len(R) /\ R[own].id = id /\ R[own].whole
  BY <1>1, <1>4, FoundIs DEF R, id
<1>6. own # 1 /\ own # 2
  BY <1>1, <1>3, <1>5
<1>7. own \in 3 .. Len(R)
  BY <1>4, <1>5, <1>6
<1>8. Even(39 + len_fi(fs, R[own].id)) < 256
  BY <1>2, <1>5, <1>7, Zenon
<1> QED
  BY <1>5, <1>7, <1>8, Zenon DEF R, id, OwnFound

\* Such a directory has a short name.
LEMMA JolietShort ==
    ASSUME NEW name \in Names, Even(39 + len_fi("joliet", CheckId("joliet", name))) < 256
    PROVE  name.len < 108
<1> DEFINE l == Smaller(name.len, 127)
<1>1. name.len \in Nat
  BY DEF Names
<1>2. len_fi("joliet", CheckId("joliet", name)) = (l + Smaller(0, 127 - l)) * 2
  BY DEF CheckId, len_fi, utf8_to_ucs2, MAX_ISODIR
<1>3. l \in Nat /\ l <= 127 /\ (l < 108 => name.len < 108)
  BY <1>1 DEF Smaller
<1>4. Smaller(0, 127 - l) = 0
  BY <1>3 DEF Smaller
<1> HIDE DEF l
<1>5. Even(39 + (l + 0) * 2) < 256
  BY <1>2, <1>4
<1>6. (39 + (l + 0) * 2) % 2 = 1
  BY <1>3
<1>7. 39 + l * 2 + 1 < 256
  BY <1>3, <1>5, <1>6 DEF Even
<1> QED
  BY <1>3, <1>7

\* A view shows what is in the list.
Viewed(V, L, fs, n) ==
    /\ V \in [1 .. n -> ViewSet] /\ Len(V) = n
    /\ \A k \in 1 .. n :
          /\ V[k].src = L[k].src /\ V[k].parent = L[k].parent /\ V[k].children = L[k].children
          /\ V[k].files = L[k].files /\ V[k].recs = L[k].content[fs] /\ V[k].size = L[k].size[fs]

LEMMA ViewShows ==
    ASSUME NEW L, NEW n, n = Len(L), n \in Nat, L \in [1 .. n -> DirSet], NEW fs \in FS
    PROVE  Viewed(View(L, fs), L, fs, n)
  BY ViewTyped DEF Viewed

LEMMA ListShown ==
    ASSUME Linked, NEW fs \in FS
    PROVE  Viewed(View(dirList, fs), dirList, fs, Len(dirList)) /\ Len(dirList) \in Nat
<1>1. Len(dirList) \in Nat /\ dirList \in [1 .. Len(dirList) -> DirSet]
  BY DEF Linked
<1> QED
  BY <1>1, ViewShows

\* A view has the directories of the list.
LEMMA ViewOnce ==
    ASSUME Linked, ListOnce(dirList, tree), NEW fs, NEW V, Viewed(V, dirList, fs, Len(dirList))
    PROVE  ListOnce(V, tree)
<1>1. Len(dirList) \in Nat
  BY DEF Linked
<1>2. SameShape(dirList, V)
  BY DEF Viewed, SameShape
<1>3. \A k \in 1 .. Len(dirList) : dirList[k].parent \in 1 .. Len(dirList)
  BY <1>1 DEF Linked
<1> QED
  BY <1>1, <1>2, <1>3, ShapeKeeps

LEMMA ViewsAlike ==
    ASSUME NEW fs, NEW g, NEW n \in Nat, NEW L, NEW M, NEW V, NEW W, Viewed(V, L, fs, n), Viewed(W, M, g, n),
           \A k \in 1 .. n : /\ M[k].src = L[k].src /\ M[k].parent = L[k].parent
                             /\ M[k].children = L[k].children /\ M[k].files = L[k].files
    PROVE  Alike(V, W)
  BY DEF Viewed, Alike

\* What the records of the directories in a directory are, in a view.
LEMMA ChildRecordsShown ==
    ASSUME Linked, NEW fs \in FS, NEW V, Viewed(V, dirList, fs, Len(dirList)), NEW k \in 1 .. Len(dirList)
    PROVE  ChildRecords(fs, dirList[k]) = SubRecs(fs, V, tree, k)
<1> DEFINE ch == dirList[k].children
           m == Len(ch)
           a(i) == Record(fs, DirId(fs, tree.dirs[dirList[ch[i]].src].name), "dir", 0, 0)
           b(i) == Record(fs, DirId(fs, NameOf(V, tree, V[k].children[i])), "dir", 0, 0)
<1>1. V[k].children = ch
  BY DEF Viewed
<1>2. \A i \in 1 .. m : ch[i] \in 1 .. Len(dirList)
  BY DEF Linked
<1>3. \A i \in 1 .. m : NameOf(V, tree, V[k].children[i]) = tree.dirs[dirList[ch[i]].src].name
  BY <1>1, <1>2 DEF Viewed, NameOf
<1>4. \A i \in 1 .. m : a(i) = b(i)
  BY <1>3
<1>5. ChildRecords(fs, dirList[k]) = [i \in 1 .. m |-> a(i)] /\ SubRecs(fs, V, tree, k) = [i \in 1 .. m |-> b(i)]
  BY <1>1 DEF ChildRecords, SubRecs
<1> HIDE DEF a, b, m
<1> QED
  BY <1>4, <1>5

LEMMA NameShown ==
    ASSUME tree \in Trees, Linked, NEW fs, NEW V, Viewed(V, dirList, fs, Len(dirList)), NEW k \in 1 .. Len(dirList)
    PROVE  NameOf(V, tree, k) = tree.dirs[dirList[k].src].name /\ NameOf(V, tree, k) \in Names
<1>1. dirList[k].src \in 1 .. Len(tree.dirs)
  BY DEF Linked
<1>2. tree.dirs[dirList[k].src].name \in Names
  BY <1>1, TreeTyped
<1> QED
  BY <1>2 DEF NameOf, Viewed

\* A successful buildContent() is the step that KnownMore is about.
LEMMA ContentGrown ==
    ASSUME BuildInv, NEW fs \in FS, pc = fs, Builds(fs), NewSize(fs) \in Nat, NEW V, NEW W, NEW M,
           Viewed(V, dirList, fs, Len(dirList)), Viewed(W, M, fs, Len(dirList)),
           Laid(V, tree, fs, cur - 1), ListOnce(dirList, tree),
           DirBuilt(dirList, M, Len(dirList), fs, cur, NewContent(fs), NewSize(fs),
                    dirList[cur].parent, NewUp(fs))
    PROVE  /\ Grown(V, W, tree, fs, cur, dirsSizeSectors[fs])
           /\ fs = "joliet" /\ cur # 1 => NameOf(V, tree, cur).len < 108
<1> DEFINE n == Len(dirList)
           p == dirList[cur].parent
           N == NewContent(fs)
           R == DirRecords(fs)
           F == FileRecs(fs, dirList[cur].files)
           C == ChildRecords(fs, dirList[cur])
           z == NewSize(fs)
           total == dirsSizeSectors[fs]
           own == OwnRecord(fs)
<1>0. tree \in Trees /\ Linked /\ Counted /\ Loops
  BY DEF BuildInv
<1>1. cur \in 1 .. n /\ n \in Nat /\ p \in 1 .. cur
  <2>1. pc \in {"dirs", "files", "iso", "joliet"}
    BY DEF FS
  <2> QED
    BY <1>0, <2>1, DirTyped DEF Loops, Linked
<1>2. /\ R \in Seq(RecSet) /\ Len(F) \in Nat /\ Len(C) \in Nat /\ Shaped(R, F, C)
      /\ R[1].start = total
      /\ R[2].start = UpRecord(fs).start /\ R[2].length = UpRecord(fs).length
      /\ \A i \in 1 .. Len(F) : R[2 + i].start = F[i].start /\ R[2 + i].length = F[i].length
  BY DirRecordsAre
<1>3. Len(R) \in Nat /\ Len(R) >= 2 /\ Len(R) = 2 + Len(F) + Len(C)
  BY <1>2 DEF Shaped
<1>4. /\ N \in Seq(RecSet) /\ SamePlaces(R, N)
      /\ N[1].start = R[1].start /\ N[1].length = z
      /\ N[2].start = R[2].start
      /\ N[2].length = IF p = cur THEN z ELSE R[2].length
      /\ \A i \in 3 .. Len(R) : N[i] = R[i]
  <2>1. NewSize(fs) \in Int
    OBVIOUS
  <2> QED
    BY <1>2, <1>3, <2>1, NewContentIs
<1>5. C = SubRecs(fs, V, tree, cur) /\ V[cur].files = dirList[cur].files /\ V[cur].parent = p
  BY <1>0, <1>1, ChildRecordsShown DEF Viewed
<1>6. W[cur].recs = N /\ W[cur].size = z
  <2>1. M[cur].content[fs] = N /\ M[cur].size[fs] = z
    BY <1>1 DEF DirBuilt
  <2> QED
    BY <1>1, <2>1 DEF Viewed
<1>7. Shaped(N, F, C)
  <2> HIDE DEF R, N, F, C
  <2> QED
    BY <1>2, <1>3, <1>4, ShapedSame
<1>8. z = RoundUp(RecsEnd(N))
  <2>1. Len(N) = Len(R) /\ N[Len(R)].pos = R[Len(R)].pos /\ N[Len(R)].len = R[Len(R)].len
    BY <1>3, <1>4 DEF SamePlaces, SameRecord
  <2>2. Last(R) = R[Len(R)]
    BY DEF Last
  <2> QED
    BY <2>1, <2>2, Zenon DEF NewSize, RecsEnd
<1>9. \A i \in 1 .. Len(F) : N[2 + i].start = F[i].start /\ N[2 + i].length = F[i].length
  <2> HIDE DEF R, N, F, C
  <2> SUFFICES ASSUME NEW i \in 1 .. Len(F) PROVE N[2 + i].start = F[i].start /\ N[2 + i].length = F[i].length
    OBVIOUS
  <2>1. 2 + i \in 3 .. Len(R)
    BY <1>2, <1>3
  <2> QED
    BY <1>2, <1>4, <2>1
<1>10. /\ N[2].start = IF p = cur THEN total ELSE V[p].recs[1].start
       /\ N[2].length = IF p = cur THEN z ELSE V[p].recs[1].length
  <2>1. p \in 1 .. n
    BY <1>1
  <2>2. V[p].recs = dirList[p].content[fs]
    BY <2>1 DEF Viewed
  <2>3. CASE p = cur
    <3>1. UpRecord(fs) = Record(fs, Up, "dir", total, 0)
      BY <2>3 DEF UpRecord
    <3>2. UpRecord(fs).start = total
      BY <3>1, RecordIs
    <3> QED
      BY <1>2, <1>4, <2>3, <3>2
  <2>4. CASE p # cur
    <3>1. UpRecord(fs) = Record(fs, Up, "dir", V[p].recs[1].start, V[p].recs[1].length)
      BY <2>2, <2>4 DEF UpRecord
    <3>2. UpRecord(fs).start = V[p].recs[1].start /\ UpRecord(fs).length = V[p].recs[1].length
      <4>1. \A a, b : Record(fs, Up, "dir", a, b).start = a /\ Record(fs, Up, "dir", a, b).length = b
        BY RecordIs
      <4> DEFINE a == V[p].recs[1].start
                 b == V[p].recs[1].length
                 u == UpRecord(fs)
      <4>2. u = Record(fs, Up, "dir", a, b)
        BY <3>1
      <4> HIDE DEF a, b, u
      <4>3. u.start = a /\ u.length = b
        BY <4>1, <4>2
      <4> QED
        BY <4>3 DEF a, b, u
    <3> QED
      BY <1>2, <1>4, <2>4, <3>2
  <2> QED
    BY <2>3, <2>4
<1>11. \A j \in 1 .. cur - 1 : W[j].size = V[j].size /\ (j # p => W[j].recs = V[j].recs)
  <2> SUFFICES ASSUME NEW j \in 1 .. cur - 1
               PROVE  W[j].size = V[j].size /\ (j # p => W[j].recs = V[j].recs)
    OBVIOUS
  <2>1. j \in 1 .. n /\ j # cur
    BY <1>1
  <2>2. M[j].size[fs] = dirList[j].size[fs] /\ (j # p => M[j].content[fs] = dirList[j].content[fs])
    BY <2>1 DEF DirBuilt
  <2> QED
    BY <2>1, <2>2 DEF Viewed
<1>12. ASSUME p # cur
       PROVE  /\ own \in 3 .. Len(V[p].recs) /\ V[p].recs[own].id = CheckId(fs, NameOf(V, tree, cur))
              /\ Even(39 + len_fi(fs, CheckId(fs, NameOf(V, tree, cur)))) < 256
              /\ W[p].recs = Relocated(V[p].recs, own, total, z)
  <2>1. p \in 1 .. n /\ p \in 1 .. cur - 1 /\ cur - 1 \in 0 .. n
    BY <1>1, <1>12
  <2>2. V[p].recs = dirList[p].content[fs] /\ W[p].recs = M[p].content[fs]
    BY <2>1 DEF Viewed
  <2>3. M[p].content[fs] = NewUp(fs)
    BY <1>12, <2>1 DEF DirBuilt
  <2>4. NewUp(fs) = Relocated(V[p].recs, own, total, z)
    BY <1>2, <2>2 DEF NewUp
  <2>5. LaidOut(V, tree, fs, p)
    <3>1. Len(V) = n /\ V \in [1 .. Len(V) -> ViewSet]
      BY DEF Viewed
    <3>2. PICK m \in 0 .. n : m = cur - 1
      BY <2>1
    <3> QED
      BY <1>1, <2>1, <3>1, <3>2, LaidIs
  <2>6. NameOf(V, tree, cur) = tree.dirs[dirList[cur].src].name /\ NameOf(V, tree, cur) \in Names
    BY <1>0, <1>1, NameShown
  <2>7. own = findDirRecord(CheckId(fs, NameOf(V, tree, cur)), V[p].recs)
    BY <2>2, <2>6 DEF OwnRecord
  <2>8. own # 0
    BY <1>12 DEF Builds
  <2> HIDE DEF own, p
  <2>9. OwnFound(V[p].recs, own, fs, CheckId(fs, NameOf(V, tree, cur)))
    BY <2>5, <2>6, <2>7, <2>8, OwnIs, Zenon
  <2> QED
    BY <2>2, <2>3, <2>4, <2>9, Zenon DEF OwnFound
<1> HIDE DEF n, p, N, R, F, C, z, total, own
<1>13. Grown(V, W, tree, fs, cur, total)
  <2>1. FileRecs(fs, V[cur].files) = F
    BY <1>5 DEF F
  <2>2. Shaped(N, F, SubRecs(fs, V, tree, cur)) /\ N[1].start = total
    BY <1>2, <1>4, <1>5, <1>7
  <2> QED
    BY <1>4, <1>5, <1>6, <1>8, <1>9, <1>10, <1>11, <1>12, <2>1, <2>2, Zenon DEF Grown
<1>14. fs = "joliet" /\ cur # 1 => NameOf(V, tree, cur).len < 108
  <2> SUFFICES ASSUME fs = "joliet", cur # 1 PROVE NameOf(V, tree, cur).len < 108
    OBVIOUS
  <2>1. p # cur
    <3>1. cur \in 2 .. Len(dirList)
      BY <1>1 DEF n
    <3>2. p \in 1 .. cur - 1
      BY <3>1 DEF ListOnce, p
    <3> QED
      BY <3>1, <3>2
  <2>2. NameOf(V, tree, cur) \in Names
    BY <1>0, <1>1, NameShown DEF n
  <2> QED
    BY <1>12, <2>1, <2>2, JolietShort
<1> QED
  BY <1>13, <1>14 DEF total

-----------------------------------------------------------------------------
(* The records of all directories *)

LEMMA ViewUnchanged ==
    ASSUME NEW L, NEW M, NEW fs, Len(M) = Len(L),
           \A k \in 1 .. Len(L) :
              /\ M[k].src = L[k].src /\ M[k].parent = L[k].parent
              /\ M[k].children = L[k].children /\ M[k].files = L[k].files
              /\ M[k].content[fs] = L[k].content[fs] /\ M[k].size[fs] = L[k].size[fs]
    PROVE  View(M, fs) = View(L, fs)
<1> DEFINE v(A, k) == [src |-> A[k].src, parent |-> A[k].parent, children |-> A[k].children,
                       files |-> A[k].files, recs |-> A[k].content[fs], size |-> A[k].size[fs]]
<1>1. \A k \in 1 .. Len(L) : v(M, k) = v(L, k)
  OBVIOUS
<1>2. View(L, fs) = [k \in 1 .. Len(L) |-> v(L, k)] /\ View(M, fs) = [k \in 1 .. Len(L) |-> v(M, k)]
  BY DEF View
<1> HIDE DEF v
<1> QED
  BY <1>1, <1>2

LEMMA EarlyRecorded ==
    ASSUME Recorded, UNCHANGED dirsSizeSectors,
           pc' \in {"failed", "crashed", "hollow", "deleted"}
           \/ (pc \in {"open", "dirs", "files"} /\ pc' \in {"open", "dirs", "files"})
    PROVE  Recorded'
<1>1. ASSUME NEW fs \in FS PROVE RecordedIn(fs)'
  <2>1. RecordedIn(fs)
    BY DEF Recorded
  <2> QED
    BY <2>1 DEF RecordedIn, FS
<1> QED
  BY <1>1 DEF Recorded

LEMMA ScanFilesRecords ==
    ASSUME BuildInv, Recorded, ScanFiles
    PROVE  Recorded'
<1>1. /\ pc = "files" /\ UNCHANGED dirsSizeSectors
      /\ \/ pc' \in {"failed", "crashed"} \/ pc' = "files"
         \/ pc' = "iso" /\ cur' = 1
  BY FilesStep
<1>2. CASE pc' # "iso"
  BY <1>1, <1>2, EarlyRecorded
<1>3. CASE pc' = "iso"
  <2>1. ASSUME NEW fs \in FS PROVE RecordedIn(fs)'
    <3>1. dirsSizeSectors'[fs] = 0
      BY <1>1 DEF Recorded, RecordedIn
    <3>2. cur' - 1 = 0
      BY <1>1, <1>3
    <3>3. Known(View(dirList', fs), tree', fs, cur' - 1, 0, 0, dirsSizeSectors'[fs])
      BY <3>1, <3>2, KnownNothing
    <3> QED
      BY <1>3, <3>1, <3>3 DEF RecordedIn
  <2> QED
    BY <1>3, <2>1 DEF Recorded
<1> QED
  BY <1>2, <1>3

\* What buildContent() does to the records when it succeeds.
LEMMA ContentRecords ==
    ASSUME BuildInv, Enlisted, Recorded, NEW fs \in FS, BuildContent(fs), pc' # "failed"
    PROVE  /\ pc = fs /\ tree' = tree /\ cur \in 1 .. Len(dirList) /\ Len(dirList) \in Nat
           /\ Len(dirList') = Len(dirList)
           /\ \/ pc' = pc /\ cur' = cur + 1
              \/ pc' = (IF fs = "iso" THEN "joliet" ELSE "tables") /\ cur' = 1 /\ cur = Len(dirList)
           /\ Known(View(dirList', fs), tree, fs, cur, 0, 0, dirsSizeSectors'[fs])
           /\ \A g \in FS : g # fs => View(dirList', g) = View(dirList, g) /\ dirsSizeSectors'[g] = dirsSizeSectors[g]
           /\ \A k \in 1 .. Len(dirList) : dirList'[k].src = dirList[k].src
           /\ fs = "joliet" /\ cur # 1 => tree.dirs[dirList[cur].src].name.len < 108
<1> DEFINE n == Len(dirList)
           V == View(dirList, fs)
           W == View(dirList', fs)
           z == NewSize(fs)
           total == dirsSizeSectors[fs]
<1>1. /\ pc = fs /\ tree' = tree /\ cur \in 1 .. n /\ n \in Nat /\ z \in Nat
      /\ DirBuilt(dirList, dirList', n, fs, cur, NewContent(fs), z, dirList[cur].parent, NewUp(fs))
      /\ dirsSizeSectors' = [dirsSizeSectors EXCEPT ![fs] = @ + bytesToSectors(z)]
      /\ Advance(dirList', IF fs = "iso" THEN "joliet" ELSE "tables")
      /\ Builds(fs)
  BY ContentBuilt
<1>2. tree \in Trees /\ Linked /\ Counted /\ ListOnce(dirList, tree)
  BY DEF BuildInv, Enlisted
<1>3. dirList' \in [1 .. n -> DirSet] /\ Len(dirList') = n
  <2>1. dirList' \in [1 .. n -> DirSet]
    BY <1>1 DEF DirBuilt
  <2>2. PICK M \in [1 .. n -> DirSet] : M = dirList'
    BY <2>1
  <2>3. Len(M) = n
    BY <1>1
  <2> QED
    BY <2>1, <2>2, <2>3
<1>4. Viewed(V, dirList, fs, n) /\ Viewed(W, dirList', fs, n)
  BY <1>1, <1>2, <1>3, ListShown, ViewShows
<1>5. Known(V, tree, fs, cur - 1, 0, 0, total)
  BY <1>1 DEF Recorded, RecordedIn
<1>6. Laid(V, tree, fs, cur - 1)
  BY <1>5 DEF Known
<1>7. /\ Grown(V, W, tree, fs, cur, total)
      /\ fs = "joliet" /\ cur # 1 => NameOf(V, tree, cur).len < 108
  <2>1. PICK M : M = dirList'
    OBVIOUS
  <2> HIDE DEF V, W, total
  <2>2. /\ Grown(V, W, tree, fs, cur, dirsSizeSectors[fs])
        /\ fs = "joliet" /\ cur # 1 => NameOf(V, tree, cur).len < 108
    BY <1>1, <1>2, <1>4, <1>6, <2>1, ContentGrown
  <2> QED
    BY <2>2 DEF total
<1>8. Alike(V, W) /\ ListOnce(V, tree) /\ Len(V) = n
  <2>1. \A k \in 1 .. n : /\ dirList'[k].src = dirList[k].src /\ dirList'[k].parent = dirList[k].parent
                          /\ dirList'[k].children = dirList[k].children /\ dirList'[k].files = dirList[k].files
    BY <1>1 DEF DirBuilt
  <2> HIDE DEF V, W
  <2>2. Alike(V, W)
    BY <1>1, <1>4, <2>1, ViewsAlike
  <2> QED
    BY <1>2, <1>4, <2>2, ViewOnce DEF Viewed
<1>9. W[cur].size = z
  <2>1. dirList'[cur].size[fs] = z
    BY <1>1 DEF DirBuilt
  <2> QED
    BY <1>1, <1>4, <2>1 DEF Viewed
<1>10. Known(W, tree, fs, cur, 0, 0, total + bytesToSectors(z))
  <2> HIDE DEF V, W, total
  <2>1. total \in Nat
    BY <1>2 DEF Counted, total
  <2> QED
    BY <1>1, <1>5, <1>7, <1>8, <1>9, <2>1, KnownMore
<1>11. dirsSizeSectors'[fs] = total + bytesToSectors(z)
  BY <1>1, <1>2 DEF Counted
<1>12. ASSUME NEW g \in FS, g # fs
       PROVE  View(dirList', g) = View(dirList, g) /\ dirsSizeSectors'[g] = dirsSizeSectors[g]
  <2>1. \A k \in 1 .. n :
           /\ dirList'[k].src = dirList[k].src /\ dirList'[k].parent = dirList[k].parent
           /\ dirList'[k].children = dirList[k].children /\ dirList'[k].files = dirList[k].files
           /\ dirList'[k].content[g] = dirList[k].content[g] /\ dirList'[k].size[g] = dirList[k].size[g]
    BY <1>1, <1>12 DEF DirBuilt
  <2>2. View(dirList', g) = View(dirList, g)
    BY <1>3, <2>1, ViewUnchanged
  <2> QED
    BY <1>1, <1>2, <1>12, <2>2 DEF Counted
<1>13. \/ pc' = pc /\ cur' = cur + 1
       \/ pc' = (IF fs = "iso" THEN "joliet" ELSE "tables") /\ cur' = 1 /\ cur = n
  <2>1. IF cur < n THEN cur' = cur + 1 /\ pc' = pc
        ELSE cur' = 1 /\ pc' = (IF fs = "iso" THEN "joliet" ELSE "tables")
    BY <1>1, <1>3, Zenon DEF Advance
  <2>2. cur < n \/ cur = n
    BY <1>1
  <2> QED
    BY <2>1, <2>2
<1>14. fs = "joliet" /\ cur # 1 => tree.dirs[dirList[cur].src].name.len < 108
  <2>1. NameOf(V, tree, cur) = tree.dirs[dirList[cur].src].name
    BY <1>1, <1>2, <1>4, NameShown
  <2> QED
    BY <1>7, <2>1
<1>15. \A k \in 1 .. n : dirList'[k].src = dirList[k].src
  BY <1>1 DEF DirBuilt
<1> HIDE DEF V, z, total
<1> QED
  BY <1>1, <1>3, <1>10, <1>11, <1>12, <1>13, <1>14, <1>15

LEMMA BuildContentRecords ==
    ASSUME BuildInv, Enlisted, Recorded, NEW fs \in FS, BuildContent(fs)
    PROVE  Recorded'
<1>1. CASE pc' = "failed"
  <2>1. ASSUME NEW g \in FS PROVE RecordedIn(g)'
    BY <1>1 DEF RecordedIn, FS
  <2> QED
    BY <1>1, <2>1 DEF Recorded
<1>2. CASE pc' # "failed"
  <2> DEFINE n == Len(dirList)
             next == IF fs = "iso" THEN "joliet" ELSE "tables"
  <2>1. /\ pc = fs /\ tree' = tree /\ cur \in 1 .. n /\ n \in Nat /\ Len(dirList') = n
        /\ \/ pc' = pc /\ cur' = cur + 1
           \/ pc' = next /\ cur' = 1 /\ cur = n
        /\ Known(View(dirList', fs), tree, fs, cur, 0, 0, dirsSizeSectors'[fs])
        /\ \A g \in FS : g # fs => View(dirList', g) = View(dirList, g) /\ dirsSizeSectors'[g] = dirsSizeSectors[g]
        /\ \A k \in 1 .. n : dirList'[k].src = dirList[k].src
        /\ fs = "joliet" /\ cur # 1 => tree.dirs[dirList[cur].src].name.len < 108
    BY <1>2, ContentRecords
  <2>2. fs \in {"iso", "joliet"} /\ \A g \in FS : g \in {"iso", "joliet"}
    BY DEF FS
  <2>3. \A g \in FS : RecordedIn(g)
    BY DEF Recorded
  <2>4. RecordedIn(fs)'
    <3>1. CASE pc' = pc /\ cur' = cur + 1
      <4>1. cur' - 1 = cur
        BY <2>1, <3>1
      <4>2. Known(View(dirList', fs), tree', fs, cur' - 1, 0, 0, dirsSizeSectors'[fs])
        BY <2>1, <4>1
      <4> QED
        BY <2>1, <2>2, <3>1, <4>2 DEF RecordedIn
    <3>2. CASE pc' = next /\ cur' = 1 /\ cur = n
      <4>1. Known(View(dirList', fs), tree', fs, Len(dirList'), 0, 0, dirsSizeSectors'[fs])
        BY <2>1, <3>2
      <4> QED
        BY <2>2, <3>2, <4>1 DEF RecordedIn
    <3> QED
      BY <2>1, <3>1, <3>2
  <2>5. ASSUME NEW g \in FS, g # fs PROVE RecordedIn(g)'
    <3>0. View(dirList', g) = View(dirList, g) /\ dirsSizeSectors'[g] = dirsSizeSectors[g] /\ RecordedIn(g)
      BY <2>1, <2>3, <2>5
    <3>1. CASE fs = "joliet"
      <4>1. g = "iso"
        BY <2>2, <2>5, <3>1
      <4>2. Known(View(dirList, g), tree, g, n, 0, 0, dirsSizeSectors[g])
        BY <2>1, <3>0, <3>1, <4>1 DEF RecordedIn
      <4>3. Known(View(dirList', g), tree', g, Len(dirList'), 0, 0, dirsSizeSectors'[g])
        BY <2>1, <3>0, <4>2
      <4>4. pc' \in {"joliet", "tables"}
        BY <2>1, <3>1
      <4> QED
        BY <4>1, <4>3, <4>4 DEF RecordedIn
    <3>2. CASE fs = "iso"
      <4>1. g = "joliet"
        BY <2>2, <2>5, <3>2
      <4>2. dirsSizeSectors'[g] = 0
        BY <2>1, <3>0, <3>2, <4>1 DEF RecordedIn
      <4>3. pc' = "iso" \/ (pc' = "joliet" /\ cur' = 1)
        BY <2>1, <3>2
      <4>4. Known(View(dirList', g), tree', g, 0, 0, 0, dirsSizeSectors'[g])
        BY <4>2, KnownNothing
      <4>5. cur' = 1 => cur' - 1 = 0
        OBVIOUS
      <4> QED
        BY <4>1, <4>2, <4>3, <4>4, <4>5 DEF RecordedIn
    <3> QED
      BY <2>2, <3>1, <3>2
  <2>6. /\ pc' = "joliet" => ShortNames(cur - 1)'
        /\ pc' \in {"tables", "fix", "write", "ready"} => ShortNames(Len(dirList))'
    <3>1. CASE fs = "iso"
      <4>1. pc' = "iso" \/ (pc' = "joliet" /\ cur' = 1)
        BY <2>1, <3>1
      <4>2. cur' = 1 => ShortNames(cur - 1)'
        BY DEF ShortNames
      <4> QED
        BY <4>1, <4>2
    <3>2. CASE fs = "joliet"
      <4>1. ShortNames(cur - 1)
        BY <2>1, <3>2 DEF Recorded
      <4>2. \A c \in 2 .. cur : tree'.dirs[dirList'[c].src].name.len < 108
        <5> SUFFICES ASSUME NEW c \in 2 .. cur PROVE tree'.dirs[dirList'[c].src].name.len < 108
          OBVIOUS
        <5>1. c \in 1 .. n /\ dirList'[c].src = dirList[c].src
          BY <2>1
        <5>2. CASE c = cur
          BY <2>1, <3>2, <5>1, <5>2
        <5>3. CASE c # cur
          <6>1. c \in 2 .. cur - 1
            BY <2>1, <5>3
          <6> QED
            BY <2>1, <4>1, <5>1, <6>1 DEF ShortNames
        <5> QED
          BY <5>2, <5>3
      <4>3. \/ pc' = "joliet" /\ cur' - 1 = cur
            \/ pc' = "tables" /\ Len(dirList') = cur
        BY <2>1, <3>2
      <4> QED
        BY <4>2, <4>3 DEF ShortNames
    <3> QED
      BY <2>2, <3>1, <3>2
  <2> QED
    BY <2>4, <2>5, <2>6 DEF Recorded
<1> QED
  BY <1>1, <1>2

LEMMA BuildPathTablesRecords ==
    ASSUME Recorded, BuildPathTables
    PROVE  Recorded'
<1>1. /\ pc = "tables" /\ UNCHANGED <<tree, cur>>
      /\ pc' = "failed" \/ (pc' = "fix" /\ UNCHANGED <<dirList, dirsSizeSectors>>)
  BY Zenon DEF BuildPathTables, Return
<1>2. CASE pc' = "failed"
  <2>1. ASSUME NEW g \in FS PROVE RecordedIn(g)'
    BY <1>2 DEF RecordedIn, FS
  <2> QED
    BY <1>2, <2>1 DEF Recorded
<1>3. CASE pc' = "fix" /\ UNCHANGED <<dirList, dirsSizeSectors>>
  <2>1. ASSUME NEW g \in FS PROVE RecordedIn(g)'
    BY <1>1, <1>3 DEF Recorded, RecordedIn, FS
  <2> QED
    BY <1>1, <1>3, <2>1 DEF Recorded, ShortNames
<1> QED
  BY <1>1, <1>2, <1>3

LEMMA FixLbaRecords ==
    ASSUME BuildInv, Enlisted, Recorded, BuildInv', FixLba
    PROVE  Recorded'
<1> DEFINE n == Len(dirList)
<1>1. /\ pc = "fix" /\ pc' = "write" /\ n \in Nat
      /\ UNCHANGED <<tree, cur, filesSizeSectors, dirsSizeSectors, fsBuf, faults>>
      /\ SameShape(dirList, dirList')
      /\ \A k \in 1 .. n :
            /\ dirList'[k].files = dirList[k].files /\ dirList'[k].size = dirList[k].size
            /\ \A fs \in FS : dirList'[k].content[fs] = fixDirLba(fs, dirList[k].content[fs])
  BY FixLbaStep
<1>2. tree \in Trees /\ Linked /\ Counted /\ Linked' /\ ListOnce(dirList, tree)
  BY DEF BuildInv, Enlisted
<1>3. /\ Len(dirList') = n
      /\ \A k \in 1 .. n : /\ dirList'[k].src = dirList[k].src /\ dirList'[k].parent = dirList[k].parent
                           /\ dirList'[k].children = dirList[k].children
  BY <1>1 DEF SameShape
<1>4. ASSUME NEW fs \in FS PROVE RecordedIn(fs)'
  <2> DEFINE V == View(dirList, fs)
             W == View(dirList', fs)
             a == dirLba(fs)
             b == filesLba
             total == dirsSizeSectors[fs]
  <2>1. Viewed(V, dirList, fs, n) /\ Viewed(W, dirList', fs, n)
    <3>1. dirList' \in [1 .. n -> DirSet]
      BY <1>2, <1>3 DEF Linked
    <3> QED
      BY <1>1, <1>2, <1>3, <3>1, ListShown, ViewShows
  <2>2. Known(V, tree, fs, n, 0, 0, total)
    BY <1>1 DEF Recorded, RecordedIn
  <2>3. TableSectors(fs)' = TableSectors(fs) /\ dirLba(fs)' = dirLba(fs) /\ filesLba' = filesLba
    BY <1>1, <1>2, TablesSame
  <2> HIDE DEF V, W, a, b, total
  <2>4. Alike(V, W) /\ ListOnce(V, tree) /\ Len(V) = n /\ V \in [1 .. Len(V) -> ViewSet]
    <3>1. Alike(V, W)
      BY <1>1, <1>3, <2>1, ViewsAlike
    <3> QED
      BY <1>2, <2>1, <3>1, ViewOnce DEF Viewed
  <2>5. a \in Nat /\ b \in Nat
    <3>1. isoLba \in Nat /\ jolietLba \in Nat /\ filesLba \in Nat
      BY <1>2, LbaTyped
    <3> QED
      BY <3>1 DEF a, b, dirLba
  <2>6. ASSUME NEW k \in 1 .. n PROVE FixedFrom(V[k].recs, W[k].recs, a, b) /\ W[k].size = V[k].size
    <3>1. LaidOut(V, tree, fs, k)
      <4>1. Laid(V, tree, fs, n) /\ n \in 0 .. Len(V) /\ Len(V) \in Nat
        BY <1>1, <2>2, <2>4 DEF Known
      <4> QED
        BY <2>4, <4>1, LaidIs
    <3> DEFINE R == V[k].recs
               Q == W[k].recs
    <3>2. R \in Seq(RecSet) /\ InPlace(R)
      BY <3>1 DEF LaidOut
    <3>3. /\ Q = fixDirLba(fs, R) /\ W[k].size = V[k].size
      BY <1>1, <2>1 DEF Viewed
    <3> HIDE DEF R, Q
    <3>4. /\ SamePlaces(R, Q)
          /\ \A i \in 1 .. Len(R) :
                /\ Q[i].start = R[i].start + IF R[i].flag = "dir" THEN a ELSE b
                /\ Q[i].length = R[i].length
      BY <1>2, <3>2, <3>3, FixedAre DEF a, b
    <3> QED
      BY <3>3, <3>4 DEF FixedFrom, R, Q
  <2>7. Known(W, tree, fs, n, a, b, total)
    BY <2>2, <2>4, <2>5, <2>6, KnownFixed
  <2>8. Known(View(dirList', fs), tree', fs, Len(dirList'), dirLba(fs)', filesLba', dirsSizeSectors'[fs])
    BY <1>1, <1>3, <2>3, <2>7 DEF W, a, b, total
  <2> QED
    BY <1>1, <2>8 DEF RecordedIn, FS
<1>5. ShortNames(Len(dirList))'
  BY <1>1, <1>3 DEF Recorded, ShortNames
<1> QED
  BY <1>1, <1>4, <1>5 DEF Recorded

LEMMA WriteRecords ==
    ASSUME BuildInv, Recorded, BuildInv', Write
    PROVE  Recorded'
<1>1. pc = "write" /\ pc' = "ready" /\ UNCHANGED <<tree, dirList, cur, dirsSizeSectors>>
  BY DEF Write, Return, listVars
<1>2. tree \in Trees /\ Linked /\ Linked' /\ SameShape(dirList, dirList')
  BY <1>1 DEF BuildInv, SameShape
<1>3. ASSUME NEW fs \in FS PROVE RecordedIn(fs)'
  <2>1. dirLba(fs)' = dirLba(fs) /\ filesLba' = filesLba
    BY <1>1, <1>2, TablesSame
  <2>2. Known(View(dirList, fs), tree, fs, Len(dirList), dirLba(fs), filesLba, dirsSizeSectors[fs])
    BY <1>1 DEF Recorded, RecordedIn
  <2>3. Known(View(dirList', fs), tree', fs, Len(dirList'), dirLba(fs)', filesLba', dirsSizeSectors'[fs])
    BY <1>1, <2>1, <2>2
  <2> QED
    BY <1>1, <2>3 DEF RecordedIn, FS
<1>4. ShortNames(Len(dirList))'
  BY <1>1 DEF Recorded, ShortNames
<1> QED
  BY <1>1, <1>3, <1>4 DEF Recorded

\* An image stays as it is while it is in use.
LEMMA RecordedSame ==
    ASSUME BuildInv, BuildInv', Recorded, UNCHANGED <<tree, dirList, cur, dirsSizeSectors, pc>>
    PROVE  Recorded'
<1>1. tree \in Trees /\ Linked /\ Linked' /\ SameShape(dirList, dirList')
  BY DEF BuildInv, SameShape
<1>2. ASSUME NEW fs \in FS PROVE RecordedIn(fs)'
  <2>1. dirLba(fs)' = dirLba(fs) /\ filesLba' = filesLba
    BY <1>1, TablesSame
  <2>2. RecordedIn(fs)
    BY DEF Recorded
  <2> QED
    BY <2>1, <2>2 DEF RecordedIn
<1> QED
  BY <1>2 DEF Recorded, ShortNames

LEMMA BuildRecords ==
    ASSUME BuildInv, Enlisted, Recorded, BuildInv', BuildNext
    PROVE  Recorded'
<1>1. CASE Open
  <2>1. pc = "open" /\ pc' \in {"failed", "hollow", "dirs"} /\ UNCHANGED dirsSizeSectors
    BY <1>1 DEF Open, Return, get_title_id, GenerateFails
  <2> QED
    BY <2>1, EarlyRecorded
<1>2. CASE ScanDirs
  <2>1. pc = "dirs" /\ pc' \in {"failed", "dirs", "files"} /\ UNCHANGED dirsSizeSectors
    BY <1>2, Zenon DEF ScanDirs, Return, Advance
  <2> QED
    BY <2>1, EarlyRecorded
<1>3. CASE ScanFiles
  BY <1>3, ScanFilesRecords
<1>4. CASE \E fs \in FS : BuildContent(fs)
  BY <1>4, BuildContentRecords
<1>5. CASE BuildPathTables
  BY <1>5, BuildPathTablesRecords
<1>6. CASE FixLba
  BY <1>6, FixLbaRecords
<1>7. CASE Write
  BY <1>7, WriteRecords
<1> QED
  BY <1>1, <1>2, <1>3, <1>4, <1>5, <1>6, <1>7 DEF BuildNext

LEMMA RecordedGone ==
    ASSUME pc' \in {"failed", "crashed", "hollow", "deleted"}
    PROVE  Recorded'
<1>1. ASSUME NEW g \in FS PROVE RecordedIn(g)'
  BY DEF RecordedIn, FS
<1> QED
  BY <1>1 DEF Recorded

-----------------------------------------------------------------------------
(* The path tables and the image *)

\* The first record of a directory that has been built.
LEMMA FirstIs ==
    ASSUME Linked, NEW fs \in FS, NEW b, NEW fb, NEW total,
           Known(View(dirList, fs), tree, fs, Len(dirList), b, fb, total), NEW k \in 1 .. Len(dirList)
    PROVE  LET R == dirList[k].content[fs]
           IN  R \in Seq(RecSet) /\ InPlace(R) /\ Len(R) \in Nat /\ Len(R) >= 2 /\ R[1] \in RecSet /\ R[1].flag = "dir"
<1> DEFINE V == View(dirList, fs)
           n == Len(dirList)
           R == dirList[k].content[fs]
<1>1. Viewed(V, dirList, fs, n) /\ n \in Nat
  BY ListShown
<1>2. Laid(V, tree, fs, n) /\ n \in 0 .. Len(V) /\ Len(V) = n /\ V \in [1 .. Len(V) -> ViewSet]
  BY <1>1 DEF Known, Viewed
<1> HIDE DEF V
<1>3. LaidOut(V, tree, fs, k)
  BY <1>1, <1>2, LaidIs
<1>4. V[k].recs = R
  BY <1>1 DEF Viewed
<1>5. R \in Seq(RecSet) /\ InPlace(R) /\ R[1].flag = "dir" /\ Len(R) \in Nat /\ Len(R) >= 2
  <2> DEFINE f == Len(FileRecs(fs, V[k].files))
             c == Len(V[k].children)
  <2>1. R \in Seq(RecSet) /\ InPlace(R) /\ R[1].flag = "dir" /\ f \in Nat /\ c \in Nat /\ Len(R) = 2 + f + c
    BY <1>3, <1>4, Zenon DEF LaidOut
  <2> HIDE DEF f, c, R
  <2> QED
    BY <2>1
<1> QED
  BY <1>5

LEMMA EntryTyped ==
    ASSUME tree \in Trees, Linked, NEW fs \in FS, NEW i \in 1 .. Len(dirList),
           dirList[i].content[fs][1].start \in Int
    PROVE  TableEntry(fs, i) \in EntrySet
<1>1. dirList[i].parent \in Nat /\ dirList[i].src \in 1 .. Len(tree.dirs)
  BY DirTyped DEF Linked
<1>2. tree.dirs[dirList[i].src].name \in Names
  BY <1>1, TreeTyped
<1>3. DirId(fs, tree.dirs[dirList[i].src].name) \in Ids
  BY <1>2, IdsTyped
<1> DEFINE id == IF i = 1 THEN Self ELSE DirId(fs, tree.dirs[dirList[i].src].name)
<1>4. id \in Ids
  BY <1>3, SelfAndUp
<1>5. TableEntry(fs, i) = [id |-> id, start |-> dirList[i].content[fs][1].start,
                           parentDN |-> dirList[i].parent % UINT16]
  BY DEF TableEntry
<1>6. dirList[i].parent % UINT16 \in Nat
  BY <1>1, NumberAssumption
<1> HIDE DEF id
<1> QED
  BY <1>4, <1>5, <1>6 DEF EntrySet

LEMMA BuildPathTablesTables ==
    ASSUME BuildInv, Recorded, BuildPathTables
    PROVE  Tabled'
<1>1. /\ pc = "tables" /\ tree' = tree
      /\ \/ pc' = "failed"
         \/ /\ pc' = "fix" /\ UNCHANGED <<dirList, dirsSizeSectors>>
            /\ pathTable' = [fs \in FS |-> [i \in 1 .. Entries |-> TableEntry(fs, i)]]
  BY Zenon DEF BuildPathTables, Return
<1>2. CASE pc' = "failed"
  BY <1>2 DEF Tabled
<1>3. CASE /\ pc' = "fix" /\ UNCHANGED <<dirList, dirsSizeSectors>>
           /\ pathTable' = [fs \in FS |-> [i \in 1 .. Entries |-> TableEntry(fs, i)]]
  <2>0. tree \in Trees /\ Linked /\ Len(dirList) \in Nat
    BY DirTyped DEF BuildInv
  <2>2. Entries \in Nat /\ \A i \in 1 .. Entries : i \in 1 .. Len(dirList)
    BY <2>0, NumberAssumption DEF Entries, Smaller
  <2>1. ASSUME NEW fs \in FS PROVE TableIs(pathTable'[fs], dirList, tree, fs)
    <3> DEFINE T == pathTable'[fs]
    <3>1. T = [i \in 1 .. Entries |-> TableEntry(fs, i)]
      BY <1>3
    <3>2. ASSUME NEW i \in 1 .. Len(dirList) PROVE TableEntry(fs, i) \in EntrySet
      <4>1. Known(View(dirList, fs), tree, fs, Len(dirList), 0, 0, dirsSizeSectors[fs])
        BY <1>1 DEF Recorded, RecordedIn
      <4>2. dirList[i].content[fs][1] \in RecSet
        BY <2>0, <4>1, FirstIs
      <4>3. dirList[i].content[fs][1].start \in Int
        BY <4>2 DEF RecSet
      <4> QED
        BY <2>0, <4>3, EntryTyped
    <3>3. \A i \in 1 .. Entries :
             /\ TableEntry(fs, i).id = (IF i = 1 THEN Self ELSE DirId(fs, tree.dirs[dirList[i].src].name))
             /\ TableEntry(fs, i).start = dirList[i].content[fs][1].start
             /\ TableEntry(fs, i).parentDN = dirList[i].parent % UINT16
      BY DEF TableEntry
    <3> HIDE DEF T
    <3>4. T \in Seq(EntrySet) /\ Len(T) = Entries /\ \A i \in 1 .. Entries : T[i] = TableEntry(fs, i)
      BY <2>2, <3>1, <3>2
    <3>5. TableIs(T, dirList, tree, fs)
      BY <3>3, <3>4, Zenon DEF TableIs, Entries
    <3> QED
      BY <3>5 DEF T
  <2> QED
    BY <1>1, <1>3, <2>1 DEF Tabled
<1> QED
  BY <1>1, <1>2, <1>3

LEMMA FixLbaTables ==
    ASSUME BuildInv, Recorded, Tabled, FixLba
    PROVE  Tabled'
<1> DEFINE n == Len(dirList)
           e == Smaller(n, UINT16)
<1>1. /\ pc = "fix" /\ pc' = "write" /\ n \in Nat /\ tree' = tree
      /\ pathTable' = [fs \in FS |-> fixPathTableLba(fs)]
      /\ SameShape(dirList, dirList')
      /\ \A k \in 1 .. n : \A fs \in FS : dirList'[k].content[fs] = fixDirLba(fs, dirList[k].content[fs])
  BY FixLbaStep
<1>2. tree \in Trees /\ Linked /\ Counted
  BY DEF BuildInv
<1>3. /\ Len(dirList') = n
      /\ \A k \in 1 .. n : dirList'[k].src = dirList[k].src /\ dirList'[k].parent = dirList[k].parent
  BY <1>1 DEF SameShape
<1>5. e \in Nat /\ \A i \in 1 .. e : i \in 1 .. n
  BY <1>1, NumberAssumption DEF Smaller
<1> HIDE DEF e
<1>4. ASSUME NEW fs \in FS PROVE TableIs(pathTable'[fs], dirList', tree, fs)
  <2> DEFINE T == pathTable[fs]
             U == pathTable'[fs]
             a == dirLba(fs)
  <2>1. U = [i \in 1 .. Len(T) |-> [T[i] EXCEPT !.start = @ + a]]
    BY <1>1 DEF fixPathTableLba
  <2>2. TableIs(T, dirList, tree, fs)
    BY <1>1 DEF Tabled
  <2>3. a \in Nat
    <3>1. isoLba \in Nat /\ jolietLba \in Nat
      BY <1>2, LbaTyped
    <3> QED
      BY <3>1 DEF dirLba
  <2> HIDE DEF T, U, a
  <2>4. T \in Seq(EntrySet) /\ Len(T) = e
    BY <2>2 DEF TableIs, e
  <2>5. ASSUME NEW i \in 1 .. e
        PROVE  /\ U[i] \in EntrySet /\ U[i].id = T[i].id /\ U[i].parentDN = T[i].parentDN
               /\ U[i].start = T[i].start + a
    <3>1. T[i] \in EntrySet
      BY <2>4
    <3>2. U[i] = [T[i] EXCEPT !.start = @ + a]
      BY <2>1, <2>4
    <3>3. T[i].start + a \in Int
      BY <2>3, <3>1 DEF EntrySet
    <3> QED
      BY <3>1, <3>2, <3>3 DEF EntrySet
  <2>6. U \in Seq(EntrySet) /\ Len(U) = e
    <3>1. U = [i \in 1 .. e |-> U[i]]
      BY <2>1, <2>4
    <3> QED
      BY <1>5, <2>5, <3>1
  <2>7. ASSUME NEW i \in 1 .. n PROVE dirList'[i].content[fs][1].start = dirList[i].content[fs][1].start + a
    <3> DEFINE R == dirList[i].content[fs]
               Q == dirList'[i].content[fs]
    <3>1. Known(View(dirList, fs), tree, fs, n, 0, 0, dirsSizeSectors[fs])
      BY <1>1 DEF Recorded, RecordedIn
    <3>2. R \in Seq(RecSet) /\ InPlace(R) /\ Len(R) \in Nat /\ Len(R) >= 2 /\ R[1].flag = "dir"
      BY <1>2, <3>1, FirstIs
    <3>3. Q = fixDirLba(fs, R)
      BY <1>1
    <3> HIDE DEF R, Q
    <3>4. \A j \in 1 .. Len(R) : Q[j].start = R[j].start + IF R[j].flag = "dir" THEN a ELSE filesLba
      BY <1>2, <3>2, <3>3, FixedAre DEF a
    <3>5. Q[1].start = R[1].start + a
      BY <3>2, <3>4
    <3> QED
      BY <3>5 DEF R, Q
  <2>8. \A i \in 1 .. e : /\ T[i].id = (IF i = 1 THEN Self ELSE DirId(fs, tree.dirs[dirList[i].src].name))
                          /\ T[i].start = dirList[i].content[fs][1].start /\ T[i].parentDN = dirList[i].parent % UINT16
    BY <2>2, <2>4 DEF TableIs
  <2>9. TableIs(U, dirList', tree, fs)
    <3> SUFFICES ASSUME NEW i \in 1 .. e
                 PROVE  /\ U[i].id = (IF i = 1 THEN Self ELSE DirId(fs, tree.dirs[dirList'[i].src].name))
                        /\ U[i].start = dirList'[i].content[fs][1].start /\ U[i].parentDN = dirList'[i].parent % UINT16
      BY <1>3, <2>6 DEF TableIs, e
    <3>1. dirList'[i].src = dirList[i].src /\ dirList'[i].parent = dirList[i].parent
      BY <1>3, <1>5
    <3>2. U[i].id = T[i].id /\ U[i].parentDN = T[i].parentDN /\ U[i].start = T[i].start + a
      BY <2>5
    <3>3. dirList'[i].content[fs][1].start = dirList[i].content[fs][1].start + a
      BY <1>5, <2>7
    <3> QED
      BY <2>8, <3>1, <3>2, <3>3
  <2> QED
    BY <2>9 DEF U
<1> QED
  BY <1>1, <1>4 DEF Tabled

LEMMA BuildTables ==
    ASSUME BuildInv, Recorded, Tabled, BuildNext
    PROVE  Tabled'
<1>1. CASE Open
  <2>1. pc' \in {"failed", "hollow", "dirs"}
    BY <1>1 DEF Open, Return, get_title_id, GenerateFails
  <2> QED
    BY <2>1 DEF Tabled
<1>2. CASE ScanDirs
  <2>1. pc' \in {"failed", "dirs", "files"}
    BY <1>2, Zenon DEF ScanDirs, Return, Advance
  <2> QED
    BY <2>1 DEF Tabled
<1>3. CASE ScanFiles
  <2>1. pc' \in {"failed", "crashed", "files", "iso"}
    BY <1>3, FilesStep
  <2> QED
    BY <2>1 DEF Tabled
<1>4. CASE \E fs \in FS : BuildContent(fs)
  <2>1. PICK fs \in FS : BuildContent(fs)
    BY <1>4
  <2>2. pc' \in {"failed", "iso", "joliet", "tables"}
    <3>1. pc = fs /\ (pc' = "failed" \/ Advance(dirList', IF fs = "iso" THEN "joliet" ELSE "tables"))
      BY <2>1, ContentBuilt
    <3> QED
      BY <3>1, Zenon DEF Advance, FS
  <2> QED
    BY <2>2 DEF Tabled
<1>5. CASE BuildPathTables
  BY <1>5, BuildPathTablesTables
<1>6. CASE FixLba
  BY <1>6, FixLbaTables
<1>7. CASE Write
  BY <1>7 DEF Write, Return, listVars, Tabled
<1> QED
  BY <1>1, <1>2, <1>3, <1>4, <1>5, <1>6, <1>7 DEF BuildNext

LEMMA PadTyped ==
    ASSUME NEW n \in Nat
    PROVE  PadSectors(n) \in Nat /\ PadSectors(n) >= 32 /\ (n + PadSectors(n)) % 32 = 0
  BY DEF PadSectors

LEMMA WrittenIs ==
    ASSUME tree \in Trees, Linked
    PROVE  AreasAre(Written, dirList, TableSectors("iso"), TableSectors("joliet"))
<1> DEFINE n == Len(dirList)
           S == SECTOR_SIZE
           a == TableSectors("iso")
           b == TableSectors("joliet")
           A == Written
           C == Contents
<1>1. /\ Len(C) = 5 + 2 * n /\ n \in Nat
      /\ C[1] = Area("header", 0, 0, HEADER_SECTORS * S)
      /\ C[2] = Area("pathTableL", 0, 0, a * S) /\ C[3] = Area("pathTableM", 0, 0, a * S)
      /\ C[4] = Area("pathTableJolietL", 0, 0, b * S) /\ C[5] = Area("pathTableJolietM", 0, 0, b * S)
      /\ \A d \in 1 .. n : /\ C[5 + d] = Area("iso", d, 0, dirList[d].size["iso"])
                           /\ C[5 + n + d] = Area("joliet", d, 0, dirList[d].size["joliet"])
  BY ContentsAre
<1>2. /\ A \in Seq(AreaSet) /\ Len(A) = 5 + 2 * n
      /\ \A i \in 1 .. Len(A) :
            /\ A[i].what = C[i].what /\ A[i].dir = C[i].dir /\ A[i].len = C[i].len
            /\ A[i].at = IF i = 1 THEN 0 ELSE A[i - 1].at + A[i - 1].len
  BY WrittenAre
<1>3. \A what, d, len : IsArea(Area(what, d, 0, len), what, d, len)
  BY DEF IsArea, Area
<1> HIDE DEF a, b, A, C
<1>4. ASSUME NEW i \in 1 .. 5 + 2 * n, NEW what, NEW d, NEW len, C[i] = Area(what, d, 0, len)
      PROVE  IsArea(A[i], what, d, len)
  BY <1>2, <1>3, <1>4 DEF IsArea
<1>5. 1 \in 1 .. 5 + 2 * n /\ 2 \in 1 .. 5 + 2 * n /\ 3 \in 1 .. 5 + 2 * n /\ 4 \in 1 .. 5 + 2 * n /\ 5 \in 1 .. 5 + 2 * n
  BY <1>1
<1>6. \A d \in 1 .. n : 5 + d \in 1 .. 5 + 2 * n /\ 5 + n + d \in 1 .. 5 + 2 * n
  BY <1>1
<1>7. /\ IsArea(A[1], "header", 0, HEADER_SECTORS * S)
      /\ IsArea(A[2], "pathTableL", 0, a * S) /\ IsArea(A[3], "pathTableM", 0, a * S)
      /\ IsArea(A[4], "pathTableJolietL", 0, b * S) /\ IsArea(A[5], "pathTableJolietM", 0, b * S)
  BY <1>1, <1>4, <1>5
<1>8. \A d \in 1 .. n : /\ IsArea(A[5 + d], "iso", d, dirList[d].size["iso"])
                        /\ IsArea(A[5 + n + d], "joliet", d, dirList[d].size["joliet"])
  BY <1>1, <1>4, <1>6
<1> QED
  BY <1>2, <1>7, <1>8, Zenon DEF AreasAre, a, b, A

LEMMA WriteImages ==
    ASSUME BuildInv, BuildInv', Recorded, Enlisted, Write
    PROVE  Imaged'
<1> DEFINE n == filesLba + filesSizeSectors
           S == SECTOR_SIZE
           a == TableSectors("iso")
           b == TableSectors("joliet")
           pvd == [fs \in FS |-> Pvd(fs)]
<1>1. /\ pc = "write" /\ pc' = "ready" /\ UNCHANGED <<tree, dirList, filesSizeSectors, dirsSizeSectors>>
      /\ fsBuf' = [areas |-> Written, pvd |-> pvd,
                   fsBufSize |-> filesLba * S, padAreaStart |-> n * S,
                   padAreaSize |-> PadSectors(n) * S, totalSize |-> (n + PadSectors(n)) * S]
  BY DEF Write, Return, listVars
<1>2. tree \in Trees /\ Linked /\ Linked' /\ Counted /\ SameShape(dirList, dirList')
  BY <1>1 DEF BuildInv, SameShape
<1>3. AreasAre(Written, dirList, a, b)
  BY <1>2, WrittenIs
<1>4. Written \in Seq(AreaSet)
  BY <1>3 DEF AreasAre
<1>5. a \in Nat /\ b \in Nat
  BY <1>2, TablesSized DEF FS
<1>6. filesLba \in Nat /\ n \in Nat /\ S \in Nat
  BY <1>2, LbaTyped, SectorAssumption DEF Counted
<1>7. 1 \in 1 .. Len(dirList)
  <2>1. Len(dirList) >= 1 /\ Len(dirList) \in Nat
    BY <1>1, <1>2, DirTyped DEF Enlisted, Building
  <2> QED
    BY <2>1
<1>8. ASSUME NEW fs \in FS
      PROVE  dirList[1].content[fs][1].start \in Int /\ dirList[1].content[fs][1].length \in Int
  <2>1. Known(View(dirList, fs), tree, fs, Len(dirList), dirLba(fs), filesLba, dirsSizeSectors[fs])
    BY <1>1 DEF Recorded, RecordedIn
  <2>2. dirList[1].content[fs][1] \in RecSet
    BY <1>2, <1>7, <2>1, FirstIs
  <2> QED
    BY <2>2 DEF RecSet
<1> DEFINE root(fs) == [start |-> dirList[1].content[fs][1].start, length |-> dirList[1].content[fs][1].length]
           Pvds == [root : [start : Int, length : Int], pathTableL : Nat, pathTableM : Nat]
<1>9. /\ Pvd("iso") = [root |-> root("iso"), pathTableL |-> 20 + 0, pathTableM |-> 20 + a]
      /\ Pvd("joliet") = [root |-> root("joliet"), pathTableL |-> 20 + 2 * a, pathTableM |-> 20 + (2 * a + b)]
  BY DEF Pvd, HEADER_SECTORS
<1> HIDE DEF a, b, n, S, Pvds
<1>10. \A fs \in FS : root(fs) \in [start : Int, length : Int]
  BY <1>8
<1>11. Pvd("iso") \in Pvds /\ Pvd("joliet") \in Pvds
  <2>1. 20 + 0 \in Nat /\ 20 + a \in Nat /\ 20 + 2 * a \in Nat /\ 20 + (2 * a + b) \in Nat
    BY <1>5
  <2>2. root("iso") \in [start : Int, length : Int] /\ root("joliet") \in [start : Int, length : Int]
    BY <1>10 DEF FS
  <2> HIDE DEF root
  <2> QED
    BY <1>9, <2>1, <2>2 DEF Pvds
<1>12. pvd \in [FS -> Pvds] /\ \A fs \in FS : pvd[fs] = Pvd(fs)
  BY <1>11 DEF FS
<1>13. PvdsAre(pvd, dirList, a, b)
  <2>1. pvd["iso"] = Pvd("iso") /\ pvd["joliet"] = Pvd("joliet")
    BY <1>12 DEF FS
  <2>2. /\ pvd["iso"].root = root("iso") /\ pvd["joliet"].root = root("joliet")
        /\ pvd["iso"].pathTableL = 20 + 0 /\ pvd["iso"].pathTableM = 20 + a
        /\ pvd["joliet"].pathTableL = 20 + 2 * a /\ pvd["joliet"].pathTableM = 20 + (2 * a + b)
    <3> HIDE DEF root, pvd
    <3> QED
      BY <1>9, <2>1
  <2>3. \A fs \in FS : pvd[fs].root = root(fs)
    <3> HIDE DEF root, pvd
    <3> QED
      BY <2>2 DEF FS
  <2>4. \A fs \in FS : /\ pvd[fs].root.start = dirList[1].content[fs][1].start
                       /\ pvd[fs].root.length = dirList[1].content[fs][1].length
    <3> SUFFICES ASSUME NEW fs \in FS
                 PROVE  /\ pvd[fs].root.start = dirList[1].content[fs][1].start
                        /\ pvd[fs].root.length = dirList[1].content[fs][1].length
      OBVIOUS
    <3>1. pvd[fs].root = root(fs)
      BY <2>3
    <3>2. /\ root(fs).start = dirList[1].content[fs][1].start
          /\ root(fs).length = dirList[1].content[fs][1].length
      OBVIOUS
    <3> HIDE DEF pvd, root
    <3> QED
      BY <3>1, <3>2
  <2> HIDE DEF pvd, root
  <2> QED
    BY <1>5, <2>2, <2>4 DEF PvdsAre, HEADER_SECTORS
<1>14. PadSectors(n) \in Nat
  BY <1>6, PadTyped
<1>15. fsBuf' \in Images
  <2>1. filesLba * S \in Nat /\ n * S \in Nat /\ PadSectors(n) * S \in Nat /\ (n + PadSectors(n)) * S \in Nat
    BY <1>6, <1>14
  <2> HIDE DEF pvd
  <2> QED
    BY <1>1, <1>4, <1>12, <2>1 DEF Images, Pvds
<1>16. SizesAre(fsBuf', filesLba, filesSizeSectors)
  <2> HIDE DEF pvd
  <2>1. /\ fsBuf'.fsBufSize = filesLba * S /\ fsBuf'.padAreaStart = n * S
        /\ fsBuf'.padAreaSize = PadSectors(n) * S /\ fsBuf'.totalSize = (n + PadSectors(n)) * S
    BY <1>1
  <2> QED
    BY <2>1 DEF SizesAre, S, n
<1>17. fsBuf'.areas = Written /\ fsBuf'.pvd = pvd
  <2> HIDE DEF pvd
  <2> QED
    BY <1>1
<1>18. ImageIs(fsBuf', dirList, a, b, filesLba, filesSizeSectors)
  <2> HIDE DEF pvd
  <2> QED
    BY <1>3, <1>13, <1>15, <1>16, <1>17 DEF ImageIs
<1>19. a' = a /\ b' = b /\ filesLba' = filesLba
  <2>1. TableSectors("iso")' = TableSectors("iso") /\ TableSectors("joliet")' = TableSectors("joliet") /\ filesLba' = filesLba
    BY <1>1, <1>2, TablesSame DEF FS
  <2> QED
    BY <2>1 DEF a, b
<1> QED
  BY <1>1, <1>18, <1>19 DEF Imaged, a, b

LEMMA ImagedSame ==
    ASSUME BuildInv, BuildInv', Imaged,
           UNCHANGED <<tree, dirList, filesSizeSectors, dirsSizeSectors, pc, fsBuf>>
    PROVE  Imaged'
<1>1. tree \in Trees /\ Linked /\ Linked' /\ SameShape(dirList, dirList')
  BY DEF BuildInv, SameShape
<1>2. TableSectors("iso")' = TableSectors("iso") /\ TableSectors("joliet")' = TableSectors("joliet") /\ filesLba' = filesLba
  BY <1>1, TablesSame DEF FS
<1> QED
  BY <1>2 DEF Imaged

-----------------------------------------------------------------------------
(* The invariant of an image *)

LEMMA ImageInitially ==
    ASSUME Init
    PROVE  ImageInv
<1>1. /\ tree \in Trees /\ pc = "open" /\ dirList = << >> /\ cur = 0
      /\ dirsSizeSectors = [fs \in FS |-> 0] /\ reads = 0
  BY DEF Init, BuildInit
<1>2. Enlisted
  <2>1. Len(dirList) = 0
    BY <1>1
  <2>2. ListOnce(dirList, tree)
    BY <2>1 DEF ListOnce
  <2>3. Len(tree.dirs) \in Nat
    BY <1>1, TreeTyped
  <2> QED
    BY <1>1, <2>2, <2>3 DEF Enlisted, Building
<1>3. Recorded
  <2>1. ASSUME NEW fs \in FS PROVE RecordedIn(fs)
    BY <1>1 DEF RecordedIn, FS
  <2> QED
    BY <1>1, <2>1 DEF Recorded
<1> QED
  BY <1>1, <1>2, <1>3, DumpAssumption DEF ImageInv, Tabled, Imaged, Steps

\* What a step of the builder may come to.
LEMMA BuilderComesTo ==
    ASSUME BuildInv, pc \in Steps, BuildNext
    PROVE  pc' \in Steps /\ (pc' = "ready" => Write)
<1>1. CASE Open
  <2>1. pc' \in {"failed", "hollow", "dirs"}
    BY <1>1 DEF Open, Return, get_title_id, GenerateFails
  <2> QED
    BY <2>1 DEF Steps
<1>2. CASE ScanDirs
  <2>1. pc' \in {"failed", "dirs", "files"}
    BY <1>2, Zenon DEF ScanDirs, Return, Advance
  <2> QED
    BY <2>1 DEF Steps
<1>3. CASE ScanFiles
  <2>1. pc' \in {"failed", "crashed", "files", "iso"}
    BY <1>3, FilesStep
  <2> QED
    BY <2>1 DEF Steps
<1>4. CASE \E fs \in FS : BuildContent(fs)
  <2>1. PICK fs \in FS : BuildContent(fs)
    BY <1>4
  <2>2. pc' \in {"failed", "iso", "joliet", "tables"}
    <3>1. pc = fs /\ (pc' = "failed" \/ Advance(dirList', IF fs = "iso" THEN "joliet" ELSE "tables"))
      BY <2>1, ContentBuilt
    <3> QED
      BY <3>1, Zenon DEF Advance, FS
  <2> QED
    BY <2>2 DEF Steps
<1>5. CASE BuildPathTables
  <2>1. pc' \in {"failed", "fix"}
    BY <1>5, Zenon DEF BuildPathTables, Return
  <2> QED
    BY <2>1 DEF Steps
<1>6. CASE FixLba
  <2>1. pc' = "write"
    BY <1>6, FixLbaStep
  <2> QED
    BY <2>1 DEF Steps
<1>7. CASE Write
  BY <1>7 DEF Write, Return, Steps
<1> QED
  BY <1>1, <1>2, <1>3, <1>4, <1>5, <1>6, <1>7 DEF BuildNext

LEMMA ImageSame ==
    ASSUME BuildInv, BuildInv', ImageInv, UNCHANGED buildVars, reads' \in 0 .. MaxReads
    PROVE  ImageInv'
<1>1. UNCHANGED <<tree, pc, dirList, cur, filesSizeSectors, dirsSizeSectors, pathTable, fsBuf>>
  BY DEF buildVars
<1>2. Enlisted'
  BY <1>1 DEF ImageInv, Enlisted
<1>3. Recorded' /\ Imaged'
  BY <1>1, RecordedSame, ImagedSame DEF ImageInv
<1>4. Tabled'
  BY <1>1 DEF ImageInv, Tabled
<1> QED
  BY <1>1, <1>2, <1>3, <1>4 DEF ImageInv

LEMMA ImageKeeps ==
    ASSUME ReadInv, ReadInv', ImageInv, [Next]_vars
    PROVE  ImageInv'
<1>1. BuildInv /\ BuildInv' /\ Enlisted /\ Recorded /\ Tabled /\ Imaged /\ pc \in Steps /\ reads \in 0 .. MaxReads
  BY DEF ReadInv, ImageInv
<1>2. MaxReads \in Nat
  BY DumpAssumption
<1>3. CASE BuildNext /\ UNCHANGED readVars
  <2>1. Enlisted' /\ Recorded' /\ Tabled'
    BY <1>1, <1>3, BuildEnlists, BuildRecords, BuildTables
  <2>2. pc' \in Steps /\ (pc' = "ready" => Write)
    BY <1>1, <1>3, BuilderComesTo
  <2>3. Imaged'
    <3>1. CASE pc' = "ready"
      BY <1>1, <2>2, <3>1, WriteImages
    <3>2. CASE pc' # "ready"
      BY <3>2 DEF Imaged
    <3> QED
      BY <3>1, <3>2
  <2> QED
    BY <1>1, <1>3, <2>1, <2>2, <2>3 DEF ImageInv, readVars
<1>4. CASE Delete
  <2>1. tree' = tree /\ cur' = cur /\ dirList' = << >> /\ pc' = "deleted" /\ reads' = 0
    BY <1>4 DEF Delete, Reset
  <2>2. Enlisted'
    BY <1>1, <2>1, EnlistedEmpty DEF Building
  <2>3. Recorded'
    BY <2>1, RecordedGone
  <2> QED
    BY <1>2, <2>1, <2>2, <2>3 DEF ImageInv, Tabled, Imaged, Steps
<1>5. CASE Opened \/ Seek \/ ConsoleRead \/ ChangeFile \/ Dump \/ Over \/ UNCHANGED vars
  <2>1. UNCHANGED buildVars
    BY <1>5, Zenon DEF Opened, Seek, ConsoleRead, ChangeFile, Dump, Over, vars
  <2>2. reads' = reads \/ reads' = 0 \/ (reads' = reads + 1 /\ reads < MaxReads)
    BY <1>5, Zenon DEF Opened, Seek, ConsoleRead, ChangeFile, Dump, Over, vars, readVars
  <2>3. reads' \in 0 .. MaxReads
    BY <1>1, <1>2, <2>2
  <2> QED
    BY <1>1, <2>1, <2>3, ImageSame
<1> QED
  BY <1>3, <1>4, <1>5 DEF Next

LEMMA ImageInvariant == Spec => []ImageInv
<1>1. Init => ImageInv
  BY ImageInitially
<1>2. ReadInv /\ ReadInv' /\ ImageInv /\ [Next]_vars => ImageInv'
  BY ImageKeeps
<1> QED
  BY <1>1, <1>2, ReadInvariant, PTL DEF Spec

\* The types of VIsoTypeOK; in particular nobody is handed an object without
\* an image, even though open() may succeed without one: fstat() fails then
\* (open(), generate(), process_open_cmd()).
THEOREM VIsoTypesAreRight == Spec => []VIsoTypeOK
<1>1. ReadInv /\ ImageInv => VIsoTypeOK
  <2> SUFFICES ASSUME ReadInv, ImageInv PROVE VIsoTypeOK
    OBVIOUS
  <2>1. /\ use \in {"serving", "dumping", "dumped", "opening", "over"}
        /\ use \in {"serving", "dumping", "dumped"} => pc = "ready"
        /\ vFilePtr \in Int /\ fds \in {0, 1}
    BY DEF ReadInv, Kept, InUse, OneDescriptor
  <2>2. pc = "ready" => fsBuf \in Images
    BY DEF ImageInv, Imaged, ImageIs
  <2>3. filesSizeSectors \in Nat /\ dirsSizeSectors \in [FS -> Nat]
    BY DEF ReadInv, BuildInv, Counted
  <2>4. cur \in 0 .. Len(tree.dirs) /\ pc \in Steps /\ reads \in 0 .. MaxReads
    BY DEF ImageInv, Enlisted
  <2> QED
    BY <2>1, <2>2, <2>3, <2>4 DEF VIsoTypeOK, Steps
<1> QED
  BY <1>1, ReadInvariant, ImageInvariant, PTL

-----------------------------------------------------------------------------
(* Where the areas of an image are *)

LEMMA WholeSectors ==
    ASSUME NEW m \in Nat
    PROVE  bytesToSectors(m * SECTOR_SIZE) = m /\ (m * SECTOR_SIZE) % SECTOR_SIZE = 0
<1> DEFINE s == SECTOR_SIZE
<1>1. s \in Nat \ {0} /\ s - 1 \in 0 .. s - 1 /\ 0 \in 0 .. s - 1
  BY SectorAssumption
<1> HIDE DEF s
<1>2. (s * m + (s - 1)) \div s = m /\ (s * m + 0) % s = 0
  BY <1>1, Quotient
<1>3. s * m = m * s /\ m * s \in Nat /\ m * s + s - 1 = s * m + (s - 1) /\ s * m + 0 = m * s
  BY <1>1
<1> QED
  BY <1>2, <1>3 DEF bytesToSectors, s

\* Areas of whole sectors, one behind the other from sector `base` on.
IsRun(A, o, n, base, len) ==
    /\ A[o].at + A[o].len = base * SECTOR_SIZE
    /\ \A d \in 1 .. n : /\ len[d] \in Nat /\ A[o + d].len = len[d] * SECTOR_SIZE
                         /\ A[o + d].at = A[o + d - 1].at + A[o + d - 1].len
RunAt(A, o, n, base, f) ==
    /\ \A d \in 1 .. n : A[o + d].at = (base + f[d - 1]) * SECTOR_SIZE
    /\ A[o + n].at + A[o + n].len = (base + f[n]) * SECTOR_SIZE

LEMMA RunOfAreas ==
    ASSUME NEW A, NEW o \in Nat, NEW n \in Nat, NEW base \in Nat, NEW f, NEW len, IsSum(f, n, 0, len),
           IsRun(A, o, n, base, len)
    PROVE  RunAt(A, o, n, base, f)
<1> DEFINE S == SECTOR_SIZE
           E(d) == A[o + d].at + A[o + d].len
           C == {d \in Nat : d <= n => E(d) = (base + f[d]) * S}
<1>0. S \in Nat
  BY SectorAssumption
<1>a. /\ A[o].at + A[o].len = base * S
      /\ \A d \in 1 .. n : /\ len[d] \in Nat /\ A[o + d].len = len[d] * S
                           /\ A[o + d].at = A[o + d - 1].at + A[o + d - 1].len
  BY DEF IsRun
<1>1. f[0] = 0 /\ \A d \in 0 .. n : f[d] \in Nat
  BY DEF IsSum
<1>2. 0 \in C
  BY <1>1, <1>a
<1>3. ASSUME NEW d \in Nat, d \in C PROVE d + 1 \in C
  <2> SUFFICES ASSUME d + 1 <= n PROVE E(d + 1) = (base + f[d + 1]) * S
    OBVIOUS
  <2>1. d + 1 \in 1 .. n /\ d \in 0 .. n /\ d <= n /\ (d + 1) - 1 = d /\ o + (d + 1) - 1 = o + d
    OBVIOUS
  <2>2. E(d) = (base + f[d]) * S
    BY <1>3, <2>1
  <2>3. A[o + (d + 1)].len = len[d + 1] * S /\ A[o + (d + 1)].at = E(d)
    BY <1>a, <2>1
  <2>4. f[d + 1] = f[d] + len[d + 1] /\ f[d] \in Nat /\ len[d + 1] \in Nat
    BY <1>1, <1>a, <2>1 DEF IsSum
  <2>5. (base + f[d]) * S + len[d + 1] * S = (base + f[d + 1]) * S
    <3>1. base + f[d] \in Nat /\ base + f[d + 1] = (base + f[d]) + len[d + 1]
      BY <2>4
    <3> QED
      BY <1>0, <2>4, <3>1, Times
  <2> HIDE DEF C, S
  <2> QED
    BY <2>2, <2>3, <2>5
<1>4. \A d \in Nat : d \in C
  <2> HIDE DEF C
  <2> QED
    BY <1>2, <1>3, SetInduction
<1>5. \A d \in 0 .. n : E(d) = (base + f[d]) * S
  BY <1>4
<1>6. ASSUME NEW d \in 1 .. n PROVE A[o + d].at = (base + f[d - 1]) * S
  <2>1. d - 1 \in 0 .. n /\ o + (d - 1) = o + d - 1
    OBVIOUS
  <2>2. E(d - 1) = (base + f[d - 1]) * S
    BY <1>5, <2>1
  <2>3. A[o + d].at = A[o + d - 1].at + A[o + d - 1].len
    BY <1>a
  <2> QED
    BY <2>1, <2>2, <2>3
<1>7. n \in 0 .. n
  OBVIOUS
<1> QED
  BY <1>5, <1>6, <1>7 DEF RunAt

\* The area of a directory, and that of a path table.
DirArea(n, fs, d) == IF fs = "iso" THEN 5 + d ELSE 5 + n + d
SizesAs(L, fs, len) == \A d \in 1 .. Len(L) : len[d] \in Nat /\ L[d].size[fs] = len[d] * SECTOR_SIZE

AreasAt(A, n, a, b, f, g) ==
    /\ A[2].at = HEADER_SECTORS * SECTOR_SIZE /\ A[3].at = (HEADER_SECTORS + a) * SECTOR_SIZE
    /\ A[4].at = (HEADER_SECTORS + 2 * a) * SECTOR_SIZE /\ A[5].at = (HEADER_SECTORS + 2 * a + b) * SECTOR_SIZE
    /\ \A d \in 1 .. n : A[5 + d].at = (HEADER_SECTORS + 2 * a + 2 * b + f[d - 1]) * SECTOR_SIZE
    /\ \A d \in 1 .. n : A[5 + n + d].at = (HEADER_SECTORS + 2 * a + 2 * b + f[n] + g[d - 1]) * SECTOR_SIZE
    /\ A[Len(A)].at + A[Len(A)].len = (HEADER_SECTORS + 2 * a + 2 * b + f[n] + g[n]) * SECTOR_SIZE

LEMMA AreasPlaced ==
    ASSUME NEW A, NEW L, Len(L) \in Nat, NEW a \in Nat, NEW b \in Nat, AreasAre(A, L, a, b),
           NEW f, NEW g, NEW x, NEW y, IsSum(f, Len(L), 0, x), IsSum(g, Len(L), 0, y),
           SizesAs(L, "iso", x), SizesAs(L, "joliet", y)
    PROVE  AreasAt(A, Len(L), a, b, f, g)
<1> DEFINE n == Len(L)
           S == SECTOR_SIZE
           h == HEADER_SECTORS
           base == h + 2 * a + 2 * b
<1>0. S \in Nat /\ n \in Nat /\ h \in Nat /\ base \in Nat /\ h + a \in Nat /\ h + 2 * a \in Nat /\ h + 2 * a + b \in Nat
  BY SectorAssumption DEF HEADER_SECTORS
<1>1. \A i \in 2 .. 5 + 2 * n : A[i].at = A[i - 1].at + A[i - 1].len
  <2> SUFFICES ASSUME NEW i \in 2 .. 5 + 2 * n PROVE A[i].at = A[i - 1].at + A[i - 1].len
    OBVIOUS
  <2>1. i \in 1 .. Len(A) /\ i # 1
    BY <1>0 DEF AreasAre
  <2> QED
    BY <2>1 DEF AreasAre
<1>2. A[1].at = 0
  <2>1. 1 \in 1 .. Len(A)
    BY <1>0 DEF AreasAre
  <2> QED
    BY <2>1 DEF AreasAre
<1>3. /\ A[1].len = h * S /\ A[2].len = a * S /\ A[3].len = a * S /\ A[4].len = b * S /\ A[5].len = b * S
      /\ \A d \in 1 .. n : A[5 + d].len = L[d].size["iso"] /\ A[5 + n + d].len = L[d].size["joliet"]
  BY DEF AreasAre, IsArea
<1>4. \A d \in 1 .. n : /\ x[d] \in Nat /\ L[d].size["iso"] = x[d] * S
                        /\ y[d] \in Nat /\ L[d].size["joliet"] = y[d] * S
  BY DEF SizesAs
<1>5. Len(A) = 5 + n + n
  BY <1>0 DEF AreasAre
<1> HIDE DEF n, S, h
<1>6. /\ A[2].at = A[1].at + A[1].len /\ A[3].at = A[2].at + A[2].len /\ A[4].at = A[3].at + A[3].len
      /\ A[5].at = A[4].at + A[4].len
  <2>1. 2 \in 2 .. 5 + 2 * n /\ 3 \in 2 .. 5 + 2 * n /\ 4 \in 2 .. 5 + 2 * n /\ 5 \in 2 .. 5 + 2 * n
    BY <1>0
  <2>2. 2 - 1 = 1 /\ 3 - 1 = 2 /\ 4 - 1 = 3 /\ 5 - 1 = 4
    OBVIOUS
  <2> QED
    BY <1>1, <2>1, <2>2
<1>7. h * S \in Nat /\ a * S \in Nat /\ b * S \in Nat
  BY <1>0, Times
<1>8. A[2].at = h * S
  BY <1>2, <1>3, <1>6, <1>7
<1>9. A[3].at = (h + a) * S
  BY <1>0, <1>3, <1>6, <1>8, Times
<1>10. A[4].at = (h + 2 * a) * S
  <2>1. (h + a) + a = h + 2 * a
    BY <1>0
  <2>2. ((h + a) + a) * S = (h + a) * S + a * S
    BY <1>0, Times
  <2> QED
    BY <1>3, <1>6, <1>9, <2>1, <2>2
<1>11. A[5].at = (h + 2 * a + b) * S
  BY <1>0, <1>3, <1>6, <1>10, Times
<1>12. A[5].at + A[5].len = base * S
  <2>1. (h + 2 * a + b) + b = base
    BY <1>0
  <2>2. ((h + 2 * a + b) + b) * S = (h + 2 * a + b) * S + b * S
    BY <1>0, Times
  <2> QED
    BY <1>3, <1>11, <2>1, <2>2
<1> HIDE DEF base
<1>13. RunAt(A, 5, n, base, f)
  <2>1. ASSUME NEW d \in 1 .. n
        PROVE  A[5 + d].len = x[d] * S /\ A[5 + d].at = A[5 + d - 1].at + A[5 + d - 1].len /\ x[d] \in Nat
    <3>1. 5 + d \in 2 .. 5 + 2 * n
      BY <1>0
    <3> QED
      BY <1>1, <1>3, <1>4, <3>1
  <2>2. IsRun(A, 5, n, base, x)
    BY <1>12, <2>1 DEF IsRun, S
  <2> QED
    BY <1>0, <2>2, RunOfAreas DEF n
<1>14. f[n] \in Nat /\ base + f[n] \in Nat
  BY <1>0 DEF IsSum, n
<1>15. RunAt(A, 5 + n, n, base + f[n], g)
  <2>1. ASSUME NEW d \in 1 .. n
        PROVE  A[5 + n + d].len = y[d] * S /\ A[5 + n + d].at = A[5 + n + d - 1].at + A[5 + n + d - 1].len /\ y[d] \in Nat
    <3>1. PICK i \in 2 .. 5 + 2 * n : i = 5 + n + d
      BY <1>0
    <3>2. A[i].at = A[i - 1].at + A[i - 1].len
      BY <1>1
    <3>3. A[5 + n + d].at = A[5 + n + d - 1].at + A[5 + n + d - 1].len
      <4>1. i - 1 = 5 + n + d - 1
        BY <1>0, <3>1
      <4> QED
        BY <3>1, <3>2, <4>1, Zenon
    <3> QED
      BY <1>3, <1>4, <3>3
  <2>2. A[5 + n].at + A[5 + n].len = (base + f[n]) * S
    BY <1>13 DEF RunAt, S
  <2>3. IsRun(A, 5 + n, n, base + f[n], y)
    BY <2>1, <2>2 DEF IsRun, S
  <2>4. 5 + n \in Nat
    BY <1>0
  <2> QED
    BY <1>0, <1>14, <2>3, <2>4, RunOfAreas DEF n
<1> QED
  BY <1>5, <1>8, <1>9, <1>10, <1>11, <1>13, <1>15, Zenon DEF AreasAt, RunAt, n, S, h, base

\* The sizes of directories, in sectors.
LEMMA DirSectors ==
    ASSUME Linked, NEW fs \in FS, NEW V, Viewed(V, dirList, fs, Len(dirList)), Laid(V, tree, fs, Len(dirList))
    PROVE  SizesAs(dirList, fs, SectorsOf(V))
<1> DEFINE n == Len(dirList)
<1>1. n \in Nat /\ Len(V) = n /\ V \in [1 .. Len(V) -> ViewSet] /\ n \in 0 .. Len(V)
  BY DirTyped DEF Viewed
<1> SUFFICES ASSUME NEW d \in 1 .. n
             PROVE  SectorsOf(V)[d] \in Nat /\ dirList[d].size[fs] = SectorsOf(V)[d] * SECTOR_SIZE
  BY DEF SizesAs
<1>2. SectorsOf(V)[d] = bytesToSectors(V[d].size) /\ V[d].size = dirList[d].size[fs]
  BY <1>1 DEF SectorsOf, Viewed
<1>3. V[d].size = RoundUp(RecsEnd(V[d].recs)) /\ LaidOut(V, tree, fs, d)
  BY <1>1, LaidIs DEF Laid
<1> DEFINE R == V[d].recs
           e == RecsEnd(R)
<1>4. e \in Nat
  <2> DEFINE f == Len(FileRecs(fs, V[d].files))
             c == Len(V[d].children)
  <2>1. R \in Seq(RecSet) /\ f \in Nat /\ c \in Nat /\ Len(R) = 2 + f + c
    BY <1>3, Zenon DEF LaidOut
  <2> HIDE DEF R, f, c
  <2>2. R[Len(R)] \in RecSet
    BY <2>1
  <2>3. R[Len(R)].pos \in Nat /\ R[Len(R)].len \in 0 .. 255
    BY <2>2 DEF RecSet
  <2>4. \A x \in 0 .. 255 : x \in Nat
    OBVIOUS
  <2> DEFINE p == R[Len(R)].pos
             l == R[Len(R)].len
  <2> HIDE DEF p, l
  <2>5. p \in Nat /\ l \in Nat
    BY <2>3, <2>4 DEF p, l
  <2>6. e = p + l
    BY DEF RecsEnd, p, l
  <2> QED
    BY <2>5, <2>6
<1> HIDE DEF e
<1>5. bytesToSectors(e) \in Nat
  BY <1>4, Sectors
<1>6. RoundUp(e) = bytesToSectors(e) * SECTOR_SIZE
  BY DEF RoundUp
<1>7. bytesToSectors(RoundUp(e)) = bytesToSectors(e)
  BY <1>5, <1>6, WholeSectors
<1> QED
  BY <1>2, <1>3, <1>5, <1>6, <1>7 DEF e

\* What the records . and .. of a directory say, in an image.
Dots(L, fs, b, f) ==
    \A k \in 1 .. Len(L) :
        LET R == L[k].content[fs]
            p == L[k].parent
        IN  /\ R[1].start = b + f[k - 1] /\ R[1].length = L[k].size[fs]
            /\ R[2].start = b + f[p - 1] /\ R[2].length = L[p].size[fs]

LEMMA DotsAre ==
    ASSUME Linked, NEW fs \in FS, NEW b, NEW fb, NEW total,
           Known(View(dirList, fs), tree, fs, Len(dirList), b, fb, total)
    PROVE  \E f, len : /\ IsSum(f, Len(dirList), 0, len) /\ SizesAs(dirList, fs, len)
                       /\ total = f[Len(dirList)] /\ Dots(dirList, fs, b, f)
<1> DEFINE n == Len(dirList)
           V == View(dirList, fs)
<1>1. Viewed(V, dirList, fs, n) /\ n \in Nat
  BY ListShown
<1>2. Laid(V, tree, fs, n) /\ Numbered(V, n, b, total)
  BY DEF Known
<1> HIDE DEF V
<1>3. SizesAs(dirList, fs, SectorsOf(V))
  BY <1>1, <1>2, DirSectors
<1>4. PICK f : /\ IsSum(f, n, 0, SectorsOf(V)) /\ total = f[n]
               /\ \A k \in 1 .. n :
                     /\ V[k].recs[1].start = b + f[k - 1] /\ V[k].recs[1].length = V[k].size
                     /\ V[k].recs[2].start = b + f[V[k].parent - 1] /\ V[k].recs[2].length = V[V[k].parent].size
  BY <1>2 DEF Numbered
<1>5. Dots(dirList, fs, b, f)
  <2> SUFFICES ASSUME NEW k \in 1 .. n
               PROVE  LET R == dirList[k].content[fs]
                          p == dirList[k].parent
                      IN  /\ R[1].start = b + f[k - 1] /\ R[1].length = dirList[k].size[fs]
                          /\ R[2].start = b + f[p - 1] /\ R[2].length = dirList[p].size[fs]
    BY DEF Dots
  <2>1. dirList[k].parent \in 1 .. n
    BY <1>1 DEF Linked
  <2>2. V[k].recs = dirList[k].content[fs] /\ V[k].parent = dirList[k].parent /\ V[k].size = dirList[k].size[fs]
    BY <1>1 DEF Viewed
  <2>3. V[V[k].parent].size = dirList[dirList[k].parent].size[fs]
    BY <1>1, <2>1, <2>2 DEF Viewed
  <2> QED
    BY <1>4, <2>2, <2>3
<1> QED
  BY <1>3, <1>4, <1>5

\* An image, all in all.
Whole(f, g) ==
    /\ AreasAt(fsBuf.areas, Len(dirList), TableSectors("iso"), TableSectors("joliet"), f, g)
    /\ f \in [0 .. Len(dirList) -> Nat] /\ g \in [0 .. Len(dirList) -> Nat]
    /\ Dots(dirList, "iso", isoLba, f) /\ Dots(dirList, "joliet", isoLba + f[Len(dirList)], g)
    /\ filesLba = isoLba + f[Len(dirList)] + g[Len(dirList)]

LEMMA ImageWhole ==
    ASSUME BuildInv, ImageInv, pc = "ready"
    PROVE  \E f, g : Whole(f, g)
<1> DEFINE n == Len(dirList)
           a == TableSectors("iso")
           b == TableSectors("joliet")
<1>1. tree \in Trees /\ Linked /\ n \in Nat
  BY DirTyped DEF BuildInv
<1>2. a \in Nat /\ b \in Nat
  BY <1>1, TablesSized DEF FS
<1>3. AreasAre(fsBuf.areas, dirList, a, b)
  BY DEF ImageInv, Imaged, ImageIs
<1>4. /\ Known(View(dirList, "iso"), tree, "iso", n, dirLba("iso"), filesLba, dirsSizeSectors["iso"])
      /\ Known(View(dirList, "joliet"), tree, "joliet", n, dirLba("joliet"), filesLba, dirsSizeSectors["joliet"])
  BY DEF ImageInv, Recorded, RecordedIn, FS
<1>5. dirLba("iso") = isoLba /\ dirLba("joliet") = isoLba + dirsSizeSectors["iso"]
      /\ filesLba = isoLba + dirsSizeSectors["iso"] + dirsSizeSectors["joliet"]
  BY DEF dirLba, jolietLba, filesLba
<1>6. PICK f, x : /\ IsSum(f, n, 0, x) /\ SizesAs(dirList, "iso", x)
                  /\ dirsSizeSectors["iso"] = f[n] /\ Dots(dirList, "iso", dirLba("iso"), f)
  BY <1>1, <1>4, DotsAre DEF FS
<1>7. PICK g, y : /\ IsSum(g, n, 0, y) /\ SizesAs(dirList, "joliet", y)
                  /\ dirsSizeSectors["joliet"] = g[n] /\ Dots(dirList, "joliet", dirLba("joliet"), g)
  BY <1>1, <1>4, DotsAre DEF FS
<1>8. AreasAt(fsBuf.areas, n, a, b, f, g)
  BY <1>1, <1>2, <1>3, <1>6, <1>7, AreasPlaced
<1>9. f \in [0 .. n -> Nat] /\ g \in [0 .. n -> Nat]
  BY <1>6, <1>7 DEF IsSum
<1>10. Dots(dirList, "iso", isoLba, f)
  BY <1>5, <1>6
<1>11. Dots(dirList, "joliet", isoLba + f[n], g) /\ filesLba = isoLba + f[n] + g[n]
  BY <1>5, <1>6, <1>7
<1> QED
  BY <1>8, <1>9, <1>10, <1>11 DEF Whole

\* Where a directory is in the areas.
LEMMA AreaIs ==
    ASSUME NEW i \in 1 .. Len(fsBuf.areas), fsBuf.areas \in Seq(AreaSet), NEW what, NEW d,
           fsBuf.areas[i].what = what, fsBuf.areas[i].dir = d,
           \A j \in 1 .. Len(fsBuf.areas) : fsBuf.areas[j].what = what /\ fsBuf.areas[j].dir = d => j = i
    PROVE  AreaOf(what, d) = fsBuf.areas[i]
<1> DEFINE A == fsBuf.areas
<1>1. A \in Seq(AreaSet) /\ i \in 1 .. Len(A) /\ A[i].what = what /\ A[i].dir = d
      /\ \A j \in 1 .. Len(A) : A[j].what = what /\ A[j].dir = d => j = i
  OBVIOUS
<1>2. AreaOf(what, d) = CHOOSE x \in Range(A) : x.what = what /\ x.dir = d
  BY DEF AreaOf
<1> HIDE DEF A
<1>3. Range(A) = {A[j] : j \in 1 .. Len(A)}
  BY <1>1 DEF Range
<1>4. A[i] \in Range(A) /\ \A x \in Range(A) : x.what = what /\ x.dir = d => x = A[i]
  BY <1>1, <1>3
<1> QED
  BY <1>1, <1>2, <1>4 DEF A

LEMMA AreasFound ==
    ASSUME NEW L, Len(L) \in Nat, NEW a, NEW b, AreasAre(fsBuf.areas, L, a, b)
    PROVE  /\ AreaOf("pathTableL", 0) = fsBuf.areas[2] /\ AreaOf("pathTableM", 0) = fsBuf.areas[3]
           /\ AreaOf("pathTableJolietL", 0) = fsBuf.areas[4] /\ AreaOf("pathTableJolietM", 0) = fsBuf.areas[5]
           /\ \A fs \in FS, d \in 1 .. Len(L) : AreaOf(fs, d) = fsBuf.areas[DirArea(Len(L), fs, d)]
<1> DEFINE A == fsBuf.areas
           n == Len(L)
<1>1. /\ A \in Seq(AreaSet) /\ Len(A) = 5 + 2 * n /\ n \in Nat
      /\ A[1].what = "header" /\ A[1].dir = 0 /\ A[2].what = "pathTableL" /\ A[2].dir = 0
      /\ A[3].what = "pathTableM" /\ A[3].dir = 0
      /\ A[4].what = "pathTableJolietL" /\ A[4].dir = 0 /\ A[5].what = "pathTableJolietM" /\ A[5].dir = 0
  BY DEF AreasAre, IsArea
<1>2. \A d \in 1 .. n : /\ A[5 + d].what = "iso" /\ A[5 + d].dir = d
                        /\ A[5 + n + d].what = "joliet" /\ A[5 + n + d].dir = d
  BY DEF AreasAre, IsArea
<1>3. \A j \in 1 .. 5 + 2 * n : \/ j \in {1, 2, 3, 4, 5} \/ \E d \in 1 .. n : j = 5 + d
                                \/ \E d \in 1 .. n : j = 5 + n + d
  <2> SUFFICES ASSUME NEW j \in 1 .. 5 + 2 * n
               PROVE  \/ j \in {1, 2, 3, 4, 5} \/ \E d \in 1 .. n : j = 5 + d
                      \/ \E d \in 1 .. n : j = 5 + n + d
    OBVIOUS
  <2> HIDE DEF n
  <2>1. CASE j <= 5
    BY <1>1, <2>1
  <2>2. CASE 5 < j /\ j <= 5 + n
    <3>1. j - 5 \in 1 .. n /\ j = 5 + (j - 5)
      BY <1>1, <2>2
    <3> QED
      BY <3>1
  <2>3. CASE 5 + n < j
    <3>1. j - 5 - n \in 1 .. n /\ j = 5 + n + (j - 5 - n)
      BY <1>1, <2>3
    <3> QED
      BY <3>1
  <2> QED
    BY <1>1, <2>1, <2>2, <2>3
<1> HIDE DEF n, A
<1>4. ASSUME NEW i \in 2 .. 5, NEW what, A[i].what = what, A[i].dir = 0
      PROVE  AreaOf(what, 0) = A[i]
  <2>1. i \in 1 .. Len(A)
    BY <1>1
  <2>2. ASSUME NEW j \in 1 .. Len(A), A[j].what = what, A[j].dir = 0 PROVE j = i
    <3>1. j \in {1, 2, 3, 4, 5} \/ A[j].dir \in 1 .. n
      <4>1. j \in 1 .. 5 + 2 * n
        BY <1>1
      <4> QED
        <5>1. CASE \E d \in 1 .. n : j = 5 + d
          BY <1>2, <5>1
        <5>2. CASE \E d \in 1 .. n : j = 5 + n + d
          BY <1>2, <5>2
        <5> QED
          BY <1>3, <4>1, <5>1, <5>2, Zenon
    <3>2. j \in {1, 2, 3, 4, 5}
      BY <2>2, <3>1
    <3> QED
      <4>1. i \in {2, 3, 4, 5}
        OBVIOUS
      <4> QED
        BY <1>1, <1>4, <2>2, <3>2, <4>1
  <2> QED
    <3>1. \A j \in 1 .. Len(A) : A[j].what = what /\ A[j].dir = 0 => j = i
      BY <2>2
    <3>2. AreaOf(what, 0) = fsBuf.areas[i]
      BY <1>1, <1>4, <2>1, <3>1, AreaIs, SMTT(90) DEF A
    <3> QED
      BY <3>2 DEF A
<1>5. ASSUME NEW d \in 1 .. n PROVE AreaOf("iso", d) = A[5 + d]
  <2>1. 5 + d \in 1 .. Len(A)
    BY <1>1
  <2>2. ASSUME NEW j \in 1 .. Len(A), A[j].what = "iso", A[j].dir = d PROVE j = 5 + d
    <3>1. j \notin {1, 2, 3, 4, 5} /\ ~ \E e \in 1 .. n : j = 5 + n + e
      BY <1>1, <1>2, <2>2
    <3>2. PICK e \in 1 .. n : j = 5 + e
      BY <1>1, <1>3, <3>1
    <3>3. A[j].dir = e
      BY <1>2, <3>2
    <3> QED
      BY <2>2, <3>2, <3>3
  <2>3. A[5 + d].what = "iso" /\ A[5 + d].dir = d
    BY <1>2
  <2> QED
    BY <1>1, <2>1, <2>2, <2>3, AreaIs DEF A
<1>6. ASSUME NEW d \in 1 .. n PROVE AreaOf("joliet", d) = A[5 + n + d]
  <2>1. 5 + n + d \in 1 .. Len(A)
    BY <1>1
  <2>2. ASSUME NEW j \in 1 .. Len(A), A[j].what = "joliet", A[j].dir = d PROVE j = 5 + n + d
    <3>1. j \notin {1, 2, 3, 4, 5} /\ ~ \E e \in 1 .. n : j = 5 + e
      BY <1>1, <1>2, <2>2
    <3>2. PICK e \in 1 .. n : j = 5 + n + e
      BY <1>1, <1>3, <3>1
    <3>3. A[j].dir = e
      BY <1>2, <3>2
    <3> QED
      BY <2>2, <3>2, <3>3
  <2>3. A[5 + n + d].what = "joliet" /\ A[5 + n + d].dir = d
    BY <1>2
  <2> QED
    BY <1>1, <2>1, <2>2, <2>3, AreaIs DEF A
<1>7. \A fs \in FS, d \in 1 .. n : AreaOf(fs, d) = A[DirArea(n, fs, d)]
  BY <1>5, <1>6 DEF FS, DirArea
<1>8. /\ AreaOf("pathTableL", 0) = A[2] /\ AreaOf("pathTableM", 0) = A[3]
      /\ AreaOf("pathTableJolietL", 0) = A[4] /\ AreaOf("pathTableJolietM", 0) = A[5]
  BY <1>1, <1>4
<1> QED
  BY <1>7, <1>8, Zenon DEF n, A

\* No record of an image lies across a sector boundary.
LEMMA RecordsInSectors ==
    ASSUME BuildInv, ImageInv, pc = "ready", NEW fs \in FS, NEW d \in 1 .. Len(dirList),
           NEW i \in 1 .. Len(dirList[d].content[fs])
    PROVE  LET r == dirList[d].content[fs][i]
           IN  r.pos \div SECTOR_SIZE = (r.pos + r.len - 1) \div SECTOR_SIZE
<1> DEFINE R == dirList[d].content[fs]
           p == R[i].pos
           l == R[i].len
           S == SECTOR_SIZE
<1>1. Known(View(dirList, fs), tree, fs, Len(dirList), dirLba(fs), filesLba, dirsSizeSectors[fs]) /\ Linked
  BY DEF ImageInv, Recorded, RecordedIn, BuildInv
<1>2. R \in Seq(RecSet) /\ InPlace(R) /\ Len(R) \in Nat
  BY <1>1, FirstIs
<1>3. PICK q \in 0 .. i - 1 : In(p + l, q) /\ p \div S = q
  BY <1>2 DEF InPlace
<1>4. q \in Nat
  BY <1>2
<1> HIDE DEF p, l
<1>5. p + l \in Nat /\ (p + l - 1) \div S = q
  <2>1. PICK e : e = p + l
    OBVIOUS
  <2>2. e \in Nat /\ (e - 1) \div S = q
    BY <1>3, <1>4, <2>1, InSector
  <2>3. p \in Nat /\ l \in Int
    <3>1. R[i] \in RecSet
      BY <1>2
    <3>2. R[i].pos \in Nat /\ R[i].len \in 0 .. 255
      BY <3>1 DEF RecSet
    <3>3. \A x \in 0 .. 255 : x \in Int
      OBVIOUS
    <3> QED
      BY <3>2, <3>3 DEF p, l
  <2>4. e - 1 = p + l - 1
    BY <2>1, <2>3
  <2> QED
    BY <2>1, <2>2, <2>4
<1> QED
  BY <1>3, <1>5 DEF p, l

LEMMA AreasOfSectors ==
    ASSUME BuildInv, ImageInv, pc = "ready", NEW i \in 1 .. Len(fsBuf.areas)
    PROVE  fsBuf.areas[i].at % SECTOR_SIZE = 0 /\ fsBuf.areas[i].len % SECTOR_SIZE = 0
<1> DEFINE A == fsBuf.areas
           n == Len(dirList)
           a == TableSectors("iso")
           b == TableSectors("joliet")
           S == SECTOR_SIZE
           h == HEADER_SECTORS
<1>1. tree \in Trees /\ Linked /\ n \in Nat /\ S \in Nat /\ h \in Nat
  BY DirTyped, SectorAssumption DEF BuildInv, HEADER_SECTORS
<1>2. a \in Nat /\ b \in Nat
  BY <1>1, TablesSized DEF FS
<1>3. AreasAre(A, dirList, a, b)
  BY DEF ImageInv, Imaged, ImageIs
<1>4. PICK f, g : Whole(f, g)
  BY ImageWhole
<1>5. AreasAt(A, n, a, b, f, g) /\ f \in [0 .. n -> Nat] /\ g \in [0 .. n -> Nat]
  BY <1>4 DEF Whole
<1> DEFINE Some(x) == \E m \in Nat : x = m * S
<1>6. ASSUME NEW x, Some(x) PROVE x % S = 0
  BY <1>6, WholeSectors
<1>7. ASSUME NEW fs \in FS, NEW d \in 1 .. n PROVE Some(dirList[d].size[fs])
  <2>1. Known(View(dirList, fs), tree, fs, n, dirLba(fs), filesLba, dirsSizeSectors[fs])
    BY DEF ImageInv, Recorded, RecordedIn
  <2>2. PICK len : SizesAs(dirList, fs, len)
    BY <1>1, <2>1, DotsAre
  <2> QED
    BY <2>2 DEF SizesAs
<1>a. ASSUME NEW m \in Nat PROVE Some(m * S)
  OBVIOUS
<1> HIDE DEF A, n, a, b, S, h, Some
<1>8. CASE i \in {1, 2, 3, 4, 5}
  <2>1. /\ A[1].at = 0 /\ A[1].len = h * S /\ A[2].len = a * S /\ A[3].len = a * S
        /\ A[4].len = b * S /\ A[5].len = b * S
    <3>1. 1 \in 1 .. Len(A)
      BY <1>1, <1>3 DEF AreasAre, n
    <3> QED
      BY <1>3, <3>1 DEF AreasAre, IsArea, S, h
  <2>2. A[2].at = h * S /\ A[3].at = (h + a) * S /\ A[4].at = (h + 2 * a) * S /\ A[5].at = (h + 2 * a + b) * S
    BY <1>5 DEF AreasAt, S, h
  <2>3. h + a \in Nat /\ h + 2 * a \in Nat /\ h + 2 * a + b \in Nat
    BY <1>1, <1>2
  <2>4. 0 = 0 * S
    BY <1>1
  <2>5. Some(0) /\ Some(h * S) /\ Some(a * S) /\ Some(b * S) /\ Some((h + a) * S) /\ Some((h + 2 * a) * S)
        /\ Some((h + 2 * a + b) * S)
    BY <1>1, <1>2, <1>a, <2>3, <2>4
  <2>6. Some(A[i].at) /\ Some(A[i].len)
    BY <1>8, <2>1, <2>2, <2>5
  <2> QED
    BY <1>6, <2>6 DEF A, S
<1>9. CASE \E d \in 1 .. n : i = 5 + d
  <2>1. PICK d \in 1 .. n : i = 5 + d
    BY <1>9
  <2>2. A[i].len = dirList[d].size["iso"]
    BY <1>3, <2>1 DEF AreasAre, IsArea, n
  <2>3. A[i].at = (h + 2 * a + 2 * b + f[d - 1]) * S
    BY <1>5, <2>1 DEF AreasAt, S, h
  <2>4. h + 2 * a + 2 * b + f[d - 1] \in Nat
    <3>1. d - 1 \in 0 .. n
      BY <1>1
    <3> QED
      BY <1>1, <1>2, <1>5, <3>1
  <2>5. Some(A[i].at)
    BY <1>a, <2>3, <2>4
  <2>6. Some(A[i].len)
    BY <1>7, <2>2 DEF FS
  <2> QED
    BY <1>6, <2>5, <2>6 DEF A, S
<1>10. CASE \E d \in 1 .. n : i = 5 + n + d
  <2>1. PICK d \in 1 .. n : i = 5 + n + d
    BY <1>10
  <2>2. A[i].len = dirList[d].size["joliet"]
    BY <1>3, <2>1 DEF AreasAre, IsArea, n
  <2>3. A[i].at = (h + 2 * a + 2 * b + f[n] + g[d - 1]) * S
    BY <1>5, <2>1 DEF AreasAt, S, h
  <2>4. h + 2 * a + 2 * b + f[n] + g[d - 1] \in Nat
    <3>1. d - 1 \in 0 .. n /\ n \in 0 .. n
      BY <1>1
    <3> QED
      BY <1>1, <1>2, <1>5, <3>1
  <2>5. Some(A[i].at)
    BY <1>a, <2>3, <2>4
  <2>6. Some(A[i].len)
    BY <1>7, <2>2 DEF FS
  <2> QED
    BY <1>6, <2>5, <2>6 DEF A, S
<1>11. i \in 1 .. 5 + 2 * n
  BY <1>3 DEF AreasAre, A, n
<1> QED
  <2>1. CASE i <= 5
    BY <1>8, <1>11, <2>1
  <2>2. CASE 5 < i /\ i <= 5 + n
    <3>1. i - 5 \in 1 .. n /\ i = 5 + (i - 5)
      BY <1>1, <1>11, <2>2
    <3> QED
      BY <1>9, <3>1
  <2>3. CASE 5 + n < i
    <3>1. i - 5 - n \in 1 .. n /\ i = 5 + n + (i - 5 - n)
      BY <1>1, <1>11, <2>3
    <3> QED
      BY <1>10, <3>1
  <2> QED
    BY <1>1, <1>11, <2>1, <2>2, <2>3

\* What write() copies fills fsBuf, and the path tables are where the volume
\* descriptors say.
LEMMA BufferFilled ==
    ASSUME BuildInv, ImageInv, pc = "ready"
    PROVE  /\ Last(fsBuf.areas).at + Last(fsBuf.areas).len = fsBuf.fsBufSize
           /\ AreaOf("pathTableL", 0).at = fsBuf.pvd["iso"].pathTableL * SECTOR_SIZE
           /\ AreaOf("pathTableM", 0).at = fsBuf.pvd["iso"].pathTableM * SECTOR_SIZE
           /\ AreaOf("pathTableJolietL", 0).at = fsBuf.pvd["joliet"].pathTableL * SECTOR_SIZE
           /\ AreaOf("pathTableJolietM", 0).at = fsBuf.pvd["joliet"].pathTableM * SECTOR_SIZE
<1> DEFINE A == fsBuf.areas
           n == Len(dirList)
           a == TableSectors("iso")
           b == TableSectors("joliet")
<1>1. tree \in Trees /\ Linked /\ n \in Nat
  BY DirTyped DEF BuildInv
<1>2. /\ AreasAre(A, dirList, a, b) /\ PvdsAre(fsBuf.pvd, dirList, a, b)
      /\ SizesAre(fsBuf, filesLba, filesSizeSectors)
  BY DEF ImageInv, Imaged, ImageIs
<1>3. PICK f, g : Whole(f, g)
  BY ImageWhole
<1>4. AreasAt(A, n, a, b, f, g) /\ filesLba = isoLba + f[n] + g[n]
  BY <1>3 DEF Whole
<1>5. isoLba = HEADER_SECTORS + 2 * a + 2 * b
  BY DEF isoLba
<1>6. Last(A) = A[Len(A)]
  BY DEF Last
<1>7. /\ AreaOf("pathTableL", 0) = A[2] /\ AreaOf("pathTableM", 0) = A[3]
      /\ AreaOf("pathTableJolietL", 0) = A[4] /\ AreaOf("pathTableJolietM", 0) = A[5]
  BY <1>1, <1>2, AreasFound
<1> HIDE DEF a, b
<1>8. A[Len(A)].at + A[Len(A)].len = fsBuf.fsBufSize
  <2>1. fsBuf.fsBufSize = filesLba * SECTOR_SIZE
    BY <1>2 DEF SizesAre
  <2>2. A[Len(A)].at + A[Len(A)].len = (HEADER_SECTORS + 2 * a + 2 * b + f[n] + g[n]) * SECTOR_SIZE
    BY <1>4 DEF AreasAt
  <2> QED
    BY <1>4, <1>5, <2>1, <2>2, Zenon
<1> QED
  <2>1. /\ fsBuf.pvd["iso"].pathTableL = HEADER_SECTORS /\ fsBuf.pvd["iso"].pathTableM = HEADER_SECTORS + a
        /\ fsBuf.pvd["joliet"].pathTableL = HEADER_SECTORS + 2 * a
        /\ fsBuf.pvd["joliet"].pathTableM = HEADER_SECTORS + 2 * a + b
    BY <1>2 DEF PvdsAre
  <2>2. /\ A[2].at = HEADER_SECTORS * SECTOR_SIZE /\ A[3].at = (HEADER_SECTORS + a) * SECTOR_SIZE
        /\ A[4].at = (HEADER_SECTORS + 2 * a) * SECTOR_SIZE
        /\ A[5].at = (HEADER_SECTORS + 2 * a + b) * SECTOR_SIZE
    BY <1>4 DEF AreasAt
  <2> QED
    BY <1>6, <1>7, <1>8, <2>1, <2>2

\* The files follow without overlap, up to the padding.
LEMMA FilesFit ==
    ASSUME BuildInv, ImageInv, pc = "ready", NEW i \in 1 .. Len(Files)
    PROVE  Files[i].rlba + bytesToSectors(Files[i].size) <=
               IF i < Len(Files) THEN Files[i + 1].rlba
               ELSE (fsBuf.padAreaStart - fsBuf.fsBufSize) \div SECTOR_SIZE
<1> DEFINE S == SECTOR_SIZE
           n == Len(Files)
           e == Files[i].rlba + bytesToSectors(Files[i].size)
<1>1. tree \in Trees /\ Linked /\ Counted /\ Packed /\ filesLba \in Nat /\ filesSizeSectors \in Nat /\ S \in Nat \ {0}
  BY LbaTyped, SectorAssumption DEF BuildInv, Counted
<1>2. n \in Nat /\ Files[i] \in FileSet /\ Files \in Seq(FileSet)
  BY <1>1, FilesTyped
<1>3. Files[i].rlba \in Nat /\ Files[i].size \in Nat
  BY <1>2 DEF FileSet
<1>4. e \in Nat
  <2>1. bytesToSectors(Files[i].size) \in Nat
    BY <1>3, Sectors
  <2> QED
    BY <1>3, <2>1
<1>5. e = Behind(Files[i])
  BY DEF Behind
<1> HIDE DEF e, n, S
<1>6. CASE i < n
  <2>1. PICK j \in 1 .. n : j = i + 1
    BY <1>2, <1>6 DEF n
  <2>2. j # 1 /\ j - 1 = i
    BY <2>1, <1>2 DEF n
  <2>3. Files[j].rlba = Behind(Files[i])
    BY <1>1, <2>2 DEF Packed, n
  <2>4. e <= Files[i + 1].rlba
    BY <1>4, <1>5, <2>1, <2>3
  <2> QED
    BY <1>6, <2>4 DEF e, n
<1>7. CASE ~(i < n)
  <2>1. i = n /\ Files # << >>
    BY <1>2, <1>7 DEF n
  <2>2. filesSizeSectors = e
    BY <1>1, <1>5, <2>1 DEF Packed, n
  <2>3. (fsBuf.padAreaStart - fsBuf.fsBufSize) \div S = e
    <3>1. fsBuf.padAreaStart = (filesLba + e) * S /\ fsBuf.fsBufSize = filesLba * S
      BY <2>2 DEF ImageInv, Imaged, ImageIs, SizesAre, S
    <3>2. (filesLba + e) * S = filesLba * S + e * S /\ filesLba * S \in Nat /\ e * S \in Nat
      BY <1>1, <1>4, Times
    <3>3. fsBuf.padAreaStart - fsBuf.fsBufSize = S * e + 0
      <4>1. e * S = S * e + 0
        BY <1>1, <1>4
      <4> QED
        BY <3>1, <3>2, <4>1
    <3>4. (S * e + 0) \div S = e
      <4>1. 0 \in 0 .. S - 1
        BY <1>1
      <4> QED
        BY <1>1, <1>4, <4>1, Quotient
    <3> QED
      BY <3>3, <3>4
  <2> QED
    BY <1>4, <1>7, <2>3 DEF e, n, S
<1> QED
  BY <1>6, <1>7

LEMMA ImagePadded ==
    ASSUME BuildInv, ImageInv, pc = "ready"
    PROVE  /\ fsBuf.padAreaSize >= 32 * SECTOR_SIZE
           /\ fsBuf.totalSize = fsBuf.padAreaStart + fsBuf.padAreaSize
           /\ fsBuf.totalSize % (32 * SECTOR_SIZE) = 0
<1> DEFINE S == SECTOR_SIZE
           m == filesLba + filesSizeSectors
           p == PadSectors(m)
<1>1. m \in Nat /\ S \in Nat \ {0}
  BY LbaTyped, SectorAssumption DEF BuildInv, Counted
<1>2. p \in Nat /\ p >= 32 /\ (m + p) % 32 = 0
  BY <1>1, PadTyped
<1>3. fsBuf.padAreaStart = m * S /\ fsBuf.padAreaSize = p * S /\ fsBuf.totalSize = (m + p) * S
  BY DEF ImageInv, Imaged, ImageIs, SizesAre
<1> HIDE DEF S, m, p
<1>4. p * S >= 32 * S
  <2>1. PICK q \in Nat : p = 32 + q
    <3>1. p - 32 \in Nat /\ p = 32 + (p - 32)
      BY <1>2
    <3> QED
      BY <3>1
  <2>2. (32 + q) * S = 32 * S + q * S /\ q * S \in Nat /\ 32 * S \in Nat
    BY <1>1, Times
  <2> QED
    BY <2>1, <2>2
<1>5. (m + p) * S = m * S + p * S
  BY <1>1, <1>2, Times
<1>6. ((m + p) * S) % (32 * S) = 0
  <2>1. PICK q \in Nat : m + p = 32 * q
    <3>1. (m + p) \div 32 \in Nat /\ m + p = 32 * ((m + p) \div 32)
      BY <1>1, <1>2
    <3> QED
      BY <3>1
  <2> DEFINE t == 32 * S
  <2>2. t \in Nat \ {0} /\ 0 \in 0 .. t - 1
    BY <1>1
  <2>3. (m + p) * S = t * q + 0
    <3>1. (32 * q) * S = (32 * S) * q + 0
      BY <1>1
    <3> QED
      BY <2>1, <3>1
  <2> HIDE DEF t
  <2>4. (t * q + 0) % t = 0
    BY <2>2, Quotient
  <2>5. ((m + p) * S) % t = 0
    BY <2>3, <2>4
  <2> QED
    BY <2>5 DEF t
<1> QED
  BY <1>3, <1>4, <1>5, <1>6 DEF S

\* In every image, whatever the folder: no record lies across a sector boundary,
\* what write() copies fills fsBuf exactly and in whole sectors, the volume
\* descriptors have the right places of the path tables, and files and padding
\* follow without overlap (buildContent(), generate(), write()).
THEOREM ImagesArePacked == Spec => []ImagePacked
<1>1. ReadInv /\ ImageInv => ImagePacked
  <2> SUFFICES ASSUME ReadInv, ImageInv, pc = "ready" PROVE ImagePacked
    BY DEF ImagePacked
  <2>1. BuildInv
    BY DEF ReadInv
  <2>2. \A fs \in FS, d \in 1 .. Len(dirList) :
           \A i \in 1 .. Len(dirList[d].content[fs]) :
               LET r == dirList[d].content[fs][i]
               IN  r.pos \div SECTOR_SIZE = (r.pos + r.len - 1) \div SECTOR_SIZE
    BY <2>1, RecordsInSectors
  <2>3. \A i \in 1 .. Len(fsBuf.areas) :
           fsBuf.areas[i].at % SECTOR_SIZE = 0 /\ fsBuf.areas[i].len % SECTOR_SIZE = 0
    BY <2>1, AreasOfSectors
  <2>4. \A i \in 1 .. Len(Files) :
           Files[i].rlba + bytesToSectors(Files[i].size) <=
               IF i < Len(Files) THEN Files[i + 1].rlba
               ELSE (fsBuf.padAreaStart - fsBuf.fsBufSize) \div SECTOR_SIZE
    BY <2>1, FilesFit
  <2>5. /\ Last(fsBuf.areas).at + Last(fsBuf.areas).len = fsBuf.fsBufSize
        /\ AreaOf("pathTableL", 0).at = fsBuf.pvd["iso"].pathTableL * SECTOR_SIZE
        /\ AreaOf("pathTableM", 0).at = fsBuf.pvd["iso"].pathTableM * SECTOR_SIZE
        /\ AreaOf("pathTableJolietL", 0).at = fsBuf.pvd["joliet"].pathTableL * SECTOR_SIZE
        /\ AreaOf("pathTableJolietM", 0).at = fsBuf.pvd["joliet"].pathTableM * SECTOR_SIZE
    BY <2>1, BufferFilled
  <2>6. /\ fsBuf.padAreaSize >= 32 * SECTOR_SIZE
        /\ fsBuf.totalSize = fsBuf.padAreaStart + fsBuf.padAreaSize
        /\ fsBuf.totalSize % (32 * SECTOR_SIZE) = 0
    BY <2>1, ImagePadded
  <2>7. Files = FlattenSeq([d \in 1 .. Len(dirList) |-> dirList[d].files])
    BY DEF Files
  <2> QED
    BY <2>2, <2>3, <2>4, <2>5, <2>6, <2>7, Zenon DEF ImagePacked
<1> QED
  BY <1>1, ReadInvariant, ImageInvariant, PTL

\* buildContent() looks for a short name under the identifier it has.
LEMMA ShortIsFound ==
    ASSUME NEW fs \in FS, NEW name \in Names, name.len < 108
    PROVE  CheckId(fs, name) = DirId(fs, name) /\ Even(39 + len_fi(fs, DirId(fs, name))) < 256
<1>1. name.len \in Nat
  BY DEF Names
<1>2. Smaller(name.len, 204) = name.len /\ Smaller(name.len, 254) = name.len /\ Smaller(name.len, 127) = name.len
  BY <1>1 DEF Smaller
<1>3. MAX_ISONAME - 3 = 204 /\ MAX_ISODIR = 254 /\ MAX_ISODIR \div 2 = 127
  BY DEF MAX_ISONAME, MAX_ISODIR
<1>4. Smaller(0, 127 - name.len) = 0
  BY <1>1 DEF Smaller
<1>5. strncpy_upper(name, MAX_ISONAME - 3) = strncpy_upper(name, MAX_ISODIR)
  BY <1>2, <1>3 DEF strncpy_upper
<1>6. CheckId(fs, name) = DirId(fs, name)
  BY <1>5 DEF CheckId, DirId
<1>7. DirId(fs, name).len = name.len /\ DirId(fs, name).ver = 0
  <2>1. CASE fs = "iso"
    BY <1>2, <1>3, <2>1 DEF DirId, strncpy_upper
  <2>2. CASE fs = "joliet"
    BY <1>2, <1>3, <1>4, <2>2 DEF DirId, utf8_to_ucs2
  <2> QED
    BY <2>1, <2>2 DEF FS
<1>8. len_fi(fs, DirId(fs, name)) \in {name.len, name.len * 2}
  BY <1>1, <1>7 DEF len_fi
<1>9. \A x \in {name.len, name.len * 2} : Even(39 + x) < 256
  BY <1>1 DEF Even
<1> QED
  BY <1>6, <1>8, <1>9

\* Where the sectors of a file system start, and how many are before each of its
\* directories.
BaseOf(fs, f) == IF fs = "iso" THEN isoLba ELSE isoLba + f[Len(dirList)]
SumOf(fs, f, g) == IF fs = "iso" THEN f ELSE g

LEMMA DirAreaAt ==
    ASSUME BuildInv, ImageInv, pc = "ready", NEW f, NEW g, Whole(f, g), NEW fs \in FS, NEW d \in 1 .. Len(dirList)
    PROVE  /\ AreaOf(fs, d).at = (BaseOf(fs, f) + SumOf(fs, f, g)[d - 1]) * SECTOR_SIZE
           /\ AreaOf(fs, d).len = dirList[d].size[fs]
<1> DEFINE A == fsBuf.areas
           n == Len(dirList)
           a == TableSectors("iso")
           b == TableSectors("joliet")
<1>1. n \in Nat
  BY DirTyped DEF BuildInv
<1>2. AreasAre(A, dirList, a, b)
  BY DEF ImageInv, Imaged, ImageIs
<1>3. AreaOf(fs, d) = A[DirArea(n, fs, d)]
  BY <1>1, <1>2, AreasFound
<1>4. AreasAt(A, n, a, b, f, g)
  BY DEF Whole
<1>5. isoLba = HEADER_SECTORS + 2 * a + 2 * b
  BY DEF isoLba
<1> HIDE DEF a, b
<1>6. CASE fs = "iso"
  <2>1. A[5 + d].at = (isoLba + f[d - 1]) * SECTOR_SIZE /\ A[5 + d].len = dirList[d].size["iso"]
    BY <1>2, <1>4, <1>5, Zenon DEF AreasAt, AreasAre, IsArea
  <2> QED
    BY <1>3, <1>6, <2>1, Zenon DEF DirArea, BaseOf, SumOf
<1>7. CASE fs = "joliet"
  <2>1. A[5 + n + d].at = (isoLba + f[n] + g[d - 1]) * SECTOR_SIZE /\ A[5 + n + d].len = dirList[d].size["joliet"]
    BY <1>2, <1>4, <1>5, Zenon DEF AreasAt, AreasAre, IsArea
  <2>2. "joliet" # "iso"
    OBVIOUS
  <2> QED
    BY <1>3, <1>7, <2>1, <2>2, Zenon DEF DirArea, BaseOf, SumOf
<1> QED
  BY <1>6, <1>7 DEF FS

\* The records . and .. of a directory lead to it and to its parent.
LEMMA DotsLead ==
    ASSUME BuildInv, ImageInv, pc = "ready", NEW fs \in FS, NEW d \in 1 .. Len(dirList)
    PROVE  /\ LeadsTo(dirList[d].content[fs][1], AreaOf(fs, d))
           /\ LeadsTo(dirList[d].content[fs][2], AreaOf(fs, dirList[d].parent))
<1> DEFINE p == dirList[d].parent
           R == dirList[d].content[fs]
<1>1. PICK f, g : Whole(f, g)
  BY ImageWhole
<1>2. p \in 1 .. Len(dirList)
  <2>1. p \in 1 .. d /\ Len(dirList) \in Nat
    BY DirTyped DEF BuildInv, Linked
  <2> QED
    BY <2>1
<1>3. Dots(dirList, fs, BaseOf(fs, f), SumOf(fs, f, g))
  <2>1. Dots(dirList, "iso", isoLba, f) /\ Dots(dirList, "joliet", isoLba + f[Len(dirList)], g)
    BY <1>1 DEF Whole
  <2> QED
    BY <2>1 DEF BaseOf, SumOf, FS
<1>4. /\ R[1].start = BaseOf(fs, f) + SumOf(fs, f, g)[d - 1] /\ R[1].length = dirList[d].size[fs]
      /\ R[2].start = BaseOf(fs, f) + SumOf(fs, f, g)[p - 1] /\ R[2].length = dirList[p].size[fs]
  BY <1>3 DEF Dots
<1>5. /\ AreaOf(fs, d).at = (BaseOf(fs, f) + SumOf(fs, f, g)[d - 1]) * SECTOR_SIZE
      /\ AreaOf(fs, d).len = dirList[d].size[fs]
  BY <1>1, DirAreaAt
<1> HIDE DEF p, R
<1>6. /\ AreaOf(fs, p).at = (BaseOf(fs, f) + SumOf(fs, f, g)[p - 1]) * SECTOR_SIZE
      /\ AreaOf(fs, p).len = dirList[p].size[fs]
  BY <1>1, <1>2, DirAreaAt
<1> QED
  BY <1>4, <1>5, <1>6, Zenon DEF LeadsTo, p, R

\* So does the record that a directory has of one in it, unless another record
\* has the same identifier.
ChildFound(recs, fs, id, c) ==
    \E i \in 3 .. Len(recs) :
        /\ recs[i].id = id
        /\ \/ recs[i].flag = "dir" /\ LeadsTo(recs[i], AreaOf(fs, c))
           \/ \E j \in 3 .. Len(recs) : j # i /\ recs[j].id = recs[i].id

LEMMA ChildrenLead ==
    ASSUME BuildInv, ImageInv, pc = "ready", NEW fs \in FS, NEW d \in 1 .. Len(dirList),
           NEW i \in 1 .. Len(dirList[d].children)
    PROVE  LET c == dirList[d].children[i]
           IN  ChildFound(dirList[d].content[fs], fs, DirId(fs, tree.dirs[dirList[c].src].name), c)
<1> DEFINE n == Len(dirList)
           V == View(dirList, fs)
           c == dirList[d].children[i]
           R == dirList[d].content[fs]
           F == Len(FileRecs(fs, V[d].files))
           m == Len(dirList[d].children)
           o == 2 + F + i
           id(x) == DirId(fs, NameOf(V, tree, dirList[d].children[x]))
<1>1. tree \in Trees /\ Linked /\ ListOnce(dirList, tree)
      /\ Known(View(dirList, fs), tree, fs, n, dirLba(fs), filesLba, dirsSizeSectors[fs])
      /\ ShortNames(n)
  BY DEF BuildInv, ImageInv, Enlisted, Recorded, RecordedIn
<1>2. Viewed(V, dirList, fs, n) /\ n \in Nat
  BY <1>1, ListShown
<1>3. Laid(V, tree, fs, n) /\ Led(V, tree, fs, n)
  BY <1>1 DEF Known
<1>4. m \in Nat /\ \A x \in 1 .. m : dirList[d].children[x] \in 2 .. n
  BY <1>1, DirTyped DEF ListOnce
<1> HIDE DEF V
<1>5. V[d].recs = R /\ V[d].children = dirList[d].children
  BY <1>2 DEF Viewed
<1>6. LaidOut(V, tree, fs, d)
  <2>1. Len(V) = n /\ V \in [1 .. Len(V) -> ViewSet] /\ n \in 0 .. Len(V)
    BY <1>2 DEF Viewed
  <2> QED
    BY <1>2, <1>3, <2>1, LaidIs
<1>7. /\ F \in Nat /\ Len(R) = 2 + F + m
      /\ \A x \in 1 .. m : R[2 + F + x].id = id(x) /\ R[2 + F + x].flag = "dir"
  BY <1>5, <1>6, Zenon DEF LaidOut
<1>8. ASSUME NEW x \in 1 .. m
      PROVE  LET name == NameOf(V, tree, dirList[d].children[x])
             IN  /\ name = tree.dirs[dirList[dirList[d].children[x]].src].name
                 /\ CheckId(fs, name) = DirId(fs, name)
  <2> DEFINE e == dirList[d].children[x]
             name == NameOf(V, tree, e)
  <2>1. e \in 2 .. n /\ e \in 1 .. n
    BY <1>4
  <2> HIDE DEF e
  <2>2. name = tree.dirs[dirList[e].src].name /\ name \in Names
    BY <1>1, <1>2, <2>1, NameShown
  <2>3. name.len < 108
    BY <1>1, <2>1, <2>2 DEF ShortNames
  <2> HIDE DEF name
  <2>4. CheckId(fs, name) = DirId(fs, name)
    BY <2>2, <2>3, ShortIsFound
  <2> QED
    BY <2>2, <2>4 DEF e, name
<1>9. c \in 2 .. n /\ c \in 1 .. n /\ c <= n
  BY <1>2, <1>4
<1>10. Leads(V, tree, fs, d, i)
  <2>1. V[d].children[i] <= n /\ i \in 1 .. Len(V[d].children)
    BY <1>5, <1>9
  <2> QED
    BY <1>3, <2>1 DEF Led
<1>11. Spot(fs, V, d, i) = o
  BY DEF Spot
<1>12. \/ R[o].start = V[c].recs[1].start /\ R[o].length = V[c].size
       \/ \E j \in 3 .. Len(R) : j # o /\ R[j].id = CheckId(fs, NameOf(V, tree, c))
       \/ \E x \in 1 .. m : x # i /\ R[o].id = CheckId(fs, NameOf(V, tree, dirList[d].children[x]))
  BY <1>5, <1>10, <1>11, Zenon DEF Leads
<1> HIDE DEF n, R, F, m, c, id
<1>13. o \in 3 .. Len(R) /\ R[o].id = id(i) /\ R[o].flag = "dir" /\ i \in 1 .. m
  BY <1>4, <1>7 DEF m
<1>14. id(i) = DirId(fs, tree.dirs[dirList[c].src].name) /\ CheckId(fs, NameOf(V, tree, c)) = id(i)
  BY <1>8, <1>13 DEF id, c
<1> HIDE DEF o
<1>15. CASE R[o].start = V[c].recs[1].start /\ R[o].length = V[c].size
  <2> DEFINE Q == dirList[c].content[fs]
  <2>1. V[c].recs = Q /\ V[c].size = dirList[c].size[fs]
    BY <1>2, <1>9 DEF Viewed
  <2>2. LeadsTo(Q[1], AreaOf(fs, c))
    BY <1>9, DotsLead DEF n
  <2>3. PICK f, g : Whole(f, g)
    BY ImageWhole
  <2>4. AreaOf(fs, c).len = dirList[c].size[fs]
    BY <1>9, <2>3, DirAreaAt DEF n
  <2>5. LeadsTo(R[o], AreaOf(fs, c))
    BY <1>15, <2>1, <2>2, <2>4, Zenon DEF LeadsTo
  <2> QED
    BY <1>13, <1>14, <2>5, Zenon DEF ChildFound, R, c
<1>16. CASE \E j \in 3 .. Len(R) : j # o /\ R[j].id = CheckId(fs, NameOf(V, tree, c))
  BY <1>13, <1>14, <1>16, Zenon DEF ChildFound, R, c
<1>17. CASE \E x \in 1 .. m : x # i /\ R[o].id = CheckId(fs, NameOf(V, tree, dirList[d].children[x]))
  <2>1. PICK x \in 1 .. m : x # i /\ R[o].id = CheckId(fs, NameOf(V, tree, dirList[d].children[x]))
    BY <1>17
  <2>2. CheckId(fs, NameOf(V, tree, dirList[d].children[x])) = id(x)
    BY <1>8 DEF id
  <2>3. R[2 + F + x].id = R[o].id
    BY <1>7, <2>1, <2>2
  <2>4. 2 + F + x \in 3 .. Len(R) /\ 2 + F + x # o
    BY <1>4, <1>7, <1>13, <2>1 DEF o
  <2> QED
    BY <1>13, <1>14, <2>3, <2>4, Zenon DEF ChildFound, R, c
<1> QED
  BY <1>12, <1>15, <1>16, <1>17

\* What DirectoriesFound asks of one directory.
DirFound(fs, d) ==
    LET recs == dirList[d].content[fs]
    IN  /\ Walked(recs) = 1 .. Len(recs)
        /\ LeadsTo(recs[1], AreaOf(fs, d))
        /\ LeadsTo(recs[2], AreaOf(fs, dirList[d].parent))
        /\ \A c \in Range(dirList[d].children) :
              ChildFound(recs, fs, DirId(fs, tree.dirs[dirList[c].src].name), c)
        /\ d <= UINT16 =>
              /\ d \in 1 .. Len(pathTable[fs])
              /\ pathTable[fs][d].start = recs[1].start
              /\ pathTable[fs][d].id = (IF d = 1 THEN Self ELSE DirId(fs, tree.dirs[dirList[d].src].name))
              /\ pathTable[fs][d].parentDN = dirList[d].parent
        /\ d > 1 => dirList[d].parent < d

LEMMA EachDirFound ==
    ASSUME BuildInv, ImageInv, pc = "ready", NEW fs \in FS, NEW d \in 1 .. Len(dirList)
    PROVE  DirFound(fs, d)
<1> DEFINE n == Len(dirList)
           recs == dirList[d].content[fs]
           C == dirList[d].children
<1>1. /\ tree \in Trees /\ Linked /\ ListOnce(dirList, tree) /\ n \in Nat
      /\ Known(View(dirList, fs), tree, fs, n, dirLba(fs), filesLba, dirsSizeSectors[fs])
      /\ TableIs(pathTable[fs], dirList, tree, fs)
  BY DirTyped DEF BuildInv, ImageInv, Enlisted, Recorded, RecordedIn, Tabled
<1>2. Walked(recs) = 1 .. Len(recs)
  <2>1. InPlace(recs) /\ Len(recs) \in Nat
    BY <1>1, FirstIs
  <2> QED
    BY <2>1, AllWalked
<1>3. LeadsTo(recs[1], AreaOf(fs, d)) /\ LeadsTo(recs[2], AreaOf(fs, dirList[d].parent))
  BY DotsLead
<1>4. ASSUME NEW c \in Range(C)
      PROVE  ChildFound(recs, fs, DirId(fs, tree.dirs[dirList[c].src].name), c)
  <2>1. C \in Seq(Nat)
    BY <1>1, DirTyped
  <2>2. PICK i \in 1 .. Len(C) : c = C[i]
    BY <2>1 DEF Range
  <2> QED
    BY <2>2, ChildrenLead
<1>5. ASSUME d <= UINT16
      PROVE  /\ d \in 1 .. Len(pathTable[fs])
             /\ pathTable[fs][d].start = recs[1].start
             /\ pathTable[fs][d].id = (IF d = 1 THEN Self ELSE DirId(fs, tree.dirs[dirList[d].src].name))
             /\ pathTable[fs][d].parentDN = dirList[d].parent
  <2> DEFINE T == pathTable[fs]
             p == dirList[d].parent
  <2>1. T \in Seq(EntrySet) /\ Len(T) = Smaller(n, UINT16)
    BY <1>1 DEF TableIs
  <2>2. d \in 1 .. Len(T)
    BY <1>1, <1>5, <2>1, NumberAssumption DEF Smaller
  <2>3. /\ T[d].start = recs[1].start /\ T[d].parentDN = p % UINT16
        /\ T[d].id = (IF d = 1 THEN Self ELSE DirId(fs, tree.dirs[dirList[d].src].name))
    BY <1>1, <2>2, Zenon DEF TableIs
  <2>4. p \in 1 .. UINT16 - 1
    <3>1. CASE d = 1
      BY <1>1, <3>1, NumberAssumption DEF ListOnce
    <3>2. CASE d # 1
      <4>1. d \in 2 .. n /\ d \in Nat
        BY <1>1, <3>2
      <4>2. p \in 1 .. d - 1
        BY <1>1, <4>1 DEF ListOnce
      <4> HIDE DEF p
      <4> QED
        BY <1>5, <4>1, <4>2, NumberAssumption
    <3> QED
      BY <3>1, <3>2
  <2> HIDE DEF p
  <2>5. p % UINT16 = p
    <3>1. (UINT16 * 0 + p) % UINT16 = p
      BY <2>4, NumberAssumption, Quotient
    <3> QED
      BY <2>4, <3>1, NumberAssumption
  <2> QED
    BY <2>2, <2>3, <2>5 DEF p, T
<1>6. d > 1 => dirList[d].parent < d
  <2> SUFFICES ASSUME d > 1 PROVE dirList[d].parent < d
    OBVIOUS
  <2>1. d \in 2 .. n /\ d \in Nat
    BY <1>1
  <2>2. dirList[d].parent \in 1 .. d - 1
    BY <1>1, <2>1 DEF ListOnce
  <2> QED
    BY <2>1, <2>2
<1> QED
  BY <1>2, <1>3, <1>4, <1>5, <1>6, Zenon DEF DirFound

\* Whoever follows the records of an image, in either of its file systems, gets
\* from the volume descriptor to every directory of the folder where write()
\* has put it, and back to its parent, and so does whoever uses the path tables,
\* for as many directories as these have numbers: a parent number in them is
\* never cut (buildContent(), buildPathTable(), fixDirLba(), fixPathTableLba(),
\* write()).
THEOREM DirectoriesAreFound == Spec => []DirectoriesFound
<1>1. ReadInv /\ ImageInv => DirectoriesFound
  <2> SUFFICES ASSUME ReadInv, ImageInv, pc = "ready" PROVE DirectoriesFound
    BY DEF DirectoriesFound
  <2>1. BuildInv /\ Len(dirList) \in Nat /\ Len(dirList) >= 1
    BY DirTyped DEF ReadInv, BuildInv, ImageInv, Enlisted, Building
  <2>2. 1 \in 1 .. Len(dirList)
    BY <2>1
  <2>3. ASSUME NEW fs \in FS PROVE LeadsTo(fsBuf.pvd[fs].root, AreaOf(fs, 1))
    <3>1. LeadsTo(dirList[1].content[fs][1], AreaOf(fs, 1))
      BY <2>1, <2>2, DotsLead
    <3>2. /\ fsBuf.pvd[fs].root.start = dirList[1].content[fs][1].start
          /\ fsBuf.pvd[fs].root.length = dirList[1].content[fs][1].length
      BY Zenon DEF ImageInv, Imaged, ImageIs, PvdsAre
    <3> QED
      BY <3>1, <3>2, Zenon DEF LeadsTo
  <2>4. \A fs \in FS : \A d \in 1 .. Len(dirList) : DirFound(fs, d)
    BY <2>1, EachDirFound
  <2> QED
    BY <2>3, <2>4, Zenon DEF DirectoriesFound, DirFound, ChildFound
<1> QED
  BY <1>1, ReadInvariant, ImageInvariant, PTL

-----------------------------------------------------------------------------
(* The files of an image *)

\* The last part of a file is not empty (but for an empty file) and its size has
\* 32 bits.
LEMMA LastExtent ==
    ASSUME NEW size \in Nat
    PROVE  LET n == Extents(size)
           IN  /\ n \in Nat \ {0} /\ (n - 1) * MULTIEXTENT_PART_SIZE \in Nat
               /\ (n - 1) * MULTIEXTENT_PART_SIZE <= size
               /\ size - (n - 1) * MULTIEXTENT_PART_SIZE < UINT32
               /\ UINT32 \in Nat \ {0}
<1> DEFINE P == MULTIEXTENT_PART_SIZE
           U == UINT32
           n == Extents(size)
<1>1. P \in Nat \ {0} /\ U \in Nat \ {0} /\ P < U
  BY ExtentAssumption, SectorAssumption
<1>2. n = IF size >= U THEN (size + P - 1) \div P ELSE 1
  BY DEF Extents
<1> HIDE DEF P, U, n
<1>3. CASE size < U
  <2>1. n = 1
    BY <1>1, <1>2, <1>3
  <2>2. (n - 1) * P = 0
    BY <1>1, <2>1
  <2> QED
    BY <1>1, <1>3, <2>1, <2>2 DEF P, U, n
<1>4. CASE size >= U
  <2> DEFINE y == size + P - 1
             e == y % P
             d == y \div P
  <2>1. y \in Nat
    BY <1>1
  <2>2. d \in Nat /\ e \in 0 .. P - 1 /\ y = P * d + e
    <3> HIDE DEF y
    <3> QED
      BY <1>1, <2>1
  <2>3. n = d
    BY <1>2, <1>4
  <2> HIDE DEF d, e
  <2>4. P * n \in Nat /\ (n - 1) * P = P * n - P /\ n \in Nat /\ P * n + e = size + P - 1
    BY <1>1, <2>2, <2>3
  <2>5. n # 0
    <3> SUFFICES ASSUME n = 0 PROVE FALSE
      OBVIOUS
    <3>1. P * n = 0
      BY <1>1
    <3> QED
      BY <1>1, <1>4, <2>2, <2>4, <3>1
  <2>6. (n - 1) * P \in Nat
    BY <1>1, <2>4, <2>5
  <2> DEFINE z == (n - 1) * P
  <2>7. z <= size /\ size - z < U
    <3>1. z = P * n - P /\ z \in Nat
      BY <2>4, <2>6
    <3> HIDE DEF z
    <3> QED
      BY <1>1, <1>4, <2>2, <2>4, <3>1
  <2> QED
    BY <1>1, <2>4, <2>5, <2>6, <2>7 DEF P, U, n
<1> QED
  BY <1>1, <1>3, <1>4

\* The records r of a file f: all but the last have whole parts, and together
\* they have what the file has.
Extent(r, fs, f, i) ==
    LET n == Extents(f.size)
        s == bytesToSectors(MULTIEXTENT_PART_SIZE)
    IN  /\ r.id = FileId(fs, f.name) /\ r.flag = (IF i < n THEN "more" ELSE "file")
        /\ r.start = f.rlba + (i - 1) * s
        /\ r.length = IF i < n THEN s * SECTOR_SIZE ELSE f.size - (n - 1) * (s * SECTOR_SIZE)

LEMMA PartSectors ==
    LET s == bytesToSectors(MULTIEXTENT_PART_SIZE)
    IN  s \in Nat /\ s * SECTOR_SIZE = MULTIEXTENT_PART_SIZE
<1> DEFINE P == MULTIEXTENT_PART_SIZE
<1>1. P \in Nat /\ P % SECTOR_SIZE = 0 /\ SECTOR_SIZE \in Nat \ {0}
  BY ExtentAssumption, SectorAssumption
<1> HIDE DEF P
<1> DEFINE m == P \div SECTOR_SIZE
<1>2. m \in Nat /\ P = SECTOR_SIZE * m + 0
  BY <1>1
<1> HIDE DEF m
<1>3. P = m * SECTOR_SIZE
  BY <1>1, <1>2
<1>4. bytesToSectors(P) = m
  BY <1>2, <1>3, WholeSectors
<1> QED
  BY <1>2, <1>3, <1>4 DEF P

LEMMA ExtentsOfFile ==
    ASSUME NEW fs \in FS, NEW f \in FileSet
    PROVE  LET F == FileRecords(fs, f)
           IN  /\ Len(F) = Extents(f.size) /\ Len(F) \in Nat \ {0}
               /\ \A i \in 1 .. Len(F) : Extent(F[i], fs, f, i)
<1> DEFINE p == Extents(f.size)
           P == MULTIEXTENT_PART_SIZE
           s == bytesToSectors(P)
           flag(x) == IF x < p THEN "more" ELSE "file"
           a(x) == f.rlba + (x - 1) * s
           b(x) == IF x < p THEN P ELSE (f.size - (((x - 1) * P) % UINT32)) % UINT32
           rec(x) == Record(fs, FileId(fs, f.name), flag(x), a(x), b(x))
<1>1. FileRecords(fs, f) = [x \in 1 .. p |-> rec(x)]
  BY DEF FileRecords
<1>2. f.size \in Nat
  BY DEF FileSet
<1>3. p \in Nat \ {0}
  BY <1>2, LastExtent
<1>4. s * SECTOR_SIZE = P
  BY PartSectors
<1>5. b(p) = f.size - (p - 1) * P
  <2> DEFINE z == (p - 1) * P
  <2>1. z \in Nat /\ z <= f.size /\ f.size - z < UINT32 /\ UINT32 \in Nat \ {0}
    BY <1>2, LastExtent
  <2>2. b(p) = (f.size - (z % UINT32)) % UINT32
    BY <1>3
  <2> HIDE DEF z
  <2> QED
    BY <1>2, <2>1, <2>2, WrapsBack DEF z
<1>6. \A x \in 1 .. p : b(x) = IF x < p THEN s * SECTOR_SIZE ELSE f.size - (p - 1) * (s * SECTOR_SIZE)
  <2> SUFFICES ASSUME NEW x \in 1 .. p
               PROVE  b(x) = IF x < p THEN s * SECTOR_SIZE ELSE f.size - (p - 1) * (s * SECTOR_SIZE)
    OBVIOUS
  <2>1. CASE x < p
    BY <1>4, <2>1
  <2>2. CASE x = p
    <3>1. ~(x < p)
      BY <1>3, <2>2
    <3> HIDE DEF b
    <3> QED
      BY <1>4, <1>5, <2>2, <3>1
  <2> QED
    BY <1>3, <2>1, <2>2
<1> HIDE DEF p, s, P, b, a, flag
<1>7. ASSUME NEW x \in 1 .. p
      PROVE  rec(x).id = FileId(fs, f.name) /\ rec(x).flag = flag(x) /\ rec(x).start = a(x) /\ rec(x).length = b(x)
  BY RecordIs
<1> HIDE DEF rec
<1>8. Len(FileRecords(fs, f)) = p /\ \A x \in 1 .. p : FileRecords(fs, f)[x] = rec(x)
  BY <1>1, <1>3
<1>9. ASSUME NEW x \in 1 .. p PROVE Extent(rec(x), fs, f, x)
  BY <1>6, <1>7 DEF Extent, p, s, P, a, flag
<1> QED
  BY <1>3, <1>8, <1>9 DEF p

\* The records F of the files of a directory: those of the k-th file are the ones
\* behind the e[k - 1]-th, up to the e[k]-th.
FilesAt(e, F, fs, files) ==
    LET n == Len(files)
    IN  /\ n \in Nat /\ e \in [0 .. n -> Nat] /\ e[0] = 0 /\ Len(F) = e[n]
        /\ \A k \in 1 .. n : e[k] = e[k - 1] + Extents(files[k].size) /\ Extents(files[k].size) \in Nat \ {0}
        /\ SumGrows(e, n)
        /\ \A k \in 1 .. n : \A i \in 1 .. Extents(files[k].size) : Extent(F[e[k - 1] + i], fs, files[k], i)

LEMMA FileRuns ==
    ASSUME NEW fs \in FS, NEW files \in Seq(FileSet)
    PROVE  \E e : FilesAt(e, FileRecs(fs, files), fs, files)
<1> DEFINE n == Len(files)
           ss == [k \in 1 .. n |-> FileRecords(fs, files[k])]
           len == [k \in 1 .. n |-> Len(ss[k])]
<1>1. n \in Nat /\ \A k \in 1 .. n : files[k] \in FileSet
  OBVIOUS
<1>2. ss \in [1 .. n -> Seq(RecSet)] /\ \A k \in 1 .. n : ss[k] = FileRecords(fs, files[k])
  BY <1>1, FileRecordsTyped
<1>3. FileRecs(fs, files) = FlattenSeq(ss)
  BY DEF FileRecs
<1> HIDE DEF ss, n
<1>4. PICK e : /\ IsSum(e, n, 0, len)
               /\ FlattenSeq(ss) \in Seq(RecSet) /\ Len(FlattenSeq(ss)) = e[n]
               /\ \A k \in 1 .. n : PartAt(FlattenSeq(ss), e, ss, k)
  BY <1>1, <1>2, FlattenParts
<1>5. ASSUME NEW k \in 1 .. n
      PROVE  /\ len[k] = Extents(files[k].size) /\ len[k] = Len(ss[k]) /\ len[k] \in Nat \ {0}
             /\ \A i \in 1 .. Len(ss[k]) : Extent(ss[k][i], fs, files[k], i)
  <2>1. len[k] = Len(ss[k])
    OBVIOUS
  <2> HIDE DEF len
  <2>2. ss[k] = FileRecords(fs, files[k]) /\ files[k] \in FileSet
    BY <1>1, <1>2
  <2> DEFINE f == files[k]
  <2> HIDE DEF f
  <2>3. /\ Len(ss[k]) = Extents(f.size) /\ Len(ss[k]) \in Nat \ {0}
        /\ \A i \in 1 .. Len(ss[k]) : Extent(ss[k][i], fs, f, i)
    BY <2>2, ExtentsOfFile DEF f
  <2> QED
    BY <2>1, <2>3 DEF f
<1> HIDE DEF len
<1>6. SumGrows(e, n)
  BY <1>1, <1>4, <1>5, SumsGrow
<1>7. e \in [0 .. n -> Nat] /\ e[0] = 0 /\ \A k \in 1 .. n : e[k] = e[k - 1] + len[k]
  BY <1>4 DEF IsSum
<1>8. ASSUME NEW k \in 1 .. n, NEW i \in 1 .. Extents(files[k].size)
      PROVE  Extent(FlattenSeq(ss)[e[k - 1] + i], fs, files[k], i)
  <2>1. i \in 1 .. Len(ss[k])
    BY <1>5
  <2>2. FlattenSeq(ss)[e[k - 1] + i] = ss[k][i]
    BY <1>4, <2>1 DEF PartAt
  <2> QED
    BY <1>5, <2>1, <2>2
<1>9. FilesAt(e, FlattenSeq(ss), fs, files)
  BY <1>1, <1>4, <1>5, <1>6, <1>7, <1>8 DEF FilesAt, n
<1> QED
  BY <1>3, <1>9

\* The flags of these records, after those of . and ..
FlagsAs(R, F) ==
    /\ R[1].flag = "dir" /\ R[2].flag = "dir"
    /\ \A y \in 1 .. Len(F) : R[2 + y].flag = F[y].flag

LEMMA FlagsOfFile ==
    ASSUME NEW e, NEW F, NEW fs, NEW files, FilesAt(e, F, fs, files), NEW R, FlagsAs(R, F),
           NEW k \in 1 .. Len(files)
    PROVE  /\ e[k - 1] \in Nat /\ e[k] \in Nat /\ e[k - 1] < e[k] /\ e[k] <= Len(F) /\ Len(F) \in Nat
           /\ \A y \in e[k - 1] + 1 .. e[k] : R[2 + y].flag = IF y < e[k] THEN "more" ELSE "file"
<1> DEFINE n == Len(files)
           p == Extents(files[k].size)
<1>1. n \in Nat /\ k \in 0 .. n /\ k - 1 \in 0 .. n /\ n \in 0 .. n /\ k <= n
  BY DEF FilesAt
<1>2. e[k - 1] \in Nat /\ e[k] \in Nat /\ e[n] \in Nat /\ e[k] = e[k - 1] + p /\ p \in Nat \ {0} /\ Len(F) = e[n]
  BY <1>1 DEF FilesAt
<1>3. e[k] <= e[n]
  BY <1>1 DEF FilesAt, SumGrows
<1>4. ASSUME NEW y \in e[k - 1] + 1 .. e[k]
      PROVE  R[2 + y].flag = IF y < e[k] THEN "more" ELSE "file"
  <2> DEFINE i == y - e[k - 1]
  <2>1. i \in 1 .. p /\ y = e[k - 1] + i /\ (i < p <=> y < e[k]) /\ y \in 1 .. Len(F)
    <3> HIDE DEF p
    <3> QED
      BY <1>2, <1>3
  <2> HIDE DEF i
  <2>2. Extent(F[e[k - 1] + i], fs, files[k], i)
    BY <2>1 DEF FilesAt
  <2>3. F[y].flag = IF i < p THEN "more" ELSE "file"
    BY <2>1, <2>2 DEF Extent
  <2>4. R[2 + y].flag = F[y].flag
    BY <2>1 DEF FlagsAs
  <2> QED
    BY <2>1, <2>3, <2>4
<1>5. e[k - 1] < e[k] /\ e[k] <= Len(F) /\ Len(F) \in Nat
  <2> HIDE DEF p
  <2> QED
    BY <1>2, <1>3
<1> QED
  BY <1>2, <1>4, <1>5

\* Up to the records of the k-th file, k records end a file.
LEMMA FileEnds ==
    ASSUME NEW e, NEW F, NEW fs, NEW files, FilesAt(e, F, fs, files), NEW R, FlagsAs(R, F),
           NEW k \in 1 .. Len(files)
    PROVE  Cardinality({x \in 1 .. 2 + e[k] : R[x].flag = "file"}) = k
<1> DEFINE n == Len(files)
           T == {x \in 1 .. 2 + e[k] : R[x].flag = "file"}
           g == [h \in 1 .. k |-> 2 + e[h]]
<1>1. n \in Nat /\ k \in 1 .. n /\ e \in [0 .. n -> Nat] /\ SumGrows(e, n)
  BY DEF FilesAt
<1>2. ASSUME NEW h \in 1 .. n
      PROVE  /\ e[h - 1] \in Nat /\ e[h] \in Nat /\ e[h - 1] < e[h]
             /\ \A y \in e[h - 1] + 1 .. e[h] : R[2 + y].flag = IF y < e[h] THEN "more" ELSE "file"
  BY FlagsOfFile
<1> HIDE DEF n
<1>3. ASSUME NEW h \in 1 .. k PROVE 2 + e[h] \in T
  <2>1. h \in 1 .. n /\ h \in 0 .. n /\ k \in 0 .. n /\ h <= k
    BY <1>1
  <2>2. e[h] <= e[k] /\ e[k] \in Nat
    BY <1>1, <2>1 DEF SumGrows
  <2>3. e[h] \in e[h - 1] + 1 .. e[h] /\ ~(e[h] < e[h])
    BY <1>2, <2>1
  <2>4. R[2 + e[h]].flag = "file"
    BY <1>2, <2>1, <2>3
  <2>5. 2 + e[h] \in 1 .. 2 + e[k]
    BY <1>2, <2>1, <2>2
  <2> QED
    BY <2>4, <2>5
<1>4. ASSUME NEW x \in T PROVE \E h \in 1 .. k : x = 2 + e[h]
  <2>0. x \in 1 .. 2 + e[k] /\ R[x].flag = "file" /\ e[k] \in Nat /\ k \in 0 .. n
    BY <1>1
  <2>1. x # 1 /\ x # 2
    BY <2>0 DEF FlagsAs
  <2> DEFINE y == x - 2
  <2>2. y \in 1 .. e[k] /\ x = 2 + y
    BY <2>0, <2>1
  <2> HIDE DEF y
  <2>3. PICK h \in 1 .. k : e[h - 1] < y /\ y <= e[h]
    BY <1>1, <2>0, <2>2 DEF SumGrows
  <2>4. h \in 1 .. n
    BY <1>1
  <2>5. y \in e[h - 1] + 1 .. e[h]
    BY <1>2, <2>2, <2>3, <2>4
  <2>6. ~(y < e[h])
    BY <1>2, <2>0, <2>2, <2>4, <2>5
  <2>7. y = e[h]
    BY <1>2, <2>2, <2>3, <2>4, <2>6
  <2> QED
    BY <2>2, <2>7
<1> HIDE DEF T
<1>5. ASSUME NEW a \in 1 .. k, NEW b \in 1 .. k, a < b PROVE e[a] < e[b]
  <2>1. b \in 1 .. n /\ a \in 0 .. n /\ b - 1 \in 0 .. n /\ a <= b - 1
    BY <1>1, <1>5
  <2>2. e[a] <= e[b - 1] /\ e[a] \in Nat
    BY <1>1, <2>1 DEF SumGrows
  <2> QED
    BY <1>2, <2>1, <2>2
<1>6. g \in Injection(1 .. k, T)
  <2>1. g \in [1 .. k -> T]
    BY <1>3
  <2>2. ASSUME NEW a \in 1 .. k, NEW b \in 1 .. k, g[a] = g[b] PROVE a = b
    <3>1. e[a] \in Nat /\ e[b] \in Nat /\ a \in Nat /\ b \in Nat
      BY <1>1
    <3>2. e[a] = e[b]
      BY <2>2, <3>1
    <3>3. ~(a < b) /\ ~(b < a)
      BY <1>5, <3>1, <3>2
    <3> QED
      BY <3>1, <3>3
  <2> HIDE DEF g
  <2> QED
    BY <2>1, <2>2 DEF Injection, IsInjective
<1>7. g \in Surjection(1 .. k, T)
  <2>1. g \in [1 .. k -> T]
    BY <1>3
  <2>2. \A x \in T : \E h \in 1 .. k : g[h] = x
    BY <1>4
  <2> HIDE DEF g
  <2> QED
    BY <2>1, <2>2 DEF Surjection
<1>8. IsFiniteSet(1 .. k) /\ Cardinality(1 .. k) = k
  <2>1. k \in Nat /\ 1 \in Int /\ k \in Int /\ ~(1 > k) /\ k - 1 + 1 = k
    BY <1>1
  <2>2. IsFiniteSet(1 .. k) /\ Cardinality(1 .. k) = IF 1 > k THEN 0 ELSE k - 1 + 1
    BY <2>1, FS_Interval
  <2> QED
    BY <2>1, <2>2
<1>9. ExistsBijection(1 .. k, T)
  BY <1>6, <1>7 DEF ExistsBijection, Bijection
<1>10. Cardinality(T) = k
  BY <1>8, <1>9, FS_Bijection
<1> QED
  BY <1>10 DEF T

LEMMA RunIs ==
    ASSUME NEW e, NEW F, NEW fs, NEW files, FilesAt(e, F, fs, files), NEW R, FlagsAs(R, F),
           NEW k \in 1 .. Len(files)
    PROVE  RecordsOf(R, 3 + e[k - 1], 2 + e[k], k)
<1> DEFINE i == 3 + e[k - 1]
           j == 2 + e[k]
<1>1. /\ e[k - 1] \in Nat /\ e[k] \in Nat /\ e[k - 1] < e[k]
      /\ \A y \in e[k - 1] + 1 .. e[k] : R[2 + y].flag = IF y < e[k] THEN "more" ELSE "file"
  BY FlagsOfFile
<1>2. i <= j /\ R[j].flag = "file"
  <2>1. e[k] \in e[k - 1] + 1 .. e[k] /\ ~(e[k] < e[k])
    BY <1>1
  <2> QED
    BY <1>1, <2>1
<1>3. ASSUME NEW x \in i .. j - 1 PROVE R[x].flag = "more"
  <2>1. x - 2 \in e[k - 1] + 1 .. e[k] /\ x - 2 < e[k] /\ 2 + (x - 2) = x
    BY <1>1
  <2> QED
    BY <1>1, <2>1
<1>4. i = 3 \/ R[i - 1].flag = "file"
  <2>1. CASE k = 1
    <3>1. e[k - 1] = 0
      BY <2>1 DEF FilesAt
    <3> QED
      BY <3>1
  <2>2. CASE k # 1
    <3>1. k - 1 \in 1 .. Len(files)
      BY <2>2 DEF FilesAt
    <3> DEFINE h == k - 1
    <3> HIDE DEF h
    <3>2. /\ e[h - 1] \in Nat /\ e[h] \in Nat /\ e[h - 1] < e[h]
          /\ \A y \in e[h - 1] + 1 .. e[h] : R[2 + y].flag = IF y < e[h] THEN "more" ELSE "file"
      BY <3>1, FlagsOfFile DEF h
    <3>3. e[h] \in e[h - 1] + 1 .. e[h] /\ ~(e[h] < e[h])
      BY <3>2
    <3>4. R[2 + e[h]].flag = "file"
      BY <3>2, <3>3
    <3>5. i - 1 = 2 + e[h]
      BY <1>1 DEF h
    <3> QED
      BY <3>4, <3>5
  <2> QED
    BY <2>1, <2>2
<1>5. Cardinality({x \in 1 .. j : R[x].flag = "file"}) = k
  BY FileEnds
<1> QED
  BY <1>2, <1>3, <1>4, <1>5 DEF RecordsOf

\* Records of n bytes that lead to `at` and on without a gap.
RunTo(R, i, j, at, n, id) ==
    /\ R[i].start * SECTOR_SIZE = at
    /\ \A x \in i + 1 .. j : (R[x].start - R[x - 1].start) * SECTOR_SIZE = R[x - 1].length
    /\ (R[j].start - R[i].start) * SECTOR_SIZE + R[j].length = n
    /\ \A x \in i .. j : R[x].id = id

\* The records R have what the records F of files have, but start b sectors later.
ShiftedBy(R, F, y, b) ==
    R[2 + y].start = F[y].start + b /\ R[2 + y].length = F[y].length /\ R[2 + y].id = F[y].id

LEMMA RunLeads ==
    ASSUME NEW e, NEW F, NEW fs, NEW files \in Seq(FileSet), FilesAt(e, F, fs, files), NEW R, NEW b \in Nat,
           NEW k \in 1 .. Len(files), e[k - 1] \in Nat, e[k] \in Nat, e[k - 1] < e[k],
           \A y \in e[k - 1] + 1 .. e[k] : ShiftedBy(R, F, y, b)
    PROVE  RunTo(R, 3 + e[k - 1], 2 + e[k], (b + files[k].rlba) * SECTOR_SIZE, files[k].size,
                 FileId(fs, files[k].name))
<1> DEFINE f == files[k]
           a == e[k - 1]
           c == e[k]
           p == Extents(f.size)
           s == bytesToSectors(MULTIEXTENT_PART_SIZE)
           S == SECTOR_SIZE
           r(h) == R[2 + a + h]
           id == FileId(fs, f.name)
<1>1. f.rlba \in Nat /\ f.size \in Nat
  <2>1. f \in FileSet
    OBVIOUS
  <2> QED
    BY <2>1 DEF FileSet
<1>2. s \in Nat /\ S \in Nat
  BY PartSectors, SectorAssumption
<1>3. c = a + p /\ p \in Nat \ {0} /\ a \in Nat
  BY DEF FilesAt
<1>4. ASSUME NEW h \in 1 .. p
      PROVE  /\ r(h).id = id /\ r(h).start = b + f.rlba + (h - 1) * s
             /\ r(h).length = IF h < p THEN s * S ELSE f.size - (p - 1) * (s * S)
  <2> DEFINE y == a + h
  <2>1. y \in a + 1 .. c /\ 2 + y = 2 + a + h
    <3> HIDE DEF p, a, c
    <3> QED
      BY <1>3
  <2>2. Extent(F[y], fs, f, h)
    BY DEF FilesAt
  <2>3. ShiftedBy(R, F, y, b)
    BY <2>1
  <2> HIDE DEF y
  <2>4. /\ F[y].id = id /\ F[y].start = f.rlba + (h - 1) * s
        /\ F[y].length = IF h < p THEN s * S ELSE f.size - (p - 1) * (s * S)
    BY <2>2 DEF Extent
  <2>5. R[2 + y] = r(h)
    BY <2>1
  <2>6. r(h).id = F[y].id /\ r(h).start = F[y].start + b /\ r(h).length = F[y].length
    BY <2>3, <2>5 DEF ShiftedBy
  <2> HIDE DEF f, p, s, S, r, id
  <2>7. (h - 1) * s \in Nat
    BY <1>2, <1>3
  <2> DEFINE z == (h - 1) * s
  <2> HIDE DEF z
  <2>8. F[y].start = f.rlba + z /\ z \in Nat
    BY <2>4, <2>7 DEF z
  <2>9. r(h).start = b + f.rlba + z
    BY <1>1, <2>6, <2>8
  <2> QED
    BY <2>4, <2>6, <2>9 DEF z
<1> HIDE DEF f, p, s, S, id, a, c
<1>5. 1 \in 1 .. p /\ p \in 1 .. p
  BY <1>3
<1>6. 2 + a + 1 = 3 + a /\ 2 + a + p = 2 + c
  BY <1>3
<1>7. r(1) = R[3 + a] /\ r(p) = R[2 + c]
  BY <1>6
<1>8. r(1).start = b + f.rlba
  <2>1. (1 - 1) * s = 0
    BY <1>2
  <2>2. r(1).start = b + f.rlba + (1 - 1) * s
    BY <1>4, <1>5
  <2> HIDE DEF r
  <2> QED
    BY <1>1, <2>1, <2>2
<1>9. ASSUME NEW x \in (3 + a) + 1 .. 2 + c PROVE (R[x].start - R[x - 1].start) * S = R[x - 1].length
  <2> DEFINE h == x - a - 2
  <2>1. h \in 1 .. p /\ h - 1 \in 1 .. p /\ h - 1 < p /\ 2 + a + h = x /\ 2 + a + (h - 1) = x - 1
    BY <1>3
  <2>2. r(h) = R[x] /\ r(h - 1) = R[x - 1]
    BY <2>1
  <2> HIDE DEF h
  <2>3. r(h).start = b + f.rlba + (h - 1) * s
    BY <1>4, <2>1
  <2>4. r(h - 1).start = b + f.rlba + ((h - 1) - 1) * s /\ r(h - 1).length = s * S
    BY <1>4, <2>1
  <2>5. (h - 1) * s = ((h - 1) - 1) * s + s /\ ((h - 1) - 1) * s \in Nat
    BY <1>2, <2>1
  <2> HIDE DEF r
  <2> DEFINE z == ((h - 1) - 1) * s
  <2>6. r(h).start = b + f.rlba + (z + s) /\ r(h - 1).start = b + f.rlba + z /\ z \in Nat
    BY <2>3, <2>4, <2>5
  <2> HIDE DEF z
  <2>7. r(h).start - r(h - 1).start = s
    BY <1>1, <1>2, <2>6
  <2> QED
    BY <2>2, <2>4, <2>7
<1>10. (R[2 + c].start - R[3 + a].start) * S + R[2 + c].length = f.size
  <2>1. r(p).start = b + f.rlba + (p - 1) * s /\ r(p).length = f.size - (p - 1) * (s * S)
    <3>1. ~(p < p)
      BY <1>3
    <3> QED
      BY <1>4, <1>5, <3>1
  <2> DEFINE z == (p - 1) * s
             w == (p - 1) * (s * S)
  <2>2. z \in Nat /\ w \in Nat /\ z * S = w
    BY <1>2, <1>3
  <2> HIDE DEF r, z, w
  <2>3. r(p).start = b + f.rlba + z /\ r(p).length = f.size - w
    BY <2>1 DEF z, w
  <2>4. r(p).start - r(1).start = z
    BY <1>1, <1>8, <2>2, <2>3
  <2>5. (r(p).start - r(1).start) * S + r(p).length = w + (f.size - w)
    BY <2>2, <2>3, <2>4
  <2>6. w + (f.size - w) = f.size
    BY <1>1, <2>2
  <2> QED
    BY <1>7, <2>5, <2>6
<1>11. ASSUME NEW x \in 3 + a .. 2 + c PROVE R[x].id = id
  <2> DEFINE h == x - a - 2
  <2>1. h \in 1 .. p /\ 2 + a + h = x
    BY <1>3
  <2> HIDE DEF h
  <2>2. r(h).id = id
    BY <1>4, <2>1
  <2> QED
    BY <2>1, <2>2
<1>12. R[3 + a].start * S = (b + f.rlba) * S
  BY <1>7, <1>8
<1> HIDE DEF r
<1>13. RunTo(R, 3 + a, 2 + c, (b + f.rlba) * S, f.size, id)
  BY <1>9, <1>10, <1>11, <1>12 DEF RunTo, S
<1> QED
  BY <1>13 DEF a, c, f, S, id

\* What FilesFound asks of one file.
Mistaken(recs, id) == \E r \in Range(recs) : r.flag = "dir" /\ r.id = id
FileFound(fs, d, k) ==
    LET recs == dirList[d].content[fs]
        f == dirList[d].files[k]
        id == FileId(fs, f.name)
    IN  \/ Mistaken(recs, id)
        \/ \E i, j \in 3 .. Len(recs) :
              RecordsOf(recs, i, j, k) /\ RunTo(recs, i, j, fsBuf.fsBufSize + f.rlba * SECTOR_SIZE, f.size, id)

\* A record of a file that does not lead to it has been taken for that of a
\* directory.
LEMMA LeadsOrMistaken ==
    ASSUME BuildInv, ImageInv, pc = "ready", NEW fs \in FS, NEW d \in 1 .. Len(dirList),
           NEW V, Viewed(V, dirList, fs, Len(dirList)), LaidOut(V, tree, fs, d),
           Filed(V, tree, fs, Len(dirList), filesLba),
           NEW y \in 1 .. Len(FileRecs(fs, dirList[d].files))
    PROVE  LET F == FileRecs(fs, dirList[d].files)
               R == dirList[d].content[fs]
           IN  ShiftedBy(R, F, y, filesLba) \/ Mistaken(R, F[y].id)
<1> DEFINE n == Len(dirList)
           F == FileRecs(fs, dirList[d].files)
           R == dirList[d].content[fs]
           c == Len(dirList[d].children)
<1>1. tree \in Trees /\ Linked /\ ListOnce(dirList, tree) /\ ShortNames(n)
  BY DEF BuildInv, ImageInv, Enlisted, Recorded
<1>2. V[d].recs = R /\ V[d].files = dirList[d].files /\ V[d].children = dirList[d].children
  BY DEF Viewed
<1>3. c \in Nat /\ \A x \in 1 .. c : dirList[d].children[x] \in 2 .. n
  BY <1>1, DirTyped DEF ListOnce
<1>4. /\ Len(F) \in Nat /\ Len(R) = 2 + Len(F) + c /\ R \in Seq(RecSet) /\ R[2 + y].id = F[y].id
      /\ \A x \in 1 .. c : /\ R[2 + Len(F) + x].id = DirId(fs, NameOf(V, tree, dirList[d].children[x]))
                           /\ R[2 + Len(F) + x].flag = "dir"
  BY <1>2, ZenonT(60) DEF LaidOut
<1>5. \/ R[2 + y].start = F[y].start + filesLba /\ R[2 + y].length = F[y].length
      \/ \E x \in 1 .. c : R[2 + y].id = CheckId(fs, NameOf(V, tree, dirList[d].children[x]))
  BY <1>2, Zenon DEF Filed
<1>6. CASE R[2 + y].start = F[y].start + filesLba /\ R[2 + y].length = F[y].length
  BY <1>4, <1>6, Zenon DEF ShiftedBy
<1>7. CASE \E x \in 1 .. c : R[2 + y].id = CheckId(fs, NameOf(V, tree, dirList[d].children[x]))
  <2>1. PICK x \in 1 .. c : R[2 + y].id = CheckId(fs, NameOf(V, tree, dirList[d].children[x]))
    BY <1>7
  <2> DEFINE e == dirList[d].children[x]
             name == NameOf(V, tree, e)
             o == 2 + Len(F) + x
  <2>2. e \in 2 .. n /\ e \in 1 .. n
    BY <1>3
  <2>3. R[o].id = DirId(fs, name) /\ R[o].flag = "dir" /\ R[2 + y].id = CheckId(fs, name)
    BY <1>4, <2>1, Zenon
  <2> HIDE DEF e
  <2>4. name = tree.dirs[dirList[e].src].name /\ name \in Names
    BY <1>1, <2>2, NameShown
  <2>5. name.len < 108
    BY <1>1, <2>2, <2>4 DEF ShortNames
  <2> HIDE DEF name
  <2>6. CheckId(fs, name) = DirId(fs, name)
    BY <2>4, <2>5, ShortIsFound
  <2> HIDE DEF F, R, c
  <2>7. o \in 1 .. Len(R)
    BY <1>3, <1>4
  <2> HIDE DEF o
  <2>8. R[o] \in Range(R)
    BY <1>4, <2>7 DEF Range
  <2>9. R[o].flag = "dir" /\ R[o].id = F[y].id
    BY <1>4, <2>3, <2>6, Zenon
  <2>10. Mistaken(R, F[y].id)
    BY <2>8, <2>9, Zenon DEF Mistaken
  <2> QED
    BY <2>10 DEF F, R
<1> QED
  BY <1>5, <1>6, <1>7

LEMMA EachFileFound ==
    ASSUME BuildInv, ImageInv, pc = "ready", NEW fs \in FS, NEW d \in 1 .. Len(dirList),
           NEW k \in 1 .. Len(dirList[d].files)
    PROVE  FileFound(fs, d, k)
<1> DEFINE n == Len(dirList)
           V == View(dirList, fs)
           files == dirList[d].files
           F == FileRecs(fs, files)
           R == dirList[d].content[fs]
           id == FileId(fs, files[k].name)
           S == SECTOR_SIZE
<1>1. /\ tree \in Trees /\ Linked /\ Counted
      /\ Known(V, tree, fs, n, dirLba(fs), filesLba, dirsSizeSectors[fs])
  BY DEF BuildInv, ImageInv, Recorded, RecordedIn
<1>2. Viewed(V, dirList, fs, n) /\ n \in Nat
  BY <1>1, ListShown
<1> HIDE DEF V
<1>3. Laid(V, tree, fs, n) /\ Filed(V, tree, fs, n, filesLba)
  BY <1>1 DEF Known
<1>4. LaidOut(V, tree, fs, d)
  <2>1. Len(V) = n /\ V \in [1 .. Len(V) -> ViewSet] /\ n \in 0 .. Len(V)
    BY <1>2 DEF Viewed
  <2> QED
    BY <1>2, <1>3, <2>1, LaidIs
<1>5. filesLba \in Nat /\ files \in Seq(FileSet)
  BY <1>1, LbaTyped, DirTyped
<1>6. PICK e : FilesAt(e, F, fs, files)
  BY <1>5, FileRuns
<1>7. V[d].recs = R /\ V[d].files = files
  BY <1>2 DEF Viewed
<1>8. FlagsAs(R, F) /\ Len(R) \in Nat /\ Len(F) \in Nat /\ Len(R) >= 2 + Len(F)
  <2>1. R[1].flag = "dir" /\ R[2].flag = "dir" /\ \A y \in 1 .. Len(F) : R[2 + y].flag = F[y].flag
    BY <1>4, <1>7, Zenon DEF LaidOut
  <2>2. /\ Len(F) \in Nat /\ Len(V[d].children) \in Nat
        /\ Len(R) = 2 + Len(F) + Len(V[d].children)
    BY <1>4, <1>7, Zenon DEF LaidOut
  <2>3. FlagsAs(R, F)
    BY <2>1, Zenon DEF FlagsAs
  <2> DEFINE a == Len(R)
             b == Len(F)
             c == Len(V[d].children)
  <2>4. b \in Nat /\ c \in Nat /\ a = 2 + b + c
    BY <2>2
  <2> HIDE DEF a, b, c
  <2>5. a \in Nat /\ b \in Nat /\ a >= 2 + b
    BY <2>4
  <2> QED
    BY <2>3, <2>5 DEF a, b
<1>9. RecordsOf(R, 3 + e[k - 1], 2 + e[k], k)
  BY <1>6, <1>8, RunIs
<1>10. e[k - 1] \in Nat /\ e[k] \in Nat /\ e[k - 1] < e[k] /\ e[k] <= Len(F)
  BY <1>6, <1>8, FlagsOfFile
<1>11. CASE \A y \in e[k - 1] + 1 .. e[k] : ShiftedBy(R, F, y, filesLba)
  <2>1. RunTo(R, 3 + e[k - 1], 2 + e[k], (filesLba + files[k].rlba) * S, files[k].size, id)
    BY <1>5, <1>6, <1>10, <1>11, RunLeads
  <2>2. (filesLba + files[k].rlba) * S = fsBuf.fsBufSize + files[k].rlba * S
    <3>1. fsBuf.fsBufSize = filesLba * S
      BY DEF ImageInv, Imaged, ImageIs, SizesAre
    <3>2. files[k].rlba \in Nat
      <4>1. files[k] \in FileSet
        BY <1>5
      <4> QED
        BY <4>1 DEF FileSet
    <3>3. S \in Nat
      BY SectorAssumption
    <3> DEFINE a == filesLba
               b == files[k].rlba
    <3> HIDE DEF a, b, S
    <3>4. (a + b) * S = a * S + b * S
      BY <1>5, <3>2, <3>3, Times DEF a, b
    <3> QED
      BY <3>1, <3>4 DEF a, b
  <2> DEFINE i == 3 + e[k - 1]
             j == 2 + e[k]
  <2>3. i \in 3 .. Len(R) /\ j \in 3 .. Len(R)
    <3> DEFINE a == e[k - 1]
               b == e[k]
               r == Len(R)
               f == Len(F)
    <3>1. a \in Nat /\ b \in Nat /\ a < b /\ b <= f /\ r \in Nat /\ f \in Nat /\ r >= 2 + f
      BY <1>8, <1>10, Zenon
    <3> HIDE DEF a, b, r, f
    <3>2. 3 + a \in 3 .. r /\ 2 + b \in 3 .. r
      BY <3>1
    <3> QED
      BY <3>2 DEF a, b, r
  <2> HIDE DEF i, j
  <2>4. RecordsOf(R, i, j, k) /\ RunTo(R, i, j, fsBuf.fsBufSize + files[k].rlba * S, files[k].size, id)
    BY <1>9, <2>1, <2>2 DEF i, j
  <2> QED
    BY <2>3, <2>4, Zenon DEF FileFound
<1>12. CASE \E y \in e[k - 1] + 1 .. e[k] : ~ShiftedBy(R, F, y, filesLba)
  <2>1. PICK y \in e[k - 1] + 1 .. e[k] : ~ShiftedBy(R, F, y, filesLba)
    BY <1>12
  <2>2. y \in 1 .. Len(F)
    <3> HIDE DEF F
    <3> QED
      BY <1>8, <1>10, <2>1
  <2>3. Mistaken(R, F[y].id)
    BY <1>2, <1>3, <1>4, <2>1, <2>2, LeadsOrMistaken
  <2>4. F[y].id = id
    <3> DEFINE h == y - e[k - 1]
               p == Extents(files[k].size)
    <3>1. e[k] = e[k - 1] + p /\ p \in Nat
      BY <1>6 DEF FilesAt
    <3> HIDE DEF p
    <3>2. h \in 1 .. p /\ e[k - 1] + h = y
      BY <1>10, <2>1, <3>1
    <3> HIDE DEF h
    <3>3. Extent(F[e[k - 1] + h], fs, files[k], h)
      BY <1>6, <3>2 DEF FilesAt, p
    <3> QED
      BY <3>2, <3>3, Zenon DEF Extent
  <2> QED
    BY <2>3, <2>4, Zenon DEF FileFound
<1> QED
  BY <1>11, <1>12

\* The records of every file of every image lead to its bytes, from the first to
\* the last, in the place where read() looks for them, in either file system and
\* whatever the sizes of the files (buildContent(), fixDirLba(), generate()).
THEOREM FilesAreFound == Spec => []FilesFound
<1>1. ReadInv /\ ImageInv => FilesFound
  <2> SUFFICES ASSUME ReadInv, ImageInv, pc = "ready" PROVE FilesFound
    BY DEF FilesFound
  <2>1. BuildInv
    BY DEF ReadInv
  <2>2. \A fs \in FS : \A d \in 1 .. Len(dirList) : \A k \in 1 .. Len(dirList[d].files) : FileFound(fs, d, k)
    BY <2>1, EachFileFound
  <2> QED
    BY <2>2, Zenon DEF FilesFound, FileFound, Mistaken, RunTo
<1> QED
  BY <1>1, ReadInvariant, ImageInvariant, PTL

-----------------------------------------------------------------------------
(* What becomes of a folder *)

\* A path table has at most 262 bytes for each directory.
LEMMA TableBound ==
    ASSUME tree \in Trees, Linked, NEW fs \in FS, NEW i \in 0 .. Len(dirList)
    PROVE  TableSize(fs, i) \in Nat /\ TableSize(fs, i) <= 262 * i
<1> DEFINE n == Len(dirList)
           len == TableLens(fs)
<1>1. n \in Nat /\ \A k \in 1 .. n : len[k] \in 8 .. 262
  BY TablesSized, DirTyped
<1>2. PICK f : IsSum(f, n, 0, len) /\ \A k \in 0 .. n : TableSize(fs, k) = f[k]
  BY TablesSized
<1> HIDE DEF n, len
<1>3. f \in [0 .. n -> Nat] /\ f[0] = 0 /\ \A k \in 1 .. n : f[k] = f[k - 1] + len[k]
  BY <1>2 DEF IsSum
<1> DEFINE C == {m \in Nat : m <= n => f[m] <= 262 * m}
<1>4. 0 \in C
  BY <1>3
<1>5. ASSUME NEW m \in Nat, m \in C PROVE m + 1 \in C
  <2> SUFFICES ASSUME m + 1 <= n PROVE f[m + 1] <= 262 * (m + 1)
    OBVIOUS
  <2>1. m \in 0 .. n /\ m + 1 \in 1 .. n /\ (m + 1) - 1 = m /\ f[m] <= 262 * m
    BY <1>1, <1>5
  <2> DEFINE a == f[m]
             b == len[m + 1]
  <2>2. f[m + 1] = a + b /\ a \in Nat /\ b \in 8 .. 262 /\ a <= 262 * m
    BY <1>1, <1>3, <2>1
  <2> HIDE DEF a, b
  <2>3. a + b <= 262 * (m + 1)
    BY <2>2
  <2> QED
    BY <2>2, <2>3
<1>6. \A m \in Nat : m \in C
  <2> HIDE DEF C
  <2> QED
    BY <1>4, <1>5, SetInduction
<1>7. i \in 0 .. n
  BY DEF n
<1>8. f[i] \in Nat /\ f[i] <= 262 * i
  BY <1>1, <1>3, <1>6, <1>7
<1> QED
  BY <1>2, <1>7, <1>8

\* What Unsupported says of one directory.
TooMuch(d) ==
    \/ d > 1 /\ tree.dirs[d].name.len >= 108
    \/ \E i \in 1 .. Len(tree.files[d]) : tree.files[d][i].part # "plain"
    \/ (MostRecords(d) + Len(select_directories(d)) + 2) * SECTOR_SIZE > TEMP_BUF_SIZE
LEMMA Supported ==
    ASSUME ~Unsupported
    PROVE  /\ \A d \in 1 .. Len(tree.dirs) : ~TooMuch(d)
           /\ ~(Len(tree.dirs) * (8 + MAX_ISODIR) > TEMP_BUF_SIZE)
  BY Zenon DEF Unsupported, TooMuch

\* Files in one part are all listed.
LEMMA AllListed ==
    ASSUME tree \in Trees, NEW d \in 1 .. Len(tree.dirs),
           \A i \in 1 .. Len(tree.files[d]) : tree.files[d][i].part = "plain"
    PROVE  Listed(tree.files[d]) = tree.files[d]
<1> DEFINE files == tree.files[d]
           keep == {i \in 1 .. Len(files) : files[i].part # "other"}
<1>1. files \in Seq(TreeFiles)
  BY TreeTyped
<1>2. \A i \in 1 .. Len(files) : i \in keep
  OBVIOUS
<1> HIDE DEF files, keep
<1>3. scandir(files, keep) = files
  BY <1>1, <1>2, ScannedWhole
<1> QED
  BY <1>3 DEF Listed, files, keep

\* There are as many records as MostRecords() says.
LEMMA RecordsCounted ==
    ASSUME tree \in Trees, NEW d \in 1 .. Len(tree.dirs), NEW fs \in FS, NEW files \in Seq(FileSet),
           SameFiles(files, tree.files[d])
    PROVE  Len(FileRecs(fs, files)) = MostRecords(d) /\ MostRecords(d) \in Nat
<1> DEFINE T == tree.files[d]
           n == Len(T)
           ss == [i \in 1 .. n |-> [k \in 1 .. Extents(T[i].size) |-> i]]
           len == [i \in 1 .. n |-> Len(ss[i])]
<1>1. T \in Seq(TreeFiles) /\ n \in Nat /\ Len(files) = n
  BY TreeTyped DEF SameFiles
<1>2. ASSUME NEW i \in 1 .. n PROVE Extents(T[i].size) \in Nat /\ files[i].size = T[i].size
  <2>1. T[i] \in TreeFiles
    BY <1>1
  <2>2. T[i].size \in Nat
    BY <2>1 DEF TreeFiles
  <2>3. files[i].size = T[i].size
    BY DEF SameFiles
  <2> QED
    BY <2>2, <2>3, ExtentsTyped
<1>3. ASSUME NEW i \in 1 .. n PROVE ss[i] \in Seq(Nat) /\ Len(ss[i]) = Extents(T[i].size)
  <2> DEFINE p == Extents(T[i].size)
  <2>1. p \in Nat /\ i \in Nat
    BY <1>1, <1>2
  <2>2. ss[i] = [k \in 1 .. p |-> i]
    OBVIOUS
  <2> HIDE DEF p, ss
  <2> QED
    BY <2>1, <2>2 DEF p
<1>4. MostRecords(d) = Len(FlattenSeq(ss))
  BY DEF MostRecords
<1>5. ss \in [1 .. n -> Seq(Nat)]
  BY <1>3
<1> HIDE DEF ss
<1>6. ASSUME NEW i \in 1 .. n PROVE len[i] = Extents(T[i].size)
  <2>1. len[i] = Len(ss[i])
    OBVIOUS
  <2> QED
    BY <1>3, <2>1
<1> HIDE DEF n, T
<1>7. PICK e : IsSum(e, n, 0, len) /\ Len(FlattenSeq(ss)) = e[n]
  <2>1. \E e : IsSum(e, n, 0, [k \in 1 .. n |-> Len(ss[k])]) /\ Len(FlattenSeq(ss)) = e[n]
    BY <1>1, <1>5, FlattenParts
  <2> QED
    BY <2>1, Zenon
<1> HIDE DEF len
<1>8. PICK g : FilesAt(g, FileRecs(fs, files), fs, files)
  BY FileRuns
<1>9. /\ Len(FileRecs(fs, files)) = g[n] /\ g[0] = 0 /\ g \in [0 .. n -> Nat]
      /\ \A k \in 1 .. n : g[k] = g[k - 1] + Extents(files[k].size)
  BY <1>1, <1>8 DEF FilesAt
<1>10. LikeSum(g, n, 0, len)
  <2>1. ASSUME NEW k \in 1 .. n PROVE len[k] \in Nat /\ g[k] = g[k - 1] + len[k]
    <3>1. len[k] = Extents(files[k].size) /\ len[k] \in Nat
      BY <1>2, <1>6
    <3> QED
      BY <1>9, <3>1
  <2> QED
    BY <1>9, <2>1 DEF LikeSum
<1>11. g[n] = e[n] /\ g[n] \in Nat
  BY <1>1, <1>7, <1>10, SumUnique
<1> QED
  BY <1>4, <1>7, <1>9, <1>11

\* The records of a directory fit in tempBuf.
LEMMA RecordsFit ==
    ASSUME BuildInv, NEW fs \in FS, pc = fs, FewKids(dirList, tree),
           NEW s, s = dirList[cur].src, SameFiles(dirList[cur].files, tree.files[s]), ~TooMuch(s),
           NEW i \in 1 .. Len(DirRecords(fs))
    PROVE  DirRecords(fs)[i].pos + DirRecords(fs)[i].len < TEMP_BUF_SIZE
<1> DEFINE R == DirRecords(fs)
           F == Len(FileRecs(fs, dirList[cur].files))
           C == Len(dirList[cur].children)
           D == Len(select_directories(s))
           m == MostRecords(s)
           e == R[i].pos + R[i].len
<1>1. tree \in Trees /\ Linked /\ cur \in 1 .. Len(dirList)
  BY DEF BuildInv, Loops, FS
<1>2. s \in 1 .. Len(tree.dirs) /\ dirList[cur].files \in Seq(FileSet)
  BY <1>1, DirTyped DEF Linked
<1>3. F = m /\ m \in Nat
  BY <1>1, <1>2, RecordsCounted
<1>4. Len(R) = 2 + F + C /\ C \in Nat /\ InPlace(R)
  BY DirRecordsAre DEF Shaped
<1>5. C <= D /\ D \in Nat
  <2>1. C <= Len(SubsOf(tree, s))
    BY <1>1 DEF FewKids
  <2>2. SubsOf(tree, s) = select_directories(s)
    BY DEF SubsOf, select_directories
  <2> QED
    BY <1>1, <2>1, <2>2, SubsFound
<1>6. ~((m + D + 2) * SECTOR_SIZE > TEMP_BUF_SIZE)
  BY Zenon DEF TooMuch
<1>7. PICK q \in 0 .. i - 1 : In(e, q)
  BY <1>4 DEF InPlace
<1> HIDE DEF R, F, C, D, m, e
<1>8. q \in Nat /\ q < m + D + 2 /\ m + D + 2 \in Nat
  BY <1>3, <1>4, <1>5 DEF R
<1> DEFINE x == m + D + 2
<1> HIDE DEF x
<1>9. e \in Nat /\ e < x * SECTOR_SIZE
  BY <1>7, <1>8, InSector DEF x
<1>10. e < TEMP_BUF_SIZE
  <2> DEFINE y == x * SECTOR_SIZE
  <2>1. y \in Nat
    BY <1>8, SectorAssumption DEF x
  <2>2. ~(y > TEMP_BUF_SIZE) /\ e < y
    BY <1>6, <1>9 DEF x
  <2> HIDE DEF y
  <2> QED
    BY <1>9, <2>1, <2>2, TempBufAssumption
<1> QED
  BY <1>10 DEF e, R

\* A directory with a short name is found in its parent.
LEMMA ParentHasIt ==
    ASSUME BuildInv, Enlisted, Recorded, NEW fs \in FS, pc = fs, dirList[cur].parent # cur,
           tree.dirs[dirList[cur].src].name.len < 108
    PROVE  OwnRecord(fs) # 0
<1> DEFINE n == Len(dirList)
           V == View(dirList, fs)
           p == dirList[cur].parent
           name == tree.dirs[dirList[cur].src].name
           R == dirList[p].content[fs]
           F == Len(FileRecs(fs, V[p].files))
<1>1. /\ tree \in Trees /\ Linked /\ cur \in 1 .. n /\ ListOnce(dirList, tree)
      /\ Known(V, tree, fs, cur - 1, 0, 0, dirsSizeSectors[fs])
  BY DEF BuildInv, Loops, FS, Enlisted, Recorded, RecordedIn
<1>2. Viewed(V, dirList, fs, n) /\ n \in Nat
  BY <1>1, ListShown
<1> HIDE DEF V
<1>3. cur \in 2 .. n /\ p \in 1 .. cur - 1 /\ p \in 1 .. n /\ ChildOf(dirList, p, cur)
  <2>1. cur # 1
    BY <1>1 DEF ListOnce
  <2>2. cur \in 2 .. n
    BY <1>1, <1>2, <2>1
  <2>3. p \in 1 .. cur - 1 /\ ChildOf(dirList, p, cur)
    BY <1>1, <2>2 DEF ListOnce
  <2> HIDE DEF p
  <2> QED
    BY <1>2, <2>2, <2>3
<1>4. LaidOut(V, tree, fs, p)
  <2>1. Len(V) = n /\ V \in [1 .. Len(V) -> ViewSet]
    BY <1>2 DEF Viewed
  <2>2. cur - 1 \in 0 .. Len(V)
    BY <1>2, <1>3, <2>1
  <2>3. Laid(V, tree, fs, cur - 1)
    BY <1>1 DEF Known
  <2> QED
    BY <1>2, <1>3, <2>1, <2>2, <2>3, LaidIs
<1>5. V[p].recs = R /\ V[p].children = dirList[p].children
  BY <1>2, <1>3 DEF Viewed
<1>6. PICK i \in 1 .. Len(dirList[p].children) : dirList[p].children[i] = cur
  BY <1>3 DEF ChildOf
<1>7. NameOf(V, tree, cur) = name /\ name \in Names
  BY <1>1, <1>2, NameShown
<1> DEFINE o == 2 + F + i
           C == Len(dirList[p].children)
<1>8. /\ F \in Nat /\ C \in Nat /\ Len(R) = 2 + F + C /\ InPlace(R)
      /\ \A x \in 1 .. C : R[2 + F + x].id = DirId(fs, NameOf(V, tree, dirList[p].children[x]))
      /\ \A x \in 3 .. Len(R) : R[x].whole = (Even(39 + len_fi(fs, R[x].id)) < 256)
  <2>1. F \in Nat /\ C \in Nat /\ Len(R) = 2 + F + C /\ InPlace(R)
    BY <1>4, <1>5, Zenon DEF LaidOut
  <2>2. \A x \in 1 .. C : R[2 + F + x].id = DirId(fs, NameOf(V, tree, dirList[p].children[x]))
    BY <1>4, <1>5, Zenon DEF LaidOut
  <2>3. \A x \in 3 .. Len(R) : R[x].whole = (Even(39 + len_fi(fs, R[x].id)) < 256)
    <3> DEFINE Q == V[p].recs
    <3>1. \A x \in 3 .. Len(Q) : Q[x].whole = (Even(39 + len_fi(fs, Q[x].id)) < 256)
      BY <1>4, Zenon DEF LaidOut
    <3> HIDE DEF Q, R
    <3>2. Q = R
      BY <1>5 DEF Q
    <3> QED
      BY <3>1, <3>2
  <2> QED
    BY <2>1, <2>2, <2>3
<1>9. R[o].id = DirId(fs, name)
  BY <1>6, <1>7, <1>8, Zenon
<1> HIDE DEF R, F, n, C
<1>10. i \in 1 .. C
  BY DEF C
<1>11. o \in 3 .. Len(R) /\ o \in 1 .. Len(R) /\ Len(R) \in Nat
  BY <1>8, <1>10
<1> HIDE DEF o, name
<1>12. CheckId(fs, name) = DirId(fs, name) /\ Even(39 + len_fi(fs, DirId(fs, name))) < 256
  BY <1>7, ShortIsFound DEF name
<1>13. R[o].id = CheckId(fs, name) /\ R[o].whole
  <2>1. R[o].whole = (Even(39 + len_fi(fs, R[o].id)) < 256)
    BY <1>8, <1>11, Zenon
  <2>2. Even(39 + len_fi(fs, R[o].id)) < 256
    BY <1>9, <1>12
  <2> QED
    BY <1>9, <1>12, <2>1, <2>2, Zenon
<1>14. findDirRecord(CheckId(fs, name), R) # 0
  BY <1>8, <1>11, <1>13, FoundIs
<1> QED
  BY <1>14 DEF OwnRecord, R, name

\* buildContent() does not fail by itself.
LEMMA DirBuilds ==
    ASSUME BuildInv, Enlisted, Recorded, NEW fs \in FS, pc = fs, FewKids(dirList, tree),
           FilesScanned(dirList, tree, Len(dirList)), ~Unsupported
    PROVE  Builds(fs)
<1> DEFINE d == dirList[cur]
           s == d.src
           T == tree.files[s]
           R == DirRecords(fs)
<1>1. tree \in Trees /\ Linked /\ cur \in 1 .. Len(dirList) /\ ListOnce(dirList, tree)
  BY DEF BuildInv, Loops, FS, Enlisted
<1>2. s \in 1 .. Len(tree.dirs)
  BY <1>1 DEF Linked
<1>3. ~TooMuch(s)
  BY <1>2, Supported
<1>4. \A i \in 1 .. Len(T) : T[i].part = "plain"
  BY <1>3, Zenon DEF TooMuch
<1>5. Listed(T) = T
  BY <1>1, <1>2, <1>4, AllListed
<1>6. SameFiles(d.files, Listed(T))
  BY <1>1, Zenon DEF FilesScanned
<1>7. SameFiles(d.files, T)
  BY <1>5, <1>6
<1>8. ASSUME NEW i \in 1 .. Len(d.files) PROVE ~d.files[i].multipart
  <2>1. i \in 1 .. Len(T) /\ d.files[i].multipart = (T[i].part = "first")
    BY <1>7 DEF SameFiles
  <2>2. T[i].part = "plain"
    BY <1>4, <2>1
  <2>3. "plain" # "first"
    OBVIOUS
  <2> QED
    BY <2>1, <2>2, <2>3, Zenon
<1>9. ASSUME NEW i \in 3 .. Len(R) PROVE R[i].pos + R[i].len < TEMP_BUF_SIZE
  <2>1. Len(R) \in Nat
    BY DirRecordsTyped
  <2>2. i \in 1 .. Len(R)
    <3> HIDE DEF R
    <3> QED
      BY <2>1
  <2> QED
    BY <1>3, <1>7, <2>2, RecordsFit
<1>10. ASSUME d.parent # cur PROVE OwnRecord(fs) # 0
  <2>1. cur # 1
    BY <1>1, <1>10 DEF ListOnce
  <2>2. cur \in 2 .. Len(dirList)
    BY <1>1, <2>1, DirTyped
  <2>3. s # 1
    BY <1>1, <2>2 DEF ListOnce
  <2>4. s > 1 /\ ~(s > 1 /\ tree.dirs[s].name.len >= 108)
    <3>1. ~(s > 1 /\ tree.dirs[s].name.len >= 108)
      BY <1>3, Zenon DEF TooMuch
    <3>2. Len(tree.dirs) \in Nat
      BY <1>1, TreeTyped
    <3> HIDE DEF s
    <3> QED
      BY <1>2, <2>3, <3>1, <3>2
  <2>5. tree.dirs[s].name \in Names
    BY <1>1, <1>2, TreeTyped
  <2>6. tree.dirs[s].name.len \in Nat
    BY <2>5 DEF Names
  <2>7. tree.dirs[s].name.len < 108
    BY <2>4, <2>6
  <2> QED
    BY <1>10, <2>7, ParentHasIt
<1> QED
  BY <1>8, <1>9, <1>10, Zenon DEF Builds

LEMMA UnsupportedStays ==
    ASSUME tree' = tree, Unsupported
    PROVE  Unsupported'
  BY DEF Unsupported, MostRecords, select_directories

LEMMA KidsSame ==
    ASSUME NEW L, NEW M, NEW t, Len(L) \in Nat, SameShape(L, M), FewKids(L, t)
    PROVE  FewKids(M, t)
  BY DEF FewKids, SameShape

LEMMA ScannedSame ==
    ASSUME NEW L, NEW M, NEW t, NEW n \in Nat, n <= Len(L), Len(L) \in Nat, SameShape(L, M),
           \A k \in 1 .. n : M[k].files = L[k].files, FilesScanned(L, t, n)
    PROVE  FilesScanned(M, t, n)
<1> SUFFICES ASSUME NEW k \in 1 .. n PROVE SameFiles(M[k].files, Listed(t.files[M[k].src]))
  BY DEF FilesScanned
<1>1. k \in 1 .. Len(L)
  OBVIOUS
<1>2. M[k].files = L[k].files /\ M[k].src = L[k].src
  BY <1>1 DEF SameShape
<1>3. SameFiles(L[k].files, Listed(t.files[L[k].src]))
  BY DEF FilesScanned
<1> QED
  BY <1>2, <1>3, Zenon

\* A step over the records only.
LEMMA EndedSame ==
    ASSUME Ended, tree' = tree, Len(dirList) \in Nat, SameShape(dirList, dirList'),
           \A k \in 1 .. Len(dirList) : dirList'[k].files = dirList[k].files,
           faults' = faults, pc \in Built, pc' \in Built
    PROVE  Ended'
<1> DEFINE n == Len(dirList)
<1>1. FewKids(dirList', tree)
  BY KidsSame DEF Ended
<1>2. ASSUME "scandir_files" \notin faults PROVE FilesScanned(dirList', tree, Len(dirList'))
  <2>1. FilesScanned(dirList, tree, n)
    BY <1>2 DEF Ended
  <2>2. n <= n
    OBVIOUS
  <2>3. FilesScanned(dirList', tree, n)
    BY <2>1, <2>2, ScannedSame
  <2>4. Len(dirList') = n
    BY DEF SameShape
  <2> QED
    BY <2>3, <2>4
<1>3. pc' # "files" /\ pc' \notin Stopped
  BY DEF Built, Stopped
<1> QED
  BY <1>1, <1>2, <1>3 DEF Ended

\* The end, with the list as it was or without it.
LEMMA EndedStopped ==
    ASSUME Ended, tree' = tree, dirList' = dirList \/ dirList' = << >>,
           pc' = "deleted" \/ pc' = "open" \/ (pc' \in Stopped /\ (faults' = {} => Unsupported))
    PROVE  Ended'
<1>1. FewKids(dirList', tree)
  <2>1. CASE dirList' = dirList
    BY <2>1 DEF Ended
  <2>2. CASE dirList' = << >>
    BY <2>2 DEF FewKids
  <2> QED
    BY <2>1, <2>2
<1>2. pc' \notin Built /\ pc' # "files"
  BY DEF Built, Stopped
<1>3. pc' \in Stopped /\ faults' = {} => Unsupported'
  <2> SUFFICES ASSUME pc' \in Stopped, faults' = {} PROVE Unsupported'
    OBVIOUS
  <2>1. Unsupported
    BY DEF Stopped
  <2> QED
    BY <2>1, UnsupportedStays
<1> QED
  BY <1>1, <1>2, <1>3 DEF Ended

LEMMA OpenEnds ==
    ASSUME BuildInv, Ended, Open
    PROVE  Ended'
<1>1. tree' = tree /\ tree \in Trees
  BY DEF Open, BuildInv
<1>2. CASE dirList' = dirList /\ pc' \in Stopped /\ faults' # {}
  BY <1>1, <1>2, EndedStopped
<1>3. CASE pc' = "dirs" /\ dirList' = <<NewDir(1, 1)>>
  <2>1. /\ Len(dirList') = 1 /\ Len(dirList'[1].children) = 0 /\ dirList'[1].src = 1
    BY <1>3 DEF NewDir
  <2>2. SubsOf(tree, 1) = select_directories(1)
    BY DEF SubsOf, select_directories
  <2>3. Len(SubsOf(tree, 1)) \in Nat
    BY <1>1, <2>2, SubsFound
  <2>4. FewKids(dirList', tree)
    BY <2>1, <2>3 DEF FewKids
  <2> QED
    BY <1>1, <1>3, <2>4 DEF Ended, Built, Stopped
<1>4. \/ dirList' = dirList /\ pc' \in Stopped /\ faults' # {}
      \/ pc' = "dirs" /\ dirList' = <<NewDir(1, 1)>>
  BY DEF Open, get_title_id, GenerateFails, Fault, Return, Stopped
<1> QED
  BY <1>2, <1>3, <1>4

LEMMA ScanDirsEnds ==
    ASSUME BuildInv, Ended, ScanDirs
    PROVE  Ended'
<1> DEFINE s == dirList[cur].src
           subs == select_directories(s)
           n == Len(dirList)
<1>1. tree' = tree /\ tree \in Trees /\ Linked /\ Loops /\ pc = "dirs" /\ n \in Nat
  BY DirTyped DEF ScanDirs, BuildInv
<1>2. CASE dirList' = dirList /\ pc' = "failed" /\ faults' # {}
  BY <1>1, <1>2, EndedStopped DEF Stopped
<1>3. CASE /\ dirList' = [dirList EXCEPT ![cur].children = [i \in 1 .. Len(subs) |-> n + i]]
                         \o [i \in 1 .. Len(subs) |-> NewDir(subs[i], cur)]
           /\ Advance(dirList', "files")
           /\ NoFault
  <2>1. ScannedTo(dirList, dirList', cur, subs)
    BY <1>1, <1>3, DirsScanned, Zenon
  <2>2. SubsOf(tree, s) = subs /\ cur \in 1 .. n
    BY <1>1 DEF SubsOf, select_directories, Loops
  <2>3. \A d : Len(SubsOf(tree, d)) \in Nat
    <3>1. ASSUME NEW d PROVE Len(SubsOf(tree, d)) \in Nat
      <4>1. SubsOf(tree, d) = select_directories(d)
        BY DEF SubsOf, select_directories
      <4> QED
        BY <1>1, <4>1, SubsFound
    <3> QED
      BY <3>1
  <2> HIDE DEF subs
  <2>4. ASSUME NEW k \in 1 .. Len(dirList')
        PROVE  Len(dirList'[k].children) <= Len(SubsOf(tree, dirList'[k].src))
    <3>1. Len(dirList') = n + Len(subs) /\ Len(subs) \in Nat
      BY <2>1 DEF ScannedTo
    <3>2. CASE k = cur
      <4>1. dirList'[k].src = s /\ Len(dirList'[k].children) = Len(subs)
        BY <2>1, <2>2, <3>2 DEF ScannedTo
      <4> QED
        BY <2>2, <3>1, <4>1
    <3>3. CASE k \in 1 .. n /\ k # cur
      <4>1. dirList'[k].src = dirList[k].src /\ dirList'[k].children = dirList[k].children
        BY <2>1, <3>3 DEF ScannedTo
      <4>2. Len(dirList[k].children) <= Len(SubsOf(tree, dirList[k].src))
        BY <3>3 DEF Ended, FewKids
      <4> QED
        BY <4>1, <4>2
    <3>4. CASE k \notin 1 .. n
      <4> DEFINE i == k - n
      <4>1. i \in 1 .. Len(subs) /\ k = n + i
        <5> HIDE DEF n
        <5> QED
          BY <1>1, <3>1, <3>4
      <4> HIDE DEF i
      <4>2. dirList'[k].children = << >>
        BY <2>1, <4>1 DEF ScannedTo
      <4>3. Len(SubsOf(tree, dirList'[k].src)) \in Nat
        BY <2>3
      <4> QED
        BY <4>2, <4>3
    <3> QED
      BY <3>2, <3>3, <3>4
  <2>5. FewKids(dirList', tree)
    BY <2>4 DEF FewKids
  <2>6. pc' \in {"dirs", "files"} /\ (pc' = "files" => cur' = 1)
    BY <1>1, <1>3 DEF Advance
  <2>7. pc' = "files" => FilesScanned(dirList', tree, cur' - 1)
    BY <2>6 DEF FilesScanned
  <2> QED
    BY <1>1, <2>5, <2>6, <2>7 DEF Ended, Built, Stopped
<1>4. \/ dirList' = dirList /\ pc' = "failed" /\ faults' # {}
      \/ /\ dirList' = [dirList EXCEPT ![cur].children = [i \in 1 .. Len(subs) |-> n + i]]
                         \o [i \in 1 .. Len(subs) |-> NewDir(subs[i], cur)]
         /\ Advance(dirList', "files")
         /\ NoFault
  BY DEF ScanDirs, Fault, Return
<1> QED
  BY <1>2, <1>3, <1>4

\* A name that is passed over is that of a part.
LEMMA PassedOver ==
    ASSUME tree \in Trees, NEW d \in 1 .. Len(tree.dirs), FileList(d, Listed(tree.files[d])) # << >>,
           tree.files[d][1].part = "other"
    PROVE  Unsupported
<1> DEFINE T == tree.files[d]
           out == Listed(T)
           keep == {i \in 1 .. Len(T) : T[i].part # "other"}
<1>1. T \in Seq(TreeFiles) /\ Len(T) \in Nat
  BY TreeTyped
<1>2. Len(T) # 0
  <2> SUFFICES ASSUME Len(T) = 0 PROVE FALSE
    OBVIOUS
  <2>1. out = scandir(T, keep)
    BY DEF Listed
  <2>2. PICK g : IsScan(out, g, T, Len(T), keep)
    BY <1>1, <2>1, ScannedOnce
  <2>3. out \in Seq(TreeFiles)
    BY <1>1, <2>1, Scanned
  <2> HIDE DEF out
  <2>4. Len(out) \in Nat /\ g \in [1 .. Len(out) -> 1 .. Len(T)]
    BY <2>2, <2>3 DEF IsScan
  <2>5. Len(out) = 0
    <3> SUFFICES ASSUME Len(out) # 0 PROVE FALSE
      OBVIOUS
    <3>1. 1 \in 1 .. Len(out)
      BY <2>4
    <3>2. g[1] \in 1 .. Len(T)
      BY <2>4, <3>1
    <3> QED
      BY <1>1, <3>2
  <2>6. FileList(d, out) = << >>
    BY <2>5 DEF FileList
  <2> QED
    BY <2>6 DEF out
<1>3. 1 \in 1 .. Len(T) /\ T[1].part # "plain"
  BY <1>1, <1>2
<1> QED
  BY <1>3, Zenon DEF Unsupported

LEMMA ScanFilesEnds ==
    ASSUME BuildInv, Ended, ScanFiles
    PROVE  Ended'
<1> DEFINE s == dirList[cur].src
           list == FileList(s, Listed(select_files(s)))
           n == Len(dirList)
<1>1. /\ pc = "files" /\ tree' = tree /\ cur \in 1 .. n /\ n \in Nat /\ SameShape(dirList, dirList')
      /\ \A k \in 1 .. n : k # cur => dirList'[k].files = dirList[k].files
      /\ \/ pc' \in {"failed", "crashed"} /\ cur' = cur
         \/ pc' = "files" /\ cur' = cur + 1 /\ cur < n
         \/ pc' = "iso" /\ cur' = 1 /\ cur = n
  BY FilesStep
<1>2. tree \in Trees /\ Linked /\ filesSizeSectors \in Nat
  BY DEF BuildInv, Counted
<1>3. s \in 1 .. Len(tree.dirs)
  BY <1>1, <1>2 DEF Linked
<1>4. FewKids(dirList', tree)
  BY <1>1, KidsSame DEF Ended
<1>5. \/ pc' \in Stopped /\ dirList' = dirList /\ faults' # {}
      \/ "scandir_files" \in faults' /\ pc' \notin Stopped
      \/ /\ pc' = "crashed" /\ dirList' = dirList
         /\ list # << >> /\ tree.files[s][1].part = "other"
      \/ pc' \notin Stopped /\ faults' = faults /\ dirList' = [dirList EXCEPT ![cur].files = list]
  BY <1>1 DEF ScanFiles, Fault, NoFault, Return, Advance, Stopped, select_files
<1>6. CASE pc' \in Stopped /\ dirList' = dirList /\ faults' # {}
  BY <1>1, <1>6, EndedStopped
<1>7. CASE "scandir_files" \in faults' /\ pc' \notin Stopped
  BY <1>1, <1>4, <1>7 DEF Ended
<1>8. CASE /\ pc' = "crashed" /\ dirList' = dirList
           /\ list # << >> /\ tree.files[s][1].part = "other"
  <2>1. Unsupported
    BY <1>2, <1>3, <1>8, PassedOver DEF select_files
  <2> QED
    BY <1>1, <1>8, <2>1, EndedStopped DEF Stopped
<1>9. CASE pc' \notin Stopped /\ faults' = faults /\ dirList' = [dirList EXCEPT ![cur].files = list]
  <2>1. SameFiles(list, Listed(tree.files[s]))
    BY <1>2, <1>3, ListTyped
  <2>2. dirList'[cur].files = list /\ dirList'[cur].src = s
    BY <1>1, <1>2, <1>9, DirTyped DEF SameShape, Linked, DirSet
  <2> HIDE DEF list
  <2>3. ASSUME "scandir_files" \notin faults PROVE FilesScanned(dirList', tree, cur)
    <3> SUFFICES ASSUME NEW k \in 1 .. cur
                 PROVE  SameFiles(dirList'[k].files, Listed(tree.files[dirList'[k].src]))
      BY DEF FilesScanned
    <3>1. CASE k = cur
      BY <2>1, <2>2, <3>1, Zenon
    <3>2. CASE k # cur
      <4>1. k \in 1 .. cur - 1 /\ k \in 1 .. n
        BY <1>1, <3>2
      <4>2. SameFiles(dirList[k].files, Listed(tree.files[dirList[k].src]))
        BY <1>1, <2>3, <4>1 DEF Ended, FilesScanned
      <4>3. dirList'[k].files = dirList[k].files /\ dirList'[k].src = dirList[k].src
        BY <1>1, <3>2, <4>1 DEF SameShape
      <4> QED
        BY <4>2, <4>3, Zenon
    <3> QED
      BY <3>1, <3>2
  <2>4. Len(dirList') = n
    BY <1>1 DEF SameShape
  <2>5. CASE pc' = "files" /\ cur' = cur + 1
    <3>1. cur' - 1 = cur
      BY <1>1, <2>5
    <3> QED
      BY <1>1, <1>4, <1>9, <2>3, <2>5, <3>1 DEF Ended, Built, Stopped
  <2>6. CASE pc' = "iso" /\ cur = n
    BY <1>1, <1>4, <1>9, <2>3, <2>4, <2>6 DEF Ended, Built, Stopped
  <2> QED
    BY <1>1, <1>9, <2>5, <2>6 DEF Stopped
<1> QED
  BY <1>5, <1>6, <1>7, <1>8, <1>9

LEMMA BuildContentEnds ==
    ASSUME BuildInv, Enlisted, Recorded, Ended, NEW fs \in FS, BuildContent(fs)
    PROVE  Ended'
<1> DEFINE n == Len(dirList)
<1>1. /\ pc = fs /\ tree' = tree /\ n \in Nat
      /\ \/ /\ pc' = "failed" /\ dirList' = dirList
            /\ Fault("stat") \/ (NoFault /\ ~Builds(fs))
         \/ /\ DirBuilt(dirList, dirList', Len(dirList), fs, cur, NewContent(fs), NewSize(fs),
                        dirList[cur].parent, NewUp(fs))
            /\ Advance(dirList', IF fs = "iso" THEN "joliet" ELSE "tables")
            /\ NoFault
  BY ContentBuilt
<1>2. pc \in Built
  BY <1>1 DEF FS, Built
<1>3. CASE pc' = "failed" /\ dirList' = dirList /\ Fault("stat")
  <2>1. faults' # {}
    BY <1>3 DEF Fault
  <2> QED
    BY <1>1, <1>3, <2>1, EndedStopped DEF Stopped
<1>4. CASE pc' = "failed" /\ dirList' = dirList /\ NoFault /\ ~Builds(fs)
  <2>1. ASSUME faults' = {} PROVE Unsupported
    <3>1. "scandir_files" \notin faults
      BY <1>4, <2>1 DEF NoFault
    <3>2. FilesScanned(dirList, tree, n) /\ FewKids(dirList, tree)
      BY <1>2, <3>1 DEF Ended
    <3> QED
      BY <1>1, <1>4, <3>2, DirBuilds
  <2> QED
    BY <1>1, <1>4, <2>1, EndedStopped DEF Stopped
<1>5. CASE /\ DirBuilt(dirList, dirList', Len(dirList), fs, cur, NewContent(fs), NewSize(fs),
                       dirList[cur].parent, NewUp(fs))
           /\ Advance(dirList', IF fs = "iso" THEN "joliet" ELSE "tables")
           /\ NoFault
  <2>1. /\ dirList' \in [1 .. n -> DirSet]
        /\ \A k \in 1 .. n : /\ dirList'[k].src = dirList[k].src /\ dirList'[k].parent = dirList[k].parent
                             /\ dirList'[k].children = dirList[k].children
                             /\ dirList'[k].files = dirList[k].files
    BY <1>5 DEF DirBuilt
  <2>2. Len(dirList') = n
    BY <1>1, <2>1
  <2>3. SameShape(dirList, dirList')
    BY <2>1, <2>2 DEF SameShape
  <2>4. pc' \in Built /\ faults' = faults
    BY <1>1, <1>5 DEF Advance, NoFault, Built, FS
  <2> QED
    BY <1>1, <1>2, <2>1, <2>3, <2>4, EndedSame
<1> QED
  BY <1>1, <1>3, <1>4, <1>5

LEMMA BuildPathTablesEnds ==
    ASSUME BuildInv, Enlisted, Ended, BuildPathTables
    PROVE  Ended'
<1> DEFINE n == Len(dirList)
           N == Len(tree.dirs)
<1>1. /\ pc = "tables" /\ tree' = tree /\ faults' = faults
      /\ tree \in Trees /\ Linked /\ ListOnce(dirList, tree)
  BY DEF BuildPathTables, BuildInv, Enlisted
<1>2. n \in Nat /\ N \in Nat /\ n <= N
  <2>1. n \in Nat /\ N \in Nat
    BY <1>1, DirTyped, TreeTyped
  <2>2. \A k \in 1 .. n : dirList[k].src \in 1 .. N
    BY <1>1 DEF Linked
  <2> QED
    BY <1>1, <2>1, <2>2, NoMoreDirs
<1>3. CASE pc' = "fix" /\ dirList' = dirList
  <2>1. SameShape(dirList, dirList')
    BY <1>3 DEF SameShape
  <2> QED
    BY <1>1, <1>2, <1>3, <2>1, EndedSame DEF Built
<1>5. \A i \in 1 .. Entries : i \in 1 .. n
  BY <1>2, NumberAssumption DEF Entries, Smaller
<1>4. CASE /\ \E fs \in FS, i \in 1 .. Entries : TableSize(fs, i - 1) + 8 + MAX_ISODIR > TEMP_BUF_SIZE
           /\ pc' = "failed" /\ dirList' = << >>
  <2>1. PICK fs \in FS, i \in 1 .. n : TableSize(fs, i - 1) + 8 + MAX_ISODIR > TEMP_BUF_SIZE
    BY <1>4, <1>5
  <2> DEFINE x == TableSize(fs, i - 1)
  <2>2. i - 1 \in 0 .. n
    BY <1>2
  <2>3. x \in Nat /\ x <= 262 * (i - 1)
    BY <1>1, <2>2, TableBound
  <2>4. x + 8 + 254 > TEMP_BUF_SIZE
    BY <2>1 DEF MAX_ISODIR
  <2> HIDE DEF x, n, N
  <2>5. N * (8 + 254) > TEMP_BUF_SIZE
    BY <1>2, <2>3, <2>4, TempBufAssumption
  <2>6. Unsupported
    BY <2>5 DEF Unsupported, MAX_ISODIR, N
  <2> QED
    BY <1>1, <1>4, <2>6, EndedStopped DEF Stopped
<1> QED
  BY <1>3, <1>4 DEF BuildPathTables, Return, Reset

LEMMA BuildEnds ==
    ASSUME BuildInv, Enlisted, Recorded, Ended, BuildNext
    PROVE  Ended'
<1>1. CASE FixLba
  BY <1>1, FixLbaStep, EndedSame DEF Built
<1>2. CASE Write
  <2>1. pc = "write" /\ pc' = "ready" /\ UNCHANGED <<tree, dirList, faults>>
    BY <1>2 DEF Write, Return, listVars
  <2>2. Len(dirList) \in Nat /\ SameShape(dirList, dirList')
    BY <2>1, DirTyped DEF BuildInv, SameShape
  <2> QED
    BY <2>1, <2>2, EndedSame DEF Built
<1> QED
  BY <1>1, <1>2, OpenEnds, ScanDirsEnds, ScanFilesEnds, BuildContentEnds, BuildPathTablesEnds DEF BuildNext

LEMMA EndedUnchanged ==
    ASSUME Ended, UNCHANGED buildVars
    PROVE  Ended'
<1>1. UNCHANGED <<tree, pc, dirList, cur, faults>>
  BY DEF buildVars
<1>2. FewKids(dirList', tree')
  BY <1>1 DEF Ended
<1>3. pc' = "files" /\ "scandir_files" \notin faults' => FilesScanned(dirList', tree', cur' - 1)
  BY <1>1 DEF Ended
<1>4. pc' \in Built /\ "scandir_files" \notin faults' => FilesScanned(dirList', tree', Len(dirList'))
  BY <1>1 DEF Ended
<1>5. pc' \in Stopped /\ faults' = {} => Unsupported'
  BY <1>1, UnsupportedStays DEF Ended
<1> QED
  BY <1>2, <1>3, <1>4, <1>5 DEF Ended

LEMMA EndedInvariant == Spec => []Ended
<1>1. Init => Ended
  BY DEF Init, BuildInit, Ended, FewKids, Built, Stopped
<1>2. ASSUME ReadInv, ImageInv, Ended, [Next]_vars PROVE Ended'
  <2>1. BuildInv /\ Enlisted /\ Recorded
    BY <1>2 DEF ReadInv, ImageInv
  <2>2. CASE BuildNext /\ UNCHANGED readVars
    BY <1>2, <2>1, <2>2, BuildEnds
  <2>3. CASE Delete
    BY <1>2, <2>3, EndedStopped DEF Delete, Reset
  <2>4. CASE Opened \/ Seek \/ ConsoleRead \/ ChangeFile \/ Dump \/ Over \/ UNCHANGED vars
    <3>1. UNCHANGED buildVars
      BY <2>4, Zenon DEF Opened, Seek, ConsoleRead, ChangeFile, Dump, Over, vars
    <3> QED
      BY <1>2, <3>1, EndedUnchanged
  <2> QED
    BY <1>2, <2>2, <2>3, <2>4 DEF Next
<1> QED
  BY <1>1, <1>2, ReadInvariant, ImageInvariant, PTL DEF Spec

\* The list of an image has all the directories of the folder: one that is
\* missing would be in one that is missing, and has a number before it.
LEMMA AllDirsListed ==
    ASSUME tree \in Trees, Linked, Enlisted, pc \in Building
    PROVE  /\ \A c \in 1 .. Len(tree.dirs) : \E k \in 1 .. Len(dirList) : dirList[k].src = c
           /\ Len(dirList) = Len(tree.dirs)
<1> DEFINE n == Len(dirList)
           N == Len(tree.dirs)
           Has(c) == \E k \in 1 .. n : dirList[k].src = c
<1>1. n \in Nat /\ N \in Nat /\ n >= 1 /\ ListOnce(dirList, tree)
  BY DirTyped, TreeTyped DEF Enlisted
<1>2. \A k \in 1 .. n : Complete(dirList, tree, k) /\ dirList[k].src \in 1 .. N
  BY DEF Enlisted, Linked
<1>3. \A c \in 2 .. N : tree.dirs[c].up \in 1 .. c - 1
  BY TreesAssumption
<1> DEFINE C == {m \in Nat : \A c \in 1 .. N : c <= m => Has(c)}
<1>4. 0 \in C
  BY <1>1
<1>5. ASSUME NEW m \in Nat, m \in C PROVE m + 1 \in C
  <2> SUFFICES ASSUME NEW c \in 1 .. N, c <= m + 1 PROVE Has(c)
    OBVIOUS
  <2>1. CASE c <= m
    BY <1>5, <2>1
  <2>2. CASE c = 1
    <3>1. 1 \in 1 .. n /\ dirList[1].src = 1
      BY <1>1 DEF ListOnce
    <3> QED
      BY <2>2, <3>1
  <2>3. CASE c # 1 /\ ~(c <= m)
    <3> DEFINE u == tree.dirs[c].up
    <3>1. c \in 2 .. N /\ c = m + 1
      BY <1>1, <2>3
    <3>2. u \in 1 .. c - 1
      BY <1>3, <3>1
    <3> HIDE DEF u
    <3>3. u \in 1 .. N /\ u <= m
      BY <1>1, <3>1, <3>2
    <3>4. PICK k \in 1 .. n : dirList[k].src = u
      BY <1>5, <3>3
    <3>5. Complete(dirList, tree, k)
      BY <1>2
    <3> QED
      BY <3>1, <3>4, <3>5 DEF Complete, u
  <2> QED
    BY <2>1, <2>2, <2>3
<1>6. \A m \in Nat : m \in C
  <2> HIDE DEF C
  <2> QED
    BY <1>4, <1>5, SetInduction
<1>7. \A c \in 1 .. N : Has(c)
  <2>1. N \in C
    BY <1>1, <1>6
  <2> HIDE DEF Has, N
  <2> QED
    BY <1>1, <2>1
<1>8. n <= N
  BY <1>1, <1>2, NoMoreDirs
<1>9. N <= n
  <2> DEFINE f == [k \in 1 .. n |-> dirList[k].src]
  <2>1. f \in [1 .. n -> 1 .. N] /\ \A c \in 1 .. N : \E k \in 1 .. n : f[k] = c
    BY <1>2, <1>7
  <2> HIDE DEF f, n, N
  <2>2. f \in Surjection(1 .. n, 1 .. N)
    BY <2>1 DEF Surjection
  <2>3. ExistsSurjection(1 .. n, 1 .. N)
    BY <2>2 DEF ExistsSurjection
  <2>4. Cardinality(1 .. N) <= n
    BY <1>1, <2>3, FS_SurjCardinalityBound
  <2>5. Cardinality(1 .. N) = N
    <3>1. Cardinality(1 .. N) = IF 1 > N THEN 0 ELSE N - 1 + 1
      BY <1>1, FS_Interval
    <3> QED
      BY <1>1, <3>1
  <2> QED
    BY <2>4, <2>5
<1> QED
  BY <1>1, <1>7, <1>8, <1>9

\* The names of the files of a directory.
LEMMA NamesListed ==
    ASSUME tree \in Trees, NEW d \in 1 .. Len(tree.dirs), NEW files \in Seq(FileSet),
           SameFiles(files, Listed(tree.files[d]))
    PROVE  {f.name : f \in Range(files)} = {f.name : f \in {g \in Range(tree.files[d]) : g.part # "other"}}
<1> DEFINE T == tree.files[d]
           out == Listed(T)
           keep == {i \in 1 .. Len(T) : T[i].part # "other"}
<1>1. T \in Seq(TreeFiles)
  BY TreeTyped
<1>2. out = scandir(T, keep)
  BY DEF Listed
<1>3. PICK g : IsScan(out, g, T, Len(T), keep)
  BY <1>1, <1>2, ScannedOnce
<1> HIDE DEF out
<1>4. Len(files) = Len(out) /\ \A i \in 1 .. Len(out) : files[i].name = out[i].name
  BY DEF SameFiles, out
<1>5. \A i \in 1 .. Len(out) : g[i] \in keep /\ out[i] = T[g[i]]
  BY <1>3 DEF IsScan
<1>6. \A i \in keep : \E k \in 1 .. Len(out) : g[k] = i
  BY <1>3 DEF IsScan
<1>7. Range(files) = {files[i] : i \in 1 .. Len(files)} /\ Range(T) = {T[i] : i \in 1 .. Len(T)}
  BY <1>1 DEF Range
<1>8. ASSUME NEW f \in Range(files) PROVE \E h \in Range(T) : h.part # "other" /\ h.name = f.name
  <2>1. PICK i \in 1 .. Len(out) : f = files[i]
    BY <1>4, <1>7
  <2>2. g[i] \in 1 .. Len(T) /\ T[g[i]].part # "other" /\ out[i] = T[g[i]]
    BY <1>5
  <2> QED
    BY <1>4, <1>7, <2>1, <2>2
<1>9. ASSUME NEW h \in Range(T), h.part # "other" PROVE \E f \in Range(files) : f.name = h.name
  <2>1. PICK i \in 1 .. Len(T) : h = T[i]
    BY <1>7
  <2>2. i \in keep
    BY <1>9, <2>1
  <2>3. PICK k \in 1 .. Len(out) : g[k] = i
    BY <1>6, <2>2
  <2>4. files[k].name = h.name /\ files[k] \in Range(files)
    BY <1>4, <1>5, <1>7, <2>1, <2>3
  <2> QED
    BY <2>4
<1> HIDE DEF T
<1>10. {f.name : f \in Range(files)} = {f.name : f \in {h \in Range(T) : h.part # "other"}}
  BY <1>8, <1>9
<1> QED
  BY <1>10 DEF T

\* A folder that the builder can do is refused only when a system call fails;
\* every image has each directory of the folder once, in the right parent, and
\* all of its files that are no later parts, unless scandir() has failed for a
\* directory, which build() does not notice.
THEOREM BuildsEndRight == Spec => []BuildOutcome
<1>1. ReadInv /\ ImageInv /\ Ended => BuildOutcome
  <2> SUFFICES ASSUME ReadInv, ImageInv, Ended PROVE BuildOutcome
    OBVIOUS
  <2>1. tree \in Trees /\ Linked /\ Enlisted /\ ListOnce(dirList, tree)
    BY DEF ReadInv, BuildInv, ImageInv, Enlisted
  <2>2. pc \in {"failed", "hollow", "crashed"} => faults # {} \/ Unsupported
    BY DEF Ended, Stopped
  <2>3. ASSUME pc = "ready"
        PROVE  /\ Len(dirList) = Len(tree.dirs)
               /\ {dirList[d].src : d \in 1 .. Len(dirList)} = 1 .. Len(tree.dirs)
    <3>1. /\ \A c \in 1 .. Len(tree.dirs) : \E k \in 1 .. Len(dirList) : dirList[k].src = c
          /\ Len(dirList) = Len(tree.dirs)
      BY <2>1, <2>3, AllDirsListed DEF Building
    <3>2. \A k \in 1 .. Len(dirList) : dirList[k].src \in 1 .. Len(tree.dirs)
      BY <2>1 DEF Linked
    <3> QED
      BY <3>1, <3>2
  <2>4. ASSUME pc = "ready", NEW d \in 1 .. Len(dirList)
        PROVE  dirList[d].src # 1 => dirList[dirList[d].parent].src = tree.dirs[dirList[d].src].up
    <3> SUFFICES ASSUME dirList[d].src # 1 PROVE dirList[dirList[d].parent].src = tree.dirs[dirList[d].src].up
      OBVIOUS
    <3>1. d \in 2 .. Len(dirList)
      BY <2>1, DirTyped DEF ListOnce
    <3> QED
      BY <2>1, <3>1 DEF ListOnce
  <2>5. ASSUME pc = "ready", NEW d \in 1 .. Len(dirList), "scandir_files" \notin faults
        PROVE  {f.name : f \in Range(dirList[d].files)}
               = {f.name : f \in {g \in Range(tree.files[dirList[d].src]) : g.part # "other"}}
    <3>1. SameFiles(dirList[d].files, Listed(tree.files[dirList[d].src]))
      BY <2>5 DEF Ended, Built, FilesScanned
    <3>2. dirList[d].src \in 1 .. Len(tree.dirs) /\ dirList[d].files \in Seq(FileSet)
      BY <2>1, DirTyped DEF Linked
    <3> QED
      BY <2>1, <3>1, <3>2, NamesListed
  <2> QED
    BY <2>2, <2>3, <2>4, <2>5, Zenon DEF BuildOutcome
<1> QED
  BY <1>1, ReadInvariant, ImageInvariant, EndedInvariant, PTL
=============================================================================
