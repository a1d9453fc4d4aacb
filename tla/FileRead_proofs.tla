-------------------------- MODULE FileRead_proofs --------------------------
(***************************************************************************)
(* Proofs about FileRead, for any image in any number of parts, any buffer *)
(* and sector sizes and any sequence of requests.                          *)
(***************************************************************************)
EXTENDS FileRead, SequenceTheorems, TLAPS

(* Arithmetic and sequences *)

LEMMA Division ==
    ASSUME NEW a \in Nat, NEW b \in Nat \ {0}
    PROVE  a \div b \in Nat /\ a % b \in 0 .. b - 1 /\ a = (a \div b) * b + (a % b)
OBVIOUS

LEMMA Quotient ==
    ASSUME NEW q \in Nat, NEW b \in Nat \ {0}, NEW r \in 0 .. b - 1
    PROVE  (q * b + r) \div b = q /\ (q * b + r) % b = r
OBVIOUS

LEMMA Multiples ==
    ASSUME NEW a \in Nat, NEW b \in Nat, NEW c \in Nat
    PROVE  a * c \in Nat /\ (a <= b => a * c <= b * c) /\ (a < b => a * c + c <= b * c)
<1>1. a * c \in Nat /\ (a <= b => a * c <= b * c)
  OBVIOUS
<1>2. a < b => a * c + c <= b * c
  <2>1. a < b => a + 1 <= b
    OBVIOUS
  <2>2. a + 1 <= b => (a + 1) * c <= b * c
    OBVIOUS
  <2>3. (a + 1) * c = a * c + c
    OBVIOUS
  <2> QED
    BY <1>1, <2>1, <2>2, <2>3
<1> QED
  BY <1>1, <1>2

LEMMA FunctionIsSeq ==
    ASSUME NEW n \in Nat, NEW S, NEW f \in [1 .. n -> S]
    PROVE  f \in Seq(S) /\ Len(f) = n
OBVIOUS
-----------------------------------------------------------------------------
(* The parts of an image *)

LEMMA ImageFacts ==
    ASSUME image \in Images
    PROVE  /\ Count \in Nat \ {0} /\ image.is_multipart \in Nat
           /\ image.part_size \in Nat /\ image.last \in Nat
           /\ image.is_multipart = 0 => image.part_size = 0 /\ Count = 1
           /\ image.is_multipart > 0 => /\ image.part_size > 0 /\ Count = image.is_multipart
                                        /\ image.last <= image.part_size
BY ReadAssumption DEF Images, Count

\* Where the bytes of a part end in the image.
LEMMA PartEnd ==
    ASSUME image \in Images, NEW p \in 0 .. Count - 1
    PROVE  /\ SizeOf(p) \in Nat /\ ro_file_size \in Nat /\ p * image.part_size \in Nat
           /\ p < Count - 1 => SizeOf(p) = image.part_size
           /\ p * image.part_size + SizeOf(p) <= ro_file_size
           /\ p = Count - 1 => p * image.part_size + SizeOf(p) = ro_file_size
           /\ ro_file_size <= Count * image.part_size \/ image.is_multipart = 0
<1> DEFINE last == Count - 1
<1>1. last \in Nat /\ image.part_size \in Nat /\ image.last \in Nat /\ p \in Nat /\ p <= last
      /\ (image.is_multipart = 0 \/ image.last <= image.part_size)
  BY ImageFacts
<1>2. p * image.part_size \in Nat /\ last * image.part_size \in Nat
      /\ (p < last => p * image.part_size + image.part_size <= last * image.part_size)
  BY <1>1, Multiples
<1>3. ro_file_size = last * image.part_size + image.last
  BY DEF ro_file_size
<1>4. SizeOf(p) = IF p = last THEN image.last ELSE image.part_size
  BY DEF SizeOf
<1>5. Count * image.part_size = last * image.part_size + image.part_size
  BY <1>1, ImageFacts
<1> QED
  BY <1>1, <1>2, <1>3, <1>4, <1>5

\* What is always true of the current part and of the positions: only the
\* last part's descriptor can stand beyond the end of its part.
Valid(i, a) ==
    /\ i \in 0 .. Count - 1
    /\ a \in [0 .. Count - 1 -> Nat]
    /\ \A p \in 0 .. Count - 1 : p < Count - 1 => a[p] <= image.part_size

\* The offset in the image at which a read begins.
Where(i, a) == i * image.part_size + a[i]

LEMMA SeekRight ==
    ASSUME image \in Images, Valid(index, at), NEW offset \in Nat
    PROVE  LET f == Seek(offset) IN
           /\ Valid(f.index, f.at)
           /\ f.ret # FAILED => Where(f.index, f.at) = offset
           /\ f.ret = FAILED => image.is_multipart > 0 /\ offset >= image.is_multipart * image.part_size
<1> DEFINE f == Seek(offset)
<1>0. FAILED \notin Nat /\ 0 \in 0 .. Count - 1
  BY ImageFacts DEF FAILED
<1>1. CASE image.is_multipart = 0
  <2>1. f.ret = offset /\ f.index = index /\ f.at = [at EXCEPT ![0] = offset]
    BY <1>1 DEF Seek
  <2>2. index = 0 /\ Count = 1 /\ image.part_size = 0
    BY <1>1, ImageFacts DEF Valid
  <2>3. Valid(f.index, f.at) /\ f.at[0] = offset
    BY <2>1, <2>2 DEF Valid
  <2>4. Where(f.index, f.at) = offset
    BY <2>1, <2>2, <2>3 DEF Where
  <2> QED
    BY <1>0, <2>1, <2>3, <2>4
<1>2. CASE image.is_multipart # 0
  <2> DEFINE q == offset \div image.part_size
             m == offset % image.part_size
  <2>1. /\ image.part_size \in Nat \ {0} /\ Count = image.is_multipart /\ image.is_multipart \in Nat
        /\ q \in Nat /\ m \in 0 .. image.part_size - 1 /\ offset = q * image.part_size + m
    <3>1. image.part_size \in Nat \ {0} /\ Count = image.is_multipart /\ image.is_multipart \in Nat
      BY <1>2, ImageFacts
    <3> QED
      BY <3>1, Division
  <2>2. Seek(offset) = IF q >= image.is_multipart
                       THEN [ret |-> FAILED, index |-> index, at |-> at]
                       ELSE [ret |-> m, index |-> q, at |-> [at EXCEPT ![q] = m]]
    BY <1>2 DEF Seek
  <2> HIDE DEF q, m
  <2>3. CASE q >= image.is_multipart
    <3>1. image.is_multipart * image.part_size <= q * image.part_size
      BY <2>1, <2>3, Multiples
    <3>2. q * image.part_size \in Nat /\ image.is_multipart * image.part_size \in Nat
      BY <2>1, Multiples
    <3>3. offset >= image.is_multipart * image.part_size
      BY <2>1, <3>1, <3>2
    <3> QED
      BY <1>2, <2>1, <2>2, <2>3, <3>3
  <2>4. CASE ~(q >= image.is_multipart)
    <3>1. f.ret = m /\ f.index = q /\ f.at = [at EXCEPT ![q] = m]
      BY <2>2, <2>4
    <3> HIDE DEF f
    <3>2. q \in 0 .. Count - 1 /\ f.at[q] = m
      BY <2>1, <2>4, <3>1 DEF Valid
    <3>3. Valid(f.index, f.at)
      BY <2>1, <3>1, <3>2 DEF Valid
    <3>4. Where(f.index, f.at) = offset
      BY <2>1, <3>1, <3>2 DEF Where
    <3> QED
      BY <1>0, <2>1, <3>1, <3>3, <3>4 DEF f
  <2> QED
    BY <2>3, <2>4
<1> QED
  BY <1>1, <1>2

-----------------------------------------------------------------------------
(* Reading *)

\* A read of one part returns the bytes it should, and is short only at the
\* end of the part.
PartDelivers(p, a, n, r) ==
    /\ r.ret = FAILED => MayFail
    /\ r.ret \in Int /\ Advance(a, r) \in Nat
    /\ a <= SizeOf(p) => Advance(a, r) <= SizeOf(p)
    /\ r.ret # FAILED =>
          /\ r.ret \in 0 .. n /\ Advance(a, r) = a + r.ret
          /\ r.data = [i \in 1 .. r.ret |-> p * image.part_size + a + i - 1]
          /\ r.ret > 0 => a + r.ret <= SizeOf(p)
          /\ r.ret < n => a + r.ret >= SizeOf(p)

LEMMA PartRead ==
    ASSUME image \in Images, NEW p \in 0 .. Count - 1, NEW a \in Nat, NEW n \in Nat,
           NEW r \in ReadPart(p, a, n)
    PROVE  PartDelivers(p, a, n, r)
<1> DEFINE got == IF a >= SizeOf(p) THEN 0 ELSE MinOf(n, SizeOf(p) - a)
<1>1. SizeOf(p) \in Nat
  BY PartEnd
<1>2. /\ got \in 0 .. n /\ got # FAILED
      /\ got > 0 => a + got <= SizeOf(p)
      /\ got < n => a + got >= SizeOf(p)
      /\ a <= SizeOf(p) => a + got <= SizeOf(p)
  BY <1>1 DEF MinOf, FAILED
<1>3. \/ r = [ret |-> got, data |-> [i \in 1 .. got |-> p * image.part_size + a + i - 1]]
      \/ MayFail /\ r = [ret |-> FAILED, data |-> <<>>]
  BY DEF ReadPart
<1> HIDE DEF got
<1>4. CASE r = [ret |-> got, data |-> [i \in 1 .. got |-> p * image.part_size + a + i - 1]]
  <2>1. r.ret = got /\ r.data = [i \in 1 .. got |-> p * image.part_size + a + i - 1]
    BY <1>4
  <2>2. Advance(a, r) = a + got
    BY <1>2, <2>1 DEF Advance
  <2> QED
    BY <1>2, <2>1, <2>2 DEF PartDelivers
<1>5. CASE MayFail /\ r = [ret |-> FAILED, data |-> <<>>]
  <2>1. r.ret = FAILED /\ Advance(a, r) = a /\ FAILED \in Int
    BY <1>5 DEF Advance, FAILED
  <2> QED
    BY <1>5, <2>1 DEF PartDelivers
<1> QED
  BY <1>3, <1>4, <1>5

\* What read() is to deliver.
Delivers(f, n, r) ==
    /\ r.ret \in 0 .. n
    /\ r.data = [i \in 1 .. r.ret |-> Where(f.index, f.at) + i - 1]
    /\ Where(r.index, r.at) = Where(f.index, f.at) + r.ret
    /\ r.ret > 0 => Where(r.index, r.at) <= ro_file_size
    /\ r.ret < n /\ (image.is_multipart = 0 \/ n <= image.part_size) =>
          Where(r.index, r.at) >= ro_file_size

\* A read that ends in the part where it begins, or at the end of the image.
LEMMA ReadOne ==
    ASSUME image \in Images, NEW f, Valid(f.index, f.at), NEW n \in Nat,
           NEW q \in ReadPart(f.index, f.at[f.index], n),
           ~(q.ret < n /\ f.index + 1 < image.is_multipart)
    PROVE  LET r == One(f, q) IN
           /\ Valid(r.index, r.at) /\ r.ret \in Int
           /\ r.failed => r.ret = FAILED
           /\ ~r.failed => Delivers(f, n, r)
<1> DEFINE p == f.index
           a == f.at[f.index]
           x == f.index * image.part_size
<1>1. /\ p \in 0 .. Count - 1 /\ a \in Nat /\ f.at \in [0 .. Count - 1 -> Nat]
      /\ Count \in Nat \ {0} /\ p \in Nat /\ image.is_multipart \in Nat
      /\ image.part_size \in Nat
  BY ImageFacts DEF Valid
<1>2. /\ SizeOf(p) \in Nat /\ ro_file_size \in Nat /\ x \in Nat
      /\ p < Count - 1 => SizeOf(p) = image.part_size
      /\ x + SizeOf(p) <= ro_file_size
      /\ p = Count - 1 => x + SizeOf(p) = ro_file_size
  BY <1>1, PartEnd
<1>3. /\ q.ret \in Int /\ Advance(a, q) \in Nat
      /\ a <= SizeOf(p) => Advance(a, q) <= SizeOf(p)
      /\ q.ret # FAILED =>
            /\ q.ret \in 0 .. n /\ Advance(a, q) = a + q.ret
            /\ q.data = [i \in 1 .. q.ret |-> x + a + i - 1]
            /\ q.ret > 0 => a + q.ret <= SizeOf(p)
            /\ q.ret < n => a + q.ret >= SizeOf(p)
  BY <1>1, PartRead DEF PartDelivers
<1> DEFINE r == One(f, q)
<1>4. /\ r.ret = q.ret /\ r.data = q.data /\ r.index = p /\ r.at = [f.at EXCEPT ![p] = Advance(a, q)]
      /\ r.failed <=> q.ret = FAILED
  BY DEF One
<1>5. /\ p < Count - 1 => a <= image.part_size
      /\ \A k \in 0 .. Count - 1 : k < Count - 1 => f.at[k] <= image.part_size
      /\ q.ret < n => ~(p + 1 < image.is_multipart)
      /\ Where(f.index, f.at) = x + a
  BY DEF Valid, Where
<1>6. Where(r.index, r.at) = x + r.at[p]
  BY <1>4 DEF Where
<1> HIDE DEF r, a, p, x
<1>7. \A k \in 0 .. Count - 1 : r.at[k] = IF k = p THEN Advance(a, q) ELSE f.at[k]
  BY <1>1, <1>4
<1>8. Valid(r.index, r.at)
  <2>1. r.at \in [0 .. Count - 1 -> Nat]
    BY <1>1, <1>3, <1>4
  <2>2. p < Count - 1 => Advance(a, q) <= image.part_size
    BY <1>2, <1>3, <1>5
  <2> QED
    BY <1>1, <1>4, <1>5, <1>7, <2>1, <2>2 DEF Valid
<1>9. ASSUME q.ret # FAILED PROVE Delivers(f, n, r)
  <2>1. Where(r.index, r.at) = x + a + q.ret
    BY <1>1, <1>2, <1>3, <1>6, <1>7, <1>9
  <2>2. q.ret < n => p = Count - 1
    BY <1>1, <1>3, <1>5, <1>9, ImageFacts
  <2>3. r.data = [i \in 1 .. r.ret |-> Where(f.index, f.at) + i - 1]
    BY <1>3, <1>4, <1>5, <1>9
  <2>4. q.ret > 0 => x + a + q.ret <= ro_file_size
    BY <1>1, <1>2, <1>3, <1>9
  <2>5. q.ret < n => x + a + q.ret >= ro_file_size
    BY <1>1, <1>2, <1>3, <1>9, <2>2
  <2> QED
    BY <1>3, <1>4, <1>5, <1>9, <2>1, <2>3, <2>4, <2>5 DEF Delivers
<1> QED
  BY <1>3, <1>4, <1>8, <1>9 DEF r

\* A read that goes on in the next part.
LEMMA ReadBoth ==
    ASSUME image \in Images, NEW f, Valid(f.index, f.at), NEW n \in Nat,
           NEW q \in ReadPart(f.index, f.at[f.index], n),
           q.ret < n, f.index + 1 < image.is_multipart,
           NEW t \in ReadPart(f.index + 1, 0, n - q.ret)
    PROVE  LET r == Both(f, q, t, 0) IN
           /\ Valid(r.index, r.at) /\ r.ret \in Int
           /\ r.failed => Faults = "all"
           /\ ~r.failed => Delivers(f, n, r)
<1> DEFINE p == f.index
           a == f.at[f.index]
           x == f.index * image.part_size
           y == (f.index + 1) * image.part_size
<1>1. /\ p \in 0 .. Count - 1 /\ a \in Nat /\ f.at \in [0 .. Count - 1 -> Nat]
      /\ Count \in Nat \ {0} /\ p \in Nat /\ image.is_multipart \in Nat
      /\ image.part_size \in Nat
      /\ Count = image.is_multipart /\ p < Count - 1 /\ p + 1 \in 0 .. Count - 1
  BY ImageFacts DEF Valid
<1>2. SizeOf(p) = image.part_size /\ ro_file_size \in Nat /\ x \in Nat
  BY <1>1, PartEnd
<1>3. /\ SizeOf(p + 1) \in Nat /\ y \in Nat
      /\ p + 1 < Count - 1 => SizeOf(p + 1) = image.part_size
      /\ y + SizeOf(p + 1) <= ro_file_size
      /\ p + 1 = Count - 1 => y + SizeOf(p + 1) = ro_file_size
  BY <1>1, PartEnd
<1>4. y = x + image.part_size
  BY <1>1
<1>5. /\ q.ret = FAILED => MayFail
      /\ q.ret \in Int /\ Advance(a, q) \in Nat
      /\ a <= SizeOf(p) => Advance(a, q) <= SizeOf(p)
      /\ q.ret # FAILED =>
            /\ q.ret \in 0 .. n /\ Advance(a, q) = a + q.ret
            /\ q.data = [i \in 1 .. q.ret |-> x + a + i - 1]
            /\ q.ret < n => a + q.ret >= SizeOf(p)
  <2>1. PartDelivers(p, a, n, q)
    BY <1>1, PartRead
  <2> QED
    BY <2>1 DEF PartDelivers
<1>6. n - q.ret \in Nat
  BY <1>5
<1>7. /\ t.ret = FAILED => MayFail
      /\ t.ret \in Int /\ Advance(0, t) \in Nat
      /\ Advance(0, t) <= SizeOf(p + 1)
      /\ t.ret # FAILED =>
            /\ t.ret \in 0 .. n - q.ret /\ Advance(0, t) = 0 + t.ret
            /\ t.data = [i \in 1 .. t.ret |-> y + 0 + i - 1]
            /\ t.ret > 0 => 0 + t.ret <= SizeOf(p + 1)
            /\ t.ret < n - q.ret => 0 + t.ret >= SizeOf(p + 1)
  <2>1. PartDelivers(p + 1, 0, n - q.ret, t)
    BY <1>1, <1>6, PartRead
  <2> QED
    BY <1>3, <2>1 DEF PartDelivers
<1> DEFINE r == Both(f, q, t, 0)
<1>8. /\ r.ret = q.ret + t.ret /\ r.index = p + 1
      /\ r.at = [f.at EXCEPT ![p] = Advance(a, q), ![p + 1] = Advance(0, t)]
      /\ r.failed <=> q.ret = FAILED \/ t.ret = FAILED
      /\ q.ret # FAILED => r.data = q.data \o t.data
  BY DEF Both
<1>9. /\ a <= image.part_size
      /\ \A k \in 0 .. Count - 1 : k < Count - 1 => f.at[k] <= image.part_size
      /\ Where(f.index, f.at) = x + a /\ Where(r.index, r.at) = y + r.at[p + 1]
  BY <1>1, <1>8 DEF Valid, Where
<1>10. MayFail => Faults = "all"
  BY <1>1 DEF MayFail
<1> HIDE DEF r, a, p, x, y
<1>11. \A k \in 0 .. Count - 1 : r.at[k] = IF k = p + 1 THEN Advance(0, t)
                                           ELSE IF k = p THEN Advance(a, q) ELSE f.at[k]
  BY <1>1, <1>8
<1>12. Valid(r.index, r.at)
  <2>1. r.at \in [0 .. Count - 1 -> Nat]
    BY <1>1, <1>5, <1>7, <1>8
  <2>2. Advance(a, q) <= image.part_size
    BY <1>2, <1>5, <1>9
  <2>3. p + 1 < Count - 1 => Advance(0, t) <= image.part_size
    BY <1>3, <1>7
  <2> QED
    BY <1>1, <1>8, <1>9, <1>11, <2>1, <2>2, <2>3 DEF Valid
<1>13. ASSUME q.ret # FAILED, t.ret # FAILED PROVE Delivers(f, n, r)
  <2> DEFINE z == SizeOf(p + 1)
             total == ro_file_size
             ps == image.part_size
  <2>1. /\ q.ret \in 0 .. n /\ t.ret \in 0 .. n - q.ret /\ r.ret = q.ret + t.ret /\ r.ret \in 0 .. n
        /\ q.ret \in Nat /\ t.ret \in Nat /\ r.ret \in Nat
    BY <1>5, <1>6, <1>7, <1>8, <1>13
  <2>2. /\ x \in Nat /\ a \in Nat /\ z \in Nat /\ total \in Nat /\ ps \in Nat /\ y = x + ps
        /\ a + q.ret = ps
    BY <1>1, <1>2, <1>3, <1>4, <1>5, <1>9, <1>13, SMTT(40)
  <2>3. Where(r.index, r.at) = y + t.ret
    BY <1>1, <1>7, <1>9, <1>11, <1>13
  <2>4. r.data = [i \in 1 .. r.ret |-> x + a + i - 1]
    <3> DEFINE w == [i \in 1 .. r.ret |-> x + a + i - 1]
    <3>1. q.data \in [1 .. q.ret -> Int] /\ \A i \in 1 .. q.ret : q.data[i] = x + a + i - 1
      <4>1. q.data = [i \in 1 .. q.ret |-> x + a + i - 1]
        BY <1>5, <1>13
      <4> QED
        BY <2>2, <4>1
    <3>2. t.data \in [1 .. t.ret -> Int] /\ \A i \in 1 .. t.ret : t.data[i] = y + i - 1
      <4>1. t.data = [i \in 1 .. t.ret |-> y + 0 + i - 1] /\ y \in Nat
        BY <1>7, <1>13, <2>2
      <4> QED
        BY <4>1
    <3>3. q.data \in Seq(Int) /\ Len(q.data) = q.ret /\ t.data \in Seq(Int) /\ Len(t.data) = t.ret
      BY <2>1, <3>1, <3>2, FunctionIsSeq
    <3>4. /\ r.data \in Seq(Int) /\ Len(r.data) = r.ret
          /\ \A i \in 1 .. r.ret : r.data[i] = IF i <= q.ret THEN q.data[i] ELSE t.data[i - q.ret]
      <4>1. r.data = q.data \o t.data
        BY <1>8, <1>13
      <4>2. /\ q.data \o t.data \in Seq(Int) /\ Len(q.data \o t.data) = Len(q.data) + Len(t.data)
            /\ \A i \in 1 .. Len(q.data) + Len(t.data) :
                  (q.data \o t.data)[i] = IF i <= Len(q.data) THEN q.data[i] ELSE t.data[i - Len(q.data)]
        BY <3>3, ConcatProperties
      <4> QED
        BY <2>1, <3>3, <4>1, <4>2
    <3>5. w \in [1 .. r.ret -> Int] /\ \A i \in 1 .. r.ret : w[i] = x + a + i - 1
      BY <1>1, <1>2
    <3> HIDE DEF w
    <3>6. w \in Seq(Int) /\ Len(w) = r.ret
      BY <2>1, <3>5, FunctionIsSeq
    <3>7. \A i \in 1 .. r.ret : r.data[i] = x + a + i - 1
      <4> SUFFICES ASSUME NEW i \in 1 .. r.ret PROVE r.data[i] = x + a + i - 1
        OBVIOUS
      <4>1. CASE i <= q.ret
        BY <2>1, <3>1, <3>4, <4>1
      <4>2. CASE ~(i <= q.ret)
        <5>1. i - q.ret \in 1 .. t.ret /\ i \in Nat
          BY <2>1, <4>2
        <5>2. r.data[i] = y + (i - q.ret) - 1
          BY <3>2, <3>4, <4>2, <5>1
        <5> QED
          BY <2>1, <2>2, <5>1, <5>2
      <4> QED
        BY <4>1, <4>2
    <3>8. r.data = w
      BY <3>4, <3>5, <3>6, <3>7, SeqEqual
    <3> QED
      BY <3>8 DEF w
  <2>5. y + t.ret <= total
    <3>1. t.ret <= z /\ y + z <= total
      BY <1>3, <1>7, <1>13, <2>1, <2>2
    <3> HIDE DEF z, total, ps
    <3> QED
      BY <2>1, <2>2, <3>1
  <2>6. ASSUME r.ret < n, n <= ps PROVE y + t.ret >= total
    <3>1. t.ret >= z /\ t.ret < ps
      BY <1>7, <1>13, <2>1, <2>2, <2>6
    <3>2. z # ps
      BY <2>1, <2>2, <3>1
    <3>3. y + z = total
      BY <1>1, <1>3, <3>2
    <3> HIDE DEF z, total, ps
    <3> QED
      BY <2>1, <2>2, <3>1, <3>3
  <2>7. y + t.ret = x + a + r.ret
    <3> HIDE DEF z, total, ps
    <3> QED
      BY <2>1, <2>2
  <2> QED
    BY <1>1, <1>9, <2>1, <2>3, <2>4, <2>5, <2>6, <2>7 DEF Delivers
<1> QED
  BY <1>5, <1>7, <1>8, <1>10, <1>12, <1>13 DEF r

\* read() returns bytes of the image from the file's position on, whatever the
\* parts, unless a system call fails; it is short only at the end of the image
\* or where more is asked for than a whole part.
LEMMA ReadRight ==
    ASSUME image \in Images, NEW f, Valid(f.index, f.at), NEW n \in Nat, NEW r \in Read(f, n)
    PROVE  /\ Valid(r.index, r.at) /\ r.ret \in Int
           /\ r.failed /\ Faults # "all" => r.ret = FAILED
           /\ ~r.failed => Delivers(f, n, r)
<1>1. PICK q \in ReadPart(f.index, f.at[f.index], n) :
         r \in IF q.ret < n /\ f.index + 1 < image.is_multipart
               THEN {Both(f, q, t, 0) : t \in ReadPart(f.index + 1, 0, n - q.ret)}
               ELSE {One(f, q)}
  BY DEF Read
<1>2. CASE q.ret < n /\ f.index + 1 < image.is_multipart
  <2>1. PICK t \in ReadPart(f.index + 1, 0, n - q.ret) : r = Both(f, q, t, 0)
    BY <1>1, <1>2
  <2> QED
    BY <1>2, <2>1, ReadBoth
<1>3. CASE ~(q.ret < n /\ f.index + 1 < image.is_multipart)
  <2>1. r = One(f, q)
    BY <1>1, <1>3
  <2> QED
    BY <1>3, <2>1, ReadOne
<1> QED
  BY <1>2, <1>3

-----------------------------------------------------------------------------
(* What is sent *)

\* A file whose position is the offset o, or is at or beyond the end of the
\* image as o is.
Stands(i, a, o) ==
    Where(i, a) = o \/ (Where(i, a) >= ro_file_size /\ o >= ro_file_size)

\* The failures, if any, are not of the kind that read() can mask.
Unmasked == ~fault \/ Faults # "all"

\* The ith byte that READ_CD_2048_CRITICAL is to send for a request j, and
\* what o has to be once k sectors are sent.
Payload(j, i) ==
    Right(j.off + HEADER + ((i - 1) \div PAYLOAD) * CD_SECTOR_SIZE, PAYLOAD)
        [((i - 1) % PAYLOAD) + 1]
Sent(j, o, k) ==
    /\ o \in Seq(Int) /\ Len(o) = k * PAYLOAD
    /\ \A i \in 1 .. k * PAYLOAD :
          image.is_multipart = 0 \/ Payload(j, i) # Zero => o[i] = Payload(j, i)

\* The inductive invariant.
FileInv ==
    /\ image \in Images /\ Valid(index, at)
    /\ job.off \in Nat /\ job.len \in Nat
CriticalInv ==
    /\ phase = "critical" =>
          /\ job.op = "critical" /\ pos \in job.off .. job.off + job.len - 1
          /\ Unmasked => ~fault /\ Stands(index, at, pos)
    /\ job.op = "critical" /\ Unmasked =>
          /\ pos \in job.off .. job.off + job.len
          /\ out = Right(job.off, pos - job.off)
          /\ phase = "done" => pos = job.off + job.len
ReadInv == job.op = "read" /\ Unmasked => ReadServed
CdInv ==
    /\ phase = "cd" => job.op = "cd" /\ pos \in 0 .. job.len - 1 /\ (Unmasked => ~fault /\ Sent(job, out, pos))
    /\ phase = "done" /\ job.op = "cd" /\ Unmasked => Sent(job, out, job.len)
ServedInv == FileInv /\ CriticalInv /\ ReadInv /\ CdInv /\ OnlyFailuresDrop

LEMMA RightFacts ==
    ASSUME image \in Images, NEW o \in Nat, NEW n \in Nat
    PROVE  /\ Right(o, n) \in Seq(Int) /\ Len(Right(o, n)) = n
           /\ \A i \in 1 .. n : Right(o, n)[i] = IF o + i <= ro_file_size THEN o + i - 1 ELSE Zero
<1> DEFINE w == Right(o, n)
<1>1. ro_file_size \in Nat
  BY PartEnd, ImageFacts
<1>2. w \in [1 .. n -> Int] /\ \A i \in 1 .. n : w[i] = IF o + i <= ro_file_size THEN o + i - 1 ELSE Zero
  BY <1>1 DEF Right, Zero
<1> HIDE DEF w
<1>3. w \in Seq(Int) /\ Len(w) = n
  BY <1>2, FunctionIsSeq
<1> QED
  BY <1>2, <1>3 DEF w

LEMMA RightConcat ==
    ASSUME image \in Images, NEW o \in Nat, NEW k \in Nat, NEW m \in Nat
    PROVE  Right(o, k) \o Right(o + k, m) = Right(o, k + m)
<1> DEFINE u == Right(o, k)
           v == Right(o + k, m)
           w == Right(o, k + m)
           R(i) == IF o + i <= ro_file_size THEN o + i - 1 ELSE Zero
<1>1. o + k \in Nat /\ k + m \in Nat /\ ro_file_size \in Nat
  BY PartEnd, ImageFacts
<1>2. u \in Seq(Int) /\ Len(u) = k /\ \A i \in 1 .. k : u[i] = R(i)
  BY RightFacts
<1>3. v \in Seq(Int) /\ Len(v) = m /\ \A i \in 1 .. m : v[i] = IF o + k + i <= ro_file_size THEN o + k + i - 1 ELSE Zero
  BY <1>1, RightFacts
<1>4. w \in Seq(Int) /\ Len(w) = k + m /\ \A i \in 1 .. k + m : w[i] = R(i)
  BY <1>1, RightFacts
<1> HIDE DEF u, v, w
<1>5. /\ u \o v \in Seq(Int) /\ Len(u \o v) = k + m
      /\ \A i \in 1 .. k + m : (u \o v)[i] = IF i <= k THEN u[i] ELSE v[i - k]
  BY <1>2, <1>3, ConcatProperties
<1>6. ASSUME NEW i \in 1 .. k + m PROVE (u \o v)[i] = w[i]
  <2>1. CASE i <= k
    <3>1. i \in 1 .. k
      BY <2>1
    <3>2. u[i] = R(i) /\ w[i] = R(i) /\ (u \o v)[i] = u[i]
      BY <1>2, <1>4, <1>5, <2>1, <3>1
    <3> QED
      BY <3>2
  <2>2. CASE ~(i <= k)
    <3>1. i - k \in 1 .. m /\ o + k + (i - k) = o + i
      BY <1>1, <2>2
    <3>2. v[i - k] = R(i)
      BY <1>3, <3>1
    <3> QED
      BY <1>4, <1>5, <2>2, <3>2
  <2> QED
    BY <2>1, <2>2
<1>7. u \o v = w
  BY <1>4, <1>5, <1>6, SeqEqual
<1> QED
  BY <1>7 DEF u, v, w

\* A buffer that was read from the right place, and is short only at the end
\* of the image, is right once it is padded.
LEMMA PaddedRight ==
    ASSUME image \in Images, NEW f, Valid(f.index, f.at), NEW n \in Nat, NEW r,
           Delivers(f, n, r), NEW o \in Nat, Stands(f.index, f.at, o),
           r.ret = n \/ o + r.ret >= ro_file_size
    PROVE  Padded(r, n) = Right(o, n) /\ Stands(r.index, r.at, o + n)
<1> DEFINE total == ro_file_size
           w == Where(f.index, f.at)
           x == Where(r.index, r.at)
<1>1. total \in Nat
  BY PartEnd, ImageFacts
<1>2. w \in Nat
  <2>1. f.index \in Nat /\ f.at[f.index] \in Nat /\ image.part_size \in Nat
    BY ImageFacts DEF Valid
  <2>2. f.index * image.part_size \in Nat
    BY <2>1, Multiples
  <2> QED
    BY <2>1, <2>2 DEF Where
<1>3. /\ r.ret \in 0 .. n /\ r.data = [i \in 1 .. r.ret |-> w + i - 1]
      /\ x = w + r.ret /\ (r.ret > 0 => x <= total)
  BY DEF Delivers
<1>4. w = o \/ (w >= total /\ o >= total)
  BY DEF Stands
<1> HIDE DEF w, x
<1>5. r.ret > 0 => w = o
  BY <1>1, <1>2, <1>3, <1>4
<1>6. Padded(r, n) = Right(o, n)
  <2>1. ASSUME NEW i \in 1 .. n
        PROVE  (IF i <= r.ret THEN r.data[i] ELSE Zero) = IF o + i <= total THEN o + i - 1 ELSE Zero
    <3>1. CASE i <= r.ret
      <4>1. i \in 1 .. r.ret /\ r.ret > 0
        BY <1>3, <3>1
      <4>2. r.data[i] = w + i - 1
        BY <1>3, <4>1
      <4>3. w = o /\ o + i <= total
        BY <1>1, <1>2, <1>3, <1>5, <4>1
      <4> QED
        BY <3>1, <4>2, <4>3
    <3>2. CASE ~(i <= r.ret)
      BY <1>1, <1>3, <3>2
    <3> QED
      BY <3>1, <3>2
  <2> QED
    BY <2>1 DEF Padded, Right
<1>7. x = o + n \/ (x >= total /\ o + n >= total)
  BY <1>1, <1>2, <1>3, <1>4, <1>5
<1> QED
  BY <1>6, <1>7 DEF Stands, x

-----------------------------------------------------------------------------
(* The steps *)

\* The image does not change, and what is defined by it does not.
LEMMA SameImage ==
    ASSUME UNCHANGED image
    PROVE  /\ (image \in Images)' <=> image \in Images
           /\ ro_file_size' = ro_file_size
           /\ Valid(index, at)' <=> Valid(index', at')
           /\ Stands(index, at, pos)' <=> Stands(index', at', pos')
           /\ Right(job.off, pos - job.off)' = Right(job'.off, pos' - job'.off)
           /\ Right(job.off, Len(out))' = Right(job'.off, Len(out'))
           /\ Sent(job, out, pos)' <=> Sent(job', out', pos')
           /\ Sent(job, out, job.len)' <=> Sent(job', out', job'.len)
<1>1. Right(job.off, Len(out))' = Right(job'.off, Len(out'))
  BY DEF Right, ro_file_size, Count, Zero
<1>2. Sent(job, out, pos)' <=> Sent(job', out', pos')
  BY DEF Sent, Payload, Right, ro_file_size, Count, Zero
<1>3. Sent(job, out, job.len)' <=> Sent(job', out', job'.len)
  BY DEF Sent, Payload, Right, ro_file_size, Count, Zero
<1> QED
  BY <1>1, <1>2, <1>3 DEF Images, ro_file_size, Count, Valid, Stands, Where, Right, Zero

LEMMA NothingSent ==
    ASSUME image \in Images, NEW o \in Nat
    PROVE  Right(o, 0) = <<>>
<1>1. Right(o, 0) \in Seq(Int) /\ Len(Right(o, 0)) = 0
  BY RightFacts
<1> QED
  BY <1>1, EmptySeq

LEMMA StepCritical ==
    ASSUME ServedInv, NEW offset \in Nat, NEW remaining \in Nat, ReadFileCritical(offset, remaining)
    PROVE  ServedInv'
<1> DEFINE s == Seek(offset)
<1>1. /\ job' = [op |-> "critical", off |-> offset, len |-> remaining]
      /\ out' = <<>> /\ pos' = offset /\ fault' = FALSE /\ UNCHANGED image
      /\ index' = s.index /\ at' = s.at
      /\ phase' = IF s.ret = FAILED THEN "dropped" ELSE IF remaining = 0 THEN "done" ELSE "critical"
  BY DEF ReadFileCritical, Position
<1>2. image \in Images /\ Valid(index, at)
  BY DEF ServedInv, FileInv
<1>3. /\ Valid(s.index, s.at)
      /\ s.ret # FAILED => Where(s.index, s.at) = offset
      /\ s.ret = FAILED => image.is_multipart > 0 /\ offset >= image.is_multipart * image.part_size
  BY <1>2, SeekRight
<1> HIDE DEF s
<1>4. job'.op = "critical" /\ job'.off = offset /\ job'.len = remaining
  BY <1>1
<1>5. FileInv'
  BY <1>1, <1>2, <1>3, <1>4, SameImage DEF FileInv
<1>6. CriticalInv'
  <2>1. Right(job'.off, pos' - job'.off) = <<>>
    BY <1>1, <1>2, <1>4, NothingSent
  <2>2. phase' = "critical" => Stands(index', at', pos')
    BY <1>1, <1>3 DEF Stands
  <2>3. /\ pos' \in job'.off .. job'.off + job'.len
        /\ phase' = "done" => pos' = job'.off + job'.len
        /\ phase' = "critical" => pos' \in job'.off .. job'.off + job'.len - 1
    BY <1>1, <1>4
  <2> QED
    BY <1>1, <1>4, <2>1, <2>2, <2>3, SameImage DEF CriticalInv
<1>7. ReadInv' /\ CdInv'
  BY <1>1, <1>4 DEF ReadInv, CdInv
<1>8. OnlyFailuresDrop'
  BY <1>1, <1>3, <1>4 DEF OnlyFailuresDrop
<1> QED
  BY <1>5, <1>6, <1>7, <1>8 DEF ServedInv

LEMMA StepChunk ==
    ASSUME ServedInv, ReadChunk
    PROVE  ServedInv'
<1> DEFINE f == [index |-> index, at |-> at]
           n == MinOf(BUFFER_SIZE, job.off + job.len - pos)
           total == ro_file_size
           Sends(r) == /\ fault' = (fault \/ r.failed)
                       /\ r.ret >= 0 /\ (r.ret = n \/ pos + r.ret >= total)
                       /\ out' = out \o Padded(r, n) /\ pos' = pos + n
                       /\ phase' = IF pos' = job.off + job.len THEN "done" ELSE "critical"
           GivesUp(r) == /\ phase' = "dropped" /\ UNCHANGED <<pos, out>>
                         /\ fault' = TRUE \/
                            (fault' = (fault \/ r.failed) /\ (r.ret < 0 \/ (r.ret # n /\ pos + r.ret < total)))
<1>1. /\ image \in Images /\ Valid(index, at) /\ job.off \in Nat /\ job.len \in Nat
      /\ job.op = "critical" /\ pos \in job.off .. job.off + job.len - 1
      /\ Unmasked => /\ ~fault /\ Stands(index, at, pos)
                     /\ out = Right(job.off, pos - job.off)
      /\ UNCHANGED image /\ UNCHANGED job
  BY DEF ServedInv, FileInv, CriticalInv, ReadChunk
<1>2. total \in Nat /\ pos \in Nat
  BY <1>1, PartEnd, ImageFacts
<1>3. n \in 1 .. job.off + job.len - pos /\ n <= BUFFER_SIZE /\ n \in Nat /\ BUFFER_SIZE \in Nat
  BY <1>1, <1>2, ReadAssumption DEF MinOf
<1>4. PICK r \in Read(f, n) :
         /\ Position(r)
         /\ \/ /\ fault' = (fault \/ r.failed)
               /\ IF r.ret < 0 \/ (r.ret # n /\ pos + r.ret < total)
                  THEN Dropped
                  ELSE /\ out' = out \o Padded(r, n)
                       /\ pos' = pos + n
                       /\ phase' = IF pos' = job.off + job.len THEN "done" ELSE "critical"
            \/ MayFail /\ fault' = TRUE /\ Dropped
  BY DEF ReadChunk
<1>5. f.index = index /\ f.at = at
  OBVIOUS
<1>6. index' = r.index /\ at' = r.at
  BY <1>4 DEF Position
<1> HIDE DEF f, total, n
<1>7. /\ Valid(r.index, r.at) /\ r.ret \in Int
      /\ r.failed /\ Faults # "all" => r.ret = FAILED
      /\ ~r.failed => Delivers(f, n, r)
  BY <1>1, <1>3, <1>5, ReadRight
<1>8. Sends(r) \/ GivesUp(r)
  BY <1>2, <1>3, <1>4, <1>7 DEF Dropped
<1>9. FileInv'
  BY <1>1, <1>6, <1>7, SameImage DEF FileInv
<1>10. Stands(f.index, f.at, pos) <=> Stands(index, at, pos)
  BY <1>5
<1>11. CASE Sends(r)
  <2>0. pos' = pos + n /\ phase' = IF pos' = job.off + job.len THEN "done" ELSE "critical"
    BY <1>11
  <2>1. job'.op = "critical" /\ phase' \in {"done", "critical"}
    BY <1>1, <2>0
  <2>2. /\ pos' \in job.off .. job.off + job.len
        /\ phase' = "critical" => pos' \in job.off .. job.off + job.len - 1
        /\ phase' = "done" => pos' = job.off + job.len
    <3>1. pos' \in job.off .. job.off + job.len
      BY <1>1, <1>2, <1>3, <2>0
    <3> QED
      BY <1>1, <2>0, <3>1
  <2>3. ASSUME Unmasked'
        PROVE  ~fault' /\ Stands(index', at', pos') /\ out' = Right(job.off, pos' - job.off)
    <3>1. ~r.failed /\ Unmasked
      <4>1. fault' <=> fault \/ r.failed
        BY <1>11
      <4>2. r.ret # FAILED
        BY <1>7, <1>11 DEF FAILED
      <4> QED
        BY <1>7, <2>3, <4>1, <4>2 DEF Unmasked
    <3>2. ~fault'
      BY <1>1, <1>11, <3>1
    <3>3. Padded(r, n) = Right(pos, n) /\ Stands(r.index, r.at, pos + n)
      BY <1>1, <1>2, <1>3, <1>5, <1>7, <1>10, <1>11, <3>1, PaddedRight DEF total
    <3>4. out' = Right(job.off, pos - job.off) \o Right(pos, n)
      BY <1>1, <1>11, <3>1, <3>3
    <3> DEFINE k == pos - job.off
    <3>5. k \in Nat /\ pos = job.off + k /\ pos' - job.off = k + n
      BY <1>1, <1>2, <1>3, <1>11, SMTT(40)
    <3> HIDE DEF k
    <3>6. Right(job.off, k) \o Right(job.off + k, n) = Right(job.off, k + n)
      BY <1>1, <1>3, <3>5, RightConcat
    <3>7. out' = Right(job.off, pos' - job.off)
      BY <3>4, <3>5, <3>6 DEF k
    <3> QED
      BY <1>6, <1>11, <3>2, <3>3, <3>7
  <2>4. CriticalInv'
    BY <1>1, <2>1, <2>2, <2>3, SameImage DEF CriticalInv
  <2>5. ReadInv' /\ CdInv' /\ OnlyFailuresDrop'
    BY <2>1 DEF ReadInv, CdInv, OnlyFailuresDrop
  <2> QED
    BY <1>9, <2>4, <2>5 DEF ServedInv
<1>12. CASE GivesUp(r)
  <2>1. job'.op = "critical" /\ phase' = "dropped" /\ pos' = pos /\ out' = out
    BY <1>1, <1>12
  <2>2. Unmasked' => Unmasked
    BY <1>12 DEF Unmasked
  <2>3. CriticalInv'
    BY <1>1, <1>2, <2>1, <2>2, SameImage DEF CriticalInv
  <2>4. ReadInv' /\ CdInv'
    BY <2>1 DEF ReadInv, CdInv
  <2>5. OnlyFailuresDrop'
    <3> SUFFICES ASSUME ~fault', image.is_multipart = 0 \/ BUFFER_SIZE <= image.part_size
                 PROVE  FALSE
      BY <1>1 DEF OnlyFailuresDrop
    <3>1. ~fault /\ ~r.failed /\ (r.ret < 0 \/ (r.ret # n /\ pos + r.ret < total))
      BY <1>12
    <3>2. Delivers(f, n, r) /\ Stands(index, at, pos)
      BY <1>1, <1>7, <3>1 DEF Unmasked
    <3> DEFINE w == Where(f.index, f.at)
               x == Where(r.index, r.at)
    <3>3. /\ r.ret \in 0 .. n /\ x = w + r.ret
          /\ r.ret > 0 => x <= total
          /\ r.ret < n /\ (image.is_multipart = 0 \/ n <= image.part_size) => x >= total
      BY <3>2 DEF Delivers, total
    <3>4. w = pos \/ (w >= total /\ pos >= total)
      BY <1>10, <3>2 DEF Stands, total
    <3> HIDE DEF w, x
    <3>5. n <= image.part_size \/ image.is_multipart = 0
      BY <1>1, <1>3, ImageFacts
    <3>6. r.ret < n /\ pos + r.ret < total /\ r.ret \in Nat
      BY <1>3, <3>1, <3>3
    <3>7. pos < total
      BY <1>2, <3>6
    <3>8. w = pos
      BY <1>2, <3>4, <3>7
    <3> QED
      BY <1>2, <3>3, <3>5, <3>6, <3>8
  <2> QED
    BY <1>9, <2>3, <2>4, <2>5 DEF ServedInv
<1> QED
  BY <1>8, <1>11, <1>12

LEMMA StepRead ==
    ASSUME ServedInv, NEW offset \in Nat, NEW n \in Nat, ReadFileCmd(offset, n)
    PROVE  ServedInv'
<1> DEFINE s == Seek(offset)
           Errs == job' = [op |-> "error", off |-> offset, len |-> n]
                   /\ phase' \in {"done", "dropped"}
           Answers(r) == /\ job' = [op |-> "read", off |-> offset, len |-> n]
                         /\ phase' = "done" /\ s.ret # FAILED
                         /\ out' = SubSeq(r.data, 1, r.ret) /\ ~(r.ret < 0)
                         /\ fault' = r.failed
<1>1. image \in Images /\ Valid(index, at) /\ UNCHANGED image
  BY DEF ServedInv, FileInv, ReadFileCmd
<1>2. /\ Valid(s.index, s.at)
      /\ s.ret # FAILED => Where(s.index, s.at) = offset
  BY <1>1, SeekRight
<1>3. \/ Errs /\ index' = index /\ at' = at
      \/ \E r \in Read(s, n) : Position(r) /\ (Errs \/ Answers(r))
  <2> HIDE DEF s
  <2> QED
    BY DEF ReadFileCmd, fileVars, s
<1>4. CASE Errs /\ index' = index /\ at' = at
  <2>1. /\ job'.op = "error" /\ job'.off = offset /\ job'.len = n
        /\ phase' \in {"done", "dropped"}
    BY <1>4
  <2>2. FileInv'
    BY <1>1, <1>4, <2>1, SameImage DEF FileInv
  <2>3. CriticalInv' /\ ReadInv' /\ CdInv' /\ OnlyFailuresDrop'
    BY <2>1 DEF CriticalInv, ReadInv, CdInv, OnlyFailuresDrop
  <2> QED
    BY <2>2, <2>3 DEF ServedInv
<1>5. ASSUME NEW r \in Read(s, n), Position(r), Errs \/ Answers(r)
      PROVE  ServedInv'
  <2> HIDE DEF s
  <2>1. /\ Valid(r.index, r.at) /\ r.ret \in Int
        /\ r.failed /\ Faults # "all" => r.ret = FAILED
        /\ ~r.failed => Delivers(s, n, r)
    BY <1>1, <1>2, ReadRight
  <2>2. index' = r.index /\ at' = r.at
    BY <1>5 DEF Position
  <2>3. job'.op \in {"read", "error"} /\ job'.off = offset /\ job'.len = n /\ phase' \in {"done", "dropped"}
    BY <1>5
  <2>4. FileInv'
    BY <1>1, <2>1, <2>2, <2>3, SameImage DEF FileInv
  <2>5. CriticalInv' /\ CdInv' /\ OnlyFailuresDrop'
    BY <2>3 DEF CriticalInv, CdInv, OnlyFailuresDrop
  <2>6. ASSUME job'.op = "read", Unmasked' PROVE ReadServed'
    <3>1. Answers(r)
      BY <1>5, <2>6
    <3>2. fault' <=> r.failed
      BY <3>1
    <3>3. ~(r.ret < 0) /\ out' = SubSeq(r.data, 1, r.ret) /\ s.ret # FAILED
      BY <3>1
    <3>4. r.ret # FAILED
      BY <2>1, <3>3 DEF FAILED
    <3>5. ~r.failed
      BY <2>1, <2>6, <3>2, <3>4 DEF Unmasked
    <3> DEFINE w == Right(offset, r.ret)
    <3>6. /\ r.ret \in 0 .. n /\ r.ret \in Nat
          /\ r.data = [i \in 1 .. r.ret |-> offset + i - 1]
          /\ r.ret > 0 => offset + r.ret <= ro_file_size
      <4>1. Where(s.index, s.at) = offset /\ Delivers(s, n, r)
        BY <1>2, <2>1, <3>3, <3>5
      <4>2. /\ r.ret \in 0 .. n
            /\ r.data = [i \in 1 .. r.ret |-> Where(s.index, s.at) + i - 1]
            /\ r.ret > 0 => Where(s.index, s.at) + r.ret <= ro_file_size
        BY <4>1 DEF Delivers
      <4>3. r.data = [i \in 1 .. r.ret |-> offset + i - 1]
        BY <4>1, <4>2
      <4> QED
        BY <4>1, <4>2, <4>3
    <3>7. w \in Seq(Int) /\ Len(w) = r.ret
          /\ \A i \in 1 .. r.ret : w[i] = IF offset + i <= ro_file_size THEN offset + i - 1 ELSE Zero
      BY <1>1, <3>6, RightFacts
    <3>8. ro_file_size \in Nat
      BY <1>1, PartEnd, ImageFacts
    <3>9. r.data \in [1 .. r.ret -> Int] /\ \A i \in 1 .. r.ret : r.data[i] = offset + i - 1
      BY <3>6
    <3>10. r.data \in Seq(Int) /\ Len(r.data) = r.ret
      BY <3>6, <3>9, FunctionIsSeq
    <3> HIDE DEF w
    <3>11. ASSUME NEW i \in 1 .. r.ret PROVE w[i] = r.data[i]
      <4>1. offset + i <= ro_file_size
        BY <3>6, <3>8
      <4> QED
        BY <3>7, <3>9, <4>1
    <3>12. r.data = w
      BY <3>7, <3>10, <3>11, SeqEqual
    <3>13. SubSeq(r.data, 1, r.ret) = r.data
      BY <3>10, SubSeqFull
    <3>14. out' = Right(offset, r.ret) /\ Len(out') = r.ret
      BY <3>3, <3>12, <3>13, <3>7 DEF w
    <3>15. ro_file_size' = ro_file_size /\ Right(job.off, Len(out))' = Right(offset, r.ret)
      BY <1>1, <2>3, <3>14, SameImage
    <3> QED
      BY <2>3, <3>6, <3>14, <3>15 DEF ReadServed
  <2> QED
    BY <2>4, <2>5, <2>6 DEF ServedInv, ReadInv
<1> QED
  BY <1>3, <1>4, <1>5

-----------------------------------------------------------------------------
(* Sectors *)

\* Nothing has been sent of a request that has just begun.
LEMMA StepCd ==
    ASSUME ServedInv, NEW sector \in Nat, NEW n \in Nat, ReadCd2048Critical(sector, n)
    PROVE  ServedInv'
<1>1. /\ job' = [op |-> "cd", off |-> sector * CD_SECTOR_SIZE, len |-> n]
      /\ pos' = 0 /\ out' = <<>> /\ fault' = FALSE
      /\ phase' = IF n * PAYLOAD > BUFFER_SIZE THEN "dropped" ELSE IF n = 0 THEN "done" ELSE "cd"
      /\ UNCHANGED image /\ index' = index /\ at' = at
  BY DEF ReadCd2048Critical, fileVars
<1>2. job'.op = "cd" /\ job'.off = sector * CD_SECTOR_SIZE /\ job'.len = n
  BY <1>1
<1>3. /\ PAYLOAD \in Nat /\ sector * CD_SECTOR_SIZE \in Nat
  BY Multiples, ReadAssumption
<1>4. image \in Images /\ Valid(index, at)
  BY DEF ServedInv, FileInv
<1>5. FileInv'
  BY <1>1, <1>2, <1>3, <1>4, SameImage DEF FileInv
<1>6. phase' \in {"dropped", "done", "cd"} /\ (phase' = "done" => n = 0) /\ (phase' = "cd" => n # 0)
  BY <1>1
<1>7. CriticalInv' /\ ReadInv' /\ OnlyFailuresDrop'
  BY <1>2, <1>6 DEF CriticalInv, ReadInv, OnlyFailuresDrop
<1>8. Sent(job', out', 0)
  <2>1. <<>> \in Seq(Int) /\ Len(<<>>) = 0 /\ 0 * PAYLOAD = 0 /\ 1 .. 0 = {}
    BY <1>3
  <2> QED
    BY <1>1, <2>1 DEF Sent
<1>9. CdInv'
  <2>1. /\ phase' = "cd" => pos' \in 0 .. job'.len - 1 /\ ~fault' /\ Sent(job', out', pos')
        /\ phase' = "done" => Sent(job', out', job'.len)
    BY <1>1, <1>2, <1>6, <1>8
  <2> QED
    BY <1>1, <1>2, <2>1, SameImage DEF CdInv
<1> QED
  BY <1>5, <1>7, <1>9 DEF ServedInv

\* Byte m of sector k.
LEMMA SectorByte ==
    ASSUME NEW j, NEW k \in Nat, NEW m \in 1 .. PAYLOAD
    PROVE  Payload(j, k * PAYLOAD + m) = Right(j.off + HEADER + k * CD_SECTOR_SIZE, PAYLOAD)[m]
<1>1. PAYLOAD \in Nat \ {0} /\ k * PAYLOAD \in Nat /\ m - 1 \in 0 .. PAYLOAD - 1
  BY Multiples, ReadAssumption
<1>2. (k * PAYLOAD + (m - 1)) \div PAYLOAD = k /\ (k * PAYLOAD + (m - 1)) % PAYLOAD = m - 1
  BY <1>1, Quotient
<1> DEFINE y == k * PAYLOAD + m
           q == (y - 1) \div PAYLOAD
           d == (y - 1) % PAYLOAD
<1>3. y - 1 = k * PAYLOAD + (m - 1) /\ (m - 1) + 1 = m
  BY <1>1
<1>4. q = k /\ d = m - 1
  BY <1>2, <1>3
<1> HIDE DEF y
<1>5. Payload(j, y) = Right(j.off + HEADER + q * CD_SECTOR_SIZE, PAYLOAD)[d + 1]
  BY Zenon DEF Payload
<1> HIDE DEF q, d
<1>6. Payload(j, y) = Right(j.off + HEADER + k * CD_SECTOR_SIZE, PAYLOAD)[m]
  BY <1>3, <1>4, <1>5
<1> QED
  BY <1>6 DEF y

\* The position of byte i: its sector and its place in that.
LEMMA SectorOf ==
    ASSUME NEW n \in Nat, NEW i \in 1 .. n * PAYLOAD
    PROVE  \E k \in 0 .. n - 1, m \in 1 .. PAYLOAD :
              /\ i = k * PAYLOAD + m
              /\ (i - 1) \div PAYLOAD = k /\ (i - 1) % PAYLOAD = m - 1
<1> DEFINE k == (i - 1) \div PAYLOAD
           m == (i - 1) % PAYLOAD
<1>1. PAYLOAD \in Nat \ {0} /\ n * PAYLOAD \in Nat /\ i - 1 \in Nat
  BY Multiples, ReadAssumption
<1>2. k \in Nat /\ m \in 0 .. PAYLOAD - 1 /\ i - 1 = k * PAYLOAD + m /\ k * PAYLOAD \in Nat
  BY <1>1, Division, Multiples
<1> HIDE DEF k, m
<1>3. n <= k => n * PAYLOAD <= k * PAYLOAD
  BY <1>1, <1>2, Multiples
<1>4. k \in 0 .. n - 1
  BY <1>1, <1>2, <1>3
<1>5. m + 1 \in 1 .. PAYLOAD /\ i = k * PAYLOAD + (m + 1) /\ (m + 1) - 1 = m
  BY <1>1, <1>2
<1> QED
  BY <1>4, <1>5 DEF k, m

\* One more sector has been sent.
LEMMA SentOneMore ==
    ASSUME image \in Images, NEW j, j.off \in Nat, NEW k \in Nat, NEW o, Sent(j, o, k), NEW piece \in Seq(Int), Len(piece) = PAYLOAD,
           \A m \in 1 .. PAYLOAD :
              LET right == Right(j.off + HEADER + k * CD_SECTOR_SIZE, PAYLOAD)[m]
              IN image.is_multipart = 0 \/ right # Zero => piece[m] = right
    PROVE  Sent(j, o \o piece, k + 1)
<1> DEFINE base == k * PAYLOAD
           u == o \o piece
           Right1(m) == Right(j.off + HEADER + k * CD_SECTOR_SIZE, PAYLOAD)[m]
<1>1. base \in Nat /\ (k + 1) * PAYLOAD = base + PAYLOAD /\ PAYLOAD \in Nat
  BY Multiples, ReadAssumption
<1>2. o \in Seq(Int) /\ Len(o) = base
      /\ \A i \in 1 .. base : image.is_multipart = 0 \/ Payload(j, i) # Zero => o[i] = Payload(j, i)
  BY DEF Sent
<1>3. /\ u \in Seq(Int) /\ Len(u) = base + PAYLOAD
      /\ \A i \in 1 .. base + PAYLOAD : u[i] = IF i <= base THEN o[i] ELSE piece[i - base]
  <2>1. /\ u \in Seq(Int) /\ Len(u) = Len(o) + Len(piece)
        /\ \A i \in 1 .. Len(o) + Len(piece) : u[i] = IF i <= Len(o) THEN o[i] ELSE piece[i - Len(o)]
    BY <1>2, ConcatProperties
  <2> QED
    BY <1>2, <2>1
<1>4. \A m \in 1 .. PAYLOAD : Payload(j, base + m) = Right1(m)
  BY SectorByte
<1>5. \A m \in 1 .. PAYLOAD : image.is_multipart = 0 \/ Right1(m) # Zero => piece[m] = Right1(m)
  OBVIOUS
<1> HIDE DEF base, u, Right1
<1>6. ASSUME NEW i \in 1 .. base + PAYLOAD, image.is_multipart = 0 \/ Payload(j, i) # Zero
      PROVE  u[i] = Payload(j, i)
  <2>1. CASE i <= base
    <3>1. i \in 1 .. base
      BY <1>1, <2>1
    <3> QED
      BY <1>2, <1>3, <1>6, <2>1, <3>1
  <2>2. CASE ~(i <= base)
    <3>1. i - base \in 1 .. PAYLOAD /\ i = base + (i - base)
      BY <1>1, <2>2
    <3>2. Payload(j, i) = Right1(i - base)
      BY <1>4, <3>1
    <3> QED
      BY <1>3, <1>5, <1>6, <2>2, <3>1, <3>2
  <2> QED
    BY <2>1, <2>2
<1>7. Sent(j, u, k + 1)
  BY <1>1, <1>3, <1>6 DEF Sent
<1> QED
  BY <1>7 DEF u

\* All the sectors have been read in one go.
LEMMA SentInOneGo ==
    ASSUME image \in Images, NEW j, j.off \in Nat, NEW n \in Nat, n > 0, NEW scratch,
           scratch = Right(j.off + HEADER, Span(n))
    PROVE  Sent(j, Extract(scratch, n), n)
<1> DEFINE w == Extract(scratch, n)
           N == n * PAYLOAD
           start == j.off + HEADER
           span == Span(n)
           R(x) == IF x < ro_file_size THEN x ELSE Zero
<1>1. /\ PAYLOAD \in Nat \ {0} /\ HEADER \in Nat /\ CD_SECTOR_SIZE \in Nat \ {0} /\ N \in Nat
      /\ start \in Nat /\ (n - 1) * CD_SECTOR_SIZE \in Nat /\ n - 1 \in Nat
      /\ ro_file_size \in Nat
  BY Multiples, ReadAssumption, PartEnd, ImageFacts
<1>2. span = (n - 1) * CD_SECTOR_SIZE + HEADER + PAYLOAD /\ span \in Nat
  BY <1>1 DEF Span
<1> HIDE DEF span, N, start
<1>3. \A x \in 1 .. span : scratch[x] = IF start + x <= ro_file_size THEN start + x - 1 ELSE Zero
  BY <1>1, <1>2, RightFacts DEF start, span
<1>4. ASSUME NEW i \in 1 .. N
      PROVE  w[i] = Payload(j, i) /\ w[i] \in Int
  <2>1. PICK k \in 0 .. n - 1, m \in 1 .. PAYLOAD :
           /\ i = k * PAYLOAD + m
           /\ (i - 1) \div PAYLOAD = k /\ (i - 1) % PAYLOAD = m - 1
    BY <1>4, SectorOf DEF N
  <2> DEFINE c == k * CD_SECTOR_SIZE
  <2>2. c \in Nat /\ c <= (n - 1) * CD_SECTOR_SIZE /\ k \in Nat /\ m \in Nat
    BY <1>1, Multiples
  <2>3. w[i] = scratch[c + (m - 1) + 1]
    BY <1>4, <2>1 DEF Extract, N
  <2> HIDE DEF c, w
  <2>4. c + (m - 1) + 1 = c + m /\ c + m \in 1 .. span
    BY <1>1, <1>2, <2>2
  <2>5. w[i] = IF start + (c + m) <= ro_file_size THEN start + (c + m) - 1 ELSE Zero
    BY <1>3, <2>3, <2>4
  <2>6. Payload(j, i) = Right(start + c, PAYLOAD)[m]
    BY <2>1, <2>2, SectorByte DEF c, start
  <2>7. Right(start + c, PAYLOAD)[m] = IF (start + c) + m <= ro_file_size THEN (start + c) + m - 1 ELSE Zero
    <3> DEFINE e == start + c
    <3>1. e \in Nat /\ PAYLOAD \in Nat
      BY <1>1, <2>2
    <3> HIDE DEF e
    <3>2. Right(e, PAYLOAD)[m] = IF e + m <= ro_file_size THEN e + m - 1 ELSE Zero
      BY <3>1, RightFacts
    <3> QED
      BY <3>2 DEF e
  <2>8. start + (c + m) = (start + c) + m
    BY <1>1, <2>2
  <2> QED
    BY <1>1, <2>2, <2>5, <2>6, <2>7, <2>8 DEF Zero
<1>5. w \in [1 .. N -> Int]
  <2>1. w = [i \in 1 .. N |-> w[i]]
    BY DEF Extract, N
  <2> QED
    BY <1>4, <2>1
<1> HIDE DEF w
<1>6. w \in Seq(Int) /\ Len(w) = N
  BY <1>1, <1>5, FunctionIsSeq
<1>7. Sent(j, w, n)
  BY <1>4, <1>6 DEF Sent, N
<1> QED
  BY <1>7 DEF w

LEMMA PaddedIsSeq ==
    ASSUME image \in Images, NEW f, Valid(f.index, f.at), NEW n \in Nat, NEW r, Delivers(f, n, r)
    PROVE  Padded(r, n) \in Seq(Int) /\ Len(Padded(r, n)) = n
<1>1. f.index \in Nat /\ f.at[f.index] \in Nat /\ image.part_size \in Nat
  BY ImageFacts DEF Valid
<1>2. f.index * image.part_size \in Nat
  BY <1>1, Multiples
<1>3. Where(f.index, f.at) \in Nat
  BY <1>1, <1>2 DEF Where
<1>4. r.ret \in 0 .. n /\ r.data = [i \in 1 .. r.ret |-> Where(f.index, f.at) + i - 1]
  BY DEF Delivers
<1>5. \A i \in 1 .. n : i <= r.ret => r.data[i] \in Int
  BY <1>3, <1>4
<1>6. Padded(r, n) \in [1 .. n -> Int]
  BY <1>5 DEF Padded, Zero
<1> QED
  BY <1>6, FunctionIsSeq

LEMMA StepBulk ==
    ASSUME ServedInv, ReadCdBulk
    PROVE  ServedInv'
<1> DEFINE span == Span(job.len)
           start == job.off + HEADER
           f == Seek(start)
           total == ro_file_size
           Sends(r) == /\ fault' = r.failed
                       /\ r.ret = span \/ (r.ret >= 0 /\ start + r.ret >= total)
                       /\ out' = Extract(Padded(r, span), job.len)
                       /\ phase' = "done"
<1>1. /\ image \in Images /\ Valid(index, at) /\ job.off \in Nat /\ job.len \in Nat
      /\ job.op = "cd" /\ job.len > 0 /\ image.is_multipart = 0
      /\ UNCHANGED image /\ UNCHANGED job
  BY DEF ServedInv, FileInv, CdInv, ReadCdBulk
<1>2. start \in Nat /\ span \in Nat
  <2>1. {HEADER, PAYLOAD, CD_SECTOR_SIZE} \subseteq Nat
    BY ReadAssumption
  <2>2. job.len - 1 \in Nat
    BY <1>1
  <2>3. (job.len - 1) * CD_SECTOR_SIZE \in Nat
    BY <2>1, <2>2, Multiples
  <2> QED
    BY <1>1, <2>1, <2>3 DEF Span
<1>3. PICK r \in Read(f, span) :
         /\ Position(r)
         /\ \/ /\ fault' = r.failed
               /\ IF r.ret = span \/ (r.ret >= 0 /\ start + r.ret >= total)
                  THEN /\ out' = Extract(Padded(r, span), job.len)
                       /\ pos' = job.len /\ phase' = "done"
                  ELSE Dropped
            \/ MayFail /\ fault' = TRUE /\ Dropped
  BY DEF ReadCdBulk
<1>4. Valid(f.index, f.at) /\ f.ret # FAILED /\ Where(f.index, f.at) = start
  BY <1>1, <1>2, SeekRight
<1> HIDE DEF f, span, start, total
<1>5. /\ Valid(r.index, r.at) /\ r.ret \in Int
      /\ r.failed /\ Faults # "all" => r.ret = FAILED
      /\ ~r.failed => Delivers(f, span, r)
  BY <1>1, <1>2, <1>4, ReadRight
<1>6. index' = r.index /\ at' = r.at
  BY <1>3 DEF Position
<1>7. FileInv'
  BY <1>1, <1>5, <1>6, SameImage DEF FileInv
<1>8. Sends(r) \/ phase' = "dropped"
  BY <1>3 DEF Dropped
<1>9. job'.op = "cd" /\ phase' \in {"done", "dropped"}
  BY <1>1, <1>8
<1>10. CriticalInv' /\ ReadInv' /\ OnlyFailuresDrop'
  BY <1>9 DEF CriticalInv, ReadInv, OnlyFailuresDrop
<1>11. ASSUME Sends(r), Unmasked' PROVE Sent(job', out', job'.len)
  <2>1. fault' <=> r.failed
    BY <1>11
  <2>2. r.ret # FAILED /\ (r.ret = span \/ start + r.ret >= total)
    BY <1>2, <1>11 DEF FAILED
  <2>3. ~r.failed
    BY <1>5, <1>11, <2>1, <2>2 DEF Unmasked
  <2>4. Stands(f.index, f.at, start)
    BY <1>4 DEF Stands
  <2>5. Padded(r, span) = Right(start, span)
    BY <1>1, <1>2, <1>4, <1>5, <2>2, <2>3, <2>4, PaddedRight DEF total
  <2>6. Sent(job, Extract(Padded(r, span), job.len), job.len)
    BY <1>1, <2>5, SentInOneGo DEF start, span
  <2> QED
    BY <1>1, <1>11, <2>6
<1>12. CdInv'
  BY <1>1, <1>8, <1>9, <1>11, SameImage DEF CdInv
<1> QED
  BY <1>7, <1>10, <1>12 DEF ServedInv

LEMMA StepSector ==
    ASSUME ServedInv, ReadCdSector
    PROVE  ServedInv'
<1> DEFINE start == job.off + pos * CD_SECTOR_SIZE + HEADER
           f == Seek(start)
           total == ro_file_size
           Sends(r) == /\ fault' = (fault \/ r.failed)
                       /\ r.ret = PAYLOAD \/ (r.ret >= 0 /\ start + r.ret >= total)
                       /\ out' = out \o Padded(r, PAYLOAD) /\ pos' = pos + 1
                       /\ phase' = IF pos' = job.len THEN "done" ELSE "cd"
<1>1. /\ image \in Images /\ Valid(index, at) /\ job.off \in Nat /\ job.len \in Nat
      /\ job.op = "cd" /\ pos \in 0 .. job.len - 1
      /\ Unmasked => ~fault /\ Sent(job, out, pos)
      /\ UNCHANGED image /\ UNCHANGED job
  BY DEF ServedInv, FileInv, CdInv, ReadCdSector
<1>2. /\ start \in Nat /\ PAYLOAD \in Nat /\ PAYLOAD > 0 /\ pos \in Nat
      /\ start = job.off + HEADER + pos * CD_SECTOR_SIZE
  <2>1. {HEADER, PAYLOAD, CD_SECTOR_SIZE} \subseteq Nat /\ PAYLOAD > 0
    BY ReadAssumption
  <2>2. pos \in Nat
    BY <1>1
  <2>3. pos * CD_SECTOR_SIZE \in Nat
    BY <2>1, <2>2, Multiples
  <2> QED
    BY <1>1, <2>1, <2>2, <2>3
<1>3. PICK r \in Read(f, PAYLOAD) :
         /\ Position(r)
         /\ \/ /\ fault' = (fault \/ r.failed)
               /\ IF r.ret = PAYLOAD \/ (r.ret >= 0 /\ start + r.ret >= total)
                  THEN /\ out' = out \o Padded(r, PAYLOAD)
                       /\ pos' = pos + 1
                       /\ phase' = IF pos' = job.len THEN "done" ELSE "cd"
                  ELSE Dropped
            \/ MayFail /\ pos + 1 = job.len /\ fault' = TRUE /\ Dropped
  BY DEF ReadCdSector
<1>4. /\ Valid(f.index, f.at)
      /\ f.ret # FAILED => Where(f.index, f.at) = start
      /\ f.ret = FAILED => image.is_multipart > 0 /\ start >= image.is_multipart * image.part_size
  BY <1>1, <1>2, SeekRight
<1> HIDE DEF f, start, total
<1>5. /\ Valid(r.index, r.at) /\ r.ret \in Int
      /\ r.failed /\ Faults # "all" => r.ret = FAILED
      /\ ~r.failed => Delivers(f, PAYLOAD, r)
  BY <1>1, <1>2, <1>4, ReadRight
<1>6. index' = r.index /\ at' = r.at
  BY <1>3 DEF Position
<1>7. FileInv'
  BY <1>1, <1>5, <1>6, SameImage DEF FileInv
<1>8. Sends(r) \/ phase' = "dropped"
  BY <1>3 DEF Dropped
<1>9. job'.op = "cd" /\ phase' \in {"done", "dropped", "cd"}
  BY <1>1, <1>8
<1>10. CriticalInv' /\ ReadInv' /\ OnlyFailuresDrop'
  BY <1>9 DEF CriticalInv, ReadInv, OnlyFailuresDrop
<1>11. ASSUME Sends(r), Unmasked' PROVE ~fault' /\ Sent(job, out', pos + 1)
  <2>1. fault' <=> fault \/ r.failed
    BY <1>11
  <2>2. r.ret # FAILED /\ (r.ret = PAYLOAD \/ start + r.ret >= total)
    BY <1>2, <1>11 DEF FAILED
  <2>3. ~r.failed /\ Unmasked
    BY <1>5, <1>11, <2>1, <2>2 DEF Unmasked
  <2> DEFINE piece == Padded(r, PAYLOAD)
             right == Right(job.off + HEADER + pos * CD_SECTOR_SIZE, PAYLOAD)
  <2>4. piece \in Seq(Int) /\ Len(piece) = PAYLOAD
    BY <1>1, <1>2, <1>4, <1>5, <2>3, PaddedIsSeq
  <2>5. right = Right(start, PAYLOAD)
    BY <1>2
  <2>6. ASSUME f.ret # FAILED PROVE piece = right
    <3>1. Stands(f.index, f.at, start)
      BY <1>4, <2>6 DEF Stands
    <3> QED
      BY <1>1, <1>2, <1>4, <1>5, <2>2, <2>3, <2>5, <3>1, PaddedRight DEF total
  <2>7. ASSUME f.ret = FAILED
        PROVE  image.is_multipart # 0 /\ \A m \in 1 .. PAYLOAD : right[m] = Zero
    <3>1. /\ image.is_multipart > 0 /\ start >= image.is_multipart * image.part_size
          /\ Count = image.is_multipart /\ image.part_size \in Nat /\ image.is_multipart \in Nat
      BY <1>1, <1>4, <2>7, ImageFacts
    <3>2. image.is_multipart * image.part_size \in Nat
      BY <3>1, Multiples
    <3>3. total \in Nat /\ total <= image.is_multipart * image.part_size
      <4>1. 0 \in 0 .. Count - 1
        BY <1>1, ImageFacts
      <4>2. total \in Nat /\ (total <= Count * image.part_size \/ image.is_multipart = 0)
        BY <1>1, <4>1, PartEnd DEF total
      <4> QED
        BY <3>1, <4>2
    <3>4. start >= total
      BY <1>2, <3>1, <3>2, <3>3
    <3>5. \A m \in 1 .. PAYLOAD : Right(start, PAYLOAD)[m] = Zero
      <4>1. \A m \in 1 .. PAYLOAD : ~(start + m <= total)
        BY <1>2, <3>3, <3>4
      <4>2. \A m \in 1 .. PAYLOAD :
               Right(start, PAYLOAD)[m] = IF start + m <= total THEN start + m - 1 ELSE Zero
        BY <1>1, <1>2, RightFacts DEF total
      <4> QED
        BY <4>1, <4>2
    <3> QED
      BY <2>5, <3>1, <3>5
  <2> HIDE DEF piece, right
  <2>8. \A m \in 1 .. PAYLOAD : image.is_multipart = 0 \/ right[m] # Zero => piece[m] = right[m]
    BY <2>6, <2>7
  <2>9. Sent(job, out \o piece, pos + 1)
    BY <1>1, <1>2, <2>3, <2>4, <2>8, SentOneMore DEF right
  <2> QED
    BY <1>1, <1>11, <2>1, <2>3, <2>9 DEF piece
<1>12. CdInv'
  <2>1. phase' = "cd" => pos' = pos + 1 /\ pos' # job.len /\ Sends(r)
    BY <1>8
  <2>2. phase' = "done" => job.len = pos + 1 /\ Sends(r)
    BY <1>8
  <2>3. phase' = "cd" => pos' \in 0 .. job.len - 1
    BY <1>1, <2>1
  <2>4. phase' = "cd" /\ Unmasked' => ~fault' /\ Sent(job', out', pos')
    BY <1>1, <1>11, <2>1
  <2>5. phase' = "done" /\ Unmasked' => Sent(job', out', job'.len)
    BY <1>1, <1>11, <2>2
  <2> QED
    BY <1>1, <1>9, <2>3, <2>4, <2>5, SameImage DEF CdInv
<1> QED
  BY <1>7, <1>10, <1>12 DEF ServedInv

-----------------------------------------------------------------------------
(* The theorems *)

LEMMA ServedInit == Init => ServedInv
<1> SUFFICES ASSUME Init PROVE ServedInv
  OBVIOUS
<1>1. /\ image \in Images /\ index = 0 /\ at = [p \in 0 .. Count - 1 |-> 0]
      /\ phase = "open" /\ job.op = "none" /\ job.off = 0 /\ job.len = 0
  BY DEF Init, NoJob
<1>2. Count \in Nat \ {0} /\ image.part_size \in Nat
  BY <1>1, ImageFacts
<1>3. FileInv
  BY <1>1, <1>2 DEF FileInv, Valid
<1>4. CriticalInv /\ ReadInv /\ CdInv /\ OnlyFailuresDrop
  BY <1>1 DEF CriticalInv, ReadInv, CdInv, OnlyFailuresDrop
<1> QED
  BY <1>3, <1>4 DEF ServedInv

LEMMA ServedStep == ServedInv /\ [Next]_vars => ServedInv'
<1> SUFFICES ASSUME ServedInv, [Next]_vars PROVE ServedInv'
  OBVIOUS
<1>1. {MaxOffset, MaxLength} \subseteq Nat /\ {CD_SECTOR_SIZE, PAYLOAD} \subseteq Nat \ {0}
  BY ReadAssumption
<1>2. ASSUME NEW offset \in 0 .. MaxOffset, NEW n \in 0 .. MaxLength, ReadFileCritical(offset, n)
      PROVE  ServedInv'
  BY <1>1, <1>2, StepCritical
<1>3. ASSUME NEW offset \in 0 .. MaxOffset, NEW n \in 0 .. MaxLength, ReadFileCmd(offset, n)
      PROVE  ServedInv'
  BY <1>1, <1>3, StepRead
<1>4. ASSUME NEW sector \in 0 .. MaxOffset \div CD_SECTOR_SIZE, NEW n \in 0 .. MaxLength \div PAYLOAD,
             ReadCd2048Critical(sector, n)
      PROVE  ServedInv'
  <2>1. sector \in Nat /\ n \in Nat
    BY <1>1
  <2> QED
    BY <1>4, <2>1, StepCd
<1>5. ASSUME UNCHANGED vars PROVE ServedInv'
  <2>1. /\ UNCHANGED image /\ UNCHANGED index /\ UNCHANGED at /\ UNCHANGED phase
        /\ UNCHANGED job /\ UNCHANGED pos /\ UNCHANGED out /\ UNCHANGED fault
    BY <1>5 DEF vars, fileVars
  <2>2. (Unmasked' <=> Unmasked) /\ (ReadServed' <=> ReadServed)
    BY <2>1, SameImage DEF Unmasked, ReadServed
  <2>3. FileInv' /\ CriticalInv'
    BY <2>1, <2>2, SameImage DEF ServedInv, FileInv, CriticalInv
  <2>4. ReadInv' /\ CdInv'
    BY <2>1, <2>2, SameImage DEF ServedInv, ReadInv, CdInv
  <2>5. OnlyFailuresDrop'
    BY <2>1 DEF ServedInv, OnlyFailuresDrop
  <2> QED
    BY <2>3, <2>4, <2>5 DEF ServedInv
<1> QED
  BY <1>2, <1>3, <1>4, <1>5, StepChunk, StepBulk, StepSector DEF Next, Over

LEMMA Serves == Spec => []ServedInv
<1> QED
  BY ServedInit, ServedStep, PTL DEF Spec

\* READ_FILE_CRITICAL sends the bytes that were asked for, in order, for an
\* image in any number of parts of any size and a buffer of any length, unless
\* a system call fails in the middle of an image in parts: that failure can be
\* masked (see the run ReadMaskedError).
THEOREM CriticalIsServed == Spec => [](Unmasked => CriticalServed)
<1>1. ServedInv => (Unmasked => CriticalServed)
  <2> SUFFICES ASSUME ServedInv, Unmasked, job.op = "critical" PROVE CriticalServed
    BY DEF CriticalServed
  <2>1. /\ image \in Images /\ job.off \in Nat /\ job.len \in Nat
        /\ pos \in job.off .. job.off + job.len
        /\ out = Right(job.off, pos - job.off)
        /\ phase = "done" => pos = job.off + job.len
    BY DEF ServedInv, FileInv, CriticalInv
  <2> DEFINE k == pos - job.off
  <2>2. k \in Nat /\ k <= job.len /\ (phase = "done" => k = job.len)
    BY <2>1
  <2> HIDE DEF k
  <2>3. out = Right(job.off, k) /\ Len(out) = k
    BY <2>1, <2>2, RightFacts DEF k
  <2> QED
    BY <2>2, <2>3 DEF CriticalServed
<1> QED
  BY <1>1, Serves, PTL

\* READ_FILE sends bytes of the image from the right place on, and none from
\* beyond its end, under the same condition.
THEOREM ReadIsServed == Spec => [](Unmasked => ReadServed)
<1>1. ServedInv => (Unmasked => ReadServed)
  BY DEF ServedInv, ReadInv, ReadServed
<1> QED
  BY <1>1, Serves, PTL

\* READ_CD_2048_CRITICAL sends the payload of each sector, whether the file
\* was read in one go or sector by sector, under the same condition.
THEOREM CdIsServed == Spec => [](Unmasked => CdServed)
<1>1. ServedInv => (Unmasked => CdServed)
  <2> SUFFICES ASSUME ServedInv, Unmasked, phase = "done", job.op = "cd" PROVE CdServed
    BY DEF CdServed
  <2> DEFINE N == job.len * PAYLOAD
  <2>1. image \in Images /\ job.off \in Nat /\ job.len \in Nat /\ Sent(job, out, job.len)
    BY DEF ServedInv, FileInv, CdInv
  <2>2. N \in Nat /\ PAYLOAD \in Nat \ {0} /\ {HEADER, CD_SECTOR_SIZE} \subseteq Nat
    BY <2>1, Multiples, ReadAssumption
  <2>3. Payloads = [i \in 1 .. N |-> Payload(job, i)]
    BY Zenon DEF Payloads, Payload
  <2>4. ASSUME NEW i \in 1 .. N PROVE Payload(job, i) \in Int
    <3>1. PICK k \in 0 .. job.len - 1, m \in 1 .. PAYLOAD : i = k * PAYLOAD + m
      BY <2>1, SectorOf
    <3> DEFINE e == job.off + HEADER + k * CD_SECTOR_SIZE
    <3>2. k * CD_SECTOR_SIZE \in Nat /\ k \in Nat
      BY <2>1, <2>2, Multiples
    <3>3. e \in Nat
      BY <2>1, <2>2, <3>2
    <3>4. Payload(job, i) = Right(e, PAYLOAD)[m]
      BY <3>1, <3>2, SectorByte
    <3> HIDE DEF e
    <3>5. Right(e, PAYLOAD) \in Seq(Int) /\ Len(Right(e, PAYLOAD)) = PAYLOAD
      BY <2>1, <2>2, <3>3, RightFacts
    <3> QED
      BY <3>4, <3>5, ElementOfSeq
  <2> HIDE DEF N
  <2>5. Payloads \in [1 .. N -> Int] /\ \A i \in 1 .. N : Payloads[i] = Payload(job, i)
    BY <2>3, <2>4
  <2>6. Len(Payloads) = N
    BY <2>2, <2>5, FunctionIsSeq
  <2>7. /\ Len(out) = N
        /\ \A i \in 1 .. N : image.is_multipart = 0 \/ Payload(job, i) # Zero => out[i] = Payload(job, i)
    BY <2>1 DEF Sent, N
  <2> QED
    BY <2>5, <2>6, <2>7 DEF CdServed
<1> QED
  BY <1>1, Serves, PTL

\* Without a failing system call, READ_FILE_CRITICAL gives up only what seek()
\* refuses, wherever the request and its buffers lie in the parts.
THEOREM OnlyFailuresDropClients == Spec => []OnlyFailuresDrop
<1>1. ServedInv => OnlyFailuresDrop
  BY DEF ServedInv
<1> QED
  BY <1>1, Serves, PTL
=============================================================================
