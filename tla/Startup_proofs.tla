--------------------------- MODULE Startup_proofs ---------------------------
(***************************************************************************)
(* Proofs about Startup, for any command lines and environments: what is   *)
(* served and whether an image is made, which addresses a whitelist admits, *)
(* and which images the build with MAKEISO makes.                          *)
(***************************************************************************)
EXTENDS Startup, SequenceTheorems, FiniteSetTheorems, TLAPS

\* The path that the command line names, and how many arguments count then.
Named == IF cmd.args = << >> THEN Before(cmd.exe) ELSE cmd.args[1]
Counted == Max({1, Len(cmd.args)})

LEMMA CountedArgs ==
    ASSUME cmd \in Commands
    PROVE  Counted = IF Len(cmd.args) > 1 THEN Len(cmd.args) ELSE 1
<1> DEFINE n == Len(cmd.args)
<1>1. n \in Nat
  BY CommandsAssumption
<1> HIDE DEF n
<1>2. Max({1, n}) = IF n > 1 THEN n ELSE 1
  BY <1>1 DEF Max
<1> QED
  BY <1>2, Zenon DEF Counted, n

LEMMA AppendToNone ==
    ASSUME NEW x
    PROVE  Len(Append(<< >>, x)) = 1
<1>1. << >> \in Seq({x})
  OBVIOUS
<1> QED
  BY <1>1

-----------------------------------------------------------------------------
(* The choice between serving and making an image *)

\* What make_iso says of the command line at each point of main().
Decided ==
    /\ cmd \in Commands /\ env \in Environments
    /\ pc = "args" => argc = Len(cmd.args)
    /\ pc \in {"args", "root", "port", "whitelist", "listening"} => outputs = << >>
    /\ ~cmd.makeiso =>
          /\ pc # "images"
          /\ pc \in {"root", "port"} =>
                argc = Counted /\ make_iso = ImageKind(normalize_path(Named), Counted)
          /\ pc = "whitelist" => (make_iso # "VISO_NONE" <=> ImageAsked)
          /\ pc = "image" => ImageAsked
          /\ pc = "listening" => ~ImageAsked
          /\ outputs # << >> => ImageAsked /\ Len(outputs) = 1

LEMMA DecidedInit == Init => Decided
BY DEF Init, Decided

LEMMA DecidedStep == Decided /\ [Next]_vars => Decided'
<1> SUFFICES ASSUME Decided, [Next]_vars PROVE Decided'
  OBVIOUS
<1> USE DEF Decided, args, whitelist
<1>1. ASSUME UNCHANGED <<cmd, env>> PROVE ImageAsked' = ImageAsked /\ Counted' = Counted
  BY <1>1 DEF ImageAsked, Counted, HasIso, normalize_path, Before
<1>2. ASSUME UNCHANGED <<cmd, env>>
      PROVE  ImageKind(normalize_path(Named), Counted)' = ImageKind(normalize_path(Named), Counted)
  BY <1>2 DEF ImageKind, Named, Counted, HasIso, normalize_path, Before
<1>3. CASE MutexInitFails
  BY <1>1, <1>3 DEF MutexInitFails, Exit
<1>4. CASE Args
  <2> USE <1>4 DEF Args
  <2>1. UNCHANGED <<cmd, env, outputs>>
    OBVIOUS
  <2>2. CASE pc' = "exit"
    BY <1>1, <2>1, <2>2
  <2>3. CASE pc' # "exit"
    <3>1. argc' = Counted /\ root_directory' = normalize_path(Named)
          /\ make_iso' = ImageKind(root_directory', argc')
          /\ pc' = IF cmd.makeiso THEN "images" ELSE "root"
      BY <2>3 DEF Exit, Counted, Named
    <3> QED
      BY <1>1, <1>2, <2>1, <3>1
  <2> QED
    BY <2>2, <2>3
<1>5. CASE Root
  BY <1>1, <1>2, <1>5 DEF Root
<1>6. CASE Port
  <2> USE <1>6 DEF Port
  <2>1. UNCHANGED <<cmd, env, outputs>> /\ pc = "port" /\ outputs = << >>
    OBVIOUS
  <2>2. CASE pc' = "exit"
    BY <1>1, <2>1, <2>2
  <2>3. CASE pc' # "exit" /\ cmd.makeiso
    BY <2>1, <2>3 DEF Exit
  <2>4. CASE pc' # "exit" /\ ~cmd.makeiso
    <3> DEFINE u == IF argc < 2 THEN NETISO_PORT ELSE cmd.args[2]
    <3>1. /\ pc' = "whitelist"
          /\ make_iso' = CASE u = PS3 -> "VISO_PS3" [] u = ISO -> "VISO_ISO" [] OTHER -> make_iso
      BY <2>4 DEF Exit
    <3>2. Len(cmd.args) \in Nat
      BY CommandsAssumption
    <3>3. Counted = IF Len(cmd.args) > 1 THEN Len(cmd.args) ELSE 1
      BY CountedArgs
    <3>4. argc = Counted /\ make_iso = ImageKind(normalize_path(Named), Counted)
      BY <2>1, <2>4
    <3>5. make_iso' # "VISO_NONE" <=> ImageAsked
      <4>1. CASE Len(cmd.args) > 1
        <5>1. make_iso = "VISO_NONE" /\ u = cmd.args[2]
          BY <2>4, <3>2, <3>3, <3>4, <4>1 DEF ImageKind
        <5>2. ImageAsked <=> u \in {PS3, ISO}
          BY <4>1, <5>1 DEF ImageAsked
        <5> QED
          BY <3>1, <5>1, <5>2
      <4>2. CASE ~(Len(cmd.args) > 1)
        <5>1. u = NETISO_PORT /\ u # PS3 /\ u # ISO
          BY <3>2, <3>3, <3>4, <4>2, WordsAssumption DEF NETISO_PORT
        <5>2. make_iso' = make_iso
          BY <3>1, <5>1
        <5>3. ImageAsked <=> (normalize_path(Named) \in env.sfo \/ HasIso(normalize_path(Named)))
          BY <4>2 DEF ImageAsked, Named
        <5>4. ImageKind(normalize_path(Named), 1) # "VISO_NONE"
                <=> (normalize_path(Named) \in env.sfo \/ HasIso(normalize_path(Named)))
          BY <2>4 DEF ImageKind
        <5> QED
          BY <3>3, <3>4, <4>2, <5>2, <5>3, <5>4
      <4> QED
        BY <4>1, <4>2
    <3> QED
      BY <1>1, <2>1, <3>1, <3>5
  <2> QED
    BY <2>2, <2>3, <2>4
<1>7. CASE ParseWhitelist
  BY <1>1, <1>7 DEF ParseWhitelist, Exit
<1>8. CASE InitializeSocket
  <2>1. UNCHANGED <<cmd, env, outputs>> /\ outputs = << >>
    BY <1>8 DEF InitializeSocket
  <2>2. pc' \in {"listening", "image", "exit"} /\ (~cmd.makeiso => (pc' = "image" => ImageAsked) /\ (pc' = "listening" => ~ImageAsked))
    BY <1>8 DEF InitializeSocket
  <2> QED
    BY <1>1, <2>1, <2>2
<1>9. CASE ServerImage
  <2> USE <1>9 DEF ServerImage
  <2>1. UNCHANGED <<cmd, env>> /\ pc = "image" /\ pc' \in {"image", "exit", "crashed"}
    BY DEF MakeImage
  <2>2. outputs' = outputs \/ (outputs = << >> /\ \E x : outputs' = Append(outputs, x))
    BY DEF MakeImage
  <2>3. outputs' # << >> /\ ~cmd.makeiso => Len(outputs') = 1
    BY <2>2, AppendToNone
  <2> QED
    BY <1>1, <2>1, <2>3
<1>10. CASE NextImage
  BY <1>1, <1>10 DEF NextImage, Exit, MakeImageOf, MakeImage
<1>11. CASE UNCHANGED vars
  BY <1>1, <1>2, <1>11 DEF vars
<1> QED
  BY <1>3, <1>4, <1>5, <1>6, <1>7, <1>8, <1>9, <1>10, <1>11 DEF Next

\* For any command line: the server goes on to accept() exactly when no image
\* was asked for, and makes one image at most.
THEOREM ServesWhatWasAsked == Spec => []ServesOrMakes
<1>1. Decided => ServesOrMakes
  BY DEF Decided, ServesOrMakes
<1> QED
  BY <1>1, DecidedInit, DecidedStep, PTL DEF Spec

-----------------------------------------------------------------------------
(* The shared directory *)

\* What RootServed says once the directory has been settled.
Settled ==
    /\ Named.names # << >> => root_directory = Named
    /\ cmd.args # << >> /\ Named = Empty =>
          root_directory.names \in {env.cwd.names, ProgramDir.names}

Rooted ==
    /\ cmd \in Commands /\ env \in Environments
    /\ pc = "root" => root_directory = normalize_path(Named)
    /\ pc \in {"port", "whitelist", "listening"} => Settled

LEMMA RootSettles == Rooted /\ Root => Settled'
<1> SUFFICES ASSUME Rooted, Root PROVE Settled'
  OBVIOUS
<1>1. UNCHANGED <<cmd, env>> /\ root_directory = normalize_path(Named)
  BY DEF Root, Rooted
<1>2. PICK getcwd \in BOOLEAN :
         root_directory' = normalize_path(IF root_directory = Empty
                                          THEN IF getcwd THEN env.cwd ELSE ProgramDir
                                          ELSE root_directory)
  BY DEF Root
<1>3. Named' = Named /\ ProgramDir' = ProgramDir /\ Empty.names = << >>
  BY <1>1 DEF Named, Before, ProgramDir, HasSlash, Empty
<1>4. CASE Named.names # << >>
  <2>1. root_directory = Named /\ root_directory # Empty
    BY <1>1, <1>4 DEF normalize_path, Empty
  <2>2. root_directory' = Named
    BY <1>2, <1>4, <2>1 DEF normalize_path
  <2> QED
    BY <1>3, <1>4, <2>1, <2>2 DEF Settled
<1>5. CASE Named.names = << >>
  <2> DEFINE here == IF getcwd THEN env.cwd ELSE ProgramDir
  <2>1. root_directory' = normalize_path(here)
    BY <1>1, <1>2, <1>5 DEF normalize_path
  <2>2. root_directory'.names = here.names
    BY <2>1 DEF normalize_path, Empty
  <2>3. here \in {env.cwd, ProgramDir}
    OBVIOUS
  <2> HIDE DEF here
  <2> QED
    BY <1>1, <1>3, <1>5, <2>2, <2>3 DEF Settled
<1> QED
  BY <1>4, <1>5

LEMMA RootedStep == Rooted /\ [Next]_vars => Rooted'
<1> SUFFICES ASSUME Rooted, [Next]_vars PROVE Rooted'
  OBVIOUS
<1> USE DEF args, whitelist
<1>1. ASSUME UNCHANGED <<cmd, env, root_directory>>
      PROVE  Settled' = Settled /\ normalize_path(Named)' = normalize_path(Named)
  BY <1>1 DEF Settled, Named, Before, normalize_path, ProgramDir, HasSlash
<1>2. CASE Args
  <2>1. UNCHANGED <<cmd, env>> /\ pc' \in {"exit", "images", "root"}
    BY <1>2 DEF Args, Exit
  <2>2. pc' = "root" => root_directory' = normalize_path(Named)
    BY <1>2 DEF Args, Exit, Named
  <2>3. normalize_path(Named)' = normalize_path(Named)
    BY <2>1 DEF normalize_path, Named, Before
  <2> QED
    BY <2>1, <2>2, <2>3 DEF Rooted
<1>3. CASE Root
  <2>1. UNCHANGED <<cmd, env>> /\ pc' \in {"exit", "port"}
    BY <1>3 DEF Root
  <2> QED
    BY <1>3, <2>1, RootSettles DEF Rooted
<1>4. ASSUME UNCHANGED <<cmd, env, root_directory>>,
             pc' \in {"exit", "crashed", "image", "images"} \/ pc' = pc
             \/ (pc \in {"port", "whitelist"} /\ pc' \in {"whitelist", "listening"})
      PROVE  Rooted'
  BY <1>1, <1>4 DEF Rooted
<1>5. CASE Port
  <2>1. UNCHANGED <<cmd, env, root_directory>> /\ pc = "port" /\ pc' \in {"exit", "whitelist"}
    BY <1>5 DEF Port, Exit
  <2> QED
    BY <1>4, <2>1
<1>6. CASE MutexInitFails \/ ParseWhitelist \/ InitializeSocket
  BY <1>4, <1>6 DEF MutexInitFails, ParseWhitelist, InitializeSocket, Exit
<1>7. CASE ServerImage \/ NextImage
  BY <1>4, <1>7 DEF ServerImage, NextImage, Exit, MakeImageOf, MakeImage
<1>8. CASE UNCHANGED vars
  BY <1>4, <1>8 DEF vars
<1> QED
  BY <1>2, <1>3, <1>5, <1>6, <1>7, <1>8 DEF Next

\* For any command line and current directory: the server shares the directory
\* that was named and, for an empty argument, the current one or the program's.
THEOREM NamedRootIsServed == Spec => []RootServed
<1>1. Init => Rooted
  BY DEF Init, Rooted
<1>2. Rooted => RootServed
  BY DEF Rooted, RootServed, Settled, Named
<1> QED
  BY <1>1, <1>2, RootedStep, PTL DEF Spec

-----------------------------------------------------------------------------
(* The whitelist *)

LEMMA Division ==
    ASSUME NEW a \in Nat, NEW b \in Nat \ {0}
    PROVE  a \div b \in Nat /\ a % b \in 0 .. b - 1 /\ a = (a \div b) * b + (a % b)
OBVIOUS

LEMMA Quotient ==
    ASSUME NEW q \in Nat, NEW b \in Nat \ {0}, NEW r \in 0 .. b - 1
    PROVE  (q * b + r) \div b = q /\ (q * b + r) % b = r
OBVIOUS

LEMMA Multiples ==
    ASSUME NEW a \in Nat, NEW b \in Nat, NEW c \in Nat
    PROVE  a * c \in Nat /\ (a <= b => a * c <= b * c) /\ (a < b => a * c + c <= b * c)
<1>1. a * c \in Nat /\ (a <= b => a * c <= b * c)
  OBVIOUS
<1>2. a < b => a * c + c <= b * c
  <2>1. a < b => a + 1 <= b
    OBVIOUS
  <2>2. a + 1 <= b => (a + 1) * c <= b * c
    OBVIOUS
  <2>3. (a + 1) * c = a * c + c
    OBVIOUS
  <2> QED
    BY <1>1, <2>1, <2>2, <2>3
<1> QED
  BY <1>1, <1>2

LEMMA DivideTwice ==
    ASSUME NEW a \in Nat, NEW b \in Nat \ {0}, NEW c \in Nat \ {0}
    PROVE  a \div (c * b) = (a \div c) \div b /\ c * b \in Nat \ {0}
<1> DEFINE q == a \div c
           r == a % c
           p == q \div b
           s == q % b
           e == s * c + r
<1>1. q \in Nat /\ r \in 0 .. c - 1 /\ a = q * c + r
  BY Division
<1> HIDE DEF q, r
<1>2. p \in Nat /\ s \in 0 .. b - 1 /\ q = p * b + s
  BY <1>1, Division
<1> HIDE DEF p, s
<1>3. s * c \in Nat /\ s * c + c <= b * c /\ b * c \in Nat /\ c * b = b * c
  BY <1>2, Multiples
<1>4. c * b \in Nat \ {0} /\ e \in 0 .. c * b - 1
  BY <1>1, <1>3
<1>5. a = p * (c * b) + e
  <2>1. (p * b + s) * c = p * (c * b) + s * c
    BY <1>2
  <2> QED
    BY <1>1, <1>2, <1>3, <2>1
<1> HIDE DEF e
<1>6. (p * (c * b) + e) \div (c * b) = p
  BY <1>2, <1>4, Quotient
<1> QED
  BY <1>4, <1>5, <1>6 DEF p, q

\* Two numbers with their last octets.
LEMMA Ordered ==
    ASSUME NEW b \in Nat \ {0}, NEW p \in Nat, NEW q \in Nat, NEW c \in 0 .. b - 1, NEW d \in 0 .. b - 1
    PROVE  /\ p <= q /\ c <= d => p * b + c <= q * b + d
           /\ p * b + c <= q * b + d => p <= q
           /\ p * b + c = q * b + d => p = q /\ c = d
           /\ p * b + c \in Nat
<1> DEFINE x == p * b
           y == q * b
<1>1. /\ x \in Nat /\ y \in Nat
      /\ p <= q => x <= y
      /\ p < q => x + b <= y
      /\ q < p => y + b <= x
  BY Multiples
<1> HIDE DEF x, y
<1>2. /\ p <= q /\ c <= d => x + c <= y + d
      /\ x + c <= y + d => p <= q
      /\ x + c = y + d => p = q
      /\ x + c \in Nat
  BY <1>1
<1>3. x + c = y + d => c = d
  <2>1. p = q => x = y
    BY DEF x, y
  <2> QED
    BY <1>1, <1>2, <2>1
<1> QED
  BY <1>2, <1>3 DEF x, y

\* An address of four octets.
Address(a, b, c, d) == ((a * OCTETS + b) * OCTETS + c) * OCTETS + d
OctetOf(ip, k) == (ip \div Place(k)) % OCTETS

LEMMA Octets ==
    ASSUME NEW ip \in 0 .. OCTETS * Place(3) - 1
    PROVE  /\ \A k \in 0 .. 3 : OctetOf(ip, k) \in 0 .. OCTETS - 1
           /\ ip = Address(OctetOf(ip, 3), OctetOf(ip, 2), OctetOf(ip, 1), OctetOf(ip, 0))
<1> DEFINE B == OCTETS
           q1 == ip \div B
           q2 == q1 \div B
           q3 == q2 \div B
<1>1. B \in Nat \ {0} /\ B * B \in Nat \ {0} /\ B * B * B \in Nat \ {0}
  BY OctetsAssumption, DivideTwice
<1>2. /\ Place(0) = 1 /\ Place(1) = B /\ Place(2) = B * B /\ Place(3) = B * B * B
  BY DEF Place
<1>3. ip \in Nat /\ ip < B * (B * B * B)
  <2>1. B * (B * B * B) \in Nat
    BY <1>1, Multiples
  <2> QED
    BY <1>2, <2>1
<1>4. q1 \in Nat /\ ip % B \in 0 .. B - 1 /\ ip = q1 * B + (ip % B)
  BY <1>1, <1>3, Division
<1> HIDE DEF q1
<1>5. q2 \in Nat /\ q1 % B \in 0 .. B - 1 /\ q1 = q2 * B + (q1 % B)
  BY <1>1, <1>4, Division
<1> HIDE DEF q2
<1>6. q3 \in Nat /\ q2 % B \in 0 .. B - 1 /\ q2 = q3 * B + (q2 % B)
  BY <1>1, <1>5, Division
<1>7. ip \div 1 = ip
  BY <1>3
<1>8. ip \div (B * B) = q2 /\ ip \div (B * B * B) = q3
  BY <1>1, <1>3, DivideTwice DEF q1, q2
<1> HIDE DEF q3
<1>9. q3 < B
  <2>1. ip \in Nat /\ B * B * B \in Nat \ {0} /\ q3 = ip \div (B * B * B)
    BY <1>1, <1>3, <1>8
  <2> DEFINE c == B * B * B
  <2>2. ip = q3 * c + (ip % c) /\ (ip % c) \in 0 .. c - 1
    BY <2>1, Division
  <2>3. B <= q3 => B * c <= q3 * c
    BY <1>1, <1>6, Multiples
  <2>4. q3 * c \in Nat /\ B * c \in Nat
    BY <1>1, <1>6, Multiples
  <2> HIDE DEF c
  <2>5. ip < B * c
    BY <1>3 DEF c
  <2> QED
    BY <1>1, <1>6, <2>1, <2>2, <2>3, <2>4, <2>5
<1>10. q3 % B = q3
  <2>1. q3 \in 0 .. B - 1 /\ 0 * B + q3 = q3 /\ 0 \in Nat
    BY <1>1, <1>6, <1>9
  <2> QED
    BY <1>1, <2>1, Quotient
<1>11. /\ OctetOf(ip, 0) = ip % B /\ OctetOf(ip, 1) = q1 % B
       /\ OctetOf(ip, 2) = q2 % B /\ OctetOf(ip, 3) = q3
  BY <1>2, <1>7, <1>8, <1>10 DEF OctetOf, q1
<1>12. ASSUME NEW k \in 0 .. 3 PROVE OctetOf(ip, k) \in 0 .. B - 1
  <2>1. k = 0 \/ k = 1 \/ k = 2 \/ k = 3
    OBVIOUS
  <2>2. q3 \in 0 .. B - 1
    BY <1>1, <1>6, <1>9
  <2> QED
    BY <1>4, <1>5, <1>6, <1>11, <2>1, <2>2
<1>13. ip = ((q3 * B + (q2 % B)) * B + (q1 % B)) * B + (ip % B)
  BY <1>4, <1>5, <1>6
<1> QED
  BY <1>11, <1>12, <1>13 DEF Address

\* The ends of the range for octet k, and whether it has been accepted.
Lo(k) == IF tokens[4 - k] = Wildcard THEN 0 ELSE tokens[4 - k]
Hi(k) == IF tokens[4 - k] = Wildcard THEN OCTETS - 1 ELSE tokens[4 - k]
Accepted(k) == tokens[4 - k] \in 0 .. OCTETS - 1 \/ tokens[4 - k] = Wildcard

LEMMA Ends ==
    ASSUME NEW k \in 0 .. 3, Accepted(k)
    PROVE  /\ Lo(k) \in 0 .. OCTETS - 1 /\ Hi(k) \in 0 .. OCTETS - 1
           /\ tokens[4 - k] # Wildcard => Lo(k) = tokens[4 - k] /\ Hi(k) = tokens[4 - k]
BY OctetsAssumption DEF Accepted, Lo, Hi

\* The addresses of a range, octet by octet: if every octet is in its range the
\* address is in the whole one, and conversely if only the last octets vary.
LEMMA RangeIsPattern ==
    ASSUME NEW ip \in 0 .. OCTETS * Place(3) - 1, \A k \in 0 .. 3 : Accepted(k)
    PROVE  LET start == Address(Lo(3), Lo(2), Lo(1), Lo(0))
               end == Address(Hi(3), Hi(2), Hi(1), Hi(0))
           IN  /\ Matches(ip) => start <= ip /\ ip <= end
               /\ /\ \A j, k \in 1 .. 4 : j < k /\ tokens[j] = Wildcard => tokens[k] = Wildcard
                  /\ start <= ip /\ ip <= end
                  => Matches(ip)
               /\ start \in Nat
               /\ (\E k \in 1 .. 4 : tokens[k] \notin {0, Wildcard}) => start # 0
<1> DEFINE B == OCTETS
           D(k) == OctetOf(ip, k)
           s2 == Lo(3) * B + Lo(2)
           s1 == s2 * B + Lo(1)
           s0 == s1 * B + Lo(0)
           e2 == Hi(3) * B + Hi(2)
           e1 == e2 * B + Hi(1)
           e0 == e1 * B + Hi(0)
           q2 == D(3) * B + D(2)
           q1 == q2 * B + D(1)
           q0 == q1 * B + D(0)
<1>1. B \in Nat \ {0}
  BY OctetsAssumption
<1>2. /\ \A k \in 0 .. 3 : Lo(k) \in 0 .. B - 1 /\ Hi(k) \in 0 .. B - 1
      /\ \A k \in 0 .. 3 : tokens[4 - k] # Wildcard => Lo(k) = tokens[4 - k] /\ Hi(k) = tokens[4 - k]
      /\ \A k \in 0 .. 3 : D(k) \in 0 .. B - 1
      /\ ip = q0
  BY Ends, Octets DEF Address
<1>3. Address(Lo(3), Lo(2), Lo(1), Lo(0)) = s0 /\ Address(Hi(3), Hi(2), Hi(1), Hi(0)) = e0
  BY DEF Address
<1>4. Matches(ip) <=> \A k \in 0 .. 3 : tokens[4 - k] = Wildcard \/ tokens[4 - k] = D(k)
  BY DEF Matches, OctetOf
<1>5. \A k \in 0 .. 3 : tokens[4 - k] = Wildcard => Lo(k) = 0 /\ Hi(k) = B - 1
  BY DEF Lo, Hi
<1> HIDE DEF D, B
<1>6. /\ \A k \in 0 .. 3 : Lo(k) \in Nat /\ Hi(k) \in Nat /\ D(k) \in Nat
      /\ 0 \in 0 .. 3 /\ 1 \in 0 .. 3 /\ 2 \in 0 .. 3 /\ 3 \in 0 .. 3
  BY <1>1, <1>2
<1>7. /\ s2 \in Nat /\ e2 \in Nat /\ q2 \in Nat
      /\ s2 <= q2 => Lo(3) <= D(3)
      /\ q2 <= e2 => D(3) <= Hi(3)
      /\ Lo(3) <= D(3) /\ Lo(2) <= D(2) => s2 <= q2
      /\ D(3) <= Hi(3) /\ D(2) <= Hi(2) => q2 <= e2
      /\ s2 = q2 => Lo(2) = D(2)
  <2>1. /\ Lo(3) \in Nat /\ Hi(3) \in Nat /\ D(3) \in Nat
        /\ Lo(2) \in 0 .. B - 1 /\ Hi(2) \in 0 .. B - 1 /\ D(2) \in 0 .. B - 1
    BY <1>2, <1>6
  <2>2. /\ Lo(3) <= D(3) /\ Lo(2) <= D(2) => s2 <= q2
        /\ s2 <= q2 => Lo(3) <= D(3)
        /\ s2 = q2 => Lo(3) = D(3) /\ Lo(2) = D(2)
        /\ s2 \in Nat
    BY <1>1, <2>1, Ordered
  <2>3. /\ D(3) <= Hi(3) /\ D(2) <= Hi(2) => q2 <= e2
        /\ q2 <= e2 => D(3) <= Hi(3)
        /\ q2 \in Nat
    BY <1>1, <2>1, Ordered
  <2>4. e2 \in Nat
    BY <1>1, <2>1, Ordered
  <2> QED
    BY <2>2, <2>3, <2>4
<1> HIDE DEF s2, e2, q2
<1>8. /\ s1 \in Nat /\ e1 \in Nat /\ q1 \in Nat
      /\ s1 <= q1 => s2 <= q2
      /\ q1 <= e1 => q2 <= e2
      /\ s2 <= q2 /\ Lo(1) <= D(1) => s1 <= q1
      /\ q2 <= e2 /\ D(1) <= Hi(1) => q1 <= e1
      /\ s1 = q1 => Lo(1) = D(1)
  BY <1>1, <1>2, <1>6, <1>7, Ordered
<1> HIDE DEF s1, e1, q1
<1>9. /\ s0 \in Nat /\ e0 \in Nat /\ q0 \in Nat
      /\ s0 <= q0 => s1 <= q1
      /\ q0 <= e0 => q1 <= e1
      /\ s1 <= q1 /\ Lo(0) <= D(0) => s0 <= q0
      /\ q1 <= e1 /\ D(0) <= Hi(0) => q0 <= e0
      /\ s0 = q0 => Lo(0) = D(0)
  BY <1>1, <1>2, <1>6, <1>8, Ordered
<1> HIDE DEF s0, e0, q0
<1>10. Matches(ip) => s0 <= ip /\ ip <= e0
  <2> SUFFICES ASSUME Matches(ip) PROVE s0 <= ip /\ ip <= e0
    OBVIOUS
  <2>1. ASSUME NEW k \in 0 .. 3 PROVE Lo(k) <= D(k) /\ D(k) <= Hi(k)
    BY <1>1, <1>2, <1>4, <1>5, <2>1
  <2> QED
    BY <1>2, <1>6, <1>7, <1>8, <1>9, <2>1
<1>11. ASSUME \A j, k \in 1 .. 4 : j < k /\ tokens[j] = Wildcard => tokens[k] = Wildcard,
              s0 <= ip, ip <= e0
       PROVE  Matches(ip)
  <2>1. s0 <= q0 /\ q0 <= e0 /\ s1 <= q1 /\ q1 <= e1 /\ s2 <= q2 /\ q2 <= e2
        /\ Lo(3) <= D(3) /\ D(3) <= Hi(3)
    BY <1>2, <1>7, <1>8, <1>9, <1>11
  <2> DEFINE N(k) == tokens[4 - k] # Wildcard
  <2>2. (N(0) => N(1) /\ N(2) /\ N(3)) /\ (N(1) => N(2) /\ N(3)) /\ (N(2) => N(3))
    BY <1>11
  <2>3. \A k \in 0 .. 3 : N(k) => Lo(k) = Hi(k) /\ Lo(k) = tokens[4 - k]
    BY <1>2
  <2> HIDE DEF N
  <2>4. N(3) => Lo(3) = Hi(3) /\ D(3) = Lo(3)
    BY <1>6, <2>1, <2>3
  <2>5. N(2) => s2 = e2 /\ D(2) = Lo(2)
    <3>1. N(2) => s2 = e2
      BY <1>6, <2>2, <2>3 DEF s2, e2
    <3> QED
      BY <1>7, <2>1, <3>1
  <2>6. N(1) => s1 = e1 /\ D(1) = Lo(1)
    <3>1. N(1) => s1 = e1
      BY <1>6, <2>2, <2>3, <2>5 DEF s1, e1
    <3> QED
      BY <1>8, <2>1, <3>1
  <2>7. N(0) => s0 = e0 /\ D(0) = Lo(0)
    <3>1. N(0) => s0 = e0
      BY <1>6, <2>2, <2>3, <2>6 DEF s0, e0
    <3> QED
      BY <1>9, <2>1, <3>1
  <2>8. ASSUME NEW k \in 0 .. 3, N(k) PROVE tokens[4 - k] = D(k)
    <3>1. k = 0 \/ k = 1 \/ k = 2 \/ k = 3
      OBVIOUS
    <3>2. D(k) = Lo(k)
      BY <2>4, <2>5, <2>6, <2>7, <2>8, <3>1
    <3> QED
      BY <2>3, <2>8, <3>2
  <2> QED
    BY <1>4, <2>8 DEF N
<1>12. (\E k \in 1 .. 4 : tokens[k] \notin {0, Wildcard}) => s0 # 0
  <2> SUFFICES ASSUME NEW j \in 1 .. 4, tokens[j] \notin {0, Wildcard}, s0 = 0 PROVE FALSE
    OBVIOUS
  <2>1. ASSUME NEW p \in Nat, NEW c \in 0 .. B - 1, p * B + c = 0 PROVE p = 0 /\ c = 0
    <3>1. p * B \in Nat /\ (0 < p => 0 * B + B <= p * B)
      BY <1>1, Multiples
    <3> QED
      BY <1>1, <2>1, <3>1
  <2>2. s1 = 0 /\ Lo(0) = 0
    BY <1>2, <1>6, <1>8, <2>1 DEF s0
  <2>3. s2 = 0 /\ Lo(1) = 0
    BY <1>2, <1>6, <1>7, <2>1, <2>2 DEF s1
  <2>4. Lo(3) = 0 /\ Lo(2) = 0
    BY <1>2, <1>6, <2>1, <2>3 DEF s2
  <2>5. 4 - j \in 0 .. 3 /\ 4 - (4 - j) = j
    OBVIOUS
  <2>6. Lo(4 - j) = tokens[j]
    BY <1>2, <2>5
  <2>7. 4 - j = 0 \/ 4 - j = 1 \/ 4 - j = 2 \/ 4 - j = 3
    OBVIOUS
  <2> QED
    BY <2>2, <2>3, <2>4, <2>6, <2>7
<1> QED
  BY <1>3, <1>9, <1>10, <1>11, <1>12

\* The octets above j have been read, and the range is theirs so far.
SumLo(j) == (IF 3 > j THEN Lo(3) * Place(3) ELSE 0) + (IF 2 > j THEN Lo(2) * Place(2) ELSE 0)
            + (IF 1 > j THEN Lo(1) * Place(1) ELSE 0) + (IF 0 > j THEN Lo(0) * Place(0) ELSE 0)
SumHi(j) == (IF 3 > j THEN Hi(3) * Place(3) ELSE 0) + (IF 2 > j THEN Hi(2) * Place(2) ELSE 0)
            + (IF 1 > j THEN Hi(1) * Place(1) ELSE 0) + (IF 0 > j THEN Hi(0) * Place(0) ELSE 0)
ReadDownTo(j, start, end) ==
    /\ \A k \in 0 .. 3 : k > j => Accepted(k)
    /\ start = SumLo(j) /\ end = SumHi(j)

\* The inductive invariant.
Parsed ==
    /\ argc \in Nat
    /\ pc \in {"args", "root", "port"} => whitelist_start = 0 /\ whitelist_end = 0
    /\ pc = "whitelist" => i \in -1 .. 3 /\ ReadDownTo(i, whitelist_start, whitelist_end)
    /\ pc = "listening" /\ argc > 2 => ReadDownTo(-1, whitelist_start, whitelist_end)

LEMMA PlaceFacts ==
    /\ OCTETS \in Nat \ {0} /\ \A k \in 0 .. 3 : Place(k) \in Nat
    /\ Place(0) = 1 /\ Place(1) = OCTETS /\ Place(2) = OCTETS * OCTETS
    /\ Place(3) = OCTETS * OCTETS * OCTETS
<1>1. OCTETS \in Nat \ {0} /\ OCTETS * OCTETS \in Nat /\ OCTETS * OCTETS * OCTETS \in Nat
  BY OctetsAssumption, DivideTwice
<1>2. /\ Place(0) = 1 /\ Place(1) = OCTETS /\ Place(2) = OCTETS * OCTETS
      /\ Place(3) = OCTETS * OCTETS * OCTETS
  BY DEF Place
<1>3. ASSUME NEW k \in 0 .. 3 PROVE Place(k) \in Nat
  <2>1. k = 0 \/ k = 1 \/ k = 2 \/ k = 3
    OBVIOUS
  <2> QED
    BY <1>1, <1>2, <2>1
<1> QED
  BY <1>1, <1>2, <1>3

\* One more octet.
LEMMA OneOctetMore ==
    ASSUME NEW j \in 0 .. 3, NEW start, NEW end, ReadDownTo(j, start, end), Accepted(j)
    PROVE  ReadDownTo(j - 1, start + Lo(j) * Place(j), end + Hi(j) * Place(j))
<1>1. \A k \in 0 .. 3 : k > j - 1 => Accepted(k) /\ Lo(k) \in Nat /\ Hi(k) \in Nat
  <2> SUFFICES ASSUME NEW k \in 0 .. 3, k > j - 1
               PROVE  Accepted(k) /\ Lo(k) \in Nat /\ Hi(k) \in Nat
    OBVIOUS
  <2>1. k > j \/ k = j
    OBVIOUS
  <2>2. Accepted(k)
    BY <2>1 DEF ReadDownTo
  <2> QED
    BY <2>2, Ends
<1> DEFINE L(k) == Lo(k) * Place(k)
           H(k) == Hi(k) * Place(k)
<1>2. \A k \in 0 .. 3 : k > j - 1 => L(k) \in Nat /\ H(k) \in Nat
  BY <1>1, PlaceFacts, Multiples
<1>3. /\ SumLo(j) = (IF 3 > j THEN L(3) ELSE 0) + (IF 2 > j THEN L(2) ELSE 0)
                    + (IF 1 > j THEN L(1) ELSE 0) + (IF 0 > j THEN L(0) ELSE 0)
      /\ SumLo(j - 1) = (IF 3 > j - 1 THEN L(3) ELSE 0) + (IF 2 > j - 1 THEN L(2) ELSE 0)
                        + (IF 1 > j - 1 THEN L(1) ELSE 0) + (IF 0 > j - 1 THEN L(0) ELSE 0)
      /\ SumHi(j) = (IF 3 > j THEN H(3) ELSE 0) + (IF 2 > j THEN H(2) ELSE 0)
                    + (IF 1 > j THEN H(1) ELSE 0) + (IF 0 > j THEN H(0) ELSE 0)
      /\ SumHi(j - 1) = (IF 3 > j - 1 THEN H(3) ELSE 0) + (IF 2 > j - 1 THEN H(2) ELSE 0)
                        + (IF 1 > j - 1 THEN H(1) ELSE 0) + (IF 0 > j - 1 THEN H(0) ELSE 0)
  BY DEF SumLo, SumHi
<1> HIDE DEF L, H
<1>4. SumLo(j - 1) = SumLo(j) + L(j) /\ SumHi(j - 1) = SumHi(j) + H(j)
  <2>1. CASE j = 3
    BY <1>2, <1>3, <2>1
  <2>2. CASE j = 2
    BY <1>2, <1>3, <2>2
  <2>3. CASE j = 1
    BY <1>2, <1>3, <2>3
  <2>4. CASE j = 0
    BY <1>2, <1>3, <2>4
  <2> QED
    BY <2>1, <2>2, <2>3, <2>4
<1>5. start = SumLo(j) /\ end = SumHi(j)
  BY DEF ReadDownTo
<1> QED
  BY <1>1, <1>4, <1>5 DEF ReadDownTo, L, H

LEMMA ParsedStep == Parsed /\ [Next]_vars => Parsed'
<1> SUFFICES ASSUME Parsed, [Next]_vars PROVE Parsed'
  OBVIOUS
<1> USE DEF args, whitelist
<1>1. ASSUME UNCHANGED cmd
      PROVE  /\ ReadDownTo(i, whitelist_start, whitelist_end)'
                <=> ReadDownTo(i', whitelist_start', whitelist_end')
             /\ ReadDownTo(-1, whitelist_start, whitelist_end)'
                <=> ReadDownTo(-1, whitelist_start', whitelist_end')
  BY <1>1 DEF ReadDownTo, Accepted, SumLo, SumHi, Lo, Hi, Place, tokens
<1>2. CASE Args
  <2>1. pc' \in {"exit", "images", "root"} /\ UNCHANGED whitelist /\ pc = "args"
    BY <1>2 DEF Args, Exit
  <2>2. argc' = argc \/ argc' = Max({1, argc})
    BY <1>2 DEF Args, Exit
  <2>3. argc \in Nat => Max({1, argc}) \in Nat
    BY DEF Max
  <2> QED
    BY <2>1, <2>2, <2>3 DEF Parsed
<1>3. CASE Root
  <2>1. pc' \in {"exit", "port"} /\ UNCHANGED whitelist /\ pc = "root" /\ argc' = argc
    BY <1>3 DEF Root
  <2> QED
    BY <2>1 DEF Parsed
<1>4. CASE Port
  <2>1. pc' = "exit" \/ (pc' = "whitelist" /\ i' = 3)
    BY <1>4 DEF Port, Exit
  <2>2. UNCHANGED whitelist /\ UNCHANGED cmd /\ pc = "port" /\ argc' = argc
    BY <1>4 DEF Port, Exit
  <2>3. ReadDownTo(3, 0, 0)
    BY DEF ReadDownTo, SumLo, SumHi
  <2> QED
    BY <1>1, <2>1, <2>2, <2>3 DEF Parsed
<1>5. CASE ParseWhitelist
  <2>1. /\ pc = "whitelist" /\ i >= 0 /\ UNCHANGED cmd /\ argc' = argc
        /\ \/ WellFormed /\ Octet /\ i' = i - 1 /\ pc' = pc
           \/ pc' = "exit"
    BY <1>5 DEF ParseWhitelist, Exit
  <2>2. i \in 0 .. 3 /\ ReadDownTo(i, whitelist_start, whitelist_end)
    BY <2>1 DEF Parsed
  <2>3. CASE pc' = "exit"
    BY <2>1, <2>3 DEF Parsed
  <2>4. CASE WellFormed /\ Octet /\ i' = i - 1 /\ pc' = pc
    <3>1. Accepted(i)
      BY <2>4 DEF WellFormed, Accepted, token
    <3>2. /\ whitelist_start' = whitelist_start + Lo(i) * Place(i)
          /\ whitelist_end' = whitelist_end + Hi(i) * Place(i)
      <4>1. Place(i) \in Nat
        BY <2>2, PlaceFacts
      <4>2. 0 * Place(i) = 0
        BY <4>1
      <4> QED
        BY <2>4, <4>2 DEF Octet, Lo, Hi, token
    <3>3. ReadDownTo(i - 1, whitelist_start', whitelist_end')
      BY <2>2, <3>1, <3>2, OneOctetMore
    <3> QED
      BY <1>1, <2>1, <2>2, <2>4, <3>3 DEF Parsed
  <2> QED
    BY <2>1, <2>3, <2>4
<1>6. CASE InitializeSocket
  <2>1. /\ pc = "whitelist" /\ (argc <= 2 \/ i < 0) /\ UNCHANGED <<cmd, whitelist, argc, i>>
        /\ pc' \in {"listening", "image", "exit"}
    BY <1>6 DEF InitializeSocket
  <2>2. argc' > 2 => i = -1
    BY <2>1 DEF Parsed
  <2> QED
    BY <1>1, <2>1, <2>2 DEF Parsed
<1>7. CASE MutexInitFails \/ ServerImage \/ NextImage
  <2>1. pc' \in {"exit", "crashed", "image", "images"} /\ argc' = argc
    BY <1>7 DEF MutexInitFails, ServerImage, NextImage, Exit, MakeImageOf, MakeImage
  <2> QED
    BY <2>1 DEF Parsed
<1>8. CASE UNCHANGED vars
  BY <1>1, <1>8 DEF vars, Parsed
<1> QED
  BY <1>2, <1>3, <1>4, <1>5, <1>6, <1>7, <1>8 DEF Next

\* For octets of any size: the server admits every address that matches the
\* whitelist and, if the wildcards are at the end and some octet is a number
\* other than 0, no others.
THEOREM WhitelistIsTheRange == Spec => []WhitelistAdmits
<1>1. Init => Parsed
  BY CommandsAssumption DEF Init, Parsed
<1>2. Parsed => WhitelistAdmits
  <2> SUFFICES ASSUME Parsed, pc = "listening", argc > 2 PROVE WhitelistAdmits
    BY DEF WhitelistAdmits
  <2>1. ReadDownTo(-1, whitelist_start, whitelist_end)
    BY DEF Parsed
  <2>2. \A k \in 0 .. 3 : Accepted(k)
    BY <2>1 DEF ReadDownTo
  <2>3. \A k \in 0 .. 3 : Lo(k) \in Nat /\ Hi(k) \in Nat
    BY <2>2, Ends
  <2>4. ASSUME NEW a \in Nat, NEW b \in Nat, NEW c \in Nat, NEW d \in Nat
        PROVE  a * Place(3) + b * Place(2) + c * Place(1) + d * Place(0) = Address(a, b, c, d)
    BY PlaceFacts DEF Address
  <2>5. /\ whitelist_start = Lo(3) * Place(3) + Lo(2) * Place(2) + Lo(1) * Place(1) + Lo(0) * Place(0)
        /\ whitelist_end = Hi(3) * Place(3) + Hi(2) * Place(2) + Hi(1) * Place(1) + Hi(0) * Place(0)
    BY <2>1 DEF ReadDownTo, SumLo, SumHi
  <2>6. /\ whitelist_start = Address(Lo(3), Lo(2), Lo(1), Lo(0))
        /\ whitelist_end = Address(Hi(3), Hi(2), Hi(1), Hi(0))
    BY <2>3, <2>4, <2>5
  <2> DEFINE trailing == \A j, k \in 1 .. 4 : j < k /\ tokens[j] = Wildcard => tokens[k] = Wildcard
             positive == \E k \in 1 .. 4 : tokens[k] \notin {0, Wildcard}
  <2>7. ASSUME NEW ip \in 0 .. OCTETS * Place(3) - 1
        PROVE  /\ Matches(ip) => whitelist_start <= ip /\ ip <= whitelist_end
               /\ trailing /\ whitelist_start <= ip /\ ip <= whitelist_end => Matches(ip)
               /\ positive => whitelist_start # 0
    BY <2>2, <2>6, RangeIsPattern
  <2> HIDE DEF trailing, positive
  <2>8. \A ip \in 0 .. OCTETS * Place(3) - 1 :
           /\ Matches(ip) => Admitted(ip)
           /\ trailing /\ positive /\ Admitted(ip) => Matches(ip)
    BY <2>7 DEF Admitted
  <2> QED
    BY <2>8 DEF WhitelistAdmits, trailing, positive
<1> QED
  BY <1>1, <1>2, ParsedStep, PTL DEF Spec

-----------------------------------------------------------------------------
(* The build with MAKEISO *)

\* The loop has made the images of the arguments it has passed.
Making ==
    /\ cmd \in Commands /\ \E S : outputs \in Seq(S)
    /\ pc = "args" => i = 0 /\ outputs = << >>
    /\ cmd.makeiso =>
          /\ pc \in {"args", "images", "exit", "crashed"}
          /\ pc = "images" => i # 0
          /\ pc \in {"images", "exit"} /\ i # 0 => i \in 1 .. Len(cmd.args) + 1 /\ MadeOf(i - 1)
    /\ EarlyEnd

LEMMA FoundNext ==
    ASSUME NEW n \in Nat \ {0}
    PROVE  /\ Found(n) = Found(n - 1) \cup (IF cmd.args[n] \in env.there THEN {n} ELSE {})
           /\ IsFiniteSet(Found(n - 1)) /\ n \notin Found(n - 1)
           /\ Cardinality(Found(n - 1)) \in Nat
           /\ cmd.args[n] \in env.there => Cardinality(Found(n)) = Cardinality(Found(n - 1)) + 1
<1>1. /\ Found(n) = Found(n - 1) \cup (IF cmd.args[n] \in env.there THEN {n} ELSE {})
      /\ n \notin Found(n - 1)
  BY DEF Found
<1>2. Found(n - 1) \in SUBSET Nat /\ \A j \in Found(n - 1) : j <= n - 1
  BY DEF Found
<1>3. IsFiniteSet(Found(n - 1))
  BY <1>2, FS_BoundedSetOfNaturals
<1>4. Cardinality(Found(n - 1)) \in Nat
  BY <1>3, FS_CardinalityType
<1>5. Cardinality(Found(n - 1) \cup {n}) = Cardinality(Found(n - 1)) + 1
  BY <1>1, <1>3, FS_AddElement
<1> QED
  BY <1>1, <1>3, <1>4, <1>5

\* The places of the images: none of an argument goes beyond those so far.
LEMMA FoundPlace ==
    ASSUME NEW n \in Nat, NEW j \in Found(n)
    PROVE  Cardinality(Found(j)) \in 1 .. Cardinality(Found(n))
<1>1. j \in Nat \ {0} /\ j <= n /\ j \in Found(j)
  BY DEF Found
<1>2. Found(j) \subseteq Found(n)
  BY <1>1 DEF Found
<1>3. Found(n) \in SUBSET Nat /\ \A k \in Found(n) : k <= n
  BY DEF Found
<1>4. IsFiniteSet(Found(n)) /\ IsFiniteSet(Found(j))
  BY <1>2, <1>3, FS_BoundedSetOfNaturals, FS_Subset
<1>5. Cardinality(Found(j)) \in Nat /\ Cardinality(Found(n)) \in Nat /\ Cardinality(Found(j)) <= Cardinality(Found(n))
  BY <1>2, <1>4, FS_CardinalityType, FS_Subset
<1>6. Cardinality(Found(j)) # 0
  BY <1>1, <1>4, FS_EmptySet
<1> QED
  BY <1>5, <1>6

LEMMA MakingInit == Init => Making
<1> SUFFICES ASSUME Init PROVE Making
  OBVIOUS
<1>1. << >> \in Seq({})
  OBVIOUS
<1>2. pc = "args" /\ i = 0 /\ outputs = << >> /\ cmd \in Commands
  BY DEF Init
<1> QED
  BY <1>1, <1>2 DEF Making, EarlyEnd

LEMMA MakeImageMakes ==
    ASSUME Making, NEW p, NEW kind, MakeImage(p, kind)
    PROVE  /\ \E S : outputs' \in Seq(S)
           /\ \/ pc' = "crashed" /\ outputs' = outputs
              \/ /\ pc' = pc /\ Len(outputs) \in Nat /\ Len(outputs') = Len(outputs) + 1
                 /\ \A k \in 1 .. Len(outputs) : outputs'[k] = outputs[k]
                 /\ outputs'[Len(outputs) + 1].from = p
                 /\ outputs'[Len(outputs) + 1].kind = kind
<1>1. CASE ~HasSlash(p)
  BY <1>1 DEF MakeImage, Making
<1>2. CASE HasSlash(p)
  <2> DEFINE x == [from |-> p, to |-> OutFile(Last(p.names)), kind |-> kind]
  <2>1. outputs' = Append(outputs, x) /\ pc' = pc /\ x.from = p /\ x.kind = kind
    BY <1>2 DEF MakeImage
  <2> HIDE DEF x
  <2>2. PICK S : outputs \in Seq(S)
    BY DEF Making
  <2>3. outputs \in Seq(S \cup {x})
    <3>1. Len(outputs) \in Nat /\ outputs \in [1 .. Len(outputs) -> S]
      BY <2>2
    <3>2. outputs \in [1 .. Len(outputs) -> S \cup {x}]
      BY <3>1
    <3> QED
      BY <3>1, <3>2
  <2>4. /\ outputs' \in Seq(S \cup {x}) /\ Len(outputs) \in Nat /\ Len(outputs') = Len(outputs) + 1
        /\ \A k \in 1 .. Len(outputs) : outputs'[k] = outputs[k]
        /\ outputs'[Len(outputs) + 1] = x
    <3>1. x \in S \cup {x}
      OBVIOUS
    <3> QED
      BY <2>1, <2>3, <3>1, AppendProperties
  <2> QED
    BY <2>1, <2>4
<1> QED
  BY <1>1, <1>2

LEMMA MakingStep == Making /\ [Next]_vars => Making'
<1> SUFFICES ASSUME Making, [Next]_vars PROVE Making'
  OBVIOUS
<1>1. UNCHANGED <<cmd, env>> /\ Len(cmd.args) \in Nat
  BY CommandsAssumption
     DEF Making, Next, vars, MutexInitFails, Args, Root, Port, ParseWhitelist, InitializeSocket, ServerImage, NextImage
<1>2. ASSUME NEW n PROVE Found(n)' = Found(n)
  BY <1>1 DEF Found
<1>3. ASSUME UNCHANGED outputs, NEW n PROVE MadeOf(n)' = MadeOf(n)
  BY <1>1, <1>2, <1>3 DEF MadeOf, normalize_path
<1>4. CASE UNCHANGED <<pc, i, outputs>>
  BY <1>1, <1>3, <1>4 DEF Making, EarlyEnd
<1>5. CASE MutexInitFails
  BY <1>1, <1>5 DEF Making, EarlyEnd, MutexInitFails, Exit
<1>6. CASE Args
  <2>1. pc = "args" /\ i = 0 /\ outputs = << >> /\ outputs' = outputs
    BY <1>6 DEF Args, Making
  <2>2. CASE pc' = "exit" /\ i' = i
    BY <1>1, <2>1, <2>2 DEF Making, EarlyEnd
  <2>3. CASE /\ pc' = IF cmd.makeiso THEN "images" ELSE "root"
             /\ i' = 1
    <3>1. MadeOf(0)'
      <4>1. Found(0) = {} /\ Cardinality({}) = 0 /\ Len(<< >>) = 0
        BY FS_EmptySet DEF Found
      <4> QED
        BY <1>2, <2>1, <4>1 DEF MadeOf
    <3> QED
      BY <1>1, <2>1, <2>3, <3>1 DEF Making, EarlyEnd
  <2> QED
    BY <1>6, <2>2, <2>3 DEF Args, Exit
<1>7. CASE Root \/ Port \/ ParseWhitelist \/ InitializeSocket
  <2>1. pc \in {"root", "port", "whitelist"} /\ pc' # "args" /\ outputs' = outputs
    BY <1>7 DEF Root, Port, ParseWhitelist, InitializeSocket, Exit
  <2>2. ~cmd.makeiso
    BY <2>1 DEF Making
  <2> QED
    BY <1>1, <2>1, <2>2 DEF Making, EarlyEnd
<1>8. CASE ServerImage
  <2>1. pc = "image" /\ pc' # "args"
    BY <1>8 DEF ServerImage, MakeImage
  <2>2. ~cmd.makeiso
    BY <2>1 DEF Making
  <2>3. \E S : outputs' \in Seq(S)
    <3>1. CASE outputs' = outputs
      BY <3>1 DEF Making
    <3>2. CASE MakeImage(root_directory, make_iso)
      BY <3>2, MakeImageMakes
    <3> QED
      BY <1>8, <3>1, <3>2 DEF ServerImage
  <2> QED
    BY <1>1, <2>1, <2>2, <2>3 DEF Making, EarlyEnd
<1>9. CASE NextImage
  <2>1. /\ pc = "images"
        /\ cmd.makeiso => i \in 1 .. Len(cmd.args) + 1 /\ MadeOf(i - 1)
    BY <1>9 DEF NextImage, Making
  <2>2. CASE i > Len(cmd.args) \/ (cmd.args[i] \in env.there /\ TooLong(cmd.args[i]))
    <3>1. pc' = "exit" /\ i' = i /\ outputs' = outputs
      BY <1>9, <2>2 DEF NextImage, Exit
    <3>2. cmd.makeiso /\ i \in 1 .. Len(cmd.args) => cmd.args[i] \in env.there /\ TooLong(cmd.args[i])
      BY <1>1, <2>2
    <3> QED
      BY <1>1, <1>3, <2>1, <3>1, <3>2 DEF Making, EarlyEnd
  <2>3. CASE ~(i > Len(cmd.args) \/ (cmd.args[i] \in env.there /\ TooLong(cmd.args[i])))
    <3>1. i' = i + 1
      BY <1>9, <2>3 DEF NextImage
    <3>2. cmd.makeiso => i \in 1 .. Len(cmd.args) /\ i' \in 1 .. Len(cmd.args) + 1 /\ i' - 1 = i /\ i' # 0
      BY <1>1, <2>1, <2>3, <3>1
    <3>3. CASE cmd.args[i] \notin env.there
      <4>1. pc' = pc /\ outputs' = outputs
        BY <1>9, <2>3, <3>3 DEF NextImage
      <4>2. cmd.makeiso => MadeOf(i)
        <5>1. cmd.makeiso => Found(i) = Found(i - 1)
          BY <1>1, <3>2, <3>3 DEF Found
        <5> QED
          BY <2>1, <5>1 DEF MadeOf
      <4> QED
        BY <1>1, <1>3, <2>1, <3>2, <4>1, <4>2 DEF Making, EarlyEnd
    <3>4. CASE cmd.args[i] \in env.there
      <4> DEFINE p == normalize_path(cmd.args[i])
                 n == Len(outputs)
      <4>1. /\ make_iso' = (IF p \in env.sfo THEN "VISO_PS3" ELSE "VISO_ISO")
            /\ MakeImage(p, make_iso')
        BY <1>9, <2>3, <3>4 DEF NextImage, MakeImageOf
      <4>2. /\ \E S : outputs' \in Seq(S)
            /\ \/ pc' = "crashed" /\ outputs' = outputs
               \/ /\ pc' = pc /\ n \in Nat /\ Len(outputs') = n + 1
                  /\ \A k \in 1 .. n : outputs'[k] = outputs[k]
                  /\ outputs'[n + 1].from = p /\ outputs'[n + 1].kind = make_iso'
        BY <4>1, MakeImageMakes
      <4>3. CASE pc' = "crashed"
        BY <1>1, <4>2, <4>3 DEF Making, EarlyEnd
      <4>4. CASE /\ pc' = pc /\ n \in Nat /\ Len(outputs') = n + 1
                 /\ \A k \in 1 .. n : outputs'[k] = outputs[k]
                 /\ outputs'[n + 1].from = p /\ outputs'[n + 1].kind = make_iso'
        <5>0. PICK m : m = i
          OBVIOUS
        <5>1. ASSUME cmd.makeiso PROVE MadeOf(m)'
          <6>1. /\ i \in Nat \ {0} /\ i - 1 \in Nat /\ MadeOf(i - 1)
            BY <1>1, <2>1, <3>2, <5>1
          <6>2. /\ Found(i) = Found(i - 1) \cup {i} /\ i \notin Found(i - 1)
                /\ Cardinality(Found(i)) = Cardinality(Found(i - 1)) + 1
            BY <3>4, <6>1, FoundNext
          <6>3. n = Cardinality(Found(i - 1))
            BY <6>1 DEF MadeOf
          <6>4. ASSUME NEW j \in Found(i)
                PROVE  LET image == outputs'[Cardinality(Found(j))]
                       IN  /\ image.from = normalize_path(cmd.args[j])
                           /\ (image.kind = "VISO_PS3") = (image.from \in env.sfo)
            <7>1. CASE j = i
              <8>1. outputs'[Cardinality(Found(j))] = outputs'[n + 1]
                BY <6>2, <6>3, <7>1
              <8>2. (make_iso' = "VISO_PS3") = (p \in env.sfo)
                BY <4>1
              <8> QED
                BY <4>4, <7>1, <8>1, <8>2
            <7>2. CASE j # i
              <8>1. j \in Found(i - 1)
                BY <6>2, <7>2
              <8>2. Cardinality(Found(j)) \in 1 .. n
                BY <6>1, <6>3, <8>1, FoundPlace
              <8>3. outputs'[Cardinality(Found(j))] = outputs[Cardinality(Found(j))]
                BY <4>4, <8>2
              <8> QED
                BY <6>1, <8>1, <8>3 DEF MadeOf
            <7> QED
              BY <7>1, <7>2
          <6> HIDE DEF n, p
          <6>5. Len(outputs') = Cardinality(Found(i))
            BY <4>4, <6>2, <6>3
          <6> QED
            BY <1>1, <1>2, <5>0, <6>4, <6>5 DEF MadeOf, normalize_path
        <5>2. cmd.makeiso => MadeOf(i - 1)'
          <6>1. cmd.makeiso => i' - 1 = m
            BY <3>2, <5>0
          <6> QED
            BY <5>1, <6>1 DEF MadeOf, Found
        <5> QED
          BY <1>1, <2>1, <3>2, <4>2, <4>4, <5>2 DEF Making, EarlyEnd
      <4> QED
        BY <4>2, <4>3, <4>4
    <3> QED
      BY <3>3, <3>4
  <2> QED
    BY <2>2, <2>3
<1> QED
  BY <1>4, <1>5, <1>6, <1>7, <1>8, <1>9 DEF Next, vars

\* For any number of arguments: the build with MAKEISO makes an image of every
\* argument that is there, in their order and of the kind that is its own; it
\* ends early only at an argument whose path is too long for the image's name.
THEOREM ImagesAreMade == Spec => []MakesAllImages
<1>1. Making => MakesAllImages
  BY DEF Making, MakesAllImages, ImagesMade, EarlyEnd
<1> QED
  BY <1>1, MakingInit, MakingStep, PTL DEF Spec
=============================================================================
