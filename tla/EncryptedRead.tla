--------------------------- MODULE EncryptedRead ---------------------------
(***************************************************************************)
(* Encrypted images: the part of File::open() that finds out how an ISO is *)
(* encrypted and where, and the part of File::read() that decrypts what    *)
(* has been read and hides the 3k3y key.  Sector 0 of a disc lists its     *)
(* regions, plain and encrypted ones in turn.  Contents are left out: what *)
(* matters is which sectors go through decrypt_data() and which bytes of   *)
(* the buffer are zeroed.  Reads are of whole sectors, as the code assumes.*)
(***************************************************************************)
EXTENDS Integers, Sequences

CONSTANTS
    kSectorSize,    \* 2048
    MaskFrom,       \* 0xF70: the watermark and the key of 3k3y discs start
    MaskTo,         \* 0x1070: and end here
    Marks,          \* bound: the watermarks of the discs, among "none", "Dec" and "Enc"
    MaxSectors,     \* bound: the size of a disc
    MaxCount,       \* bound: the plain regions of a disc
    Straddle        \* whether a read may begin in one region and end in another

ASSUME EncryptedAssumption ==
    /\ {kSectorSize, MaskFrom, MaskTo, MaxSectors, MaxCount} \subseteq Nat \ {0}
    /\ MaskFrom < MaskTo /\ MaskTo < 3 * kSectorSize
    /\ Marks \subseteq {"none", "Dec", "Enc"}
    /\ Straddle \in BOOLEAN

VARIABLES
    disc,           \* the image and its key file
    phase,          \* "closed", "open", "read", or "crashed": the server is gone
    enc_type_,      \* kDiscTypes: "None", "3k3yDec", "3k3yEnc", "Redump"
    region_info_,   \* a sequence, <<>> if there is none
    done            \* the last read: where, how much, what was done to it

vars == <<disc, phase, enc_type_, region_info_, done>>

\* The sector numbers behind the region count: the last sector of the first
\* plain region, the first sector of the next one, its last sector, ...; no
\* region is empty.
Tables ==
    {t \in UNION {[1 .. 2 * c - 1 -> 1 .. MaxSectors] : c \in 1 .. MaxCount} :
        \A i \in 1 .. Len(t) - 1 : t[i] + (IF i % 2 = 1 THEN 2 ELSE 0) <= t[i + 1]}

\* A disc of at least two sectors that can be read, with or without a .key or
\* .dkey file, a watermark, and a region count that makes sense.
Discs == [key : BOOLEAN, mark : Marks, valid : BOOLEAN,
          table : Tables, sectors : 2 .. MaxSectors]

NoRead == [first |-> 0, sectors |-> 0, decrypted |-> {}, zeroFrom |-> 0, zeroed |-> 0]

Init ==
    /\ disc \in Discs
    /\ phase = "closed" /\ enc_type_ = "None" /\ region_info_ = <<>> /\ done = NoRead

-----------------------------------------------------------------------------

\* regions_last_addr of region i, the encrypted ones ending before the sector
\* that is listed for them.
LastAddr(i) == (disc.table[i] - (IF i % 2 = 0 THEN 1 ELSE 0)) * kSectorSize + kSectorSize - 1

Regions ==
    [i \in 1 .. Len(disc.table) |->
        [encrypted |-> i % 2 = 0,
         regions_first_addr |-> IF i = 1 THEN 0 ELSE LastAddr(i - 1) + 1,
         regions_last_addr |-> LastAddr(i)]]

\* open(): a key file decides, then the watermark; a region count of 0, or of
\* 32 and more, means that the disc is not encrypted after all.
Open ==
    /\ phase = "closed"
    /\ phase' = "open"
    /\ \/ ~disc.valid /\ enc_type_' = "None" /\ region_info_' = <<>>
       \/ /\ disc.valid
          /\ enc_type_' = IF disc.key THEN "Redump"
                          ELSE IF disc.mark = "Enc" THEN "3k3yEnc"
                          ELSE IF disc.mark = "Dec" THEN "3k3yDec" ELSE "None"
          /\ region_info_' = Regions
    /\ UNCHANGED <<disc, done>>

\* The zeroing of a 3k3y disc's key, as the offset in the buffer and the
\* number of bytes.  The number may be below 0, which a size_t cannot hold.
Zeroing(read_position, ret) ==
    LET start == IF read_position < MaskFrom THEN MaskFrom - read_position ELSE 0
        n == IF read_position + ret < MaskTo THEN ret - start ELSE (MaskTo - MaskFrom) - start
    IN IF /\ enc_type_ \in {"3k3yDec", "3k3yEnc"}
          /\ read_position + ret >= MaskFrom /\ read_position <= MaskTo
       THEN [from |-> start, n |-> n]
       ELSE [from |-> 0, n |-> 0]

\* The regions that a position lies in; the first one counts.
RegionsAt(read_position) ==
    {i \in 1 .. Len(region_info_) :
        /\ region_info_[i].regions_first_addr <= read_position
        /\ read_position <= region_info_[i].regions_last_addr}

\* Mutant: a disc with a watermark is decrypted whatever it says.
DecryptsAnyMark(read_position) ==
    \E i \in RegionsAt(read_position) : enc_type_ # "None" /\ region_info_[i].encrypted

\* Whether decrypt_data() is called for what was read from a position.
Decrypts(read_position) ==
    /\ enc_type_ \in {"3k3yEnc", "Redump"}
    /\ \E i \in RegionsAt(read_position) :
          /\ \A j \in RegionsAt(read_position) : i <= j
          /\ region_info_[i].encrypted

\* read() of n sectors from sector first on; all of them are decrypted, or
\* none is.  _memset() of a length below 0, as a size_t, runs off the buffer:
\* the program ends before it has looked for the region.
Read(first, n) ==
    /\ phase \in {"open", "read"}
    /\ LET got == IF first + n <= disc.sectors THEN n ELSE disc.sectors - first
           here == first * kSectorSize
           zero == Zeroing(here, got * kSectorSize)
       IN /\ Straddle \/ RegionsAt(here) = RegionsAt((first + got) * kSectorSize - 1)
          /\ \/ zero.n < 0 /\ phase' = "crashed" /\ done' = NoRead
             \/ /\ zero.n >= 0
                /\ phase' = "read"
                /\ done' = [first |-> first, sectors |-> got,
                            decrypted |-> IF Decrypts(here) THEN first .. first + got - 1 ELSE {},
                            zeroFrom |-> zero.from, zeroed |-> zero.n]
    /\ UNCHANGED <<disc, enc_type_, region_info_>>

Next ==
    \/ Open
    \/ \E first \in 0 .. disc.sectors - 1, n \in 1 .. disc.sectors : Read(first, n)

Spec == Init /\ [][Next]_vars

-----------------------------------------------------------------------------
(* Properties *)

\* What the disc's own table says of a sector.
Encrypted(s) == \E i \in 1 .. Len(disc.table) : i % 2 = 0 /\ disc.table[i - 1] < s /\ s < disc.table[i]

\* A read hands out plain data: of a disc with a key, the encrypted sectors,
\* and no others, have gone through decrypt_data(); of any other disc, none.  A
\* read that ends the program hands out nothing.
DecryptedRight ==
    phase = "read" =>
        done.decrypted = {s \in done.first .. done.first + done.sectors - 1 :
                             /\ disc.valid /\ (disc.key \/ disc.mark = "Enc")
                             /\ Encrypted(s)}

\* "Zero out the 0xF70 - 0x1070 overlap": of what a read of a 3k3y disc hands
\* out, the bytes between the two, and no others, are zeroed.  A read that
\* ends the program is not spoken of.
MaskedRight ==
    phase = "read" /\ enc_type_ \in {"3k3yDec", "3k3yEnc"} =>
        LET here == done.first * kSectorSize
            end == here + done.sectors * kSectorSize
            from == IF here < MaskFrom THEN MaskFrom ELSE here
            to == IF end < MaskTo THEN end ELSE MaskTo
        IN IF from < to
           THEN done.zeroFrom = from - here /\ done.zeroed = to - from
           ELSE done.zeroed = 0
=============================================================================
