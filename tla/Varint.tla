------------------------------- MODULE Varint -------------------------------
(***************************************************************************)
(* The four variable-length integers the readers decode, byte by byte: the *)
(* size in a pack entry's header (Pack.ReadHeader), the distance to an     *)
(* OFS_DELTA base (readOfsBase), the two sizes at the head of a delta      *)
(* (readDeltaVarint), and reftable's (decodeVarint).                       *)
(*                                                                         *)
(* A byte has Group value bits and the flag that another follows.  Words   *)
(* are Width bits wide, signed in objfmt and unsigned in reftable.  The    *)
(* bytes are whatever the file has; it may also end after any of them.     *)
(***************************************************************************)
EXTENDS Integers

CONSTANTS
    Group,          \* value bits of a byte: 7
    FirstGroup,     \* value bits of a pack entry's first byte: 4
    Width           \* bits of a word: 64

ASSUME GroupAssumption == Group \in Nat \ {0} /\ FirstGroup \in 1..Group
ASSUME WidthAssumption == Width \in Nat /\ Width > 2 * Group

VarintKinds == {"pack", "ofs", "delta", "reftable"}

VARIABLES
    kind,       \* which decoder runs
    vpc,
    val,        \* the word it holds
    shift,
    used,       \* bytes consumed
    exact       \* the number the bytes read so far stand for

varintVars == <<kind, vpc, val, shift, used, exact>>

\* varintMaxBytes.
MaxBytes == (Width + Group - 1) \div Group

Signed(n) == LET u == n % 2^Width IN IF u < 2^(Width - 1) THEN u ELSE u - 2^Width
Unsigned(n) == n % 2^Width

VarintInit == kind = "pack" /\ vpc = "none" /\ val = 0 /\ shift = 0 /\ used = 0 /\ exact = 0

VarintStart ==
    /\ vpc = "none"
    /\ kind' \in VarintKinds
    /\ vpc' = "first"
    /\ UNCHANGED <<val, shift, used, exact>>

\* The byte just read ends the number, or asks for the next one.
Continue == vpc' \in {"done", "more"}

Refuse == vpc' = "refused" /\ UNCHANGED <<kind, val, shift, used, exact>>

FirstByte ==
    /\ vpc = "first"
    /\ \E bits \in 0..2^(IF kind = "pack" THEN FirstGroup ELSE Group) - 1 :
          val' = bits /\ exact' = bits
    /\ shift' = IF kind = "pack" THEN FirstGroup ELSE Group
    /\ used' = 1
    /\ Continue
    /\ UNCHANGED kind

Truncated == vpc \in {"first", "more"} /\ vpc' = "truncated" /\ UNCHANGED <<kind, val, shift, used, exact>>

\* ReadHeader's loop: the byte is added, then the next shift is checked.
PackByte ==
    /\ vpc = "more" /\ kind = "pack"
    /\ \E bits \in 0..2^Group - 1 :
          /\ val' = Signed(val + bits * 2^shift)
          /\ exact' = exact + bits * 2^shift
    /\ shift' = shift + Group /\ used' = used + 1
    /\ IF shift' >= Width THEN vpc' = "refused" ELSE Continue
    /\ UNCHANGED kind

\* readDeltaVarint's loop: the shift is checked before the byte is added.
DeltaByte ==
    /\ vpc = "more" /\ kind = "delta"
    /\ IF shift >= Width THEN Refuse
       ELSE /\ \E bits \in 0..2^Group - 1 :
                  /\ val' = Signed(val + bits * 2^shift)
                  /\ exact' = exact + bits * 2^shift
            /\ shift' = shift + Group /\ used' = used + 1
            /\ Continue
            /\ UNCHANGED kind

\* Mutant: the bound of a decoder that works on unsigned words.
OfsOverflowsUnsigned == val + 1 >= 2^(Width - Group)

\* readOfsBase: 1 << 56.
OfsOverflows == val + 1 >= 2^(Width - 1 - Group)

\* decodeVarint's two checks.
ReftableOverflows == used >= MaxBytes \/ Unsigned(val + 1) \div 2^(Width - Group) # 0

\* readOfsBase and decodeVarint: one is added for every byte that another
\* follows, and the value moves up.
UpperByte ==
    /\ vpc = "more" /\ kind \in {"ofs", "reftable"}
    /\ IF (IF kind = "ofs" THEN OfsOverflows ELSE ReftableOverflows) THEN Refuse
       ELSE /\ \E bits \in 0..2^Group - 1 :
                  LET n == (val + 1) * 2^Group + bits IN
                  /\ val' = IF kind = "ofs" THEN Signed(n) ELSE Unsigned(n)
                  /\ exact' = (exact + 1) * 2^Group + bits
            /\ used' = used + 1
            /\ Continue
            /\ UNCHANGED <<kind, shift>>

VarintNext == FirstByte \/ Truncated \/ PackByte \/ DeltaByte \/ UpperByte

VarintDone == vpc \in {"done", "refused", "truncated"}

-----------------------------------------------------------------------------
\* The largest number the decoder's word can hold.
Largest == IF kind = "reftable" THEN 2^Width - 1 ELSE 2^(Width - 1) - 1

\* What a decoder returns is what the bytes say: no bit is lost to the word's
\* width and no sign appears.  The distance and reftable's integer are refused
\* only when every number that begins like this is too large.  A delta's size
\* that no word can hold is not refused by readDeltaVarint and is left out
\* (ReadHeader, readOfsBase, readDeltaVarint, decodeVarint).
VarintExact ==
    /\ vpc = "done" /\ (kind = "delta" => exact <= Largest) => val = exact
    /\ vpc = "refused" /\ kind \in {"ofs", "reftable"} => (exact + 1) * 2^Group > Largest
=============================================================================
