-------------------------------- MODULE Ids --------------------------------
(***************************************************************************)
(* Node ids (rust/mainline/src/common/id.rs): strings of bits with a       *)
(* distance, some of them tied to an ip (BEP 42).  160 bits in the code,   *)
(* with a prefix of 21 bits that the ip and the last byte determine.       *)
(***************************************************************************)
EXTENDS Naturals, SequencesExt

CONSTANTS
    IdBits, PrefixBits,     \* 160 and 21
    Crc,                    \* <<ip, r>>: the prefix of the ids of ip that end in r
    Private                 \* ips every id is valid for: private, link-local, loopback

ASSUME IdsAssumption ==
    /\ {IdBits, PrefixBits} \subseteq Nat \ {0} /\ PrefixBits < IdBits
    /\ \A p \in DOMAIN Crc : Crc[p] \in [1 .. PrefixBits -> {0, 1}]

Bits == [1 .. IdBits -> {0, 1}]

Xor(x, y) == [i \in 1 .. IdBits |-> (x[i] + y[i]) % 2]

LeadingZeros(x) ==
    LET one == SelectInSeq(x, LAMBDA bit : bit = 1) IN
    IF one = 0 THEN IdBits ELSE one - 1

\* Id::distance: 0 to itself, else up to 160.
DistanceOf(x, y) == IdBits - LeadingZeros(Xor(x, y))

First21(x) == SubSeq(x, 1, PrefixBits)
R(x) == x[IdBits]

\* from_ipv4_and_r: random bits between the prefix and r.
FromRandomR(bits, ip, r) ==
    [i \in 1 .. IdBits |-> IF i <= PrefixBits THEN Crc[<<ip, r>>][i] ELSE bits[i]]

FromIpv4AndR(bits, ip, r) ==
    [i \in 1 .. IdBits |->
        IF i <= PrefixBits THEN Crc[<<ip, r>>][i] ELSE IF i = IdBits THEN r ELSE bits[i]]

IsValidForIp(x, ip) == ip \in Private \/ First21(x) = Crc[<<ip, R(x)>>]

-----------------------------------------------------------------------------
\* What the rest of the code takes for granted of ids: those made for an ip are valid
\* for it; the distance is one, and nodes in one bucket of an id are nearer to each
\* other than to it.
MadeIdsAreValid(ips) ==
    \A x \in Bits, ip \in ips, r \in {0, 1} : IsValidForIp(FromIpv4AndR(x, ip, r), ip)

DistanceIsOne ==
    \A x, y, z \in Bits :
        /\ DistanceOf(x, y) = 0 <=> x = y
        /\ DistanceOf(x, y) = DistanceOf(y, x)
        /\ x # y /\ x # z /\ DistanceOf(x, y) = DistanceOf(x, z)
              => DistanceOf(y, z) < DistanceOf(x, y)
=============================================================================
