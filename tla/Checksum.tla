------------------------------ MODULE Checksum ------------------------------
(***************************************************************************)
(* calculate_checksum of src/src/network/helper.rs, loop by loop: the      *)
(* 16-bit big-endian words of a packet are added in 32 bits, an odd last   *)
(* byte is padded with zero, carries are folded back in until none is      *)
(* left, and the complement is the result.  The callers in arp.rs have     *)
(* zeroed the checksum field, which is therefore not part of the packet    *)
(* here, and store the result in it.                                       *)
(***************************************************************************)
EXTENDS Integers, Sequences

CONSTANT Packets   \* sequences of bytes, none empty

ASSUME ChecksumAssumption ==
    \A p \in Packets : Len(p) > 0 /\ \A k \in DOMAIN p : p[k] \in 0 .. 255

VARIABLES data, index, sum, loop

checksumVars == <<data, index, sum, loop>>

ChecksumInit == data \in Packets /\ index = 0 /\ sum = 0 /\ loop = "words"

DataByte(k) == data[k + 1]

(* A packet of at most 65535 bytes cannot make the sum overflow.           *)
AddWord ==
    /\ loop = "words" /\ index < Len(data) - 1
    /\ sum' = sum + 256 * DataByte(index) + DataByte(index + 1)
    /\ index' = index + 2
    /\ UNCHANGED <<data, loop>>

AddOdd ==
    /\ loop = "words" /\ index >= Len(data) - 1
    /\ sum' = IF index < Len(data) THEN sum + 256 * DataByte(index) ELSE sum
    /\ loop' = "fold"
    /\ UNCHANGED <<data, index>>

Carry == sum \div 65536
FoldTooFew == sum > 65536
MoreToFold == Carry > 0

Fold ==
    /\ loop = "fold" /\ MoreToFold
    /\ sum' = (sum % 65536) + Carry
    /\ UNCHANGED <<data, index, loop>>

(* The low 16 bits, inverted.                                              *)
Complement ==
    /\ loop = "fold" /\ ~MoreToFold
    /\ sum' = 65535 - (sum % 65536)
    /\ loop' = "done"
    /\ UNCHANGED <<data, index>>

ChecksumNext == AddWord \/ AddOdd \/ Fold \/ Complement
ChecksumSpec == ChecksumInit /\ [][ChecksumNext]_checksumVars

-----------------------------------------------------------------------------
(* The packet's words, written down at once.                               *)
PacketWords(d) ==
    [k \in 1 .. (Len(d) + 1) \div 2 |->
        256 * d[2 * k - 1] + (IF 2 * k <= Len(d) THEN d[2 * k] ELSE 0)]
SumOf(s) ==
    LET total[k \in 0 .. Len(s)] == IF k = 0 THEN 0 ELSE s[k] + total[k - 1]
    IN  total[Len(s)]

(* A receiver that adds up the words of the packet and the checksum in     *)
(* one's complement gets all ones, which is zero modulo 65535: for every   *)
(* content, for odd lengths, and where folding a carry makes another.      *)
ChecksumVerifies ==
    loop = "done" =>
        sum \in 0 .. 65535 /\ (SumOf(PacketWords(data)) + sum) % 65535 = 0
=============================================================================
