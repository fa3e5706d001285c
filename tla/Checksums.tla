------------------------------ MODULE Checksums ------------------------------
(***************************************************************************)
(* crc_hw.c and the words it works on (utils.c, utils_asciihex.c).  The    *)
(* controller's DMA has a shift register with feedback that takes a        *)
(* message bit by bit; the code makes the usual checksums of it: a seed    *)
(* that stands for the one the register does not know, as many zero bits   *)
(* behind the message as the register is long, for the CRC-32 the bits of  *)
(* every byte and of the result turned round.                              *)
(*                                                                         *)
(* TLC's integers are too small for such words: a word is the sequence of  *)
(* its bits, the most significant one first.  A message is what the flash  *)
(* holds, one byte more with every step.                                   *)
(***************************************************************************)
EXTENDS Integers, Sequences, SequencesExt

CONSTANTS
    Bytes,      \* the bytes a message is made of
    Longest,    \* bound: messages are grown up to this length
    Samples,    \* messages that are there from the start
    BufSize,    \* buf_size of check_crc_32_on_flash, 1024 in the code
    Transfers,  \* bound: after so many transfers the DMA does not fail any more
    NoImage     \* the flash before a message is chosen

ASSUME ChecksumAssumption ==
    /\ Bytes \subseteq 0 .. 255 /\ Samples \subseteq Seq(0 .. 255)
    /\ Longest \in Nat /\ BufSize \in Nat \ {0} /\ Transfers \in Nat

VARIABLES
    image,      \* the bytes in the flash
    dma         \* the transfer of the DMA channel that fails, 0 if none does

sumVars == <<image, dma>>

-----------------------------------------------------------------------------
(* Words *)

Bits(n, width) ==
    LET Halved[k \in 0 .. width] == IF k = 0 THEN n ELSE Halved[k - 1] \div 2
    IN  [i \in 1 .. width |-> Halved[width - i] % 2]
Xor(a, b) == [i \in 1 .. Len(a) |-> (a[i] + b[i]) % 2]
Ones(n) == [i \in 1 .. n |-> 1]
Zeros(n) == [i \in 1 .. n |-> 0]

NumberOf(bits) ==
    LET N[i \in 0 .. Len(bits)] == IF i = 0 THEN 0 ELSE 2 * N[i - 1] + bits[i]
    IN  N[Len(bits)]
BytesOf(word) == [i \in 1 .. Len(word) \div 8 |-> SubSeq(word, 8 * i - 7, 8 * i)]

mirror_bytes(bytes) == [i \in DOMAIN bytes |-> Reverse(bytes[i])]
swap_uint32(bytes) == Reverse(bytes)
mirror_uint32(word) == FlattenSeq(swap_uint32(mirror_bytes(BytesOf(word))))

-----------------------------------------------------------------------------
(* The DMA: every bit of the message is shifted in at the low end, and the *)
(* polynomial is subtracted when a one falls out at the high end.          *)

MSbFirst(data) == [i \in DOMAIN data |-> Bits(data[i], 8)]
LSbFirst(data) == [i \in DOMAIN data |-> Reverse(Bits(data[i], 8))]

ShiftIn(register, bit, poly) ==
    LET shifted == Append(Tail(register), bit)
    IN  IF register[1] = 1 THEN Xor(shifted, poly) ELSE shifted

BitOf(bytes, k) == bytes[((k - 1) \div 8) + 1][((k - 1) % 8) + 1]

DmaChnMemCrc(nth, bytes, poly, seed) ==
    LET Register[k \in 0 .. 8 * Len(bytes)] ==
            IF k = 0 THEN seed ELSE ShiftIn(Register[k - 1], BitOf(bytes, k), poly)
    IN  [ok |-> nth # dma, crc |-> Register[8 * Len(bytes)]]

-----------------------------------------------------------------------------
(* crc_hw.c; a function that fails leaves its result alone *)

\* 0x1021, 0x84cf, 0x04c11db7, 0x46af6449
crc16_polynomial == <<0,0,0,1, 0,0,0,0, 0,0,1,0, 0,0,0,1>>
crc16_converted_seed == <<1,0,0,0, 0,1,0,0, 1,1,0,0, 1,1,1,1>>
crc32_polynomial == <<0,0,0,0, 0,1,0,0, 1,1,0,0, 0,0,0,1, 0,0,0,1, 1,1,0,1, 1,0,1,1, 0,1,1,1>>
crc32_seed == Ones(32)
crc32_converted_seed == <<0,1,0,0, 0,1,1,0, 1,0,1,0, 1,1,1,1, 0,1,1,0, 0,1,0,0, 0,1,0,0, 1,0,0,1>>

crc_hw_16_orig(nth, data, seed) == DmaChnMemCrc(nth, MSbFirst(data), crc16_polynomial, seed)

crc_hw_16(data) ==
    LET first == crc_hw_16_orig(1, data, crc16_converted_seed)
    IN  IF first.ok THEN crc_hw_16_orig(2, <<0, 0>>, first.crc) ELSE first

crc_hw_32_add(nth, data, seed) == DmaChnMemCrc(nth, LSbFirst(data), crc32_polynomial, seed)

crc_hw_32_final(nth, crc) ==
    LET padded == crc_hw_32_add(nth, <<0, 0, 0, 0>>, crc)
    IN  [padded EXCEPT !.crc = Xor(mirror_uint32(@), crc32_seed)]

crc_hw_32(data) ==
    LET first == crc_hw_32_add(1, data, crc32_converted_seed)
    IN  IF first.ok THEN crc_hw_32_final(2, first.crc) ELSE first

(* A chunk is read up to the end of the image, the last one is shorter. *)
ReadLenWhole(acc_len, total_size) == BufSize
ReadLen(acc_len, total_size) ==
    IF acc_len + BufSize > total_size THEN total_size - acc_len ELSE BufSize

(* The flash is erased behind the image. *)
readStringFromSST25(address, n) ==
    [i \in 1 .. n |-> IF address + i <= Len(image) THEN image[address + i] ELSE 255]

check_crc_32_on_flash(total_size, crc_compare) ==
    LET chunks == (total_size + BufSize - 1) \div BufSize
        Acc[n \in 0 .. chunks] ==
            IF n = 0 THEN [ok |-> TRUE, crc |-> crc32_converted_seed]
            ELSE LET acc_len == (n - 1) * BufSize
                     temp_buf == readStringFromSST25(acc_len, ReadLen(acc_len, total_size))
                 IN  IF Acc[n - 1].ok THEN crc_hw_32_add(n, temp_buf, Acc[n - 1].crc) ELSE Acc[n - 1]
        last == IF Acc[chunks].ok THEN crc_hw_32_final(chunks + 1, Acc[chunks].crc) ELSE Acc[chunks]
    IN  last.ok /\ last.crc = crc_compare

-----------------------------------------------------------------------------
(* utils_asciihex.c: characters are their ASCII codes *)

asciihex2binChar(c) ==
    (IF c < 65 THEN c - 48 ELSE IF c < 97 THEN c - 65 + 10 ELSE c - 97 + 10) % 16

asciihexbytes_to_byte(high, low) == 16 * asciihex2binChar(high) + asciihex2binChar(low)

(* The bytes go into the buffer the digits are in, behind the reader. *)
asciihexbytes_to_binary_buf(buf) ==
    LET After[j \in 0 .. Len(buf) \div 2] ==
            IF j = 0 THEN buf
            ELSE LET b == After[j - 1]
                 IN  [b EXCEPT ![j] = asciihexbytes_to_byte(b[2 * j - 1], b[2 * j])]
    IN  After[Len(buf) \div 2]

Digit(nibble) == IF nibble < 10 THEN nibble + 48 ELSE nibble + 65 - 10
binChar2AsciiHex(byte) == <<Digit(byte \div 16), Digit(byte % 16)>>
hex2str(word) ==
    LET v == BytesOf(word)
    IN  FlattenSeq([i \in DOMAIN v |-> binChar2AsciiHex(NumberOf(v[i]))])

-----------------------------------------------------------------------------
SumInit == image = NoImage /\ dma = 0

(* A message, and the transfer that will fail. *)
Choose(message, nth) ==
    /\ image = NoImage
    /\ image' = message /\ dma' = nth

(* The flash gets one more byte. *)
Program(b) ==
    /\ image # NoImage /\ Len(image) < Longest
    /\ image' = Append(image, b)
    /\ UNCHANGED dma

SumNext ==
    \/ \E message \in {<<>>} \cup Samples, nth \in 0 .. Transfers : Choose(message, nth)
    \/ \E b \in Bytes : Program(b)

SumSpec == SumInit /\ [][SumNext]_sumVars

-----------------------------------------------------------------------------
(* What the two checksums are, for a register that starts with ones and    *)
(* whose message is added to it, not shifted through it: CRC-CCITT from    *)
(* the high end, CRC-32 from the low end.                                  *)

Times(n, step(_), start) ==
    LET T[i \in 0 .. n] == IF i = 0 THEN start ELSE step(T[i - 1])
    IN  T[n]

\* 0x1021 and 0xedb88320
Ccitt == <<0,0,0,1, 0,0,0,0, 0,0,1,0, 0,0,0,1>>
Edb88320 == <<1,1,1,0, 1,1,0,1, 1,0,1,1, 1,0,0,0, 1,0,0,0, 0,0,1,1, 0,0,1,0, 0,0,0,0>>

Divide16(r) == IF r[1] = 1 THEN Xor(Append(Tail(r), 0), Ccitt) ELSE Append(Tail(r), 0)
Divide32(r) ==
    LET shifted == <<0>> \o Front(r)
    IN  IF Last(r) = 1 THEN Xor(shifted, Edb88320) ELSE shifted

CrcCcitt(data) ==
    LET R[i \in 0 .. Len(data)] ==
            IF i = 0 THEN Ones(16) ELSE Times(8, Divide16, Xor(R[i - 1], Bits(data[i], 8) \o Zeros(8)))
    IN  R[Len(data)]

Crc32(data) ==
    LET R[i \in 0 .. Len(data)] ==
            IF i = 0 THEN Ones(32) ELSE Times(8, Divide32, Xor(R[i - 1], Zeros(24) \o Bits(data[i], 8)))
    IN  Xor(R[Len(data)], Ones(32))

Gives(result, sum) == IF dma \in {1, 2} THEN ~result.ok ELSE result = [ok |-> TRUE, crc |-> sum]

(* The hardware gives the standard checksums of every message, or says     *)
(* that it failed.  The check of an image in the flash, which takes it in  *)
(* chunks of the buffer's size, accepts that checksum and no other; and    *)
(* the digits of the checksum, turned to bytes in their place, are the     *)
(* checksum.                                                               *)
ChecksumsAreStandard == image # NoImage =>
    LET sum16 == CrcCcitt(image)
        sum32 == Crc32(image)
        n     == Len(image)
    IN  /\ Gives(crc_hw_16(image), sum16) /\ Gives(crc_hw_32(image), sum32)
        /\ check_crc_32_on_flash(n, sum32) = (dma \notin 1 .. (n + BufSize - 1) \div BufSize + 1)
        /\ ~check_crc_32_on_flash(n, Xor(sum32, Zeros(31) \o Ones(1)))
        /\ SubSeq(asciihexbytes_to_binary_buf(hex2str(sum32)), 1, 4) = [i \in 1 .. 4 |-> NumberOf(BytesOf(sum32)[i])]
=============================================================================
