-------------------------- MODULE MCFirmwareDownload --------------------------
(* Small instances of FirmwareDownload for TLC.                            *)
EXTENDS FirmwareDownload, SequencesExt

MCByte == Data \cup {Dot, Eol, FlagA5}

\* A checksum that depends on every byte and its place.
Weight(c) == IF c \in Data THEN c ELSE IF c = Dot THEN 2 ELSE 3
MCCrc(s) == FoldLeft(LAMBDA acc, c : (3 * acc + Weight(c) + 1) % CrcModulus, 1, s)

Images(n) == UNION {[1 .. k -> Data] : k \in 0 .. n}
Digits(crc) == <<crc \div Radix, crc % Radix>>
File(img, crc) == img \o <<Dollar>> \o Digits(crc) \o <<Dot>>
GoodFiles(n) == {File(img, MCCrc(img)) : img \in Images(n)}

Alternating(n) == [k \in 1 .. n |-> k % 2]
Good(n) == File(Alternating(n), MCCrc(Alternating(n)))

\* Complete files that fit: the image, '$', the checksum, the dot.
GoodStreams == GoodFiles(2) \cup {Good(4), Good(5)}

\* Good files, a wrong checksum, an image with a dot in it, a line end before
\* the dot, files that end early, a file too long.
MixedStreams ==
  {Good(0), Good(4), Good(6),
        File(Alternating(3), (MCCrc(Alternating(3)) + 1) % CrcModulus),
        File(<<1, Dot, 0>>, MCCrc(<<1, Dot, 0>>)),
        Alternating(2) \o <<Dollar>> \o Digits(MCCrc(Alternating(2))) \o <<Eol, Dot>>,
        <<0, 1>>, <<0, 1, Dollar>>, <<0, Dot, 1>>}

\* A checksum that stops, a file without one, nothing but an image.
OddStreams == {<<0, 1, 0, Dollar, 1>>, <<1, Dot, 0>>, <<0, 1, 0, 1, 0, 1>>}

AllStreams == MixedStreams \cup OddStreams

\* The modem reports the end of the connection right behind the file
\* ("3" and a line end, the numeric form of NO CARRIER).
StreamsWithResultCode == {file \o <<1, Eol>> : file \in GoodFiles(2)}

\* A file that is complete and fits is installed, whatever follows it on the
\* line, where nothing fails any more (the faults are used up), unless the
\* ring overflows because the flash is too slow.
GoodFileInstalled ==
  (/\ pc = "poll" /\ faults = MaxFaults /\ received = <<>> /\ rx = <<>> /\ ~ semReachedCrcInFile
   /\ \E file \in GoodStreams : IsPrefix(file, wire))
    ~> (pc = "dropped" \/ (pc = "idle" /\ result = 1))
===============================================================================
