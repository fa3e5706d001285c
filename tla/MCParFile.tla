------------------------------ MODULE MCParFile ------------------------------
(* Small instances of ParFile and ParDownload for TLC.                     *)
EXTENDS ParDownload

Status(ok) == [kind |-> "status", ok |-> ok]
Record(b) == [kind |-> "record", bytes |-> b]
Line(a, b, comment) == [kind |-> "line", at |-> a, bytes |-> b, comment |-> comment]
DollarPiece == [kind |-> "dollar"]
Checksum(p, top) == [kind |-> "crc", of |-> p, top |-> top]
Caret == [kind |-> "caret"]

\* A payload with its header in front, its checksum and the '^' behind it.
ResponseWith(b, lines, top) ==
  LET p == <<Record(b)>> \o lines \o <<DollarPiece>>
  IN <<Status(TRUE)>> \o p \o <<Checksum(p, top), Caret>>
Response(b, lines) == ResponseWith(b, lines, FALSE)

\* Two lines in one sector and one in the next, a record only, a record that
\* is too short or too long, a comment with a colon, a line without a comment, a
\* checksum above the largest long, no such file.
SortedLines ==
  <<Line(4, <<1>>, "plain"), Line(5, <<0>>, "plain"), Line(8, <<1, 1>>, "plain")>>
MixedFiles ==
  {Response(<<1, 0>>, SortedLines),
   Response(<<0, 1>>, <<>>),
   Response(<<1>>, <<Line(4, <<1>>, "plain")>>),
   Response(<<1, 0, 1>>, <<Line(8, <<0>>, "plain")>>),
   Response(<<1, 1>>, <<Line(4, <<0>>, "colon")>>),
   Response(<<0, 1>>, <<Line(5, <<1>>, "none"), Line(4, <<1>>, "plain")>>),
   ResponseWith(<<1, 1>>, <<Line(8, <<1>>, "plain")>>, TRUE),
   <<Status(FALSE), Caret>>}

\* They meet what the theorems suppose.
ASSUME MixedFilesAssumption ==
  \A file \in MixedFiles : WellFormed(file) /\ WellPlaced(file)

\* Each with a line, the checksum of one of them above the largest long.
TwoChecksums ==
  {Response(<<1, 0>>, <<Line(4, <<1>>, "plain")>>),
   ResponseWith(<<0, 1>>, <<Line(8, <<0>>, "plain")>>, TRUE)}

\* Two lines at the two ends of one sector.
OneSectorFiles == {Response(<<1, 0>>, <<Line(4, <<1>>, "plain"), Line(7, <<0>>, "plain")>>)}
===============================================================================
