---------------------------------- MODULE Region ----------------------------------
(***************************************************************************)
(* internal/region: a coordinate becomes a geohash by bisecting longitude  *)
(* and latitude in turn, five bits to a character. A coordinate is an      *)
(* integer on a grid of the map, which runs from -Half up to Half in both  *)
(* directions (the code halves 180 and 360 degrees alike); nothing stops a *)
(* request from naming a point beyond it. A character is its index in the  *)
(* base32 alphabet.                                                        *)
(***************************************************************************)
EXTENDS Integers, Sequences

CONSTANTS
  Precision,  \* characters of a shard key
  Depth       \* the map is 2^Depth grid points wide and high

ASSUME RegionAssumption ==
  /\ Precision \in Nat \ {0, 1}
  /\ Depth \in Nat \ {0}
  /\ 2 * Depth >= 5 * Precision + 1    \* midpoints are grid points

CharBits == 5
Half == 2 ^ (Depth - 1)

Start == [lat |-> <<-Half, Half>>, lng |-> <<-Half, Half>>,
          even |-> TRUE, bit |-> 0, ch |-> 0, out |-> <<>>]

Mid(range) == (range[1] + range[2]) \div 2

UpperOnly(range, x) ==                                       \* mutant of Upper
  x > Mid(range)

Upper(range, x) == x >= Mid(range)

Narrowed(range, x) ==
  IF Upper(range, x) THEN <<Mid(range), range[2]>> ELSE <<range[1], Mid(range)>>

\* One turn of the loop: a bit of one coordinate, and a character every five.
Turn(c, lat, lng) ==
  LET one == IF c.even THEN Upper(c.lng, lng) ELSE Upper(c.lat, lat)
      ch  == IF one THEN c.ch + 2 ^ (CharBits - 1 - c.bit) ELSE c.ch
      full == c.bit = CharBits - 1
  IN [lat  |-> IF c.even THEN c.lat ELSE Narrowed(c.lat, lat),
      lng  |-> IF c.even THEN Narrowed(c.lng, lng) ELSE c.lng,
      even |-> ~c.even,
      bit  |-> IF full THEN 0 ELSE c.bit + 1,
      ch   |-> IF full THEN 0 ELSE ch,
      out  |-> IF full THEN Append(c.out, ch) ELSE c.out]

Geohash(lat, lng, precision) ==
  LET after[n \in 0 .. CharBits * precision] ==
        IF n = 0 THEN Start ELSE Turn(after[n - 1], lat, lng)
  IN after[CharBits * precision].out

Key(lat, lng) == Geohash(lat, lng, Precision)

\* The keys Nearest searches (they differ in length).
Neighbors(lat, lng) == <<Key(lat, lng), Geohash(lat, lng, Precision - 1)>>
--------------------------------------------------------------------------------
(* What a geohash should be, without a loop. *)

\* Bit m of where x lies on the map, a point beyond it counting as on its edge.
OnMap(x) == IF x < -Half THEN 0 ELSE IF x >= Half THEN 2 * Half - 1 ELSE x + Half
BitOf(x, m) == (OnMap(x) \div 2 ^ (Depth - 1 - m)) % 2

\* Longitude has the even bits, latitude the odd ones.
HashBit(lat, lng, j) == IF j % 2 = 0 THEN BitOf(lng, j \div 2) ELSE BitOf(lat, j \div 2)

CellOf(lat, lng, precision) ==
  [i \in 1 .. precision |->
    LET b(k) == HashBit(lat, lng, CharBits * (i - 1) + k) IN
    16 * b(0) + 8 * b(1) + 4 * b(2) + 2 * b(3) + b(4)]
================================================================================
