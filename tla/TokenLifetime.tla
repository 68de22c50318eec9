--------------------------- MODULE TokenLifetime ---------------------------
(***************************************************************************)
(* How long a token lives and how long its blacklist entry is kept.        *)
(*                                                                         *)
(* Both times come from the one configured lifetime of an access token     *)
(* (configuration.ts: auth.accessTokenExpiresIn), a string such as "5m".   *)
(* jsonwebtoken reads it in one way when it signs a token, and             *)
(* AuthService.convertToSeconds in another when logout stores the token.   *)
(* A lifetime is modelled by its number and its unit.  Time is counted in  *)
(* ticks, TicksPerSecond of them (the code counts milliseconds, 1000).     *)
(***************************************************************************)
EXTENDS Integers

CONSTANT TicksPerSecond

ASSUME TicksPerSecondAssumption == TicksPerSecond \in Nat \ {0}

(* Units of jsonwebtoken's parser (package ms), which ignores case and takes *)
(* long names: "H" and "minutes" stand for these.  "" is a bare number.  "M" *)
(* is a month to convertToSeconds and a minute to ms.                        *)
Units == {"", "ms", "s", "m", "minutes", "h", "H", "d", "w", "M", "y"}

Lifetime == [value : Nat, unit : Units]

(* convertToSeconds looks at the last letter alone. *)
LastLetter(unit) == IF unit \in {"ms", "minutes"} THEN "s" ELSE unit

FaultyUnitSeconds(letter) ==  \* hours and days share a factor
  IF letter = "m" THEN 60
  ELSE IF letter \in {"h", "d"} THEN 60 * 60
  ELSE IF letter = "w" THEN 60 * 60 * 24 * 7
  ELSE IF letter = "M" THEN 60 * 60 * 24 * 30
  ELSE 1

(* Seconds in a unit, by its last letter.  Any other letter falls through to *)
(* the else branch, which takes the number as it stands.                     *)
UnitSeconds(letter) ==
  IF letter = "m" THEN 60
  ELSE IF letter = "h" THEN 60 * 60
  ELSE IF letter = "d" THEN 60 * 60 * 24
  ELSE IF letter = "w" THEN 60 * 60 * 24 * 7
  ELSE IF letter = "M" THEN 60 * 60 * 24 * 30
  ELSE 1

(* What convertToSeconds returns: in spite of its name, seconds times 1000. *)
ConvertToSeconds(life) ==
  life.value * UnitSeconds(LastLetter(life.unit)) * TicksPerSecond

(* Seconds in a unit to jsonwebtoken (through ms). *)
JwtUnitSeconds(unit) ==
  IF unit = "s" THEN 1
  ELSE IF unit \in {"m", "minutes", "M"} THEN 60
  ELSE IF unit \in {"h", "H"} THEN 60 * 60
  ELSE IF unit = "d" THEN 60 * 60 * 24
  ELSE IF unit = "w" THEN 60 * 60 * 24 * 7
  ELSE 60 * 60 * 8766  \* a year of 365.25 days

(* exp - iat of a signed token, always whole seconds: a bare number is *)
(* milliseconds, and a fraction of a second is dropped.                *)
JwtSeconds(life) ==
  IF life.unit \in {"", "ms"}
    THEN life.value \div 1000
    ELSE life.value * JwtUnitSeconds(life.unit)

JwtTicks(life) == JwtSeconds(life) * TicksPerSecond

(* The units for which convertToSeconds never returns less than the time the  *)
(* token lives.  It reads the others, a year, a capital or a long name, as so *)
(* many seconds.                                                              *)
CoveredUnits == {"", "ms", "s", "m", "h", "d", "w", "M"}

(* The ttl that logout gives a blacklist entry is at least the lifetime that  *)
(* jsonwebtoken reads from the same string, for the units that                *)
(* convertToSeconds treats or takes as a bare number, and for no other: with  *)
(* "1y", "12H" or "5 minutes" a logged-out token outlives its entry.          *)
CoveredExactly(life) ==
  life.value > 0 =>
    (ConvertToSeconds(life) >= JwtTicks(life) <=> life.unit \in CoveredUnits)
=============================================================================
