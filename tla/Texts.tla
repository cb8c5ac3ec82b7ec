--------------------------------- MODULE Texts ---------------------------------
(***************************************************************************)
(* The texts that are both parsed and printed: durations                   *)
(* (src/domain/duration.rs), identifiers (src/domain/id.rs) and timestamps *)
(* (UtcTimestamp of src/domain/primitives.rs).  What is stored is what     *)
(* Display prints, and it is parsed again on every load.                   *)
(***************************************************************************)
EXTENDS Integers, SequencesExt

CONSTANTS
  MaxDuration,  \* MAX_DURATION_SECONDS
  MaxNumber,    \* the largest u64, scaled down
  Base,         \* the digits of an identifier (32)
  IdLength,     \* its length (26)
  MaxId,        \* the largest u128, scaled down
  LastInstant   \* the largest timestamp, in seconds

ASSUME TextsAssumption ==
  /\ MaxDuration \in Nat \ {0} /\ MaxNumber \in Nat /\ MaxDuration <= MaxNumber
  /\ Base \in Nat \ {0, 1} /\ IdLength \in Nat \ {0} /\ MaxId \in Nat
  /\ MaxId < Base ^ IdLength /\ LastInstant \in Nat

-------------------------------------------------------------------------------
(* A component of a duration: how many digits it is written with, their    *)
(* value, and the letter that follows them (none at the end of the text).  *)
Part == [digits : Nat, n : Nat, unit : {"h", "m", "s", "none", "other"}]

rank == [u \in {"h", "m", "s"} |-> CASE u = "h" -> 3 [] u = "m" -> 2 [] u = "s" -> 1]
multiplier == [u \in {"h", "m", "s"} |-> CASE u = "h" -> 3600 [] u = "m" -> 60 [] u = "s" -> 1]

(* One turn of the loop of from_str.                                       *)
PartError(acc, part) ==
  CASE part.digits = 0                     -> "expected_number"
    [] part.n > MaxNumber                  -> "overflow"
    [] part.unit \in {"none", "other"}     -> "expected_unit"
    [] part.unit = "h" /\ part.n = 0       -> "zero_hours"
    [] rank[part.unit] >= acc.previous     -> "unit_order"
    [] part.n > MaxNumber \div multiplier[part.unit] -> "overflow"
    [] acc.total > MaxNumber - part.n * multiplier[part.unit] -> "overflow"
    [] OTHER                               -> "none"

AddPart(acc, part) ==
  IF acc.error # "none" THEN acc
  ELSE IF PartError(acc, part) # "none" THEN [acc EXCEPT !.error = PartError(acc, part)]
  ELSE [error |-> "none", previous |-> rank[part.unit],
        total |-> acc.total + part.n * multiplier[part.unit]]

NoDuration == 0

StartOf(parts) == [error |-> IF parts = <<>> THEN "empty" ELSE "none", previous |-> 4, total |-> 0]

ReadParts(parts) ==
  LET read[i \in 0 .. Len(parts)] == IF i = 0 THEN StartOf(parts) ELSE AddPart(read[i - 1], parts[i])
  IN  read

duration_from_str(parts) ==
  LET end == ReadParts(parts)[Len(parts)]
  IN  IF end.error = "none" /\ end.total \in 1 .. MaxDuration THEN end.total ELSE NoDuration

(* Display: the components that are not zero.  A u64 has at most twenty    *)
(* digits.                                                                 *)
Digits(n) == IF n = 0 THEN 1 ELSE CHOOSE d \in 1 .. 20 : 10 ^ (d - 1) <= n /\ n < 10 ^ d

Printed(n, unit) == [digits |-> Digits(n), n |-> n, unit |-> unit]

duration_fmt(s) ==
  SelectSeq(<<Printed(s \div 3600, "h"), Printed((s % 3600) \div 60, "m"), Printed(s % 60, "s")>>,
            LAMBDA part : part.n > 0)

-------------------------------------------------------------------------------
(* An identifier as text: digits below Base, their upper case from Base    *)
(* on, and any other byte.                                                 *)
OtherByte == 2 * Base
lowercase(byte) == IF byte \in Base .. (2 * Base - 1) THEN byte - Base ELSE byte

encode(value) == [i \in 1 .. IdLength |-> (value \div Base ^ (IdLength - i)) % Base]

NoValue == -1

decode(text) ==
  IF Len(text) # IdLength THEN NoValue
  ELSE FoldLeft(LAMBDA acc, byte :
                  IF \/ acc = NoValue \/ lowercase(byte) = OtherByte
                     \/ acc > MaxId \div Base
                     \/ acc * Base > MaxId - lowercase(byte)
                  THEN NoValue
                  ELSE acc * Base + lowercase(byte),
                0, text)

-------------------------------------------------------------------------------
(* A timestamp as text: the day and the time of day, as jiff prints them;  *)
(* what is outside the range of timestamps is not read.                    *)
NoInstant == -1

timestamp_fmt(t) ==
  [day |-> t \div 86400, hour |-> (t % 86400) \div 3600, minute |-> (t % 3600) \div 60, second |-> t % 60]

timestamp_from_str(text) ==
  LET t == text.day * 86400 + text.hour * 3600 + text.minute * 60 + text.second
  IN  IF t \in 0 .. LastInstant THEN t ELSE NoInstant

-------------------------------------------------------------------------------
(* What a duration text denotes: each unit at most once, the larger before *)
(* the smaller, no zero hours, and their sum, in range.                    *)
Amount(parts, unit) ==
  LET given == {i \in DOMAIN parts : parts[i].unit = unit}
  IN  IF given = {} THEN 0 ELSE parts[CHOOSE i \in given : TRUE].n

Denotes(parts, s) ==
  /\ parts # <<>>
  /\ \A i \in DOMAIN parts :
       /\ parts[i].digits > 0 /\ parts[i].unit \in {"h", "m", "s"}
       /\ parts[i].unit = "h" => parts[i].n > 0
       /\ \A k \in 1 .. i - 1 : rank[parts[i].unit] < rank[parts[k].unit]
  /\ s = Amount(parts, "h") * 3600 + Amount(parts, "m") * 60 + Amount(parts, "s")
  /\ s \in 1 .. MaxDuration

(* What is printed is read back as it was.                                 *)
IdReadBack(id) == decode(encode(id)) = id
DurationReadBack(s) == duration_fmt(s) # <<>> /\ duration_from_str(duration_fmt(s)) = s
===============================================================================
