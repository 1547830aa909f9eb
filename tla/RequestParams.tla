---------------------------- MODULE RequestParams ---------------------------
(***************************************************************************)
(* What crow::query_string makes of a request target, and what             *)
(* NetCDFServer::validateRequestParameters makes of that.                  *)
(*                                                                         *)
(* The part of the target after '?' is the sequence of the pieces between  *)
(* its '&'s.  A piece is a record:                                         *)
(*   name   what its key decodes to: "time", "z" or any other text         *)
(*   plain  whether the key is written without percent escapes             *)
(*   value  {n} when the value begins, after blanks, with the integer n,   *)
(*          {} when std::stoi finds no number in it (a blank one included) *)
(***************************************************************************)
EXTENDS Integers, Sequences

CONSTANTS MaxPairs,   \* query_string::MAX_KEY_VALUE_PAIRS_COUNT, 256
          IntHalf,    \* 2^31: int is -IntHalf..IntHalf - 1, uint 0..2*IntHalf - 1
          TimeSize,   \* the size of the dimension "time" of the data file
          ZSize       \* the size of the dimension "z"

ASSUME ParamsAssumption ==
  /\ MaxPairs \in Nat \ {0}
  /\ IntHalf \in Nat \ {0}
  /\ TimeSize \in 0..IntHalf   \* the dimensions of the data file fit an int
  /\ ZSize \in 0..IntHalf

Pair == [name : {"time", "z", "other"}, plain : BOOLEAN, value : SUBSET Int]

-----------------------------------------------------------------------------
\* qs_parse: the pieces it keeps.
Pairs(target) ==
  SubSeq(target, 1, IF Len(target) < MaxPairs THEN Len(target) ELSE MaxPairs)

\* qs_k2v: the positions of a key, which is compared after decoding.
Positions(pairs, name) == {i \in 1..Len(pairs) : pairs[i].name = name}

\* MUTANT of First: the last of the occurrences.
LastOccurrence(pairs, name) ==
  CHOOSE i \in Positions(pairs, name) : \A j \in Positions(pairs, name) : j <= i

\* query_string::get returns the first occurrence.
First(pairs, name) ==
  CHOOSE i \in Positions(pairs, name) : \A j \in Positions(pairs, name) : i <= j

Get(pairs, name) == pairs[First(pairs, name)].value

\* query_string::keys returns the keys as they are written.
ForeignKey(pair) == ~ pair.plain \/ pair.name \notin {"time", "z"}

-----------------------------------------------------------------------------
\* std::stoi throws when there is no number, or one that is no int.
StoiThrows(value) == \A n \in value : n \notin -IntHalf..(IntHalf - 1)

\* MUTANT of ToUint: the index stays an int.
StaysInt(n) == n

\* The int is assigned to a uint: a negative one wraps.
ToUint(n) == n % (2 * IntHalf)
Index(value) == ToUint(CHOOSE n \in value : TRUE)

\* MUTANT of OutOfRange: the size itself passes.
BeyondSize(index, size) == index < 0 \/ index > size

\* The range check of an index; index < 0 is never true of a uint.
OutOfRange(index, size) == index < 0 \/ index >= size

\* The checks of validateRequestParameters in their order: the first that
\* fails is the error, and the conversions come before the foreign keys.
Verdict(pairs) ==
  IF Positions(pairs, "time") = {} \/ Positions(pairs, "z") = {}
    THEN "MISSING_PARMS"
  ELSE IF StoiThrows(Get(pairs, "time")) \/ StoiThrows(Get(pairs, "z"))
    THEN "FAIL_STOI"
  ELSE IF \E i \in 1..Len(pairs) : ForeignKey(pairs[i])
    THEN "INVALID_PARM"
  ELSE IF \/ OutOfRange(Index(Get(pairs, "time")), TimeSize)
          \/ OutOfRange(Index(Get(pairs, "z")), ZSize)
    THEN "INDEX_OOR"
  ELSE "accepted"

\* timeIndex and zIndex are assigned as far as the conversions get, also when
\* the request is rejected afterwards.
AssignsTime(pairs) ==
  Verdict(pairs) # "MISSING_PARMS" /\ ~ StoiThrows(Get(pairs, "time"))
AssignsZ(pairs) == AssignsTime(pairs) /\ ~ StoiThrows(Get(pairs, "z"))

\* What a target asks for: the first value that is written in it for a name.
AsksFor(t, name, index) ==
  \E i \in 1..Len(t) :
    /\ t[i].name = name
    /\ \A j \in 1..(i - 1) : t[j].name # name
    /\ index \in t[i].value

\* The reference definition of a request for a slice: it names time and z and
\* nothing else, in plain keys, with first values inside the file.
WellFormed(t) ==
  /\ \A i \in 1..Len(t) : t[i].plain /\ t[i].name \in {"time", "z"}
  /\ \E n \in 0..(TimeSize - 1) : AsksFor(t, "time", n)
  /\ \E n \in 0..(ZSize - 1) : AsksFor(t, "z", n)

\* What a request for a slice asks for.
AsksForSlice(t, slice) ==
  AsksFor(t, "time", slice[1]) /\ AsksFor(t, "z", slice[2])

Verdicts == {"MISSING_PARMS", "FAIL_STOI", "INVALID_PARM", "INDEX_OOR", "accepted"}
=============================================================================
