------------------------- MODULE RequestCheckProofs -------------------------
(***************************************************************************)
(* What validation guarantees for every width of int, every limit of pairs *)
(* and every size of the dimensions that fits an int.                      *)
(***************************************************************************)
EXTENDS RequestCheck, RequestParamsProofs

\* Validation of one target, whatever the thread_local variables held before.
LEMMA ValidateStep ==
  ASSUME NEW t \in Target, Validate(t)
  PROVE  AcceptedIsWhatWasAsked'
<1> SUFFICES ASSUME verdict' = "accepted"
             PROVE  /\ AsksFor(t, "time", timeIndex') /\ timeIndex' < TimeSize
                    /\ AsksFor(t, "z", zIndex') /\ zIndex' < ZSize
  BY DEF AcceptedIsWhatWasAsked, Validate, AsksFor
<1> DEFINE pairs == Pairs(t)
<1>1. Verdict(pairs) = "accepted"
  BY DEF Validate
<1>2. /\ Positions(pairs, "time") # {} /\ Positions(pairs, "z") # {}
      /\ ~ StoiThrows(Get(pairs, "time")) /\ ~ StoiThrows(Get(pairs, "z"))
      /\ ~ OutOfRange(Index(Get(pairs, "time")), TimeSize)
      /\ ~ OutOfRange(Index(Get(pairs, "z")), ZSize)
      /\ AssignsTime(pairs) /\ AssignsZ(pairs)
  BY <1>1, AcceptedPassed
<1>3. /\ timeIndex' = Index(Get(pairs, "time"))
      /\ zIndex' = Index(Get(pairs, "z"))
  BY <1>2 DEF Validate
<1>4. t \in Seq(Pair) /\ \A i \in 1..Len(t) : \A m, n \in t[i].value : m = n
  BY TargetAssumption
<1>5. TimeSize \in 0..IntHalf /\ ZSize \in 0..IntHalf
  BY ParamsAssumption
<1>6. AsksFor(t, "time", Index(Get(pairs, "time"))) /\ Index(Get(pairs, "time")) < TimeSize
  BY <1>2, <1>4, <1>5, GetIsAskedFor
<1>7. AsksFor(t, "z", Index(Get(pairs, "z"))) /\ Index(Get(pairs, "z")) < ZSize
  BY <1>2, <1>4, <1>5, GetIsAskedFor
<1> QED
  BY <1>3, <1>6, <1>7

\* Every accepted request is answered for the indices it asks for.
THEOREM AcceptedAsAsked == CheckSpec => []AcceptedIsWhatWasAsked
<1>1. CheckInit => AcceptedIsWhatWasAsked
  BY DEF CheckInit, AcceptedIsWhatWasAsked
<1>2. AcceptedIsWhatWasAsked /\ [CheckNext]_checkVars => AcceptedIsWhatWasAsked'
  <2> SUFFICES ASSUME AcceptedIsWhatWasAsked, [CheckNext]_checkVars
               PROVE  AcceptedIsWhatWasAsked'
    OBVIOUS
  <2>1. CASE Finish
    BY <2>1 DEF Finish, AcceptedIsWhatWasAsked
  <2>2. ASSUME NEW t \in Target, Validate(t)
        PROVE  AcceptedIsWhatWasAsked'
    BY <2>2, ValidateStep
  <2>3. CASE UNCHANGED checkVars
    BY <2>3 DEF checkVars, AcceptedIsWhatWasAsked, AsksFor
  <2> QED
    BY <2>1, <2>2, <2>3 DEF CheckNext
<1> QED
  BY <1>1, <1>2, PTL DEF CheckSpec

-----------------------------------------------------------------------------
(***************************************************************************)
(* Exactly the well-formed targets are accepted.                           *)
(***************************************************************************)

\* The verdict is "accepted" for the requests that name time and z, and nothing
\* else, inside the file, and for no others.
THEOREM ExactlyWellFormed == CheckSpec => []AcceptsExactlyWellFormed
<1>1. CheckInit => AcceptsExactlyWellFormed
  BY DEF CheckInit, AcceptsExactlyWellFormed
<1>2. AcceptsExactlyWellFormed /\ [CheckNext]_checkVars => AcceptsExactlyWellFormed'
  <2> SUFFICES ASSUME AcceptsExactlyWellFormed, [CheckNext]_checkVars
               PROVE  AcceptsExactlyWellFormed'
    OBVIOUS
  <2>1. CASE Finish
    BY <2>1 DEF Finish, AcceptsExactlyWellFormed
  <2>2. ASSUME NEW t \in Target, Validate(t)
        PROVE  AcceptsExactlyWellFormed'
    <3>1. target' = t /\ verdict' = Verdict(Pairs(t))
      BY <2>2 DEF Validate
    <3>2. Len(t) <= MaxPairs => (Verdict(Pairs(t)) = "accepted" <=> WellFormed(t))
      BY AcceptedIffWellFormed, TargetAssumption
    <3>3. WellFormed(target)' <=> WellFormed(t)
      BY <3>1 DEF WellFormed, AsksFor
    <3> QED
      BY <3>1, <3>2, <3>3 DEF AcceptsExactlyWellFormed
  <2>3. CASE UNCHANGED checkVars
    BY <2>3 DEF checkVars, AcceptsExactlyWellFormed, WellFormed, AsksFor
  <2> QED
    BY <2>1, <2>2, <2>3 DEF CheckNext
<1> QED
  BY <1>1, <1>2, PTL DEF CheckSpec

\* The indices stay uints and the code one of the two.
THEOREM CheckTypes == CheckSpec => []CheckTypeOK
<1>1. CheckInit => CheckTypeOK
  <2>1. <<>> \in Seq(Pair)
    OBVIOUS
  <2>2. 0 \in 0..(2 * IntHalf - 1)
    BY ParamsAssumption
  <2> QED
    BY <2>1, <2>2 DEF CheckInit, CheckTypeOK
<1>2. ASSUME NEW value, value \in SUBSET Int, ~ StoiThrows(value)
      PROVE  Index(value) \in 0..(2 * IntHalf - 1)
  <2>1. (CHOOSE n \in value : TRUE) \in Int
    BY <1>2 DEF StoiThrows
  <2>2. 2 * IntHalf \in Nat \ {0}
    BY ParamsAssumption
  <2>3. \A n \in Int : n % (2 * IntHalf) \in 0..(2 * IntHalf - 1)
    BY <2>2
  <2> QED
    BY <2>1, <2>3 DEF Index, ToUint
<1>3. ASSUME NEW t \in Target, NEW name, Positions(Pairs(t), name) # {}
      PROVE  Get(Pairs(t), name) \in SUBSET Int
  <2>1. t \in Seq(Pair)
    BY TargetAssumption
  <2>2. Pairs(t) \in Seq(Pair)
    BY <2>1, PairsArePrefix
  <2>3. First(Pairs(t), name) \in 1..Len(Pairs(t))
    BY <1>3, <2>2, FirstIsFirst
  <2>4. Pairs(t)[First(Pairs(t), name)] \in Pair
    BY <2>2, <2>3
  <2> QED
    BY <2>4 DEF Get, Pair
<1>4. CheckTypeOK /\ [CheckNext]_checkVars => CheckTypeOK'
  <2> SUFFICES ASSUME CheckTypeOK, [CheckNext]_checkVars
               PROVE  CheckTypeOK'
    OBVIOUS
  <2>1. CASE Finish
    BY <2>1 DEF Finish, CheckTypeOK
  <2>2. ASSUME NEW t \in Target, Validate(t)
        PROVE  CheckTypeOK'
    <3>1. target' \in Seq(Pair)
      BY <2>2, TargetAssumption DEF Validate
    <3>2. verdict' \in Verdicts
      BY <2>2 DEF Validate, Verdict, Verdicts
    <3>3. AssignsTime(Pairs(t)) => Index(Get(Pairs(t), "time")) \in 0..(2 * IntHalf - 1)
      BY <1>2, <1>3 DEF AssignsTime, Verdict
    <3>4. AssignsZ(Pairs(t)) => Index(Get(Pairs(t), "z")) \in 0..(2 * IntHalf - 1)
      BY <1>2, <1>3 DEF AssignsZ, AssignsTime, Verdict
    <3> QED
      BY <2>2, <3>1, <3>2, <3>3, <3>4 DEF Validate, CheckTypeOK
  <2>3. CASE UNCHANGED checkVars
    BY <2>3 DEF checkVars, CheckTypeOK
  <2> QED
    BY <2>1, <2>2, <2>3 DEF CheckNext
<1> QED
  BY <1>1, <1>4, PTL DEF CheckSpec
=============================================================================
