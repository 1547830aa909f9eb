------------------------ MODULE RequestParamsProofs -------------------------
(***************************************************************************)
(* What the operators of RequestParams return, for every width of int,     *)
(* every limit of pairs and every size of the dimensions that fits an int. *)
(***************************************************************************)
EXTENDS RequestParams, NaturalLemmas, TLAPS

\* The pieces that are kept are the first ones of the target.
LEMMA PairsArePrefix ==
  ASSUME NEW t \in Seq(Pair)
  PROVE  /\ Pairs(t) \in Seq(Pair)
         /\ Len(Pairs(t)) \in Nat
         /\ Len(Pairs(t)) <= Len(t)
         /\ \A i \in 1..Len(Pairs(t)) : Pairs(t)[i] = t[i]
         /\ Len(t) <= MaxPairs => Pairs(t) = t
  BY ParamsAssumption DEF Pairs

\* query_string::get finds the first occurrence of a key that occurs.
LEMMA FirstIsFirst ==
  ASSUME NEW pairs \in Seq(Pair), NEW name, Positions(pairs, name) # {}
  PROVE  /\ First(pairs, name) \in 1..Len(pairs)
         /\ pairs[First(pairs, name)].name = name
         /\ \A j \in 1..Len(pairs) : j < First(pairs, name) => pairs[j].name # name
<1>1. Positions(pairs, name) \subseteq Nat
  BY DEF Positions
<1>2. \E i \in Positions(pairs, name) : \A j \in Positions(pairs, name) : i <= j
  BY <1>1, LeastElement
<1>3. /\ First(pairs, name) \in Positions(pairs, name)
      /\ \A j \in Positions(pairs, name) : First(pairs, name) <= j
  BY <1>2 DEF First
<1> QED
  BY <1>3 DEF Positions

\* An index that passes the range check was asked for as it is: no negative
\* number wraps into the file.
LEMMA IndexUnwrapped ==
  ASSUME NEW value \in SUBSET Int, \A m, n \in value : m = n,
         NEW size \in 0..IntHalf,
         ~ StoiThrows(value), ~ OutOfRange(Index(value), size)
  PROVE  Index(value) \in value /\ Index(value) \in 0..(size - 1)
<1>1. PICK n \in value : n \in -IntHalf..(IntHalf - 1)
  BY DEF StoiThrows
<1>2. (CHOOSE m \in value : TRUE) = n
  BY <1>1
<1>3. Index(value) = n % (2 * IntHalf)
  BY <1>2 DEF Index, ToUint
<1>4. IntHalf \in Nat \ {0}
  BY ParamsAssumption
<1>5. CASE n >= 0
  <2>1. 2 * IntHalf \in Nat \ {0} /\ n \in 0..(2 * IntHalf - 1)
    BY <1>1, <1>4, <1>5
  <2>2. n % (2 * IntHalf) = n
    BY <2>1, SmallRemainder
  <2> QED
    BY <1>1, <1>3, <2>2 DEF OutOfRange
<1>6. CASE n < 0
  <2>1. 2 * IntHalf \in Nat \ {0} /\ n \in Int /\ 0 <= n + 2 * IntHalf
    BY <1>1, <1>4, <1>6
  <2>2. n % (2 * IntHalf) = n + 2 * IntHalf
    BY <2>1, <1>6, NegativeRemainder
  <2>3. Index(value) \in Int /\ Index(value) >= IntHalf
    BY <1>1, <1>3, <1>4, <2>2
  <2>4. OutOfRange(Index(value), size)
    BY <1>4, <2>3 DEF OutOfRange
  <2> QED
    BY <2>4
<1> QED
  BY <1>1, <1>5, <1>6

\* A verdict of "accepted" means that every check was passed.
LEMMA AcceptedPassed ==
  ASSUME NEW pairs, Verdict(pairs) = "accepted"
  PROVE  /\ Positions(pairs, "time") # {} /\ Positions(pairs, "z") # {}
         /\ ~ StoiThrows(Get(pairs, "time")) /\ ~ StoiThrows(Get(pairs, "z"))
         /\ \A i \in 1..Len(pairs) : ~ ForeignKey(pairs[i])
         /\ ~ OutOfRange(Index(Get(pairs, "time")), TimeSize)
         /\ ~ OutOfRange(Index(Get(pairs, "z")), ZSize)
         /\ AssignsTime(pairs) /\ AssignsZ(pairs)
  BY DEF Verdict, AssignsTime, AssignsZ

\* An index that a request is accepted for is the one it asks for.
LEMMA GetIsAskedFor ==
  ASSUME NEW t \in Seq(Pair), \A i \in 1..Len(t) : \A m, n \in t[i].value : m = n,
         NEW name, Positions(Pairs(t), name) # {},
         ~ StoiThrows(Get(Pairs(t), name)),
         NEW size \in 0..IntHalf,
         ~ OutOfRange(Index(Get(Pairs(t), name)), size)
  PROVE  /\ AsksFor(t, name, Index(Get(Pairs(t), name)))
         /\ Index(Get(Pairs(t), name)) < size
         /\ Index(Get(Pairs(t), name)) \in 0..(size - 1)
<1> DEFINE pairs == Pairs(t)
           i == First(pairs, name)
<1>1. /\ pairs \in Seq(Pair) /\ Len(pairs) \in Nat /\ Len(pairs) <= Len(t)
      /\ \A j \in 1..Len(pairs) : pairs[j] = t[j]
  BY PairsArePrefix
<1>2. /\ i \in 1..Len(pairs)
      /\ pairs[i].name = name
      /\ \A j \in 1..Len(pairs) : j < i => pairs[j].name # name
  BY <1>1, FirstIsFirst
<1>3. i \in 1..Len(t) /\ t[i] = pairs[i]
  BY <1>1, <1>2
<1>4. \A j \in 1..(i - 1) : t[j].name # name
  BY <1>1, <1>2
<1>5. Get(pairs, name) = t[i].value
  BY <1>3 DEF Get
<1>6. t[i].value \in SUBSET Int /\ \A m, n \in t[i].value : m = n
  <2>1. t[i] \in Pair
    BY <1>3
  <2>2. t[i].value \in SUBSET Int
    BY <2>1 DEF Pair
  <2> QED
    BY <1>3, <2>2
<1>7. Index(t[i].value) \in t[i].value /\ Index(t[i].value) \in 0..(size - 1)
  BY <1>5, <1>6, IndexUnwrapped
<1> HIDE DEF pairs, i
<1>8. AsksFor(t, name, Index(t[i].value))
  BY <1>2, <1>3, <1>4, <1>7 DEF AsksFor
<1>9. Index(t[i].value) < size /\ Index(t[i].value) \in 0..(size - 1)
  BY <1>7
<1> QED
  BY <1>5, <1>8, <1>9 DEF pairs

\* A first value inside the file passes every check that looks at it.
LEMMA AskedForPasses ==
  ASSUME NEW t \in Seq(Pair), \A i \in 1..Len(t) : \A m, n \in t[i].value : m = n,
         NEW name, NEW size \in 0..IntHalf, NEW n \in 0..(size - 1), AsksFor(t, name, n)
  PROVE  /\ Positions(t, name) # {}
         /\ ~ StoiThrows(Get(t, name))
         /\ ~ OutOfRange(Index(Get(t, name)), size)
<1>1. PICK i \in 1..Len(t) : /\ t[i].name = name
                             /\ \A j \in 1..(i - 1) : t[j].name # name
                             /\ n \in t[i].value
  BY DEF AsksFor
<1>2. Positions(t, name) # {}
  BY <1>1 DEF Positions
<1>3. /\ First(t, name) \in 1..Len(t) /\ t[First(t, name)].name = name
      /\ \A j \in 1..Len(t) : j < First(t, name) => t[j].name # name
  BY <1>2, FirstIsFirst
<1>4. First(t, name) = i
  BY <1>1, <1>3
<1>5. Get(t, name) = t[i].value
  BY <1>4 DEF Get
<1>6. (CHOOSE m \in t[i].value : TRUE) = n
  BY <1>1
<1>7. n \in 0..(IntHalf - 1) /\ IntHalf \in Nat \ {0}
  BY ParamsAssumption
<1>8. Index(Get(t, name)) = n
  <2>1. 2 * IntHalf \in Nat \ {0} /\ n \in 0..(2 * IntHalf - 1)
    BY <1>7
  <2>2. n % (2 * IntHalf) = n
    BY <2>1, SmallRemainder
  <2>3. Index(t[i].value) = n % (2 * IntHalf)
    BY <1>6 DEF Index, ToUint
  <2> QED
    BY <2>2, <2>3, <1>5
<1>9. ~ StoiThrows(Get(t, name))
  <2>1. n \in -IntHalf..(IntHalf - 1)
    BY <1>7
  <2> QED
    BY <2>1, <1>1, <1>5 DEF StoiThrows
<1>10. ~ OutOfRange(Index(Get(t, name)), size)
  BY <1>8 DEF OutOfRange
<1> QED
  BY <1>2, <1>9, <1>10

\* Exactly the well-formed targets are accepted, if no pair is cut off.
LEMMA AcceptedIffWellFormed ==
  ASSUME NEW t \in Seq(Pair), \A i \in 1..Len(t) : \A m, n \in t[i].value : m = n,
         Len(t) <= MaxPairs
  PROVE  Verdict(Pairs(t)) = "accepted" <=> WellFormed(t)
<1>1. t \in Seq(Pair) /\ \A i \in 1..Len(t) : \A m, n \in t[i].value : m = n
  OBVIOUS
<1>2. Pairs(t) = t
  BY <1>1, PairsArePrefix
<1>3. TimeSize \in 0..IntHalf /\ ZSize \in 0..IntHalf
  BY ParamsAssumption
<1>4. ASSUME Verdict(t) = "accepted"
      PROVE  WellFormed(t)
  <2>1. /\ Positions(t, "time") # {} /\ Positions(t, "z") # {}
        /\ ~ StoiThrows(Get(t, "time")) /\ ~ StoiThrows(Get(t, "z"))
        /\ \A i \in 1..Len(t) : ~ ForeignKey(t[i])
        /\ ~ OutOfRange(Index(Get(t, "time")), TimeSize)
        /\ ~ OutOfRange(Index(Get(t, "z")), ZSize)
    BY <1>4, AcceptedPassed
  <2>2. /\ AsksFor(t, "time", Index(Get(t, "time")))
        /\ Index(Get(t, "time")) \in 0..(TimeSize - 1)
    BY <2>1, <1>1, <1>2, <1>3, GetIsAskedFor
  <2>3. /\ AsksFor(t, "z", Index(Get(t, "z")))
        /\ Index(Get(t, "z")) \in 0..(ZSize - 1)
    BY <2>1, <1>1, <1>2, <1>3, GetIsAskedFor
  <2>4. \A i \in 1..Len(t) : t[i].plain /\ t[i].name \in {"time", "z"}
    BY <2>1 DEF ForeignKey
  <2> QED
    BY <2>2, <2>3, <2>4 DEF WellFormed
<1>5. ASSUME WellFormed(t)
      PROVE  Verdict(t) = "accepted"
  <2>1. PICK m \in 0..(TimeSize - 1) : AsksFor(t, "time", m)
    BY <1>5 DEF WellFormed
  <2>2. PICK n \in 0..(ZSize - 1) : AsksFor(t, "z", n)
    BY <1>5 DEF WellFormed
  <2>3. \A i \in 1..Len(t) : ~ ForeignKey(t[i])
    BY <1>5 DEF WellFormed, ForeignKey
  <2>4. /\ Positions(t, "time") # {} /\ ~ StoiThrows(Get(t, "time"))
        /\ ~ OutOfRange(Index(Get(t, "time")), TimeSize)
    BY <2>1, <1>1, <1>3, AskedForPasses
  <2>5. /\ Positions(t, "z") # {} /\ ~ StoiThrows(Get(t, "z"))
        /\ ~ OutOfRange(Index(Get(t, "z")), ZSize)
    BY <2>2, <1>1, <1>3, AskedForPasses
  <2> QED
    BY <2>3, <2>4, <2>5 DEF Verdict
<1> QED
  BY <1>2, <1>4, <1>5
=============================================================================
