---------------------------- MODULE RequestCheck ----------------------------
(***************************************************************************)
(* One thread validates one request target after another.  timeIndex and   *)
(* zIndex are thread_local: a request finds what the last one left there.  *)
(***************************************************************************)
EXTENDS RequestParams

CONSTANT Target    \* the request targets that are sent

ASSUME TargetAssumption ==
  \A t \in Target :
    /\ t \in Seq(Pair)
    /\ \A i \in 1..Len(t) : \A m, n \in t[i].value : m = n

VARIABLES target,        \* the request that is being answered
          verdict,       \* what validateRequestParameters said of it, or "none"
          timeIndex,     \* thread_local timeIndex_
          zIndex,        \* thread_local zIndex_
          responseCode   \* thread_local responseCode_

checkVars == <<target, verdict, timeIndex, zIndex, responseCode>>

CheckInit ==
  /\ target = <<>>
  /\ verdict = "none"
  /\ timeIndex = 0
  /\ zIndex = 0
  /\ responseCode = 200

\* validateRequestParameters on a request.
Validate(t) ==
  /\ verdict = "none"
  /\ LET pairs == Pairs(t) IN
       /\ target' = t
       /\ verdict' = Verdict(pairs)
       /\ timeIndex' = IF AssignsTime(pairs) THEN Index(Get(pairs, "time")) ELSE timeIndex
       /\ zIndex' = IF AssignsZ(pairs) THEN Index(Get(pairs, "z")) ELSE zIndex
       /\ responseCode' = IF Verdict(pairs) = "FAIL_STOI" THEN 500 ELSE responseCode

\* The handler goes on, or answers the error; the request is over.
Finish ==
  /\ verdict # "none"
  /\ verdict' = "none"
  /\ target' = <<>>
  /\ UNCHANGED <<timeIndex, zIndex, responseCode>>

CheckNext == Finish \/ \E t \in Target : Validate(t)

CheckSpec == CheckInit /\ [][CheckNext]_checkVars

-----------------------------------------------------------------------------
CheckTypeOK ==
  /\ target \in Seq(Pair)
  /\ verdict \in Verdicts \cup {"none"}
  /\ timeIndex \in 0..(2 * IntHalf - 1)
  /\ zIndex \in 0..(2 * IntHalf - 1)
  /\ responseCode \in {200, 500}

\* An accepted request is answered for the indices it asks for: the first time
\* and the first z that are written in it, unwrapped and inside the file, and
\* not for what an earlier request left in the thread_local variables.
AcceptedIsWhatWasAsked ==
  verdict = "accepted" =>
    /\ AsksFor(target, "time", timeIndex) /\ timeIndex < TimeSize
    /\ AsksFor(target, "z", zIndex) /\ zIndex < ZSize

\* A request is accepted exactly when it is well-formed, for requests of at most
\* MaxPairs parameters.
AcceptsExactlyWellFormed ==
  verdict # "none" /\ Len(target) <= MaxPairs =>
    (verdict = "accepted" <=> WellFormed(target))

\* netcdf_server.cpp:532 "reject request if any other parameters are included".
OtherParametersRejected ==
  verdict = "accepted" => \A i \in 1..Len(target) : ~ ForeignKey(target[i])
=============================================================================
