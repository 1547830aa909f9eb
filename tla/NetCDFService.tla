---------------------------- MODULE NetCDFService ---------------------------
(***************************************************************************)
(* What the server promises its clients, with the cache, the renderer, the *)
(* files, the locks and the thread_local data left out: a thread takes one *)
(* request at a time and gives it one reply, of the kind that was asked    *)
(* for or an error, whose status is that thread's own.                     *)
(***************************************************************************)
EXTENDS RequestParams

CONSTANTS Worker,    \* the threads that requests are handled on
          Target     \* the request targets that are sent

VARIABLES asked,     \* the request that each thread is at: {request}, or {}
          reply,     \* the reply that each thread gave last: {response}, or {}
          spoiled    \* the threads whose status is 500 from now on

serviceVars == <<asked, reply, spoiled>>

Slice == (0..(TimeSize - 1)) \X (0..(ZSize - 1))
Response == [code : {200, 500}, body : {"info", "data", "png", "error"},
             slices : SUBSET Slice]

ServiceInit ==
  /\ asked = [w \in Worker |-> {}]
  /\ reply = [w \in Worker |-> {}]
  /\ spoiled = {}

\* The status of a thread, which one failure spoils for good.
Status(w) == IF w \in spoiled' THEN 500 ELSE 200

\* Metadata, or one slice as data or as a picture: the slice that a well-formed
\* request asks for.
Fulfils(request, response) ==
  \/ /\ request.route = "/get-info"
     /\ response.body = "info" /\ response.slices = {}
  \/ /\ \/ request.route = "/get-data" /\ response.body = "data"
        \/ request.route = "/get-image" /\ response.body = "png"
     /\ Len(request.target) <= MaxPairs => WellFormed(request.target)
     /\ \E slice \in Slice : /\ response.slices = {slice}
                             /\ AsksForSlice(request.target, slice)

\* A thread takes a request.
Take(w, request) ==
  /\ asked[w] = {}
  /\ asked' = [asked EXCEPT ![w] = {request}]
  /\ UNCHANGED <<reply, spoiled>>

\* /get-info with a query is refused at once.
Refuse(w) ==
  /\ asked[w] = {}
  /\ reply' = [reply EXCEPT ![w] =
                 {[code |-> Status(w), body |-> "error", slices |-> {}]}]
  /\ UNCHANGED <<asked, spoiled>>

\* Reading the metadata fails; the error is the reply, or another's metadata.
Spoil(w) ==
  /\ \E request \in asked[w] : request.route = "/get-info"
  /\ spoiled' = spoiled \cup {w}
  /\ UNCHANGED <<asked, reply>>

Answer(w, response) ==
  /\ asked' = [asked EXCEPT ![w] = {}]
  /\ reply' = [reply EXCEPT ![w] = {response}]

\* The request is fulfilled: pictures have status 200 whatever came before.
Fulfil(w, response) ==
  /\ \E request \in asked[w] : Fulfils(request, response)
  /\ response.code = IF response.body = "png" THEN 200 ELSE Status(w)
  /\ Answer(w, response)
  /\ UNCHANGED spoiled

\* The request is answered with an error, which may spoil the thread's status;
\* Crow's own answer to an exception is 500 and does not.
Fail(w, response) ==
  /\ asked[w] # {}
  /\ response.body = "error" /\ response.slices = {}
  /\ response.code \in {Status(w), 500}
  /\ Answer(w, response)
  /\ spoiled' \in {spoiled, spoiled \cup {w}}

ServiceNext ==
  \E w \in Worker :
    \/ Take(w, [route |-> "/get-info", target |-> <<>>])
    \/ \E r \in {"/get-data", "/get-image"}, t \in Target :
         Take(w, [route |-> r, target |-> t])
    \/ Refuse(w)
    \/ Spoil(w)
    \/ \E response \in Response : Fulfil(w, response) \/ Fail(w, response)

ServiceSpec == ServiceInit /\ [][ServiceNext]_serviceVars
=============================================================================
