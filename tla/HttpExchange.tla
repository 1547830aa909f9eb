---------------------------- MODULE HttpExchange ----------------------------
(***************************************************************************)
(* What a connection promises its client, with the parser, the buffers and *)
(* the event loop left out: requests are taken one at a time, each is      *)
(* given at most one answer, before the next is taken and of a kind that   *)
(* the request allows; a request that is not given one is the last that    *)
(* is, and so is one that is refused.                                      *)
(***************************************************************************)
EXTENDS Naturals, Sequences

CONSTANTS Conn,          \* the connections
          Arrival,       \* the requests, with how they reach the server
          Refused(_),    \* is this one refused before it is read to its end?
          Allowed(_)     \* the status codes that may answer a request that is not

VARIABLES asked,         \* the requests of each connection, in order
          answers,       \* their answers
          sound          \* the connections that can still be written to

exchangeVars == <<asked, answers, sound>>

ExchangeInit ==
  /\ asked = [c \in Conn |-> <<>>]
  /\ answers = [c \in Conn |-> <<>>]
  /\ sound = Conn

\* Nothing is owed to the client, or nothing can be sent to it.
Settled(c) == c \in sound => Len(answers[c]) = Len(asked[c])

\* Nothing has been refused.
Welcome(c) == \A i \in 1 .. Len(asked[c]) : ~Refused(asked[c][i])

\* A request is taken.
Ask(c, a) ==
  /\ Settled(c) /\ Welcome(c)
  /\ ~Refused(a)
  /\ asked' = [asked EXCEPT ![c] = Append(@, a)]
  /\ UNCHANGED <<answers, sound>>

\* A request is taken and refused at once, or what is owed an answer is
\* refused when more of it has come.
Refuse(c, a) ==
  /\ Settled(c) /\ Welcome(c)
  /\ Refused(a)
  /\ asked' = [asked EXCEPT ![c] = Append(@, a)]
  /\ answers' = IF c \in sound THEN [answers EXCEPT ![c] = Append(@, 404)] ELSE answers
  /\ UNCHANGED sound

\* The request that is owed an answer gets one, and may be the last that does.
Answer(c) ==
  /\ c \in sound
  /\ Len(answers[c]) + 1 = Len(asked[c])
  /\ \E code \in Allowed(asked[c][Len(asked[c])]) :
       answers' = [answers EXCEPT ![c] = Append(@, code)]
  /\ sound' \in {sound, sound \ {c}}
  /\ UNCHANGED asked

\* Clients go, or the server closes connections.
Break(some) ==
  /\ sound' = sound \ some
  /\ UNCHANGED <<asked, answers>>

ExchangeNext ==
  \/ \E c \in Conn :
       \/ \E a \in Arrival : Ask(c, a) \/ Refuse(c, a)
       \/ Answer(c)
  \/ \E some \in SUBSET sound : Break(some)

ExchangeSpec == ExchangeInit /\ [][ExchangeNext]_exchangeVars
=============================================================================
