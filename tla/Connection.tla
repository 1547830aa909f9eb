----------------------------- MODULE Connection -----------------------------
(***************************************************************************)
(* crow::Connection (src/include/crow/http_connection.h) with the parser   *)
(* and the response it owns, on one worker: an event loop that runs one    *)
(* completion handler at a time.  The connections of a worker share its    *)
(* task_timer.  The clients, the clock and the accepting thread act        *)
(* besides.                                                                *)
(*                                                                         *)
(* A handler that feeds the parser is cut into one action per callback of  *)
(* the parser; until it ends no other handler of the worker runs.  What    *)
(* the client sends is chosen when the parser comes to it.                 *)
(***************************************************************************)
EXTENDS Naturals, Sequences, FiniteSets

CONSTANTS
  Conn,          \* connections
  Idle,          \* the worker runs no handler
  Arrival,       \* the requests that clients send, with how their url comes
  Timeout,       \* ticks of a deadline
  Budget,        \* BOUND: the requests of each connection
  MaxId          \* BOUND: the ids issued by the timer between two resets

\* How a url comes: in one read, cut inside its path, cut between the path and
\* the question mark, cut later.
Cut == {"none", "path", "mark", "query"}

\* A request: is it a HEAD, is there a route for its path and method, its version
\* of HTTP (the parser takes any, 0.9 and 2.0 too), does it name a host, what its
\* connection headers ask for, does it expect 100 Continue, does it ask for a
\* protocol other than h2?
RequestForm ==
  [head : BOOLEAN, known : BOOLEAN, version : {"1.1", "1.0", "other"}, host : BOOLEAN,
   conn : SUBSET {"close", "keep"}, expect : BOOLEAN, upgrade : BOOLEAN]

ASSUME ConnectionAssumption ==
  /\ Idle \notin Conn
  /\ Arrival \subseteq [req : RequestForm, cut : Cut]
  /\ Timeout \in Nat
  /\ Budget \in [Conn -> Nat]
  /\ MaxId \in Nat

VARIABLES
  sock,          \* adaptor_: not accepted yet, open or closed
  gone,          \* the clients that have reset their connection
  pending,       \* what waits to be run for a connection: start(), the end of a read
  running,       \* the connection whose handler runs
  feed,          \* its buffer: bytes are left, none is, or the parser has refused them
  parse,         \* parser_.state: start, in a url cut before or in its query, head, body
  complete,      \* parser_.message_complete
  req,           \* req_: the request as the server holds it
  skipBody,      \* res.skip_body
  closing,       \* close_connection_
  taskId,        \* task_id_
  timer,         \* task_timer_
  asked,         \* HISTORY: the requests of each connection and how their url came
  answers,       \* HISTORY: what each client has been sent
  robbed,        \* HISTORY: whose deadline a handler of another connection has erased
  before         \* HISTORY: how many answers each client had been sent before its last read

parserVars == <<feed, parse, complete, req>>
historyVars == <<asked, answers, robbed, before>>
vars == <<sock, gone, pending, running, parserVars, skipBody, closing, taskId, timer,
          historyVars>>

TT == INSTANCE TaskTimer WITH Owner <- Conn

\* req_ after parser_.clear(): a GET without headers, for the tests of handle().
Blank == [head |-> FALSE, known |-> TRUE, version |-> "1.1", host |-> FALSE,
          conn |-> {}, expect |-> FALSE, upgrade |-> FALSE]

Init ==
  /\ sock = [c \in Conn |-> "new"]
  /\ gone = {}
  /\ pending = [c \in Conn |-> "none"]
  /\ running = Idle
  /\ feed = "drained"
  /\ parse = [c \in Conn |-> "start"]
  /\ complete = [c \in Conn |-> FALSE]
  /\ req = [c \in Conn |-> Blank]
  /\ skipBody = [c \in Conn |-> FALSE]
  /\ closing = [c \in Conn |-> FALSE]
  /\ taskId = [c \in Conn |-> 0]
  /\ timer = TT!NewTimer
  /\ asked = [c \in Conn |-> <<>>]
  /\ answers = [c \in Conn |-> <<>>]
  /\ robbed = {}
  /\ before = [c \in Conn |-> 0]

(***************************************************************************)
(* The deadline.                                                           *)
(***************************************************************************)

\* Whose tasks the cancellation of c's id erases besides its own.
Victims(c) ==
  {timer.tasks[i].owner : i \in TT!Ids(timer) \cap {taskId[c]}} \ {c}

\* cancel_deadline_timer.
CancelDeadline(c) ==
  /\ timer' = TT!Cancelled(timer, taskId[c])
  /\ robbed' = (robbed \cup Victims(c)) \ {c}

\* MUTANT of StartDeadline: the deadline that runs is not cancelled.
StartDeadlineAgain(c) ==
  /\ timer' = TT!Scheduled(timer, c)
  /\ taskId' = [taskId EXCEPT ![c] = TT!NextId(timer)]
  /\ robbed' = robbed \ {c}

\* start_deadline: the old id is cancelled before a task is scheduled.
StartDeadline(c) ==
  LET cleared == TT!Cancelled(timer, taskId[c])
  IN  /\ timer' = TT!Scheduled(cleared, c)
      /\ taskId' = [taskId EXCEPT ![c] = TT!NextId(cleared)]
      /\ robbed' = (robbed \cup Victims(c)) \ {c}

\* The clock advances, whatever the worker does.
Elapse ==
  /\ timer # TT!Elapsed(timer)
  /\ timer' = TT!Elapsed(timer)
  /\ UNCHANGED <<sock, gone, pending, running, parserVars, skipBody, closing, taskId,
                 historyVars>>

\* MUTANT of Tick: the task that is due does not close the socket.
TickKeepsSockets ==
  /\ running = Idle
  /\ timer # TT!Processed(timer)
  /\ timer' = TT!Processed(timer)
  /\ UNCHANGED <<sock, gone, pending, running, parserVars, skipBody, closing, taskId,
                 historyVars>>

\* tick_handler, process_tasks and the tasks that start_deadline schedules:
\* the connections whose time has come are closed.  The end of a read that
\* this aborts, or that was already complete, is still to come.
Tick ==
  /\ running = Idle
  /\ timer # TT!Processed(timer)
  /\ timer' = TT!Processed(timer)
  /\ sock' = [c \in Conn |-> IF c \in TT!DueOwners(timer) THEN "closed" ELSE sock[c]]
  /\ UNCHANGED <<gone, pending, running, parserVars, skipBody, closing, taskId, historyVars>>

(***************************************************************************)
(* The connection's life.                                                  *)
(***************************************************************************)

\* The accepting thread posts start() to the worker.
Accept(c) ==
  /\ sock[c] = "new"
  /\ sock' = [sock EXCEPT ![c] = "open"]
  /\ pending' = [pending EXCEPT ![c] = "start"]
  /\ UNCHANGED <<gone, running, parserVars, skipBody, closing, taskId, timer, historyVars>>

\* The client resets the connection.
Reset(c) ==
  /\ sock[c] = "open" /\ c \notin gone
  /\ gone' = gone \cup {c}
  /\ UNCHANGED <<sock, pending, running, parserVars, skipBody, closing, taskId, timer,
                 historyVars>>

\* MUTANT of Start: no deadline before the first read.
StartAtLeisure(c) ==
  /\ running = Idle
  /\ pending[c] = "start"
  /\ pending' = [pending EXCEPT ![c] = "read"]
  /\ UNCHANGED <<sock, gone, running, parserVars, skipBody, closing, taskId, timer,
                 historyVars>>

\* start: the deadline runs and the first read begins.
Start(c) ==
  /\ running = Idle
  /\ pending[c] = "start"
  /\ timer.highest < MaxId
  /\ StartDeadline(c)
  /\ pending' = [pending EXCEPT ![c] = "read"]
  /\ UNCHANGED <<sock, gone, running, parserVars, skipBody, closing, asked, answers, before>>

\* A read ends with bytes.  It may have ended before the deadline closed the
\* socket.  After a message that was not answered feed takes nothing more.
ReadSome(c) ==
  /\ running = Idle
  /\ pending[c] = "read"
  /\ timer.highest < MaxId
  /\ running' = c
  /\ pending' = [pending EXCEPT ![c] = "none"]
  /\ feed' = IF complete[c] THEN "drained" ELSE "bytes"
  /\ before' = [before EXCEPT ![c] = Len(answers[c])]
  /\ UNCHANGED <<sock, gone, parse, complete, req, skipBody, closing, taskId, timer,
                 asked, answers, robbed>>

\* parser_.clear().
Clear(c) ==
  /\ parse' = [parse EXCEPT ![c] = "start"]
  /\ complete' = [complete EXCEPT ![c] = FALSE]
  /\ req' = [req EXCEPT ![c] = Blank]

\* Nothing refers to the connection any longer: it is destroyed, which closes
\* its socket.
Free(c) ==
  /\ sock' = [sock EXCEPT ![c] = "closed"]
  /\ pending' = [pending EXCEPT ![c] = "none"]
  /\ running' = Idle
  /\ feed' = "drained"
  /\ Clear(c)
  /\ skipBody' = [skipBody EXCEPT ![c] = FALSE]
  /\ closing' = [closing EXCEPT ![c] = FALSE]
  /\ taskId' = [taskId EXCEPT ![c] = 0]

\* No read follows: the deadline is cancelled, the handler ends.
Abandon(c) ==
  /\ CancelDeadline(c)
  /\ Free(c)
  /\ UNCHANGED <<gone, asked, answers, before>>

\* A read ends without bytes: the client has ended its side or is gone, or the
\* socket was closed.
ReadError(c) ==
  /\ running = Idle
  /\ pending[c] = "read"
  /\ Abandon(c)

(***************************************************************************)
(* The parser's callbacks.                                                 *)
(***************************************************************************)

Parsing(c) == running = c /\ feed = "bytes"

\* What reaches the client: nothing once the socket is closed or reset; the
\* error of a write is logged and no more.
Sound(c) == sock[c] = "open" /\ c \notin gone
Sent(c, code, body) ==
  answers' = IF Sound(c)
             THEN [answers EXCEPT ![c] = Append(@, [code |-> code, body |-> body])]
             ELSE answers

\* handle_url without a rule: parser_.done() leaves an error in the parser, and
\* complete_request answers.  The text of the status is the body, whatever the
\* method.  (404 stands for the 405 of a wrong method and the 204 of OPTIONS too.)
NotFound(c) ==
  /\ Sent(c, 404, TRUE)
  /\ Clear(c)
  /\ feed' = "refused"
  /\ UNCHANGED skipBody

\* handle_url with a rule: a HEAD's answer will have no body.
Found(c, r, next) ==
  /\ skipBody' = [skipBody EXCEPT ![c] = @ \/ r.head]
  /\ parse' = [parse EXCEPT ![c] = next]
  /\ req' = [req EXCEPT ![c] = r]
  /\ UNCHANGED <<answers, complete>>

\* Is the route found once the url has come to its end?  A question mark at the
\* start of a read is not seen to end the path (qs_point).
FindsRoute(a) == a.req.known /\ a.cut \in {"none", "query"}

\* on_url for all of a url.
OnUrl(c) ==
  /\ Parsing(c) /\ parse[c] = "start"
  /\ Len(asked[c]) < Budget[c]
  /\ \E a \in Arrival :
       /\ a.cut = "none"
       /\ asked' = [asked EXCEPT ![c] = Append(@, a)]
       /\ \/ ~FindsRoute(a) /\ NotFound(c)
          \/ FindsRoute(a) /\ Found(c, a.req, "head") /\ UNCHANGED feed
  /\ UNCHANGED <<sock, gone, pending, running, closing, taskId, timer, robbed, before>>

\* on_url for a url that the end of the read has cut: what there is of the path
\* is looked up.
OnUrlStart(c) ==
  /\ Parsing(c) /\ parse[c] = "start"
  /\ Len(asked[c]) < Budget[c]
  /\ \E a \in Arrival :
       \/ /\ a.cut # "none" /\ (~a.req.known \/ a.cut = "path")
          /\ asked' = [asked EXCEPT ![c] = Append(@, a)]
          /\ NotFound(c)
       \/ /\ a.cut \in {"mark", "query"} /\ a.req.known
          /\ Found(c, a.req, a.cut)
          /\ feed' = "drained"
          /\ UNCHANGED asked
  /\ UNCHANGED <<sock, gone, pending, running, closing, taskId, timer, robbed, before>>

\* on_url for the rest of it, in a later read: the whole is looked up again.
OnUrlRest(c) ==
  /\ Parsing(c) /\ parse[c] \in {"mark", "query"}
  /\ LET a == [req |-> req[c], cut |-> parse[c]]
     IN  /\ asked' = [asked EXCEPT ![c] = Append(@, a)]
         /\ \/ ~FindsRoute(a) /\ NotFound(c)
            \/ FindsRoute(a) /\ Found(c, a.req, "head") /\ UNCHANGED feed
  /\ UNCHANGED <<sock, gone, pending, running, closing, taskId, timer, robbed, before>>

\* MUTANT of AfterContinue: continue_requested is not heeded.
ClearedByContinue(r) == Blank

\* do_write_sync of a 100 Continue: the parser is in the middle of the request
\* and is not cleared.
AfterContinue(r) == r

\* on_headers_complete and handle_header.
OnHeaders(c) ==
  /\ Parsing(c) /\ parse[c] = "head"
  /\ parse' = [parse EXCEPT ![c] = "body"]
  /\ req' = [req EXCEPT ![c] = IF @.version = "1.1" /\ @.expect THEN AfterContinue(@) ELSE @]
  /\ UNCHANGED <<sock, gone, pending, running, feed, complete, skipBody, closing, taskId,
                 timer, historyVars>>

\* The parser meets bytes that are no HTTP.
OnGarbage(c) ==
  /\ Parsing(c)
  /\ feed' = "refused"
  /\ UNCHANGED <<sock, gone, pending, running, parse, complete, req, skipBody, closing,
                 taskId, timer, historyVars>>

(***************************************************************************)
(* on_message_complete and handle().                                       *)
(***************************************************************************)

\* set_connection_parameters: is the connection closed after the answer?
\* A version that is neither 1.0 nor 1.1 never asks for it.
Closes(r) ==
  \/ r.version = "1.1" /\ "close" \in r.conn
  \/ r.version = "1.0" /\ "keep" \notin r.conn

Nameless(r) == r.version = "1.1" /\ ~r.host
Upgrades(r) == r.version = "1.1" /\ r.host /\ r.upgrade

\* What follows a message that asks for an upgrade is not parsed.
GoesOn(c) ==
  IF req[c].upgrade THEN feed' \in {"drained", "refused"} ELSE UNCHANGED feed

\* The message is complete: handle() begins, with cancel_deadline_timer.
Handling(c) ==
  /\ Parsing(c) /\ parse[c] = "body"
  /\ CancelDeadline(c)
  /\ UNCHANGED <<gone, asked, before>>

\* The peer has no address any longer: remote_endpoint throws, out of run(),
\* and nothing refers to the connection any longer.
Handle_Throws(c) ==
  /\ Handling(c)
  /\ ~Sound(c)
  /\ Free(c)
  /\ UNCHANGED answers

\* MUTANT of Addressed: close_connection_ keeps its old value.
AddressedAsBefore(c) ==
  /\ Handling(c)
  /\ sock[c] = "open"
  /\ UNCHANGED <<closing, pending, running, taskId>>

\* The address can be read; close_connection_ is set from the request.
Addressed(c) ==
  /\ Handling(c)
  /\ sock[c] = "open"
  /\ closing' = [closing EXCEPT ![c] = Closes(req[c]) \/ Upgrades(req[c])]
  /\ UNCHANGED <<pending, running, taskId>>

\* An HTTP/1.1 request without a host: complete_request is called without
\* res.end(), so that skip_body stays.
Handle_Nameless(c) ==
  /\ Addressed(c)
  /\ Nameless(req[c])
  /\ Sent(c, 400, TRUE)
  /\ Clear(c)
  /\ GoesOn(c)
  /\ UNCHANGED <<sock, skipBody>>

\* A request for another protocol: no route takes it, res.end() has nobody to
\* call.
Handle_Upgrade(c) ==
  /\ Addressed(c)
  /\ Upgrades(req[c])
  /\ complete' = [complete EXCEPT ![c] = TRUE]
  /\ GoesOn(c)
  /\ UNCHANGED <<sock, parse, req, skipBody, answers>>

\* MUTANT of Handle_Route: res.end() does not reset skip_body.
Handle_RouteKeepsSkipBody(c) ==
  /\ Addressed(c)
  /\ ~Nameless(req[c]) /\ ~Upgrades(req[c])
  /\ \E code \in {200, 500} : Sent(c, code, code = 500 \/ ~skipBody[c])
  /\ Clear(c)
  /\ GoesOn(c)
  /\ UNCHANGED <<sock, skipBody>>

\* The handler of the route answers, and the answer is written at once.  It may
\* have failed: that answer has the text of its status, HEAD or not.
Handle_Route(c) ==
  /\ Addressed(c)
  /\ ~Nameless(req[c]) /\ ~Upgrades(req[c])
  /\ \E code \in {200, 500} : Sent(c, code, code = 500 \/ ~skipBody[c])
  /\ skipBody' = [skipBody EXCEPT ![c] = FALSE]
  /\ Clear(c)
  /\ GoesOn(c)
  /\ UNCHANGED sock

\* The answer is so long that it is streamed: the socket is closed here, not at
\* the end of the read.
Handle_Stream(c) ==
  /\ Addressed(c)
  /\ ~Nameless(req[c]) /\ ~Upgrades(req[c]) /\ ~skipBody[c]
  /\ Sound(c)
  /\ Sent(c, 200, TRUE)
  /\ sock' = IF Closes(req[c]) THEN [sock EXCEPT ![c] = "closed"] ELSE sock
  /\ Clear(c)
  /\ GoesOn(c)
  /\ UNCHANGED skipBody

\* The same to a client that is gone: the write of the headers throws, the
\* router makes it an answer 500 that nobody sends, and the parser keeps the
\* complete message, which the next byte completes again.
Handle_StreamFails(c) ==
  /\ Addressed(c)
  /\ ~Nameless(req[c]) /\ ~Upgrades(req[c]) /\ ~skipBody[c]
  /\ ~Sound(c)
  /\ complete' = [complete EXCEPT ![c] = TRUE]
  /\ GoesOn(c)
  /\ UNCHANGED <<sock, parse, req, skipBody, answers>>

(***************************************************************************)
(* The rest of the completion handler of do_read.                          *)
(***************************************************************************)

\* The buffer is at its end, or refused.  The last callback may leave nothing
\* behind: it is the last byte of a message that completes it.
EndRead(c) ==
  /\ running = c
  /\ \/ /\ feed = "refused" \/ sock[c] = "closed"
        /\ Abandon(c)
     \/ /\ feed # "refused" /\ sock[c] = "open" /\ closing[c]
        /\ Abandon(c)
     \/ /\ feed # "refused" /\ sock[c] = "open" /\ ~closing[c]
        /\ StartDeadline(c)
        /\ pending' = [pending EXCEPT ![c] = "read"]
        /\ running' = Idle
        /\ feed' = "drained"
        /\ UNCHANGED <<sock, gone, parse, complete, req, skipBody, closing, asked, answers,
                       before>>

Next ==
  \/ Elapse
  \/ Tick
  \/ \E c \in Conn :
       \/ Accept(c) \/ Reset(c) \/ Start(c)
       \/ ReadSome(c) \/ ReadError(c) \/ EndRead(c)
       \/ OnUrl(c) \/ OnUrlStart(c) \/ OnUrlRest(c) \/ OnHeaders(c) \/ OnGarbage(c)
       \/ Handle_Throws(c) \/ Handle_Nameless(c) \/ Handle_Upgrade(c)
       \/ Handle_Route(c) \/ Handle_Stream(c) \/ Handle_StreamFails(c)

Spec == Init /\ [][Next]_vars

(***************************************************************************)
(* The loop runs what is posted to it and its timer; a read ends when the  *)
(* socket is closed; a buffer has an end.  Its queue is served in turns,   *)
(* so that what is ready again and again gets its turn.                    *)
(***************************************************************************)
FairSpec ==
  /\ Spec
  /\ WF_vars(Elapse)
  /\ SF_vars(Tick)
  /\ \A c \in Conn :
       /\ SF_vars(Start(c))
       /\ SF_vars(sock[c] = "closed" /\ ReadError(c))
       /\ WF_vars(EndRead(c) \/ Handle_Throws(c))

-----------------------------------------------------------------------------
(***************************************************************************)
(* Properties.                                                             *)
(***************************************************************************)

\* Every variable has its type; the ids of the timer's tasks are among those
\* that it has issued since it was last empty.
TypeOK ==
  /\ sock \in [Conn -> {"new", "open", "closed"}]
  /\ gone \subseteq Conn
  /\ pending \in [Conn -> {"none", "start", "read"}]
  /\ running \in Conn \cup {Idle}
  /\ feed \in {"bytes", "drained", "refused"}
  /\ parse \in [Conn -> {"start", "mark", "query", "head", "body"}]
  /\ complete \in [Conn -> BOOLEAN]
  /\ req \in [Conn -> RequestForm]
  /\ skipBody \in [Conn -> BOOLEAN]
  /\ closing \in [Conn -> BOOLEAN]
  /\ taskId \in [Conn -> Nat]
  /\ TT!IsTimer(timer)
  /\ asked \in [Conn -> Seq(Arrival)]
  /\ answers \in [Conn -> Seq([code : {200, 400, 404, 500}, body : BOOLEAN])]
  /\ robbed \subseteq Conn
  /\ before \in [Conn -> Nat]

Waiting(c) == pending[c] = "read" /\ sock[c] = "open"

\* A connection has no deadline but the one that it can cancel, and a deadline
\* never outlives the socket that it would close (start_deadline cancels before
\* it schedules; every path that closes a socket cancels).
OneDeadline ==
  /\ \A c \in Conn : TT!TasksOf(timer, c) \subseteq {taskId[c]}
  /\ \A i \in TT!Ids(timer) : sock[timer.tasks[i].owner] = "open"

\* A connection that waits for its client has a deadline, unless another
\* connection has erased it.
DeadlineUnlessRobbed ==
  \A c \in Conn : Waiting(c) => TT!TasksOf(timer, c) # {} \/ c \in robbed

\* app.h says of the timeout that it is the connection's.  VIOLATED by the code:
\* the ids of a worker's timer start again once it has no task, a connection
\* that its deadline has closed still cancels its old id when its read ends, and
\* that id can be that of a newer connection.
WaitingHasDeadline == \A c \in Conn : Waiting(c) => TT!TasksOf(timer, c) # {}

\* The id by which a connection erases the deadline of another is one that it
\* has itself lost: its own deadline has closed it, or was erased before.
OnlyStaleIdsRob ==
  [][\A v \in robbed' \ robbed :
       \E r \in Conn \ {v} : /\ taskId[r] \in TT!TasksOf(timer, v)
                            /\ (sock[r] = "closed" \/ r \in robbed)]_vars

\* While a connection waits, what becomes of the others does not put its deadline
\* off: from each moment to the next it keeps its task, with no more time than
\* before, unless another has erased it; and the task goes only with the socket.
DeadlineNotPutOff ==
  [][\A c \in Conn : Waiting(c) /\ Waiting(c)' /\ c \notin robbed' =>
       \E i \in TT!TasksOf(timer, c) \cap TT!TasksOf(timer', c) :
         timer'.tasks[i].left <= timer.tasks[i].left]_vars

\* The body of an answer is left out for a request other than a HEAD only where
\* a HEAD over HTTP/1.1 without a host came before it on the connection, with
\* nothing but answers 400 between: skip_body outlives the answer that
\* complete_request sends without res.end().
BodyLostOnlyToBareHead ==
  \A c \in Conn : \A i \in DOMAIN answers[c] :
    ~answers[c][i].body /\ ~asked[c][i].req.head =>
      \E j \in 1 .. i - 1 : /\ asked[c][j].req.head
                            /\ \A k \in j .. i - 1 : answers[c][k].code = 400

\* What a client asks for: the close header, and HTTP/1.0 unless it asks for the
\* opposite.
AsksToClose(r) == IF r.version = "1.0" THEN "keep" \notin r.conn ELSE "close" \in r.conn

\* Does the connection survive the request r?  It does when r does not ask for the
\* close, and when its version is neither 1.0 nor 1.1.
Survives(r) == r.version = "other" \/ ~AsksToClose(r)

\* A client that asked for the connection to be closed, and was answered, is
\* waited for only if a request that the connection survives was answered too, in
\* the same read and not before it: close_connection_ is set by every request of a
\* read and looked at once, at its end.  It outlives no read and is lost on no
\* other path, however requests, errors and reads interleave.
NoWaitAfterClose ==
  \A c \in Conn : Waiting(c) /\ c \notin gone =>
    \A i \in before[c] + 1 .. Len(answers[c]) :
      AsksToClose(asked[c][i].req) =>
        \E j \in i .. Len(answers[c]) : Survives(asked[c][j].req)

\* The status codes that may answer a request whose route is found.
Codes(a) == IF Nameless(a.req) THEN {400} ELSE IF Upgrades(a.req) THEN {} ELSE {200, 500}
Unrouted(a) == ~FindsRoute(a)
Sounding == {c \in Conn : sock[c] # "closed" /\ c \notin gone}
SentCodes == [c \in Conn |-> [i \in DOMAIN answers[c] |-> answers[c][i].code]]

Exchange ==
  INSTANCE HttpExchange WITH
    Refused <- Unrouted, Allowed <- Codes, answers <- SentCodes, sound <- Sounding

\* Whatever the reads cut and however handlers, deadlines and resets interleave,
\* requests are taken one at a time, each is given at most one answer before the
\* next is taken, of a kind that it allows, and one without a route is the last.
KeepsExchange == Exchange!ExchangeSpec

\* A client that sends nothing more is dropped, unless the deadline of its
\* connection has been erased by another's.
SilentClientIsDropped ==
  \A c \in Conn : Waiting(c) ~> ~Waiting(c) \/ c \in robbed
=============================================================================
