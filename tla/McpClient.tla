------------------------------ MODULE McpClient ------------------------------
(***************************************************************************)
(* Calls of the tools of a configured MCP server over its standard input   *)
(* and output: StdioMcpTransport and McpClient.call of adapters/mcp.py.    *)
(* A call lists the tools again and, if they are the ones the owner        *)
(* granted, sends its own request.  Requests are tasks of their own; an id *)
(* finds the request an answer belongs to.  The server reads, answers in   *)
(* any order, answers what was given up, writes nonsense or exits.         *)
(***************************************************************************)
EXTENDS Naturals, FiniteSets

CONSTANTS
    Callers,        \* tool calls of one behaviour, each makes two requests
    MaxAnswers      \* bound: answers the server writes

VARIABLES
    server,         \* "running" or "exited"
    reader,         \* the task _read_responses: "reading" or "ended"
    nextId,         \* _next_id
    pending,        \* _pending: the request that waits for an id
    writer,         \* the request that holds _write_lock, or <<>>
    requests,       \* the requests, by caller and step
    calls,          \* where each call is
    inbox,          \* lines the server has read: ids and what they ask for
    outbox,         \* lines the server has written and the reader has not read
    toolsChanged,   \* the server's tool list is no longer the granted one
    answers         \* how many answers were written

mcpVars == <<server, reader, nextId, pending, writer, requests, calls, inbox,
             outbox, toolsChanged, answers>>

Steps == {"list", "call"}
Requests == Callers \X Steps
NotMade == [at |-> "none", id |-> 0, got |-> <<>>]

McpInit ==
    /\ server = "running" /\ reader = "reading" /\ nextId = 0
    /\ pending = <<>> /\ writer = <<>>
    /\ requests = [r \in Requests |-> NotMade]
    /\ calls = [c \in Callers |-> "idle"]
    /\ inbox = {} /\ outbox = {} /\ toolsChanged = FALSE /\ answers = 0

At(r, at) == requests[r].at = at
To(r, at) == requests' = [requests EXCEPT ![r].at = at]
callVars == <<calls, toolsChanged, answers>>
pipes == <<inbox, outbox>>

\* pending is a function whose domain is the ids in use.
With(p, id, r) == [i \in DOMAIN p \cup {id} |-> IF i = id THEN r ELSE p[i]]
Without(p, id) == [i \in DOMAIN p \ {id} |-> p[i]]

-----------------------------------------------------------------------------
(* StdioMcpTransport.request *)

FreshId_CountsPending == Cardinality(DOMAIN pending) + 1
FreshId == nextId + 1

Request(r) ==
    /\ At(r, "none")
    /\ nextId' = FreshId
    /\ pending' = With(pending, FreshId, r)
    /\ requests' = [requests EXCEPT ![r].at = "lock", ![r].id = FreshId]

\* Whoever waits for a request of the call c was told to stop.
Cancelled(r) == calls[r[1]] = "cancelled"

\* _send writes the line when it has the lock and holds it while it drains,
\* which takes until the server reads.
Write(r) ==
    /\ At(r, "lock") /\ writer = <<>> /\ server = "running" /\ ~Cancelled(r)
    /\ writer' = r /\ To(r, "drain")
    /\ inbox' = inbox \cup {[id |-> requests[r].id, of |-> r]}
    /\ UNCHANGED <<server, reader, nextId, pending, callVars, outbox>>

Drained(r) ==
    /\ At(r, "drain") /\ server = "running" /\ ~Cancelled(r)
    /\ writer' = <<>> /\ To(r, "wait")
    /\ UNCHANGED <<server, reader, nextId, pending, callVars, pipes>>

\* A broken pipe, or the cancelled task (the executor's deadline cancels one
\* that lists), leaves _send; the entry in _pending stays, because it is made
\* before the try whose finally takes it out.
SendFails(r) ==
    /\ requests[r].at \in {"lock", "drain"}
    /\ server = "exited" \/ Cancelled(r) \/ r[2] = "list"
    /\ writer' = IF writer = r THEN <<>> ELSE writer
    /\ To(r, "failed")
    /\ UNCHANGED <<server, reader, nextId, pending, callVars, pipes>>

Resolved(r) == requests[r].got # <<>>

\* The future is done, with a result or an exception.
Returns(r) ==
    /\ At(r, "wait") /\ Resolved(r)
    /\ To(r, IF requests[r].got = <<"error">> THEN "failed" ELSE "done")
    /\ pending' = Without(pending, requests[r].id)
    /\ UNCHANGED <<server, reader, nextId, writer, callVars, pipes>>

\* asyncio.timeout or a cancelled task ends the wait: the server is told,
\* unless it has exited, and the entry is taken out afterwards.
GiveUp(r) ==
    /\ At(r, "wait") /\ ~Resolved(r)
    /\ To(r, "notify")
    /\ UNCHANGED <<server, reader, nextId, pending, writer, callVars, pipes>>

Notified(r) ==
    /\ At(r, "notify") /\ writer = <<>>
    /\ To(r, "failed")
    /\ pending' = Without(pending, requests[r].id)
    /\ UNCHANGED <<server, reader, nextId, writer, callVars, pipes>>

-----------------------------------------------------------------------------
(* _read_responses *)

\* An answer resolves the future its id finds, if that still waits.
Deliver(a) ==
    IF a.id \in DOMAIN pending /\ ~Resolved(pending[a.id])
    THEN requests' = [requests EXCEPT ![pending[a.id]].got = a.of]
    ELSE UNCHANGED requests

ReadAnswer(a) ==
    /\ reader = "reading" /\ a \in outbox
    /\ outbox' = outbox \ {a} /\ Deliver(a)
    /\ UNCHANGED <<server, reader, nextId, pending, writer, callVars, inbox>>

\* Malformed data or the end of the file: whoever waits is told, and nothing
\* reads any more.
ReaderEnds ==
    /\ reader = "reading" /\ reader' = "ended"
    /\ requests' = [r \in Requests |->
           IF /\ requests[r].id \in DOMAIN pending /\ pending[requests[r].id] = r
              /\ ~Resolved(r)
           THEN [requests[r] EXCEPT !.got = <<"error">>] ELSE requests[r]]
    /\ UNCHANGED <<server, nextId, pending, writer, callVars, pipes>>

-----------------------------------------------------------------------------
(* McpClient.call *)

StartCall(c) ==
    /\ calls[c] = "idle"
    /\ calls' = [calls EXCEPT ![c] = "listing"]
    /\ Request(<<c, "list">>)
    /\ UNCHANGED <<server, reader, writer, toolsChanged, answers, pipes>>

\* The digest of the list that came back is the granted one, or the call ends.
ListReturns(c) ==
    /\ calls[c] = "listing" /\ requests[<<c, "list">>].at \in {"done", "failed"}
    /\ IF At(<<c, "list">>, "done") /\ ~toolsChanged
       THEN calls' = [calls EXCEPT ![c] = "calling"] /\ Request(<<c, "call">>)
       ELSE calls' = [calls EXCEPT ![c] = "failed"]
            /\ UNCHANGED <<nextId, pending, requests>>
    /\ UNCHANGED <<server, reader, writer, toolsChanged, answers, pipes>>

CallReturns(c) ==
    /\ calls[c] \in {"calling", "cancelled"}
    /\ requests[<<c, "call">>].at \in {"done", "failed"}
    /\ calls' = [calls EXCEPT ![c] =
           IF @ = "calling" /\ At(<<c, "call">>, "done") THEN "answered" ELSE "failed"]
    /\ UNCHANGED <<server, reader, nextId, pending, writer, requests, toolsChanged,
                   answers, pipes>>

\* The token is only watched while the call's own request runs.
CancelCall(c) ==
    /\ calls[c] = "calling"
    /\ calls' = [calls EXCEPT ![c] = "cancelled"]
    /\ requests' = [requests EXCEPT ![<<c, "call">>].at = IF @ = "wait" THEN "notify" ELSE @]
    /\ UNCHANGED <<server, reader, nextId, pending, writer, toolsChanged, answers, pipes>>

\* The executor's deadline cancels the call itself: nobody waits for its
\* request, which goes on.
Abandon(c) ==
    /\ calls[c] = "calling" /\ calls' = [calls EXCEPT ![c] = "failed"]
    /\ UNCHANGED <<server, reader, nextId, pending, writer, requests, toolsChanged,
                   answers, pipes>>

-----------------------------------------------------------------------------
(* The server *)

ServerAnswers(m) ==
    /\ server = "running" /\ m \in inbox /\ answers < MaxAnswers
    /\ inbox' = inbox \ {m} /\ outbox' = outbox \cup {m}
    /\ answers' = answers + 1
    /\ UNCHANGED <<server, reader, nextId, pending, writer, requests, calls, toolsChanged>>

ServerChangesTools ==
    /\ server = "running" /\ ~toolsChanged /\ toolsChanged' = TRUE
    /\ UNCHANGED <<server, reader, nextId, pending, writer, requests, calls, answers, pipes>>

ServerExits ==
    /\ server = "running" /\ server' = "exited"
    /\ UNCHANGED <<reader, nextId, pending, writer, requests, callVars, pipes>>

-----------------------------------------------------------------------------
RequestStep(r) ==
    Write(r) \/ Drained(r) \/ SendFails(r) \/ Returns(r) \/ GiveUp(r) \/ Notified(r)

McpNext ==
    \/ \E r \in Requests : RequestStep(r)
    \/ \E a \in outbox : ReadAnswer(a)
    \/ ReaderEnds
    \/ \E c \in Callers : StartCall(c) \/ ListReturns(c) \/ CallReturns(c) \/ CancelCall(c) \/ Abandon(c)
    \/ \E m \in inbox : ServerAnswers(m)
    \/ ServerChangesTools \/ ServerExits

McpSpec == McpInit /\ [][McpNext]_mcpVars

-----------------------------------------------------------------------------
\* A request is only resolved by the answer to itself, however late the answers
\* to requests that were given up before it arrive (ids of
\* StdioMcpTransport.request and their lookup in _read_responses), and nobody
\* keeps the write lock that no longer writes.
AnswersFindTheirRequest ==
    /\ \A r \in Requests : requests[r].got \in {<<>>, <<"error">>, r}
    /\ writer # <<>> => At(writer, "drain")

-----------------------------------------------------------------------------
(* The inductive invariant of the requests                                  *)

RequestTypes ==
    /\ nextId \in Nat /\ writer \in {<<>>} \cup Requests
    /\ calls \in [Callers -> {"idle", "listing", "calling", "cancelled", "answered", "failed"}]
    /\ requests \in [Requests ->
          [at : {"none", "lock", "drain", "wait", "notify", "done", "failed"}, id : Nat,
           got : {<<>>, <<"error">>} \cup Requests]]

\* Every request that was made has an id of its own, no later one than the last
\* that was drawn.
IdsAreOwn ==
    \A r \in Requests :
        /\ requests[r].id <= nextId
        /\ At(r, "none") <=> requests[r].id = 0
        /\ \A q \in Requests : requests[q].id = requests[r].id /\ requests[r].id # 0 => q = r

\* Wherever an id is met, it is that of the request it is about.
IdsAreTrue ==
    /\ \A id \in DOMAIN pending : /\ pending[id] \in Requests /\ id # 0
                                  /\ requests[pending[id]].id = id
    /\ \A m \in inbox \cup outbox : m.of \in Requests /\ requests[m.of].id = m.id /\ m.id # 0

\* A call makes its own request once its tools are listed.
CallsAreMadeLater ==
    \A c \in Callers : /\ calls[c] = "idle" => At(<<c, "list">>, "none")
                       /\ calls[c] \in {"idle", "listing"} => At(<<c, "call">>, "none")

RequestsInv ==
    RequestTypes /\ IdsAreOwn /\ IdsAreTrue /\ CallsAreMadeLater /\ AnswersFindTheirRequest
=============================================================================
