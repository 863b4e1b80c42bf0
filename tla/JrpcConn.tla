------------------------------ MODULE JrpcConn ------------------------------
(***************************************************************************)
(* One authenticated client of the management API: the calls in progress   *)
(* on a jsonrpc2.Conn (lib/jsonrpc2/jsonrpc2.go), the httpStream below it  *)
(* (lib/jrpc/jrpc.go), the token source it logs in with (lib/jrpc/auth.go) *)
(* and the goroutine of Conn.Run that hands each reply to its call.        *)
(*                                                                         *)
(* A call posts its request, copies the body of the HTTP response through  *)
(* a pipe to Run, and waits on a channel of its own for Run to send the    *)
(* decoded response back.  All calls copy through the one buffer of the    *)
(* stream, httpStream.buf.  A request is known by its id, the element of   *)
(* Call, and so are the bytes of the response to it and the answer in it;  *)
(* what is asked and what is answered are left out.                        *)
(***************************************************************************)
EXTENDS Integers

CONSTANTS
    Call,               \* the calls made on the client
    Nothing,            \* an empty channel
    MaxRetries,         \* bound: times the server asks for a retry
    MaxChunks,          \* bound: times the buffer is filled for one response
    LoginAnswered,      \* whether every login is answered
    MayClose,           \* whether BaseClient.Close may be called
    MayCancel           \* whether the context the client was built with may be cancelled

ASSUME CallAssumption == Nothing \notin Call
ASSUME BoundAssumption ==
    /\ MaxRetries \in Nat /\ MaxChunks \in Nat
    /\ {LoginAnswered, MayClose, MayCancel} \subseteq BOOLEAN

VARIABLES
    pc,         \* where each call is
    result,     \* how each call ended
    timedOut,   \* calls whose request timeout has passed
    retries,    \* retries asked for
    executed,   \* requests the server has executed
    pending,    \* Conn.pending: the calls registered for a response
    rchan,      \* the response channel of each call, of capacity one
    replies,    \* httpStream.replies: the pipe waiting for Run, of capacity one
    buf,        \* httpStream.buf: the calls whose bytes it holds
    closed,     \* pipes closed by their writer
    reader,     \* the goroutine of Conn.Run
    token,      \* whether the oauth2 client holds a valid token
    login,      \* the call that holds the lock of the token source
    client,     \* "open", "closed" by Close, or "cancelled" by its parent context
    overwritten \* history: calls whose bytes were overwritten before Run had them

vars == <<pc, result, timedOut, retries, executed, pending, rchan, replies, buf, closed,
          reader, token, login, client, overwritten>>

-----------------------------------------------------------------------------
(*   new        not made yet                                               *)
(*   write      registered, at the head of the loop of httpStream.Write    *)
(*   token      waits for the lock of the token source                     *)
(*   login      asks for a token                                           *)
(*   post       its request is on the way to the server                    *)
(*   served     the server has executed it                                 *)
(*   offer      has a response, offers its pipe to Run                     *)
(*   copy       reads the body of the response into buf                    *)
(*   pipe       blocked writing buf into the pipe                          *)
(*   wait       waits for Run to send the decoded response                 *)
(*   failed     could not read the body, about to return                   *)
(*   done       has returned                                               *)

Place == {"new", "write", "token", "login", "post", "served", "offer", "copy", "pipe",
          "wait", "failed", "done"}

InProgress(c) == pc[c] \notin {"new", "done"}

\* The context of a call ends with its timeout or with the parent context; Close
\* ends only the context of the client.
CtxDone(c) == c \in timedOut \/ client = "cancelled"

Goto(c, place) == pc' = [pc EXCEPT ![c] = place]

\* A call returns: its deferred function removes it from pending.
Return(c, how) ==
    /\ Goto(c, "done")
    /\ result' = [result EXCEPT ![c] = how]
    /\ pending' = pending \ {c}

callVars == <<result, pending>>
copyVars == <<buf, overwritten>>
streamVars == <<replies, closed, reader, rchan, copyVars>>
clientVars == <<token, login, client>>
serverVars == <<retries, executed>>

-----------------------------------------------------------------------------
(* Conn.Call and httpStream.Write.                                         *)

Register(c) ==
    /\ pc[c] = "new"
    /\ Goto(c, "write")
    /\ pending' = pending \cup {c}
    /\ UNCHANGED <<result, timedOut, streamVars, clientVars, serverVars>>

\* The loop of Write gives up when the context is done, else does a RoundTrip,
\* which needs a token.
WriteGivesUp(c) ==
    /\ pc[c] = "write" /\ CtxDone(c)
    /\ Return(c, "failed")
    /\ UNCHANGED <<timedOut, streamVars, clientVars, serverVars>>

RoundTrip(c) ==
    /\ pc[c] = "write" /\ ~CtxDone(c)
    /\ Goto(c, "token")
    /\ UNCHANGED <<callVars, timedOut, streamVars, clientVars, serverVars>>

\* ReuseTokenSource: under its lock, the token is reused while it is valid.
TakeToken(c) ==
    /\ pc[c] = "token" /\ login = Nothing
    /\ IF token THEN Goto(c, "post") /\ UNCHANGED login
                ELSE Goto(c, "login") /\ login' = c
    /\ UNCHANGED <<callVars, timedOut, streamVars, token, client, serverVars>>

\* Mutant: the lock of the token source is kept.
LoginSucceeds_KeepsLock(c) ==
    /\ pc[c] = "login"
    /\ token' = TRUE
    /\ Goto(c, "post")
    /\ UNCHANGED <<callVars, timedOut, streamVars, login, client, serverVars>>

\* tokenSource.Token calls user_login or user_refresh_token under the context of
\* the client, which has no deadline.
LoginSucceeds(c) ==
    /\ pc[c] = "login"
    /\ login' = Nothing /\ token' = TRUE
    /\ Goto(c, "post")
    /\ UNCHANGED <<callVars, timedOut, streamVars, client, serverVars>>

LoginFails(c) ==
    /\ pc[c] = "login"
    /\ login' = Nothing
    /\ Return(c, "failed")
    /\ UNCHANGED <<timedOut, streamVars, token, client, serverVars>>

\* The server executes a request; its answer may get lost.
Serve(c) ==
    /\ pc[c] = "post"
    /\ executed' = executed \cup {c}
    /\ Goto(c, "served")
    /\ UNCHANGED <<callVars, timedOut, streamVars, clientVars, retries>>

\* 200, 201 or 202.
Answered(c) ==
    /\ pc[c] = "served"
    /\ Goto(c, "offer")
    /\ UNCHANGED <<callVars, timedOut, streamVars, clientVars, serverVars>>

\* 500, 502 or 503, whether the request was executed or not: Write tries again.
RetryAsked(c) ==
    /\ pc[c] \in {"post", "served"}
    /\ retries < MaxRetries
    /\ retries' = retries + 1
    /\ Goto(c, "write")
    /\ UNCHANGED <<callVars, timedOut, streamVars, clientVars, executed>>

\* Another status, a refused or lost connection, or a context that is done.
PostFails(c) ==
    /\ pc[c] \in {"post", "served"}
    /\ Return(c, "failed")
    /\ UNCHANGED <<timedOut, streamVars, clientVars, serverVars>>

\* The pipe is handed to Run if there is room for it, unless the context is done:
\* with both, either happens.
Offer(c) ==
    /\ pc[c] = "offer" /\ replies = Nothing
    /\ replies' = c
    /\ Goto(c, "copy")
    /\ UNCHANGED <<callVars, timedOut, closed, reader, rchan, copyVars, clientVars, serverVars>>

OfferGivesUp(c) ==
    /\ pc[c] = "offer" /\ CtxDone(c)
    /\ Return(c, "failed")
    /\ UNCHANGED <<timedOut, streamVars, clientVars, serverVars>>

\* How much of the body of c has gone through its pipe.
Handed(c) == IF reader.of = c THEN reader.chunks ELSE 0

\* io.CopyBuffer(w, resp.Body, h.buf[:]).  Part of the body is read into the buffer, from
\* its start on.  A call blocked in its pipe has bytes of its own there, which it has
\* not handed over: the new ones are written over them, and when the two reads overlap
\* in time bytes of both remain.
ReadBody(c) ==
    /\ pc[c] = "copy" /\ Handed(c) < MaxChunks
    /\ LET others == {d \in Call \ {c} : pc[d] = "pipe"}
       IN  /\ overwritten' = overwritten \cup others
           /\ \E left \in SUBSET (others \cap buf) : buf' = {c} \cup left
    /\ Goto(c, "pipe")
    /\ UNCHANGED <<callVars, timedOut, replies, closed, reader, rchan, clientVars, serverVars>>

\* A write to the pipe ends only when Run reads it.  What Run gets is what the buffer
\* then holds, up to the length this call has read.
Piped(c) ==
    /\ pc[c] = "pipe" /\ reader.at = "read" /\ reader.of = c
    /\ \E part \in SUBSET buf \ {{}} :
           reader' = [reader EXCEPT !.got = @ \cup part, !.chunks = @ + 1]
    /\ Goto(c, "copy")
    /\ UNCHANGED <<callVars, timedOut, replies, closed, rchan, copyVars, clientVars, serverVars>>

\* The end of the body: the deferred w.Close ends the pipe.
BodyEnds(c) ==
    /\ pc[c] = "copy"
    /\ closed' = closed \cup {c}
    /\ Goto(c, "wait")
    /\ UNCHANGED <<callVars, timedOut, replies, reader, rchan, copyVars, clientVars, serverVars>>

\* Mutant: the pipe is left open when the body cannot be read.
BodyFails_PipeOpen(c) ==
    /\ pc[c] = "copy"
    /\ Goto(c, "failed")
    /\ UNCHANGED <<callVars, timedOut, streamVars, clientVars, serverVars>>

\* Reading the body fails, for the context or the connection.  w.Close ends the pipe
\* here too, and to Run that looks like the end of the body.
BodyFails(c) ==
    /\ pc[c] = "copy"
    /\ closed' = closed \cup {c}
    /\ Goto(c, "failed")
    /\ UNCHANGED <<callVars, timedOut, replies, reader, rchan, copyVars, clientVars, serverVars>>

WriteFails(c) ==
    /\ pc[c] = "failed"
    /\ Return(c, "failed")
    /\ UNCHANGED <<timedOut, streamVars, clientVars, serverVars>>

\* The response may be an error of the method, an answer too.
Receive(c) ==
    /\ pc[c] = "wait" /\ rchan[c] # Nothing
    /\ Return(c, "answered")
    /\ UNCHANGED <<timedOut, streamVars, clientVars, serverVars>>

WaitGivesUp(c) ==
    /\ pc[c] = "wait" /\ CtxDone(c)
    /\ Return(c, "failed")
    /\ UNCHANGED <<timedOut, streamVars, clientVars, serverVars>>

-----------------------------------------------------------------------------
(* Conn.Run and httpStream.Read.                                           *)

\* of: the call whose pipe is read, then the one whose answer is to be sent; got: the
\* calls whose bytes came through the pipe; to: the call whose channel is sent to.
NextReply == [at |-> "select", of |-> Nothing, got |-> {}, chunks |-> 0, to |-> Nothing]

ReadReply ==
    /\ reader = NextReply /\ replies # Nothing
    /\ reader' = [reader EXCEPT !.at = "read", !.of = replies]
    /\ replies' = Nothing
    /\ UNCHANGED <<pc, callVars, timedOut, closed, rchan, copyVars, clientVars, serverVars>>

\* The context of the client is done.
RunEnds ==
    /\ reader = NextReply /\ client # "open"
    /\ reader' = [reader EXCEPT !.at = "ended"]
    /\ UNCHANGED <<pc, callVars, timedOut, replies, closed, rchan, copyVars, clientVars, serverVars>>

\* What came through is cut short, garbled, or no response at all.
Undecodable ==
    /\ reader.at = "read" /\ reader.of \in closed
    /\ reader' = NextReply
    /\ UNCHANGED <<pc, callVars, timedOut, replies, closed, rchan, copyVars, clientVars, serverVars>>

\* Mutant: a response goes to any call that waits for one.
Recipient_Any(id) == IF pending = {} THEN Nothing ELSE CHOOSE c \in pending : TRUE

\* The call registered under the id of a response, if it is still there.
Recipient(id) == IF id \in pending THEN id ELSE Nothing

\* The id and the answer that bytes of the responses to `got` may decode to.  Digits of
\* two ids may make a third.
Decoded(got) ==
    {r \in Call \X got : (\E c \in Call : got = {c}) => r[1] = r[2]}

Lookup ==
    /\ reader.at = "read" /\ reader.of \in closed
    /\ \E response \in Decoded(reader.got) :
           LET to == Recipient(response[1])
           IN  reader' = IF to = Nothing THEN NextReply
                         ELSE [NextReply EXCEPT !.at = "send", !.of = response[2], !.to = to]
    /\ UNCHANGED <<pc, callVars, timedOut, replies, closed, rchan, copyVars, clientVars, serverVars>>

\* Mutant: the response channel has no buffer.
Room_Unbuffered(c) == pc[c] = "wait"

Room(c) == rchan[c] = Nothing

\* The call may have returned since Lookup: its channel takes the response all the same.
Send ==
    /\ reader.at = "send" /\ Room(reader.to)
    /\ rchan' = [rchan EXCEPT ![reader.to] = reader.of]
    /\ reader' = NextReply
    /\ UNCHANGED <<pc, callVars, timedOut, replies, closed, copyVars, clientVars, serverVars>>

-----------------------------------------------------------------------------
(* Timers, the parent context, Close and the expiry of the token.          *)

Timeout(c) ==
    /\ InProgress(c) /\ c \notin timedOut
    /\ timedOut' = timedOut \cup {c}
    /\ UNCHANGED <<pc, callVars, streamVars, clientVars, serverVars>>

Close ==
    /\ MayClose /\ client = "open"
    /\ client' = "closed"
    /\ UNCHANGED <<pc, callVars, timedOut, streamVars, token, login, serverVars>>

CancelParent ==
    /\ MayCancel /\ client # "cancelled"
    /\ client' = "cancelled"
    /\ UNCHANGED <<pc, callVars, timedOut, streamVars, token, login, serverVars>>

TokenExpires ==
    /\ token
    /\ token' = FALSE
    /\ UNCHANGED <<pc, callVars, timedOut, streamVars, login, client, serverVars>>

-----------------------------------------------------------------------------
Init ==
    /\ pc = [c \in Call |-> "new"]
    /\ result = [c \in Call |-> "none"]
    /\ timedOut = {} /\ executed = {} /\ pending = {} /\ closed = {}
    /\ retries = 0
    /\ rchan = [c \in Call |-> Nothing]
    /\ replies = Nothing
    /\ reader = NextReply
    /\ token = FALSE /\ login = Nothing /\ client = "open"
    /\ buf = {} /\ overwritten = {}

Caller(c) ==
    \/ Register(c) \/ WriteGivesUp(c) \/ RoundTrip(c)
    \/ TakeToken(c) \/ LoginSucceeds(c) \/ LoginFails(c)
    \/ Serve(c) \/ Answered(c) \/ RetryAsked(c) \/ PostFails(c)
    \/ Offer(c) \/ OfferGivesUp(c) \/ ReadBody(c) \/ Piped(c)
    \/ BodyEnds(c) \/ BodyFails(c) \/ WriteFails(c)
    \/ Receive(c) \/ WaitGivesUp(c)
    \/ Timeout(c)

Run == ReadReply \/ RunEnds \/ Undecodable \/ Lookup \/ Send

Next ==
    \/ \E c \in Call : Caller(c)
    \/ Run
    \/ Close \/ CancelParent \/ TokenExpires

Spec == Init /\ [][Next]_vars

\* The goroutines run, timers fire, and what depends on the server or the network
\* ends at the latest when the context it runs under is done.  For a login that is
\* the context of the client; when LoginAnswered, the server answers it.
Fairness ==
    /\ WF_vars(Run)
    /\ \A c \in Call :
        /\ WF_vars(Timeout(c))
        /\ WF_vars(WriteGivesUp(c) \/ RoundTrip(c) \/ TakeToken(c))
        /\ WF_vars((LoginAnswered \/ client # "open") /\ (LoginSucceeds(c) \/ LoginFails(c)))
        /\ WF_vars(CtxDone(c) /\ PostFails(c))
        /\ WF_vars(Offer(c) \/ OfferGivesUp(c))
        /\ WF_vars(CtxDone(c) /\ (ReadBody(c) \/ BodyEnds(c) \/ BodyFails(c)))
        /\ WF_vars(Piped(c) \/ WriteFails(c))
        /\ WF_vars(Receive(c) \/ WaitGivesUp(c))

FairSpec == Spec /\ Fairness

-----------------------------------------------------------------------------
(* Properties.                                                             *)

\* Every variable has its type, a call is registered exactly while it is in progress
\* and the lock of the token source is held by the call that logs in.
TypeOK ==
    /\ pc \in [Call -> Place]
    /\ result \in [Call -> {"none", "answered", "failed"}]
    /\ timedOut \subseteq Call /\ executed \subseteq Call /\ closed \subseteq Call
    /\ buf \subseteq Call /\ overwritten \subseteq Call
    /\ pending = {c \in Call : InProgress(c)}
    /\ retries \in 0..MaxRetries
    /\ rchan \in [Call -> Call \cup {Nothing}]
    /\ replies \in Call \cup {Nothing}
    /\ reader \in [at : {"select", "read", "send", "ended"}, of : Call \cup {Nothing},
                   got : SUBSET Call, chunks : 0..MaxChunks, to : Call \cup {Nothing}]
    /\ token \in BOOLEAN
    /\ \A c \in Call : login = c <=> pc[c] = "login"
    /\ client \in {"open", "closed", "cancelled"}


\* The copies of the bodies have not met so far: no call read its body over bytes of
\* another that Run did not have yet.  The calls may otherwise run side by side.
CopiesApart == overwritten = {}

\* As long as the copies stay apart, a call that reports an answer was executed by the
\* server and got the answer to its own request, though all replies pass through one
\* buffer, one channel and one goroutine and the calls before it may have been abandoned
\* at any point.
OwnAnswer ==
    CopiesApart =>
        \A c \in Call : result[c] = "answered" => c \in executed /\ rchan[c] = c

\* As long as the copies stay apart, Run never blocks on handing over a response, even
\* to a call that gives up between its lookup in pending and the send.
SendNeverBlocks == CopiesApart /\ reader.at = "send" => Room(reader.to)

\* A pipe Run waits on still has its writer, or was closed: Run cannot be left
\* waiting by a call that gave up.
PipeHasWriter ==
    \A c \in Call :
        (reader.at = "read" /\ reader.of = c) \/ replies = c
            => pc[c] \in {"copy", "pipe"} \/ c \in closed

\* Run comes back for the next reply again and again until the client is closed, or
\* until copies meet.
RunKeepsReading == []<>(reader.at \in {"select", "ended"} \/ ~CopiesApart)

\* While the client is neither closed nor cancelled and the copies stay apart, a call
\* whose request timeout has passed returns.
TimeoutEndsCall ==
    \A c \in Call : InProgress(c) /\ c \in timedOut
                       ~> ~InProgress(c) \/ client # "open" \/ ~CopiesApart

=============================================================================
