----------------------------- MODULE JrpcServe -----------------------------
(***************************************************************************)
(* The serving half of a jsonrpc2.Conn (lib/jsonrpc2/jsonrpc2.go): Run     *)
(* starts a goroutine for every request it reads; a goroutine waits for    *)
(* the one before it to become parallel, delivers its request to the       *)
(* handlers and answers it if they did not.  Replies and the notifications *)
(* of this side share one headerStream (lib/jsonrpc2/stream.go).  Params,  *)
(* results, the hooks of the handlers and messages that are not requests   *)
(* are left out.                                                           *)
(*                                                                         *)
(* Requests are numbered as they arrive.  There are two handlers, one of   *)
(* the user and the default one, as NewConn and AddHandler set them up.    *)
(***************************************************************************)
EXTENDS Integers

CONSTANTS
    Id,             \* ids the other side gives to calls
    NoId,           \* what a notification has instead
    MaxRequests,    \* bound: requests the other side sends
    Notice,         \* notifications this side sends
    Nobody          \* the holder of a free lock

ASSUME ServeAssumption ==
    /\ NoId \notin Id
    /\ MaxRequests \in Nat
    /\ Nobody \notin 1..MaxRequests \cup Notice
    /\ Notice \cap 1..MaxRequests = {}

Request == 1..MaxRequests
Writer == Request \cup Notice

VARIABLES
    running,        \* whether Conn.Run still reads
    runCancelled,   \* whether the context of Run is cancelled
    received,       \* number of requests read
    id,             \* the id of each request
    place,          \* where the goroutine of each request is
    state,          \* Request.state
    closes,         \* how often the nextRequest channel of each request was closed
    handling,       \* Conn.handling: the request with each id, or 0
    cancelled,      \* requests cancelled by Conn.Cancel
    writing,        \* where each writer is in headerStream.Write
    outMu,          \* the writer that holds the lock of the stream
    open,           \* the writer whose message was begun last and not ended
    sent,           \* how often each writer has written a whole message to it
    failed          \* writers whose write failed

vars == <<running, runCancelled, received, id, place, state, closes, handling, cancelled,
          writing, outMu, open, sent, failed>>

runVars == <<running, runCancelled, received, id>>
requestVars == <<place, state, closes, handling>>
outVars == <<outMu, open, sent, failed>>
streamVars == <<writing, outVars>>

-----------------------------------------------------------------------------
\* requestState; the code never uses requestDone.
Rank == [waiting |-> 0, serial |-> 1, parallel |-> 2, replied |-> 3]
AtLeast(r, s) == Rank[state[r]] >= Rank[s]

IsNotify(r) == id[r] = NoId
CtxDone(r) == r \in cancelled \/ runCancelled

Goto(r, p) == place' = [place EXCEPT ![r] = p]

\* Mutant: the channel of a parallel request is closed again.
Become_Again(r, s) ==
    /\ state' = [state EXCEPT ![r] = s]
    /\ closes' = [closes EXCEPT ![r] = @ + 1]

\* Effect on its state and its channel of request r going to state s.  Parallel closes
\* the channel unless the request is parallel already.
Become(r, s) ==
    /\ state' = [state EXCEPT ![r] = s]
    /\ closes' = IF AtLeast(r, "parallel") THEN closes ELSE [closes EXCEPT ![r] = @ + 1]

Parallel(r) ==
    IF AtLeast(r, "parallel") THEN UNCHANGED <<state, closes>> ELSE Become(r, "parallel")

Answerable(r) == ~IsNotify(r) /\ ~AtLeast(r, "replied")

\* Mutants: a reply does not open the way for the next request; a reply is not
\* recorded as one.
Reply_Serial(r) ==
    /\ state' = [state EXCEPT ![r] = "replied"]
    /\ UNCHANGED closes
    /\ writing' = [writing EXCEPT ![r] = "check"]
Reply_Unrecorded(r) ==
    /\ Parallel(r)
    /\ writing' = [writing EXCEPT ![r] = "check"]

\* The request becomes parallel before the reply is written.
Reply(r) ==
    /\ Become(r, "replied")
    /\ writing' = [writing EXCEPT ![r] = "check"]

-----------------------------------------------------------------------------
(* Conn.Run.                                                               *)

\* The stream ends or cannot be read, or the context is done when Run comes back to it.
StreamEnds ==
    /\ running
    /\ running' = FALSE
    /\ UNCHANGED <<runCancelled, received, id, requestVars, cancelled, streamVars>>

\* The other side has no two unanswered calls with one id, unless it gave one up.
MayUse(i) ==
    \A r \in 1..received : id[r] = i => sent[r] > 0 \/ CtxDone(r)

Receive(i) ==
    /\ running /\ received < MaxRequests
    /\ i \in Id => MayUse(i)
    /\ received' = received + 1
    /\ id' = [id EXCEPT ![received + 1] = i]
    /\ Goto(received + 1, "queued")
    /\ handling' = IF i \in Id THEN [handling EXCEPT ![i] = received + 1] ELSE handling
    /\ running' = ~runCancelled
    /\ UNCHANGED <<runCancelled, state, closes, cancelled, streamVars>>

-----------------------------------------------------------------------------
(* The goroutine of a request.                                             *)

\* Mutant: a goroutine does not wait for the one before it.
MayStart_Always(r) == TRUE

\* The channel the first request waits for is closed from the beginning.
MayStart(r) == \A q \in Request : q = r - 1 => closes[q] > 0

Start(r) ==
    /\ place[r] = "queued" /\ MayStart(r)
    /\ Goto(r, "handler")
    /\ state' = [state EXCEPT ![r] = "serial"]
    /\ UNCHANGED <<runVars, closes, handling, cancelled, streamVars>>

\* The handler of the user goes parallel, replies or returns, whether it delivered the
\* request or not; a second reply is an error without effect.
HandlerParallel(r) ==
    /\ place[r] = "handler" /\ writing[r] = "no"
    /\ Parallel(r)
    /\ UNCHANGED <<runVars, place, handling, cancelled, streamVars>>

HandlerReplies(r) ==
    /\ place[r] = "handler" /\ writing[r] = "no" /\ Answerable(r)
    /\ Reply(r)
    /\ UNCHANGED <<runVars, place, handling, cancelled, outVars>>

HandlerReturns(r) ==
    /\ place[r] = "handler" /\ writing[r] = "no"
    /\ \E delivered \in BOOLEAN : Goto(r, IF delivered THEN "returned" ELSE "default")
    /\ UNCHANGED <<runVars, state, closes, handling, cancelled, streamVars>>

\* The default handler answers a call with "method not found".
DefaultHandler(r) ==
    /\ place[r] = "default"
    /\ Goto(r, "returned")
    /\ IF Answerable(r) THEN Reply(r) ELSE UNCHANGED <<state, closes, writing>>
    /\ UNCHANGED <<runVars, handling, cancelled, outVars>>

\* Mutant: a request stays in the map.
StopHandling_Never(r) ==
    /\ place[r] = "returned" /\ writing[r] = "no"
    /\ Goto(r, "answer")
    /\ UNCHANGED <<runVars, state, closes, handling, cancelled, streamVars>>

\* The deferred function: it removes whatever request has the id of this one, ...
StopHandling(r) ==
    /\ place[r] = "returned" /\ writing[r] = "no"
    /\ Goto(r, "answer")
    /\ handling' = IF IsNotify(r) THEN handling ELSE [handling EXCEPT ![id[r]] = 0]
    /\ UNCHANGED <<runVars, state, closes, cancelled, streamVars>>

\* ... answers a call nobody has answered with an internal error, ...
DidNotReply(r) ==
    /\ place[r] = "answer"
    /\ Goto(r, "finish")
    /\ IF Answerable(r) THEN Reply(r) ELSE UNCHANGED <<state, closes, writing>>
    /\ UNCHANGED <<runVars, handling, cancelled, outVars>>

\* ... and makes the request parallel.  Its context, cancelled here too, is not used
\* any more.
Finish(r) ==
    /\ place[r] = "finish" /\ writing[r] = "no"
    /\ Goto(r, "done")
    /\ Parallel(r)
    /\ UNCHANGED <<runVars, handling, cancelled, streamVars>>

-----------------------------------------------------------------------------
(* Conn.Notify and headerStream.Write.                                     *)

Notify(v) ==
    /\ writing[v] = "new"
    /\ writing' = [writing EXCEPT ![v] = "check"]
    /\ UNCHANGED <<runVars, requestVars, cancelled, outVars>>

\* A context that is done by now ends the write; later it has no effect.  That of a
\* notification is its caller's.
CheckContext(w) ==
    /\ writing[w] = "check"
    /\ \E done \in IF w \in Request THEN {CtxDone(w)} ELSE BOOLEAN :
           writing' = [writing EXCEPT ![w] = IF done THEN "no" ELSE "lock"]
    /\ UNCHANGED <<runVars, requestVars, cancelled, outVars>>

\* Mutant: the lock is not waited for.
WriteHeader_Unlocked(w) ==
    /\ writing[w] = "lock"
    /\ outMu' = w
    /\ open' = w
    /\ writing' = [writing EXCEPT ![w] = "body"]
    /\ UNCHANGED <<runVars, requestVars, cancelled, sent, failed>>

\* The lock is held from the header to the end of the body.
WriteHeader(w) ==
    /\ writing[w] = "lock" /\ outMu = Nobody
    /\ outMu' = w
    /\ open' = w
    /\ writing' = [writing EXCEPT ![w] = "body"]
    /\ UNCHANGED <<runVars, requestVars, cancelled, sent, failed>>

WriteBody(w) ==
    /\ writing[w] = "body"
    /\ open' = Nobody
    /\ sent' = [sent EXCEPT ![w] = @ + 1]
    /\ writing' = [writing EXCEPT ![w] = "no"]
    /\ outMu' = Nobody
    /\ UNCHANGED <<runVars, requestVars, cancelled, failed>>

\* Writing the header or the body fails, before or after a part of it is out.  The lock
\* is released, and the stream goes on being used.
WriteFails(w) ==
    /\ (writing[w] = "lock" /\ outMu = Nobody) \/ writing[w] = "body"
    /\ open' \in {open, w}
    /\ failed' = failed \cup {w}
    /\ writing' = [writing EXCEPT ![w] = "no"]
    /\ outMu' = Nobody
    /\ UNCHANGED <<runVars, requestVars, cancelled, sent>>

-----------------------------------------------------------------------------
(* Cancellation.                                                           *)

Cancel(i) ==
    /\ handling[i] \notin {0} \cup cancelled
    /\ cancelled' = cancelled \cup {handling[i]}
    /\ UNCHANGED <<runVars, requestVars, streamVars>>

CancelRun ==
    /\ ~runCancelled
    /\ runCancelled' = TRUE
    /\ UNCHANGED <<running, received, id, requestVars, cancelled, streamVars>>

-----------------------------------------------------------------------------
Init ==
    /\ running = TRUE /\ runCancelled = FALSE /\ received = 0
    /\ id = [r \in Request |-> NoId]
    /\ place = [r \in Request |-> "unread"]
    /\ state = [r \in Request |-> "waiting"]
    /\ closes = [r \in Request |-> 0]
    /\ handling = [i \in Id |-> 0]
    /\ cancelled = {}
    /\ writing = [w \in Writer |-> IF w \in Notice THEN "new" ELSE "no"]
    /\ outMu = Nobody /\ open = Nobody
    /\ sent = [w \in Writer |-> 0] /\ failed = {}

Handler(r) == HandlerParallel(r) \/ HandlerReplies(r) \/ HandlerReturns(r)
Serve(r) == Start(r) \/ DefaultHandler(r) \/ StopHandling(r) \/ DidNotReply(r) \/ Finish(r)
Write(w) == CheckContext(w) \/ WriteHeader(w) \/ WriteBody(w) \/ WriteFails(w)

Next ==
    \/ StreamEnds \/ \E i \in Id \cup {NoId} : Receive(i)
    \/ \E r \in Request : Handler(r) \/ Serve(r)
    \/ \E v \in Notice : Notify(v)
    \/ \E w \in Writer : Write(w)
    \/ \E i \in Id : Cancel(i)
    \/ CancelRun

Spec == Init /\ [][Next]_vars

\* Goroutines run, and a handler that is still serial goes parallel, replies or returns;
\* once parallel it need not return, and a write need not end.
Fairness ==
    \A r \in Request : WF_vars(Serve(r)) /\ WF_vars(state[r] = "serial" /\ Handler(r))

FairSpec == Spec /\ Fairness

-----------------------------------------------------------------------------
(* Properties.                                                             *)

\* Every variable has its type, no channel is closed twice (which would panic), and the
\* lock of the stream is held by the writer that is between its header and its body.
TypeOK ==
    /\ running \in BOOLEAN /\ runCancelled \in BOOLEAN
    /\ received \in 0..MaxRequests
    /\ id \in [Request -> Id \cup {NoId}]
    /\ place \in [Request -> {"unread", "queued", "handler", "default", "returned",
                              "answer", "finish", "done"}]
    /\ state \in [Request -> DOMAIN Rank]
    /\ closes \in [Request -> 0..1]
    /\ handling \in [Id -> 0..received]
    /\ cancelled \subseteq Request
    /\ writing \in [Writer -> {"new", "no", "check", "lock", "body"}]
    /\ outMu \in Writer \cup {Nobody} /\ \A w \in Writer : writing[w] = "body" <=> outMu = w
    /\ open \in Writer \cup {Nobody}
    /\ sent \in [Writer -> Nat] /\ failed \subseteq Writer

\* Requests start in the order in which they arrived, each only after the one before
\* it has become parallel, replied or returned: at most one is serial.
StartInOrder ==
    \A q, r \in 1..received :
        q < r /\ place[r] # "queued" => place[q] # "queued" /\ AtLeast(q, "parallel")

\* A call is answered by the time its goroutine ends unless it was cancelled or the
\* write of its own answer failed; no call is answered twice and no notification at
\* all, whatever the handlers did.
AnsweredOnce ==
    \A r \in 1..received :
        /\ place[r] = "done" /\ ~IsNotify(r) /\ ~CtxDone(r) /\ r \notin failed => sent[r] = 1
        /\ sent[r] <= IF IsNotify(r) THEN 0 ELSE 1

\* A cancellation reaches only a call with that id whose handlers are not through, and
\* it finds every such call whose id no other call has used.
CancelFindsCall ==
    /\ \A i \in Id : handling[i] # 0 =>
           id[handling[i]] = i /\ place[handling[i]] \in {"queued", "handler", "default", "returned"}
    /\ \A r \in 1..received :
           /\ ~IsNotify(r) /\ place[r] \in {"queued", "handler", "default", "returned"}
           /\ \A q \in 1..received \ {r} : id[q] # id[r]
           => handling[id[r]] = r

\* Replies and notifications written at the same time do not get mixed up: a message
\* that was begun is followed by nothing but its own rest, unless its own write failed.
FramesWhole ==
    [][/\ \A w \in Writer : sent'[w] # sent[w] => open = w
       /\ open' # open => Nobody \in {open, open'} \/ open \in failed]_vars

\* Every request that arrives is started, though handlers may never return and writes
\* may never end once their request is parallel.
EveryRequestStarts == \A r \in Request : place[r] = "queued" ~> place[r] # "queued"

=============================================================================
