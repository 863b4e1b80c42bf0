-------------------------- MODULE JrpcServeProofs --------------------------
(***************************************************************************)
(* Proofs about JrpcServe, for any number of requests, ids and             *)
(* notifications, any behaviour of the handlers, and writes to the stream  *)
(* that may fail at any point.                                             *)
(***************************************************************************)
EXTENDS JrpcServe, TLAPS

\* The ranks of the states, for the provers.
LEMMA Ranks ==
    ASSUME NEW r \in Request, state[r] \in DOMAIN Rank
    PROVE  /\ state[r] \in {"waiting", "serial", "parallel", "replied"}
           /\ AtLeast(r, "parallel") <=> state[r] \in {"parallel", "replied"}
           /\ AtLeast(r, "replied") <=> state[r] = "replied"
BY DEF AtLeast, Rank

\* How far the goroutine of request r is says what state the request is in, and its
\* channel is closed when it becomes parallel, never before.
ProgressInv(r) ==
    /\ r > received <=> place[r] = "unread"
    /\ state[r] = "waiting" <=> place[r] \in {"unread", "queued"}
    /\ closes[r] = 1 <=> state[r] \in {"parallel", "replied"}
    /\ place[r] = "done" => state[r] \in {"parallel", "replied"}

\* A reply is written once, after the request went to replied, and only for a call; a
\* call whose goroutine is past the deferred reply has been answered.
AnswerInv(r) ==
    /\ state[r] = "replied" => ~IsNotify(r)
    /\ state[r] # "replied" => writing[r] = "no" /\ sent[r] = 0
    /\ writing[r] # "new"
    /\ writing[r] # "no" => sent[r] = 0
    /\ sent[r] <= 1
    /\ state[r] = "replied" /\ writing[r] = "no" /\ ~CtxDone(r) /\ r \notin failed => sent[r] = 1
    /\ place[r] \in {"finish", "done"} /\ ~IsNotify(r) => state[r] = "replied"
    /\ place[r] \in {"unread", "answer", "done"} => writing[r] = "no"

\* A message without its end belongs to the holder of the lock or was cut short.
FrameInv == open = outMu \/ (outMu = Nobody /\ open \in failed)

IInv ==
    /\ TypeOK
    /\ \A r \in Request : ProgressInv(r) /\ AnswerInv(r)
    /\ StartInOrder
    /\ CancelFindsCall
    /\ FrameInv

\* A request that goes parallel or is replied to has its channel closed, once.
LEMMA Becoming ==
    ASSUME TypeOK, NEW r \in Request, ProgressInv(r), NEW s \in {"parallel", "replied"},
           Become(r, s)
    PROVE  /\ state' = [state EXCEPT ![r] = s]
           /\ closes' = [closes EXCEPT ![r] = 1]
<1>1. closes \in [Request -> 0..1] /\ state[r] \in DOMAIN Rank
  BY DEF TypeOK
<1>2. AtLeast(r, "parallel") <=> closes[r] = 1
  BY <1>1, Ranks DEF ProgressInv
<1>3. CASE AtLeast(r, "parallel")
  BY <1>1, <1>2, <1>3 DEF Become
<1>4. CASE ~AtLeast(r, "parallel")
  <2>1. closes[r] = 0
    BY <1>1, <1>2, <1>4
  <2>2. closes' = [closes EXCEPT ![r] = closes[r] + 1]
    BY <1>4 DEF Become
  <2>3. closes[r] + 1 = 1
    BY <2>1
  <2>4. state' = [state EXCEPT ![r] = s]
    BY DEF Become
  <2> QED
    BY <2>2, <2>3, <2>4
<1> QED
  BY <1>3, <1>4

\* Request.Parallel leaves a request that was replied to as it is.
LEMMA GoingParallel ==
    ASSUME TypeOK, NEW r \in Request, ProgressInv(r), Parallel(r)
    PROVE  /\ state' = IF state[r] = "replied" THEN state ELSE [state EXCEPT ![r] = "parallel"]
           /\ closes' = [closes EXCEPT ![r] = 1]
<1>1. /\ closes \in [Request -> 0..1] /\ state \in [Request -> DOMAIN Rank]
      /\ state[r] \in DOMAIN Rank
  BY DEF TypeOK
<1>2. AtLeast(r, "parallel") <=> state[r] \in {"parallel", "replied"}
  BY <1>1, Ranks
<1>3. CASE AtLeast(r, "parallel")
  BY <1>1, <1>2, <1>3 DEF Parallel, ProgressInv
<1>4. CASE ~AtLeast(r, "parallel")
  <2>1. Become(r, "parallel")
    BY <1>4 DEF Parallel
  <2> QED
    BY <2>1, <1>2, <1>4, Becoming
<1> QED
  BY <1>3, <1>4

\* Where a goroutine is when a cancellation can still find its request.
Cancellable == {"queued", "handler", "default", "returned"}

\* The map and the ids stay, and so do the goroutines within their handlers: a
\* cancellation finds what it found before.
LEMMA StillFound ==
    ASSUME TypeOK, CancelFindsCall, UNCHANGED <<received, id, handling>>,
           \A q \in Request : place'[q] \in Cancellable <=> place[q] \in Cancellable
    PROVE  CancelFindsCall'
<1>1. received \in 0..MaxRequests /\ handling \in [Id -> 0..received]
  BY DEF TypeOK
<1>2. 1..received \subseteq Request
  BY <1>1, ServeAssumption DEF Request
<1>3. \A i \in Id : handling[i] # 0 => handling[i] \in Request
  BY <1>1, <1>2
<1> QED
  BY <1>2, <1>3 DEF CancelFindsCall, IsNotify, Cancellable

\* Goroutines past their start and requests that only get on keep the order of starts.
LEMMA StillInOrder ==
    ASSUME TypeOK, StartInOrder, UNCHANGED received,
           \A q \in Request : place'[q] = "queued" <=> place[q] = "queued",
           \A q \in Request : state'[q] = state[q] \/ state'[q] \in {"parallel", "replied"}
    PROVE  StartInOrder'
<1>1. received \in Nat /\ 1..received \subseteq Request
  BY ServeAssumption DEF TypeOK, Request
<1>2. ASSUME NEW q \in Request, AtLeast(q, "parallel") PROVE AtLeast(q, "parallel")'
  <2>1. CASE state'[q] = state[q]
    BY <2>1, <1>2 DEF AtLeast
  <2>2. CASE state'[q] \in {"parallel", "replied"}
    BY <2>2 DEF AtLeast, Rank
  <2> QED
    BY <2>1, <2>2
<1>3. ASSUME NEW q \in 1..received, NEW r \in 1..received, q < r, place'[r] # "queued"
      PROVE  place'[q] # "queued" /\ AtLeast(q, "parallel")'
  <2>1. q \in Request /\ r \in Request
    BY <1>1
  <2>2. place[q] # "queued" /\ AtLeast(q, "parallel")
    BY <1>1, <1>3, <2>1 DEF StartInOrder
  <2> QED
    BY <1>2, <2>1, <2>2 DEF AtLeast
<1> QED
  BY <1>3 DEF StartInOrder

\* What the goroutines alone decide, as long as none of them moves.
Unmoved == StartInOrder /\ CancelFindsCall /\ \A r \in Request : ProgressInv(r)

\* A step of a writer, of Run ending, or of a cancellation moves no goroutine.
LEMMA UnmovedRequests ==
    ASSUME TypeOK, Unmoved, UNCHANGED <<received, id, requestVars>>
    PROVE  Unmoved'
<1> USE DEF requestVars
<1>1. StartInOrder' /\ \A r \in Request : ProgressInv(r)'
  BY DEF Unmoved, StartInOrder, AtLeast, ProgressInv
<1>2. CancelFindsCall'
  BY StillFound DEF Unmoved
<1> QED
  BY <1>1, <1>2 DEF Unmoved

-----------------------------------------------------------------------------
\* The invariant holds before a request has arrived.
LEMMA InitInv == Init => IInv
<1> SUFFICES ASSUME Init PROVE IInv
  OBVIOUS
<1> USE ServeAssumption DEF Init, Request, Writer
<1>1. TypeOK
  <2>1. "waiting" \in DOMAIN Rank
    BY DEF Rank
  <2>2. running \in BOOLEAN /\ runCancelled \in BOOLEAN
    BY Zenon
  <2>3. \A w \in Writer : writing[w] = "body" <=> outMu = w
    OBVIOUS
  <2> QED
    BY <2>1, <2>2, <2>3 DEF TypeOK
<1>2. \A r \in Request : ProgressInv(r)
  BY DEF ProgressInv
<1>3. ASSUME NEW r \in Request PROVE AnswerInv(r)
  <2>1. writing[r] = "no" /\ sent[r] = 0 /\ state[r] = "waiting" /\ place[r] = "unread"
    BY <1>3
  <2> QED
    BY <2>1 DEF AnswerInv
<1>4. StartInOrder /\ CancelFindsCall /\ FrameInv
  BY DEF StartInOrder, CancelFindsCall, FrameInv
<1> QED
  BY <1>1, <1>2, <1>3, <1>4 DEF IInv

\* Every step of Run, of a goroutine, of a writer and of the environment keeps it.
LEMMA Step == IInv /\ [Next]_vars => IInv'
<1> SUFFICES ASSUME IInv, [Next]_vars PROVE IInv'
  OBVIOUS
<1>ranks. /\ state \in [Request -> DOMAIN Rank]
          /\ DOMAIN Rank = {"waiting", "serial", "parallel", "replied"}
          /\ \A q \in Request :
                /\ AtLeast(q, "parallel") <=> state[q] \in {"parallel", "replied"}
                /\ AtLeast(q, "replied") <=> state[q] = "replied"
  <2>1. state \in [Request -> DOMAIN Rank]
    BY DEF IInv, TypeOK
  <2> QED
    BY <2>1, Ranks DEF Rank
<1>inv. TypeOK /\ Unmoved /\ CancelFindsCall /\ \A q \in Request : ProgressInv(q)
  BY DEF IInv, Unmoved
<1> USE ServeAssumption
<1> USE DEF runVars, requestVars, outVars, streamVars, Request, Writer, IsNotify, CtxDone
<1>1. CASE StreamEnds
  <2>1. TypeOK'
    BY <1>1, <1>ranks DEF IInv, TypeOK, ProgressInv, AnswerInv, StreamEnds
  <2>2. Unmoved'
    BY <1>1, <1>inv, UnmovedRequests DEF StreamEnds
  <2>3. \A q \in Request : AnswerInv(q)'
    BY <1>1, <1>ranks DEF IInv, TypeOK, ProgressInv, AnswerInv, FrameInv, StreamEnds
  <2>4. FrameInv'
    BY <1>1 DEF IInv, TypeOK, FrameInv, StreamEnds
  <2> QED
    BY <2>1, <2>2, <2>3, <2>4 DEF IInv, Unmoved
<1>2. ASSUME NEW i \in Id \cup {NoId}, Receive(i) PROVE IInv'
  <2>1. TypeOK'
    BY <1>2, <1>ranks DEF IInv, TypeOK, ProgressInv, AnswerInv, Receive, Goto
  <2>2. \A q \in Request : ProgressInv(q)'
    BY <1>2, <1>ranks DEF IInv, TypeOK, ProgressInv, AnswerInv, Receive, Goto
  <2>3. \A q \in Request : AnswerInv(q)'
    BY <1>2, <1>ranks DEF IInv, TypeOK, ProgressInv, AnswerInv, FrameInv, Receive, Goto
  <2>n. /\ received + 1 \in Request /\ received' = received + 1
        /\ received \in 0..MaxRequests
        /\ \A q \in 1..received : q \in Request /\ q < received + 1
    BY <1>2 DEF IInv, TypeOK, Receive
  <2>p. \A q \in Request : place'[q] = IF q = received + 1 THEN "queued" ELSE place[q]
    BY <1>2, <1>inv DEF TypeOK, Receive, Goto
  <2>4. StartInOrder'
    <3>1. UNCHANGED state
      BY <1>2 DEF Receive
    <3>2. \A q, r \in 1..(received + 1) : q < r => q \in 1..received
      BY <2>n
    <3>3. \A r \in 1..(received + 1) : r = received + 1 \/ r \in 1..received
      BY <2>n
    <3> QED
      BY <3>1, <3>2, <3>3, <2>n, <2>p DEF IInv, StartInOrder, AtLeast
  <2>5. CancelFindsCall'
    <3>1. /\ id' = [id EXCEPT ![received + 1] = i]
          /\ handling' = IF i \in Id THEN [handling EXCEPT ![i] = received + 1] ELSE handling
      BY <1>2 DEF Receive
    <3>2. id \in [Request -> Id \cup {NoId}] /\ handling \in [Id -> 0..received]
      BY <1>inv DEF TypeOK
    <3>3. ASSUME NEW k \in Id, handling'[k] # 0
          PROVE  id'[handling'[k]] = k /\ place'[handling'[k]] \in Cancellable
      <4>1. CASE k = i
        BY <4>1, <3>1, <3>2, <2>n, <2>p DEF Cancellable
      <4>2. CASE k # i
        <5>1. handling'[k] = handling[k] /\ handling[k] \in 1..received
          BY <4>2, <3>1, <3>2, <3>3, <2>n
        <5> QED
          BY <5>1, <3>1, <3>2, <2>n, <2>p, <1>inv DEF CancelFindsCall, Cancellable
      <4> QED
        BY <4>1, <4>2
    <3>4. ASSUME NEW r \in 1..(received + 1), id'[r] # NoId, place'[r] \in Cancellable,
                 \A q \in (1..(received + 1)) \ {r} : id'[q] # id'[r]
          PROVE  handling'[id'[r]] = r
      <4>1. CASE r = received + 1
        BY <4>1, <3>1, <3>2, <3>4, <2>n
      <4>2. CASE r # received + 1
        <5>1. r \in 1..received /\ r \in Request /\ received + 1 \in (1..(received + 1)) \ {r}
          BY <4>2, <2>n
        <5>2. /\ id'[r] = id[r] /\ place'[r] = place[r] /\ id[r] # i
              /\ \A q \in (1..received) \ {r} : id[q] # id[r]
          BY <5>1, <3>1, <3>2, <3>4, <2>n, <2>p
        <5>3. handling[id[r]] = r /\ id[r] \in Id
          BY <5>1, <5>2, <3>2, <3>4, <1>inv DEF CancelFindsCall, Cancellable
        <5> QED
          BY <5>2, <5>3, <3>1, <3>2
      <4> QED
        BY <4>1, <4>2
    <3> QED
      BY <3>3, <3>4, <2>n DEF CancelFindsCall, Cancellable
  <2>6. FrameInv'
    BY <1>2 DEF IInv, TypeOK, FrameInv, Receive, Goto
  <2> QED
    BY <2>1, <2>2, <2>3, <2>4, <2>5, <2>6 DEF IInv
<1>3. ASSUME NEW r \in Request, HandlerParallel(r) PROVE IInv'
  <2>0. /\ state' = (IF state[r] = "replied" THEN state ELSE [state EXCEPT ![r] = "parallel"])
        /\ closes' = [closes EXCEPT ![r] = 1]
    BY <1>3, <1>inv, GoingParallel DEF HandlerParallel
  <2>1. TypeOK'
    BY <1>3, <1>ranks, <2>0 DEF IInv, TypeOK, ProgressInv, AnswerInv, HandlerParallel
  <2>2. \A q \in Request : ProgressInv(q)'
    BY <1>3, <1>ranks, <2>0 DEF IInv, TypeOK, ProgressInv, AnswerInv, HandlerParallel
  <2>3. \A q \in Request : AnswerInv(q)'
    BY <1>3, <1>ranks, <2>0 DEF IInv, TypeOK, ProgressInv, AnswerInv, FrameInv, HandlerParallel
  <2>4. StartInOrder'
    <3>1. \A q \in Request : place'[q] = "queued" <=> place[q] = "queued"
      BY <1>3, <1>inv DEF TypeOK, HandlerParallel
    <3>2. \A q \in Request : state'[q] = state[q] \/ state'[q] \in {"parallel", "replied"}
      BY <1>3, <2>0, <1>ranks DEF HandlerParallel
    <3> QED
      BY <3>1, <3>2, <1>3, <1>inv, StillInOrder DEF Unmoved, HandlerParallel
  <2>5. CancelFindsCall'
    <3>1. UNCHANGED <<received, id, handling>>
      BY <1>3 DEF HandlerParallel
    <3>2. \A q \in Request : place'[q] \in Cancellable <=> place[q] \in Cancellable
      BY <1>3, <1>inv DEF TypeOK, Cancellable, HandlerParallel
    <3> QED
      BY <3>1, <3>2, <1>inv, StillFound
  <2>6. FrameInv'
    BY <1>3 DEF IInv, TypeOK, FrameInv, HandlerParallel
  <2> QED
    BY <2>1, <2>2, <2>3, <2>4, <2>5, <2>6 DEF IInv
<1>4. ASSUME NEW r \in Request, HandlerReplies(r) PROVE IInv'
  <2>0. /\ state' = [state EXCEPT ![r] = "replied"]
        /\ closes' = [closes EXCEPT ![r] = 1]
        /\ writing' = [writing EXCEPT ![r] = "check"]
    BY <1>4, <1>inv, Becoming DEF HandlerReplies, Reply
  <2>1. TypeOK'
    BY <1>4, <1>ranks, <2>0 DEF IInv, TypeOK, ProgressInv, AnswerInv, HandlerReplies, Answerable
  <2>2. \A q \in Request : ProgressInv(q)'
    BY <1>4, <1>ranks, <2>0 DEF IInv, TypeOK, ProgressInv, AnswerInv, HandlerReplies, Answerable
  <2>3. \A q \in Request : AnswerInv(q)'
    BY <1>4, <1>ranks, <2>0 DEF IInv, TypeOK, ProgressInv, AnswerInv, FrameInv, HandlerReplies, Answerable
  <2>4. StartInOrder'
    <3>1. \A q \in Request : place'[q] = "queued" <=> place[q] = "queued"
      BY <1>4, <1>inv DEF TypeOK, HandlerReplies
    <3>2. \A q \in Request : state'[q] = state[q] \/ state'[q] \in {"parallel", "replied"}
      BY <1>4, <2>0, <1>ranks DEF HandlerReplies
    <3> QED
      BY <3>1, <3>2, <1>4, <1>inv, StillInOrder DEF Unmoved, HandlerReplies
  <2>5. CancelFindsCall'
    <3>1. UNCHANGED <<received, id, handling>>
      BY <1>4 DEF HandlerReplies
    <3>2. \A q \in Request : place'[q] \in Cancellable <=> place[q] \in Cancellable
      BY <1>4, <1>inv DEF TypeOK, Cancellable, HandlerReplies, Answerable
    <3> QED
      BY <3>1, <3>2, <1>inv, StillFound
  <2>6. FrameInv'
    BY <1>4 DEF IInv, TypeOK, FrameInv, HandlerReplies, Answerable
  <2> QED
    BY <2>1, <2>2, <2>3, <2>4, <2>5, <2>6 DEF IInv
<1>5. ASSUME NEW r \in Request, HandlerReturns(r) PROVE IInv'
  <2>1. TypeOK'
    BY <1>5, <1>ranks DEF IInv, TypeOK, ProgressInv, AnswerInv, HandlerReturns, Goto
  <2>2. \A q \in Request : ProgressInv(q)'
    BY <1>5, <1>ranks DEF IInv, TypeOK, ProgressInv, AnswerInv, HandlerReturns, Goto
  <2>3. \A q \in Request : AnswerInv(q)'
    BY <1>5, <1>ranks DEF IInv, TypeOK, ProgressInv, AnswerInv, FrameInv, HandlerReturns, Goto
  <2>4. StartInOrder'
    <3>1. \A q \in Request : place'[q] = "queued" <=> place[q] = "queued"
      BY <1>5, <1>inv DEF TypeOK, HandlerReturns, Goto
    <3>2. \A q \in Request : state'[q] = state[q] \/ state'[q] \in {"parallel", "replied"}
      BY <1>5, <1>ranks DEF HandlerReturns
    <3> QED
      BY <3>1, <3>2, <1>5, <1>inv, StillInOrder DEF Unmoved, HandlerReturns
  <2>5. CancelFindsCall'
    <3>1. UNCHANGED <<received, id, handling>>
      BY <1>5 DEF HandlerReturns
    <3>2. \A q \in Request : place'[q] \in Cancellable <=> place[q] \in Cancellable
      BY <1>5, <1>inv DEF TypeOK, Cancellable, HandlerReturns, Goto
    <3> QED
      BY <3>1, <3>2, <1>inv, StillFound
  <2>6. FrameInv'
    BY <1>5 DEF IInv, TypeOK, FrameInv, HandlerReturns, Goto
  <2> QED
    BY <2>1, <2>2, <2>3, <2>4, <2>5, <2>6 DEF IInv
<1>6. ASSUME NEW r \in Request, Start(r) PROVE IInv'
  <2>1. TypeOK'
    BY <1>6, <1>ranks DEF IInv, TypeOK, ProgressInv, AnswerInv, Start, Goto, MayStart
  <2>2. \A q \in Request : ProgressInv(q)'
    BY <1>6, <1>ranks DEF IInv, TypeOK, ProgressInv, AnswerInv, Start, Goto, MayStart
  <2>3. \A q \in Request : AnswerInv(q)'
    BY <1>6, <1>ranks DEF IInv, TypeOK, ProgressInv, AnswerInv, FrameInv, Start, Goto, MayStart
  <2>4. StartInOrder'
    BY <1>6 DEF IInv, TypeOK, ProgressInv, StartInOrder, AtLeast, Rank, Start, Goto, MayStart
  <2>5. CancelFindsCall'
    <3>1. UNCHANGED <<received, id, handling>>
      BY <1>6 DEF Start
    <3>2. \A q \in Request : place'[q] \in Cancellable <=> place[q] \in Cancellable
      BY <1>6, <1>inv DEF TypeOK, Cancellable, Start, Goto, MayStart
    <3> QED
      BY <3>1, <3>2, <1>inv, StillFound
  <2>6. FrameInv'
    BY <1>6 DEF IInv, TypeOK, FrameInv, Start, Goto, MayStart
  <2> QED
    BY <2>1, <2>2, <2>3, <2>4, <2>5, <2>6 DEF IInv
<1>7. ASSUME NEW r \in Request, DefaultHandler(r) PROVE IInv'
  <2>0. \/ /\ ~IsNotify(r) /\ state[r] # "replied"
           /\ state' = [state EXCEPT ![r] = "replied"]
           /\ closes' = [closes EXCEPT ![r] = 1]
           /\ writing' = [writing EXCEPT ![r] = "check"]
        \/ /\ IsNotify(r) \/ state[r] = "replied"
           /\ UNCHANGED <<state, closes, writing>>
    BY <1>7, <1>inv, <1>ranks, Becoming DEF DefaultHandler, Reply, Answerable
  <2>p. /\ place' = [place EXCEPT ![r] = "returned"]
        /\ place[r] = "default"
        /\ UNCHANGED <<runVars, handling, cancelled, outVars>>
    BY <1>7 DEF DefaultHandler, Goto
  <2>1. TypeOK'
    <3>1. CASE UNCHANGED <<state, closes, writing>>
      BY <3>1, <2>p, <1>inv DEF TypeOK
    <3>2. CASE /\ state' = [state EXCEPT ![r] = "replied"]
               /\ closes' = [closes EXCEPT ![r] = 1]
               /\ writing' = [writing EXCEPT ![r] = "check"]
               /\ state[r] # "replied"
      <4>1. writing[r] = "no"
        BY <3>2 DEF IInv, AnswerInv
      <4> QED
        BY <3>2, <4>1, <2>p, <1>inv, <1>ranks DEF TypeOK
    <3> QED
      BY <3>1, <3>2, <2>0
  <2>2. \A q \in Request : ProgressInv(q)'
    BY <1>7, <1>ranks, <2>0 DEF IInv, TypeOK, ProgressInv, AnswerInv, DefaultHandler, Goto
  <2>3. \A q \in Request : AnswerInv(q)'
    <3>1. CASE UNCHANGED <<state, closes, writing>> /\ (IsNotify(r) \/ state[r] = "replied")
      BY <3>1, <2>p, <1>inv DEF IInv, AnswerInv, TypeOK
    <3>2. CASE /\ state' = [state EXCEPT ![r] = "replied"]
               /\ writing' = [writing EXCEPT ![r] = "check"]
               /\ ~IsNotify(r) /\ state[r] # "replied"
      BY <3>2, <2>p, <1>inv DEF IInv, AnswerInv, TypeOK
    <3> QED
      BY <3>1, <3>2, <2>0
  <2>4. StartInOrder'
    <3>1. \A q \in Request : place'[q] = "queued" <=> place[q] = "queued"
      BY <1>7, <1>inv DEF TypeOK, DefaultHandler, Goto
    <3>2. \A q \in Request : state'[q] = state[q] \/ state'[q] \in {"parallel", "replied"}
      BY <1>7, <2>0, <1>ranks DEF DefaultHandler
    <3> QED
      BY <3>1, <3>2, <1>7, <1>inv, StillInOrder DEF Unmoved, DefaultHandler
  <2>5. CancelFindsCall'
    <3>1. UNCHANGED <<received, id, handling>>
      BY <1>7 DEF DefaultHandler
    <3>2. \A q \in Request : place'[q] \in Cancellable <=> place[q] \in Cancellable
      BY <1>7, <1>inv DEF TypeOK, Cancellable, DefaultHandler, Goto
    <3> QED
      BY <3>1, <3>2, <1>inv, StillFound
  <2>6. FrameInv'
    BY <1>7 DEF IInv, TypeOK, FrameInv, DefaultHandler, Goto
  <2> QED
    BY <2>1, <2>2, <2>3, <2>4, <2>5, <2>6 DEF IInv
<1>8. ASSUME NEW r \in Request, StopHandling(r) PROVE IInv'
  <2>1. TypeOK'
    BY <1>8, <1>ranks DEF IInv, TypeOK, ProgressInv, AnswerInv, StopHandling, Goto
  <2>2. \A q \in Request : ProgressInv(q)'
    BY <1>8, <1>ranks DEF IInv, TypeOK, ProgressInv, AnswerInv, StopHandling, Goto
  <2>3. \A q \in Request : AnswerInv(q)'
    BY <1>8, <1>ranks DEF IInv, TypeOK, ProgressInv, AnswerInv, FrameInv, StopHandling, Goto
  <2>4. StartInOrder'
    <3>1. \A q \in Request : place'[q] = "queued" <=> place[q] = "queued"
      BY <1>8, <1>inv DEF TypeOK, StopHandling, Goto
    <3>2. \A q \in Request : state'[q] = state[q] \/ state'[q] \in {"parallel", "replied"}
      BY <1>8, <1>ranks DEF StopHandling
    <3> QED
      BY <3>1, <3>2, <1>8, <1>inv, StillInOrder DEF Unmoved, StopHandling
  <2>5. CancelFindsCall'
    <3>1. /\ handling' = IF IsNotify(r) THEN handling ELSE [handling EXCEPT ![id[r]] = 0]
          /\ place' = [place EXCEPT ![r] = "answer"] /\ UNCHANGED <<received, id>>
      BY <1>8 DEF StopHandling, Goto
    <3>2. received \in 0..MaxRequests /\ handling \in [Id -> 0..received]
          /\ id \in [Request -> Id \cup {NoId}]
      BY <1>inv DEF TypeOK
    <3>3. \A i \in Id : handling'[i] # 0 => handling'[i] = handling[i] /\ handling[i] # r
      BY <3>1, <3>2, <1>inv DEF CancelFindsCall
    <3>4. \A q \in 1..received \ {r} : ~IsNotify(q) /\ id[q] # id[r] => handling'[id[q]] = handling[id[q]]
      BY <3>1, <3>2
    <3>5. \A q \in Request : q # r => place'[q] = place[q]
      BY <3>1
    <3>6. 1..received \subseteq Request /\ \A i \in Id : handling[i] # 0 => handling[i] \in 1..received
      BY <3>2
    <3>7. \A i \in Id : handling'[i] # 0 =>
             id'[handling'[i]] = i /\ place'[handling'[i]] \in Cancellable
      BY <3>1, <3>3, <3>5, <3>6, <1>inv DEF CancelFindsCall, Cancellable
    <3>8. ASSUME NEW q \in 1..received, id[q] # NoId, place'[q] \in Cancellable,
                 \A p \in (1..received) \ {q} : id[p] # id[q]
          PROVE  handling'[id[q]] = q
      <4>1. q # r /\ r \in 1..received
        BY <3>1, <3>2, <3>8, <1>8, <1>inv DEF TypeOK, ProgressInv, StopHandling, Cancellable
      <4>2. id[r] # id[q]
        BY <4>1, <3>8
      <4> QED
        BY <4>1, <4>2, <3>2, <3>4, <3>5, <3>6, <3>8, <1>inv DEF CancelFindsCall, Cancellable
    <3> QED
      BY <3>1, <3>7, <3>8 DEF CancelFindsCall, Cancellable
  <2>6. FrameInv'
    BY <1>8 DEF IInv, TypeOK, FrameInv, StopHandling, Goto
  <2> QED
    BY <2>1, <2>2, <2>3, <2>4, <2>5, <2>6 DEF IInv
<1>9. ASSUME NEW r \in Request, DidNotReply(r) PROVE IInv'
  <2>0. \/ /\ ~IsNotify(r) /\ state[r] # "replied"
           /\ state' = [state EXCEPT ![r] = "replied"]
           /\ closes' = [closes EXCEPT ![r] = 1]
           /\ writing' = [writing EXCEPT ![r] = "check"]
        \/ /\ IsNotify(r) \/ state[r] = "replied"
           /\ UNCHANGED <<state, closes, writing>>
    BY <1>9, <1>inv, <1>ranks, Becoming DEF DidNotReply, Reply, Answerable
  <2>p. /\ place' = [place EXCEPT ![r] = "finish"]
        /\ place[r] = "answer"
        /\ UNCHANGED <<runVars, handling, cancelled, outVars>>
    BY <1>9 DEF DidNotReply, Goto
  <2>1. TypeOK'
    <3>1. CASE UNCHANGED <<state, closes, writing>>
      BY <3>1, <2>p, <1>inv DEF TypeOK
    <3>2. CASE /\ state' = [state EXCEPT ![r] = "replied"]
               /\ closes' = [closes EXCEPT ![r] = 1]
               /\ writing' = [writing EXCEPT ![r] = "check"]
               /\ state[r] # "replied"
      <4>1. writing[r] = "no"
        BY <3>2 DEF IInv, AnswerInv
      <4> QED
        BY <3>2, <4>1, <2>p, <1>inv, <1>ranks DEF TypeOK
    <3> QED
      BY <3>1, <3>2, <2>0
  <2>2. \A q \in Request : ProgressInv(q)'
    BY <1>9, <1>ranks, <2>0 DEF IInv, TypeOK, ProgressInv, AnswerInv, DidNotReply, Goto
  <2>3. \A q \in Request : AnswerInv(q)'
    <3>1. CASE UNCHANGED <<state, closes, writing>> /\ (IsNotify(r) \/ state[r] = "replied")
      BY <3>1, <2>p, <1>inv DEF IInv, AnswerInv, TypeOK
    <3>2. CASE /\ state' = [state EXCEPT ![r] = "replied"]
               /\ writing' = [writing EXCEPT ![r] = "check"]
               /\ ~IsNotify(r) /\ state[r] # "replied"
      BY <3>2, <2>p, <1>inv DEF IInv, AnswerInv, TypeOK
    <3> QED
      BY <3>1, <3>2, <2>0
  <2>4. StartInOrder'
    <3>1. \A q \in Request : place'[q] = "queued" <=> place[q] = "queued"
      BY <1>9, <1>inv DEF TypeOK, DidNotReply, Goto
    <3>2. \A q \in Request : state'[q] = state[q] \/ state'[q] \in {"parallel", "replied"}
      BY <1>9, <2>0, <1>ranks DEF DidNotReply
    <3> QED
      BY <3>1, <3>2, <1>9, <1>inv, StillInOrder DEF Unmoved, DidNotReply
  <2>5. CancelFindsCall'
    <3>1. UNCHANGED <<received, id, handling>>
      BY <1>9 DEF DidNotReply
    <3>2. \A q \in Request : place'[q] \in Cancellable <=> place[q] \in Cancellable
      BY <1>9, <1>inv DEF TypeOK, Cancellable, DidNotReply, Goto
    <3> QED
      BY <3>1, <3>2, <1>inv, StillFound
  <2>6. FrameInv'
    BY <1>9 DEF IInv, TypeOK, FrameInv, DidNotReply, Goto
  <2> QED
    BY <2>1, <2>2, <2>3, <2>4, <2>5, <2>6 DEF IInv
<1>10. ASSUME NEW r \in Request, Finish(r) PROVE IInv'
  <2>0. /\ state' = (IF state[r] = "replied" THEN state ELSE [state EXCEPT ![r] = "parallel"])
        /\ closes' = [closes EXCEPT ![r] = 1]
    BY <1>10, <1>inv, GoingParallel DEF Finish
  <2>1. TypeOK'
    BY <1>10, <1>ranks, <2>0 DEF IInv, TypeOK, ProgressInv, AnswerInv, Finish, Goto
  <2>2. \A q \in Request : ProgressInv(q)'
    BY <1>10, <1>ranks, <2>0 DEF IInv, TypeOK, ProgressInv, AnswerInv, Finish, Goto
  <2>3. \A q \in Request : AnswerInv(q)'
    BY <1>10, <1>ranks, <2>0 DEF IInv, TypeOK, ProgressInv, AnswerInv, FrameInv, Finish, Goto
  <2>4. StartInOrder'
    <3>1. \A q \in Request : place'[q] = "queued" <=> place[q] = "queued"
      BY <1>10, <1>inv DEF TypeOK, Finish, Goto
    <3>2. \A q \in Request : state'[q] = state[q] \/ state'[q] \in {"parallel", "replied"}
      BY <1>10, <2>0, <1>ranks DEF Finish
    <3> QED
      BY <3>1, <3>2, <1>10, <1>inv, StillInOrder DEF Unmoved, Finish
  <2>5. CancelFindsCall'
    <3>1. UNCHANGED <<received, id, handling>>
      BY <1>10 DEF Finish
    <3>2. \A q \in Request : place'[q] \in Cancellable <=> place[q] \in Cancellable
      BY <1>10, <1>inv DEF TypeOK, Cancellable, Finish, Goto
    <3> QED
      BY <3>1, <3>2, <1>inv, StillFound
  <2>6. FrameInv'
    BY <1>10 DEF IInv, TypeOK, FrameInv, Finish, Goto
  <2> QED
    BY <2>1, <2>2, <2>3, <2>4, <2>5, <2>6 DEF IInv
<1>11. ASSUME NEW v \in Notice, Notify(v) PROVE IInv'
  <2>1. TypeOK'
    BY <1>11, <1>ranks DEF IInv, TypeOK, ProgressInv, AnswerInv, Notify
  <2>2. Unmoved'
    BY <1>11, <1>inv, UnmovedRequests DEF Notify
  <2>3. \A q \in Request : AnswerInv(q)'
    BY <1>11, <1>ranks DEF IInv, TypeOK, ProgressInv, AnswerInv, FrameInv, Notify
  <2>4. FrameInv'
    BY <1>11 DEF IInv, TypeOK, FrameInv, Notify
  <2> QED
    BY <2>1, <2>2, <2>3, <2>4 DEF IInv, Unmoved
<1>12. ASSUME NEW w \in Writer, CheckContext(w) PROVE IInv'
  <2>1. TypeOK'
    BY <1>12, <1>ranks DEF IInv, TypeOK, ProgressInv, AnswerInv, CheckContext
  <2>2. Unmoved'
    BY <1>12, <1>inv, UnmovedRequests DEF CheckContext
  <2>3. \A q \in Request : AnswerInv(q)'
    BY <1>12, <1>ranks DEF IInv, TypeOK, ProgressInv, AnswerInv, FrameInv, CheckContext
  <2>4. FrameInv'
    BY <1>12 DEF IInv, TypeOK, FrameInv, CheckContext
  <2> QED
    BY <2>1, <2>2, <2>3, <2>4 DEF IInv, Unmoved
<1>13. ASSUME NEW w \in Writer, WriteHeader(w) PROVE IInv'
  <2>1. TypeOK'
    BY <1>13, <1>ranks DEF IInv, TypeOK, ProgressInv, AnswerInv, WriteHeader
  <2>2. Unmoved'
    BY <1>13, <1>inv, UnmovedRequests DEF WriteHeader
  <2>3. \A q \in Request : AnswerInv(q)'
    BY <1>13, <1>ranks DEF IInv, TypeOK, ProgressInv, AnswerInv, FrameInv, WriteHeader
  <2>4. FrameInv'
    BY <1>13 DEF IInv, TypeOK, FrameInv, WriteHeader
  <2> QED
    BY <2>1, <2>2, <2>3, <2>4 DEF IInv, Unmoved
<1>14. ASSUME NEW w \in Writer, WriteBody(w) PROVE IInv'
  <2>1. TypeOK'
    BY <1>14, <1>ranks DEF IInv, TypeOK, ProgressInv, AnswerInv, WriteBody
  <2>2. Unmoved'
    BY <1>14, <1>inv, UnmovedRequests DEF WriteBody
  <2>3. \A q \in Request : AnswerInv(q)'
    BY <1>14, <1>ranks DEF IInv, TypeOK, ProgressInv, AnswerInv, FrameInv, WriteBody
  <2>4. FrameInv'
    BY <1>14 DEF IInv, TypeOK, FrameInv, WriteBody
  <2> QED
    BY <2>1, <2>2, <2>3, <2>4 DEF IInv, Unmoved
<1>15. ASSUME NEW w \in Writer, WriteFails(w) PROVE IInv'
  <2>1. TypeOK'
    BY <1>15, <1>ranks DEF IInv, TypeOK, ProgressInv, AnswerInv, WriteFails
  <2>2. Unmoved'
    BY <1>15, <1>inv, UnmovedRequests DEF WriteFails
  <2>3. \A q \in Request : AnswerInv(q)'
    BY <1>15, <1>ranks DEF IInv, TypeOK, ProgressInv, AnswerInv, FrameInv, WriteFails
  <2>4. FrameInv'
    BY <1>15 DEF IInv, TypeOK, FrameInv, WriteFails
  <2> QED
    BY <2>1, <2>2, <2>3, <2>4 DEF IInv, Unmoved
<1>16. ASSUME NEW j \in Id, Cancel(j) PROVE IInv'
  <2>1. TypeOK'
    <3>1. handling[j] \in Request
      BY <1>16, <1>inv DEF TypeOK, Cancel
    <3> QED
      BY <1>16, <3>1, <1>inv DEF TypeOK, Cancel
  <2>2. Unmoved'
    BY <1>16, <1>inv, UnmovedRequests DEF Cancel
  <2>3. \A q \in Request : AnswerInv(q)'
    BY <1>16, <1>ranks DEF IInv, TypeOK, ProgressInv, AnswerInv, FrameInv, Cancel
  <2>4. FrameInv'
    BY <1>16 DEF IInv, TypeOK, FrameInv, Cancel
  <2> QED
    BY <2>1, <2>2, <2>3, <2>4 DEF IInv, Unmoved
<1>17. CASE CancelRun
  <2>1. TypeOK'
    BY <1>17, <1>ranks DEF IInv, TypeOK, ProgressInv, AnswerInv, CancelRun
  <2>2. Unmoved'
    BY <1>17, <1>inv, UnmovedRequests DEF CancelRun
  <2>3. \A q \in Request : AnswerInv(q)'
    BY <1>17, <1>ranks DEF IInv, TypeOK, ProgressInv, AnswerInv, FrameInv, CancelRun
  <2>4. FrameInv'
    BY <1>17 DEF IInv, TypeOK, FrameInv, CancelRun
  <2> QED
    BY <2>1, <2>2, <2>3, <2>4 DEF IInv, Unmoved
<1>18. CASE UNCHANGED vars
  BY <1>18 DEF vars, IInv, TypeOK, ProgressInv, AnswerInv, StartInOrder, AtLeast, CancelFindsCall, FrameInv
<1> QED
  BY <1>1, <1>2, <1>3, <1>4, <1>5, <1>6, <1>7, <1>8, <1>9, <1>10, <1>11, <1>12, <1>13, <1>14, <1>15, <1>16, <1>17, <1>18 DEF Next, Handler, Serve, Write

-----------------------------------------------------------------------------
\* The goroutines that serve requests make progress only in the order of the requests,
\* and every answer on its way to the stream is the only one its request will have.
THEOREM AnswersTravelOnce == Spec => []IInv
BY InitInv, Step, PTL DEF Spec

\* No channel is closed twice, which would panic, and the lock of the stream belongs to
\* the writer between its header and its body.
THEOREM TypeCorrect == Spec => []TypeOK
<1>1. IInv => TypeOK
  BY DEF IInv
<1> QED
  BY <1>1, AnswersTravelOnce, PTL

\* Requests start in the order of arrival, each after the one before it is parallel.
THEOREM OneSerialRequest == Spec => []StartInOrder
<1>1. IInv => StartInOrder
  BY DEF IInv
<1> QED
  BY <1>1, AnswersTravelOnce, PTL

\* Whatever the handlers do, a call that nobody cancels gets one answer unless
\* writing that answer fails, and no notification gets any.
THEOREM CallsAnsweredOnce == Spec => []AnsweredOnce
<1>1. IInv => AnsweredOnce
  <2> SUFFICES ASSUME IInv, NEW r \in 1..received
               PROVE  /\ place[r] = "done" /\ ~IsNotify(r) /\ ~CtxDone(r) /\ r \notin failed => sent[r] = 1
                      /\ sent[r] <= IF IsNotify(r) THEN 0 ELSE 1
    BY DEF AnsweredOnce
  <2>1. r \in Request /\ received \in 0..MaxRequests /\ sent \in [Writer -> Nat]
    BY ServeAssumption DEF IInv, TypeOK, Request
  <2>2. AnswerInv(r)
    BY <2>1 DEF IInv
  <2> QED
    BY <2>1, <2>2 DEF AnswerInv
<1> QED
  BY <1>1, AnswersTravelOnce, PTL

\* A cancellation reaches only calls whose handlers are not through, and finds every
\* one whose id no other call has used.
THEOREM CancelReachesCall == Spec => []CancelFindsCall
<1>1. IInv => CancelFindsCall
  BY DEF IInv
<1> QED
  BY <1>1, AnswersTravelOnce, PTL

\* No frame gets into another one whose own write has not failed.
THEOREM FramesStayWhole == Spec => FramesWhole
<1> DEFINE Whole == /\ \A w \in Writer : sent'[w] # sent[w] => open = w
                    /\ open' # open => Nobody \in {open, open'} \/ open \in failed
<1>1. IInv /\ [Next]_vars => [Whole]_vars
  <2> SUFFICES ASSUME IInv, Next PROVE Whole
    OBVIOUS
  <2>1. ASSUME NEW w \in Writer, WriteHeader(w) PROVE Whole
    BY <2>1 DEF WriteHeader, IInv, FrameInv
  <2>2. ASSUME NEW w \in Writer, WriteBody(w) PROVE Whole
    <3>1. w # Nobody /\ outMu = w
      BY <2>2, ServeAssumption DEF WriteBody, IInv, TypeOK, Writer, Request
    <3>2. open = w /\ open' = Nobody /\ sent' = [sent EXCEPT ![w] = sent[w] + 1]
      BY <3>1, <2>2 DEF WriteBody, IInv, FrameInv
    <3>3. \A v \in Writer : sent'[v] # sent[v] => v = w
      BY <3>2 DEF IInv, TypeOK
    <3> QED
      BY <3>2, <3>3
  <2>4. ASSUME NEW w \in Writer, WriteFails(w) PROVE Whole
    BY <2>4 DEF WriteFails, IInv, FrameInv, TypeOK
  <2>3. CASE UNCHANGED <<sent, open>>
    BY <2>3
  <2> QED
    BY <2>1, <2>2, <2>3, <2>4
       DEF Next, Handler, Serve, Write, StreamEnds, Receive, HandlerParallel, HandlerReplies,
           HandlerReturns, Start, DefaultHandler, StopHandling, DidNotReply, Finish, Notify,
           CheckContext, Cancel, CancelRun, outVars, streamVars
<1> QED
  BY <1>1, AnswersTravelOnce, PTL DEF Spec, FramesWhole

=============================================================================
