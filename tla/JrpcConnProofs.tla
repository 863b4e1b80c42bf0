--------------------------- MODULE JrpcConnProofs ---------------------------
(***************************************************************************)
(* Proofs about JrpcConn, for any number of concurrent calls, retries and  *)
(* lengths of a response, with timeouts, Close and cancellation at any     *)
(* point.                                                                  *)
(***************************************************************************)
EXTENDS JrpcConn, TLAPS

Reads(c) == reader.at = "read" /\ reader.of = c
Carried(c) == reader.at \in {"read", "send"} /\ reader.of = c

\* What Run is at.
ReaderInv ==
    /\ reader.at = "select" => reader = NextReply
    /\ reader.at = "ended" => reader.of = Nothing
    /\ reader.at = "read" => reader.of \in Call /\ reader.to = Nothing
    /\ reader.at = "send" => reader.of \in Call /\ reader.to \in Call /\ reader.chunks = 0

\* Each pipe has its writer until it is closed, and is in one place.
PipeInv(c) ==
    /\ replies = c \/ Reads(c) => pc[c] \in {"copy", "pipe"} \/ c \in closed
    /\ ~(replies = c /\ Reads(c))
    /\ c \in closed => pc[c] \in {"wait", "failed", "done"}
    /\ pc[c] = "pipe" => MaxChunks > 0 /\ (Reads(c) => reader.chunks < MaxChunks)

\* While the copies stay apart: the buffer belongs to the call that is to hand it over,
\* and the response to c passes through the channel of replies and through Run at most
\* once, so that it never finds the channel of its call taken.
ApartInv(c) ==
    /\ pc[c] = "pipe" => buf = {c}
    /\ Reads(c) => reader.got \subseteq {c}
    /\ reader.at = "send" => reader.to = reader.of
    /\ replies = c \/ Carried(c) => rchan[c] = Nothing
    /\ ~(replies = c /\ Carried(c))
    /\ (reader.at = "send" /\ reader.of = c) \/ rchan[c] # Nothing => c \in closed
    /\ rchan[c] # Nothing => rchan[c] = c

\* A call past its request was executed by the server.
ExecutedInv(c) ==
    /\ pc[c] \in {"served", "offer", "copy", "pipe", "wait", "failed"} => c \in executed
    /\ replies = c \/ Reads(c) \/ c \in closed => c \in executed
    /\ CopiesApart /\ result[c] = "answered" => rchan[c] = c /\ pc[c] = "done"

IInv ==
    /\ TypeOK
    /\ ReaderInv
    /\ \A c \in Call : PipeInv(c) /\ ExecutedInv(c) /\ (CopiesApart => ApartInv(c))

-----------------------------------------------------------------------------
\* A connection with no call in progress satisfies it.
LEMMA InitInv == Init => IInv
<1> SUFFICES ASSUME Init PROVE IInv
  OBVIOUS
<1> USE CallAssumption, BoundAssumption
<1>1. token \in BOOLEAN
  BY Zenon DEF Init
<1>2. /\ reader = [at |-> "select", of |-> Nothing, got |-> {}, chunks |-> 0, to |-> Nothing]
      /\ reader.at = "select" /\ reader.of = Nothing
  BY DEF Init, NextReply
<1>3. TypeOK
  <2>1. /\ pending = {c \in Call : InProgress(c)}
        /\ \A c \in Call : login = c <=> pc[c] = "login"
    BY DEF Init, InProgress
  <2>2. /\ pc \in [Call -> Place]
        /\ result \in [Call -> {"none", "answered", "failed"}]
        /\ retries \in 0..MaxRetries
        /\ rchan \in [Call -> Call \cup {Nothing}]
    BY DEF Init, Place
  <2> QED
    BY <1>1, <1>2, <2>1, <2>2 DEF Init, TypeOK
<1>4. ReaderInv
  BY <1>2 DEF ReaderInv, NextReply
<1>5. ASSUME NEW c \in Call PROVE PipeInv(c) /\ ExecutedInv(c) /\ ApartInv(c)
  BY <1>2 DEF Init, PipeInv, ExecutedInv, ApartInv, Reads, Carried
<1> QED
  BY <1>3, <1>4, <1>5 DEF IInv

\* Every step of a call, of Run, of the timers and of the client keeps it.
LEMMA Step == IInv /\ [Next]_vars => IInv'
<1> SUFFICES ASSUME IInv, [Next]_vars PROVE IInv'
  OBVIOUS
<1> USE CallAssumption, BoundAssumption
<1> USE DEF IInv, TypeOK, ReaderInv, PipeInv, ApartInv, ExecutedInv, Reads, Carried, CopiesApart, NextReply, Place, InProgress, Goto, Return, callVars, streamVars, copyVars, clientVars, serverVars
<1>1. ASSUME NEW c \in Call, Register(c) PROVE IInv'
  BY <1>1 DEF Register
<1>2. ASSUME NEW c \in Call, WriteGivesUp(c) PROVE IInv'
  BY <1>2 DEF WriteGivesUp
<1>3. ASSUME NEW c \in Call, RoundTrip(c) PROVE IInv'
  BY <1>3 DEF RoundTrip
<1>4. ASSUME NEW c \in Call, TakeToken(c) PROVE IInv'
  BY <1>4 DEF TakeToken
<1>5. ASSUME NEW c \in Call, LoginSucceeds(c) PROVE IInv'
  BY <1>5 DEF LoginSucceeds
<1>6. ASSUME NEW c \in Call, LoginFails(c) PROVE IInv'
  BY <1>6 DEF LoginFails
<1>7. ASSUME NEW c \in Call, Serve(c) PROVE IInv'
  BY <1>7 DEF Serve
<1>8. ASSUME NEW c \in Call, Answered(c) PROVE IInv'
  BY <1>8 DEF Answered
<1>9. ASSUME NEW c \in Call, RetryAsked(c) PROVE IInv'
  BY <1>9 DEF RetryAsked
<1>10. ASSUME NEW c \in Call, PostFails(c) PROVE IInv'
  BY <1>10 DEF PostFails
<1>11. ASSUME NEW c \in Call, Offer(c) PROVE IInv'
  BY <1>11 DEF Offer
<1>12. ASSUME NEW c \in Call, OfferGivesUp(c) PROVE IInv'
  BY <1>12 DEF OfferGivesUp
<1>13. ASSUME NEW c \in Call, ReadBody(c) PROVE IInv'
  <2> DEFINE others == {d \in Call \ {c} : pc[d] = "pipe"}
  <2>1. /\ pc[c] = "copy" /\ pc' = [pc EXCEPT ![c] = "pipe"]
        /\ overwritten' = overwritten \cup others
        /\ c \in buf' /\ buf' \subseteq Call /\ buf' \subseteq {c} \cup others
        /\ (reader.of = c => reader.chunks < MaxChunks) /\ MaxChunks > 0
        /\ UNCHANGED <<callVars, timedOut, replies, closed, reader, rchan, clientVars, serverVars>>
    BY <1>13 DEF ReadBody, Handed
  <2>2. TypeOK'
    BY <2>1
  <2>3. overwritten' = {} => overwritten = {} /\ others = {} /\ buf' = {c}
    BY <2>1
  <2>4. ASSUME NEW d \in Call, CopiesApart' PROVE ApartInv(d)'
    BY <2>1, <2>3, <2>4
  <2> QED
    BY <2>1, <2>2, <2>3, <2>4
<1>14. ASSUME NEW c \in Call, Piped(c) PROVE IInv'
  <2>1. PICK part \in SUBSET buf : reader' = [reader EXCEPT !.got = @ \cup part, !.chunks = @ + 1]
    BY <1>14 DEF Piped
  <2>2. /\ pc[c] = "pipe" /\ reader.at = "read" /\ reader.of = c
        /\ pc' = [pc EXCEPT ![c] = "copy"]
        /\ UNCHANGED <<callVars, timedOut, replies, closed, rchan, copyVars, clientVars, serverVars>>
    BY <1>14 DEF Piped
  <2>3. /\ reader'.at = "read" /\ reader'.of = c /\ reader'.to = Nothing
        /\ reader'.got = reader.got \cup part /\ reader'.chunks = reader.chunks + 1
    BY <2>1, <2>2
  <2>4. TypeOK'
    <3>1. reader.chunks + 1 \in 0..MaxChunks /\ reader.got \cup part \in SUBSET Call
      BY <2>2
    <3>2. reader' = [at |-> "read", of |-> c, got |-> reader.got \cup part,
                     chunks |-> reader.chunks + 1, to |-> Nothing]
      BY <2>1, <2>2
    <3>3. reader' \in [at : {"select", "read", "send", "ended"}, of : Call \cup {Nothing},
                       got : SUBSET Call, chunks : 0..MaxChunks, to : Call \cup {Nothing}]
      BY <3>1, <3>2
    <3> QED
      BY <2>2, <3>3
  <2>5. ASSUME NEW d \in Call, CopiesApart' PROVE ApartInv(d)'
    <3>1. part \subseteq {c} /\ reader.got \subseteq {c}
      BY <2>2, <2>5
    <3> QED
      BY <2>2, <2>3, <2>5, <3>1
  <2> QED
    BY <2>2, <2>3, <2>4, <2>5
<1>15. ASSUME NEW c \in Call, BodyEnds(c) PROVE IInv'
  BY <1>15 DEF BodyEnds
<1>16. ASSUME NEW c \in Call, BodyFails(c) PROVE IInv'
  BY <1>16 DEF BodyFails
<1>17. ASSUME NEW c \in Call, WriteFails(c) PROVE IInv'
  BY <1>17 DEF WriteFails
<1>18. ASSUME NEW c \in Call, Receive(c) PROVE IInv'
  BY <1>18 DEF Receive
<1>19. ASSUME NEW c \in Call, WaitGivesUp(c) PROVE IInv'
  BY <1>19 DEF WaitGivesUp
<1>20. ASSUME NEW c \in Call, Timeout(c) PROVE IInv'
  BY <1>20 DEF Timeout
<1>21. CASE ReadReply
  <2>1. /\ reader = NextReply /\ replies # Nothing /\ replies \in Call
        /\ reader' = [at |-> "read", of |-> replies, got |-> {}, chunks |-> 0, to |-> Nothing]
        /\ reader'.at = "read" /\ reader'.of = replies /\ replies' = Nothing
    BY <1>21 DEF ReadReply
  <2>2. TypeOK'
    BY <1>21, <2>1 DEF ReadReply
  <2> QED
    BY <1>21, <2>1, <2>2 DEF ReadReply
<1>22. CASE RunEnds
  BY <1>22 DEF RunEnds
<1>23. CASE Undecodable
  BY <1>23 DEF Undecodable
<1>24. CASE Lookup
  <2>1. /\ reader.at = "read" /\ reader.of \in Call /\ reader.of \in closed
        /\ UNCHANGED <<pc, callVars, timedOut, replies, closed, rchan, copyVars, clientVars, serverVars>>
    BY <1>24 DEF Lookup
  <2>2. PICK response \in Decoded(reader.got) :
            reader' = IF Recipient(response[1]) = Nothing THEN NextReply
                      ELSE [NextReply EXCEPT !.at = "send", !.of = response[2], !.to = Recipient(response[1])]
    BY <1>24 DEF Lookup
  <2>3. PICK id \in Call, answer \in reader.got :
            /\ response[1] = id /\ response[2] = answer
            /\ (\E c \in Call : reader.got = {c}) => id = answer
    BY <2>2 DEF Decoded
  <2>4. \/ reader' = NextReply
        \/ reader' = [at |-> "send", of |-> answer, got |-> {}, chunks |-> 0, to |-> id]
    BY <2>2, <2>3 DEF Recipient
  <2>5. TypeOK'
    BY <2>1, <2>3, <2>4
  <2>6. CopiesApart => id = reader.of /\ answer = reader.of
    BY <2>1, <2>3
  <2>7. ASSUME NEW d \in Call, CopiesApart' PROVE ApartInv(d)'
    BY <2>1, <2>4, <2>6, <2>7
  <2> QED
    BY <2>1, <2>3, <2>4, <2>5, <2>7
<1>25. CASE Send
  BY <1>25 DEF Send, Room
<1>26. CASE Close
  BY <1>26 DEF Close
<1>27. CASE CancelParent
  BY <1>27 DEF CancelParent
<1>28. CASE TokenExpires
  <2>1. token' \in BOOLEAN
    BY <1>28, Zenon DEF TokenExpires
  <2> QED
    BY <1>28, <2>1 DEF TokenExpires
<1>29. CASE UNCHANGED vars
  BY <1>29 DEF vars
<1> QED
  BY <1>1, <1>2, <1>3, <1>4, <1>5, <1>6, <1>7, <1>8, <1>9, <1>10, <1>11, <1>12, <1>13, <1>14, <1>15, <1>16, <1>17, <1>18, <1>19, <1>20, <1>21, <1>22, <1>23, <1>24, <1>25, <1>26, <1>27, <1>28, <1>29 DEF Next, Caller, Run

-----------------------------------------------------------------------------
\* Every pipe has its writer until it is closed; and while the copies stay apart, a
\* response has at most one way to its call and takes it at most once.
THEOREM Invariance == Spec => []IInv
<1>1. Init => IInv
  BY InitInv
<1>2. IInv /\ [Next]_vars => IInv'
  BY Step
<1> QED
  BY <1>1, <1>2, PTL DEF Spec

\* Types; a call is registered as pending exactly while it is in progress.
THEOREM TypeCorrect == Spec => []TypeOK
<1>1. IInv => TypeOK
  BY DEF IInv
<1> QED
  BY <1>1, Invariance, PTL

\* No call that gives up leaves Run waiting on its pipe, whatever the bytes in it.
THEOREM PipesHaveWriters == Spec => []PipeHasWriter
<1>1. IInv => PipeHasWriter
  BY DEF IInv, PipeInv, Reads, PipeHasWriter
<1> QED
  BY <1>1, Invariance, PTL

\* While the copies stay apart, Run hands a response over without waiting, whether or
\* not its call is still there: the channel it sends to is empty.
THEOREM HandOverNeverBlocks == Spec => []SendNeverBlocks
<1>1. IInv => SendNeverBlocks
  <2> SUFFICES ASSUME IInv, CopiesApart, reader.at = "send" PROVE Room(reader.to)
    BY DEF SendNeverBlocks
  <2>1. reader.of \in Call /\ reader.to = reader.of /\ Carried(reader.of)
    BY DEF IInv, ReaderInv, ApartInv, Carried
  <2> QED
    BY <2>1 DEF IInv, ApartInv, Room
<1> QED
  BY <1>1, Invariance, PTL

\* While the copies stay apart, each call that reports an answer got the answer to its
\* own request, which the server executed.
THEOREM AnswersAreOwn == Spec => []OwnAnswer
<1>1. IInv => OwnAnswer
  BY CallAssumption DEF IInv, ExecutedInv, ApartInv, CopiesApart, OwnAnswer
<1> QED
  BY <1>1, Invariance, PTL

=============================================================================
