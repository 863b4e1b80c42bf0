------------------------------ MODULE JrpcPool ------------------------------
(***************************************************************************)
(* The pool of management addresses every request of a scale-down round    *)
(* goes through (lib/jrpc/pool.go): a call is sent to the active backend,  *)
(* and on some errors that backend is dropped and the next one is tried.   *)
(*                                                                         *)
(* The pool belongs to one goroutine, which makes one call after another   *)
(* and drops the addresses of the machines it removes or deactivates       *)
(* (scale_down/scale_down.go).  What a backend does with a request is the  *)
(* matter of JrpcConn; here a request is executed or not, and answered     *)
(* with one of the kinds of errors the pool tells apart.                   *)
(***************************************************************************)
EXTENDS Integers, Sequences, FiniteSets, Functions

CONSTANTS
    Backend,            \* the addresses the pool is built with
    None,               \* the empty Active
    MaxCalls            \* bound: calls made in a round

ASSUME PoolAssumption ==
    /\ IsFiniteSet(Backend) /\ None \notin Backend
    /\ MaxCalls \in Nat

VARIABLES
    Ips,        \* the addresses left
    Active,     \* the address calls are sent to, or None
    Clients,    \* the addresses a client was built for
    made,       \* number of calls made
    calling,    \* whether the last of them is in progress
    answer,     \* how each call ended, by number
    executed,   \* the calls some backend executed
    tried,      \* backends the last call was sent to
    repeated,   \* the calls sent to one backend more than once
    dropped     \* every address dropped so far

vars == <<Ips, Active, Clients, made, calling, answer, executed, tried, repeated, dropped>>

-----------------------------------------------------------------------------
\* Errors that make the pool turn to another backend.
FailoverError == {"connection refused", "context deadline exceeded", "Method not found",
                  "tokenSource failed to acquire token"}
OtherError == {"other error"}
Answer == FailoverError \cup OtherError \cup {"ok"}

\* Mutants: the list is truncated without moving its last element; the active
\* backend stays active; the dropped address stays in the list.
Drop_Truncating(b) ==
    /\ Active' = IF Active = b THEN None ELSE Active
    /\ Ips' = IF b \in Range(Ips) THEN SubSeq(Ips, 1, Len(Ips) - 1) ELSE Ips
    /\ dropped' = dropped \cup {b}
Drop_KeepsActive(b) ==
    /\ Active' = Active
    /\ Ips' = IF \E i \in DOMAIN Ips : Ips[i] = b
              THEN LET i == CHOOSE i \in DOMAIN Ips : Ips[i] = b
                   IN  SubSeq([Ips EXCEPT ![i] = Ips[Len(Ips)]], 1, Len(Ips) - 1)
              ELSE Ips
    /\ dropped' = dropped \cup {b}

Drop_StaysListed(b) ==
    /\ Active' = IF Active = b THEN None ELSE Active
    /\ UNCHANGED Ips
    /\ dropped' = dropped \cup {b}

\* The dropped address is overwritten by the last one.
Drop(b) ==
    /\ Active' = IF Active = b THEN None ELSE Active
    /\ Ips' = IF \E i \in DOMAIN Ips : Ips[i] = b
              THEN LET i == CHOOSE i \in DOMAIN Ips : Ips[i] = b
                   IN  SubSeq([Ips EXCEPT ![i] = Ips[Len(Ips)]], 1, Len(Ips) - 1)
              ELSE Ips
    /\ dropped' = dropped \cup {b}

-----------------------------------------------------------------------------
\* The caller makes a call ...
Begin ==
    /\ ~calling /\ made < MaxCalls
    /\ made' = made + 1 /\ calling' = TRUE
    /\ tried' = {}
    /\ UNCHANGED <<Ips, Active, Clients, answer, executed, repeated, dropped>>

\* ... or drops a machine it has deactivated or is about to remove.
DropMachine(b) ==
    /\ ~calling
    /\ Drop(b)
    /\ UNCHANGED <<Clients, made, calling, answer, executed, tried, repeated>>

Ended(how) ==
    /\ calling' = FALSE
    /\ answer' = [answer EXCEPT ![made] = how]

\* An empty pool reports success.
CallNobody ==
    /\ calling /\ Ips = <<>>
    /\ Ended("ok")
    /\ UNCHANGED <<Ips, Active, Clients, made, executed, tried, repeated, dropped>>

\* The first address left becomes the active one, and a client is built for it.
Elect ==
    /\ calling /\ Ips # <<>> /\ Active = None
    /\ Active' = Ips[1]
    /\ Clients' = Clients \cup {Ips[1]}
    /\ UNCHANGED <<Ips, made, calling, answer, executed, tried, repeated, dropped>>

\* The active backend executes the request or not and answers a; on some errors it
\* is dropped and the call starts over, others are returned.  An error says nothing
\* about the request: an attempt may have been executed before the error.
CallActive(ran, a) ==
    /\ calling /\ Ips # <<>> /\ Active # None
    /\ a = "ok" => ran
    /\ tried' = tried \cup {Active}
    /\ repeated' = IF Active \in tried THEN repeated \cup {made} ELSE repeated
    /\ executed' = IF ran THEN executed \cup {made} ELSE executed
    /\ IF a \in FailoverError
       THEN Drop(Active) /\ UNCHANGED <<calling, answer>>
       ELSE Ended(a) /\ UNCHANGED <<Ips, Active, dropped>>
    /\ UNCHANGED <<Clients, made>>

-----------------------------------------------------------------------------
\* The list of addresses is shuffled.
Init ==
    /\ Ips \in Bijection(1..Cardinality(Backend), Backend)
    /\ Active = None /\ Clients = {} /\ made = 0 /\ calling = FALSE
    /\ answer = [n \in 1..MaxCalls |-> "none"]
    /\ executed = {} /\ tried = {} /\ repeated = {} /\ dropped = {}

Call == CallNobody \/ Elect \/ \E ran \in BOOLEAN, a \in Answer : CallActive(ran, a)

Next ==
    \/ Begin
    \/ \E b \in Backend : DropMachine(b)
    \/ Call

Spec == Init /\ [][Next]_vars

\* A call is a loop of one goroutine, and every backend answers or times out.
FairSpec == Spec /\ WF_vars(Call)

-----------------------------------------------------------------------------
(* Properties.                                                             *)

\* Every variable has its type, and the active backend has a client.
TypeOK ==
    /\ Ips \in Seq(Backend)
    /\ Active \in Clients \cup {None} /\ Clients \subseteq Backend
    /\ made \in 0..MaxCalls /\ calling \in BOOLEAN
    /\ answer \in [1..MaxCalls -> {"none", "ok"} \cup OtherError]
    /\ executed \subseteq 1..made /\ repeated \subseteq 1..made
    /\ tried \subseteq Backend /\ dropped \subseteq Backend

\* Whatever was dropped in whatever order, exactly the other addresses are left, and
\* no call goes to a backend that failed, was deactivated or is being removed.
OnlyDroppedMissing ==
    /\ Range(Ips) = Backend \ dropped
    /\ Active # None => Active \notin dropped

\* The pool never sends a call twice to the same backend.
SentOncePerBackend == repeated = {}

\* A call nobody executed reports success only after every backend was dropped.
SilentOnlyWhenEmpty ==
    \A n \in 1..MaxCalls : answer[n] = "ok" /\ n \notin executed => dropped = Backend

\* Every call comes to an end: failing over does not go round in circles.
CallEnds == calling ~> ~calling

=============================================================================
