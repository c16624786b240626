---------------------------- MODULE RateLimiter ----------------------------
(***************************************************************************)
(* RateLimitMiddleware with its two limiters.  InMemoryRateLimiter checks  *)
(* a request in one step of the event loop.  FirestoreRateLimiter reads    *)
(* the document of the client, and commits the new one only if nobody      *)
(* wrote it in between; the transaction is tried again otherwise, and an   *)
(* error of any kind, also one after the commit was applied, is answered   *)
(* with 503.  Any number of API processes share the documents.             *)
(*                                                                         *)
(* Every process reads the same clock.  The Retry-After header of a 429 is *)
(* left out: nothing in the program depends on it.                         *)
(***************************************************************************)
EXTENDS Integers, FiniteSets

CONSTANTS
    Requests,       \* the requests that arrive, each once
    Inputs,         \* what they may look like
    Clients,        \* the addresses they come from, or are forwarded for
    Trusted,        \* the addresses of trusted proxies
    Backends,       \* "memory" (no Firebase configured), "firestore"
    BucketLimit,    \* the configured limit of each bucket, 0 for none
    Window,         \* RATE_LIMIT_WINDOW_SECONDS
    MaxTries,       \* how often Firestore tries a transaction
    MaxClock        \* bound: the last tick

Buckets == {"auth", "llm", "campaign", "default"}
Routes == {"health", "auth", "verify", "start", "campaigns", "other"}

ASSUME LimiterConstants ==
    /\ Inputs \subseteq [route : Routes, method : {"GET", "POST"},
                         peer : Clients, forwarded : Clients \cup {"none"}]
    /\ Inputs # {}
    /\ "none" \notin Clients /\ Trusted \subseteq Clients
    /\ Backends \subseteq {"memory", "firestore"}
    /\ BucketLimit \in [Buckets -> Nat]
    /\ Window \in Nat \ {0} /\ MaxTries \in Nat /\ MaxClock \in Nat

VARIABLES
    backend, \* which limiter _get_limiter gives
    clock,
    docs,    \* the count and the start of the window, per key
    pc,      \* where each request is
    input,   \* what it looks like
    seen,    \* the document its transaction has read
    at,      \* the time its check has read, 0 if it was not counted
    tries,   \* how often its transaction was tried again
    answer   \* what it was told

vars == <<backend, clock, docs, pc, input, seen, at, tries, answer>>

-----------------------------------------------------------------------------
(* What is counted, and for whom. *)

\* _classify: the bucket of a request; health checks and the docs have none.
Bucket(i) ==
    CASE i.route = "health" -> "exempt"
      [] i.route = "auth" -> "auth"
      [] i.route = "verify" -> "llm"
      [] i.route = "start" -> "campaign"
      [] i.route = "campaigns" /\ i.method = "POST" -> "campaign"
      [] OTHER -> "default"

\* _client_ip: a forwarded address counts only when a trusted proxy sends it.
Client_AnyProxy(i) == IF i.forwarded # "none" THEN i.forwarded ELSE i.peer
Client(i) ==
    IF i.peer \in Trusted /\ i.forwarded # "none" THEN i.forwarded ELSE i.peer

Key(i) == <<Bucket(i), Client(i)>>
Limited(i) == Bucket(i) # "exempt" /\ BucketLimit[Bucket(i)] > 0
Keys == {Key(i) : i \in {j \in Inputs : Limited(j)}}
Limit == [k \in Keys |-> BucketLimit[k[1]]]

NoDoc == [count |-> 0, start |-> 0]
Phases == {"idle", "read", "commit", "done"}
Answers == {"none", "passed", "granted", "denied", "unavailable"}

\* The clock is past the epoch by more than a window.
LimiterInit ==
    /\ backend \in Backends /\ clock = Window + 1
    /\ docs = [k \in Keys |-> NoDoc]
    /\ pc = [r \in Requests |-> "idle"]
    /\ input \in [Requests -> {CHOOSE i \in Inputs : TRUE}]
    /\ seen = [r \in Requests |-> NoDoc]
    /\ at = [r \in Requests |-> 0] /\ tries = [r \in Requests |-> 0]
    /\ answer = [r \in Requests |-> "none"]

-----------------------------------------------------------------------------
(* One fixed window. *)

Expired_OffByOne(doc, now) == now - doc.start > Window
Expired_Early(doc, now) == now - doc.start >= Window - 1
Expired(doc, now) == now - doc.start >= Window

\* The document after one more request, in FirestoreRateLimiter.
Counted(doc, now) ==
    IF Expired(doc, now) THEN [count |-> 1, start |-> now]
    ELSE [doc EXCEPT !.count = @ + 1]

-----------------------------------------------------------------------------
(* The steps of a request. *)

Told(r, what) ==
    /\ answer' = [answer EXCEPT ![r] = what]
    /\ pc' = [pc EXCEPT ![r] = "done"]
    /\ seen' = [seen EXCEPT ![r] = NoDoc]
    /\ tries' = [tries EXCEPT ![r] = 0]

\* Requests that nobody counts go through.
Exempted(r, i) ==
    /\ ~Limited(i) /\ Told(r, "passed")
    /\ UNCHANGED <<docs, at>>

\* InMemoryRateLimiter.check: a request that is denied is not counted.
CheckInMemory(r, i) ==
    LET doc == IF Expired(docs[Key(i)], clock)
               THEN [count |-> 0, start |-> clock] ELSE docs[Key(i)]
    IN  /\ Limited(i) /\ backend = "memory"
        /\ at' = [at EXCEPT ![r] = clock]
        /\ IF doc.count >= Limit[Key(i)]
           THEN Told(r, "denied") /\ UNCHANGED docs
           ELSE /\ Told(r, "granted")
                /\ docs' = [docs EXCEPT ![Key(i)] = [doc EXCEPT !.count = @ + 1]]

\* The store of the limiter cannot be built, or the transaction begins.
Unbuilt(r, i) ==
    /\ Limited(i) /\ backend = "firestore" /\ Told(r, "unavailable")
    /\ UNCHANGED <<docs, at>>

BeginTransaction(r, i) ==
    /\ Limited(i) /\ backend = "firestore"
    /\ pc' = [pc EXCEPT ![r] = "read"]
    /\ UNCHANGED <<docs, seen, at, tries, answer>>

\* RateLimitMiddleware.dispatch
Dispatch(r) ==
    /\ pc[r] = "idle"
    /\ \E i \in Inputs :
          /\ input' = [input EXCEPT ![r] = i]
          /\ \/ Exempted(r, i) \/ CheckInMemory(r, i)
             \/ Unbuilt(r, i) \/ BeginTransaction(r, i)
    /\ UNCHANGED <<backend, clock>>

\* _compute reads the document and the time.  That the clock may move between
\* the two changes nothing: what it read is still there when it commits.
Read(r) ==
    /\ pc[r] = "read"
    /\ seen' = [seen EXCEPT ![r] = docs[Key(input[r])]]
    /\ at' = [at EXCEPT ![r] = clock]
    /\ pc' = [pc EXCEPT ![r] = "commit"]
    /\ UNCHANGED <<backend, clock, docs, input, tries, answer>>

Written(r) == [docs EXCEPT ![Key(input[r])] = Counted(seen[r], at[r])]
Unchanged(r) == docs[Key(input[r])] = seen[r]

Commit(r) ==
    /\ pc[r] = "commit" /\ Unchanged(r)
    /\ docs' = Written(r)
    /\ Told(r, IF Counted(seen[r], at[r]).count > Limit[Key(input[r])]
               THEN "denied" ELSE "granted")
    /\ UNCHANGED <<backend, clock, input, at>>

TryAgain(r) ==
    /\ pc[r] = "commit" /\ ~Unchanged(r) /\ tries[r] < MaxTries
    /\ tries' = [tries EXCEPT ![r] = @ + 1]
    /\ pc' = [pc EXCEPT ![r] = "read"]
    /\ UNCHANGED <<backend, clock, docs, input, seen, at, answer>>

\* An outage, or too much contention.  When the answer of the commit is lost,
\* the document may have been written.
Fail(r) ==
    /\ pc[r] \in {"read", "commit"}
    /\ Told(r, "unavailable")
    /\ \/ UNCHANGED docs /\ at' = [at EXCEPT ![r] = 0]
       \/ pc[r] = "commit" /\ Unchanged(r) /\ docs' = Written(r) /\ UNCHANGED at
    /\ UNCHANGED <<backend, clock, input>>

Tick ==
    /\ clock < MaxClock /\ clock' = clock + 1
    /\ UNCHANGED <<backend, docs, pc, input, seen, at, tries, answer>>

RequestStep(r) == Dispatch(r) \/ Read(r) \/ Commit(r) \/ TryAgain(r) \/ Fail(r)

LimiterNext == Tick \/ \E r \in Requests : RequestStep(r)

LimiterSpec == LimiterInit /\ [][LimiterNext]_vars

-----------------------------------------------------------------------------
(* Properties. *)

\* Every variable keeps its type; a document counts from the time it was opened.
LimiterTypeOK ==
    /\ backend \in Backends /\ clock \in Nat
    /\ docs \in [Keys -> [count : Nat, start : Nat]]
    /\ pc \in [Requests -> Phases] /\ input \in [Requests -> Inputs]
    /\ seen \in [Requests -> [count : Nat, start : Nat]]
    /\ at \in [Requests -> Nat] /\ tries \in [Requests -> 0..MaxTries]
    /\ answer \in [Requests -> Answers]

Those(what) == {r \in Requests : answer[r] = what}
Within(r, t) == t <= at[r] /\ at[r] < t + Window

\* Around the end of a window a client may be granted nearly twice its limit,
\* but never twice: in no interval as long as a window, wherever it begins,
\* and with whatever header a client that is no proxy sends.
IntervalBound ==
    \A b \in Buckets, p \in Clients \ Trusted, t \in {at[r] : r \in Requests} :
        BucketLimit[b] > 0 =>
            Cardinality({r \in Those("granted") :
                /\ Bucket(input[r]) = b /\ input[r].peer = p /\ Within(r, t)})
              <= 2 * BucketLimit[b] - 1

\* A request is denied only because of as many others of the same client in
\* the window before it, granted ones or ones Firestore failed to answer.
DeniedOnlyWhenFull ==
    \A r \in Those("denied") :
        Cardinality({q \in Those("granted") \cup Those("unavailable") :
            /\ Key(input[q]) = Key(input[r])
            /\ at[q] <= at[r] /\ at[r] < at[q] + Window}) >= Limit[Key(input[r])]

\* Both limiters grant what one atomic fixed window would.
Abstract == INSTANCE FixedWindow WITH
    opened <- [k \in Keys |-> docs[k].start],
    used <- [k \in Keys |-> IF docs[k].count < Limit[k] THEN docs[k].count
                            ELSE Limit[k]]
ImplementsWindow == Abstract!WindowSpec
=============================================================================
