------------------------- MODULE RateLimiter_proofs -------------------------
(***************************************************************************)
(* Both limiters implement FixedWindow, for any number of requests,        *)
(* clients and API processes, any limits and any window.                   *)
(*                                                                         *)
(* A transaction commits only what it computed from the document that is   *)
(* still there, so its one step is the step of an atomic window.  That     *)
(* needs to know that a request which is in a transaction is counted, so   *)
(* that it has a document, and was told nothing yet (Served).              *)
(*                                                                         *)
(* How many requests are granted, and why others are denied, is about sets *)
(* of requests, so it also needs that only finitely many have begun        *)
(* (Started) and when they were counted (TimesInv): a document only grows, *)
(* so one that is unchanged was written by nobody since it was read.       *)
(* GrantsFit is the inductive form of the bound on an interval: the        *)
(* request that opens a window lies on its first tick, so that an interval *)
(* which reaches into the next window has one slot less of this one.       *)
(***************************************************************************)
EXTENDS RateLimiter, FiniteSetTheorems, TLAPS

Doc == [count : Nat, start : Nat]

Served ==
    \A r \in Requests :
        /\ pc[r] # "done" => answer[r] = "none"
        /\ pc[r] \in {"read", "commit"} => Limited(input[r])

LimiterInv == LimiterTypeOK /\ Served

-----------------------------------------------------------------------------
(* Keys, limits and documents. *)

\* A request that is limited has a key, and a key has a limit.
LEMMA KeysLimited ==
  /\ \A i \in Inputs : Limited(i) => Key(i) \in Keys
  /\ \A k \in Keys : Limit[k] \in Nat \ {0}
<1>1. \A i \in Inputs : Bucket(i) \in Buckets \cup {"exempt"}
  BY DEF Bucket, Buckets
<1>2. \A i \in Inputs : Limited(i) => BucketLimit[Bucket(i)] \in Nat \ {0}
  BY <1>1, LimiterConstants DEF Limited
<1>3. ASSUME NEW k \in Keys PROVE Limit[k] \in Nat \ {0}
  <2>1. PICK i \in Inputs : Limited(i) /\ k = Key(i)
    BY DEF Keys
  <2>2. Limit[k] = BucketLimit[Bucket(i)]
    BY <2>1 DEF Limit, Key
  <2> QED
    BY <1>2, <2>1, <2>2
<1> QED
  BY <1>3 DEF Keys

\* What counting a request does to a document.
LEMMA CountedDoc ==
  ASSUME NEW doc \in Doc, NEW now \in Nat
  PROVE  /\ Counted(doc, now) \in Doc
         /\ Expired(doc, now) =>
               Counted(doc, now).count = 1 /\ Counted(doc, now).start >= doc.start + Window
         /\ ~Expired(doc, now) =>
               /\ Counted(doc, now).count = doc.count + 1
               /\ Counted(doc, now).start = doc.start
<1>0. Window \in Nat /\ doc.count \in Nat /\ doc.start \in Nat
  BY LimiterConstants DEF Doc
<1>1. CASE Expired(doc, now)
  <2>1. Counted(doc, now) = [count |-> 1, start |-> now] /\ now >= doc.start + Window
    BY <1>0, <1>1 DEF Counted, Expired
  <2> QED
    BY <1>0, <1>1, <2>1 DEF Doc
<1>2. CASE ~Expired(doc, now)
  <2>1. Counted(doc, now) = [doc EXCEPT !.count = @ + 1]
    BY <1>2 DEF Counted
  <2> QED
    BY <1>0, <1>2, <2>1 DEF Doc
<1> QED
  BY <1>1, <1>2

\* What a document that is written means for the window.
LEMMA DocumentWritten ==
  ASSUME docs \in [Keys -> Doc], NEW k \in Keys, NEW doc \in Doc,
         docs' = [docs EXCEPT ![k] = doc]
  PROVE  /\ /\ docs[k].count < Limit[k]
            /\ doc.count = docs[k].count + 1 /\ doc.start = docs[k].start
            => Abstract!TakeNext(k)
         /\ doc.count = 1 /\ doc.start >= docs[k].start + Window => Abstract!TakeFirst(k)
         /\ /\ docs[k].count >= Limit[k] /\ doc.count >= Limit[k]
            /\ doc.start = docs[k].start
            => UNCHANGED Abstract!window
<1> DEFINE Opened == [j \in Keys |-> docs[j].start]
           Used == [j \in Keys |-> IF docs[j].count < Limit[j] THEN docs[j].count ELSE Limit[j]]
           used == IF doc.count < Limit[k] THEN doc.count ELSE Limit[k]
<1>0. /\ \A j \in Keys : docs[j].count \in Nat /\ docs[j].start \in Nat /\ Limit[j] \in Nat \ {0}
      /\ doc.count \in Nat /\ doc.start \in Nat
  BY KeysLimited DEF Doc
<1>1. Opened' = [Opened EXCEPT ![k] = doc.start]
  OBVIOUS
<1>2. Used' = [Used EXCEPT ![k] = used]
  OBVIOUS
<1>3. Opened[k] = docs[k].start /\ Opened'[k] = doc.start
  OBVIOUS
<1>4. Used[k] = IF docs[k].count < Limit[k] THEN docs[k].count ELSE Limit[k]
  OBVIOUS
<1>5. ASSUME docs[k].count < Limit[k], doc.count = docs[k].count + 1,
             doc.start = docs[k].start
      PROVE  Abstract!TakeNext(k)
  <2>1. Used[k] < Limit[k] /\ used = Used[k] + 1
    BY <1>0, <1>4, <1>5
  <2>2. Opened' = Opened
    BY <1>1, <1>3, <1>5
  <2>3. Used' = [Used EXCEPT ![k] = Used[k] + 1]
    BY <1>2, <2>1
  <2> QED
    BY <2>1, <2>2, <2>3 DEF Abstract!TakeNext
<1>6. ASSUME doc.count = 1, doc.start >= docs[k].start + Window PROVE Abstract!TakeFirst(k)
  <2>1. used = 1
    BY <1>0, <1>6
  <2>2. Opened'[k] >= Opened[k] + Window
    BY <1>3, <1>6
  <2>3. Opened' = [Opened EXCEPT ![k] = Opened'[k]]
    BY <1>1, <1>3
  <2>4. Used' = [Used EXCEPT ![k] = 1]
    BY <1>2, <2>1
  <2> QED
    BY <2>2, <2>3, <2>4 DEF Abstract!TakeFirst
<1>7. ASSUME docs[k].count >= Limit[k], doc.count >= Limit[k], doc.start = docs[k].start
      PROVE  UNCHANGED Abstract!window
  <2>1. used = Limit[k] /\ Used[k] = Limit[k]
    BY <1>0, <1>4, <1>7
  <2>2. Opened' = Opened
    BY <1>1, <1>3, <1>7
  <2>3. Used' = Used
    BY <1>2, <2>1
  <2> QED
    BY <2>2, <2>3 DEF Abstract!window
<1> QED
  BY <1>5, <1>6, <1>7

-----------------------------------------------------------------------------
(* Types, and what a request in a transaction knows. *)

\* Nothing has begun.
LEMMA InitInv == LimiterInit => LimiterInv
<1> SUFFICES ASSUME LimiterInit PROVE LimiterInv
  OBVIOUS
<1>1. (CHOOSE i \in Inputs : TRUE) \in Inputs
  BY LimiterConstants
<1>2. NoDoc \in Doc
  BY DEF NoDoc, Doc
<1>3. LimiterTypeOK
  BY <1>1, <1>2, LimiterConstants DEF LimiterInit, LimiterTypeOK, Doc, Phases, Answers
<1>4. Served
  BY DEF LimiterInit, Served
<1> QED
  BY <1>3, <1>4 DEF LimiterInv

\* What it takes to keep the invariant in a step of request r.
LEMMA InvKept ==
  ASSUME LimiterInv, NEW r \in Requests,
         NEW p \in Phases, NEW s \in Doc, NEW t \in 0..MaxTries,
         NEW a \in Answers, NEW n \in Nat, NEW i \in Inputs,
         pc' = [pc EXCEPT ![r] = p], seen' = [seen EXCEPT ![r] = s],
         tries' = [tries EXCEPT ![r] = t], answer' = [answer EXCEPT ![r] = a],
         at' = [at EXCEPT ![r] = n], input' = [input EXCEPT ![r] = i],
         docs' \in [Keys -> Doc], UNCHANGED <<backend, clock>>,
         p # "done" => a = "none", p \in {"read", "commit"} => Limited(i)
  PROVE  LimiterInv'
<1>1. LimiterTypeOK'
  BY DEF LimiterInv, LimiterTypeOK, Doc
<1>2. Served'
  BY DEF LimiterInv, LimiterTypeOK, Served
<1> QED
  BY <1>1, <1>2 DEF LimiterInv

\* A function that keeps its value at a point.
LEMMA Same == ASSUME NEW S, NEW T, NEW f \in [S -> T], NEW x \in S
              PROVE  f = [f EXCEPT ![x] = f[x]]
OBVIOUS

\* The values of a request that is under way.
LEMMA Values ==
  ASSUME LimiterInv, NEW r \in Requests
  PROVE  /\ pc[r] \in Phases /\ seen[r] \in Doc /\ tries[r] \in 0..MaxTries
         /\ answer[r] \in Answers /\ at[r] \in Nat /\ input[r] \in Inputs
         /\ clock \in Nat /\ docs \in [Keys -> Doc] /\ MaxTries \in Nat
         /\ pc = [pc EXCEPT ![r] = pc[r]] /\ seen = [seen EXCEPT ![r] = seen[r]]
         /\ tries = [tries EXCEPT ![r] = tries[r]]
         /\ answer = [answer EXCEPT ![r] = answer[r]]
         /\ at = [at EXCEPT ![r] = at[r]] /\ input = [input EXCEPT ![r] = input[r]]
         /\ NoDoc \in Doc
<1>1. /\ pc \in [Requests -> Phases] /\ seen \in [Requests -> Doc]
      /\ tries \in [Requests -> 0..MaxTries] /\ answer \in [Requests -> Answers]
      /\ at \in [Requests -> Nat] /\ input \in [Requests -> Inputs]
      /\ clock \in Nat /\ docs \in [Keys -> Doc]
  BY DEF LimiterInv, LimiterTypeOK, Doc
<1>2. NoDoc \in Doc /\ MaxTries \in Nat
  BY LimiterConstants DEF NoDoc, Doc
<1> QED
  BY <1>1, <1>2, Same

\* The in-memory limiter counts as the transaction does.
LEMMA InMemoryDoc ==
  ASSUME NEW doc \in Doc, NEW now \in Nat,
         NEW new, new = IF Expired(doc, now) THEN [count |-> 0, start |-> now] ELSE doc
  PROVE  /\ new \in Doc /\ [new EXCEPT !.count = @ + 1] \in Doc
         /\ [new EXCEPT !.count = @ + 1] = Counted(doc, now)
         /\ new.count = IF Expired(doc, now) THEN 0 ELSE doc.count
<1>1. CASE Expired(doc, now)
  BY <1>1 DEF Doc, Counted
<1>2. CASE ~Expired(doc, now)
  BY <1>2 DEF Doc, Counted
<1> QED
  BY <1>1, <1>2

-----------------------------------------------------------------------------
(* The steps: each keeps the invariant, and is a step of the window. *)

Step == <<[k \in Keys |-> docs[k].start],
          [k \in Keys |-> IF docs[k].count < Limit[k] THEN docs[k].count ELSE Limit[k]],
          answer>>
WindowStep == [Abstract!WindowNext]_Step

\* A request that is told something is a step of the window if its key took a
\* slot, or nothing changed, as the answer asks.
LEMMA ToldStep ==
  ASSUME LimiterInv, NEW r \in Requests, NEW k \in Keys, NEW what, Told(r, what),
         pc[r] # "done",
         \/ what = "granted" /\ Abstract!Take(k)
         \/ /\ what = "denied" /\ docs[k].count >= Limit[k]
            /\ UNCHANGED Abstract!window
         \/ what = "unavailable" /\ (Abstract!Take(k) \/ UNCHANGED Abstract!window)
  PROVE  WindowStep
<1>1. answer[r] = "none" /\ answer' = [answer EXCEPT ![r] = what]
  BY DEF LimiterInv, Served, Told
<1>2. Abstract!Tell(r, what)
  BY <1>1 DEF Abstract!Tell
<1>3. CASE what = "granted" /\ Abstract!Take(k)
  <2>1. Abstract!Grant(r, k)
    BY <1>2, <1>3 DEF Abstract!Grant
  <2> QED
    BY <2>1 DEF WindowStep, Abstract!WindowNext
<1>4. CASE what = "denied" /\ docs[k].count >= Limit[k] /\ UNCHANGED Abstract!window
  <2>1. docs[k].count \in Nat /\ Limit[k] \in Nat
    BY KeysLimited DEF LimiterInv, LimiterTypeOK
  <2>2. [j \in Keys |-> IF docs[j].count < Limit[j] THEN docs[j].count ELSE Limit[j]][k]
           >= Limit[k]
    BY <1>4, <2>1
  <2>3. Abstract!Deny(r, k)
    BY <1>2, <1>4, <2>2 DEF Abstract!Deny
  <2> QED
    BY <2>3 DEF WindowStep, Abstract!WindowNext
<1>5. CASE what = "unavailable" /\ (Abstract!Take(k) \/ UNCHANGED Abstract!window)
  <2>1. Abstract!Refuse(r, k)
    BY <1>2, <1>5 DEF Abstract!Refuse
  <2> QED
    BY <2>1 DEF WindowStep, Abstract!WindowNext
<1> QED
  BY <1>3, <1>4, <1>5

\* A step that leaves the documents and the answers alone.
LEMMA Stutter == UNCHANGED <<docs, answer>> => WindowStep
BY DEF WindowStep, Step

\* A document that was counted once more.
LEMMA CountedStep ==
  ASSUME LimiterInv, NEW k \in Keys, NEW now \in Nat,
         docs' = [docs EXCEPT ![k] = Counted(docs[k], now)]
  PROVE  /\ docs' \in [Keys -> Doc]
         /\ Counted(docs[k], now).count <= Limit[k] => Abstract!Take(k)
         /\ Counted(docs[k], now).count > Limit[k] =>
               docs[k].count >= Limit[k] /\ UNCHANGED Abstract!window
<1>0. docs \in [Keys -> Doc] /\ docs[k] \in Doc /\ docs[k].count \in Nat
      /\ Limit[k] \in Nat \ {0}
  BY KeysLimited DEF LimiterInv, LimiterTypeOK, Doc
<1> DEFINE new == Counted(docs[k], now)
<1>1. /\ new \in Doc
      /\ Expired(docs[k], now) => new.count = 1 /\ new.start >= docs[k].start + Window
      /\ ~Expired(docs[k], now) => new.count = docs[k].count + 1 /\ new.start = docs[k].start
  BY <1>0, CountedDoc
<1>2. docs' = [docs EXCEPT ![k] = new]
  OBVIOUS
<1> HIDE DEF new
<1>3. /\ /\ docs[k].count < Limit[k]
         /\ new.count = docs[k].count + 1 /\ new.start = docs[k].start
         => Abstract!TakeNext(k)
      /\ new.count = 1 /\ new.start >= docs[k].start + Window => Abstract!TakeFirst(k)
      /\ docs[k].count >= Limit[k] /\ new.count >= Limit[k] /\ new.start = docs[k].start
         => UNCHANGED Abstract!window
  BY <1>0, <1>1, <1>2, DocumentWritten
<1>4. docs' \in [Keys -> Doc]
  BY <1>0, <1>1, <1>2
<1>5. new.count <= Limit[k] => Abstract!Take(k)
  BY <1>0, <1>1, <1>3 DEF Abstract!Take
<1>6. new.count > Limit[k] => docs[k].count >= Limit[k] /\ UNCHANGED Abstract!window
  BY <1>0, <1>1, <1>3
<1> QED
  BY <1>4, <1>5, <1>6 DEF new

\* A request that arrives keeps the types, and is a step or a stutter of the window.
LEMMA DispatchStep ==
  ASSUME LimiterInv, NEW r \in Requests, Dispatch(r)
  PROVE  LimiterInv' /\ WindowStep
<1>0. PICK i \in Inputs :
        /\ input' = [input EXCEPT ![r] = i]
        /\ \/ Exempted(r, i) \/ CheckInMemory(r, i)
           \/ Unbuilt(r, i) \/ BeginTransaction(r, i)
  BY DEF Dispatch
<1>1. pc[r] = "idle" /\ answer[r] = "none" /\ UNCHANGED <<backend, clock>>
  BY DEF Dispatch, LimiterInv, Served
<1>2. /\ {"read", "done"} \subseteq Phases /\ 0 \in 0..MaxTries
      /\ {"passed", "granted", "denied", "unavailable"} \subseteq Answers
  BY Values DEF Phases, Answers
<1>3. CASE Exempted(r, i)
  <2>1. /\ pc' = [pc EXCEPT ![r] = "done"] /\ seen' = [seen EXCEPT ![r] = NoDoc]
        /\ tries' = [tries EXCEPT ![r] = 0] /\ answer' = [answer EXCEPT ![r] = "passed"]
        /\ at' = [at EXCEPT ![r] = at[r]] /\ docs' = docs /\ docs' \in [Keys -> Doc]
    BY <1>3, Values DEF Exempted, Told
  <2>2. LimiterInv'
    BY <1>0, <1>1, <1>2, <2>1, InvKept, Values
  <2>3. Abstract!Pass(r)
    BY <1>1, <2>1 DEF Abstract!Pass, Abstract!Tell, Abstract!window
  <2> QED
    BY <2>2, <2>3 DEF WindowStep, Abstract!WindowNext
<1>4. CASE Unbuilt(r, i)
  <2>0. Told(r, "unavailable") /\ docs' = docs /\ at' = at /\ Key(i) \in Keys
    BY <1>4, KeysLimited DEF Unbuilt
  <2>1. /\ pc' = [pc EXCEPT ![r] = "done"] /\ seen' = [seen EXCEPT ![r] = NoDoc]
        /\ tries' = [tries EXCEPT ![r] = 0] /\ answer' = [answer EXCEPT ![r] = "unavailable"]
        /\ at' = [at EXCEPT ![r] = at[r]] /\ docs' \in [Keys -> Doc]
    BY <2>0, Values DEF Told
  <2>2. LimiterInv'
    BY <1>0, <1>1, <1>2, <2>1, InvKept, Values
  <2>3. UNCHANGED Abstract!window
    BY <2>0 DEF Abstract!window
  <2>4. WindowStep
    BY <1>1, <2>0, <2>3, ToldStep
  <2> QED
    BY <2>2, <2>4
<1>5. CASE BeginTransaction(r, i)
  <2>1. /\ pc' = [pc EXCEPT ![r] = "read"] /\ seen' = [seen EXCEPT ![r] = seen[r]]
        /\ tries' = [tries EXCEPT ![r] = tries[r]] /\ answer' = [answer EXCEPT ![r] = "none"]
        /\ at' = [at EXCEPT ![r] = at[r]] /\ docs' \in [Keys -> Doc] /\ Limited(i)
        /\ UNCHANGED <<docs, answer>>
    BY <1>1, <1>5, Values DEF BeginTransaction
  <2>2. "none" \in Answers
    BY DEF Answers
  <2>3. LimiterInv'
    BY <1>0, <1>1, <1>2, <2>1, <2>2, InvKept, Values
  <2> QED
    BY <2>1, <2>3, Stutter
<1>6. CASE CheckInMemory(r, i)
  <2> DEFINE k == Key(i)
             doc == IF Expired(docs[k], clock) THEN [count |-> 0, start |-> clock] ELSE docs[k]
  <2>0. /\ k \in Keys /\ docs[k] \in Doc /\ clock \in Nat /\ Limit[k] \in Nat \ {0}
        /\ docs \in [Keys -> Doc] /\ docs[k].count \in Nat
    BY <1>6, KeysLimited, Values DEF CheckInMemory, Doc
  <2>1. /\ at' = [at EXCEPT ![r] = clock]
        /\ \/ doc.count >= Limit[k] /\ Told(r, "denied") /\ docs' = docs
           \/ /\ ~(doc.count >= Limit[k]) /\ Told(r, "granted")
              /\ docs' = [docs EXCEPT ![k] = [doc EXCEPT !.count = @ + 1]]
    BY <1>6 DEF CheckInMemory
  <2>2. /\ [doc EXCEPT !.count = @ + 1] = Counted(docs[k], clock)
        /\ doc.count = IF Expired(docs[k], clock) THEN 0 ELSE docs[k].count
    BY <2>0, InMemoryDoc
  <2> HIDE DEF doc, k
  <2>3. docs' \in [Keys -> Doc] /\ WindowStep
    <3>1. CASE doc.count >= Limit[k] /\ Told(r, "denied") /\ docs' = docs
      <4>1. docs[k].count >= Limit[k] /\ docs' \in [Keys -> Doc]
        BY <2>0, <2>2, <3>1
      <4>2. UNCHANGED Abstract!window
        BY <3>1 DEF Abstract!window
      <4> QED
        BY <1>1, <2>0, <3>1, <4>1, <4>2, ToldStep
    <3>2. CASE /\ ~(doc.count >= Limit[k]) /\ Told(r, "granted")
               /\ docs' = [docs EXCEPT ![k] = [doc EXCEPT !.count = @ + 1]]
      <4>1. Counted(docs[k], clock).count <= Limit[k]
        BY <2>0, <2>2, <3>2, CountedDoc
      <4>2. docs' \in [Keys -> Doc] /\ Abstract!Take(k)
        BY <2>0, <2>2, <3>2, <4>1, CountedStep
      <4> QED
        BY <1>1, <2>0, <3>2, <4>2, ToldStep
    <3> QED
      BY <2>1, <3>1, <3>2
  <2>4. PICK what \in {"denied", "granted"} : Told(r, what)
    BY <2>1
  <2>5. /\ pc' = [pc EXCEPT ![r] = "done"] /\ seen' = [seen EXCEPT ![r] = NoDoc]
        /\ tries' = [tries EXCEPT ![r] = 0] /\ answer' = [answer EXCEPT ![r] = what]
    BY <2>4 DEF Told
  <2>6. LimiterInv'
    BY <1>0, <1>1, <1>2, <2>0, <2>1, <2>3, <2>4, <2>5, InvKept, Values
  <2> QED
    BY <2>3, <2>6
<1> QED
  BY <1>0, <1>3, <1>4, <1>5, <1>6

\* The read of a transaction keeps the types, and is a stutter of the window.
LEMMA ReadStep ==
  ASSUME LimiterInv, NEW r \in Requests, Read(r)
  PROVE  LimiterInv' /\ WindowStep
<1>1. pc[r] = "read" /\ Limited(input[r]) /\ answer[r] = "none" /\ Key(input[r]) \in Keys
  BY KeysLimited, Values DEF Read, LimiterInv, Served
<1>2. "commit" \in Phases /\ "none" \in Answers /\ docs[Key(input[r])] \in Doc
  BY <1>1, Values DEF Phases, Answers
<1>3. /\ pc' = [pc EXCEPT ![r] = "commit"]
      /\ seen' = [seen EXCEPT ![r] = docs[Key(input[r])]]
      /\ tries' = [tries EXCEPT ![r] = tries[r]] /\ answer' = [answer EXCEPT ![r] = "none"]
      /\ at' = [at EXCEPT ![r] = clock] /\ input' = [input EXCEPT ![r] = input[r]]
      /\ docs' \in [Keys -> Doc] /\ UNCHANGED <<backend, clock, docs, answer>>
  BY <1>1, Values DEF Read
<1>4. LimiterInv'
  BY <1>1, <1>2, <1>3, InvKept, Values
<1> QED
  BY <1>3, <1>4, Stutter

\* A transaction that begins again keeps the types, and is a step of the window.
LEMMA TryAgainStep ==
  ASSUME LimiterInv, NEW r \in Requests, TryAgain(r)
  PROVE  LimiterInv' /\ WindowStep
<1>1. Limited(input[r]) /\ answer[r] = "none"
  BY DEF TryAgain, LimiterInv, Served
<1>2. "read" \in Phases /\ "none" \in Answers /\ tries[r] + 1 \in 0..MaxTries
  BY Values DEF Phases, Answers, TryAgain
<1>3. /\ pc' = [pc EXCEPT ![r] = "read"] /\ seen' = [seen EXCEPT ![r] = seen[r]]
      /\ tries' = [tries EXCEPT ![r] = tries[r] + 1]
      /\ answer' = [answer EXCEPT ![r] = "none"]
      /\ at' = [at EXCEPT ![r] = at[r]] /\ input' = [input EXCEPT ![r] = input[r]]
      /\ docs' \in [Keys -> Doc] /\ UNCHANGED <<backend, clock, docs, answer>>
  BY <1>1, Values DEF TryAgain
<1>4. LimiterInv'
  BY <1>1, <1>2, <1>3, InvKept, Values
<1> QED
  BY <1>3, <1>4, Stutter

\* A transaction that commits wrote the document that follows the one there.
LEMMA InputKey ==
  ASSUME LimiterInv, NEW r \in Requests, pc[r] \in {"read", "commit"}
  PROVE  \E k \in Keys : k = Key(input[r])
BY KeysLimited, Values DEF LimiterInv, Served

\* What a commit writes is a document.
LEMMA WrittenStep ==
  ASSUME LimiterInv, NEW r \in Requests, NEW k \in Keys, k = Key(input[r]),
         Unchanged(r), docs' = Written(r)
  PROVE  /\ docs' \in [Keys -> Doc]
         /\ Counted(seen[r], at[r]).count <= Limit[k] => Abstract!Take(k)
         /\ Counted(seen[r], at[r]).count > Limit[k] =>
               docs[k].count >= Limit[k] /\ UNCHANGED Abstract!window
<1>1. PICK now \in Nat : now = at[r]
  BY Values
<1>2. docs[k] = seen[r] /\ docs' = [docs EXCEPT ![k] = Counted(docs[k], now)]
  BY <1>1 DEF Written, Unchanged
<1> QED
  BY <1>1, <1>2, CountedStep

\* A commit keeps the types, and is the step of the window.
LEMMA CommitStep ==
  ASSUME LimiterInv, NEW r \in Requests, Commit(r)
  PROVE  LimiterInv' /\ WindowStep
<1> DEFINE count == Counted(seen[r], at[r]).count
<1>0. pc[r] = "commit" /\ Unchanged(r) /\ docs' = Written(r)
  BY DEF Commit
<1> PICK k \in Keys : k = Key(input[r])
  BY <1>0, InputKey
<1>1. /\ docs' \in [Keys -> Doc]
      /\ count <= Limit[k] => Abstract!Take(k)
      /\ count > Limit[k] => docs[k].count >= Limit[k] /\ UNCHANGED Abstract!window
  BY <1>0, WrittenStep
<1>2. /\ Told(r, IF count > Limit[k] THEN "denied" ELSE "granted")
      /\ UNCHANGED <<backend, clock, input, at>>
  BY DEF Commit
<1>3. count \in Nat /\ Limit[k] \in Nat
  BY <1>1, KeysLimited, CountedDoc, Values DEF Doc
<1> HIDE DEF count
<1>4. PICK what \in {"denied", "granted"} :
        Told(r, what) /\ what = IF count > Limit[k] THEN "denied" ELSE "granted"
  BY <1>2
<1>5. WindowStep
  <2>1. CASE count > Limit[k]
    BY <1>0, <1>1, <1>4, <2>1, ToldStep
  <2>2. CASE count <= Limit[k]
    <3>1. what = "granted" /\ Told(r, "granted")
      BY <1>3, <1>4, <2>2
    <3>2. Abstract!Take(k)
      BY <1>1, <2>2
    <3> QED
      BY <1>0, <1>1, <3>1, <3>2, ToldStep
  <2> QED
    BY <1>3, <2>1, <2>2
<1>6. /\ pc' = [pc EXCEPT ![r] = "done"] /\ seen' = [seen EXCEPT ![r] = NoDoc]
      /\ tries' = [tries EXCEPT ![r] = 0] /\ answer' = [answer EXCEPT ![r] = what]
      /\ at' = [at EXCEPT ![r] = at[r]] /\ input' = [input EXCEPT ![r] = input[r]]
  BY <1>2, <1>4, Values DEF Told
<1>7. "done" \in Phases /\ what \in Answers /\ 0 \in 0..MaxTries
  BY Values DEF Phases, Answers
<1>8. NoDoc \in Doc /\ at[r] \in Nat /\ input[r] \in Inputs /\ UNCHANGED <<backend, clock>>
  BY <1>2, Values
<1>9. LimiterInv'
  BY <1>1, <1>6, <1>7, <1>8, InvKept
<1> QED
  BY <1>5, <1>9

\* A failure keeps the types, and is a step of the window.
LEMMA FailStep ==
  ASSUME LimiterInv, NEW r \in Requests, Fail(r)
  PROVE  LimiterInv' /\ WindowStep
<1>0. /\ pc[r] \in {"read", "commit"} /\ Told(r, "unavailable")
      /\ UNCHANGED <<backend, clock, input>>
  BY DEF Fail
<1>1. PICK k \in Keys : k = Key(input[r])
  BY <1>0, InputKey
<1>2. /\ docs' \in [Keys -> Doc] /\ (Abstract!Take(k) \/ UNCHANGED Abstract!window)
      /\ \E n \in Nat : at' = [at EXCEPT ![r] = n]
  <2>1. CASE UNCHANGED docs /\ at' = [at EXCEPT ![r] = 0]
    BY <2>1, Values DEF Abstract!window
  <2>2. CASE pc[r] = "commit" /\ Unchanged(r) /\ docs' = Written(r) /\ UNCHANGED at
    <3>1. Limit[k] \in Nat /\ Counted(seen[r], at[r]).count \in Nat
      BY <1>1, KeysLimited, CountedDoc, Values DEF Doc
    <3>2. docs' \in [Keys -> Doc] /\ (Abstract!Take(k) \/ UNCHANGED Abstract!window)
      BY <1>1, <2>2, <3>1, WrittenStep
    <3> QED
      BY <2>2, <3>2, Values
  <2> QED
    BY <2>1, <2>2 DEF Fail
<1>3. PICK n \in Nat : at' = [at EXCEPT ![r] = n]
  BY <1>2
<1>4. WindowStep
  <2>1. pc[r] # "done"
    BY <1>0
  <2> QED
    BY <1>0, <1>1, <1>2, <2>1, ToldStep
<1>5. /\ pc' = [pc EXCEPT ![r] = "done"] /\ seen' = [seen EXCEPT ![r] = NoDoc]
      /\ tries' = [tries EXCEPT ![r] = 0] /\ answer' = [answer EXCEPT ![r] = "unavailable"]
      /\ input' = [input EXCEPT ![r] = input[r]]
  BY <1>0, Values DEF Told
<1>6. "done" \in Phases /\ "unavailable" \in Answers /\ 0 \in 0..MaxTries
  BY Values DEF Phases, Answers
<1>7. NoDoc \in Doc /\ input[r] \in Inputs /\ UNCHANGED <<backend, clock>>
  BY <1>0, Values
<1>8. LimiterInv'
  BY <1>2, <1>3, <1>5, <1>6, <1>7, InvKept
<1> QED
  BY <1>4, <1>8

\* Every step keeps the types, and is a step or a stutter of the window.
LEMMA LimiterStep ==
  ASSUME LimiterInv, [LimiterNext]_vars
  PROVE  LimiterInv' /\ WindowStep
<1>1. CASE UNCHANGED vars
  <2>1. LimiterInv'
    BY <1>1 DEF LimiterInv, LimiterTypeOK, Served, vars
  <2> QED
    BY <1>1, <2>1, Stutter DEF vars
<1>2. CASE Tick
  <2>1. clock' \in Nat /\ UNCHANGED <<backend, docs, pc, input, seen, at, tries, answer>>
    BY <1>2 DEF Tick, LimiterInv, LimiterTypeOK
  <2>2. LimiterInv'
    BY <2>1 DEF LimiterInv, LimiterTypeOK, Served
  <2> QED
    BY <2>1, <2>2, Stutter
<1>3. ASSUME NEW r \in Requests, RequestStep(r) PROVE LimiterInv' /\ WindowStep
  BY <1>3, DispatchStep, ReadStep, CommitStep, TryAgainStep, FailStep DEF RequestStep
<1> QED
  BY <1>1, <1>2, <1>3 DEF LimiterNext

-----------------------------------------------------------------------------
(* Sets of requests, by the time at which they were counted. *)

Since(S, T, t) == {q \in S : t <= T[q]}
Between(S, T, t, u) == {q \in S : t <= T[q] /\ T[q] < u}
During(S, T, t) == Between(S, T, t, t + Window)
Slots(d, l) == IF d.count < l THEN d.count ELSE l

\* What the requests S of a client, granted at the times T, have to do with
\* its document d.  The window before the present one left at most one slot
\* less than the limit to an interval that reaches into the present one,
\* because the request that opened it lies outside.
GrantsFit(S, T, d, l) ==
    /\ d.count = 0 => S = {}
    /\ \A q \in S : T[q] < d.start + Window
    /\ Cardinality(Since(S, T, d.start)) <= Slots(d, l)
    /\ d.count > 0 => Cardinality(Since(S, T, d.start + 1)) <= Slots(d, l) - 1
    /\ \A t \in Nat : d.start < t + Window =>
           Cardinality(Between(S, T, t, d.start)) <= l - 1
    /\ \A t \in Nat : Cardinality(During(S, T, t)) <= 2 * l - 1

\* A document counts no more than the requests S that were granted, or that
\* got no answer, since its window was opened, as far as the limit.
CountFits(S, T, d, l) ==
    \/ d.count <= Cardinality(During(S, T, d.start))
    \/ l <= Cardinality(During(S, T, d.start))

\* One member more.
LEMMA OneMore ==
  ASSUME NEW S, IsFiniteSet(S), NEW r, NEW X, X \subseteq S \cup {r}
  PROVE  /\ IsFiniteSet(X) /\ Cardinality(X) \in Nat /\ Cardinality(S) \in Nat
         /\ Cardinality(X) <= Cardinality(S) + 1
         /\ X \subseteq S => Cardinality(X) <= Cardinality(S)
         /\ S \subseteq X => Cardinality(S) <= Cardinality(X)
         /\ S \subseteq X /\ r \in X /\ r \notin S => Cardinality(X) = Cardinality(S) + 1
<1>1. /\ IsFiniteSet(S \cup {r})
      /\ Cardinality(S \cup {r}) = IF r \in S THEN Cardinality(S) ELSE Cardinality(S) + 1
      /\ Cardinality(S) \in Nat
  BY FS_AddElement, FS_CardinalityType
<1>2. IsFiniteSet(X) /\ Cardinality(X) <= Cardinality(S \cup {r})
  BY <1>1, FS_Subset
<1>3. Cardinality(X) \in Nat
  BY <1>2, FS_CardinalityType
<1>4. X \subseteq S => Cardinality(X) <= Cardinality(S)
  BY FS_Subset
<1>5. S \subseteq X => Cardinality(S) <= Cardinality(X)
  BY <1>2, FS_Subset
<1>6. S \subseteq X /\ r \in X => X = S \cup {r}
  OBVIOUS
<1> QED
  BY <1>1, <1>2, <1>3, <1>4, <1>5, <1>6

\* A subset is no larger.
LEMMA NotMore ==
  ASSUME NEW Y, IsFiniteSet(Y), NEW X, X \subseteq Y
  PROVE  /\ IsFiniteSet(X) /\ Cardinality(X) \in Nat /\ Cardinality(Y) \in Nat
         /\ Cardinality(X) <= Cardinality(Y)
BY FS_Subset, FS_CardinalityType

\* Two sets cover no more than both have.
LEMMA Both ==
  ASSUME NEW A, NEW B, IsFiniteSet(A), IsFiniteSet(B), NEW X, X \subseteq A \cup B
  PROVE  Cardinality(X) <= Cardinality(A) + Cardinality(B)
<1>1. /\ IsFiniteSet(A \cup B) /\ IsFiniteSet(A \cap B)
      /\ Cardinality(A \cup B)
           = Cardinality(A) + Cardinality(B) - Cardinality(A \cap B)
  BY FS_Union, FS_Subset
<1>2. /\ Cardinality(A) \in Nat /\ Cardinality(B) \in Nat /\ Cardinality(A \cap B) \in Nat
      /\ Cardinality(A \cup B) \in Nat
  BY <1>1, FS_CardinalityType
<1>3. Cardinality(X) \in Nat /\ Cardinality(X) <= Cardinality(A \cup B)
  BY <1>1, NotMore
<1> QED
  BY <1>1, <1>2, <1>3

\* A document that counts one more request r at time a, granted or not.
LEMMA GrantsCounted ==
  ASSUME NEW S, IsFiniteSet(S), NEW r, r \notin S, NEW T, NEW U,
         \A q \in S : T[q] \in Nat /\ U[q] = T[q], NEW a \in Nat, U[r] = a,
         NEW d \in Doc, NEW l \in Nat \ {0}, GrantsFit(S, T, d, l),
         d.start <= a, d.count = 0 => Expired(d, a),
         NEW e, e = Counted(d, a),
         NEW S2, S2 = S \/ (S2 = S \cup {r} /\ e.count <= l)
  PROVE  GrantsFit(S2, U, e, l)
<1>0. Window \in Nat \ {0} /\ d.start \in Nat /\ d.count \in Nat
  BY LimiterConstants DEF Doc
<1>1. /\ e \in Doc /\ e.start \in Nat /\ e.count \in Nat
      /\ Expired(d, a) => e.count = 1 /\ e.start >= d.start + Window /\ e.start = a
      /\ ~Expired(d, a) =>
            /\ e.count = d.count + 1 /\ e.start = d.start /\ d.count > 0
            /\ a < d.start + Window
  BY <1>0, CountedDoc DEF Doc, Counted, Expired
<1>2. IsFiniteSet(S2) /\ S2 \subseteq S \cup {r} /\ S \subseteq S2
  BY OneMore
<1>3. /\ d.count = 0 => S = {}
      /\ \A q \in S : T[q] < d.start + Window
      /\ Cardinality(Since(S, T, d.start)) <= Slots(d, l)
      /\ d.count > 0 => Cardinality(Since(S, T, d.start + 1)) <= Slots(d, l) - 1
      /\ \A t \in Nat : d.start < t + Window =>
             Cardinality(Between(S, T, t, d.start)) <= l - 1
      /\ \A t \in Nat : Cardinality(During(S, T, t)) <= 2 * l - 1
  BY DEF GrantsFit
<1>4. \A t : /\ IsFiniteSet(Since(S2, U, t)) /\ IsFiniteSet(Since(S, T, t))
             /\ Cardinality(Since(S2, U, t)) \in Nat /\ Cardinality(Since(S, T, t)) \in Nat
  BY <1>2, NotMore DEF Since
<1>5. \A t, u : /\ IsFiniteSet(Between(S2, U, t, u)) /\ IsFiniteSet(Between(S, T, t, u))
                /\ Cardinality(Between(S2, U, t, u)) \in Nat
  BY <1>2, NotMore DEF Between
<1>6. Slots(e, l) \in Nat /\ Slots(d, l) \in Nat /\ Slots(e, l) <= l /\ Slots(d, l) <= l
  BY <1>0, <1>1 DEF Slots
<1>7. /\ e.count # 0
      /\ \A q \in S2 : U[q] < e.start + Window
  BY <1>0, <1>1, <1>2, <1>3
<1>8. /\ Cardinality(Since(S2, U, e.start)) <= Slots(e, l)
      /\ Cardinality(Since(S2, U, e.start + 1)) <= Slots(e, l) - 1
  <2>1. CASE Expired(d, a)
    <3>1. Since(S2, U, e.start) \subseteq {r}
      BY <1>0, <1>1, <1>2, <1>3, <2>1 DEF Since
    <3>2. Since(S2, U, e.start + 1) = {}
      BY <1>0, <1>1, <1>2, <1>3, <2>1 DEF Since
    <3>3. IsFiniteSet({r}) /\ Cardinality({r}) = 1
      BY FS_Singleton
    <3>4. Slots(e, l) = 1
      BY <1>1, <2>1 DEF Slots
    <3> QED
      BY <3>1, <3>2, <3>3, <3>4, NotMore, FS_EmptySet
  <2>2. CASE ~Expired(d, a)
    <3>1. CASE S2 = S
      <4>1. Since(S2, U, e.start) = Since(S, T, d.start)
        BY <1>1, <2>2, <3>1 DEF Since
      <4>2. Since(S2, U, e.start + 1) = Since(S, T, d.start + 1)
        BY <1>1, <2>2, <3>1 DEF Since
      <4>3. Slots(e, l) >= Slots(d, l)
        BY <1>0, <1>1, <2>2 DEF Slots
      <4> QED
        <5>1. d.count > 0
          BY <1>1, <2>2
        <5>2. /\ Cardinality(Since(S, T, d.start)) <= Slots(d, l)
              /\ Cardinality(Since(S, T, d.start + 1)) <= Slots(d, l) - 1
          BY <1>3, <5>1
        <5> QED
          BY <1>4, <1>6, <4>1, <4>2, <4>3, <5>2
    <3>2. CASE S2 = S \cup {r} /\ e.count <= l
      <4>1. Since(S2, U, e.start) \subseteq Since(S, T, d.start) \cup {r}
        BY <1>1, <2>2, <3>2 DEF Since
      <4>2. Since(S2, U, e.start + 1) \subseteq Since(S, T, d.start + 1) \cup {r}
        BY <1>1, <2>2, <3>2 DEF Since
      <4>3. Slots(e, l) = Slots(d, l) + 1
        BY <1>0, <1>1, <2>2, <3>2 DEF Slots
      <4>4. /\ Cardinality(Since(S2, U, e.start)) <= Cardinality(Since(S, T, d.start)) + 1
            /\ Cardinality(Since(S2, U, e.start + 1))
                 <= Cardinality(Since(S, T, d.start + 1)) + 1
        <5>1. Cardinality(Since(S2, U, e.start)) <= Cardinality(Since(S, T, d.start)) + 1
          BY <1>4, <4>1, OneMore
        <5>2. Cardinality(Since(S2, U, e.start + 1))
                <= Cardinality(Since(S, T, d.start + 1)) + 1
          BY <1>4, <4>2, OneMore
        <5> QED
          BY <5>1, <5>2
      <4>5. d.count > 0
        BY <1>1, <2>2
      <4>6. /\ Cardinality(Since(S, T, d.start)) <= Slots(d, l)
            /\ Cardinality(Since(S, T, d.start + 1)) <= Slots(d, l) - 1
        BY <1>3, <4>5
      <4> QED
        BY <1>4, <1>6, <4>3, <4>4, <4>6
    <3> QED
      BY <3>1, <3>2
  <2> QED
    BY <2>1, <2>2
<1>9. ASSUME NEW t \in Nat, e.start < t + Window
      PROVE  Cardinality(Between(S2, U, t, e.start)) <= l - 1
  <2>1. CASE Expired(d, a)
    <3>1. Between(S2, U, t, e.start) \subseteq Since(S, T, d.start + 1)
      BY <1>0, <1>1, <1>2, <1>9, <2>1 DEF Since, Between
    <3>2. d.count = 0 => Cardinality(Since(S, T, d.start + 1)) = 0
      BY <1>3, FS_EmptySet DEF Since
    <3>3. Cardinality(Since(S, T, d.start + 1)) <= l - 1
      BY <1>0, <1>3, <1>4, <1>6, <3>2
    <3> QED
      BY <1>4, <3>1, <3>3, NotMore
  <2>2. CASE ~Expired(d, a)
    <3>1. Between(S2, U, t, e.start) = Between(S, T, t, d.start)
      BY <1>0, <1>1, <1>2, <2>2 DEF Between
    <3> QED
      BY <1>1, <1>3, <1>9, <2>2, <3>1
  <2> QED
    BY <2>1, <2>2
<1>10. ASSUME NEW t \in Nat PROVE Cardinality(During(S2, U, t)) <= 2 * l - 1
  <2>1. CASE e.start < t + Window
    <3>1. During(S2, U, t) \subseteq Between(S2, U, t, e.start) \cup Since(S2, U, e.start)
      <4>1. \A q \in S2 : U[q] \in Nat
        BY <1>2
      <4> QED
        BY <1>1, <4>1 DEF During, Between, Since
    <3>2. Cardinality(During(S2, U, t))
            <= Cardinality(Between(S2, U, t, e.start)) + Cardinality(Since(S2, U, e.start))
      BY <1>4, <1>5, <3>1, Both
    <3>3. Cardinality(Between(S2, U, t, e.start)) <= l - 1
      BY <1>9, <2>1
    <3>4. Cardinality(During(S2, U, t)) \in Nat
      BY <1>5 DEF During
    <3> QED
      BY <1>4, <1>5, <1>6, <1>8, <3>2, <3>3, <3>4
  <2>2. CASE ~(e.start < t + Window)
    <3>1. During(S2, U, t) = During(S, T, t)
      BY <1>0, <1>1, <1>2, <2>2 DEF During, Between
    <3> QED
      BY <1>3, <3>1
  <2> QED
    BY <2>1, <2>2
<1> QED
  BY <1>7, <1>8, <1>9, <1>10 DEF GrantsFit

\* A document that counts one more request r, which is among the requests
\* S2 that may fill the window unless it is denied.
LEMMA CountCounted ==
  ASSUME NEW S, IsFiniteSet(S), NEW r, r \notin S, NEW T, NEW U,
         \A q \in S : T[q] \in Nat /\ U[q] = T[q], NEW a \in Nat, U[r] = a,
         NEW d \in Doc, NEW l \in Nat \ {0}, CountFits(S, T, d, l), d.start <= a,
         NEW e, e = Counted(d, a),
         NEW S2, S2 = S \cup {r} \/ (S2 = S /\ e.count > l)
  PROVE  /\ CountFits(S2, U, e, l)
         /\ e.count > l => /\ l <= Cardinality(During(S2, U, e.start))
                           /\ a < e.start + Window
<1>0. Window \in Nat \ {0} /\ d.start \in Nat /\ d.count \in Nat
  BY LimiterConstants DEF Doc
<1>1. /\ e.start \in Nat /\ e.count \in Nat
      /\ Expired(d, a) => e.count = 1 /\ e.start = a
      /\ ~Expired(d, a) =>
            /\ e.count = d.count + 1 /\ e.start = d.start /\ a < d.start + Window
  BY <1>0, CountedDoc DEF Doc, Counted, Expired
<1>2. IsFiniteSet(S2) /\ S2 \subseteq S \cup {r} /\ S \subseteq S2
  BY OneMore
<1> DEFINE X == During(S, T, d.start)
           Y == During(S2, U, e.start)
<1>3. IsFiniteSet(X) /\ IsFiniteSet(Y) /\ Cardinality(X) \in Nat /\ Cardinality(Y) \in Nat
  BY <1>2, NotMore DEF During, Between
<1>4. CASE Expired(d, a)
  <2>1. r \in S2 /\ e.count <= l
    BY <1>1, <1>4
  <2>2. {r} \subseteq Y
    BY <1>0, <1>1, <1>4, <2>1 DEF During, Between
  <2>3. Cardinality(Y) >= 1
    <3>1. Cardinality({r}) = 1
      BY FS_Singleton
    <3>2. Cardinality({r}) <= Cardinality(Y)
      BY <1>3, <2>2, NotMore
    <3> QED
      BY <1>3, <3>1, <3>2
  <2> QED
    BY <1>1, <1>4, <2>1, <2>3 DEF CountFits
<1>5. CASE ~Expired(d, a)
  <2>1. X \subseteq Y /\ Y \subseteq X \cup {r} /\ r \notin X
    BY <1>1, <1>2, <1>5 DEF During, Between
  <2>2. r \in S2 => r \in Y
    BY <1>1, <1>5 DEF During, Between
  <2>3. /\ Cardinality(X) <= Cardinality(Y)
        /\ r \in S2 => Cardinality(Y) = Cardinality(X) + 1
    BY <1>3, <2>1, <2>2, OneMore
  <2>4. d.count <= Cardinality(X) \/ l <= Cardinality(X)
    BY DEF CountFits
  <2>5. e.count > l => l <= Cardinality(Y)
    BY <1>0, <1>1, <1>3, <1>5, <2>3, <2>4
  <2>6. e.count <= Cardinality(Y) \/ l <= Cardinality(Y)
    BY <1>0, <1>1, <1>3, <1>5, <2>3, <2>4, <2>5
  <2> QED
    BY <1>1, <1>5, <2>5, <2>6 DEF CountFits
<1> QED
  BY <1>4, <1>5
-----------------------------------------------------------------------------
(* What is known of the requests and the documents of a client. *)

Of(S, k) == {q \in S : Key(input[q]) = k}
Grants(k) == Of(Those("granted"), k)
Takers(k) == Of(Those("granted") \cup Those("unavailable"), k)
Held(k) == During(Takers(k), at, docs[k].start)

Older(d, e) == d.start < e.start \/ (d.start = e.start /\ d.count <= e.count)

Started == IsFiniteSet({r \in Requests : pc[r] # "idle"})

\* A transaction is older than its document, or has seen the present one; then
\* everything that is counted there was counted before it.
TimesInv ==
    /\ clock > Window
    /\ \A k \in Keys : docs[k].start <= clock /\ (docs[k].count = 0 => docs[k].start = 0)
    /\ \A r \in Requests : at[r] <= clock /\ (pc[r] = "idle" => at[r] = 0)
    /\ \A r \in Requests : pc[r] = "commit" =>
           seen[r].start <= at[r] /\ at[r] > Window
    /\ \A k \in Keys, r \in Requests : pc[r] = "commit" /\ Key(input[r]) = k =>
           /\ Older(seen[r], docs[k])
           /\ docs[k] = seen[r] => \A q \in Held(k) : at[q] <= at[r]

GrantsInv == \A k \in Keys : GrantsFit(Grants(k), at, docs[k], Limit[k])
CountInv == \A k \in Keys : CountFits(Takers(k), at, docs[k], Limit[k])
DenialsInv == DeniedOnlyWhenFull /\ \A r \in Those("denied") : Key(input[r]) \in Keys

Inv == LimiterInv /\ Started /\ TimesInv
Counts == GrantsInv /\ CountInv /\ DenialsInv

\* Nothing has been counted.
LEMMA InitCounts == LimiterInit => Inv /\ Counts
<1> SUFFICES ASSUME LimiterInit PROVE Inv /\ Counts
  OBVIOUS
<1>0. Window \in Nat \ {0} /\ \A k \in Keys : Limit[k] \in Nat \ {0}
  BY LimiterConstants, KeysLimited
<1>1. /\ \A r \in Requests : pc[r] = "idle" /\ at[r] = 0 /\ answer[r] = "none"
      /\ \A k \in Keys : docs[k] = NoDoc /\ docs[k].start = 0 /\ docs[k].count = 0
      /\ clock = Window + 1
  BY DEF LimiterInit, NoDoc
<1>2. Started
  <2>1. {r \in Requests : pc[r] # "idle"} = {}
    BY <1>1
  <2> QED
    BY <2>1, FS_EmptySet DEF Started
<1>3. TimesInv
  BY <1>0, <1>1 DEF TimesInv
<1>4. \A k : Grants(k) = {} /\ Takers(k) = {} /\ Those("denied") = {}
  BY <1>1 DEF Grants, Takers, Of, Those
<1>5. GrantsInv
  <2> SUFFICES ASSUME NEW k \in Keys PROVE GrantsFit({}, at, docs[k], Limit[k])
    BY <1>4 DEF GrantsInv
  <2>1. \A t, u : Since({}, at, t) = {} /\ Between({}, at, t, u) = {} /\ During({}, at, t) = {}
    BY DEF Since, Between, During
  <2>2. Slots(docs[k], Limit[k]) = 0 /\ Cardinality({}) = 0 /\ ~(docs[k].count > 0)
    BY <1>0, <1>1, FS_EmptySet DEF Slots
  <2>3. 0 <= Limit[k] - 1 /\ 0 <= 2 * Limit[k] - 1
    BY <1>0
  <2>4. Cardinality(Since({}, at, docs[k].start)) <= Slots(docs[k], Limit[k])
    BY <2>1, <2>2
  <2>5. \A t, u : /\ Cardinality(Between({}, at, t, u)) <= Limit[k] - 1
                  /\ Cardinality(During({}, at, t)) <= 2 * Limit[k] - 1
    BY <2>1, <2>2, <2>3
  <2> QED
    BY <2>2, <2>4, <2>5 DEF GrantsFit
<1>6. CountInv
  <2> SUFFICES ASSUME NEW k \in Keys PROVE CountFits({}, at, docs[k], Limit[k])
    BY <1>4 DEF CountInv
  <2>1. During({}, at, docs[k].start) = {}
    BY DEF Between, During
  <2> QED
    BY <1>1, <2>1, FS_EmptySet DEF CountFits
<1> QED
  BY <1>2, <1>3, <1>4, <1>5, <1>6, InitInv
     DEF Inv, Counts, DenialsInv, DeniedOnlyWhenFull

\* Any set of requests that were told something is finite.
LEMMA Finite ==
  ASSUME Inv, NEW S, S \subseteq Requests, \A q \in S : answer[q] # "none"
  PROVE  IsFiniteSet(S) /\ Cardinality(S) \in Nat
<1>1. S \subseteq {r \in Requests : pc[r] # "idle"}
  BY DEF Inv, LimiterInv, Served
<1> QED
  BY <1>1, NotMore DEF Inv, Started

-----------------------------------------------------------------------------
(* What a step of request r may come to. *)

Alone(r) ==
    /\ answer[r] = "none" /\ pc[r] # "done" /\ UNCHANGED clock
    /\ \A q \in Requests \ {r} :
          /\ pc'[q] = pc[q] /\ seen'[q] = seen[q] /\ at'[q] = at[q]
          /\ input'[q] = input[q] /\ answer'[q] = answer[q]

Working(r) ==
    /\ pc'[r] \in {"read", "commit"} /\ answer'[r] = "none" /\ docs' = docs
    /\ at'[r] <= clock
    /\ pc'[r] = "commit" =>
          at'[r] = clock /\ input'[r] = input[r] /\ seen'[r] = docs[Key(input[r])]

Uncounted(r) ==
    /\ answer'[r] \in {"passed", "unavailable"} /\ docs' = docs
    /\ pc'[r] = "done" /\ at'[r] = 0

TurnedAway(r, k) ==
    /\ answer'[r] = "denied" /\ docs' = docs /\ pc'[r] = "done"
    /\ Key(input'[r]) = k /\ at'[r] = clock
    /\ docs[k].count >= Limit[k] /\ clock < docs[k].start + Window

CountedNow(r, k) ==
    /\ docs' = [docs EXCEPT ![k] = Counted(docs[k], at'[r])]
    /\ answer'[r] \in {"granted", "denied", "unavailable"}
    /\ answer'[r] = "granted" => Counted(docs[k], at'[r]).count <= Limit[k]
    /\ answer'[r] = "denied" => Counted(docs[k], at'[r]).count > Limit[k]
    /\ pc'[r] = "done" /\ Key(input'[r]) = k
    /\ docs[k].start <= at'[r] /\ at'[r] <= clock /\ at'[r] > Window
    /\ \A q \in Held(k) : at[q] <= at'[r]

Outcome(r) ==
    /\ Alone(r)
    /\ \/ Working(r) \/ Uncounted(r)
       \/ \E k \in Keys : TurnedAway(r, k) \/ CountedNow(r, k)

\* The variables are functions of the requests.
LEMMA Domains ==
  ASSUME LimiterInv
  PROVE  /\ pc = [q \in Requests |-> pc[q]] /\ seen = [q \in Requests |-> seen[q]]
         /\ at = [q \in Requests |-> at[q]] /\ input = [q \in Requests |-> input[q]]
         /\ answer = [q \in Requests |-> answer[q]]
BY DEF LimiterInv, LimiterTypeOK

\* A request that arrives is counted, denied, exempted, or waits.
LEMMA DispatchOutcome ==
  ASSUME Inv, NEW r \in Requests, Dispatch(r)
  PROVE  Outcome(r)
<1>0. PICK i \in Inputs :
        /\ input' = [input EXCEPT ![r] = i]
        /\ \/ Exempted(r, i) \/ CheckInMemory(r, i)
           \/ Unbuilt(r, i) \/ BeginTransaction(r, i)
  BY DEF Dispatch
<1>1. /\ pc[r] = "idle" /\ answer[r] = "none" /\ at[r] = 0 /\ UNCHANGED <<backend, clock>>
      /\ LimiterInv /\ clock \in Nat /\ clock > Window /\ Window \in Nat
      /\ pc[r] # "done" /\ UNCHANGED clock
  BY Values, LimiterConstants DEF Dispatch, Inv, LimiterInv, Served, TimesInv
<1>2. CASE Exempted(r, i)
  <2>1. /\ pc' = [pc EXCEPT ![r] = "done"] /\ seen' = [seen EXCEPT ![r] = NoDoc]
        /\ answer' = [answer EXCEPT ![r] = "passed"] /\ docs' = docs
        /\ at' = [at EXCEPT ![r] = at[r]]
    BY <1>1, <1>2, Values DEF Exempted, Told
  <2>2. /\ Alone(r) /\ pc'[r] = "done" /\ at'[r] = at[r] /\ answer'[r] = "passed"
    BY <1>0, <1>1, <2>1, Domains DEF Alone
  <2> QED
    BY <1>1, <2>1, <2>2 DEF Outcome, Uncounted
<1>3. CASE Unbuilt(r, i)
  <2>1. /\ pc' = [pc EXCEPT ![r] = "done"] /\ seen' = [seen EXCEPT ![r] = NoDoc]
        /\ answer' = [answer EXCEPT ![r] = "unavailable"] /\ docs' = docs
        /\ at' = [at EXCEPT ![r] = at[r]]
    BY <1>1, <1>3, Values DEF Unbuilt, Told
  <2>2. /\ Alone(r) /\ pc'[r] = "done" /\ at'[r] = at[r] /\ answer'[r] = "unavailable"
    BY <1>0, <1>1, <2>1, Domains DEF Alone
  <2> QED
    BY <1>1, <2>1, <2>2 DEF Outcome, Uncounted
<1>4. CASE BeginTransaction(r, i)
  <2>1. /\ pc' = [pc EXCEPT ![r] = "read"] /\ seen' = [seen EXCEPT ![r] = seen[r]]
        /\ answer' = [answer EXCEPT ![r] = answer[r]] /\ docs' = docs
        /\ at' = [at EXCEPT ![r] = at[r]]
    BY <1>1, <1>4, Values DEF BeginTransaction
  <2>2. /\ Alone(r) /\ pc'[r] = "read" /\ at'[r] = at[r] /\ answer'[r] = answer[r]
    BY <1>0, <1>1, <2>1, Domains DEF Alone
  <2> QED
    BY <1>1, <2>1, <2>2 DEF Outcome, Working
<1>5. CASE CheckInMemory(r, i)
  <2> DEFINE doc == IF Expired(docs[Key(i)], clock)
                    THEN [count |-> 0, start |-> clock] ELSE docs[Key(i)]
  <2>1. PICK k \in Keys : k = Key(i)
    BY <1>5, KeysLimited DEF CheckInMemory
  <2>2. /\ docs[k] \in Doc /\ clock \in Nat /\ Limit[k] \in Nat \ {0}
        /\ docs[k].count \in Nat /\ docs[k].start \in Nat
    BY <1>1, KeysLimited, Values DEF Doc
  <2>3. /\ at' = [at EXCEPT ![r] = clock]
        /\ \/ doc.count >= Limit[k] /\ Told(r, "denied") /\ docs' = docs
           \/ /\ ~(doc.count >= Limit[k]) /\ Told(r, "granted")
              /\ docs' = [docs EXCEPT ![k] = [doc EXCEPT !.count = @ + 1]]
    BY <1>5, <2>1 DEF CheckInMemory
  <2>4. /\ [doc EXCEPT !.count = @ + 1] = Counted(docs[k], clock)
        /\ doc.count = IF Expired(docs[k], clock) THEN 0 ELSE docs[k].count
    BY <2>1, <2>2, InMemoryDoc
  <2> HIDE DEF doc
  <2>5. PICK what \in {"denied", "granted"} :
          /\ Told(r, what)
          /\ \/ what = "denied" /\ doc.count >= Limit[k] /\ docs' = docs
             \/ /\ what = "granted" /\ ~(doc.count >= Limit[k])
                /\ docs' = [docs EXCEPT ![k] = Counted(docs[k], clock)]
    BY <2>3, <2>4
  <2>6. /\ Alone(r) /\ pc'[r] = "done" /\ at'[r] = clock /\ answer'[r] = what
        /\ input'[r] = i
    <3>1. /\ pc' = [pc EXCEPT ![r] = "done"] /\ seen' = [seen EXCEPT ![r] = NoDoc]
          /\ answer' = [answer EXCEPT ![r] = what]
      BY <2>5 DEF Told
    <3> QED
      BY <1>0, <1>1, <2>3, <3>1, Domains DEF Alone
  <2>7. CASE what = "denied" /\ doc.count >= Limit[k] /\ docs' = docs
    <3>1. docs[k].count >= Limit[k] /\ clock < docs[k].start + Window
      BY <1>1, <2>2, <2>4, <2>7 DEF Expired
    <3> QED
      BY <2>1, <2>6, <2>7, <3>1 DEF Outcome, TurnedAway
  <2>8. CASE /\ what = "granted" /\ ~(doc.count >= Limit[k])
             /\ docs' = [docs EXCEPT ![k] = Counted(docs[k], clock)]
    <3>1. Counted(docs[k], clock).count <= Limit[k]
      BY <2>2, <2>4, <2>8, CountedDoc
    <3>2. docs[k].start <= clock /\ \A q \in Held(k) : at[q] <= clock
      BY DEF Inv, TimesInv, Held, During, Between, Takers, Of, Those
    <3>3. CountedNow(r, k)
      BY <1>1, <2>1, <2>2, <2>6, <2>8, <3>1, <3>2 DEF CountedNow
    <3> QED
      BY <2>6, <3>3 DEF Outcome
  <2> QED
    BY <2>5, <2>7, <2>8
<1> QED
  BY <1>0, <1>2, <1>3, <1>4, <1>5

\* A transaction that has read knows the document of now.
LEMMA ReadOutcome ==
  ASSUME Inv, NEW r \in Requests, Read(r)
  PROVE  Outcome(r)
<1>1. /\ answer[r] = "none" /\ pc[r] # "done" /\ UNCHANGED clock /\ LimiterInv
      /\ clock \in Nat
  BY Values DEF Read, Inv, LimiterInv, Served
<1>2. /\ pc' = [pc EXCEPT ![r] = "commit"]
      /\ seen' = [seen EXCEPT ![r] = docs[Key(input[r])]]
      /\ answer' = [answer EXCEPT ![r] = answer[r]]
      /\ at' = [at EXCEPT ![r] = clock] /\ input' = [input EXCEPT ![r] = input[r]]
      /\ docs' = docs
  BY <1>1, Values DEF Read
<1>3. /\ Alone(r) /\ pc'[r] = "commit" /\ seen'[r] = docs[Key(input[r])]
      /\ at'[r] = clock /\ input'[r] = input[r] /\ answer'[r] = answer[r]
  BY <1>1, <1>2, Domains DEF Alone
<1> QED
  BY <1>1, <1>2, <1>3 DEF Outcome, Working

\* A transaction that begins again has counted nothing.
LEMMA TryAgainOutcome ==
  ASSUME Inv, NEW r \in Requests, TryAgain(r)
  PROVE  Outcome(r)
<1>1. /\ answer[r] = "none" /\ pc[r] # "done" /\ UNCHANGED clock /\ LimiterInv
      /\ at[r] <= clock
  BY DEF TryAgain, Inv, LimiterInv, Served, TimesInv
<1>2. /\ pc' = [pc EXCEPT ![r] = "read"] /\ seen' = [seen EXCEPT ![r] = seen[r]]
      /\ answer' = [answer EXCEPT ![r] = answer[r]] /\ docs' = docs
      /\ at' = [at EXCEPT ![r] = at[r]] /\ input' = [input EXCEPT ![r] = input[r]]
  BY <1>1, Values DEF TryAgain
<1>3. Alone(r) /\ pc'[r] = "read" /\ at'[r] = at[r] /\ answer'[r] = answer[r]
  BY <1>1, <1>2, Domains DEF Alone
<1> QED
  BY <1>1, <1>2, <1>3 DEF Outcome, Working

\* The commit of a transaction whose document is still what it has seen.
LEMMA WrittenOutcome ==
  ASSUME Inv, NEW r \in Requests, pc[r] = "commit", Unchanged(r), docs' = Written(r),
         NEW what \in {"granted", "denied", "unavailable"}, Told(r, what),
         UNCHANGED <<clock, input, at>>,
         what = "granted" => Counted(seen[r], at[r]).count <= Limit[Key(input[r])],
         what = "denied" => Counted(seen[r], at[r]).count > Limit[Key(input[r])]
  PROVE  Outcome(r)
<1>1. /\ answer[r] = "none" /\ pc[r] # "done" /\ LimiterInv
  BY DEF Inv, LimiterInv, Served
<1>2. PICK k \in Keys : k = Key(input[r])
  BY <1>1, InputKey
<1>3. /\ pc' = [pc EXCEPT ![r] = "done"] /\ seen' = [seen EXCEPT ![r] = NoDoc]
      /\ answer' = [answer EXCEPT ![r] = what]
      /\ at' = [at EXCEPT ![r] = at[r]] /\ input' = [input EXCEPT ![r] = input[r]]
  BY <1>1, Values DEF Told
<1>4. /\ Alone(r) /\ pc'[r] = "done" /\ at'[r] = at[r] /\ input'[r] = input[r]
      /\ answer'[r] = what
  BY <1>1, <1>3, Domains DEF Alone
<1>5. docs[k] = seen[r] /\ docs' = [docs EXCEPT ![k] = Counted(docs[k], at[r])]
  BY <1>2 DEF Unchanged, Written
<1>6. /\ docs[k].start <= at[r] /\ at[r] <= clock /\ at[r] > Window
      /\ \A q \in Held(k) : at[q] <= at[r]
  BY <1>2, <1>5 DEF Inv, TimesInv
<1>7. CountedNow(r, k)
  BY <1>2, <1>4, <1>5, <1>6 DEF CountedNow
<1> QED
  BY <1>4, <1>7 DEF Outcome

\* A commit counts the request on the document that was read.
LEMMA CommitOutcome ==
  ASSUME Inv, NEW r \in Requests, Commit(r)
  PROVE  Outcome(r)
<1> DEFINE count == Counted(seen[r], at[r]).count
<1>0. pc[r] = "commit" /\ Unchanged(r) /\ docs' = Written(r) /\ UNCHANGED <<clock, input, at>>
  BY DEF Commit
<1>1. PICK k \in Keys : k = Key(input[r])
  BY <1>0, InputKey DEF Inv
<1>2. count \in Nat /\ Limit[k] \in Nat
  BY KeysLimited, CountedDoc, Values DEF Doc, Inv
<1>3. Told(r, IF count > Limit[k] THEN "denied" ELSE "granted")
  BY <1>1 DEF Commit
<1> HIDE DEF count
<1>4. PICK what \in {"granted", "denied", "unavailable"} :
        /\ Told(r, what)
        /\ what = "granted" => count <= Limit[k]
        /\ what = "denied" => count > Limit[k]
  BY <1>2, <1>3
<1> QED
  BY <1>0, <1>1, <1>4, WrittenOutcome DEF count

\* A failure grants nothing.
LEMMA FailOutcome ==
  ASSUME Inv, NEW r \in Requests, Fail(r)
  PROVE  Outcome(r)
<1>0. /\ pc[r] \in {"read", "commit"} /\ Told(r, "unavailable")
      /\ UNCHANGED <<backend, clock, input>> /\ UNCHANGED clock
  BY DEF Fail
<1>1. CASE UNCHANGED docs /\ at' = [at EXCEPT ![r] = 0]
  <2>1. answer[r] = "none" /\ pc[r] # "done" /\ LimiterInv
    BY <1>0 DEF Inv, LimiterInv, Served
  <2>2. /\ pc' = [pc EXCEPT ![r] = "done"] /\ seen' = [seen EXCEPT ![r] = NoDoc]
        /\ answer' = [answer EXCEPT ![r] = "unavailable"]
        /\ input' = [input EXCEPT ![r] = input[r]]
    BY <1>0, <2>1, Values DEF Told
  <2>3. Alone(r) /\ pc'[r] = "done" /\ at'[r] = 0 /\ answer'[r] = "unavailable"
    BY <1>0, <1>1, <2>1, <2>2, Domains DEF Alone
  <2> QED
    BY <1>1, <2>3 DEF Outcome, Uncounted
<1>2. CASE pc[r] = "commit" /\ Unchanged(r) /\ docs' = Written(r) /\ UNCHANGED at
  BY <1>0, <1>2, WrittenOutcome
<1> QED
  BY <1>1, <1>2 DEF Fail

\* Every step of a request has one of these outcomes.
LEMMA StepOutcome ==
  ASSUME Inv, NEW r \in Requests, RequestStep(r)
  PROVE  Outcome(r)
BY DispatchOutcome, ReadOutcome, TryAgainOutcome, CommitOutcome, FailOutcome
   DEF RequestStep
-----------------------------------------------------------------------------
(* What a step keeps. *)

\* A document that was counted on since is not the one that was read.
LEMMA CountedLater ==
  ASSUME NEW s \in Doc, NEW d \in Doc, NEW a \in Nat, Older(s, d)
  PROVE  Older(s, Counted(d, a)) /\ Counted(d, a) # s
<1>0. Window \in Nat \ {0} /\ s.start \in Nat /\ s.count \in Nat
      /\ d.start \in Nat /\ d.count \in Nat
  BY LimiterConstants DEF Doc
<1>1. Counted(d, a).start \in Nat /\ Counted(d, a).count \in Nat
  BY CountedDoc DEF Doc
<1>2. \/ Counted(d, a).start > d.start
      \/ Counted(d, a).start = d.start /\ Counted(d, a).count = d.count + 1
  <2>1. CASE Expired(d, a)
    <3>1. Counted(d, a).start >= d.start + Window
      BY <2>1, CountedDoc
    <3> QED
      BY <1>0, <1>1, <3>1
  <2>2. CASE ~Expired(d, a)
    <3>1. Counted(d, a).start = d.start /\ Counted(d, a).count = d.count + 1
      BY <2>2, CountedDoc
    <3> QED
      BY <3>1
  <2> QED
    BY <2>1, <2>2
<1> QED
  BY <1>0, <1>1, <1>2 DEF Older

\* The document of a request that is counted.
LEMMA DocsCounted ==
  ASSUME LimiterInv, NEW r \in Requests, NEW k \in Keys, CountedNow(r, k), at'[r] \in Nat
  PROVE  /\ docs'[k] = Counted(docs[k], at'[r])
         /\ \A j \in Keys \ {k} : docs'[j] = docs[j]
         /\ docs[k] \in Doc /\ docs'[k] \in Doc /\ docs'[k].count > 0
         /\ docs'[k].start = docs[k].start \/ docs'[k].start = at'[r]
<1>1. docs \in [Keys -> Doc]
  BY DEF LimiterInv, LimiterTypeOK, Doc
<1>2. docs'[k] = Counted(docs[k], at'[r]) /\ docs[k] \in Doc
  BY <1>1 DEF CountedNow
<1>3. docs'[k] \in Doc /\ docs'[k].count > 0
  <2>1. PICK a \in Nat : a = at'[r]
    OBVIOUS
  <2>2. PICK d \in Doc : d = docs[k]
    BY <1>2
  <2>3. /\ Counted(d, a) \in Doc
        /\ Expired(d, a) => Counted(d, a).count = 1
        /\ ~Expired(d, a) => Counted(d, a).count = d.count + 1
    BY CountedDoc
  <2>4. d.count \in Nat
    BY DEF Doc
  <2>5. Counted(d, a).count > 0
    BY <2>3, <2>4
  <2> QED
    BY <1>2, <2>1, <2>2, <2>3, <2>5
<1>4. docs'[k].start = docs[k].start \/ docs'[k].start = at'[r]
  BY <1>2, CountedDoc DEF Counted
<1> QED
  BY <1>1, <1>2, <1>3, <1>4 DEF CountedNow

\* Finitely many have begun.
LEMMA StartedKept ==
  ASSUME Inv, NEW r \in Requests, Outcome(r)
  PROVE  Started'
<1>1. {q \in Requests : pc'[q] # "idle"} \subseteq {q \in Requests : pc[q] # "idle"} \cup {r}
  BY DEF Outcome, Alone
<1> QED
  BY <1>1, OneMore DEF Inv, Started

\* Every step keeps what is known of the times.
LEMMA TimesKept ==
  ASSUME Inv, LimiterInv', NEW r \in Requests, Outcome(r)
  PROVE  TimesInv'
<1>0. /\ LimiterInv /\ \A q \in Requests : at[q] \in Nat /\ at'[q] \in Nat
      /\ clock \in Nat /\ clock' = clock /\ Window \in Nat /\ Alone(r)
      /\ \A q \in Requests : seen[q] \in Doc
      /\ \A k \in Keys : docs[k] \in Doc
  BY LimiterConstants DEF Inv, LimiterInv, LimiterTypeOK, Outcome, Alone, Doc
<1>1. /\ clock > Window
      /\ \A k \in Keys : docs[k].start <= clock /\ (docs[k].count = 0 => docs[k].start = 0)
      /\ \A q \in Requests : at[q] <= clock /\ (pc[q] = "idle" => at[q] = 0)
      /\ \A q \in Requests : pc[q] = "commit" => seen[q].start <= at[q] /\ at[q] > Window
      /\ \A k \in Keys, q \in Requests : pc[q] = "commit" /\ Key(input[q]) = k =>
           /\ Older(seen[q], docs[k])
           /\ docs[k] = seen[q] => \A x \in Held(k) : at[x] <= at[q]
  BY DEF Inv, TimesInv
<1>2. /\ at'[r] <= clock /\ pc'[r] # "idle"
      /\ \A k \in Keys : docs'[k] = docs[k] \/ CountedNow(r, k)
  <2>1. \A j, k \in Keys : CountedNow(r, j) /\ j # k => docs'[k] = docs[k]
    BY <1>0, DocsCounted
  <2> QED
    BY <1>0, <1>1, <2>1 DEF Outcome, Working, Uncounted, TurnedAway, CountedNow
<1>3. ASSUME NEW k \in Keys
      PROVE  docs'[k].start <= clock' /\ (docs'[k].count = 0 => docs'[k].start = 0)
  BY <1>0, <1>1, <1>2, DocsCounted
<1>4. ASSUME NEW q \in Requests PROVE at'[q] <= clock' /\ (pc'[q] = "idle" => at'[q] = 0)
  BY <1>0, <1>1, <1>2 DEF Alone
<1>5. pc'[r] = "commit" => /\ Working(r) /\ Key(input[r]) \in Keys
                           /\ docs' = docs /\ at'[r] = clock /\ input'[r] = input[r]
                           /\ seen'[r] = docs[Key(input[r])]
  <2>1. pc'[r] = "commit" => Limited(input'[r]) /\ input'[r] \in Inputs
    BY DEF LimiterInv, LimiterTypeOK, Served
  <2> QED
    BY <2>1, KeysLimited DEF Outcome, Working, Uncounted, TurnedAway, CountedNow
<1>6. ASSUME NEW q \in Requests, pc'[q] = "commit"
      PROVE  seen'[q].start <= at'[q] /\ at'[q] > Window
  <2>1. CASE q = r
    BY <1>1, <1>5, <1>6, <2>1
  <2>2. CASE q # r
    BY <1>0, <1>1, <1>6, <2>2 DEF Alone
  <2> QED
    BY <2>1, <2>2
<1>7. ASSUME NEW k \in Keys, NEW q \in Requests, pc'[q] = "commit", Key(input'[q]) = k
      PROVE  /\ Older(seen'[q], docs'[k])
             /\ docs'[k] = seen'[q] => \A x \in Held(k)' : at'[x] <= at'[q]
  <2>1. CASE q = r
    <3>1. Held(k)' \subseteq Requests
      BY DEF Held, During, Between, Takers, Of, Those
    <3>2. Older(seen'[q], docs'[k])
      BY <1>0, <1>5, <1>7, <2>1 DEF Older, Doc
    <3>3. at'[q] = clock'
      BY <1>0, <1>5, <1>7, <2>1
    <3> QED
      BY <1>4, <3>1, <3>2, <3>3
  <2>2. CASE q # r
    <3>1. pc[q] = "commit" /\ Key(input[q]) = k /\ seen'[q] = seen[q] /\ at'[q] = at[q]
      BY <1>0, <1>7, <2>2 DEF Alone
    <3>2. CASE CountedNow(r, k)
      <4>1. docs'[k] = Counted(docs[k], at'[r])
        BY <1>0, <3>2, DocsCounted
      <4> QED
        BY <1>0, <1>1, <3>1, <4>1, CountedLater
    <3>3. CASE ~CountedNow(r, k)
      <4>1. docs'[k] = docs[k]
        BY <1>2, <3>3
      <4>2. ASSUME NEW x \in Held(k)', x # r PROVE x \in Held(k) /\ at'[x] = at[x]
        BY <1>0, <4>1, <4>2 DEF Held, During, Between, Takers, Of, Those, Alone
      <4>3. r \in Held(k)' => at'[r] = 0
        <5>1. r \in Held(k)' => /\ answer'[r] \in {"granted", "unavailable"}
                                /\ Key(input'[r]) = k
          BY DEF Held, During, Between, Takers, Of, Those
        <5> QED
          BY <3>3, <5>1 DEF Outcome, Working, Uncounted, TurnedAway, CountedNow
      <4>4. \A x \in Held(k)' : docs[k] = seen[q] => at'[x] <= at[q]
        BY <1>0, <1>1, <3>1, <4>2, <4>3
      <4> QED
        BY <1>1, <3>1, <4>1, <4>4
    <3> QED
      BY <3>2, <3>3
  <2> QED
    BY <2>1, <2>2
<1> QED
  BY <1>0, <1>1, <1>3, <1>4, <1>6, <1>7 DEF TimesInv

\* Only the times of those granted matter.
LEMMA SameGrants ==
  ASSUME NEW S, NEW T, NEW U, \A q \in S : U[q] = T[q], NEW d, NEW l,
         GrantsFit(S, T, d, l)
  PROVE  GrantsFit(S, U, d, l)
<1>1. \A t, u : /\ Since(S, U, t) = Since(S, T, t)
                /\ Between(S, U, t, u) = Between(S, T, t, u)
                /\ During(S, U, t) = During(S, T, t)
  BY DEF Since, Between, During
<1> QED
  BY <1>1 DEF GrantsFit

\* Who else was told something was told the same before the step.
LEMMA ToldBefore ==
  ASSUME Inv, NEW r \in Requests, Outcome(r), NEW k \in Keys
  PROVE  /\ Grants(k)' = IF answer'[r] = "granted" /\ Key(input'[r]) = k
                         THEN Grants(k) \cup {r} ELSE Grants(k)
         /\ Takers(k)' = IF answer'[r] \in {"granted", "unavailable"} /\ Key(input'[r]) = k
                         THEN Takers(k) \cup {r} ELSE Takers(k)
         /\ r \notin Takers(k) /\ Grants(k) \subseteq Takers(k) /\ IsFiniteSet(Grants(k))
         /\ \A q \in Takers(k) : at'[q] = at[q] /\ at[q] \in Nat
         /\ IsFiniteSet(Takers(k))
<1>1. Alone(r) /\ \A q \in Requests : at[q] \in Nat
  BY DEF Outcome, Inv, LimiterInv, LimiterTypeOK
<1>2. /\ Grants(k)' = IF answer'[r] = "granted" /\ Key(input'[r]) = k
                      THEN Grants(k) \cup {r} ELSE Grants(k)
      /\ Takers(k)' = IF answer'[r] \in {"granted", "unavailable"} /\ Key(input'[r]) = k
                      THEN Takers(k) \cup {r} ELSE Takers(k)
  BY <1>1 DEF Alone, Grants, Takers, Of, Those
<1>3. /\ r \notin Takers(k) /\ Grants(k) \subseteq Takers(k) /\ Takers(k) \subseteq Requests
      /\ \A q \in Takers(k) : answer[q] # "none"
  BY <1>1 DEF Alone, Grants, Takers, Of, Those
<1>4. IsFiniteSet(Takers(k)) /\ IsFiniteSet(Grants(k))
  BY <1>3, Finite
<1> QED
  BY <1>1, <1>2, <1>3, <1>4 DEF Alone

\* Every step keeps the counts of the windows.
LEMMA CountsKept ==
  ASSUME Inv, GrantsInv, CountInv, LimiterInv', NEW r \in Requests, Outcome(r)
  PROVE  GrantsInv' /\ CountInv'
<1>0. LimiterInv /\ at'[r] \in Nat /\ clock \in Nat /\ Window \in Nat \ {0}
  BY LimiterConstants DEF Inv, LimiterInv, LimiterTypeOK
<1> SUFFICES ASSUME NEW k \in Keys
             PROVE  /\ GrantsFit(Grants(k)', at', docs'[k], Limit[k])
                    /\ CountFits(Takers(k)', at', docs'[k], Limit[k])
  BY DEF GrantsInv, CountInv
<1>1. /\ Limit[k] \in Nat \ {0} /\ docs[k] \in Doc /\ docs \in [Keys -> Doc]
      /\ GrantsFit(Grants(k), at, docs[k], Limit[k])
      /\ CountFits(Takers(k), at, docs[k], Limit[k])
  BY KeysLimited, <1>0 DEF LimiterInv, LimiterTypeOK, Doc, GrantsInv, CountInv
<1>2. /\ Grants(k)' = IF answer'[r] = "granted" /\ Key(input'[r]) = k
                      THEN Grants(k) \cup {r} ELSE Grants(k)
      /\ Takers(k)' = IF answer'[r] \in {"granted", "unavailable"} /\ Key(input'[r]) = k
                      THEN Takers(k) \cup {r} ELSE Takers(k)
      /\ r \notin Takers(k) /\ Grants(k) \subseteq Takers(k) /\ IsFiniteSet(Grants(k))
      /\ \A q \in Takers(k) : at'[q] = at[q] /\ at[q] \in Nat
      /\ IsFiniteSet(Takers(k))
  BY ToldBefore
<1>3. CASE CountedNow(r, k)
  <2>1. docs'[k] = Counted(docs[k], at'[r])
    BY <1>0, <1>3, DocsCounted
  <2>2. /\ docs[k].start <= at'[r]
        /\ docs[k].count = 0 => Expired(docs[k], at'[r])
    BY <1>0, <1>3 DEF CountedNow, Expired, Inv, TimesInv
  <2>3. \/ Grants(k)' = Grants(k)
        \/ Grants(k)' = Grants(k) \cup {r} /\ docs'[k].count <= Limit[k]
    BY <1>2, <1>3, <2>1 DEF CountedNow
  <2>4. \/ Takers(k)' = Takers(k) \cup {r}
        \/ Takers(k)' = Takers(k) /\ docs'[k].count > Limit[k]
    BY <1>2, <1>3, <2>1 DEF CountedNow
  <2>5. GrantsFit(Grants(k)', at', docs'[k], Limit[k])
    BY <1>0, <1>1, <1>2, <2>1, <2>2, <2>3, GrantsCounted
  <2>6. CountFits(Takers(k)', at', docs'[k], Limit[k])
    BY <1>0, <1>1, <1>2, <2>1, <2>2, <2>4, CountCounted
  <2> QED
    BY <2>5, <2>6
<1>4. CASE ~CountedNow(r, k)
  <2>1. docs'[k] = docs[k] /\ ~(answer'[r] = "granted" /\ Key(input'[r]) = k)
    BY <1>0, <1>4, DocsCounted
       DEF Outcome, Working, Uncounted, TurnedAway, CountedNow
  <2>2. GrantsFit(Grants(k)', at', docs'[k], Limit[k])
    BY <1>1, <1>2, <2>1, SameGrants
  <2>3. CountFits(Takers(k)', at', docs'[k], Limit[k])
    <3> DEFINE X == During(Takers(k), at, docs[k].start)
               Y == During(Takers(k)', at', docs'[k].start)
    <3>1. X \subseteq Y /\ Y \subseteq Takers(k) \cup {r}
      BY <1>2, <2>1 DEF During, Between
    <3>2. IsFiniteSet(Y)
      BY <1>2, <3>1, OneMore
    <3>3. Cardinality(X) <= Cardinality(Y) /\ Cardinality(X) \in Nat /\ Cardinality(Y) \in Nat
      BY <3>1, <3>2, NotMore
    <3>4. docs[k].count \in Nat
      BY <1>1 DEF Doc
    <3> QED
      BY <1>1, <2>1, <3>3, <3>4 DEF CountFits
  <2> QED
    BY <2>2, <2>3
<1> QED
  BY <1>3, <1>4

\* The requests before r that a denial of it rests on.
Before(r) == {q \in Those("granted") \cup Those("unavailable") :
                /\ Key(input[q]) = Key(input[r])
                /\ at[q] <= at[r] /\ at[r] < at[q] + Window}

\* Every step keeps what is known of the denials.
LEMMA DenialsKept ==
  ASSUME Inv, Inv', CountInv, DenialsInv, NEW r \in Requests, Outcome(r)
  PROVE  DenialsInv'
<1>0. /\ LimiterInv /\ at'[r] \in Nat /\ clock \in Nat /\ Window \in Nat \ {0} /\ Alone(r)
      /\ \A q \in Requests : at[q] \in Nat /\ at'[q] \in Nat
  BY LimiterConstants DEF Inv, LimiterInv, LimiterTypeOK, Outcome
<1>1. ASSUME NEW q \in Requests
      PROVE  IsFiniteSet(Before(q)') /\ IsFiniteSet(Before(q))
  <2>1. Before(q) \subseteq Requests /\ \A x \in Before(q) : answer[x] # "none"
    BY DEF Before, Those
  <2>2. IsFiniteSet(Before(q))
    BY <2>1, Finite
  <2>3. Before(q)' \subseteq {x \in Requests : pc'[x] # "idle"}
    BY DEF Before, Those, Inv, LimiterInv, Served
  <2>4. IsFiniteSet({x \in Requests : pc'[x] # "idle"})
    BY DEF Inv, Started
  <2> QED
    BY <2>2, <2>3, <2>4, NotMore
<1> SUFFICES ASSUME NEW q \in Those("denied")'
             PROVE  \E k \in Keys : /\ Key(input'[q]) = k
                                    /\ Cardinality(Before(q)') >= Limit[k]
  BY DEF DenialsInv, DeniedOnlyWhenFull, Before
<1>2. q \in Requests /\ answer'[q] = "denied"
  BY DEF Those
<1>3. CASE q # r
  <2>1. q \in Those("denied") /\ input'[q] = input[q] /\ at'[q] = at[q]
    BY <1>0, <1>2, <1>3 DEF Alone, Those
  <2>2. PICK k \in Keys : k = Key(input[q])
    BY <2>1 DEF DenialsInv
  <2>3. Cardinality(Before(q)) >= Limit[k]
    BY <2>1, <2>2 DEF DenialsInv, DeniedOnlyWhenFull, Before
  <2>4. Before(q) \subseteq Before(q)'
    BY <1>0, <2>1 DEF Before, Those, Alone
  <2>5. /\ Cardinality(Before(q)) <= Cardinality(Before(q)')
        /\ Cardinality(Before(q)) \in Nat /\ Cardinality(Before(q)') \in Nat
    BY <1>1, <1>2, <2>4, NotMore
  <2>6. Limit[k] \in Nat
    BY KeysLimited
  <2> QED
    BY <2>1, <2>2, <2>3, <2>5, <2>6
<1>4. CASE q = r
  <2>1. PICK k \in Keys : TurnedAway(r, k) \/ CountedNow(r, k)
    BY <1>2, <1>4 DEF Outcome, Working, Uncounted
  <2>2. /\ Limit[k] \in Nat \ {0} /\ docs[k] \in Doc
        /\ docs[k].count \in Nat /\ docs[k].start \in Nat
        /\ CountFits(Takers(k), at, docs[k], Limit[k])
    BY KeysLimited, <1>0 DEF LimiterInv, LimiterTypeOK, Doc, CountInv
  <2>3. /\ Key(input'[r]) = k /\ docs[k].count >= Limit[k]
        /\ at'[r] < docs[k].start + Window
        /\ \A x \in Held(k) : at[x] <= at'[r]
    <3>1. CASE TurnedAway(r, k)
      <4>1. \A x \in Requests : at[x] <= clock
        BY DEF Inv, TimesInv
      <4> QED
        BY <3>1, <4>1 DEF TurnedAway, Held, During, Between, Takers, Of, Those
    <3>2. CASE CountedNow(r, k)
      <4>1. Counted(docs[k], at'[r]).count > Limit[k]
        BY <1>2, <1>4, <3>2 DEF CountedNow
      <4>2. ~Expired(docs[k], at'[r]) /\ docs[k].count >= Limit[k]
        <5>1. /\ Expired(docs[k], at'[r]) => Counted(docs[k], at'[r]).count = 1
              /\ ~Expired(docs[k], at'[r]) =>
                    Counted(docs[k], at'[r]).count = docs[k].count + 1
          BY <1>0, <2>2, CountedDoc
        <5> QED
          BY <2>2, <4>1, <5>1
      <4> QED
        BY <1>0, <2>2, <3>2, <4>2 DEF CountedNow, Expired
    <3> QED
      BY <2>1, <3>1, <3>2
  <2>4. Held(k) \subseteq Before(r)'
    BY <1>0, <2>2, <2>3 DEF Before, Held, During, Between, Takers, Of, Those, Alone
  <2>5. /\ Cardinality(Held(k)) <= Cardinality(Before(r)')
        /\ Cardinality(Held(k)) \in Nat /\ Cardinality(Before(r)') \in Nat
    BY <1>1, <2>4, NotMore
  <2>6. Limit[k] <= Cardinality(Held(k))
    BY <2>2, <2>3, <2>5 DEF CountFits, Held
  <2> QED
    BY <1>4, <2>2, <2>3, <2>5, <2>6
<1> QED
  BY <1>3, <1>4

\* Every step keeps the counts.
LEMMA CountsStep ==
  ASSUME Inv, Counts, [LimiterNext]_vars
  PROVE  Inv' /\ Counts'
<1>1. LimiterInv'
  BY LimiterStep DEF Inv
<1>2. CASE UNCHANGED vars
  BY <1>1, <1>2 DEF vars, Inv, Counts, Started, TimesInv, GrantsInv, CountInv, DenialsInv,
     DeniedOnlyWhenFull, Held, Takers, Grants, Of, Those, During, Between
<1>3. CASE Tick
  <2>1. /\ UNCHANGED <<docs, pc, input, seen, at, answer>>
        /\ clock' = clock + 1 /\ clock \in Nat /\ Window \in Nat
        /\ \A r \in Requests : at[r] \in Nat
        /\ \A k \in Keys : docs[k].start \in Nat
    BY <1>3, LimiterConstants DEF Tick, Inv, LimiterInv, LimiterTypeOK
  <2>2. /\ \A r : Before(r)' = Before(r)
        /\ \A k \in Keys : /\ Held(k)' = Held(k) /\ Grants(k)' = Grants(k)
                           /\ Takers(k)' = Takers(k)
        /\ \A a : Those(a)' = Those(a)
    BY <2>1 DEF Held, Takers, Grants, Of, Those, During, Between, Before
  <2>3. Started'
    BY <2>1 DEF Inv, Started
  <2>4. TimesInv'
    BY <2>1, <2>2 DEF Inv, TimesInv
  <2>5. GrantsInv' /\ CountInv'
    BY <2>1, <2>2 DEF Counts, GrantsInv, CountInv
  <2>6. DenialsInv'
    BY <2>1, <2>2 DEF Counts, DenialsInv, DeniedOnlyWhenFull, Before
  <2> QED
    BY <1>1, <2>3, <2>4, <2>5, <2>6 DEF Inv, Counts
<1>4. ASSUME NEW r \in Requests, RequestStep(r) PROVE Inv' /\ Counts'
  <2>1. Outcome(r)
    BY <1>4, StepOutcome
  <2>2. Inv'
    BY <1>1, <2>1, StartedKept, TimesKept DEF Inv
  <2>3. GrantsInv' /\ CountInv'
    BY <1>1, <2>1, CountsKept DEF Counts
  <2>4. DenialsInv'
    BY <2>1, <2>2, DenialsKept DEF Counts
  <2> QED
    BY <2>2, <2>3, <2>4 DEF Counts
<1> QED
  BY <1>2, <1>3, <1>4 DEF LimiterNext

\* The invariant of the limiter.
LEMMA CountsHold == LimiterSpec => [](Inv /\ Counts)
<1>1. Inv /\ Counts /\ [LimiterNext]_vars => Inv' /\ Counts'
  BY CountsStep
<1> QED
  BY <1>1, InitCounts, PTL DEF LimiterSpec

-----------------------------------------------------------------------------
(* The theorems. *)

\* Documents, transactions and answers stay well typed, and no transaction is
\* tried more often than the client of Firestore does (firestore_store.py).
THEOREM LimiterTypeCorrect == LimiterSpec => []LimiterTypeOK
<1>1. LimiterInv => LimiterTypeOK
  BY DEF LimiterInv
<1> QED
  BY <1>1, InitInv, LimiterStep, PTL DEF LimiterSpec

\* InMemoryRateLimiter and FirestoreRateLimiter, the latter in any number of
\* processes, grant and deny what one atomic fixed window would (ratelimit.py).
THEOREM ImplementsWindowHolds == LimiterSpec => ImplementsWindow
<1>1. LimiterInit => Abstract!WindowInit
  <2> SUFFICES ASSUME LimiterInit PROVE Abstract!WindowInit
    OBVIOUS
  <2>1. \A k \in Keys : docs[k].start = 0 /\ docs[k].count = 0 /\ Limit[k] \in Nat \ {0}
    BY KeysLimited DEF LimiterInit, NoDoc
  <2> QED
    BY <2>1 DEF LimiterInit, Abstract!WindowInit
<1>2. LimiterInv /\ [LimiterNext]_vars => LimiterInv' /\ [Abstract!WindowNext]_Step
  BY LimiterStep DEF WindowStep
<1> QED
  BY <1>1, <1>2, InitInv, PTL DEF LimiterSpec, ImplementsWindow, Abstract!WindowSpec, Step

\* No client that is no proxy is granted twice its limit in an interval as
\* long as a window, in either limiter and whatever it forwards (ratelimit.py,
\* firestore_store.py).
THEOREM IntervalBoundHolds == LimiterSpec => []IntervalBound
<1>1. ASSUME Inv, Counts PROVE IntervalBound
  <2> SUFFICES ASSUME NEW b \in Buckets, NEW p \in Clients \ Trusted,
                      NEW x \in Requests, BucketLimit[b] > 0
               PROVE  Cardinality({r \in Those("granted") :
                         /\ Bucket(input[r]) = b /\ input[r].peer = p
                         /\ Within(r, at[x])}) <= 2 * BucketLimit[b] - 1
    BY DEF IntervalBound
  <2> DEFINE X == {r \in Those("granted") :
                     /\ Bucket(input[r]) = b /\ input[r].peer = p /\ Within(r, at[x])}
  <2>0. BucketLimit[b] \in Nat /\ at[x] \in Nat /\ \A r \in Requests : input[r] \in Inputs
    BY <1>1, LimiterConstants DEF Inv, LimiterInv, LimiterTypeOK
  <2>1. CASE X = {}
    <3>1. Cardinality(X) = 0
      BY <2>1, FS_EmptySet
    <3>2. 0 <= 2 * BucketLimit[b] - 1
      BY <2>0
    <3> QED
      BY <3>1, <3>2
  <2>2. CASE X # {}
    <3>1. PICK r \in X : TRUE
      BY <2>2
    <3>2. \A q \in X : Client(input[q]) = p
      BY DEF Client
    <3>3. Limited(input[r])
      BY <3>1 DEF Limited, Buckets
    <3>4. PICK k \in Keys : k = <<b, p>> /\ k = Key(input[r])
      BY <2>0, <3>1, <3>2, <3>3, KeysLimited DEF Key, Those
    <3>5. Limit[k] = BucketLimit[b]
      BY <3>4 DEF Limit
    <3>6. X \subseteq During(Grants(k), at, at[x])
      BY <3>2, <3>4 DEF During, Between, Grants, Of, Key, Within
    <3>7. Cardinality(During(Grants(k), at, at[x])) <= 2 * Limit[k] - 1
      BY <1>1, <2>0 DEF Counts, GrantsInv, GrantsFit
    <3>8. IsFiniteSet(During(Grants(k), at, at[x]))
      <4>1. /\ During(Grants(k), at, at[x]) \subseteq Requests
            /\ \A q \in During(Grants(k), at, at[x]) : answer[q] # "none"
        BY DEF During, Between, Grants, Of, Those
      <4> QED
        BY <1>1, <4>1, Finite
    <3> QED
      BY <2>0, <3>5, <3>6, <3>7, <3>8, NotMore
  <2> QED
    BY <2>1, <2>2
<1> QED
  BY <1>1, CountsHold, PTL

\* A client is turned away only when it has used up its limit, or may have: no
\* outage and no other client takes its slots (ratelimit.py, firestore_store.py).
THEOREM DeniedOnlyWhenFullHolds == LimiterSpec => []DeniedOnlyWhenFull
<1>1. Counts => DeniedOnlyWhenFull
  BY DEF Counts, DenialsInv
<1> QED
  BY <1>1, CountsHold, PTL
=============================================================================
