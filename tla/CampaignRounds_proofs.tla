------------------------ MODULE CampaignRounds_proofs ------------------------
(***************************************************************************)
(* Proofs about CampaignRounds, for any strategies, any number of rounds,  *)
(* mutations and runs, and whatever the providers answer.                  *)
(*                                                                         *)
(* The theorems are those that hold whichever attack a resumed run         *)
(* continues; which one it is, and what follows from that, is in           *)
(* CampaignChains_proofs.  The argument rests on the order of the table:   *)
(* rounds never decrease along it (Sorted), so the last row tells where a  *)
(* run was (Latest), and a run is always in the round of the last row or   *)
(* the one after (InRound).                                                *)
(***************************************************************************)
EXTENDS CampaignRounds, FiniteSetTheorems, TLAPS

\* The rows: what is known of their fields, and their order.
Shape(a) ==
    /\ a = [round |-> a.round, parent |-> a.parent, name |-> a.name, results |-> a.results]
    /\ a.round \in Nat /\ a.round <= MaxRounds
    /\ a.results \in Seq(Replies)
IsTable == \E S : attacks \in Seq(S)
Shapes == \A i \in Ids : Shape(attacks[i])
Sorted == \A i, j \in Ids : i <= j => attacks[i].round <= attacks[j].round
RowsInv == IsTable /\ Shapes /\ Sorted /\ ExecutedOnce

Latest == IF attacks = <<>> THEN 0 ELSE attacks[Len(attacks)].round

\* The locals.
IsRun(r) ==
    r = [pc |-> r.pc, round |-> r.round, resume |-> r.resume, attempts |-> r.attempts,
         strategy |-> r.strategy, current |-> r.current, used |-> r.used,
         scores |-> r.scores]
LocalsInv ==
    /\ IsRun(run)
    /\ run.pc \in {"idle", "round", "execute", "evaluate", "verify", "mutate"}
    /\ run.round \in Nat /\ run.attempts \in Nat /\ runs \in Nat
    /\ run.attempts <= MutationBudget
    /\ run.pc # "idle" => runs # 0

InRound ==
    /\ run.pc # "idle" => Latest <= run.round /\ run.round <= Latest + 1
    /\ run.pc \notin {"idle", "round"} => run.round = Latest
    /\ run.pc = "round" /\ run.resume # 0 => run.round = Latest
    /\ run.pc # "round" => run.resume = 0
    /\ status = "COMPLETED" => run.pc = "idle" /\ Latest = MaxRounds
Unsent == run.pc = "execute" => run.current \in Ids /\ attacks[run.current].results = <<>>

LoopInv == RowsInv /\ LocalsInv /\ InRound /\ Unsent

\* The mutations, and how many there are at each point of a run.
Mutations == {i \in Ids : attacks[i].parent # 0}
MutationsInv ==
    /\ Cardinality(Mutations) <= MutationBudget * runs
    /\ run.pc # "idle" =>
          Cardinality(Mutations) <= MutationBudget * (runs - 1) + run.attempts

-----------------------------------------------------------------------------
(* The table. *)

\* The table is a sequence.
LEMMA Table ==
  ASSUME IsTable
  PROVE  /\ Len(attacks) \in Nat /\ Ids = 1..Len(attacks)
         /\ attacks = <<>> <=> Len(attacks) = 0
         /\ IsFiniteSet(Ids)
<1>1. PICK S : attacks \in Seq(S)
  BY DEF IsTable
<1>2. Len(attacks) \in Nat /\ Ids = 1..Len(attacks)
  BY <1>1 DEF Ids
<1>3. attacks = <<>> <=> Len(attacks) = 0
  BY <1>1
<1>4. IsFiniteSet(1..Len(attacks))
  BY <1>2, FS_Interval
<1> QED
  BY <1>2, <1>3, <1>4

\* LastRound is the round of the last row.
LEMMA LastRoundIsLatest ==
  ASSUME RowsInv
  PROVE  /\ LastRound = Latest /\ Latest \in Nat /\ Latest <= MaxRounds
         /\ \A i \in Ids : attacks[i].round <= Latest
<1>0. /\ Len(attacks) \in Nat /\ Ids = 1..Len(attacks) /\ MaxRounds \in Nat
      /\ attacks = <<>> <=> Len(attacks) = 0
      /\ \A i \in Ids : attacks[i].round \in Nat /\ attacks[i].round <= MaxRounds
  BY Table, RoundsConstants DEF RowsInv, Shapes, Shape
<1>1. CASE attacks = <<>>
  BY <1>0, <1>1 DEF LastRound, Latest
<1>2. CASE attacks # <<>>
  <2>1. Len(attacks) \in Ids
    BY <1>0, <1>2
  <2>2. \A i \in Ids : attacks[i].round <= attacks[Len(attacks)].round
    BY <1>0, <2>1 DEF RowsInv, Sorted
  <2> DEFINE R == {attacks[i].round : i \in Ids}
             m == attacks[Len(attacks)].round
  <2>3. m \in R /\ \A y \in R : m >= y
    BY <1>0, <2>1, <2>2
  <2>4. \A x \in R : (\A y \in R : x >= y) => x = m
    <3>1. R \subseteq Nat
      BY <1>0
    <3> HIDE DEF R, m
    <3> QED
      BY <2>3, <3>1
  <2>5. Max(R) = m
    BY <2>3, <2>4 DEF Max
  <2> QED
    BY <1>0, <1>2, <2>1, <2>2, <2>5 DEF LastRound, Latest
<1> QED
  BY <1>1, <1>2

\* A row in the latest round or a later one keeps the order.
LEMMA Inserted ==
  ASSUME RowsInv, NEW round \in Nat, NEW parent, NEW name,
         round <= MaxRounds, Latest <= round,
         attacks' = Append(attacks, Attack(round, parent, name))
  PROVE  /\ RowsInv' /\ Latest' = round
         /\ Ids' = Ids \cup {Len(attacks) + 1} /\ Len(attacks) + 1 \notin Ids
         /\ \A i \in Ids : attacks'[i] = attacks[i]
         /\ attacks'[Len(attacks) + 1] = Attack(round, parent, name)
<1> DEFINE n == Len(attacks) + 1
           new == Attack(round, parent, name)
<1>1. PICK S : attacks \in Seq(S)
  BY DEF RowsInv, IsTable
<1>2. n \in Nat /\ Ids = 1..(n - 1) /\ n \notin Ids
  BY <1>1 DEF Ids
<1>3. attacks' \in Seq(S \cup {new}) /\ Len(attacks') = n
  <2>1. attacks \in Seq(S \cup {new})
    BY <1>1
  <2> HIDE DEF new
  <2> QED
    BY <1>1, <2>1 DEF new
<1>4. Ids' = Ids \cup {n}
  BY <1>2, <1>3 DEF Ids
<1>5. \A i \in Ids : attacks'[i] = attacks[i]
  BY <1>1, <1>2 DEF Ids
<1>6. attacks'[n] = new
  BY <1>1, <1>2
<1>7. Shape(new) /\ new.round = round /\ Len(new.results) = 0
  BY DEF Attack, Shape
<1> HIDE DEF new
<1>8. IsTable' /\ Shapes'
  BY <1>3, <1>4, <1>5, <1>6, <1>7 DEF IsTable, RowsInv, Shapes
<1>9. Sorted'
  <2>1. \A i \in Ids : attacks[i].round <= round /\ attacks[i].round \in Nat
    <3>1. \A i \in Ids : attacks[i].round \in Nat
      BY DEF RowsInv, Shapes, Shape
    <3>2. Latest \in Nat /\ \A i \in Ids : attacks[i].round <= Latest
      BY LastRoundIsLatest
    <3> QED
      BY <3>1, <3>2
  <2>2. \A i \in Ids : i <= n /\ ~(n <= i)
    BY <1>2
  <2> QED
    BY <1>2, <1>4, <1>5, <1>6, <1>7, <2>1, <2>2 DEF RowsInv, Sorted
<1>10. ExecutedOnce'
  <2>1. \A i \in Ids : Len(attacks'[i].results) <= 1
    BY <1>5 DEF RowsInv, ExecutedOnce
  <2>2. Len(attacks'[n].results) <= 1
    BY <1>6, <1>7
  <2> QED
    BY <1>4, <2>1, <2>2 DEF ExecutedOnce
<1>11. Latest' = round
  BY <1>2, <1>3, <1>6, <1>7 DEF Latest
<1> QED
  BY <1>2, <1>4, <1>5, <1>6, <1>8, <1>9, <1>10, <1>11 DEF RowsInv, new

\* The first result of a row keeps the order.
LEMMA Replied ==
  ASSUME RowsInv, NEW c \in Ids, attacks[c].results = <<>>, NEW reply \in Replies,
         attacks' = [attacks EXCEPT ![c].results = Append(@, reply)]
  PROVE  /\ RowsInv' /\ Latest' = Latest /\ Ids' = Ids
         /\ \A i \in Ids : /\ attacks'[i].parent = attacks[i].parent
                          /\ attacks'[i].round = attacks[i].round
                          /\ attacks'[i].name = attacks[i].name
<1> DEFINE new == [attacks[c] EXCEPT !.results = Append(attacks[c].results, reply)]
<1>1. PICK S : attacks \in Seq(S)
  BY DEF RowsInv, IsTable
<1>2. Ids = 1..Len(attacks) /\ Len(attacks) \in Nat
  BY <1>1 DEF Ids
<1>3. attacks' = [attacks EXCEPT ![c] = new]
  OBVIOUS
<1>4. Shape(attacks[c])
  BY DEF RowsInv, Shapes
<1>5. /\ Shape(new) /\ new.round = attacks[c].round /\ new.parent = attacks[c].parent
      /\ new.name = attacks[c].name /\ Len(new.results) = 1
  <2>1. new = [round |-> attacks[c].round, parent |-> attacks[c].parent,
               name |-> attacks[c].name, results |-> Append(<<>>, reply)]
    BY <1>4 DEF Shape
  <2>2. Append(<<>>, reply) \in Seq(Replies) /\ Len(Append(<<>>, reply)) = 1
    OBVIOUS
  <2> QED
    BY <1>4, <2>1, <2>2 DEF Shape
<1> HIDE DEF new
<1>6. attacks' \in Seq(S \cup {new}) /\ Len(attacks') = Len(attacks) /\ Ids' = Ids
  BY <1>1, <1>2, <1>3 DEF Ids
<1>7. attacks'[c] = new /\ \A i \in Ids \ {c} : attacks'[i] = attacks[i]
  BY <1>1, <1>3 DEF Ids
<1>8. \A i \in Ids : /\ attacks'[i].parent = attacks[i].parent
                    /\ attacks'[i].round = attacks[i].round
                    /\ attacks'[i].name = attacks[i].name
  BY <1>5, <1>7
<1>9. IsTable' /\ Shapes' /\ Sorted' /\ ExecutedOnce'
  BY <1>5, <1>6, <1>7, <1>8 DEF RowsInv, IsTable, Shapes, Sorted, ExecutedOnce
<1>10. Latest' = Latest
  <2>1. attacks # <<>> /\ attacks' # <<>> /\ Len(attacks) \in Ids
    BY <1>1, <1>2, <1>6
  <2> QED
    BY <1>6, <1>8, <2>1 DEF Latest
<1> QED
  BY <1>6, <1>8, <1>9, <1>10 DEF RowsInv

-----------------------------------------------------------------------------
(* The steps, by what they do to the table and to the locals. *)

\* The run ends, or dies.
Leaves == run' = Idle /\ run.pc # "idle" /\ UNCHANGED <<attacks, runs, graded>>

\* The next round, from within one; the evaluation of a resumed attack, and
\* what follows an evaluation.
Moves ==
    /\ IsRun(run') /\ UNCHANGED <<attacks, status, runs>>
    /\ run.pc # "idle" /\ run'.attempts \in Nat /\ run'.attempts <= MutationBudget
    /\ run.attempts <= run'.attempts
    /\ \/ /\ run.pc \in {"verify", "mutate"}
          /\ run'.pc = "round" /\ run'.round = run.round + 1 /\ run'.resume = run.resume
          /\ graded' = graded
       \/ /\ run.pc = "round" /\ run.resume # 0
          /\ run'.pc = "evaluate" /\ run'.round = run.round /\ run'.resume = 0
          /\ run'.current = run.resume /\ graded' = graded
       \/ /\ run.pc = "evaluate" /\ run'.pc \in {"mutate", "verify"}
          /\ run'.round = run.round /\ run'.current = run.current
          /\ run'.resume = run.resume /\ graded' = graded \cup {run.current}

\* A new row, of the run's round: a plan, or a mutation.
Inserts ==
    /\ IsRun(run') /\ UNCHANGED <<status, runs, graded>>
    /\ \E parent, name : attacks' = Append(attacks, Attack(run.round, parent, name)) /\
          \/ run.pc = "round" /\ parent = 0 /\ run'.attempts = run.attempts
          \/ /\ run.pc = "mutate" /\ run.attempts < MutationBudget
             /\ run'.attempts = run.attempts + 1
    /\ run'.pc = "execute" /\ run'.round = run.round
    /\ run.round <= MaxRounds /\ run'.current = Len(attacks) + 1
    /\ run.resume = 0 /\ run'.resume = 0

Executes ==
    /\ IsRun(run') /\ UNCHANGED <<status, runs, graded>>
    /\ \E reply \in Replies :
          attacks' = [attacks EXCEPT ![run.current].results = Append(@, reply)]
    /\ run.pc = "execute" /\ run'.pc = "evaluate" /\ run'.round = run.round
    /\ run'.attempts = run.attempts /\ run'.current = run.current
    /\ run'.resume = run.resume

Begins ==
    /\ run.pc = "idle" /\ status # "COMPLETED" /\ status' = "RUNNING"
    /\ IsRun(run') /\ run'.pc = "round" /\ run'.attempts = 0
    /\ run'.round = StartingRound
    /\ run'.resume = IF Resumable THEN Last(LastChain) ELSE 0
    /\ runs' = runs + 1 /\ UNCHANGED <<attacks, graded>>

Waits == UNCHANGED <<attacks, run, runs, graded>> /\ (status' = status \/ status' = "PENDING")

\* What an insert does to the table and to the run.
LEMMA InsertFields ==
  ASSUME LocalsInv, NEW strategy, NEW parent, NEW r, IsRun(r),
         r.round = run.round, Insert(strategy, parent, r)
  PROVE  /\ \E name : attacks' = Append(attacks, Attack(run.round, parent, name))
         /\ IsRun(run') /\ run'.pc = "execute" /\ run'.round = run.round
         /\ run'.current = Len(attacks) + 1 /\ run'.attempts = r.attempts
         /\ run'.resume = r.resume
<1>1. \E name : attacks' = Append(attacks, Attack(run.round, parent, name))
  BY DEF Insert
<1>2. run' = [r EXCEPT !.pc = "execute", !.strategy = strategy, !.current = Len(attacks) + 1]
  BY DEF Insert
<1>3. /\ IsRun(run') /\ run'.pc = "execute" /\ run'.round = r.round
      /\ run'.current = Len(attacks) + 1 /\ run'.attempts = r.attempts
      /\ run'.resume = r.resume
  BY <1>2 DEF IsRun
<1> QED
  BY <1>1, <1>3

\* What the steps do to the table, one by one.
LEMMA StepKinds ==
  ASSUME LoopInv, [RoundsNext]_vars
  PROVE  \/ Begins \/ Moves \/ Inserts \/ Executes \/ Waits
         \/ Leaves /\ status' # "COMPLETED"
         \/ Leaves /\ run.pc = "round" /\ run.round > MaxRounds /\ status' = "COMPLETED"
<1>0. /\ IsRun(run) /\ run.round \in Nat /\ run.attempts \in Nat
      /\ run.attempts <= MutationBudget /\ MutationBudget \in Nat
      /\ run.pc # "idle" => status # "COMPLETED"
  BY RoundsConstants DEF LoopInv, LocalsInv, InRound
<1>1. CASE UNCHANGED vars
  BY <1>1 DEF vars, Waits
<1>2. CASE Retry \/ HandBack \/ Reverify
  BY <1>2 DEF Retry, HandBack, Reverify, Waits, history
<1>3. CASE Raise \/ Crash
  BY <1>0, <1>3 DEF Raise, Crash, Leaves, At, rows, history
<1>4. CASE Finish
  BY <1>4 DEF Finish, Leaves, At, history
<1>5. CASE Begin
  <2>1. run' = [Idle EXCEPT !.pc = "round", !.round = StartingRound,
                  !.resume = IF Resumable THEN Last(LastChain) ELSE 0,
                  !.used = TriedNames, !.scores = [s \in Strategies |-> Score(s)]]
    BY <1>5 DEF Begin
  <2>2. /\ IsRun(run') /\ run'.pc = "round" /\ run'.attempts = 0
        /\ run'.round = StartingRound
        /\ run'.resume = IF Resumable THEN Last(LastChain) ELSE 0
    BY <2>1 DEF Idle, IsRun
  <2> QED
    BY <1>5, <2>2 DEF Begin, Begins, At
<1>6. CASE ResumeRound
  <2>1. run' = [run EXCEPT !.pc = "evaluate", !.current = run.resume, !.resume = 0,
                  !.strategy = attacks[run.resume].name,
                  !.used = @ \cup {attacks[run.resume].name}]
    BY <1>6 DEF ResumeRound
  <2>2. /\ IsRun(run') /\ run'.pc = "evaluate" /\ run'.round = run.round
        /\ run'.attempts = run.attempts /\ run'.resume = 0 /\ run'.current = run.resume
    BY <1>0, <2>1 DEF IsRun
  <2> QED
    BY <1>0, <1>6, <2>2 DEF ResumeRound, Moves, At, rows, history
<1>7. CASE Generate
  <2>1. PICK s : Insert(s, 0, [run EXCEPT !.used = @ \cup {s}])
    BY <1>7 DEF Generate
  <2> DEFINE r == [run EXCEPT !.used = @ \cup {s}]
  <2>2. IsRun(r) /\ r.round = run.round /\ r.attempts = run.attempts /\ r.resume = run.resume
    BY <1>0 DEF IsRun
  <2>3. PICK q : q = r
    OBVIOUS
  <2>4. Insert(s, 0, q)
    BY <2>1, <2>3 DEF Insert
  <2>5. /\ \E name : attacks' = Append(attacks, Attack(run.round, 0, name))
        /\ IsRun(run') /\ run'.pc = "execute" /\ run'.round = run.round
        /\ run'.current = Len(attacks) + 1 /\ run'.attempts = q.attempts
        /\ run'.resume = q.resume
    BY <2>2, <2>3, <2>4, InsertFields DEF LoopInv
  <2> QED
    BY <1>7, <2>2, <2>3, <2>5 DEF Generate, Inserts, At
<1>8. CASE Execute
  <2>1. run' = [run EXCEPT !.pc = "evaluate"]
    BY <1>8 DEF Execute, GoTo
  <2>2. /\ IsRun(run') /\ run'.pc = "evaluate" /\ run'.round = run.round
        /\ run'.attempts = run.attempts /\ run'.current = run.current
        /\ run'.resume = run.resume
    BY <1>0, <2>1 DEF IsRun
  <2> QED
    BY <1>8, <2>2 DEF Execute, Executes, At, history
<1>9. CASE Evaluate
  <2>1. \/ run' = [run EXCEPT !.pc = "mutate"]
        \/ run' = [run EXCEPT !.pc = "verify", !.scores[run.strategy] = @ + 1]
    BY <1>9 DEF Evaluate, Blocked, Jailbreak, GoTo
  <2>2. /\ IsRun(run') /\ run'.pc \in {"mutate", "verify"} /\ run'.round = run.round
        /\ run'.attempts = run.attempts /\ run'.current = run.current
        /\ run'.resume = run.resume
    BY <1>0, <2>1 DEF IsRun
  <2> QED
    BY <1>0, <1>9, <2>2 DEF Evaluate, Blocked, Jailbreak, Moves, At, rows
<1>10. CASE Verify \/ GiveUp
  <2>1. run' = NextRound(run) /\ run.pc \in {"verify", "mutate"}
    BY <1>10 DEF Verify, GiveUp, At
  <2>2. /\ IsRun(run') /\ run'.pc = "round" /\ run'.round = run.round + 1
        /\ run'.attempts = run.attempts /\ run'.resume = run.resume
    BY <1>0, <2>1 DEF IsRun, NextRound
  <2> QED
    BY <1>0, <1>10, <2>1, <2>2 DEF Verify, GiveUp, Moves, rows, history
<1>11. CASE Mutate
  <2>0. run.pc = "mutate" /\ run.attempts < MutationBudget /\ UNCHANGED <<status, runs, graded>>
    BY <1>11 DEF Mutate, MayMutate, At
  <2>1. /\ IsRun(Tried) /\ Tried.round = run.round /\ Tried.attempts = run.attempts + 1
        /\ Tried.resume = run.resume
    BY <1>0 DEF Tried, IsRun
  <2>2. CASE run' = NextRound(Tried) /\ attacks' = attacks
    <3>1. /\ IsRun(run') /\ run'.pc = "round" /\ run'.round = run.round + 1
          /\ run'.attempts = run.attempts + 1 /\ run'.resume = run.resume
      BY <1>0, <2>2 DEF IsRun, NextRound, Tried
    <3> QED
      BY <1>0, <2>0, <2>2, <3>1 DEF Moves
  <2>3. CASE Insert(run.strategy, run.current, Tried)
    <3>1. PICK q, s, c : q = Tried /\ s = run.strategy /\ c = run.current
      OBVIOUS
    <3>2. Insert(s, c, q)
      BY <2>3, <3>1 DEF Insert
    <3>3. /\ \E name : attacks' = Append(attacks, Attack(run.round, c, name))
          /\ IsRun(run') /\ run'.pc = "execute" /\ run'.round = run.round
          /\ run'.current = Len(attacks) + 1 /\ run'.attempts = q.attempts
          /\ run'.resume = q.resume
      BY <2>1, <3>1, <3>2, InsertFields DEF LoopInv
    <3>4. run.round <= MaxRounds /\ run.resume = 0
      BY <2>0, LastRoundIsLatest DEF LoopInv, InRound
    <3> QED
      BY <2>0, <2>1, <3>1, <3>3, <3>4 DEF Inserts
  <2> QED
    BY <1>11, <2>2, <2>3 DEF Mutate
<1> QED
  BY <1>1, <1>2, <1>3, <1>4, <1>5, <1>6, <1>7, <1>8, <1>9, <1>10, <1>11
     DEF RoundsNext, LoopStep

-----------------------------------------------------------------------------
(* The invariant of the loop. *)

\* A run starts in the latest round or the one after.
LEMMA StartsInRound ==
  ASSUME RowsInv
  PROVE  /\ StartingRound \in Nat /\ StartingRound \in {Latest, Latest + 1}
         /\ Resumable => StartingRound = Latest
BY LastRoundIsLatest DEF StartingRound

\* An empty table is in order.
LEMMA LoopInit == RoundsInit => LoopInv
<1> SUFFICES ASSUME RoundsInit PROVE LoopInv
  OBVIOUS
<1>1. RowsInv
  <2>1. attacks \in Seq({}) /\ Ids = {}
    BY DEF RoundsInit, Ids
  <2> QED
    BY <2>1 DEF RowsInv, IsTable, Shapes, Sorted, ExecutedOnce
<1>2. LocalsInv
  BY RoundsConstants DEF RoundsInit, Idle, LocalsInv, IsRun
<1>3. InRound /\ Unsent
  BY DEF RoundsInit, Idle, InRound, Unsent
<1> QED
  BY <1>1, <1>2, <1>3 DEF LoopInv

\* Every step of a run keeps the order.
LEMMA LoopStepInv ==
  ASSUME LoopInv, [RoundsNext]_vars
  PROVE  LoopInv'
<1>0. /\ RowsInv /\ LocalsInv /\ InRound /\ Unsent
      /\ run.round \in Nat /\ run.attempts \in Nat /\ runs \in Nat
      /\ Latest \in Nat /\ Latest <= MaxRounds /\ LastRound = Latest
      /\ MutationBudget \in Nat /\ MaxRounds \in Nat
  BY LastRoundIsLatest, RoundsConstants DEF LoopInv, LocalsInv
<1>1. UNCHANGED attacks => /\ RowsInv' /\ Latest' = Latest /\ Ids' = Ids
  BY <1>0 DEF RowsInv, IsTable, Shapes, Sorted, ExecutedOnce, Latest, Ids
<1>2. CASE Leaves
  <2>1. /\ IsRun(run') /\ run'.pc = "idle" /\ run'.round = 0 /\ run'.attempts = 0
        /\ run'.resume = 0
    BY <1>2 DEF Leaves, Idle, IsRun
  <2>2. LocalsInv'
    BY <1>0, <1>2, <2>1 DEF LocalsInv, Leaves
  <2>3. Unsent' /\ RowsInv'
    BY <1>1, <1>2, <2>1 DEF Unsent, Leaves
  <2>4. CASE status' # "COMPLETED"
    <3>1. InRound'
      BY <2>1, <2>4 DEF InRound
    <3> QED
      BY <2>2, <2>3, <3>1 DEF LoopInv
  <2>5. CASE run.pc = "round" /\ run.round > MaxRounds
    <3>1. Latest = MaxRounds
      BY <1>0, <2>5 DEF InRound
    <3>2. InRound'
      BY <1>1, <1>2, <2>1, <3>1 DEF InRound, Leaves
    <3> QED
      BY <2>2, <2>3, <3>2 DEF LoopInv
  <2>6. CASE Waits
    BY <1>2, <2>1, <2>6 DEF Waits, Leaves
  <2>7. ~(Begins \/ Moves \/ Inserts \/ Executes)
    BY <1>2, <2>1 DEF Begins, Moves, Inserts, Executes, Leaves
  <2> QED
    BY <2>4, <2>5, <2>6, <2>7, StepKinds
<1>3. CASE Begins
  <2>0. /\ StartingRound \in Nat /\ StartingRound \in {Latest, Latest + 1}
        /\ Resumable => StartingRound = Latest
    BY <1>0, StartsInRound
  <2>1. LocalsInv'
    BY <1>0, <1>3, <2>0 DEF LocalsInv, Begins
  <2>2. InRound'
    BY <1>0, <1>1, <1>3, <2>0 DEF InRound, Begins
  <2>3. Unsent'
    BY <1>3 DEF Unsent, Begins
  <2> QED
    BY <1>1, <1>3, <2>1, <2>2, <2>3 DEF LoopInv, Begins
<1>4. CASE Moves
  <2>1. LocalsInv'
    BY <1>0, <1>4 DEF LocalsInv, Moves
  <2>2. InRound'
    BY <1>0, <1>1, <1>4 DEF InRound, Moves
  <2>3. Unsent'
    BY <1>4 DEF Unsent, Moves
  <2> QED
    BY <1>1, <1>4, <2>1, <2>2, <2>3 DEF LoopInv, Moves
<1>5. CASE Inserts
  <2>1. LocalsInv'
    BY <1>0, <1>5 DEF LocalsInv, Inserts
  <2>2. PICK round, parent, name :
           /\ round \in Nat /\ round = run.round
           /\ attacks' = Append(attacks, Attack(round, parent, name))
    BY <1>0, <1>5 DEF Inserts
  <2>3. round <= MaxRounds /\ Latest <= round
    BY <1>0, <1>5, <2>2 DEF Inserts, InRound
  <2>4. /\ RowsInv' /\ Latest' = round /\ Ids' = Ids \cup {Len(attacks) + 1}
        /\ attacks'[Len(attacks) + 1] = Attack(round, parent, name)
    BY <1>0, <2>2, <2>3, Inserted
  <2>5. InRound'
    BY <1>0, <1>5, <2>2, <2>4 DEF InRound, Inserts
  <2>6. Unsent'
    BY <1>5, <2>4 DEF Unsent, Inserts, Attack
  <2> QED
    BY <2>1, <2>4, <2>5, <2>6 DEF LoopInv
<1>6. CASE Executes
  <2>1. LocalsInv'
    BY <1>0, <1>6 DEF LocalsInv, Executes
  <2>2. PICK c \in Ids, reply \in Replies :
           attacks[c].results = <<>> /\ attacks' = [attacks EXCEPT ![c].results = Append(@, reply)]
    BY <1>0, <1>6 DEF Executes, Unsent
  <2>3. RowsInv' /\ Latest' = Latest
    BY <1>0, <2>2, Replied
  <2>4. InRound' /\ Unsent'
    BY <1>0, <1>6, <2>3 DEF InRound, Unsent, Executes
  <2> QED
    BY <2>1, <2>3, <2>4 DEF LoopInv
<1>7. CASE Waits
  BY <1>0, <1>1, <1>7 DEF LoopInv, LocalsInv, InRound, Unsent, Waits
<1> QED
  BY <1>2, <1>3, <1>4, <1>5, <1>6, <1>7, StepKinds

\* The invariant of the loop.
LEMMA LoopHolds == RoundsFairSpec => []LoopInv
<1>1. LoopInv /\ [RoundsNext]_vars => LoopInv'
  BY LoopStepInv
<1> QED
  BY <1>1, LoopInit, PTL DEF RoundsFairSpec, RoundsSpec

\* No attack is executed twice, whatever run executed it and however often
\* the campaign is resumed (campaign.py, _load_progress).
THEOREM ExecutedOnceHolds == RoundsFairSpec => []ExecutedOnce
<1>1. LoopInv => ExecutedOnce
  BY DEF LoopInv, RowsInv
<1> QED
  BY <1>1, LoopHolds, PTL

\* A run never generates into a round that is over (campaign.py,
\* _load_progress, the starting round).
THEOREM RoundsNeverReopenHolds == RoundsFairSpec => RoundsNeverReopen
<1> DEFINE Forward == \A i \in DOMAIN attacks' \ DOMAIN attacks : attacks'[i].round >= LastRound
<1>1. ASSUME LoopInv, [RoundsNext]_vars PROVE Forward
  <2>0. LastRound = Latest /\ Latest \in Nat /\ run.round \in Nat
    BY <1>1, LastRoundIsLatest DEF LoopInv, LocalsInv
  <2>1. CASE Inserts
    <3>1. PICK round, parent, name :
             /\ round \in Nat /\ round = run.round
             /\ attacks' = Append(attacks, Attack(round, parent, name))
      BY <2>0, <2>1 DEF Inserts
    <3>2. round <= MaxRounds /\ Latest <= round
      BY <1>1, <2>0, <2>1, <3>1 DEF Inserts, LoopInv, InRound
    <3>3. /\ Ids' = Ids \cup {Len(attacks) + 1}
          /\ attacks'[Len(attacks) + 1] = Attack(round, parent, name)
      BY <1>1, <3>1, <3>2, Inserted DEF LoopInv
    <3>4. Attack(round, parent, name).round = round
      BY DEF Attack
    <3> QED
      BY <2>0, <3>2, <3>3, <3>4 DEF Ids
  <2>2. CASE Executes
    <3>1. PICK c \in Ids, reply \in Replies :
             /\ attacks[c].results = <<>>
             /\ attacks' = [attacks EXCEPT ![c].results = Append(@, reply)]
      BY <1>1, <2>2 DEF Executes, Unsent, LoopInv
    <3> QED
      BY <1>1, <3>1, Replied DEF LoopInv, Ids
  <2>3. CASE UNCHANGED attacks
    BY <2>3
  <2> QED
    BY <1>1, <2>1, <2>2, <2>3, StepKinds DEF Begins, Moves, Waits, Leaves
<1>2. LoopInv /\ [RoundsNext]_vars => [Forward]_vars
  BY <1>1
<1> QED
  BY <1>2, LoopHolds, PTL DEF RoundsFairSpec, RoundsSpec, RoundsNeverReopen

-----------------------------------------------------------------------------
(* Mutations and verdicts. *)

\* What becomes of the table, for whoever counts its rows.
LEMMA TableSteps ==
  ASSUME LoopInv, [RoundsNext]_vars
  PROVE  /\ IsFiniteSet(Ids)
         /\ \/ /\ Ids' = Ids /\ Mutations' = Mutations
               /\ Begins \/ Moves \/ Executes \/ Waits \/ Leaves
            \/ /\ Ids' = Ids \cup {run'.current} /\ Inserts
               /\ \/ Mutations' = Mutations /\ run'.attempts = run.attempts
                  \/ /\ Mutations' \subseteq Mutations \cup {run'.current}
                     /\ run'.attempts = run.attempts + 1
<1>0. IsFiniteSet(Ids) /\ run.round \in Nat /\ Latest \in Nat
  BY Table, LastRoundIsLatest DEF LoopInv, LocalsInv, RowsInv
<1>1. CASE UNCHANGED attacks /\ (Begins \/ Moves \/ Waits \/ Leaves)
  BY <1>0, <1>1 DEF Ids, Mutations
<1>2. CASE Executes
  <2>1. PICK c \in Ids, reply \in Replies :
           attacks[c].results = <<>> /\ attacks' = [attacks EXCEPT ![c].results = Append(@, reply)]
    BY <1>2 DEF Executes, Unsent, LoopInv
  <2>2. Ids' = Ids /\ \A i \in Ids : attacks'[i].parent = attacks[i].parent
    BY <2>1, Replied DEF LoopInv
  <2> QED
    BY <1>0, <1>2, <2>2 DEF Mutations
<1>3. CASE Inserts
  <2>1. PICK round, parent, name :
           /\ round \in Nat /\ round = run.round
           /\ attacks' = Append(attacks, Attack(round, parent, name))
           /\ \/ parent = 0 /\ run'.attempts = run.attempts
              \/ run'.attempts = run.attempts + 1
    BY <1>0, <1>3 DEF Inserts
  <2>2. round <= MaxRounds /\ Latest <= round /\ run'.current = Len(attacks) + 1
    BY <1>0, <1>3, <2>1 DEF Inserts, LoopInv, InRound
  <2>3. /\ Ids' = Ids \cup {run'.current} /\ run'.current \notin Ids
        /\ \A i \in Ids : attacks'[i] = attacks[i]
        /\ attacks'[run'.current].parent = parent
    <3>1. /\ Ids' = Ids \cup {Len(attacks) + 1} /\ Len(attacks) + 1 \notin Ids
          /\ \A i \in Ids : attacks'[i] = attacks[i]
          /\ attacks'[Len(attacks) + 1] = Attack(round, parent, name)
      <4>1. RowsInv /\ round \in Nat /\ round <= MaxRounds /\ Latest <= round
        BY <2>1, <2>2 DEF LoopInv
      <4>2. attacks' = Append(attacks, Attack(round, parent, name))
        BY <2>1
      <4> QED
        BY <4>1, <4>2, Inserted
    <3> QED
      BY <2>2, <3>1 DEF Attack
  <2>4. Mutations' \subseteq Mutations \cup {run'.current} /\ Mutations \subseteq Mutations'
    BY <2>3 DEF Mutations
  <2>5. parent = 0 => Mutations' = Mutations
    BY <2>3 DEF Mutations
  <2> QED
    BY <1>0, <1>3, <2>1, <2>3, <2>4, <2>5
<1> QED
  BY <1>1, <1>2, <1>3, StepKinds DEF Begins, Moves, Waits, Leaves

\* One member more.
LEMMA Grows ==
  ASSUME NEW S, NEW T, NEW x, IsFiniteSet(S), T \subseteq S \cup {x}
  PROVE  /\ Cardinality(S) \in Nat /\ Cardinality(T) \in Nat
         /\ Cardinality(T) <= Cardinality(S) + 1
<1>0. Cardinality(S) \in Nat
  BY FS_CardinalityType
<1>1. /\ IsFiniteSet(S \cup {x})
      /\ Cardinality(S \cup {x}) = IF x \in S THEN Cardinality(S) ELSE Cardinality(S) + 1
  BY FS_AddElement
<1>2. Cardinality(S \cup {x}) <= Cardinality(S) + 1
  BY <1>0, <1>1
<1>3. /\ Cardinality(T) \in Nat /\ Cardinality(T) <= Cardinality(S \cup {x})
      /\ Cardinality(S \cup {x}) \in Nat
  BY <1>1, FS_Subset, FS_CardinalityType
<1> QED
  BY <1>0, <1>2, <1>3

\* Every step keeps the number of mutations in bounds.
LEMMA MutationsStep ==
  ASSUME LoopInv, MutationsInv, [RoundsNext]_vars
  PROVE  MutationsInv'
<1> DEFINE before == MutationBudget * (runs - 1)
           all == MutationBudget * runs
           count == Cardinality(Mutations)
<1>0. /\ run.attempts \in Nat /\ runs \in Nat /\ MutationBudget \in Nat
      /\ run.pc # "idle" => runs # 0
  BY RoundsConstants DEF LoopInv, LocalsInv
<1>1. /\ runs # 0 => before \in Nat /\ all = before + MutationBudget
      /\ all \in Nat /\ MutationBudget * (runs + 1) = all + MutationBudget
  BY <1>0
<1>2. Mutations \subseteq Ids /\ IsFiniteSet(Mutations) /\ count \in Nat
  BY TableSteps, FS_Subset, FS_CardinalityType DEF Mutations
<1>3. count <= all /\ (run.pc # "idle" => count <= before + run.attempts)
  BY DEF MutationsInv
<1>4. /\ runs' = runs => before' = before /\ all' = all
      /\ runs' = runs + 1 => before' = all /\ all' = all + MutationBudget
  BY <1>0, <1>1
<1>5. Mutations' = Mutations => count' = count
  OBVIOUS
<1>6. LocalsInv'
  BY LoopStepInv DEF LoopInv
<1>7. ASSUME count' <= all', run'.pc # "idle" => count' <= before' + run'.attempts
      PROVE  MutationsInv'
  BY <1>7 DEF MutationsInv
<1>8. ASSUME Inserts, Mutations' \subseteq Mutations \cup {run'.current},
             run'.attempts = run.attempts + 1
      PROVE  count' \in Nat /\ count' <= count + 1
  <2>1. PICK T, x : T = Mutations' /\ x = run'.current
    OBVIOUS
  <2>2. Cardinality(T) \in Nat /\ Cardinality(T) <= Cardinality(Mutations) + 1
    BY <1>2, <1>8, <2>1, Grows
  <2> QED
    BY <2>1, <2>2
<1> HIDE DEF before, all, count
<1>9. CASE Begins /\ Mutations' = Mutations
  BY <1>0, <1>1, <1>2, <1>3, <1>4, <1>5, <1>7, <1>9 DEF Begins
<1>10. CASE Moves /\ Mutations' = Mutations
  BY <1>0, <1>1, <1>2, <1>3, <1>4, <1>5, <1>7, <1>10 DEF Moves
<1>11. CASE Executes /\ Mutations' = Mutations
  BY <1>0, <1>1, <1>2, <1>3, <1>4, <1>5, <1>7, <1>11 DEF Executes
<1>12. CASE Waits /\ Mutations' = Mutations
  BY <1>3, <1>4, <1>5, <1>7, <1>12 DEF Waits
<1>13. CASE Leaves /\ Mutations' = Mutations
  <2>1. run'.pc = "idle"
    BY <1>13 DEF Leaves, Idle
  <2> QED
    BY <1>3, <1>4, <1>5, <1>7, <1>13, <2>1 DEF Leaves
<1>14. CASE Inserts /\ Mutations' = Mutations /\ run'.attempts = run.attempts
  <2>1. run.pc # "idle" /\ runs' = runs
    BY <1>14 DEF Inserts
  <2> QED
    BY <1>3, <1>4, <1>5, <1>7, <1>14, <2>1
<1>15. CASE /\ Inserts /\ Mutations' \subseteq Mutations \cup {run'.current}
            /\ run'.attempts = run.attempts + 1
  <2>1. run.pc # "idle" /\ runs' = runs /\ run'.attempts <= MutationBudget
    BY <1>6, <1>15 DEF Inserts, LocalsInv
  <2>2. count' <= before + run'.attempts
    BY <1>0, <1>1, <1>2, <1>3, <1>8, <1>15, <2>1
  <2>3. count' <= all
    BY <1>0, <1>1, <1>8, <1>15, <2>1, <2>2
  <2> QED
    BY <1>4, <1>7, <2>1, <2>2, <2>3
<1> QED
  BY <1>9, <1>10, <1>11, <1>12, <1>13, <1>14, <1>15, TableSteps

\* Every run, a resume or a retry, adds at most one mutation budget to the
\* mutations of the campaign (campaign.py, run_campaign: mutation_attempts).
THEOREM MutationsBoundedHolds == RoundsFairSpec => []MutationsBounded
<1>1. RoundsInit => MutationsInv
  <2> SUFFICES ASSUME RoundsInit PROVE MutationsInv
    OBVIOUS
  <2>1. Mutations = {} /\ runs = 0 /\ run.pc = "idle"
    BY DEF RoundsInit, Mutations, Ids, Idle
  <2> QED
    BY <2>1, FS_EmptySet, RoundsConstants DEF MutationsInv
<1>2. MutationsInv => MutationsBounded
  <2>1. Ids \ Roots = Mutations
    BY DEF Roots, Mutations
  <2> QED
    BY <2>1 DEF MutationsInv, MutationsBounded
<1>3. LoopInv /\ MutationsInv /\ [RoundsNext]_vars => MutationsInv'
  BY MutationsStep
<1> QED
  BY <1>1, <1>2, <1>3, LoopHolds, PTL DEF RoundsFairSpec, RoundsSpec

\* The attacks without a verdict: within an attempt, but for the current one.
Ungraded == Ids \ graded
LostInv ==
    /\ Cardinality(Ungraded) <= runs
    /\ run.pc \in {"round", "mutate", "verify"} \/ status = "COMPLETED" =>
          Cardinality(Ungraded) + 1 <= runs
    /\ run.pc \in {"execute", "evaluate"} =>
          Cardinality(Ungraded \ {run.current}) + 1 <= runs

\* A subset is no larger.
LEMMA Fewer ==
  ASSUME NEW S, NEW T, IsFiniteSet(S), T \subseteq S
  PROVE  /\ Cardinality(S) \in Nat /\ Cardinality(T) \in Nat
         /\ Cardinality(T) <= Cardinality(S)
BY FS_Subset, FS_CardinalityType

\* Every step keeps the attacks without a verdict in bounds.
LEMMA LostStep ==
  ASSUME LoopInv, LostInv, [RoundsNext]_vars
  PROVE  LostInv'
<1>0. /\ runs \in Nat /\ IsFiniteSet(Ids)
      /\ run.pc # "idle" => status # "COMPLETED"
      /\ run.pc # "idle" => runs # 0
  BY TableSteps DEF LoopInv, LocalsInv, InRound
<1>1. IsFiniteSet(Ungraded) /\ Cardinality(Ungraded) \in Nat
  BY <1>0, FS_Subset, FS_CardinalityType DEF Ungraded
<1>2. ASSUME Ids' = Ids, graded' = graded PROVE Ungraded' = Ungraded
  BY <1>2 DEF Ungraded
<1>3. CASE Ids' = Ids /\ Begins
  <2>1. /\ Cardinality(Ungraded') = Cardinality(Ungraded) /\ runs' = runs + 1
        /\ run'.pc = "round"
    BY <1>2, <1>3 DEF Begins
  <2> QED
    BY <1>0, <1>1, <2>1 DEF LostInv
<1>4. CASE Ids' = Ids /\ Moves
  <2>1. CASE run.pc \in {"verify", "mutate"}
    <3>1. run'.pc = "round" /\ runs' = runs /\ Ungraded' = Ungraded /\ status' = status
      BY <1>2, <1>4, <2>1 DEF Moves
    <3> QED
      BY <2>1, <3>1 DEF LostInv
  <2>2. CASE run.pc = "round"
    <3>1. run'.pc = "evaluate" /\ runs' = runs /\ Ungraded' = Ungraded /\ status' = status
      BY <1>2, <1>4, <2>2 DEF Moves
    <3>2. PICK c : c = run'.current
      OBVIOUS
    <3>3. /\ Cardinality(Ungraded \ {c}) \in Nat
          /\ Cardinality(Ungraded \ {c}) <= Cardinality(Ungraded)
      BY <1>1, Fewer
    <3>4. Cardinality(Ungraded \ {c}) + 1 <= runs /\ Cardinality(Ungraded) <= runs
      BY <1>0, <1>1, <2>2, <3>3 DEF LostInv
    <3> QED
      BY <1>0, <2>2, <3>1, <3>2, <3>4 DEF LostInv
  <2>3. CASE run.pc = "evaluate"
    <3>1. /\ run'.pc \in {"mutate", "verify"} /\ runs' = runs /\ status' = status
          /\ Ungraded' = Ungraded \ {run.current}
      BY <1>4, <2>3 DEF Moves, Ungraded
    <3>2. PICK T : T = Ungraded \ {run.current}
      OBVIOUS
    <3>3. Cardinality(T) \in Nat /\ Cardinality(T) + 1 <= runs
      BY <1>1, <2>3, <3>2, Fewer DEF LostInv
    <3>4. Cardinality(T) <= runs
      BY <1>0, <3>3
    <3> QED
      BY <3>1, <3>2, <3>3, <3>4 DEF LostInv
  <2> QED
    BY <1>4, <2>1, <2>2, <2>3 DEF Moves
<1>5. CASE Ids' = Ids /\ Executes
  <2>1. /\ run.pc = "execute" /\ run'.pc = "evaluate" /\ runs' = runs /\ status' = status
        /\ Ungraded' = Ungraded /\ run'.current = run.current
    BY <1>2, <1>5 DEF Executes
  <2> QED
    BY <1>0, <2>1 DEF LostInv
<1>6. CASE Ids' = Ids /\ Waits
  <2>1. /\ run' = run /\ runs' = runs /\ (status' = status \/ status' = "PENDING")
        /\ Ungraded' = Ungraded
    BY <1>2, <1>6 DEF Waits
  <2> QED
    BY <2>1 DEF LostInv
<1>7. CASE Ids' = Ids /\ Leaves
  <2>1. /\ run'.pc = "idle" /\ runs' = runs /\ Ungraded' = Ungraded
    BY <1>2, <1>7 DEF Leaves, Idle
  <2>2. CASE status' # "COMPLETED"
    BY <2>1, <2>2 DEF LostInv
  <2>3. CASE run.pc = "round"
    BY <2>1, <2>3 DEF LostInv
  <2>4. ~(Begins \/ Moves \/ Inserts \/ Executes \/ Waits)
    BY <1>7, <2>1 DEF Begins, Moves, Inserts, Executes, Waits, Leaves
  <2> QED
    BY <2>2, <2>3, <2>4, StepKinds
<1>8. CASE Ids' = Ids \cup {run'.current} /\ Inserts
  <2>1. PICK T, c : T = Ungraded' /\ c = run'.current
    OBVIOUS
  <2>2. T \subseteq Ungraded \cup {c} /\ T \ {c} \subseteq Ungraded
    BY <1>8, <2>1 DEF Ungraded, Inserts
  <2>3. Cardinality(T) \in Nat /\ Cardinality(T) <= Cardinality(Ungraded) + 1
    BY <1>1, <2>2, Grows
  <2>4. Cardinality(T \ {c}) \in Nat /\ Cardinality(T \ {c}) <= Cardinality(Ungraded)
    BY <1>1, <2>2, Fewer
  <2>5. /\ run.pc \in {"round", "mutate"} /\ run'.pc = "execute" /\ runs' = runs
        /\ status' = status
    BY <1>8 DEF Inserts
  <2>6. Cardinality(Ungraded) + 1 <= runs
    BY <2>5 DEF LostInv
  <2>7. Cardinality(T) <= runs /\ Cardinality(T \ {c}) + 1 <= runs
    BY <1>0, <1>1, <2>3, <2>4, <2>6
  <2> QED
    BY <1>0, <2>1, <2>5, <2>7 DEF LostInv
<1> QED
  BY <1>3, <1>4, <1>5, <1>6, <1>7, <1>8, TableSteps

\* An interrupted run leaves at most one attack without a verdict, and nothing
\* else does (campaign.py, run_campaign; evaluation.py, evaluate_result).
THEOREM LostBoundedHolds == RoundsFairSpec => []LostBounded
<1>1. RoundsInit => LostInv
  <2> SUFFICES ASSUME RoundsInit PROVE LostInv
    OBVIOUS
  <2>1. Ungraded = {} /\ runs = 0 /\ run.pc = "idle" /\ status = "PENDING"
    BY DEF RoundsInit, Ungraded, Ids, Idle
  <2> QED
    BY <2>1, FS_EmptySet DEF LostInv
<1>2. LoopInv /\ LostInv => LostBounded
  <2> SUFFICES ASSUME LoopInv, LostInv PROVE LostBounded
    OBVIOUS
  <2>1. IsFiniteSet(Ungraded) /\ runs \in Nat
    BY Table, FS_Subset DEF LoopInv, LocalsInv, RowsInv, Ungraded
  <2>2. Cardinality(Ungraded) \in Nat
    BY <2>1, FS_CardinalityType
  <2> QED
    BY <2>1, <2>2 DEF LostInv, LostBounded, Interrupted, Ungraded
<1>3. LoopInv /\ LostInv /\ [RoundsNext]_vars => LostInv'
  BY LostStep
<1> QED
  BY <1>1, <1>2, <1>3, LoopHolds, PTL DEF RoundsFairSpec, RoundsSpec
=============================================================================
