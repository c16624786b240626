------------------------ MODULE CampaignChains_proofs ------------------------
(***************************************************************************)
(* What the rows of a campaign look like, and what is computed from them:  *)
(* the attack that a resumed run continues, the conversation that is sent  *)
(* to the target, the lines the attacker learns from, the report.          *)
(*                                                                         *)
(* The table is a sequence of lines: a plan opens the next round, and      *)
(* every other row is a turn, mutated from the row before it (Lines).  A   *)
(* round is thus an interval of the table (Blocks), and what the code      *)
(* computes by recursion along parents and children can be said directly:  *)
(* what _load_progress follows is the interval from a row to the end of    *)
(* its round (ChainIsLine), what load_conversation_lineage follows the     *)
(* interval from its beginning (LineageIs).  A recursive function is what  *)
(* satisfies its equation; that the interval does is one lemma, that       *)
(* nothing else does another, by looking at the least or greatest row      *)
(* where two solutions differ.  FlattenSeq and the sums of the report are  *)
(* computed in the same way.                                               *)
(*                                                                         *)
(* The circle is closed by the resume: Lines holds because a run continues *)
(* with the last row of the table or opens a round after it, and the run   *)
(* that resumes knows which is the last because Lines holds (Resumes).     *)
(* ChainInv adds who was mutated, what was found and where the run is; it  *)
(* is inductive together with LoopInv of CampaignRounds_proofs.  On top of *)
(* it, SizesInv, UnconfirmedInv and TriedInv count rows, findings and      *)
(* strategies, and GradedInv follows an attack whose verdict was lost.     *)
(***************************************************************************)
EXTENDS CampaignReports, CampaignRounds_proofs, SequenceTheorems

\* The table in the order of its rows: a plan opens the next round, and every
\* other row is a turn, mutated from the row before it.
Previous(i) == IF i = 1 THEN 0 ELSE attacks[i - 1].round
Plan(i) == attacks[i].parent = 0 /\ attacks[i].round = Previous(i) + 1
Turn(i) == i > 1 /\ attacks[i].parent = i - 1 /\ attacks[i].round = attacks[i - 1].round
Lines == \A i \in Ids : Plan(i) \/ Turn(i)

-----------------------------------------------------------------------------
(* Sets of positions. *)

\* A set of numbers has a least one.
LEMMA LeastPosition ==
  ASSUME NEW S, S \subseteq Nat, S # {}
  PROVE  \E x \in S : \A y \in S : x <= y
<1>1. PICK x \in S : \A y \in S : <<y, x>> \notin OpToRel(<, Nat)
  BY NatLessThanWellFounded, WFMin
<1>2. \A y \in S : ~(y < x)
  BY <1>1 DEF OpToRel
<1> QED
  BY <1>2

\* A bounded set of numbers has a greatest one.
LEMMA GreatestPosition ==
  ASSUME NEW n \in Nat, NEW S, S \subseteq 1..n, S # {}
  PROVE  \E x \in S : \A y \in S : y <= x
<1> DEFINE T == {k \in Nat : n - k \in S}
<1>1. \A x \in S : n - x \in T /\ x \in Nat /\ x <= n
  BY SMT
<1>2. PICK k \in T : \A j \in T : k <= j
  <2>1. T \subseteq Nat /\ T # {}
    BY <1>1
  <2> HIDE DEF T
  <2> QED
    BY <2>1, LeastPosition
<1>3. n - k \in S /\ \A y \in S : y <= n - k
  BY <1>1, <1>2
<1> QED
  BY <1>3

\* Min is the least one.
LEMMA MinIs ==
  ASSUME NEW S, S \subseteq Nat, NEW x \in S, \A y \in S : x <= y
  PROVE  Min(S) = x
<1>1. \A z \in S : (\A y \in S : z <= y) => z = x
  BY SMT
<1> QED
  BY <1>1 DEF Min

-----------------------------------------------------------------------------
(* The layout of the table. *)

\* What the rows are numbers of, for the arithmetic of the lemmas below.
LEMMA Positions ==
  ASSUME RowsInv, Lines
  PROVE  /\ Len(attacks) \in Nat /\ Ids = 1..Len(attacks) /\ Latest \in Nat
         /\ \A i \in Ids : attacks[i].round \in Nat /\ attacks[i].round >= 1
         /\ \A i \in Ids : attacks[i].round <= Latest
         /\ \A i \in Ids : attacks[i].parent # 0 <=> Turn(i)
         /\ \A i \in Ids : attacks[i].parent = 0 <=> Plan(i)
<1>1. Len(attacks) \in Nat /\ Ids = 1..Len(attacks)
  BY Table DEF RowsInv
<1>2. \A i \in Ids : attacks[i].round \in Nat /\ attacks[i].round <= Latest
  BY LastRoundIsLatest DEF RowsInv, Shapes, Shape
<1>3. Latest \in Nat
  BY LastRoundIsLatest
<1>4. \A i \in Ids : attacks[i].parent # 0 <=> Turn(i)
  BY <1>1 DEF Lines, Plan, Turn
<1>5. \A i \in Ids : attacks[i].parent = 0 <=> Plan(i)
  BY <1>1, <1>4 DEF Lines, Turn, Plan
<1>6. \A i, j \in Ids : i <= j => attacks[i].round <= attacks[j].round
  BY DEF RowsInv, Sorted
<1>7. \A i \in Ids : attacks[i].round >= 1
  <2>1. CASE Len(attacks) = 0
    BY <1>1, <2>1
  <2>2. CASE Len(attacks) # 0
    <3>1. 1 \in Ids /\ \A i \in Ids : 1 <= i
      BY <1>1, <2>2
    <3>2. Plan(1)
      BY <3>1 DEF Lines, Turn
    <3>3. attacks[1].round = 1
      BY <3>2 DEF Plan, Previous
    <3> QED
      BY <1>2, <1>6, <3>1, <3>3
  <2> QED
    BY <2>1, <2>2
<1> QED
  BY <1>1, <1>2, <1>3, <1>4, <1>5, <1>7

\* A row that is followed by one of its round was mutated into it.
LEMMA Continued ==
  ASSUME RowsInv, Lines, NEW i \in Ids, NEW j \in Ids, i < j,
         attacks[i].round = attacks[j].round
  PROVE  /\ i + 1 \in Ids /\ attacks[i + 1].parent = i
         /\ attacks[i + 1].round = attacks[i].round
         /\ j > 1 /\ j - 1 \in Ids /\ attacks[j].parent = j - 1
         /\ attacks[j - 1].round = attacks[j].round
<1>0. /\ Ids = 1..Len(attacks) /\ Len(attacks) \in Nat /\ i \in Nat /\ j \in Nat
      /\ \A k \in Ids : attacks[k].round \in Nat
      /\ \A k, m \in Ids : k <= m => attacks[k].round <= attacks[m].round
  BY Positions DEF RowsInv, Sorted
<1>1. i + 1 \in Ids /\ j - 1 \in Ids /\ i + 1 <= j /\ i <= j - 1 /\ j > 1
  BY <1>0
<1>2. /\ attacks[i + 1].round = attacks[i].round
      /\ attacks[j - 1].round = attacks[j].round
  <2>1. /\ attacks[i].round <= attacks[i + 1].round
        /\ attacks[i + 1].round <= attacks[j].round
    BY <1>0, <1>1
  <2>2. /\ attacks[i].round <= attacks[j - 1].round
        /\ attacks[j - 1].round <= attacks[j].round
    BY <1>0, <1>1
  <2> QED
    BY <1>0, <1>1, <2>1, <2>2
<1>3. ~Plan(i + 1) /\ ~Plan(j)
  BY <1>0, <1>1, <1>2 DEF Plan, Previous
<1>4. Turn(i + 1) /\ Turn(j)
  BY <1>1, <1>3 DEF Lines
<1>5. attacks[i + 1].parent = i /\ attacks[j].parent = j - 1
  BY <1>0, <1>4 DEF Turn
<1> QED
  BY <1>1, <1>2, <1>5

\* Nothing else was.
LEMMA OneChild ==
  ASSUME RowsInv, Lines, NEW i \in Ids
  PROVE  Children(i) = IF i + 1 \in Ids /\ attacks[i + 1].round = attacks[i].round
                       THEN {i + 1} ELSE {}
<1>0. Ids = 1..Len(attacks) /\ Len(attacks) \in Nat
  BY Positions
<1>1. ASSUME NEW j \in Ids, attacks[j].round = attacks[i].round, attacks[j].parent = i
      PROVE  j = i + 1
  <2>1. Turn(j)
    BY <1>0, <1>1, Positions
  <2> QED
    BY <1>0, <1>1, <2>1 DEF Turn
<1>2. ASSUME i + 1 \in Ids, attacks[i + 1].round = attacks[i].round
      PROVE  attacks[i + 1].parent = i
  <2>1. i < i + 1
    BY <1>0
  <2> QED
    BY <1>2, <2>1, Continued
<1> QED
  BY <1>1, <1>2 DEF Children, Round

\* A round is an interval of the table that begins with its only plan.
LEMMA Blocks ==
  ASSUME RowsInv, Lines, NEW r \in Nat, 1 <= r, r <= Latest
  PROVE  \E f, l \in Ids : /\ f <= l /\ Round(r) = f..l
                           /\ Round(r) \cap Roots = {f}
                           /\ Min(Round(r)) = f
                           /\ \A i \in Ids : i > l => attacks[i].round > r
<1>0. /\ Ids = 1..Len(attacks) /\ Len(attacks) \in Nat /\ Latest \in Nat
      /\ \A i \in Ids : attacks[i].round \in Nat /\ attacks[i].round >= 1
      /\ \A i, j \in Ids : i <= j => attacks[i].round <= attacks[j].round
  BY Positions DEF RowsInv, Sorted
<1> DEFINE From == {i \in Ids : attacks[i].round >= r}
<1>1. Len(attacks) \in From
  <2>1. attacks # <<>> /\ Latest = attacks[Len(attacks)].round
    BY <1>0 DEF Latest
  <2>2. Len(attacks) \in Ids
    BY <1>0, <2>1, Table DEF RowsInv
  <2> QED
    BY <2>1, <2>2
<1>2. PICK f \in From : \A i \in From : f <= i
  <2>1. From \subseteq Nat /\ From # {}
    BY <1>0, <1>1
  <2> HIDE DEF From
  <2> QED
    BY <2>1, LeastPosition
<1>3. attacks[f].round = r /\ attacks[f].parent = 0
  <2>1. f \in Ids /\ f \in Nat /\ f >= 1 /\ attacks[f].round >= r
    BY <1>0, <1>2
  <2>2. CASE f = 1
    <3>1. Plan(f)
      BY <2>1, <2>2 DEF Lines, Turn
    <3> QED
      BY <1>0, <2>1, <2>2, <3>1 DEF Plan, Previous
  <2>3. CASE f # 1
    <3>1. f - 1 \in Ids /\ f - 1 \notin From
      BY <1>0, <1>2, <2>1, <2>3
    <3>2. attacks[f - 1].round < r
      BY <1>0, <3>1
    <3>3. Plan(f)
      BY <1>0, <2>1, <3>1, <3>2 DEF Lines, Turn
    <3> QED
      BY <1>0, <2>1, <2>3, <3>1, <3>2, <3>3 DEF Plan, Previous
  <2> QED
    BY <2>2, <2>3
<1>4. f \in Round(r) /\ Round(r) \subseteq 1..Len(attacks) /\ f \in Ids
  BY <1>0, <1>2, <1>3 DEF Round
<1>5. PICK l \in Round(r) : \A i \in Round(r) : i <= l
  BY <1>0, <1>4, GreatestPosition
<1>6. \A i \in Round(r) : f <= i
  BY <1>0, <1>2 DEF Round
<1>7. l \in Ids /\ attacks[l].round = r /\ f <= l
  BY <1>5, <1>6 DEF Round
<1>8. Round(r) = f..l
  <2>1. ASSUME NEW i \in f..l PROVE i \in Round(r)
    <3>1. i \in Ids /\ f <= i /\ i <= l
      BY <1>0, <1>4, <1>7
    <3>2. attacks[f].round <= attacks[i].round /\ attacks[i].round <= attacks[l].round
      BY <1>0, <1>4, <1>7, <3>1
    <3> QED
      BY <1>0, <1>3, <1>7, <3>1, <3>2 DEF Round
  <2>2. ASSUME NEW i \in Round(r) PROVE i \in f..l
    <3>1. f <= i /\ i <= l /\ i \in Nat /\ f \in Nat /\ l \in Nat
      BY <1>0, <1>4, <1>5, <1>6, <1>7
    <3> QED
      BY <3>1
  <2> QED
    BY <2>1, <2>2
<1>9. Round(r) \cap Roots = {f}
  <2>1. ASSUME NEW i \in Round(r), i # f PROVE i \notin Roots
    <3>1. i \in Ids /\ attacks[i].round = attacks[f].round /\ f < i
      BY <1>0, <1>3, <1>4, <1>6, <2>1 DEF Round
    <3>2. attacks[i].parent = i - 1 /\ i > 1
      BY <1>4, <3>1, Continued
    <3> QED
      BY <1>0, <3>1, <3>2 DEF Roots
  <2> QED
    BY <1>3, <1>4, <2>1 DEF Roots
<1>10. Min(Round(r)) = f
  BY <1>0, <1>4, <1>6, MinIs
<1>11. \A i \in Ids : i > l => attacks[i].round > r
  <2>1. ASSUME NEW i \in Ids, i > l PROVE attacks[i].round > r
    <3>1. attacks[l].round <= attacks[i].round /\ i \notin Round(r)
      BY <1>0, <1>5, <1>7, <2>1
    <3> QED
      BY <1>0, <1>7, <3>1 DEF Round
  <2> QED
    BY <2>1
<1> QED
  BY <1>4, <1>7, <1>8, <1>9, <1>10, <1>11

-----------------------------------------------------------------------------
(* The chains that _load_progress follows, computed. *)

\* From a row to the last one of its round.
End(i) == Max(Round(attacks[i].round))
Line(i) == [k \in 1..(End(i) - i + 1) |-> i + k - 1]
Follows(g) == g = [i \in Ids |-> IF Children(i) = {} THEN <<i>>
                                ELSE <<i>> \o g[Min(Children(i))]]

\* A row is the last of its round, or is followed by its one mutation.
LEMMA EndOfRound ==
  ASSUME RowsInv, Lines, NEW i \in Ids
  PROVE  /\ End(i) \in Ids /\ i <= End(i)
         /\ Children(i) = {} => End(i) = i
         /\ Children(i) # {} => /\ i + 1 \in Ids /\ Min(Children(i)) = i + 1
                                /\ End(i + 1) = End(i) /\ i < End(i)
<1>0. Ids = 1..Len(attacks) /\ Len(attacks) \in Nat /\ i \in Nat
  BY Positions
<1> DEFINE S == Round(attacks[i].round)
<1>1. i \in S /\ S \subseteq 1..Len(attacks) /\ S \subseteq Nat
  BY <1>0 DEF Round
<1>2. End(i) \in S /\ \A y \in S : y <= End(i)
  <2>1. PICK l \in S : \A y \in S : y <= l
    BY <1>0, <1>1, GreatestPosition
  <2>2. \E x \in S : \A y \in S : x >= y
    BY <1>1, <2>1
  <2> HIDE DEF S
  <2>3. Max(S) \in S /\ \A y \in S : Max(S) >= y
    BY <2>2 DEF Max
  <2> QED
    BY <1>1, <2>3 DEF End, S
<1>3. End(i) \in Ids /\ i <= End(i) /\ attacks[End(i)].round = attacks[i].round
  BY <1>1, <1>2 DEF Round
<1>4. i < End(i) => i + 1 \in Ids /\ attacks[i + 1].round = attacks[i].round
  BY <1>3, Continued
<1>5. ASSUME Children(i) = {} PROVE End(i) = i
  <2>1. ~(i < End(i))
    BY <1>4, <1>5, OneChild
  <2> QED
    BY <1>0, <1>3, <2>1
<1>6. ASSUME Children(i) # {}
      PROVE  /\ i + 1 \in Ids /\ Min(Children(i)) = i + 1
             /\ End(i + 1) = End(i) /\ i < End(i)
  <2>1. /\ Children(i) = {i + 1} /\ i + 1 \in Ids
        /\ attacks[i + 1].round = attacks[i].round
    BY <1>6, OneChild
  <2>2. Min(Children(i)) = i + 1
    BY <1>0, <2>1 DEF Min
  <2>3. i + 1 \in S
    BY <2>1 DEF Round
  <2>4. End(i + 1) = End(i)
    BY <2>1 DEF End
  <2> QED
    BY <1>0, <1>2, <1>3, <2>1, <2>2, <2>3, <2>4
<1> QED
  BY <1>3, <1>5, <1>6

\* One position before an interval.
LEMMA Prepend ==
  ASSUME NEW i \in Nat, NEW m \in Nat
  PROVE  <<i>> \o [k \in 1..m |-> i + 1 + k - 1] = [k \in 1..(m + 1) |-> i + k - 1]
<1> DEFINE t == [k \in 1..m |-> i + 1 + k - 1]
           u == [k \in 1..(m + 1) |-> i + k - 1]
<1>1. t \in Seq(Nat) /\ Len(t) = m /\ \A k \in 1..m : t[k] = i + k
  BY SMT
<1>2. u \in Seq(Nat) /\ Len(u) = m + 1 /\ \A k \in 1..(m + 1) : u[k] = i + k - 1
  BY SMT
<1> HIDE DEF t, u
<1>3. <<i>> \in Seq(Nat) /\ Len(<<i>>) = 1 /\ <<i>>[1] = i
  OBVIOUS
<1>4. PICK s : s = <<i>>
  OBVIOUS
<1>5. /\ s \o t \in Seq(Nat) /\ Len(s \o t) = m + 1
      /\ \A k \in 1..(m + 1) : (s \o t)[k] = IF k <= 1 THEN s[k] ELSE t[k - 1]
  BY <1>1, <1>3, <1>4
<1>6. \A k \in 1..(m + 1) : (s \o t)[k] = u[k]
  BY <1>1, <1>2, <1>3, <1>4, <1>5
<1>7. s \o t = u
  BY <1>2, <1>5, <1>6, SeqEqual
<1> QED
  BY <1>4, <1>7 DEF t, u

\* The lines satisfy the equation of _load_progress.
LEMMA LinesFollow ==
  ASSUME RowsInv, Lines
  PROVE  Follows([i \in Ids |-> Line(i)])
<1> DEFINE h == [i \in Ids |-> Line(i)]
<1>1. ASSUME NEW i \in Ids
      PROVE  Line(i) = IF Children(i) = {} THEN <<i>>
                       ELSE <<i>> \o h[Min(Children(i))]
  <2>0. Ids = 1..Len(attacks) /\ Len(attacks) \in Nat /\ i \in Nat /\ End(i) \in Nat
    BY Positions, EndOfRound
  <2>1. CASE Children(i) = {}
    <3>1. End(i) - i + 1 = 1
      BY <2>0, <2>1, EndOfRound
    <3>2. Line(i) = <<i>>
      BY <2>0, <3>1 DEF Line
    <3> QED
      BY <2>1, <3>2
  <2>2. CASE Children(i) # {}
    <3>1. /\ i + 1 \in Ids /\ Min(Children(i)) = i + 1
          /\ End(i + 1) = End(i) /\ i < End(i)
      BY <2>2, EndOfRound
    <3>2. PICK m \in Nat : m = End(i) - i
      BY <2>0, <3>1
    <3>3. /\ h[i + 1] = [k \in 1..(End(i + 1) - (i + 1) + 1) |-> i + 1 + k - 1]
          /\ End(i + 1) - (i + 1) + 1 = m
      BY <2>0, <3>1, <3>2 DEF Line
    <3>4. Line(i) = [k \in 1..(m + 1) |-> i + k - 1]
      BY <3>2 DEF Line
    <3>5. <<i>> \o h[i + 1] = Line(i)
      BY <2>0, <3>3, <3>4, Prepend
    <3> QED
      BY <2>2, <3>1, <3>5
  <2> QED
    BY <2>1, <2>2
<1> HIDE DEF h
<1>2. h = [i \in Ids |-> Line(i)]
  BY DEF h
<1>3. Follows(h)
  BY <1>1, <1>2 DEF Follows
<1> QED
  BY <1>2, <1>3

\* Only one function follows the mutations.
LEMMA FollowsUnique ==
  ASSUME RowsInv, Lines, NEW g, NEW h, Follows(g), Follows(h)
  PROVE  g = h
<1>0. Ids = 1..Len(attacks) /\ Len(attacks) \in Nat
  BY Positions
<1>1. /\ DOMAIN g = Ids /\ DOMAIN h = Ids
      /\ g = [i \in Ids |-> g[i]] /\ h = [i \in Ids |-> h[i]]
      /\ \A i \in Ids : g[i] = IF Children(i) = {} THEN <<i>> ELSE <<i>> \o g[Min(Children(i))]
      /\ \A i \in Ids : h[i] = IF Children(i) = {} THEN <<i>> ELSE <<i>> \o h[Min(Children(i))]
  BY DEF Follows
<1> DEFINE D == {i \in Ids : g[i] # h[i]}
<1>2. ASSUME D # {} PROVE FALSE
  <2>1. PICK i \in D : \A j \in D : j <= i
    BY <1>0, <1>2, GreatestPosition
  <2>2. Children(i) # {}
    BY <1>1, <2>1
  <2>3. i + 1 \in Ids /\ Min(Children(i)) = i + 1
    BY <2>1, <2>2, EndOfRound
  <2>4. i + 1 \notin D
    BY <1>0, <2>1
  <2>5. g[i + 1] = h[i + 1]
    BY <2>3, <2>4
  <2> QED
    BY <1>1, <2>1, <2>2, <2>3, <2>5
<1>3. \A i \in Ids : g[i] = h[i]
  BY <1>2
<1> QED
  BY <1>1, <1>3

\* The chain of a row is the rest of its round.
LEMMA ChainIsLine ==
  ASSUME RowsInv, Lines
  PROVE  Chain = [i \in Ids |-> Line(i)]
<1>1. Chain = CHOOSE g : Follows(g)
  BY DEF Chain, Follows
<1>2. Follows(CHOOSE g : Follows(g))
  BY LinesFollow
<1> QED
  BY <1>1, <1>2, LinesFollow, FollowsUnique

\* What a run that resumes continues: the last row, if it is the last turn of
\* a line that has room.
LEMMA LastChainIs ==
  ASSUME RowsInv, Lines, attacks # <<>>
  PROVE  /\ Len(attacks) \in Ids /\ Latest >= 1
         /\ LastChain \in Seq(Nat) /\ Last(LastChain) = Len(attacks)
         /\ Len(LastChain) = Cardinality(Round(Latest))
         /\ Len(LastChain) \in DOMAIN LastChain
<1>0. /\ Ids = 1..Len(attacks) /\ Len(attacks) \in Nat /\ Latest \in Nat
      /\ LastRound = Latest
  BY Positions, LastRoundIsLatest
<1>1. Len(attacks) \in Ids /\ attacks[Len(attacks)].round = Latest
  BY <1>0, Table DEF RowsInv, Latest
<1>2. Latest >= 1
  BY <1>1, Positions
<1>3. PICK f, l : /\ f \in Ids /\ l \in Ids /\ f <= l /\ Round(Latest) = f..l
                  /\ Min(Round(Latest)) = f
                  /\ \A i \in Ids : i > l => attacks[i].round > Latest
  BY <1>0, <1>2, Blocks
<1>4. l = Len(attacks)
  BY <1>0, <1>1, <1>3
<1>5. attacks[f].round = Latest
  BY <1>0, <1>3 DEF Round
<1>6. End(f) = l
  <2>1. \A x \in f..l : (\A y \in f..l : x >= y) <=> x = l
    BY <1>0, <1>3
  <2>2. l \in f..l
    BY <1>0, <1>3
  <2>3. Max(f..l) = l
    BY <2>1, <2>2 DEF Max
  <2> QED
    BY <1>3, <1>5, <2>3 DEF End
<1>7. LastChain = Line(f)
  BY <1>0, <1>3, ChainIsLine DEF LastChain
<1>8. PICK m \in Nat : m = l - f + 1 /\ m >= 1 /\ f + m - 1 = l
  BY <1>0, <1>3
<1>9. LastChain = [k \in 1..m |-> f + k - 1]
  BY <1>6, <1>7, <1>8 DEF Line
<1>10. LastChain \in Seq(Nat) /\ Len(LastChain) = m /\ LastChain[m] = l
  BY <1>0, <1>3, <1>8, <1>9
<1>11. Cardinality(Round(Latest)) = m
  BY <1>0, <1>3, <1>8, FS_Interval
<1> QED
  BY <1>1, <1>2, <1>4, <1>8, <1>9, <1>10, <1>11 DEF Last

\* The chain of the last round is of the last round.
LEMMA LastChainInRound ==
  ASSUME RowsInv, Lines, attacks # <<>>
  PROVE  \A k \in DOMAIN LastChain : LastChain[k] \in Round(Latest)
<1>0. /\ Ids = 1..Len(attacks) /\ Len(attacks) \in Nat /\ Latest \in Nat /\ Latest >= 1
      /\ LastRound = Latest
  BY Positions, LastRoundIsLatest, LastChainIs
<1>1. attacks[Len(attacks)].round = Latest /\ Len(attacks) \in Ids
  BY LastChainIs DEF Latest
<1>2. PICK f, l : /\ f \in Ids /\ l \in Ids /\ f <= l /\ Round(Latest) = f..l
                  /\ Min(Round(Latest)) = f
  BY <1>0, <1>1, Blocks
<1>3. attacks[f].round = Latest
  BY <1>0, <1>2 DEF Round
<1>4. End(f) = l
  <2>1. \A x \in f..l : (\A y \in f..l : x >= y) <=> x = l
    BY <1>0, <1>2
  <2>2. l \in f..l
    BY <1>0, <1>2
  <2>3. Max(f..l) = l
    BY <2>1, <2>2 DEF Max
  <2> QED
    BY <1>2, <1>3, <2>3 DEF End
<1>5. LastChain = Line(f)
  BY <1>0, <1>2, ChainIsLine DEF LastChain
<1>6. LastChain = [k \in 1..(l - f + 1) |-> f + k - 1]
  BY <1>4, <1>5 DEF Line
<1>7. \A k \in 1..(l - f + 1) : f + k - 1 \in f..l
  BY <1>0, <1>2
<1> QED
  BY <1>2, <1>6, <1>7

\* A run that resumes goes on with the last row of the table.
LEMMA Resumes ==
  ASSUME RowsInv, Lines, Resumable
  PROVE  /\ attacks # <<>> /\ Last(LastChain) = Len(attacks) /\ Latest >= 1
         /\ attacks[Len(attacks)].results # <<>> /\ Len(attacks) \notin Found
         /\ Len(attacks) \in Ids /\ Cardinality(Round(Latest)) <= MutationBudget
<1>0. LastRound = Latest /\ Latest \in Nat /\ MutationBudget \in Nat
  BY LastRoundIsLatest, RoundsConstants
<1>1. attacks # <<>>
  BY <1>0, RoundsConstants DEF Resumable, Latest
<1>2. /\ Len(attacks) \in Ids /\ Latest >= 1
      /\ LastChain \in Seq(Nat) /\ Last(LastChain) = Len(attacks)
      /\ Len(LastChain) = Cardinality(Round(Latest))
      /\ Len(LastChain) \in DOMAIN LastChain
  BY <1>1, LastChainIs
<1>3. /\ attacks[Len(attacks)].results # <<>> /\ LastChain[Len(LastChain)] \notin Found
      /\ Len(LastChain) - 1 < MutationBudget
  BY <1>2 DEF Resumable
<1>4. Len(LastChain) \in Nat /\ LastChain[Len(LastChain)] = Len(attacks)
  BY <1>2 DEF Last
<1> QED
  BY <1>0, <1>1, <1>2, <1>3, <1>4

-----------------------------------------------------------------------------
(* The invariant of the lines: who was mutated, what was found, and where    *)
(* the run is.                                                               *)

\* A row that was answered and blocked; and the row the run may go on with.
Evolved(i) == attacks[i].results # <<>> /\ i \in graded \ Found
Open(i) == i = Len(attacks) /\ i # 0 /\ attacks[i].results # <<>> /\ i \notin Found

NamesInv == \A i \in Ids : attacks[i].name \in Strategies \cup {Other}
TurnsInv == \A i \in Ids : attacks[i].parent # 0 => Evolved(attacks[i].parent)

FindingShape(f) ==
    /\ f = [attack |-> f.attack, severity |-> f.severity, status |-> f.status]
    /\ f.severity \in Severities /\ f.status \in VerifiedStatus \cup {"UNCONFIRMED"}
Evidence(i) == i \in Ids /\ attacks[i].results = <<"text">>
IsList == \E S : findings \in Seq(S)
FindingsInv ==
    /\ IsList
    /\ \A k \in DOMAIN findings : FindingShape(findings[k])
    /\ \A i \in Found : Evidence(i)
    /\ \A j, k \in DOMAIN findings : findings[j].attack = findings[k].attack => j = k

Here ==
    /\ run.current \in {0} \cup Ids /\ graded \subseteq Ids
    /\ run.pc = "idle" => run.round = 0
    /\ run.pc \notin {"idle", "round"} => run.current = Len(attacks) /\ attacks # <<>>
    /\ run.pc = "execute" => run.current \notin Found
    /\ run.pc \in {"evaluate", "mutate"} => Open(run.current)
    /\ run.pc = "mutate" => run.current \in graded
    /\ run.pc = "verify" =>
          findings # <<>> /\ findings[Len(findings)].attack = run.current
    /\ run.pc = "round" => IF run.resume = 0 THEN run.round = Latest + 1
                           ELSE Open(run.resume)

TableInv == Lines /\ NamesInv /\ TurnsInv /\ FindingsInv
ChainInv == TableInv /\ Here

\* The findings are a sequence.
LEMMA List ==
  ASSUME IsList
  PROVE  /\ Len(findings) \in Nat /\ DOMAIN findings = 1..Len(findings)
         /\ findings = <<>> <=> Len(findings) = 0
<1>1. PICK S : findings \in Seq(S)
  BY DEF IsList
<1> QED
  BY <1>1

\* A new row opens a round, or is a turn of the last row that was blocked.
LEMMA InsertedKeeps ==
  ASSUME LoopInv, ChainInv, NEW round \in Nat, NEW parent, NEW name,
         round <= MaxRounds, name \in Strategies \cup {Other},
         attacks' = Append(attacks, Attack(round, parent, name)),
         findings' = findings, graded' = graded,
         \/ parent = 0 /\ round = Latest + 1
         \/ parent = Len(attacks) /\ round = Latest /\ attacks # <<>> /\ Evolved(parent)
  PROVE  TableInv'
<1>0. /\ Ids = 1..Len(attacks) /\ Len(attacks) \in Nat /\ Latest \in Nat /\ RowsInv /\ Lines
  BY Positions DEF LoopInv, ChainInv, TableInv
<1> PICK n \in Nat : n = Len(attacks) + 1
  BY <1>0
<1>1. /\ RowsInv' /\ Latest' = round /\ Ids' = Ids \cup {n} /\ n \notin Ids
      /\ \A i \in Ids : attacks'[i] = attacks[i]
      /\ attacks'[n] = Attack(round, parent, name)
  <2>1. Latest <= round
    BY <1>0
  <2> QED
    BY <1>0, <2>1, Inserted
<1>2. /\ attacks'[n].round = round /\ attacks'[n].parent = parent
      /\ attacks'[n].name = name
  BY <1>1 DEF Attack
<1>3. Found' = Found
  BY DEF Found
<1>4. IF attacks = <<>> THEN Len(attacks) = 0 ELSE Len(attacks) \in Ids
  BY <1>0, Table
<1>5. Lines'
  <2>1. ASSUME NEW i \in Ids PROVE Plan(i)' \/ Turn(i)'
    <3>1. /\ i \in Nat /\ attacks'[i] = attacks[i]
          /\ i # 1 => i - 1 \in Ids /\ attacks'[i - 1] = attacks[i - 1]
      BY <1>0, <1>1
    <3>2. Previous(i)' = Previous(i)
      BY <3>1 DEF Previous
    <3>3. Plan(i) \/ Turn(i)
      BY <1>0 DEF Lines
    <3>4. CASE Plan(i)
      BY <3>1, <3>2, <3>4 DEF Plan
    <3>5. CASE Turn(i)
      BY <1>0, <3>1, <3>5 DEF Turn
    <3> QED
      BY <3>3, <3>4, <3>5
  <2>2. CASE parent = 0 /\ round = Latest + 1
    <3>1. (IF n = 1 THEN 0 ELSE attacks'[n - 1].round) = Latest
      BY <1>0, <1>1, <1>4 DEF Latest
    <3>2. Plan(n)'
      BY <1>2, <2>2, <3>1 DEF Plan, Previous
    <3> QED
      BY <1>1, <2>1, <3>2 DEF Lines
  <2>3. CASE parent = Len(attacks) /\ round = Latest /\ attacks # <<>>
    <3>1. n > 1 /\ n - 1 = Len(attacks) /\ Len(attacks) \in Ids
      BY <1>0, <1>4, <2>3
    <3>2. attacks'[n - 1].round = Latest
      BY <1>1, <2>3, <3>1 DEF Latest
    <3>3. Turn(n)'
      BY <1>2, <2>3, <3>1, <3>2 DEF Turn
    <3> QED
      BY <1>1, <2>1, <3>3 DEF Lines
  <2> QED
    BY <2>2, <2>3
<1>6. NamesInv'
  BY <1>1, <1>2 DEF NamesInv, ChainInv, TableInv
<1>7. TurnsInv'
  <2>1. ASSUME NEW i \in Ids, attacks[i].parent # 0 PROVE Evolved(attacks[i].parent)'
    <3>1. Evolved(attacks[i].parent) /\ attacks[i].parent \in Ids
      <4>1. Turn(i)
        BY <1>0, <2>1, Positions
      <4> QED
        BY <1>0, <2>1, <4>1 DEF ChainInv, TableInv, TurnsInv, Turn
    <3> QED
      BY <1>1, <1>3, <3>1 DEF Evolved
  <2>2. parent # 0 => Evolved(parent)'
    BY <1>0, <1>1, <1>3, <1>4 DEF Evolved
  <2> QED
    BY <1>1, <1>2, <2>1, <2>2 DEF TurnsInv
<1>8. FindingsInv'
  BY <1>1, <1>3 DEF FindingsInv, IsList, Evidence, FindingShape, ChainInv, TableInv
<1> QED
  BY <1>5, <1>6, <1>7, <1>8 DEF TableInv

\* The first result of a row keeps the lines and the findings.
LEMMA RepliedKeeps ==
  ASSUME LoopInv, ChainInv, NEW c \in Ids, attacks[c].results = <<>>,
         NEW reply \in Replies,
         attacks' = [attacks EXCEPT ![c].results = Append(@, reply)],
         findings' = findings, graded' = graded
  PROVE  /\ TableInv' /\ Ids' = Ids /\ Latest' = Latest /\ attacks'[c].results = <<reply>>
         /\ Len(attacks') = Len(attacks)
<1>0. RowsInv /\ IsTable /\ Lines
  BY DEF LoopInv, RowsInv, ChainInv, TableInv
<1>1. RowsInv' /\ Ids' = Ids /\ Latest' = Latest
  BY <1>0, Replied
<1>2. Shape(attacks[c])
  BY <1>0 DEF RowsInv, Shapes
<1>3. attacks'[c] = [attacks[c] EXCEPT !.results = Append(attacks[c].results, reply)]
  BY <1>0 DEF Ids
<1>4. /\ attacks'[c].results = <<reply>> /\ attacks'[c].round = attacks[c].round
      /\ attacks'[c].parent = attacks[c].parent /\ attacks'[c].name = attacks[c].name
  BY <1>2, <1>3 DEF Shape
<1>5. \A i \in Ids \ {c} : attacks'[i] = attacks[i]
  BY <1>0 DEF Ids
<1>6. /\ \A i \in Ids : /\ attacks'[i].round = attacks[i].round
                        /\ attacks'[i].parent = attacks[i].parent
                        /\ attacks'[i].name = attacks[i].name
                        /\ attacks[i].results # <<>> => attacks'[i] = attacks[i]
  BY <1>4, <1>5
<1>7. Found' = Found
  BY DEF Found
<1>8. Ids = 1..Len(attacks) /\ Len(attacks) \in Nat
  BY <1>0, Positions
<1>9. Lines'
  <2>1. ASSUME NEW i \in Ids PROVE Plan(i)' \/ Turn(i)'
    <3>1. i \in Nat /\ (i # 1 => i - 1 \in Ids)
      BY <1>8
    <3>2. Previous(i)' = Previous(i)
      BY <1>6, <3>1 DEF Previous
    <3>3. Plan(i) \/ Turn(i)
      BY <1>0 DEF Lines
    <3>4. CASE Plan(i)
      BY <1>6, <3>2, <3>4 DEF Plan
    <3>5. CASE Turn(i)
      BY <1>6, <1>8, <3>1, <3>5 DEF Turn
    <3> QED
      BY <3>3, <3>4, <3>5
  <2> QED
    BY <1>1, <2>1 DEF Lines
<1>10. NamesInv'
  BY <1>1, <1>6 DEF NamesInv, ChainInv, TableInv
<1>11. TurnsInv'
  <2>1. ASSUME NEW i \in Ids, attacks[i].parent # 0 PROVE Evolved(attacks[i].parent)'
    <3>1. Evolved(attacks[i].parent) /\ attacks[i].parent \in Ids
      <4>1. Turn(i)
        BY <1>0, <2>1, Positions
      <4> QED
        BY <1>8, <2>1, <4>1 DEF ChainInv, TableInv, TurnsInv, Turn
    <3> QED
      BY <1>6, <1>7, <3>1 DEF Evolved
  <2> QED
    BY <1>1, <1>6, <2>1 DEF TurnsInv
<1>12. FindingsInv'
  <2>1. \A i \in Ids : attacks[i].results = <<"text">> => attacks'[i].results = <<"text">>
    BY <1>6
  <2>2. \A i \in Found : Evidence(i)'
    BY <1>1, <2>1 DEF ChainInv, TableInv, FindingsInv, Evidence
  <2> QED
    BY <1>7, <2>2 DEF ChainInv, TableInv, FindingsInv, IsList, FindingShape
<1>13. Len(attacks') = Len(attacks)
  BY <1>0 DEF IsTable
<1> QED
  BY <1>1, <1>4, <1>9, <1>10, <1>11, <1>12, <1>13 DEF TableInv

\* A finding about the last row, which has answered, keeps the lines.
LEMMA FoundKeeps ==
  ASSUME LoopInv, ChainInv, NEW c \in Ids, c = Len(attacks), c \notin Found,
         attacks[c].results = <<"text">>, NEW severity \in Severities,
         findings' = Append(findings, Finding(c, severity)),
         attacks' = attacks, graded' = graded \cup {c}
  PROVE  /\ TableInv' /\ findings' # <<>> /\ findings'[Len(findings')].attack = c
         /\ Len(findings') = Len(findings) + 1 /\ Ids' = Ids
<1> DEFINE new == Finding(c, severity)
<1>0. /\ RowsInv /\ Lines /\ NamesInv /\ TurnsInv /\ FindingsInv
  BY DEF LoopInv, RowsInv, ChainInv, TableInv
<1>1. Ids' = Ids /\ Lines' /\ NamesInv'
  BY <1>0 DEF Ids, Lines, Plan, Turn, Previous, NamesInv
<1>2. PICK S : findings \in Seq(S)
  BY <1>0 DEF FindingsInv, IsList
<1>3. /\ new.attack = c
      /\ new = [attack |-> new.attack, severity |-> new.severity, status |-> new.status]
      /\ new.severity = severity /\ new.status = "UNCONFIRMED"
  BY DEF Finding
<1> HIDE DEF new
<1>4. /\ findings' = Append(findings, new) /\ findings \in Seq(S \cup {new})
      /\ new \in S \cup {new}
  BY <1>2 DEF new
<1>5. /\ findings' \in Seq(S \cup {new}) /\ Len(findings') = Len(findings) + 1
      /\ Len(findings) \in Nat /\ DOMAIN findings = 1..Len(findings)
      /\ DOMAIN findings' = 1..(Len(findings) + 1)
      /\ findings'[Len(findings) + 1] = new
      /\ \A k \in DOMAIN findings : findings'[k] = findings[k]
  BY <1>4
<1>6. Found' = Found \cup {c}
  <2>1. DOMAIN findings' = DOMAIN findings \cup {Len(findings) + 1}
    BY <1>5
  <2> QED
    BY <1>3, <1>5, <2>1 DEF Found
<1>7. TurnsInv'
  <2>1. ASSUME NEW i \in Ids, attacks[i].parent # 0 PROVE Evolved(attacks[i].parent)'
    <3>1. Evolved(attacks[i].parent)
      BY <1>0, <2>1 DEF TurnsInv
    <3>2. attacks[i].parent # c
      <4>1. Turn(i)
        BY <1>0, <2>1, Positions
      <4>2. Ids = 1..Len(attacks) /\ Len(attacks) \in Nat
        BY <1>0, Positions
      <4> QED
        BY <4>1, <4>2 DEF Turn
    <3> QED
      BY <1>6, <3>1, <3>2 DEF Evolved
  <2> QED
    BY <1>1, <2>1 DEF TurnsInv
<1>8. FindingsInv'
  <2>1. \A k \in DOMAIN findings : findings[k].attack # c
    BY DEF Found
  <2>2. \A k \in DOMAIN findings' : FindingShape(findings'[k])
    <3>1. FindingShape(new)
      BY <1>3 DEF FindingShape
    <3>2. \A k \in DOMAIN findings : FindingShape(findings'[k])
      BY <1>0, <1>5 DEF FindingsInv
    <3>3. \A k \in DOMAIN findings' : k \in DOMAIN findings \/ findings'[k] = new
      BY <1>5
    <3> QED
      BY <3>1, <3>2, <3>3
  <2>3. \A j, k \in DOMAIN findings' : findings'[j].attack = findings'[k].attack => j = k
    <3>1. \A k \in DOMAIN findings' : \/ k \in DOMAIN findings /\ findings'[k] = findings[k]
                                      \/ k = Len(findings) + 1 /\ findings'[k] = new
      BY <1>5
    <3>2. \A j, k \in DOMAIN findings : findings[j].attack = findings[k].attack => j = k
      BY <1>0 DEF FindingsInv
    <3> QED
      BY <1>3, <2>1, <3>1, <3>2
  <2>4. IsList'
    BY <1>5 DEF IsList
  <2>5. \A i \in Found' : Evidence(i)'
    BY <1>0, <1>1, <1>6 DEF FindingsInv, Evidence
  <2> QED
    BY <2>2, <2>3, <2>4, <2>5 DEF FindingsInv
<1>9. findings' # <<>> /\ findings'[Len(findings')].attack = c
  BY <1>3, <1>5
<1> QED
  BY <1>1, <1>5, <1>7, <1>8, <1>9 DEF TableInv

\* A verdict changes nothing but the status of a finding.
LEMMA JudgedKeeps ==
  ASSUME LoopInv, ChainInv, NEW k \in DOMAIN findings, NEW verdict \in VerifiedStatus,
         findings' = [findings EXCEPT ![k].status = verdict],
         attacks' = attacks, graded' = graded
  PROVE  /\ TableInv' /\ Found' = Found /\ Ids' = Ids
         /\ DOMAIN findings' = DOMAIN findings /\ Len(findings') = Len(findings)
         /\ findings' # <<>>
         /\ \A j \in DOMAIN findings : /\ findings'[j].attack = findings[j].attack
                                       /\ j # k => findings'[j] = findings[j]
         /\ findings'[k].status = verdict
<1>0. /\ RowsInv /\ Lines /\ NamesInv /\ TurnsInv /\ FindingsInv
  BY DEF LoopInv, RowsInv, ChainInv, TableInv
<1>1. Ids' = Ids /\ Lines' /\ NamesInv'
  BY <1>0 DEF Ids, Lines, Plan, Turn, Previous, NamesInv
<1>2. PICK S : findings \in Seq(S)
  BY <1>0 DEF FindingsInv, IsList
<1> DEFINE new == [findings[k] EXCEPT !.status = verdict]
<1>3. findings' = [findings EXCEPT ![k] = new]
  OBVIOUS
<1>4. FindingShape(findings[k])
  BY <1>0 DEF FindingsInv
<1>5. /\ new = [attack |-> new.attack, severity |-> new.severity, status |-> new.status]
      /\ new.attack = findings[k].attack /\ new.severity = findings[k].severity
      /\ new.status = verdict
  BY <1>4 DEF FindingShape
<1> HIDE DEF new
<1>6. /\ findings' \in Seq(S \cup {new}) /\ Len(findings') = Len(findings)
      /\ DOMAIN findings' = DOMAIN findings /\ findings'[k] = new
      /\ \A j \in DOMAIN findings : j # k => findings'[j] = findings[j]
  BY <1>2, <1>3
<1>7. \A j \in DOMAIN findings : findings'[j].attack = findings[j].attack
  BY <1>5, <1>6
<1>8. Found' = Found
  BY <1>6, <1>7 DEF Found
<1>9. TurnsInv'
  BY <1>0, <1>1, <1>8 DEF TurnsInv, Evolved
<1>10. FindingsInv'
  <2>1. ASSUME NEW j \in DOMAIN findings PROVE FindingShape(findings'[j])
    <3>1. CASE j = k
      BY <1>4, <1>5, <1>6, <3>1 DEF FindingShape
    <3>2. CASE j # k
      BY <1>0, <1>6, <3>2 DEF FindingsInv
    <3> QED
      BY <3>1, <3>2
  <2>2. IsList'
    BY <1>6 DEF IsList
  <2>3. \A i \in Found' : Evidence(i)'
    BY <1>0, <1>1, <1>8 DEF FindingsInv, Evidence
  <2>4. \A i, j \in DOMAIN findings' : findings'[i].attack = findings'[j].attack => i = j
    BY <1>0, <1>6, <1>7 DEF FindingsInv
  <2> QED
    BY <1>6, <2>1, <2>2, <2>3, <2>4 DEF FindingsInv
<1>11. findings' # <<>>
  BY <1>2, <1>6
<1> QED
  BY <1>1, <1>5, <1>6, <1>7, <1>8, <1>9, <1>10, <1>11 DEF TableInv

-----------------------------------------------------------------------------
(* The steps. *)

\* An empty table has lines.
LEMMA ChainInit == RoundsInit => ChainInv
<1> SUFFICES ASSUME RoundsInit PROVE ChainInv
  OBVIOUS
<1>1. /\ attacks = <<>> /\ findings = <<>> /\ Ids = {} /\ Found = {}
      /\ findings \in Seq({}) /\ DOMAIN findings = {}
  BY DEF RoundsInit, Ids, Found
<1>2. TableInv
  BY <1>1 DEF TableInv, Lines, NamesInv, TurnsInv, FindingsInv, IsList
<1>3. run.pc = "idle" /\ run.current = 0 /\ run.round = 0 /\ graded = {}
  BY DEF RoundsInit, Idle
<1>4. Here
  BY <1>1, <1>3 DEF Here
<1> QED
  BY <1>2, <1>4 DEF ChainInv

\* What a step that leaves the tables alone leaves of the invariant.
LEMMA SameTables ==
  ASSUME attacks' = attacks, findings' = findings
  PROVE  /\ Ids' = Ids /\ Found' = Found /\ Latest' = Latest
         /\ \A i : Open(i)' = Open(i)
         /\ TableInv /\ graded \subseteq graded' => TableInv'
<1>1. Ids' = Ids /\ Found' = Found /\ Latest' = Latest
  BY DEF Ids, Found, Latest
<1>2. \A i : Open(i)' = Open(i)
  BY <1>1 DEF Open
<1>3. Lines /\ NamesInv => Lines' /\ NamesInv'
  BY <1>1 DEF Lines, Plan, Turn, Previous, NamesInv
<1>4. TurnsInv /\ graded \subseteq graded' => TurnsInv'
  BY <1>1 DEF TurnsInv, Evolved
<1>5. FindingsInv => FindingsInv'
  BY <1>1 DEF FindingsInv, IsList, Evidence
<1> QED
  BY <1>1, <1>2, <1>3, <1>4, <1>5 DEF TableInv

\* The row that Generate and Mutate insert.
LEMMA InsertRow ==
  ASSUME LocalsInv, NEW s \in Strategies, NEW parent, NEW r, IsRun(r), r.round = run.round,
         Insert(s, parent, r)
  PROVE  /\ \E name \in Strategies \cup {Other} :
               attacks' = Append(attacks, Attack(run.round, parent, name))
         /\ run'.pc = "execute" /\ run'.current = Len(attacks) + 1
<1>1. Names(s) \subseteq Strategies \cup {Other}
  BY DEF Names
<1>2. \E name \in Names(s) : attacks' = Append(attacks, Attack(run.round, parent, name))
  BY DEF Insert
<1>3. run' = [r EXCEPT !.pc = "execute", !.strategy = s, !.current = Len(attacks) + 1]
  BY DEF Insert
<1>4. run'.pc = "execute" /\ run'.current = Len(attacks) + 1
  BY <1>3 DEF IsRun
<1> QED
  BY <1>1, <1>2, <1>4

\* Only strategies are selected.
LEMMA SelectedStrategies ==
  ASSUME NEW roll, NEW s \in Selected(roll)
  PROVE  s \in Strategies
<1>1. KnownGood \subseteq Strategies /\ Untried \subseteq Strategies
  BY DEF KnownGood, Untried
<1>2. ASSUME Untried # {} PROVE FirstUntried \in Untried
  <2> DEFINE K == {k \in DOMAIN StrategyOrder : StrategyOrder[k] \in Untried}
  <2>1. K \subseteq Nat
    BY RoundsConstants
  <2>2. K # {}
    BY <1>1, <1>2 DEF Strategies
  <2>3. PICK k \in K : \A j \in K : k <= j
    <3> HIDE DEF K
    <3> QED
      BY <2>1, <2>2, LeastPosition
  <2>4. Min(K) = k
    <3> HIDE DEF K
    <3> QED
      BY <2>1, <2>3, MinIs
  <2> QED
    BY <2>3, <2>4 DEF FirstUntried
<1> QED
  BY <1>1, <1>2 DEF Selected

\* A plan of the next round, or the next turn of the line, keeps the invariant.
LEMMA InsertKeeps ==
  ASSUME LoopInv, ChainInv, NEW s \in Strategies, NEW parent, NEW r,
         IsRun(r), r.round = run.round, Insert(s, parent, r),
         findings' = findings, graded' = graded, run.round <= MaxRounds,
         \/ parent = 0 /\ run.round = Latest + 1
         \/ /\ parent = Len(attacks) /\ run.round = Latest /\ attacks # <<>>
            /\ Evolved(parent)
  PROVE  ChainInv'
<1>0. RowsInv /\ LocalsInv /\ TableInv /\ Here /\ run.round \in Nat
  BY DEF LoopInv, ChainInv, LocalsInv
<1>1. /\ \E name \in Strategies \cup {Other} :
            attacks' = Append(attacks, Attack(run.round, parent, name))
      /\ run'.pc = "execute" /\ run'.current = Len(attacks) + 1
  BY <1>0, InsertRow
<1>2. PICK round \in Nat, name \in Strategies \cup {Other} :
         round = run.round /\ attacks' = Append(attacks, Attack(round, parent, name))
  BY <1>0, <1>1
<1>3. TableInv'
  BY <1>0, <1>2, InsertedKeeps
<1>4. /\ Latest \in Nat /\ Ids' = Ids \cup {Len(attacks) + 1}
      /\ Len(attacks) + 1 \notin Ids
  <2>1. Latest \in Nat /\ Latest <= round
    BY <1>0, <1>2, LastRoundIsLatest
  <2> QED
    BY <1>0, <1>2, <2>1, Inserted
<1>5. Len(attacks') = Len(attacks) + 1 /\ attacks' # <<>> /\ Found' = Found
  <2>1. PICK S : attacks \in Seq(S)
    BY <1>0 DEF RowsInv, IsTable
  <2>2. PICK row : row = Attack(round, parent, name)
    OBVIOUS
  <2>3. attacks \in Seq(S \cup {row}) /\ attacks' = Append(attacks, row)
    BY <1>2, <2>1, <2>2
  <2> QED
    BY <2>3 DEF Found
<1>6. Found \subseteq Ids
  BY <1>0 DEF TableInv, FindingsInv, Evidence
<1>7. Here'
  BY <1>0, <1>1, <1>4, <1>5, <1>6 DEF Here
<1> QED
  BY <1>3, <1>7 DEF ChainInv

\* Every step of a run keeps the lines.
LEMMA ChainStep ==
  ASSUME LoopInv, ChainInv, [RoundsNext]_vars
  PROVE  ChainInv'
<1>0. /\ RowsInv /\ LocalsInv /\ InRound /\ Unsent /\ TableInv /\ Here /\ Lines
      /\ IsRun(run) /\ run.round \in Nat /\ Latest \in Nat /\ LastRound = Latest
      /\ Ids = 1..Len(attacks) /\ Len(attacks) \in Nat
      /\ attacks # <<>> => Len(attacks) \in Ids
  BY Positions, Table, LastRoundIsLatest
     DEF LoopInv, LocalsInv, ChainInv, TableInv, RowsInv
<1>1. ASSUME attacks' = attacks, findings' = findings, graded \subseteq graded', Here'
      PROVE  ChainInv'
  BY <1>0, <1>1, SameTables DEF ChainInv
<1>2. CASE UNCHANGED vars \/ Retry \/ HandBack
  <2>1. attacks' = attacks /\ findings' = findings /\ graded' = graded /\ run' = run
    BY <1>2 DEF vars, Retry, HandBack, history
  <2>2. Here'
    BY <1>0, <2>1, SameTables DEF Here
  <2> QED
    BY <1>1, <2>1, <2>2
<1>3. CASE Raise \/ Crash \/ Finish
  <2>1. attacks' = attacks /\ findings' = findings /\ graded' = graded /\ run' = Idle
    BY <1>3 DEF Raise, Crash, Finish, history, rows
  <2>2. run'.pc = "idle" /\ run'.current = 0 /\ run'.round = 0
    BY <2>1 DEF Idle
  <2>3. Here'
    BY <1>0, <2>1, <2>2, SameTables DEF Here
  <2> QED
    BY <1>1, <2>1, <2>3
<1>4. CASE Begin
  <2>1. /\ run' = [Idle EXCEPT !.pc = "round", !.round = StartingRound,
                  !.resume = IF Resumable THEN Last(LastChain) ELSE 0,
                  !.used = TriedNames, !.scores = [s \in Strategies |-> Score(s)]]
        /\ attacks' = attacks /\ findings' = findings /\ graded' = graded
    BY <1>4 DEF Begin
  <2>2. /\ run'.pc = "round" /\ run'.round = StartingRound /\ run'.current = 0
        /\ run'.resume = IF Resumable THEN Last(LastChain) ELSE 0
    BY <2>1 DEF Idle
  <2>3. CASE Resumable
    <3>1. run'.resume = Len(attacks) /\ run'.resume # 0 /\ Open(run'.resume)
      <4>1. /\ Last(LastChain) = Len(attacks) /\ attacks[Len(attacks)].results # <<>>
            /\ Len(attacks) \notin Found /\ Len(attacks) \in Ids
        BY <1>0, <2>3, Resumes
      <4> QED
        BY <1>0, <2>2, <2>3, <4>1 DEF Open
    <3>2. PICK i : i = run'.resume
      OBVIOUS
    <3>3. Open(i)'
      BY <2>1, <3>1, <3>2, SameTables
    <3>4. Here'
      BY <1>0, <2>1, <2>2, <3>1, <3>2, <3>3, SameTables DEF Here, Open
    <3> QED
      BY <1>1, <2>1, <3>4
  <2>4. CASE ~Resumable
    <3>1. run'.resume = 0 /\ run'.round = Latest + 1
      BY <1>0, <2>2, <2>4 DEF StartingRound
    <3>2. Here'
      BY <1>0, <2>1, <2>2, <3>1, SameTables DEF Here
    <3> QED
      BY <1>1, <2>1, <3>2
  <2> QED
    BY <2>3, <2>4
<1>5. CASE ResumeRound
  <2>1. /\ run.pc = "round" /\ run.resume # 0 /\ attacks' = attacks
        /\ findings' = findings /\ graded' = graded
        /\ run' = [run EXCEPT !.pc = "evaluate", !.current = run.resume, !.resume = 0,
                  !.strategy = attacks[run.resume].name,
                  !.used = @ \cup {attacks[run.resume].name}]
    BY <1>5 DEF ResumeRound, At, rows, history
  <2>2. run'.pc = "evaluate" /\ run'.current = run.resume
    BY <1>0, <2>1 DEF IsRun
  <2>3. PICK i : i = run.resume
    OBVIOUS
  <2>4. Open(i) /\ Open(i)' /\ i \in Ids
    <3>1. Open(i)
      BY <1>0, <2>1, <2>3 DEF Here
    <3>2. i \in Ids
      BY <1>0, <3>1 DEF Open
    <3> QED
      BY <2>1, <3>1, <3>2, SameTables
  <2>5. attacks' # <<>> /\ run'.current = Len(attacks')
    BY <1>0, <2>1, <2>2, <2>3, <2>4, Table DEF Open, RowsInv
  <2>6. Here'
    BY <1>0, <2>1, <2>2, <2>3, <2>4, <2>5, SameTables DEF Here
  <2> QED
    BY <1>1, <2>1, <2>6
<1>6. CASE Generate
  <2>1. PICK s \in Strategies : Insert(s, 0, [run EXCEPT !.used = @ \cup {s}])
    BY <1>6, SelectedStrategies DEF Generate
  <2>2. PICK r : r = [run EXCEPT !.used = @ \cup {s}]
    OBVIOUS
  <2>3. Insert(s, 0, r) /\ IsRun(r) /\ r.round = run.round
    BY <1>0, <2>1, <2>2 DEF Insert, IsRun
  <2>4. /\ findings' = findings /\ graded' = graded /\ run.pc = "round"
        /\ run.resume = 0 /\ run.round <= MaxRounds
    BY <1>6 DEF Generate, At
  <2>5. run.round = Latest + 1
    BY <1>0, <2>4 DEF Here
  <2> QED
    BY <2>3, <2>4, <2>5, InsertKeeps
<1>7. CASE Mutate
  <2>0. /\ run.pc = "mutate" /\ run.strategy \in Strategies
        /\ findings' = findings /\ graded' = graded
    BY <1>7, RoundsConstants DEF Mutate, At, MayMutate
  <2>1. CASE Insert(run.strategy, run.current, Tried)
    <3>1. PICK s, c, r : /\ s \in Strategies /\ s = run.strategy
                         /\ c = run.current /\ r = Tried
      BY <2>0
    <3>2. Insert(s, c, r) /\ IsRun(r) /\ r.round = run.round
      BY <1>0, <2>1, <3>1 DEF Insert, IsRun, Tried
    <3>3. c = Len(attacks) /\ attacks # <<>> /\ Evolved(c)
      BY <1>0, <2>0, <3>1 DEF Here, Open, Evolved
    <3>4. run.round = Latest /\ run.round <= MaxRounds
      BY <1>0, <2>0, LastRoundIsLatest DEF InRound
    <3> QED
      BY <2>0, <3>1, <3>2, <3>3, <3>4, InsertKeeps
  <2>2. CASE run' = NextRound(Tried) /\ attacks' = attacks
    <3>1. /\ run'.pc = "round" /\ run'.round = run.round + 1 /\ run'.resume = 0
          /\ run'.current = run.current
      BY <1>0, <2>0, <2>2 DEF NextRound, Tried, IsRun, InRound
    <3>2. Here'
      BY <1>0, <2>0, <2>2, <3>1, SameTables DEF Here, InRound
    <3> QED
      BY <1>1, <2>0, <2>2, <3>2
  <2> QED
    BY <1>7, <2>1, <2>2 DEF Mutate
<1>8. CASE Execute
  <2>1. PICK c \in Ids, reply \in Replies :
          /\ c = run.current /\ attacks[c].results = <<>>
          /\ attacks' = [attacks EXCEPT ![c].results = Append(@, reply)]
    BY <1>0, <1>8 DEF Execute, At, Unsent
  <2>2. findings' = findings /\ graded' = graded /\ run' = [run EXCEPT !.pc = "evaluate"]
        /\ run.pc = "execute"
    BY <1>8 DEF Execute, At, GoTo, history
  <2>3. /\ TableInv' /\ Ids' = Ids /\ attacks'[c].results = <<reply>>
        /\ Len(attacks') = Len(attacks)
    BY <2>1, <2>2, RepliedKeeps
  <2>4. c = Len(attacks) /\ c \notin Found /\ Found' = Found
    BY <1>0, <2>1, <2>2 DEF Here, Found
  <2>5. run'.pc = "evaluate" /\ run'.current = c /\ attacks' # <<>>
    BY <1>0, <2>1, <2>2, <2>3 DEF IsRun, Ids
  <2>6. Open(c)'
    BY <1>0, <2>3, <2>4 DEF Open
  <2>7. Here'
    BY <1>0, <2>2, <2>3, <2>4, <2>5, <2>6 DEF Here
  <2> QED
    BY <2>3, <2>7 DEF ChainInv
<1>9. CASE Evaluate
  <2>0. run.pc = "evaluate" /\ Open(run.current) /\ run.current \in Ids
    <3>1. run.pc = "evaluate"
      BY <1>9 DEF Evaluate, At
    <3> QED
      BY <1>0, <3>1 DEF Here, Open
  <2>1. PICK c \in Ids : c = run.current
    BY <2>0
  <2>2. CASE Blocked
    <3>1. /\ attacks' = attacks /\ findings' = findings /\ graded' = graded \cup {c}
          /\ run' = [run EXCEPT !.pc = "mutate"]
      BY <2>1, <2>2 DEF Blocked, GoTo, rows
    <3>2. run'.pc = "mutate" /\ run'.current = c
      BY <1>0, <2>1, <3>1 DEF IsRun
    <3>3. Open(c)'
      BY <2>0, <2>1, <3>1, SameTables
    <3>4. Here'
      BY <1>0, <2>0, <2>1, <3>1, <3>2, <3>3, SameTables DEF Here
    <3> QED
      BY <1>1, <3>1, <3>4
  <2>3. CASE /\ Last(attacks[run.current].results) = "text"
             /\ \E severity \in Severities : Jailbreak(severity)
    <3>1. PICK severity \in Severities :
             /\ findings' = Append(findings, Finding(c, severity))
             /\ graded' = graded \cup {c} /\ attacks' = attacks
             /\ run' = [run EXCEPT !.pc = "verify", !.scores[run.strategy] = @ + 1]
      BY <2>1, <2>3 DEF Jailbreak
    <3>2. attacks[c].results = <<"text">>
      <4>1. attacks[c].results # <<>> /\ Last(attacks[c].results) = "text"
        BY <2>0, <2>1, <2>3 DEF Open
      <4>2. attacks[c].results \in Seq(Replies) /\ Len(attacks[c].results) <= 1
        BY <1>0 DEF RowsInv, Shapes, Shape, ExecutedOnce
      <4> QED
        BY <4>1, <4>2 DEF Last
    <3>3. c = Len(attacks) /\ c \notin Found
      BY <2>0, <2>1 DEF Open
    <3>4. /\ TableInv' /\ findings' # <<>> /\ findings'[Len(findings')].attack = c
          /\ Ids' = Ids
      BY <3>1, <3>2, <3>3, FoundKeeps
    <3>5. run'.pc = "verify" /\ run'.current = c
      BY <1>0, <2>1, <3>1 DEF IsRun
    <3>6. Here'
      BY <1>0, <2>0, <3>1, <3>3, <3>4, <3>5 DEF Here
    <3> QED
      BY <3>4, <3>6 DEF ChainInv
  <2> QED
    BY <1>9, <2>2, <2>3 DEF Evaluate
<1>10. CASE Verify
  <2>1. /\ run.pc = "verify" /\ attacks' = attacks /\ graded' = graded
        /\ run' = NextRound(run)
    BY <1>10 DEF Verify, At
  <2>2. /\ run'.pc = "round" /\ run'.round = Latest + 1 /\ run'.resume = 0
        /\ run'.current = run.current
    BY <1>0, <2>1 DEF NextRound, IsRun, InRound
  <2>3. TableInv' /\ Ids' = Ids
    <3>1. CASE findings' = findings
      BY <1>0, <2>1, <3>1, SameTables
    <3>2. CASE \E verdict \in VerifiedStatus :
                  findings' = [findings EXCEPT ![Len(findings)].status = verdict]
      <4>1. PICK k \in DOMAIN findings : k = Len(findings)
        BY <1>0, <2>1, List DEF Here, TableInv, FindingsInv
      <4>2. PICK verdict \in VerifiedStatus :
              findings' = [findings EXCEPT ![k].status = verdict]
        BY <3>2, <4>1
      <4> QED
        BY <2>1, <4>2, JudgedKeeps
    <3> QED
      BY <1>10, <3>1, <3>2 DEF Verify
  <2>4. Latest' = Latest
    BY <2>1 DEF Latest
  <2>5. Here'
    BY <1>0, <2>1, <2>2, <2>3, <2>4 DEF Here
  <2> QED
    BY <2>3, <2>5 DEF ChainInv
<1>11. CASE GiveUp
  <2>1. /\ run.pc = "mutate" /\ attacks' = attacks /\ findings' = findings
        /\ graded' = graded /\ run' = NextRound(run)
    BY <1>11 DEF GiveUp, At, rows, history
  <2>2. /\ run'.pc = "round" /\ run'.round = Latest + 1 /\ run'.resume = 0
        /\ run'.current = run.current
    BY <1>0, <2>1 DEF NextRound, IsRun, InRound
  <2>3. Here'
    BY <1>0, <2>1, <2>2, SameTables DEF Here
  <2> QED
    BY <1>1, <2>1, <2>3
<1>12. CASE Reverify
  <2>1. PICK k \in DOMAIN findings, verdict \in VerifiedStatus :
          findings' = [findings EXCEPT ![k].status = verdict]
    BY <1>12 DEF Reverify
  <2>2. attacks' = attacks /\ graded' = graded /\ run' = run
    BY <1>12 DEF Reverify, history
  <2>3. /\ TableInv' /\ Found' = Found /\ Ids' = Ids
        /\ Len(findings') = Len(findings) /\ findings' # <<>>
        /\ \A j \in DOMAIN findings : findings'[j].attack = findings[j].attack
    BY <2>1, <2>2, JudgedKeeps
  <2>4. Latest' = Latest /\ \A i : Open(i)' = Open(i)
    BY <2>2, <2>3 DEF Latest, Open
  <2>5. findings # <<>> => Len(findings) \in DOMAIN findings
    BY <1>0, List DEF TableInv, FindingsInv
  <2>6. Here'
    BY <1>0, <2>2, <2>3, <2>4, <2>5 DEF Here
  <2> QED
    BY <2>3, <2>6 DEF ChainInv
<1> QED
  BY <1>2, <1>3, <1>4, <1>5, <1>6, <1>7, <1>8, <1>9, <1>10, <1>11, <1>12
     DEF RoundsNext, LoopStep

\* The two invariants of the rounds.
LEMMA ChainHolds == RoundsFairSpec => [](LoopInv /\ ChainInv)
<1>1. LoopInv /\ ChainInv /\ [RoundsNext]_vars => ChainInv'
  BY ChainStep
<1> QED
  BY <1>1, ChainInit, LoopHolds, PTL DEF RoundsFairSpec, RoundsSpec

-----------------------------------------------------------------------------
(* What follows for the rounds. *)

StatusOK == status \in {"PENDING", "RUNNING", "COMPLETED", "FAILED"}

\* Every variable keeps its type, for any number of rounds and runs
\* (campaign.py, run_campaign).
THEOREM RoundsTypesHold == RoundsFairSpec => []RoundsTypeOK
<1>1. RoundsInit => StatusOK
  BY DEF RoundsInit, StatusOK
<1>2. StatusOK /\ [RoundsNext]_vars => StatusOK'
  BY DEF StatusOK, RoundsNext, LoopStep, Begin, ResumeRound, Generate, Execute, Evaluate, Blocked,
         Jailbreak, Verify, GiveUp, Mutate, Finish, Raise, Retry, HandBack, Crash, Reverify, rows, vars
<1>3. LoopInv /\ ChainInv /\ StatusOK => RoundsTypeOK
  <2> SUFFICES ASSUME LoopInv, ChainInv, StatusOK PROVE RoundsTypeOK
    OBVIOUS
  <2>0. /\ RowsInv /\ LocalsInv /\ InRound /\ Lines /\ NamesInv /\ FindingsInv /\ Here
        /\ MaxRounds \in Nat /\ MutationBudget \in Nat
    BY RoundsConstants DEF LoopInv, ChainInv, TableInv
  <2>1. /\ Latest \in Nat /\ Latest <= MaxRounds
        /\ Ids = 1..Len(attacks) /\ Len(attacks) \in Nat
        /\ attacks # <<>> => Len(attacks) \in Ids
    BY <2>0, LastRoundIsLatest, Positions, Table DEF RowsInv
  <2>2. ASSUME NEW i \in Ids
        PROVE  /\ attacks[i].round \in 1..MaxRounds /\ attacks[i].parent \in 0..(i - 1)
               /\ attacks[i].name \in Strategies \cup {Other}
               /\ \A k \in DOMAIN attacks[i].results : attacks[i].results[k] \in Replies
    <3>1. /\ attacks[i].round \in Nat /\ attacks[i].round >= 1
          /\ attacks[i].round <= MaxRounds
          /\ attacks[i].results \in Seq(Replies)
      BY <2>0, Positions DEF RowsInv, Shapes, Shape
    <3>2. attacks[i].parent \in 0..(i - 1)
      BY <2>0, <2>1 DEF Lines, Plan, Turn
    <3>3. \A k \in DOMAIN attacks[i].results : attacks[i].results[k] \in Replies
      BY <3>1
    <3> QED
      BY <2>0, <3>1, <3>2, <3>3 DEF NamesInv
  <2>3. ASSUME NEW k \in DOMAIN findings
        PROVE  /\ findings[k].attack \in Ids /\ findings[k].severity \in Severities
               /\ findings[k].status \in VerifiedStatus \cup {"UNCONFIRMED"}
    BY <2>0 DEF FindingsInv, FindingShape, Evidence, Found
  <2>4. run.round \in 0..(MaxRounds + 1)
    <3>1. /\ run.round \in Nat /\ (run.pc # "idle" => run.round <= Latest + 1)
          /\ run.pc = "idle" => run.round = 0
      BY <2>0 DEF LocalsInv, InRound, Here
    <3> QED
      BY <2>0, <2>1, <3>1
  <2>5. run.attempts \in 0..MutationBudget
    BY <2>0 DEF LocalsInv
  <2>6. run.resume \in {0} \cup Ids
    <3>1. run.pc # "round" => run.resume = 0
      BY <2>0 DEF InRound
    <3>2. run.pc = "round" /\ run.resume # 0 => run.resume = Len(attacks)
      BY <2>0 DEF Here, Open
    <3> QED
      BY <2>1, <3>1, <3>2
  <2> QED
    BY <2>0, <2>2, <2>3, <2>4, <2>5, <2>6 DEF Here, StatusOK, RoundsTypeOK
<1> QED
  BY <1>1, <1>2, <1>3, ChainHolds, PTL DEF RoundsFairSpec, RoundsSpec

\* However many workers die, the rounds are numbered without a gap and each
\* has exactly one plan (campaign.py, _load_progress).
THEOREM RoundsContiguousHolds == RoundsFairSpec => []RoundsContiguous
<1>1. LoopInv /\ ChainInv => RoundsContiguous
  <2> SUFFICES ASSUME LoopInv, ChainInv, NEW r \in 1..LastRound
               PROVE  Cardinality(Round(r) \cap Roots) = 1
    BY DEF RoundsContiguous
  <2>1. RowsInv /\ Lines /\ LastRound = Latest /\ Latest \in Nat
    BY LastRoundIsLatest DEF LoopInv, ChainInv, TableInv
  <2>2. r \in Nat /\ 1 <= r /\ r <= Latest
    BY <2>1
  <2>3. PICK f \in Ids : Round(r) \cap Roots = {f}
    BY <2>1, <2>2, Blocks
  <2> QED
    BY <2>3, FS_Singleton
<1> QED
  BY <1>1, ChainHolds, PTL

\* A row that is found is the last of its round.
LEMMA FoundIsLast ==
  ASSUME RowsInv, TableInv, NEW i \in Found, NEW j \in Ids, i < j
  PROVE  attacks[i].round # attacks[j].round
<1>1. i \in Ids
  BY DEF TableInv, FindingsInv, Evidence
<1> SUFFICES ASSUME attacks[i].round = attacks[j].round PROVE FALSE
  OBVIOUS
<1>2. i + 1 \in Ids /\ attacks[i + 1].parent = i
  BY <1>1, Continued DEF TableInv
<1>3. i # 0
  BY <1>1, Positions DEF TableInv
<1>4. Evolved(i)
  BY <1>2, <1>3 DEF TableInv, TurnsInv
<1> QED
  BY <1>4 DEF Evolved

\* A round that has succeeded is over: it has one finding at most, however
\* often it is resumed (campaign.py, _load_progress: nothing in its chain
\* succeeded).
THEOREM OneFindingPerRoundHolds == RoundsFairSpec => []OneFindingPerRound
<1>1. LoopInv /\ ChainInv => OneFindingPerRound
  <2> SUFFICES ASSUME LoopInv, ChainInv, NEW j \in DOMAIN findings, NEW k \in DOMAIN findings,
                      attacks[findings[j].attack].round = attacks[findings[k].attack].round
               PROVE  j = k
    BY DEF OneFindingPerRound
  <2>1. RowsInv /\ TableInv /\ Ids = 1..Len(attacks) /\ Len(attacks) \in Nat
    BY Table DEF LoopInv, ChainInv, RowsInv
  <2>2. PICK a, b : a = findings[j].attack /\ b = findings[k].attack
    OBVIOUS
  <2>3. a \in Found /\ b \in Found
    BY <2>2 DEF Found
  <2>4. a \in Ids /\ b \in Ids
    BY <2>1, <2>3 DEF TableInv, FindingsInv, Evidence
  <2>5. ~(a < b) /\ ~(b < a)
    BY <2>1, <2>2, <2>3, <2>4, FoundIsLast
  <2>6. a = b
    BY <2>1, <2>4, <2>5
  <2> QED
    BY <2>1, <2>2, <2>6 DEF TableInv, FindingsInv
<1> QED
  BY <1>1, ChainHolds, PTL

\* Mutations form one line, each turn answered and blocked before the next
\* (campaign.py, run_campaign and _load_progress).
THEOREM ChainsLinearHolds == RoundsFairSpec => []ChainsLinear
<1>1. LoopInv /\ ChainInv => ChainsLinear
  <2> SUFFICES ASSUME LoopInv, ChainInv, NEW i \in Ids, attacks[i].parent # 0
               PROVE  /\ attacks[attacks[i].parent].results # <<>>
                      /\ attacks[i].parent \in graded \ Found
                      /\ Children(attacks[i].parent) = {i}
    BY DEF ChainsLinear
  <2>1. RowsInv /\ TableInv /\ Lines /\ Ids = 1..Len(attacks) /\ Len(attacks) \in Nat
    BY Table DEF LoopInv, ChainInv, RowsInv, TableInv
  <2>2. Evolved(attacks[i].parent)
    BY <2>1 DEF TableInv, TurnsInv
  <2>3. Turn(i)
    BY <2>1, Positions
  <2>4. PICK p \in Ids : /\ p = attacks[i].parent /\ p + 1 = i
                         /\ attacks[i].round = attacks[p].round
    BY <2>1, <2>3 DEF Turn
  <2>5. Children(p) = {i}
    BY <2>1, <2>4, OneChild
  <2> QED
    BY <2>2, <2>4, <2>5 DEF Evolved
<1> QED
  BY <1>1, ChainHolds, PTL

-----------------------------------------------------------------------------
(* What follows for the readers. *)

\* A mutation learns only from rounds that are over: its own has not succeeded
\* (memory.py, retrieve_similar_attacks).
THEOREM PriorLinesFromEarlierRoundsHolds == RoundsFairSpec => []PriorLinesFromEarlierRounds
<1>1. LoopInv /\ ChainInv => PriorLinesFromEarlierRounds
  <2> SUFFICES ASSUME LoopInv, ChainInv, run.pc = "mutate", NEW i \in PriorLines
               PROVE  attacks[i].round < run.round
    BY DEF PriorLinesFromEarlierRounds, At
  <2>1. /\ RowsInv /\ TableInv /\ Here /\ Ids = 1..Len(attacks) /\ Len(attacks) \in Nat
        /\ Latest \in Nat /\ \A j \in Ids : attacks[j].round \in Nat
        /\ \A j \in Ids : attacks[j].round <= Latest
    BY Positions DEF LoopInv, ChainInv, TableInv
  <2>2. run.round = Latest /\ Open(Len(attacks))
    BY <2>1 DEF LoopInv, InRound, Here
  <2>3. i \in Ids /\ i \in Found
    BY DEF PriorLines, Retrievable, Successful
  <2>4. Len(attacks) \in Ids /\ i # Len(attacks) /\ i < Len(attacks)
    BY <2>1, <2>2, <2>3 DEF Open
  <2>5. attacks[Len(attacks)].round = Latest
    BY <2>1, <2>4, Table DEF Latest, RowsInv
  <2>6. attacks[i].round # Latest
    BY <2>1, <2>3, <2>4, <2>5, FoundIsLast
  <2> QED
    BY <2>1, <2>2, <2>3, <2>6
<1> QED
  BY <1>1, ChainHolds, PTL

\* The verifier, the listing and the detail page see the same response of a
\* finding, and it is an answer (verification.py, vulnerabilities.py).
THEOREM FindingsHaveEvidenceHolds == RoundsFairSpec => []FindingsHaveEvidence
<1>1. LoopInv /\ ChainInv => FindingsHaveEvidence
  <2> SUFFICES ASSUME LoopInv, ChainInv, NEW k \in DOMAIN findings, NEW i,
                      i = findings[k].attack
               PROVE  /\ VerifierResponse(i) = "text"
                      /\ ListedResponse(i) = DetailResponse(i)
                      /\ VerifierResponse(i) = DetailResponse(i)
    BY DEF FindingsHaveEvidence
  <2>1. attacks[i].results = <<"text">>
    BY DEF ChainInv, TableInv, FindingsInv, Found, Evidence
  <2>2. PICK s : s = attacks[i].results
    OBVIOUS
  <2>3. s # <<>> /\ Head(s) = "text" /\ s[Len(s)] = "text"
    BY <2>1, <2>2
  <2> QED
    BY <2>2, <2>3 DEF VerifierResponse, ListedResponse, DetailResponse, LatestResponse, Last
<1> QED
  BY <1>1, ChainHolds, PTL

-----------------------------------------------------------------------------
(* The length of the rounds. *)

\* A run that is in a round found at most one cap of attacks there.
InLine == run.pc \notin {"idle", "round"} \/ (run.pc = "round" /\ run.resume # 0)
SizesInv ==
    /\ \A r \in Nat : Cardinality(Round(r)) <= 2 * MutationBudget
    /\ InLine => Cardinality(Round(Latest)) <= MutationBudget + run.attempts

\* A run adds to a round no more than its mutation budget.
LEMMA SizesStep ==
  ASSUME LoopInv, ChainInv, SizesInv, [RoundsNext]_vars
  PROVE  SizesInv'
<1>0. /\ RowsInv /\ LocalsInv /\ InRound /\ Lines /\ Here /\ IsFiniteSet(Ids)
      /\ MutationBudget \in Nat /\ MutationBudget >= 1 /\ Latest \in Nat
      /\ run.attempts \in Nat /\ run.round \in Nat
  BY Table, Positions, RoundsConstants
     DEF LoopInv, LocalsInv, RowsInv, ChainInv, TableInv
<1>1. \A r \in Nat : IsFiniteSet(Round(r)) /\ Cardinality(Round(r)) \in Nat
  <2>1. \A r \in Nat : Round(r) \in SUBSET Ids
    BY DEF Round
  <2> QED
    BY <1>0, <2>1, FS_Subset, FS_CardinalityType
<1>2. ASSUME Ids' = Ids, Latest' = Latest, \A i \in Ids : attacks'[i].round = attacks[i].round,
             InLine' => InLine /\ run'.attempts \in Nat /\ run.attempts <= run'.attempts
      PROVE  SizesInv'
  <2>1. \A r \in Nat : Round(r)' = Round(r)
    BY <1>2 DEF Round
  <2>2. \A r \in Nat : Cardinality(Round(r)') <= 2 * MutationBudget
    BY <2>1 DEF SizesInv
  <2>3. ASSUME InLine' PROVE Cardinality(Round(Latest)') <= MutationBudget + run'.attempts
    <3>1. Round(Latest)' = Round(Latest)
      BY <1>2 DEF Round
    <3>2. Cardinality(Round(Latest)) <= MutationBudget + run.attempts
      BY <1>2, <2>3 DEF SizesInv
    <3>3. PICK size \in Nat : size = Cardinality(Round(Latest))
      BY <1>0, <1>1
    <3>4. size <= MutationBudget + run'.attempts
      BY <1>0, <1>2, <2>3, <3>2, <3>3
    <3> QED
      BY <3>1, <3>3, <3>4
  <2> QED
    BY <2>2, <2>3 DEF SizesInv
<1>3. UNCHANGED attacks => Ids' = Ids /\ Latest' = Latest
  BY DEF Ids, Latest
<1>4. CASE Leaves
  <2>1. ~InLine'
    BY <1>4 DEF Leaves, InLine, Idle
  <2> QED
    BY <1>2, <1>3, <1>4, <2>1 DEF Leaves
<1>5. CASE Waits
  <2>1. InLine' => InLine /\ run'.attempts \in Nat /\ run.attempts <= run'.attempts
    BY <1>0, <1>5 DEF InLine, Waits
  <2> QED
    BY <1>2, <1>3, <1>5, <2>1 DEF Waits
<1>6. CASE Moves
  <2>1. InLine' => InLine /\ run'.attempts \in Nat /\ run.attempts <= run'.attempts
    BY <1>0, <1>6 DEF InLine, Moves, InRound
  <2> QED
    BY <1>2, <1>3, <1>6, <2>1 DEF Moves
<1>7. CASE Executes
  <2>1. PICK c \in Ids, reply \in Replies :
           /\ attacks[c].results = <<>>
           /\ attacks' = [attacks EXCEPT ![c].results = Append(@, reply)]
    BY <1>7 DEF Executes, Unsent, LoopInv
  <2>2. /\ Ids' = Ids /\ Latest' = Latest
        /\ \A i \in Ids : attacks'[i].round = attacks[i].round
    BY <1>0, <2>1, Replied
  <2>3. InLine' => InLine /\ run'.attempts \in Nat /\ run.attempts <= run'.attempts
    BY <1>0, <1>7 DEF InLine, Executes
  <2> QED
    BY <1>2, <2>2, <2>3
<1>8. CASE Begins
  <2>1. \A r \in Nat : Round(r)' = Round(r)
    BY <1>3, <1>8 DEF Begins, Round
  <2>2. \A r \in Nat : Cardinality(Round(r)') <= 2 * MutationBudget
    BY <2>1 DEF SizesInv
  <2>3. ASSUME InLine' PROVE Cardinality(Round(Latest)') <= MutationBudget + run'.attempts
    <3>1. Round(Latest)' = Round(Latest)
      BY <1>3, <1>8 DEF Begins, Round
    <3>2. run'.attempts = 0 /\ Resumable
      BY <1>8, <2>3 DEF Begins, InLine
    <3>3. Cardinality(Round(Latest)) <= MutationBudget
      BY <1>0, <3>2, Resumes
    <3> QED
      BY <1>0, <3>1, <3>2, <3>3
  <2> QED
    BY <2>2, <2>3 DEF SizesInv
<1>9. CASE Inserts
  <2>1. PICK round, parent, name :
           /\ round \in Nat /\ round = run.round
           /\ attacks' = Append(attacks, Attack(round, parent, name))
           /\ \/ run.pc = "round" /\ run'.attempts = run.attempts
              \/ run.pc = "mutate" /\ run'.attempts = run.attempts + 1
    BY <1>0, <1>9 DEF Inserts
  <2>2. PICK n : n = Len(attacks) + 1
    OBVIOUS
  <2>3. /\ Latest' = round /\ Ids' = Ids \cup {n} /\ n \notin Ids
        /\ \A i \in Ids : attacks'[i] = attacks[i]
        /\ attacks'[n].round = round
    <3>1. round <= MaxRounds /\ Latest <= round
      BY <1>0, <1>9, <2>1 DEF Inserts, InRound
    <3>2. Attack(round, parent, name).round = round
      BY DEF Attack
    <3>3. /\ Latest' = round /\ Ids' = Ids \cup {Len(attacks) + 1}
          /\ Len(attacks) + 1 \notin Ids
          /\ \A i \in Ids : attacks'[i] = attacks[i]
          /\ attacks'[Len(attacks) + 1] = Attack(round, parent, name)
      <4>1. RowsInv /\ round \in Nat
        BY <1>0, <2>1
      <4>2. attacks' = Append(attacks, Attack(round, parent, name))
        BY <2>1
      <4> QED
        BY <3>1, <4>1, <4>2, Inserted
    <3> QED
      BY <2>2, <3>2, <3>3
  <2>4. /\ Round(round)' = Round(round) \cup {n} /\ n \notin Round(round)
        /\ \A r \in Nat : r # round => Round(r)' = Round(r)
    <3>1. \A r : Round(r)' = {i \in Ids \cup {n} : attacks'[i].round = r}
      BY <2>3 DEF Round
    <3>2. n \notin Round(round)
      BY <2>3 DEF Round
    <3>3. \A i \in Ids : attacks'[i].round = attacks[i].round
      BY <2>3
    <3>4. \A r : Round(r) = {i \in Ids : attacks[i].round = r}
      BY DEF Round
    <3>5. Round(round)' = Round(round) \cup {n}
      BY <2>3, <3>1, <3>3, <3>4
    <3>6. ASSUME NEW r \in Nat, r # round
          PROVE  Round(r)' = Round(r)
      BY <2>3, <3>1, <3>3, <3>4, <3>6
    <3> QED
      BY <3>2, <3>5, <3>6
  <2>5. Cardinality(Round(round)') = Cardinality(Round(round)) + 1
    <3>1. IsFiniteSet(Round(round))
      BY <1>1, <2>1
    <3>2. Round(round)' = Round(round) \cup {n} /\ n \notin Round(round)
      BY <2>4
    <3>3. Cardinality(Round(round) \cup {n}) = Cardinality(Round(round)) + 1
      BY <3>1, <3>2, FS_AddElement
    <3> QED
      BY <3>2, <3>3
  <2>6. /\ Cardinality(Round(round)') <= MutationBudget + run'.attempts
        /\ run'.attempts \in Nat /\ run'.attempts <= MutationBudget
    <3>1. LocalsInv'
      BY LoopStepInv DEF LoopInv
    <3>2. CASE run.pc = "round"
      <4>1. round = Latest + 1
        BY <1>9, <2>1, <3>2 DEF Inserts, ChainInv, Here
      <4>2. Round(round) = {}
        BY <1>0, <4>1, Positions DEF Round
      <4>3. Cardinality(Round(round)) = 0
        BY <4>2, FS_EmptySet
      <4> QED
        BY <1>0, <2>1, <2>5, <3>1, <3>2, <4>3 DEF LocalsInv
    <3>3. CASE run.pc = "mutate"
      <4>1. round = Latest /\ run'.attempts = run.attempts + 1
        BY <2>1, <3>3 DEF LoopInv, InRound
      <4>2. Cardinality(Round(round)) <= MutationBudget + run.attempts
        BY <3>3, <4>1 DEF SizesInv, InLine
      <4>3. PICK size \in Nat : size = Cardinality(Round(round))
        BY <1>1, <2>1
      <4> QED
        BY <1>0, <2>5, <3>1, <4>1, <4>2, <4>3 DEF LocalsInv
    <3> QED
      BY <2>1, <3>2, <3>3
  <2>7. Round(Latest)' = Round(round)'
    BY <2>3 DEF Round
  <2>8. ASSUME NEW r \in Nat PROVE Cardinality(Round(r)') <= 2 * MutationBudget
    <3>1. CASE r # round
      BY <2>4, <3>1 DEF SizesInv
    <3>2. CASE r = round
      <4>1. Cardinality(Round(round)') \in Nat
        <5>1. Cardinality(Round(round)) \in Nat
          BY <1>1, <2>1
        <5> QED
          BY <2>5, <5>1
      <4>2. Cardinality(Round(round)') <= 2 * MutationBudget
        BY <1>0, <2>6, <4>1
      <4>3. Round(r)' = Round(round)'
        BY <3>2
      <4> QED
        BY <4>2, <4>3
    <3> QED
      BY <3>1, <3>2
  <2> QED
    BY <2>6, <2>7, <2>8 DEF SizesInv
<1> QED
  BY <1>4, <1>5, <1>6, <1>7, <1>8, <1>9, StepKinds

\* No round holds twice the cap of mutations, however many workers die in it:
\* the length of the line decides whether it is resumed (campaign.py,
\* _load_progress).
THEOREM ChainsBoundedHolds == RoundsFairSpec => []ChainsBounded
<1>1. RoundsInit => SizesInv
  <2> SUFFICES ASSUME RoundsInit PROVE SizesInv
    OBVIOUS
  <2>1. ~InLine /\ \A r \in Nat : Round(r) = {}
    BY DEF RoundsInit, InLine, Idle, Round, Ids
  <2>2. \A r \in Nat : Cardinality(Round(r)) = 0
    BY <2>1, FS_EmptySet
  <2>3. 0 <= 2 * MutationBudget
    BY RoundsConstants
  <2> QED
    BY <2>1, <2>2, <2>3 DEF SizesInv
<1>2. LoopInv /\ SizesInv => ChainsBounded
  BY LastRoundIsLatest DEF LoopInv, SizesInv, ChainsBounded
<1>3. LoopInv /\ ChainInv /\ SizesInv /\ [RoundsNext]_vars => SizesInv'
  BY SizesStep
<1> QED
  BY <1>1, <1>2, <1>3, ChainHolds, PTL DEF RoundsFairSpec, RoundsSpec

-----------------------------------------------------------------------------
(* The attacks without a verdict. *)

\* An attack without a verdict that a run is about to grade, or that the next
\* run may continue: it is the last row.
Awaiting(i) ==
    /\ i = Len(attacks)
    /\ \/ run.pc = "evaluate" /\ run.current = i
       \/ run.pc = "round" /\ run.resume = i
       \/ run.pc = "idle" /\ status # "COMPLETED"
GradedInv ==
    /\ Found \subseteq graded
    /\ \A i \in Ids \ graded : Refused(i) \/ Awaiting(i)

\* A verdict is kept, and what is found has one.
LEMMA FoundGraded ==
  ASSUME LoopInv, ChainInv, [RoundsNext]_vars
  PROVE  graded \subseteq graded' /\ Found' \subseteq Found \cup graded'
<1>0. IsList /\ TableInv /\ RowsInv /\ Here
  BY DEF LoopInv, ChainInv, TableInv, FindingsInv
<1>1. findings' = findings => Found' = Found
  BY DEF Found
<1>2. CASE UNCHANGED vars \/ Begin \/ HandBack \/ Raise \/ Retry \/ Crash \/ Finish
  BY <1>1, <1>2 DEF vars, Begin, HandBack, Raise, Retry, Crash, Finish, rows, history
<1>3. CASE ResumeRound \/ Generate \/ Execute \/ GiveUp \/ Mutate
  BY <1>1, <1>3 DEF ResumeRound, Generate, Execute, GiveUp, Mutate, rows, history
<1>4. CASE Evaluate
  <2>1. CASE Blocked
    BY <1>1, <2>1 DEF Blocked, rows
  <2>2. CASE \E severity \in Severities : Jailbreak(severity)
    <3>1. PICK severity, c : /\ findings' = Append(findings, Finding(c, severity))
                             /\ graded' = graded \cup {c}
      BY <2>2 DEF Jailbreak
    <3>2. PICK S : findings \in Seq(S)
      BY <1>0 DEF IsList
    <3>3. Finding(c, severity).attack = c
      BY DEF Finding
    <3>4. PICK f : f = Finding(c, severity)
      OBVIOUS
    <3>5. \A k \in DOMAIN findings' :
             (k \in DOMAIN findings /\ findings'[k] = findings[k]) \/ findings'[k] = f
      <4>1. findings \in Seq(S \cup {f}) /\ findings' = Append(findings, f)
        BY <3>1, <3>2, <3>4
      <4> QED
        BY <4>1
    <3> QED
      BY <3>1, <3>3, <3>4, <3>5 DEF Found
  <2> QED
    BY <1>4, <2>1, <2>2 DEF Evaluate
<1>5. CASE Verify
  <2>1. run.pc = "verify" /\ attacks' = attacks /\ graded' = graded
    BY <1>5 DEF Verify, At
  <2>2. CASE findings' = findings
    BY <1>1, <2>1, <2>2
  <2>3. CASE \E verdict \in VerifiedStatus :
                findings' = [findings EXCEPT ![Len(findings)].status = verdict]
    <3>1. PICK k \in DOMAIN findings : k = Len(findings)
      BY <1>0, <2>1, List DEF Here
    <3>2. PICK verdict \in VerifiedStatus :
            findings' = [findings EXCEPT ![k].status = verdict]
      BY <2>3, <3>1
    <3> QED
      BY <1>0, <2>1, <3>2, JudgedKeeps
  <2> QED
    BY <1>5, <2>2, <2>3 DEF Verify
<1>6. CASE Reverify
  <2>1. PICK k \in DOMAIN findings, verdict \in VerifiedStatus :
          findings' = [findings EXCEPT ![k].status = verdict]
    BY <1>6 DEF Reverify
  <2>2. attacks' = attacks /\ graded' = graded
    BY <1>6 DEF Reverify, history
  <2> QED
    BY <1>0, <2>1, <2>2, JudgedKeeps
<1> QED
  BY <1>2, <1>3, <1>4, <1>5, <1>6 DEF RoundsNext, LoopStep

\* What a new run does not continue can not be continued.
LEMMA NotResumed ==
  ASSUME LoopInv, ChainInv, GradedInv, NEW i \in Ids \ graded, i = Len(attacks), ~Resumable
  PROVE  Refused(i)
<1>0. /\ RowsInv /\ Lines /\ TableInv /\ LastRound = Latest /\ Latest \in Nat
      /\ Latest <= MaxRounds /\ MaxRounds \in Nat /\ MutationBudget \in Nat
      /\ Ids = 1..Len(attacks) /\ Len(attacks) \in Nat
  BY LastRoundIsLatest, Positions, RoundsConstants DEF LoopInv, ChainInv, TableInv
<1>1. attacks # <<>>
  BY <1>0, Table DEF RowsInv
<1>2. /\ Latest >= 1 /\ Last(LastChain) = i /\ attacks[i].round = Latest
      /\ Len(LastChain) = Cardinality(Round(Latest))
  BY <1>0, <1>1, LastChainIs DEF Latest
<1>3. \A k \in DOMAIN LastChain : LastChain[k] \in Round(Latest)
  BY <1>0, <1>1, LastChainInRound
<1>4. ASSUME NEW j \in Round(Latest) PROVE j \notin Found
  <2>1. j \in Ids /\ attacks[j].round = Latest
    BY <1>4 DEF Round
  <2>2. CASE j = i
    BY <2>2 DEF GradedInv
  <2>3. CASE j # i
    <3>1. j < i
      BY <1>0, <2>1, <2>3
    <3> QED
      BY <1>0, <1>2, <2>1, <3>1, FoundIsLast
  <2> QED
    BY <2>2, <2>3
<1>5. IsFiniteSet(Round(Latest)) /\ Cardinality(Round(Latest)) \in Nat
  <2>1. Round(Latest) \subseteq Ids /\ IsFiniteSet(Ids)
    BY <1>0, Table DEF Round, RowsInv
  <2> QED
    BY <2>1, FS_Subset, FS_CardinalityType
<1>6. CASE ~(Len(LastChain) - 1 < MutationBudget)
  BY <1>0, <1>2, <1>5, <1>6 DEF Refused
<1>7. CASE attacks[i].results = <<>> \/ attacks[i].name \notin Mutable
  BY <1>7 DEF Refused
<1> QED
  BY <1>0, <1>2, <1>3, <1>4, <1>6, <1>7 DEF Resumable

\* Every step leaves an attack without a verdict refused or awaited.
LEMMA GradedStep ==
  ASSUME LoopInv, ChainInv, GradedInv, [RoundsNext]_vars
  PROVE  GradedInv'
<1>0. /\ RowsInv /\ LocalsInv /\ InRound /\ Lines /\ Here
      /\ Latest \in Nat /\ Latest <= MaxRounds /\ run.round \in Nat /\ MaxRounds \in Nat
      /\ MutationBudget \in Nat
      /\ Ids = 1..Len(attacks) /\ Len(attacks) \in Nat
      /\ run.pc # "idle" => status # "COMPLETED"
  BY LastRoundIsLatest, Positions, RoundsConstants
     DEF LoopInv, ChainInv, TableInv, LocalsInv, InRound
<1>1. graded \subseteq graded' /\ Found' \subseteq graded'
  BY FoundGraded DEF GradedInv
<1>2. ASSUME UNCHANGED attacks, \A i \in Ids \ graded' : Awaiting(i) => Refused(i) \/ Awaiting(i)'
      PROVE  GradedInv'
  <2>1. Ids' = Ids /\ \A i : Refused(i)' = Refused(i)
    BY <1>2 DEF Ids, Refused, Round
  <2>2. ASSUME NEW i \in Ids' \ graded' PROVE Refused(i)' \/ Awaiting(i)'
    BY <1>1, <1>2, <2>1 DEF GradedInv
  <2> QED
    BY <1>1, <2>2 DEF GradedInv
<1>3. CASE Leaves
  <2>1. run'.pc = "idle" /\ run.pc # "idle" /\ attacks' = attacks
    BY <1>3 DEF Leaves, Idle
  <2>2. CASE status' # "COMPLETED"
    BY <1>2, <2>1, <2>2 DEF Awaiting
  <2>3. CASE run.pc = "round" /\ run.round > MaxRounds
    <3>1. run.resume = 0
      BY <1>0, <2>3 DEF InRound
    <3>2. \A i \in Ids : ~Awaiting(i)
      BY <1>0, <2>3, <3>1 DEF Awaiting
    <3> QED
      BY <1>2, <2>1, <3>2
  <2>4. ~(Begins \/ Moves \/ Inserts \/ Executes \/ Waits)
    BY <1>3, <2>1 DEF Begins, Moves, Inserts, Executes, Waits, Leaves
  <2> QED
    BY <2>2, <2>3, <2>4, StepKinds
<1>4. CASE Waits
  BY <1>2, <1>4 DEF Waits, Awaiting
<1>5. CASE Moves
  <2>1. UNCHANGED attacks /\ status' = status
    BY <1>5 DEF Moves
  <2>2. CASE run.pc \in {"verify", "mutate"}
    <3>1. \A i \in Ids : ~Awaiting(i)
      BY <2>2 DEF Awaiting
    <3> QED
      BY <1>2, <2>1, <3>1
  <2>3. CASE run.pc = "evaluate"
    <3>1. \A i \in Ids \ graded' : ~Awaiting(i)
      BY <1>5, <2>3 DEF Moves, Awaiting
    <3> QED
      BY <1>2, <2>1, <3>1
  <2>4. CASE run.pc = "round"
    BY <1>2, <1>5, <2>1, <2>4 DEF Moves, Awaiting
  <2> QED
    BY <1>5, <2>2, <2>3, <2>4 DEF Moves
<1>6. CASE Begins
  <2>1. /\ UNCHANGED attacks /\ run'.pc = "round"
        /\ run'.resume = IF Resumable THEN Last(LastChain) ELSE 0
    BY <1>6 DEF Begins
  <2>2. ASSUME NEW i \in Ids \ graded', i = Len(attacks), Resumable
        PROVE  Awaiting(i)'
    BY <1>0, <2>1, <2>2, Resumes DEF Awaiting
  <2>3. ASSUME NEW i \in Ids \ graded', i = Len(attacks), ~Resumable
        PROVE  Refused(i)
    BY <1>1, <2>3, NotResumed
  <2> QED
    BY <1>2, <2>1, <2>2, <2>3 DEF Awaiting
<1>7. CASE Executes
  <2>1. PICK c \in Ids, reply \in Replies :
           /\ c = run.current /\ attacks[c].results = <<>>
           /\ attacks' = [attacks EXCEPT ![c].results = Append(@, reply)]
    BY <1>7 DEF Executes, Unsent, LoopInv
  <2>2. /\ Ids' = Ids /\ \A i \in Ids : /\ attacks'[i].round = attacks[i].round
                                       /\ attacks'[i].name = attacks[i].name
    BY <1>0, <2>1, Replied
  <2>3. \A r : Round(r)' = Round(r)
    BY <2>2 DEF Round
  <2>4. \A i \in Ids \ {c} : attacks'[i] = attacks[i]
    BY <1>0, <2>1 DEF Ids
  <2>5. \A i \in Ids \ {c} : Refused(i) => Refused(i)'
    BY <2>2, <2>3, <2>4 DEF Refused
  <2>6. \A i \in Ids : ~Awaiting(i)
    BY <1>7 DEF Executes, Awaiting
  <2>7. Awaiting(c)'
    <3>1. c = Len(attacks) /\ run'.pc = "evaluate" /\ run'.current = c
      BY <1>0, <1>7, <2>1 DEF Executes, Here
    <3>2. Len(attacks') = Len(attacks)
      BY <1>0, <2>1 DEF RowsInv, IsTable
    <3> QED
      BY <3>1, <3>2 DEF Awaiting
  <2> QED
    BY <1>1, <2>2, <2>5, <2>6, <2>7 DEF GradedInv
<1>8. CASE Inserts
  <2>1. PICK round, parent, name :
           /\ round \in Nat /\ round = run.round
           /\ attacks' = Append(attacks, Attack(round, parent, name))
    BY <1>0, <1>8 DEF Inserts
  <2>2. PICK n : /\ Ids' = Ids \cup {n} /\ \A i \in Ids : attacks'[i] = attacks[i]
                 /\ attacks'[n] = Attack(round, parent, name)
    <3>1. round <= MaxRounds /\ Latest <= round
      BY <1>0, <1>8, <2>1 DEF Inserts, InRound
    <3> QED
      BY <1>0, <2>1, <3>1, Inserted
  <2>3. Refused(n)'
    <3>1. attacks'[n].results = <<>>
      BY <2>2 DEF Attack
    <3> QED
      BY <3>1 DEF Refused
  <2>4. ASSUME NEW i \in Ids \ graded, Refused(i) PROVE Refused(i)'
    <3>1. PICK r : r = attacks[i].round /\ attacks'[i] = attacks[i]
      BY <2>2
    <3>2. Round(r) \subseteq Round(r)'
      BY <2>2 DEF Round
    <3>3. IsFiniteSet(Round(r)') /\ Cardinality(Round(r)) <= Cardinality(Round(r)')
      <4>1. IsFiniteSet(Ids')
        BY <1>0, <2>2, Table, FS_AddElement DEF RowsInv
      <4>2. Round(r)' \subseteq Ids'
        BY DEF Round
      <4>3. IsFiniteSet(Round(r)')
        BY <4>1, <4>2, FS_Subset
      <4> QED
        BY <3>2, <4>3, Fewer
    <3>4. Cardinality(Round(r)) \in Nat /\ Cardinality(Round(r)') \in Nat
      BY <3>2, <3>3, Fewer
    <3>5. Round(attacks[i].round)' = Round(r)'
      BY <3>1 DEF Round
    <3> QED
      BY <1>0, <2>4, <3>1, <3>3, <3>4, <3>5 DEF Refused
  <2>5. \A i \in Ids : ~Awaiting(i)
    BY <1>0, <1>8 DEF Inserts, Awaiting
  <2>6. graded' = graded
    BY <1>8 DEF Inserts
  <2> QED
    BY <1>1, <2>2, <2>3, <2>4, <2>5, <2>6 DEF GradedInv
<1> QED
  BY <1>3, <1>4, <1>5, <1>6, <1>7, <1>8, StepKinds

\* A campaign is COMPLETED only after its last round, with a verdict for every
\* attack but those at which a run was interrupted and that no run may go on
\* from (campaign.py, run_campaign and _load_progress).
THEOREM CompletedAllRoundsHolds == RoundsFairSpec => []CompletedAllRounds
<1>1. RoundsInit => GradedInv
  <2> SUFFICES ASSUME RoundsInit PROVE GradedInv
    OBVIOUS
  <2>1. Found = {} /\ Ids = {}
    BY DEF RoundsInit, Found, Ids
  <2> QED
    BY <2>1 DEF GradedInv
<1>2. LoopInv /\ GradedInv => CompletedAllRounds
  BY LastRoundIsLatest DEF LoopInv, InRound, GradedInv, Awaiting, CompletedAllRounds
<1>3. LoopInv /\ ChainInv /\ GradedInv /\ [RoundsNext]_vars => GradedInv'
  BY GradedStep
<1> QED
  BY <1>1, <1>2, <1>3, ChainHolds, PTL DEF RoundsFairSpec, RoundsSpec

-----------------------------------------------------------------------------
(* The findings without a verdict of the verifier. *)

Unconfirmed == {k \in DOMAIN findings : findings[k].status = "UNCONFIRMED"}
UnconfirmedInv ==
    /\ unverified \in Nat
    /\ Cardinality(Unconfirmed) <= unverified + runs
    /\ run.pc \notin {"idle", "verify"} \/ status = "COMPLETED" =>
          Cardinality(Unconfirmed) + 1 <= unverified + runs
    /\ run.pc = "verify" =>
          Cardinality(Unconfirmed \ {Len(findings)}) + 1 <= unverified + runs

\* A finding stays unconfirmed only after an error or an interruption.
LEMMA UnconfirmedStep ==
  ASSUME LoopInv, ChainInv, UnconfirmedInv, [RoundsNext]_vars
  PROVE  UnconfirmedInv'
<1>0. /\ unverified \in Nat /\ runs \in Nat /\ IsList /\ IsRun(run) /\ Here
      /\ Len(findings) \in Nat /\ DOMAIN findings = 1..Len(findings)
      /\ findings = <<>> <=> Len(findings) = 0
      /\ run.pc # "idle" => status # "COMPLETED"
  BY List DEF LoopInv, LocalsInv, InRound, ChainInv, TableInv, FindingsInv, UnconfirmedInv
<1>1. IsFiniteSet(Unconfirmed) /\ Cardinality(Unconfirmed) \in Nat
  <2>1. IsFiniteSet(1..Len(findings)) /\ Unconfirmed \subseteq 1..Len(findings)
    BY <1>0, FS_Interval DEF Unconfirmed
  <2> QED
    BY <2>1, FS_Subset, FS_CardinalityType
<1>2. findings' = findings => Unconfirmed' = Unconfirmed /\ Len(findings') = Len(findings)
  BY DEF Unconfirmed
<1>3. CASE UNCHANGED vars \/ Retry \/ HandBack
  <2>1. /\ findings' = findings /\ run' = run /\ runs' = runs /\ unverified' = unverified
        /\ status' = "COMPLETED" => status = "COMPLETED"
    BY <1>3 DEF vars, Retry, HandBack, history
  <2> QED
    BY <1>2, <2>1 DEF UnconfirmedInv
<1>4. CASE Raise \/ Crash
  <2>1. /\ findings' = findings /\ run'.pc = "idle" /\ runs' = runs
        /\ unverified' = unverified /\ status' # "COMPLETED"
    BY <1>0, <1>4 DEF Raise, Crash, At, history, rows, Idle
  <2> QED
    BY <1>2, <2>1 DEF UnconfirmedInv
<1>5. CASE Finish
  <2>1. /\ findings' = findings /\ run'.pc = "idle" /\ runs' = runs
        /\ unverified' = unverified /\ run.pc = "round"
    BY <1>5 DEF Finish, At, history, Idle
  <2> QED
    BY <1>2, <2>1 DEF UnconfirmedInv
<1>6. CASE Begin
  <2>1. /\ findings' = findings /\ run'.pc = "round" /\ runs' = runs + 1
        /\ unverified' = unverified
    BY <1>6 DEF Begin, Idle
  <2> QED
    BY <1>0, <1>1, <1>2, <2>1 DEF UnconfirmedInv
<1>7. CASE ResumeRound \/ Generate \/ Execute \/ GiveUp \/ Mutate \/ (Evaluate /\ Blocked)
  <2>0. findings' = findings /\ runs' = runs /\ unverified' = unverified /\ status' = status
    BY <1>7 DEF ResumeRound, Generate, Execute, GiveUp, Mutate, Evaluate, Blocked, rows, history
  <2>1. run.pc \notin {"idle", "verify"}
    BY <1>7 DEF ResumeRound, Generate, Execute, GiveUp, Mutate, Evaluate, At
  <2>2. run'.pc \notin {"idle", "verify"}
    <3>1. CASE ResumeRound \/ Execute \/ GiveUp \/ (Evaluate /\ Blocked)
      BY <1>0, <3>1
         DEF ResumeRound, Execute, GiveUp, NextRound, Evaluate, Blocked, GoTo, IsRun
    <3>2. CASE Generate \/ Mutate
      BY <1>0, <3>2 DEF Generate, Mutate, Insert, NextRound, Tried, IsRun
    <3> QED
      BY <1>7, <3>1, <3>2
  <2> QED
    BY <1>2, <2>0, <2>1, <2>2 DEF UnconfirmedInv
<1>8. CASE Evaluate /\ \E severity \in Severities : Jailbreak(severity)
  <2>1. PICK severity \in Severities :
          /\ findings' = Append(findings, Finding(run.current, severity))
          /\ run' = [run EXCEPT !.pc = "verify", !.scores[run.strategy] = @ + 1]
    BY <1>8 DEF Jailbreak
  <2>2. /\ run.pc = "evaluate" /\ runs' = runs /\ unverified' = unverified /\ status' = status
    BY <1>8 DEF Evaluate, At, Jailbreak
  <2>3. run'.pc = "verify"
    BY <1>0, <2>1 DEF IsRun
  <2>4. /\ Len(findings') = Len(findings) + 1
        /\ DOMAIN findings' = DOMAIN findings \cup {Len(findings) + 1}
        /\ \A k \in DOMAIN findings : findings'[k] = findings[k]
    <3>1. PICK S : findings \in Seq(S)
      BY <1>0 DEF IsList
    <3>2. PICK new : new = Finding(run.current, severity)
      OBVIOUS
    <3>3. findings \in Seq(S \cup {new}) /\ findings' = Append(findings, new)
      BY <2>1, <3>1, <3>2
    <3> QED
      BY <1>0, <3>3
  <2>5. PICK U, x : U = Unconfirmed' /\ x = Len(findings')
    OBVIOUS
  <2>6. U \subseteq Unconfirmed \cup {x} /\ U \ {x} \subseteq Unconfirmed
    BY <2>4, <2>5 DEF Unconfirmed
  <2>7. /\ Cardinality(U) \in Nat /\ Cardinality(U) <= Cardinality(Unconfirmed) + 1
        /\ Cardinality(U \ {x}) \in Nat /\ Cardinality(U \ {x}) <= Cardinality(Unconfirmed)
    BY <1>1, <2>6, Grows, Fewer
  <2>8. Cardinality(Unconfirmed) + 1 <= unverified + runs
    BY <2>2 DEF UnconfirmedInv
  <2>9. /\ Cardinality(U) <= unverified + runs
        /\ Cardinality(U \ {x}) + 1 <= unverified + runs
    BY <1>0, <1>1, <2>7, <2>8
  <2> QED
    BY <1>0, <2>2, <2>3, <2>5, <2>9 DEF UnconfirmedInv
<1>9. CASE Verify
  <2>1. run.pc = "verify" /\ run'.pc = "round" /\ runs' = runs /\ status' = status
    BY <1>0, <1>9 DEF Verify, At, NextRound, IsRun
  <2>2. Cardinality(Unconfirmed \ {Len(findings)}) + 1 <= unverified + runs
    BY <2>1 DEF UnconfirmedInv
  <2>3. CASE unverified' = unverified + 1 /\ findings' = findings
    BY <1>0, <1>1, <1>2, <2>1, <2>3 DEF UnconfirmedInv
  <2>4. CASE /\ \E verdict \in VerifiedStatus :
                   findings' = [findings EXCEPT ![Len(findings)].status = verdict]
             /\ unverified' = unverified
    <3>1. PICK k \in DOMAIN findings : k = Len(findings)
      BY <1>0, <2>1 DEF Here
    <3>2. PICK verdict \in VerifiedStatus :
            findings' = [findings EXCEPT ![k].status = verdict]
      BY <2>4, <3>1
    <3>3. attacks' = attacks /\ graded' = graded
      BY <1>9 DEF Verify
    <3>4. /\ DOMAIN findings' = DOMAIN findings
          /\ \A j \in DOMAIN findings : j # k => findings'[j] = findings[j]
          /\ findings'[k].status = verdict
      BY <3>2, <3>3, JudgedKeeps
    <3>5. PICK U : U = Unconfirmed'
      OBVIOUS
    <3>6. U \subseteq Unconfirmed \ {Len(findings)}
      BY <3>1, <3>4, <3>5, RoundsConstants DEF Unconfirmed
    <3>7. IsFiniteSet(Unconfirmed \ {Len(findings)})
      BY <1>1, FS_Subset
    <3>8. /\ Cardinality(U) \in Nat /\ Cardinality(Unconfirmed \ {Len(findings)}) \in Nat
          /\ Cardinality(U) <= Cardinality(Unconfirmed \ {Len(findings)})
      BY <3>6, <3>7, Fewer
    <3>9. Cardinality(U) + 1 <= unverified + runs
      BY <1>0, <2>2, <3>8
    <3> QED
      BY <1>0, <2>1, <2>4, <3>5, <3>8, <3>9 DEF UnconfirmedInv
  <2> QED
    BY <1>9, <2>3, <2>4 DEF Verify
<1>10. CASE Reverify
  <2>1. PICK k \in DOMAIN findings, verdict \in VerifiedStatus :
          findings' = [findings EXCEPT ![k].status = verdict]
    BY <1>10 DEF Reverify
  <2>2. /\ attacks' = attacks /\ graded' = graded /\ run' = run /\ runs' = runs
        /\ status' = status /\ unverified' = unverified
    BY <1>10 DEF Reverify, history
  <2>3. /\ DOMAIN findings' = DOMAIN findings /\ Len(findings') = Len(findings)
        /\ \A j \in DOMAIN findings : j # k => findings'[j] = findings[j]
        /\ findings'[k].status = verdict
    BY <2>1, <2>2, JudgedKeeps
  <2>4. PICK U : U = Unconfirmed'
    OBVIOUS
  <2>5. U \subseteq Unconfirmed
    BY <2>3, <2>4, RoundsConstants DEF Unconfirmed
  <2>6. PICK x : x = Len(findings)
    OBVIOUS
  <2>7. /\ Cardinality(U) \in Nat /\ Cardinality(U) <= Cardinality(Unconfirmed)
        /\ Cardinality(U \ {x}) \in Nat /\ Cardinality(Unconfirmed \ {x}) \in Nat
        /\ Cardinality(U \ {x}) <= Cardinality(Unconfirmed \ {x})
    <3>1. IsFiniteSet(Unconfirmed \ {x}) /\ U \ {x} \subseteq Unconfirmed \ {x}
      BY <1>1, <2>5, FS_Subset
    <3> QED
      BY <1>1, <2>5, <3>1, Fewer
  <2>8. /\ Cardinality(U) <= unverified + runs
        /\ Cardinality(Unconfirmed) + 1 <= unverified + runs =>
              Cardinality(U) + 1 <= unverified + runs
        /\ Cardinality(Unconfirmed \ {x}) + 1 <= unverified + runs =>
              Cardinality(U \ {x}) + 1 <= unverified + runs
    BY <1>0, <1>1, <2>7 DEF UnconfirmedInv
  <2> QED
    BY <2>2, <2>3, <2>4, <2>6, <2>8 DEF UnconfirmedInv
<1> QED
  BY <1>3, <1>4, <1>5, <1>6, <1>7, <1>8, <1>9, <1>10
     DEF RoundsNext, LoopStep, Evaluate

\* A finding stays UNCONFIRMED only through a verification that raised or a
\* run that was interrupted before it (campaign.py, run_campaign; verifier.py).
THEOREM UnconfirmedExplainedHolds == RoundsFairSpec => []UnconfirmedExplained
<1>1. RoundsInit => UnconfirmedInv
  <2> SUFFICES ASSUME RoundsInit PROVE UnconfirmedInv
    OBVIOUS
  <2>1. /\ Unconfirmed = {} /\ runs = 0 /\ unverified = 0 /\ run.pc = "idle"
        /\ status = "PENDING"
    BY DEF RoundsInit, Unconfirmed, Idle
  <2> QED
    BY <2>1, FS_EmptySet DEF UnconfirmedInv
<1>2. LoopInv /\ ChainInv /\ UnconfirmedInv => UnconfirmedExplained
  <2> SUFFICES ASSUME LoopInv, ChainInv, UnconfirmedInv PROVE UnconfirmedExplained
    OBVIOUS
  <2>0. IsList /\ runs \in Nat /\ unverified \in Nat
    BY DEF LoopInv, LocalsInv, ChainInv, TableInv, FindingsInv, UnconfirmedInv
  <2>1. IsFiniteSet(Unconfirmed) /\ Cardinality(Unconfirmed) \in Nat
    <3>1. IsFiniteSet(1..Len(findings)) /\ Unconfirmed \subseteq 1..Len(findings)
      BY <2>0, List, FS_Interval DEF Unconfirmed
    <3> QED
      BY <3>1, FS_Subset, FS_CardinalityType
  <2>2. Cardinality(Unconfirmed) <= unverified + (IF At("verify") THEN runs ELSE Interrupted)
    BY <2>0, <2>1 DEF UnconfirmedInv, Interrupted, At
  <2> QED
    BY <2>2 DEF Unconfirmed, UnconfirmedExplained
<1>3. LoopInv /\ ChainInv /\ UnconfirmedInv /\ [RoundsNext]_vars => UnconfirmedInv'
  BY UnconfirmedStep
<1> QED
  BY <1>1, <1>2, <1>3, ChainHolds, PTL DEF RoundsFairSpec, RoundsSpec

-----------------------------------------------------------------------------
(* The strategies that were tried. *)

TriedFacts ==
    /\ Cardinality(TriedNames) <= Latest /\ TriedNames \subseteq Strategies
    /\ run.pc # "idle" => run.used = TriedNames
    /\ run.pc \notin {"idle", "round"} => run.strategy = attacks[run.current].name
    /\ ExploresFirst
TriedInv == drifted \in Nat /\ (drifted = 0 => TriedFacts)

\* There are as many strategies as entries in the order.
LEMMA StrategiesCounted ==
  /\ IsFiniteSet(Strategies) /\ Cardinality(Strategies) = Len(StrategyOrder)
  /\ Len(StrategyOrder) \in Nat
<1>1. /\ Len(StrategyOrder) \in Nat /\ DOMAIN StrategyOrder = 1..Len(StrategyOrder)
      /\ StrategyOrder \in [1..Len(StrategyOrder) -> Strategies]
  BY RoundsConstants
<1>2. StrategyOrder \in Bijection(1..Len(StrategyOrder), Strategies)
  BY <1>1, RoundsConstants DEF Bijection, Injection, Surjection, IsInjective, Strategies
<1>3. /\ IsFiniteSet(1..Len(StrategyOrder))
      /\ Cardinality(1..Len(StrategyOrder)) = Len(StrategyOrder)
  BY <1>1, FS_Interval
<1> QED
  BY <1>1, <1>2, <1>3, FS_Bijection DEF ExistsBijection

\* While a strategy is left untried in the first rounds, an untried one is
\* selected.
LEMMA SelectsUntried ==
  ASSUME run.used \subseteq Strategies, Cardinality(run.used) < Len(StrategyOrder),
         NEW roll, NEW s \in Selected(roll)
  PROVE  s \notin run.used
<1>1. Untried # {}
  <2>1. ASSUME Untried = {} PROVE FALSE
    <3>1. run.used = Strategies
      BY <2>1 DEF Untried
    <3> QED
      BY <3>1, StrategiesCounted
  <2> QED
    BY <2>1
<1>2. FirstUntried \in Untried
  <2> DEFINE K == {k \in DOMAIN StrategyOrder : StrategyOrder[k] \in Untried}
  <2>1. K \subseteq Nat
    BY RoundsConstants
  <2>2. K # {}
    BY <1>1 DEF Untried, Strategies
  <2>3. PICK k \in K : \A j \in K : k <= j
    <3> HIDE DEF K
    <3> QED
      BY <2>1, <2>2, LeastPosition
  <2>4. Min(K) = k
    <3> HIDE DEF K
    <3> QED
      BY <2>1, <2>3, MinIs
  <2> QED
    BY <2>3, <2>4 DEF FirstUntried
<1>3. Exploring(roll)
  BY <1>1 DEF Exploring
<1>4. s \in Untried
  BY <1>1, <1>2, <1>3 DEF Selected
<1> QED
  BY <1>4 DEF Untried

\* A row that does not drift adds its strategy to those tried.
LEMMA InsertNamed ==
  ASSUME LoopInv, ChainInv, drifted \in Nat, NEW s, NEW parent, NEW r, IsRun(r),
         r.round = run.round, Insert(s, parent, r),
         run.round <= MaxRounds, Latest <= run.round
  PROVE  /\ drifted' \in Nat
         /\ drifted' = 0 => /\ drifted = 0 /\ TriedNames' = TriedNames \cup {s}
                            /\ attacks'[run'.current].name = s
         /\ run'.strategy = s /\ run'.used = r.used /\ run'.pc = "execute"
         /\ Latest' = run.round /\ Ids' = Ids \cup {Len(attacks) + 1}
         /\ Len(attacks) + 1 \notin Ids /\ \A i \in Ids : attacks'[i] = attacks[i]
         /\ attacks'[Len(attacks) + 1].round = run.round
         /\ attacks'[Len(attacks) + 1].parent = parent
         /\ drifted' = 0 => attacks'[Len(attacks) + 1].name = s
<1>0. RowsInv /\ run.round \in Nat
  BY DEF LoopInv, LocalsInv
<1>1. PICK round, name :
        /\ round \in Nat /\ round = run.round
        /\ attacks' = Append(attacks, Attack(round, parent, name))
        /\ drifted' = IF name = s THEN drifted ELSE drifted + 1
  BY <1>0 DEF Insert
<1>2. run' = [r EXCEPT !.pc = "execute", !.strategy = s, !.current = Len(attacks) + 1]
  BY DEF Insert
<1>3. /\ run'.strategy = s /\ run'.used = r.used /\ run'.pc = "execute"
      /\ run'.current = Len(attacks) + 1
  BY <1>2 DEF IsRun
<1>4. /\ Latest' = round /\ Ids' = Ids \cup {Len(attacks) + 1}
      /\ Len(attacks) + 1 \notin Ids
      /\ \A i \in Ids : attacks'[i] = attacks[i]
      /\ attacks'[Len(attacks) + 1] = Attack(round, parent, name)
  BY <1>0, <1>1, Inserted
<1>5. /\ attacks'[Len(attacks) + 1].round = round /\ attacks'[Len(attacks) + 1].name = name
      /\ attacks'[Len(attacks) + 1].parent = parent
  BY <1>4 DEF Attack
<1>6. TriedNames' = TriedNames \cup {name}
  BY <1>4, <1>5 DEF TriedNames
<1>7. drifted' \in Nat /\ (drifted' = 0 => drifted = 0 /\ name = s)
  BY <1>1
<1> QED
  BY <1>1, <1>3, <1>4, <1>5, <1>6, <1>7

\* Every step keeps what is known of the strategies that were tried.
LEMMA TriedStep ==
  ASSUME LoopInv, ChainInv, TriedInv, [RoundsNext]_vars
  PROVE  TriedInv'
<1>0. /\ RowsInv /\ LocalsInv /\ InRound /\ Lines /\ Here /\ IsRun(run) /\ drifted \in Nat
      /\ Latest \in Nat /\ run.round \in Nat /\ IsFiniteSet(Ids)
      /\ \A i \in Ids : attacks[i].round \in Nat /\ attacks[i].round <= Latest
      /\ Len(StrategyOrder) \in Nat
  BY Positions, Table, StrategiesCounted
     DEF LoopInv, LocalsInv, RowsInv, ChainInv, TableInv, TriedInv
<1>1. ASSUME drifted' = drifted, Ids' = Ids, Latest' = Latest,
             \A i \in Ids : /\ attacks'[i].name = attacks[i].name
                            /\ attacks'[i].round = attacks[i].round
                            /\ attacks'[i].parent = attacks[i].parent,
             drifted = 0 /\ run'.pc # "idle" => run'.used = TriedNames,
             drifted = 0 /\ run'.pc \notin {"idle", "round"} =>
                run'.current \in Ids /\ run'.strategy = attacks[run'.current].name
      PROVE  TriedInv'
  <2>1. TriedNames' = TriedNames
    BY <1>1 DEF TriedNames
  <2>2. Roots' = Roots /\ Roots \subseteq Ids
    BY <1>1 DEF Roots
  <2>3. ASSUME drifted = 0 PROVE ExploresFirst'
    BY <1>1, <2>2, <2>3 DEF TriedInv, TriedFacts, ExploresFirst
  <2>4. ASSUME drifted = 0 PROVE TriedFacts'
    BY <1>1, <2>1, <2>3, <2>4 DEF TriedInv, TriedFacts
  <2> QED
    BY <1>0, <1>1, <2>4 DEF TriedInv
<1>2. UNCHANGED attacks => Ids' = Ids /\ Latest' = Latest
  BY DEF Ids, Latest
<1>3. CASE UNCHANGED vars \/ Retry \/ HandBack \/ Reverify
  <2>1. attacks' = attacks /\ run' = run /\ drifted' = drifted
    BY <1>3 DEF vars, Retry, HandBack, Reverify, history
  <2>2. run.pc \notin {"idle", "round"} => run.current \in Ids
    BY <1>0, Table DEF Here, RowsInv
  <2> QED
    BY <1>1, <1>2, <2>1, <2>2 DEF TriedInv, TriedFacts
<1>4. CASE Raise \/ Crash \/ Finish
  <2>1. attacks' = attacks /\ run'.pc = "idle" /\ drifted' = drifted
    BY <1>4 DEF Raise, Crash, Finish, history, rows, Idle
  <2> QED
    BY <1>1, <1>2, <2>1
<1>5. CASE Begin
  <2>1. attacks' = attacks /\ run'.pc = "round" /\ drifted' = drifted /\ run'.used = TriedNames
    BY <1>5 DEF Begin, Idle
  <2> QED
    BY <1>1, <1>2, <2>1
<1>6. CASE ResumeRound
  <2>1. /\ attacks' = attacks /\ drifted' = drifted /\ run.pc = "round" /\ run.resume # 0
        /\ run' = [run EXCEPT !.pc = "evaluate", !.current = run.resume, !.resume = 0,
                  !.strategy = attacks[run.resume].name,
                  !.used = @ \cup {attacks[run.resume].name}]
    BY <1>6 DEF ResumeRound, At, rows, history
  <2>2. /\ run'.current = run.resume /\ run'.strategy = attacks[run.resume].name
        /\ run'.used = run.used \cup {attacks[run.resume].name}
    BY <1>0, <2>1 DEF IsRun
  <2>3. run.resume \in Ids
    BY <1>0, <2>1, Table DEF Here, Open, RowsInv
  <2>4. drifted = 0 => run.used = TriedNames
    BY <2>1 DEF TriedInv, TriedFacts
  <2>5. drifted = 0 => run'.used = TriedNames
    BY <2>2, <2>3, <2>4 DEF TriedNames
  <2> QED
    BY <1>1, <1>2, <2>1, <2>2, <2>3, <2>5
<1>7. CASE Evaluate \/ Verify \/ GiveUp \/ (Mutate /\ run' = NextRound(Tried) /\ attacks' = attacks)
  <2>1. attacks' = attacks
    BY <1>7 DEF Evaluate, Blocked, Jailbreak, Verify, GiveUp, rows
  <2>2. drifted' = drifted
    <3>1. CASE Mutate /\ attacks' = attacks
      <4>1. PICK S : attacks \in Seq(S)
        BY <1>0 DEF RowsInv, IsTable
      <4>2. \A x : Append(attacks, x) # attacks
        <5> SUFFICES ASSUME NEW x PROVE Append(attacks, x) # attacks
          OBVIOUS
        <5>1. attacks \in Seq(S \cup {x})
          BY <4>1
        <5>2. Len(Append(attacks, x)) = Len(attacks) + 1 /\ Len(attacks) \in Nat
          BY <5>1
        <5> QED
          BY <5>2
      <4> QED
        BY <3>1, <4>2 DEF Mutate, Insert
    <3> QED
      BY <1>7, <3>1 DEF Evaluate, Verify, GiveUp, history
  <2>3. run.pc \in {"evaluate", "verify", "mutate"}
    BY <1>7 DEF Evaluate, Verify, GiveUp, Mutate, At
  <2>4. /\ run'.used = run.used /\ run'.strategy = run.strategy
        /\ run'.current = run.current
    <3>1. CASE Evaluate
      <4>1. \/ run' = [run EXCEPT !.pc = "mutate"]
            \/ run' = [run EXCEPT !.pc = "verify", !.scores[run.strategy] = @ + 1]
        BY <3>1 DEF Evaluate, Blocked, Jailbreak, GoTo
      <4> QED
        BY <1>0, <4>1 DEF IsRun
    <3>2. CASE Verify \/ GiveUp
      BY <1>0, <3>2 DEF Verify, GiveUp, NextRound, IsRun
    <3>3. CASE run' = NextRound(Tried)
      BY <1>0, <3>3 DEF NextRound, Tried, IsRun
    <3> QED
      BY <1>7, <3>1, <3>2, <3>3
  <2>5. run.current \in Ids
    BY <1>0, <2>3, Table DEF Here, RowsInv
  <2> QED
    BY <1>1, <1>2, <2>1, <2>2, <2>3, <2>4, <2>5 DEF TriedInv, TriedFacts
<1>8. CASE Execute
  <2>1. PICK c \in Ids, reply \in Replies :
          /\ c = run.current /\ attacks[c].results = <<>>
          /\ attacks' = [attacks EXCEPT ![c].results = Append(@, reply)]
    BY <1>8 DEF Execute, At, Unsent, LoopInv
  <2>2. run' = [run EXCEPT !.pc = "evaluate"] /\ run.pc = "execute" /\ drifted' = drifted
    BY <1>8 DEF Execute, At, GoTo, history
  <2>3. /\ Ids' = Ids /\ Latest' = Latest
        /\ \A i \in Ids : /\ attacks'[i].name = attacks[i].name
                          /\ attacks'[i].round = attacks[i].round
                          /\ attacks'[i].parent = attacks[i].parent
    BY <1>0, <2>1, Replied
  <2>4. run'.used = run.used /\ run'.strategy = run.strategy /\ run'.current = run.current
    BY <1>0, <2>2 DEF IsRun
  <2> QED
    BY <1>1, <2>1, <2>2, <2>3, <2>4 DEF TriedInv, TriedFacts
<1>9. ASSUME Mutate, Insert(run.strategy, run.current, Tried) PROVE TriedInv'
  <2>1. PICK s, c, r : s = run.strategy /\ c = run.current /\ r = Tried
    OBVIOUS
  <2>2. Insert(s, c, r) /\ IsRun(r) /\ r.round = run.round /\ r.used = run.used
    BY <1>0, <1>9, <2>1 DEF Insert, IsRun, Tried
  <2>3. run.pc = "mutate"
    BY <1>9 DEF Mutate, At
  <2>4. run.round = Latest /\ run.round <= MaxRounds /\ Latest <= run.round
    BY <1>0, <2>3, LastRoundIsLatest DEF InRound
  <2>5. run.current \in Ids
    BY <1>0, <2>3, Table DEF Here, RowsInv
  <2>6. /\ drifted' \in Nat
        /\ drifted' = 0 => /\ drifted = 0 /\ TriedNames' = TriedNames \cup {s}
                           /\ attacks'[run'.current].name = s
        /\ run'.strategy = s /\ run'.used = r.used
        /\ Latest' = run.round /\ Ids' = Ids \cup {Len(attacks) + 1}
        /\ \A i \in Ids : attacks'[i] = attacks[i]
        /\ attacks'[Len(attacks) + 1].parent = c
    BY <1>0, <2>2, <2>4, InsertNamed
  <2>7. ASSUME drifted' = 0 PROVE TriedFacts'
    <3>1. s = attacks[run.current].name /\ run.used = TriedNames /\ drifted = 0
      BY <2>1, <2>3, <2>6, <2>7 DEF TriedInv, TriedFacts
    <3>2. TriedNames' = TriedNames
      BY <2>5, <2>6, <2>7, <3>1 DEF TriedNames
    <3>3. c # 0
      BY <1>0, <2>1, <2>5, Positions
    <3>4. Roots' = Roots
      BY <2>6, <3>3 DEF Roots
    <3>5. ExploresFirst'
      BY <2>6, <3>1, <3>4 DEF TriedInv, TriedFacts, ExploresFirst, Roots
    <3> QED
      BY <2>2, <2>4, <2>6, <2>7, <3>1, <3>2, <3>5 DEF TriedInv, TriedFacts
  <2> QED
    BY <2>6, <2>7 DEF TriedInv
<1>10. CASE Generate
  <2>1. PICK roll, s : s \in Selected(roll) /\ Insert(s, 0, [run EXCEPT !.used = @ \cup {s}])
    BY <1>10 DEF Generate
  <2>2. PICK r : r = [run EXCEPT !.used = @ \cup {s}]
    OBVIOUS
  <2>3. Insert(s, 0, r) /\ IsRun(r) /\ r.round = run.round /\ r.used = run.used \cup {s}
    BY <1>0, <2>1, <2>2 DEF Insert, IsRun
  <2>4. run.pc = "round" /\ run.resume = 0 /\ run.round <= MaxRounds
    BY <1>10 DEF Generate, At
  <2>5. run.round = Latest + 1 /\ Latest <= run.round
    BY <1>0, <2>4 DEF Here
  <2>6. s \in Strategies
    BY <2>1, SelectedStrategies
  <2>7. PICK n : n = Len(attacks) + 1
    OBVIOUS
  <2>8. /\ drifted' \in Nat
        /\ drifted' = 0 => /\ drifted = 0 /\ TriedNames' = TriedNames \cup {s}
                           /\ attacks'[run'.current].name = s
                           /\ attacks'[n].name = s
        /\ run'.strategy = s /\ run'.used = r.used
        /\ Latest' = run.round /\ Ids' = Ids \cup {n}
        /\ \A i \in Ids : attacks'[i] = attacks[i]
        /\ attacks'[n].parent = 0 /\ attacks'[n].round = run.round
    BY <1>0, <2>3, <2>4, <2>5, <2>7, InsertNamed
  <2>9. ASSUME drifted' = 0 PROVE TriedFacts'
    <3>1. drifted = 0 /\ run.used = TriedNames /\ TriedFacts
      BY <2>4, <2>8, <2>9 DEF TriedInv, TriedFacts
    <3>2. TriedNames' = TriedNames \cup {s} /\ run'.used = TriedNames'
      BY <2>3, <2>8, <2>9, <3>1
    <3>3. Cardinality(TriedNames') <= Latest'
      <4>1. IsFiniteSet(TriedNames) /\ Cardinality(TriedNames) \in Nat
        BY <3>1, StrategiesCounted, FS_Subset, FS_CardinalityType DEF TriedFacts
      <4>2. PICK T : T = TriedNames'
        OBVIOUS
      <4>3. Cardinality(T) \in Nat /\ Cardinality(T) <= Cardinality(TriedNames) + 1
        BY <3>2, <4>1, <4>2, Grows
      <4>4. Cardinality(TriedNames) <= Latest
        BY <3>1 DEF TriedFacts
      <4> QED
        BY <1>0, <2>5, <2>8, <4>1, <4>2, <4>3, <4>4
    <3>4. TriedNames' \subseteq Strategies
      BY <2>6, <3>1, <3>2 DEF TriedFacts
    <3>5. ASSUME run.round <= Len(StrategyOrder) PROVE s \notin TriedNames
      <4>1. IsFiniteSet(TriedNames) /\ Cardinality(TriedNames) \in Nat
        BY <3>1, StrategiesCounted, FS_Subset, FS_CardinalityType DEF TriedFacts
      <4>2. Cardinality(TriedNames) <= Latest /\ TriedNames \subseteq Strategies
        BY <3>1 DEF TriedFacts
      <4>3. Cardinality(run.used) < Len(StrategyOrder)
        BY <1>0, <2>5, <3>1, <3>5, <4>1, <4>2
      <4> QED
        BY <2>1, <3>1, <4>2, <4>3, SelectsUntried
    <3>6. Roots' = Roots \cup {n} /\ Roots \subseteq Ids
      BY <2>8 DEF Roots
    <3>7. \A i \in Roots : attacks[i].name = s => run.round > Len(StrategyOrder)
      BY <1>0, <3>5, <3>6 DEF TriedNames
    <3>8. ExploresFirst'
      <4>1. \A i, j \in Roots :
               i # j /\ attacks[i].name = attacks[j].name =>
                  attacks[i].round > Len(StrategyOrder) \/ attacks[j].round > Len(StrategyOrder)
        BY <3>1 DEF TriedFacts, ExploresFirst
      <4> QED
        BY <2>8, <2>9, <3>6, <3>7, <4>1 DEF ExploresFirst
    <3> QED
      BY <2>8, <2>9, <3>2, <3>3, <3>4, <3>8 DEF TriedFacts
  <2> QED
    BY <2>8, <2>9 DEF TriedInv
<1> QED
  BY <1>3, <1>4, <1>5, <1>6, <1>7, <1>8, <1>9, <1>10 DEF RoundsNext, LoopStep, Mutate

\* While payloads keep the name they were asked for, every strategy is planned
\* before one is planned again, also by the runs that resume (campaign.py,
\* _select_strategy).
THEOREM ExploresFirstHolds == RoundsFairSpec => []ExploresFirst
<1>1. RoundsInit => TriedInv
  <2> SUFFICES ASSUME RoundsInit PROVE TriedInv
    OBVIOUS
  <2>1. /\ TriedNames = {} /\ Roots = {} /\ Latest = 0 /\ drifted = 0 /\ run.pc = "idle"
    BY DEF RoundsInit, TriedNames, Roots, Ids, Latest, Idle
  <2> QED
    BY <2>1, FS_EmptySet DEF TriedInv, TriedFacts, ExploresFirst
<1>2. TriedInv => ExploresFirst
  BY DEF TriedInv, TriedFacts, ExploresFirst
<1>3. LoopInv /\ ChainInv /\ TriedInv /\ [RoundsNext]_vars => TriedInv'
  BY TriedStep
<1> QED
  BY <1>1, <1>2, <1>3, ChainHolds, PTL DEF RoundsFairSpec, RoundsSpec

-----------------------------------------------------------------------------
(* What the target is sent. *)

\* The rows of a round up to one of them.
Opening(i) == Min(Round(attacks[i].round))
Upto(i) == [k \in 1..(i - Opening(i) + 1) |-> Opening(i) + k - 1]
\* What load_conversation_lineage follows, for the rows up to i.
Ascends(i, g) == g = [j \in 0..i |-> IF j = 0 THEN <<>> ELSE Append(g[attacks[j].parent], j)]

\* A row opens its round, or is the one mutation of the row before it.
LEMMA OpeningOfRound ==
  ASSUME RowsInv, Lines, NEW i \in Ids
  PROVE  /\ Opening(i) \in Ids /\ Opening(i) <= i
         /\ attacks[i].parent = 0 => Opening(i) = i
         /\ attacks[i].parent # 0 => /\ attacks[i].parent = i - 1 /\ i - 1 \in Ids
                                     /\ Opening(i - 1) = Opening(i) /\ Opening(i) < i
         /\ \A j \in Opening(i)..i : j \in Round(attacks[i].round)
<1>0. /\ Ids = 1..Len(attacks) /\ Len(attacks) \in Nat /\ Latest \in Nat
      /\ attacks[i].round \in Nat /\ 1 <= attacks[i].round /\ attacks[i].round <= Latest
  BY Positions
<1>1. PICK f, l : /\ f \in Ids /\ l \in Ids /\ f <= l /\ Round(attacks[i].round) = f..l
                  /\ Round(attacks[i].round) \cap Roots = {f}
                  /\ Min(Round(attacks[i].round)) = f
  BY <1>0, Blocks
<1>2. i \in Round(attacks[i].round) /\ Opening(i) = f
  BY <1>1 DEF Round, Opening
<1>3. f <= i /\ i <= l
  BY <1>1, <1>2
<1>4. attacks[i].parent = 0 => f = i
  BY <1>1, <1>2 DEF Roots
<1>5. ASSUME attacks[i].parent # 0
      PROVE  attacks[i].parent = i - 1 /\ i - 1 \in Ids /\ Opening(i - 1) = f /\ f < i
  <2>1. /\ i > 1 /\ attacks[i].parent = i - 1
        /\ attacks[i].round = attacks[i - 1].round
    BY <1>5, Positions DEF Turn
  <2>2. f # i
    BY <1>1, <1>5 DEF Roots
  <2> QED
    BY <1>0, <1>1, <1>2, <1>3, <2>1, <2>2 DEF Opening
<1>6. \A j \in f..i : j \in f..l
  BY <1>0, <1>1, <1>3
<1> QED
  BY <1>1, <1>2, <1>3, <1>4, <1>5, <1>6

\* One position after an interval.
LEMMA AppendNext ==
  ASSUME NEW f \in Nat, NEW m \in Nat
  PROVE  Append([k \in 1..m |-> f + k - 1], f + m) = [k \in 1..(m + 1) |-> f + k - 1]
<1> DEFINE t == [k \in 1..m |-> f + k - 1]
           u == [k \in 1..(m + 1) |-> f + k - 1]
<1>1. t \in Seq(Int) /\ Len(t) = m /\ \A k \in 1..m : t[k] = f + k - 1
  BY SMT
<1>2. u \in Seq(Int) /\ Len(u) = m + 1 /\ \A k \in 1..(m + 1) : u[k] = f + k - 1
  BY SMT
<1> HIDE DEF t, u
<1>3. /\ Append(t, f + m) \in Seq(Int) /\ Len(Append(t, f + m)) = m + 1
      /\ \A k \in 1..(m + 1) : Append(t, f + m)[k] = IF k = m + 1 THEN f + m ELSE t[k]
  BY <1>1
<1>4. \A k \in 1..(m + 1) : Append(t, f + m)[k] = u[k]
  BY <1>1, <1>2, <1>3
<1>5. Append(t, f + m) = u
  BY <1>2, <1>3, <1>4, SeqEqual
<1> QED
  BY <1>5 DEF t, u

\* The rows up to i satisfy the equation of load_conversation_lineage.
LEMMA UptoAscends ==
  ASSUME RowsInv, Lines, NEW i \in Ids
  PROVE  Ascends(i, [j \in 0..i |-> IF j = 0 THEN <<>> ELSE Upto(j)])
<1> DEFINE h == [j \in 0..i |-> IF j = 0 THEN <<>> ELSE Upto(j)]
<1>0. Ids = 1..Len(attacks) /\ Len(attacks) \in Nat /\ i \in Nat /\ i >= 1
  BY Positions
<1>1. ASSUME NEW j \in 0..i, j # 0
      PROVE  Upto(j) = Append(h[attacks[j].parent], j)
  <2>0. j \in Ids /\ j \in Nat /\ j <= i /\ Opening(j) \in Nat
    BY <1>0, <1>1, OpeningOfRound
  <2>1. CASE attacks[j].parent = 0
    <3>1. Opening(j) = j /\ h[0] = <<>>
      BY <1>0, <2>0, <2>1, OpeningOfRound
    <3>2. Upto(j) = <<j>>
      BY <2>0, <3>1 DEF Upto
    <3>3. h[attacks[j].parent] = <<>>
      BY <2>1, <3>1
    <3>4. Append(<<>>, j) = <<j>>
      OBVIOUS
    <3> QED
      BY <3>2, <3>3, <3>4
  <2>2. CASE attacks[j].parent # 0
    <3>1. /\ attacks[j].parent = j - 1 /\ j - 1 \in Ids
          /\ Opening(j - 1) = Opening(j) /\ Opening(j) < j
      BY <2>0, <2>2, OpeningOfRound
    <3>2. PICK m \in Nat : m = j - Opening(j)
      BY <2>0, <3>1
    <3>3. j - 1 \in 0..i /\ j - 1 # 0 /\ j - 1 - Opening(j) + 1 = m
      BY <1>0, <2>0, <3>1, <3>2
    <3>4. h[j - 1] = [k \in 1..m |-> Opening(j) + k - 1]
      BY <3>1, <3>3 DEF Upto
    <3>5. Upto(j) = [k \in 1..(m + 1) |-> Opening(j) + k - 1]
      BY <3>2 DEF Upto
    <3>6. Opening(j) + m = j
      BY <2>0, <3>2
    <3>7. Append(h[j - 1], j) = Upto(j)
      BY <2>0, <3>4, <3>5, <3>6, AppendNext
    <3> QED
      BY <3>1, <3>7
  <2> QED
    BY <2>1, <2>2
<1> HIDE DEF h
<1>2. h = [j \in 0..i |-> IF j = 0 THEN <<>> ELSE Upto(j)]
  BY DEF h
<1>3. Ascends(i, h)
  BY <1>1, <1>2 DEF Ascends
<1> QED
  BY <1>2, <1>3

\* Nothing else does.
LEMMA AscendsUnique ==
  ASSUME RowsInv, Lines, NEW i \in Ids, NEW g, NEW h, Ascends(i, g), Ascends(i, h)
  PROVE  g[i] = h[i]
<1>0. Ids = 1..Len(attacks) /\ Len(attacks) \in Nat /\ i \in Nat /\ i >= 1
  BY Positions
<1>1. /\ \A j \in 0..i : g[j] = IF j = 0 THEN <<>> ELSE Append(g[attacks[j].parent], j)
      /\ \A j \in 0..i : h[j] = IF j = 0 THEN <<>> ELSE Append(h[attacks[j].parent], j)
  BY DEF Ascends
<1> DEFINE D == {j \in 0..i : g[j] # h[j]}
<1>2. ASSUME D # {} PROVE FALSE
  <2>1. PICK j \in D : \A k \in D : j <= k
    <3>1. D \subseteq Nat
      BY <1>0
    <3> HIDE DEF D
    <3> QED
      BY <1>2, <3>1, LeastPosition
  <2>2. j # 0 /\ j \in 0..i
    BY <1>0, <1>1, <2>1
  <2>3. attacks[j].parent \in 0..i /\ attacks[j].parent < j
    <3>1. j \in Ids
      BY <1>0, <2>2
    <3> QED
      BY <1>0, <2>2, <3>1, OpeningOfRound
  <2>4. g[attacks[j].parent] = h[attacks[j].parent]
    BY <1>0, <2>1, <2>2, <2>3
  <2> QED
    BY <1>1, <2>1, <2>2, <2>4
<1> QED
  BY <1>0, <1>2

\* load_conversation_lineage returns the rows of the round up to i.
LEMMA LineageIs ==
  ASSUME RowsInv, Lines, NEW i \in Ids
  PROVE  Lineage(i) = Upto(i)
<1>0. Ids = 1..Len(attacks) /\ Len(attacks) \in Nat /\ i \in Nat /\ i >= 1
  BY Positions
<1> DEFINE h == [j \in 0..i |-> IF j = 0 THEN <<>> ELSE Upto(j)]
<1>1. Ascends(i, h) /\ h[i] = Upto(i)
  BY <1>0, UptoAscends
<1>2. Lineage(i) = (CHOOSE g : Ascends(i, g))[i]
  BY DEF Lineage, Ascends
<1> HIDE DEF h
<1>3. Ascends(i, CHOOSE g : Ascends(i, g))
  BY <1>1
<1> QED
  BY <1>1, <1>2, <1>3, AscendsUnique

\* A sequence of messages in which each turn of T is asked once, in order, and
\* those of A are answered at once.
Messages == [role : {"user", "assistant"}, turn : Nat]
InOrder(s) ==
    \A j, k \in DOMAIN s :
        j < k => \/ s[j].turn < s[k].turn
                 \/ s[j].turn = s[k].turn /\ s[j].role = "user" /\ s[k].role = "assistant"
Tells(s, T, A) ==
    /\ s \in Seq(Messages) /\ InOrder(s)
    /\ \A k \in DOMAIN s : s[k].turn \in T /\ (s[k].role = "assistant" => s[k].turn \in A)
    /\ \A j \in T : \E k \in DOMAIN s : s[k].role = "user" /\ s[k].turn = j
    /\ \A j \in A : \E k \in DOMAIN s : s[k].role = "assistant" /\ s[k].turn = j

\* One message more, in order.
LEMMA TellsMore ==
  ASSUME NEW s, NEW T, NEW A, Tells(s, T, A), NEW m \in Messages,
         \A k \in DOMAIN s : \/ s[k].turn < m.turn
                             \/ s[k].turn = m.turn /\ s[k].role = "user" /\ m.role = "assistant"
  PROVE  /\ Append(s, m) \in Seq(Messages) /\ InOrder(Append(s, m))
         /\ Len(Append(s, m)) = Len(s) + 1 /\ Len(s) \in Nat
         /\ DOMAIN s = 1..Len(s) /\ DOMAIN Append(s, m) = 1..(Len(s) + 1)
         /\ \A k \in 1..Len(s) : Append(s, m)[k] = s[k]
         /\ Append(s, m)[Len(s) + 1] = m
<1>1. s \in Seq(Messages) /\ Len(s) \in Nat /\ DOMAIN s = 1..Len(s)
  BY DEF Tells
<1>2. PICK t : t = Append(s, m)
  OBVIOUS
<1>3. /\ t \in Seq(Messages) /\ Len(t) = Len(s) + 1 /\ DOMAIN t = 1..(Len(s) + 1)
      /\ \A k \in 1..Len(s) : t[k] = s[k]
      /\ t[Len(s) + 1] = m
  BY <1>1, <1>2
<1>4. InOrder(t)
  <2> SUFFICES ASSUME NEW j \in DOMAIN t, NEW k \in DOMAIN t, j < k
               PROVE  \/ t[j].turn < t[k].turn
                      \/ t[j].turn = t[k].turn /\ t[j].role = "user" /\ t[k].role = "assistant"
    BY DEF InOrder
  <2>1. j \in DOMAIN s /\ t[j] = s[j]
    BY <1>1, <1>3
  <2>2. CASE k = Len(s) + 1
    BY <1>3, <2>1, <2>2
  <2>3. CASE k # Len(s) + 1
    <3>1. k \in DOMAIN s /\ t[k] = s[k]
      BY <1>1, <1>3, <2>3
    <3> QED
      BY <2>1, <3>1 DEF Tells, InOrder
  <2> QED
    BY <2>2, <2>3
<1> QED
  BY <1>1, <1>2, <1>3, <1>4

\* One turn more that is asked.
LEMMA TellsUser ==
  ASSUME NEW s, NEW T, NEW A, Tells(s, T, A), NEW j \in Nat, \A x \in T : x < j
  PROVE  Tells(Append(s, [role |-> "user", turn |-> j]), T \cup {j}, A)
<1>1. PICK m : m = [role |-> "user", turn |-> j]
  OBVIOUS
<1>2. m \in Messages /\ m.role = "user" /\ m.turn = j
  BY <1>1 DEF Messages
<1>3. PICK t : t = Append(s, m)
  OBVIOUS
<1>4. /\ t \in Seq(Messages) /\ InOrder(t) /\ Len(s) \in Nat
      /\ DOMAIN s = 1..Len(s) /\ DOMAIN t = 1..(Len(s) + 1)
      /\ \A k \in 1..Len(s) : t[k] = s[k]
      /\ t[Len(s) + 1] = m
  <2>1. \A k \in DOMAIN s : s[k].turn < m.turn
    BY <1>2 DEF Tells
  <2> QED
    BY <1>2, <1>3, <2>1, TellsMore
<1>5. \A k \in DOMAIN t : k \in DOMAIN s \/ k = Len(s) + 1
  BY <1>4
<1>6. \A k \in DOMAIN t : /\ t[k].turn \in T \cup {j}
                          /\ t[k].role = "assistant" => t[k].turn \in A
  BY <1>2, <1>4, <1>5 DEF Tells
<1>7. Len(s) + 1 \in DOMAIN t /\ \A k \in DOMAIN s : k \in DOMAIN t /\ t[k] = s[k]
  BY <1>4
<1>8. \A i \in T \cup {j} : \E k \in DOMAIN t : t[k].role = "user" /\ t[k].turn = i
  BY <1>2, <1>4, <1>7 DEF Tells
<1>9. \A i \in A : \E k \in DOMAIN t : t[k].role = "assistant" /\ t[k].turn = i
  BY <1>7 DEF Tells
<1> QED
  BY <1>1, <1>3, <1>4, <1>6, <1>8, <1>9 DEF Tells

\* The answer to the last turn.
LEMMA TellsAssistant ==
  ASSUME NEW s, NEW T, NEW A, Tells(s, T, A), NEW j \in T, j \in Nat, j \notin A,
         \A x \in T : x = j \/ x < j
  PROVE  Tells(Append(s, [role |-> "assistant", turn |-> j]), T, A \cup {j})
<1>1. PICK m : m = [role |-> "assistant", turn |-> j]
  OBVIOUS
<1>2. m \in Messages /\ m.role = "assistant" /\ m.turn = j
  BY <1>1 DEF Messages
<1>3. PICK t : t = Append(s, m)
  OBVIOUS
<1>4. /\ t \in Seq(Messages) /\ InOrder(t) /\ Len(s) \in Nat
      /\ DOMAIN s = 1..Len(s) /\ DOMAIN t = 1..(Len(s) + 1)
      /\ \A k \in 1..Len(s) : t[k] = s[k]
      /\ t[Len(s) + 1] = m
  <2>1. \A k \in DOMAIN s : s[k] \in Messages
    BY DEF Tells
  <2>2. \A k \in DOMAIN s : s[k].turn = j => s[k].role = "user"
    BY <2>1 DEF Tells, Messages
  <2>3. \A k \in DOMAIN s : s[k].turn = j \/ s[k].turn < j
    BY DEF Tells
  <2>4. \A k \in DOMAIN s : \/ s[k].turn < m.turn
                            \/ s[k].turn = m.turn /\ s[k].role = "user" /\ m.role = "assistant"
    BY <1>2, <2>2, <2>3
  <2> QED
    BY <1>2, <1>3, <2>4, TellsMore
<1>5. \A k \in DOMAIN t : k \in DOMAIN s \/ k = Len(s) + 1
  BY <1>4
<1>6. \A k \in DOMAIN t : /\ t[k].turn \in T
                          /\ t[k].role = "assistant" => t[k].turn \in A \cup {j}
  BY <1>2, <1>4, <1>5 DEF Tells
<1>7. Len(s) + 1 \in DOMAIN t /\ \A k \in DOMAIN s : k \in DOMAIN t /\ t[k] = s[k]
  BY <1>4
<1>8. \A i \in T : \E k \in DOMAIN t : t[k].role = "user" /\ t[k].turn = i
  BY <1>7 DEF Tells
<1>9. \A i \in A \cup {j} : \E k \in DOMAIN t : t[k].role = "assistant" /\ t[k].turn = i
  BY <1>2, <1>4, <1>7 DEF Tells
<1> QED
  BY <1>1, <1>3, <1>4, <1>6, <1>8, <1>9 DEF Tells

\* The messages of one turn, and of the turns of a round up to one.
TurnMessages(i, j) == IF j # i /\ Answered(j)
                      THEN <<[role |-> "user", turn |-> j], [role |-> "assistant", turn |-> j]>>
                      ELSE <<[role |-> "user", turn |-> j]>>
AnsweredBefore(i, T) == {j \in T : j # i /\ Answered(j)}
\* What FlattenSeq computes along a sequence of sequences.
Flat(t, n, h) == h = [k \in 1..n |-> IF k = 1 THEN t[k] ELSE h[k - 1] \o t[k]]

\* The messages of a turn tell it, with its answer if it has one.
LEMMA TurnTells ==
  ASSUME NEW s, NEW T, NEW i, Tells(s, T, AnsweredBefore(i, T)), NEW j \in Nat,
         \A x \in T : x < j
  PROVE  Tells(s \o TurnMessages(i, j), T \cup {j}, AnsweredBefore(i, T \cup {j}))
<1>1. PICK u, a : u = [role |-> "user", turn |-> j] /\ a = [role |-> "assistant", turn |-> j]
  OBVIOUS
<1>2. u \in Messages /\ a \in Messages /\ s \in Seq(Messages)
  BY <1>1 DEF Messages, Tells
<1>3. Tells(Append(s, u), T \cup {j}, AnsweredBefore(i, T))
  BY <1>1, TellsUser
<1>4. CASE ~(j # i /\ Answered(j))
  <2>1. TurnMessages(i, j) = <<u>>
    BY <1>1, <1>4 DEF TurnMessages
  <2>2. AnsweredBefore(i, T \cup {j}) = AnsweredBefore(i, T)
    BY <1>4 DEF AnsweredBefore
  <2>3. s \o <<u>> = Append(s, u)
    BY <1>2
  <2> QED
    BY <1>3, <2>1, <2>2, <2>3
<1>5. CASE j # i /\ Answered(j)
  <2>1. TurnMessages(i, j) = <<u, a>>
    BY <1>1, <1>5 DEF TurnMessages
  <2>2. AnsweredBefore(i, T \cup {j}) = AnsweredBefore(i, T) \cup {j}
    BY <1>5 DEF AnsweredBefore
  <2>3. j \notin AnsweredBefore(i, T)
    BY DEF AnsweredBefore
  <2>4. \A x \in T \cup {j} : x = j \/ x < j
    OBVIOUS
  <2>5. Tells(Append(Append(s, u), a), T \cup {j}, AnsweredBefore(i, T) \cup {j})
    BY <1>1, <1>3, <2>3, <2>4, TellsAssistant
  <2>6. s \o <<u, a>> = Append(Append(s, u), a)
    <3>1. /\ s \o <<u, a>> \in Seq(Messages) /\ Append(Append(s, u), a) \in Seq(Messages)
          /\ Len(s \o <<u, a>>) = Len(s) + 2 /\ Len(Append(Append(s, u), a)) = Len(s) + 2
      BY <1>2
    <3>2. ASSUME NEW k \in 1..(Len(s) + 2)
          PROVE  (s \o <<u, a>>)[k] = Append(Append(s, u), a)[k]
      BY <1>2, <3>2
    <3> QED
      BY <3>1, <3>2, SeqEqual
  <2> QED
    BY <2>1, <2>2, <2>5, <2>6
<1> QED
  BY <1>4, <1>5

\* The equation of FlattenSeq has a solution.
LEMMA FlatExists ==
  ASSUME NEW t, NEW n \in Nat
  PROVE  \E h : Flat(t, n, h)
<1> DEFINE N == {m \in Nat : ~\E h : Flat(t, m, h)}
<1>1. ASSUME N # {} PROVE FALSE
  <2>1. PICK m \in N : \A l \in N : m <= l
    <3>1. N \subseteq Nat
      OBVIOUS
    <3> HIDE DEF N
    <3> QED
      BY <1>1, <3>1, LeastPosition
  <2>2. CASE m = 0
    <3> DEFINE h == [k \in 1..0 |-> t[k]]
    <3>1. Flat(t, 0, h)
      BY DEF Flat
    <3> HIDE DEF h
    <3> QED
      BY <2>1, <2>2, <3>1
  <2>3. CASE m # 0
    <3>1. m - 1 \in Nat /\ m - 1 \notin N
      BY <2>1, <2>3
    <3>2. PICK p : Flat(t, m - 1, p)
      BY <3>1
    <3>3. \A k \in 1..(m - 1) : p[k] = IF k = 1 THEN t[k] ELSE p[k - 1] \o t[k]
      BY <3>2 DEF Flat
    <3> DEFINE last == IF m = 1 THEN t[1] ELSE p[m - 1] \o t[m]
               h == [k \in 1..m |-> IF k = m THEN last ELSE p[k]]
    <3>0. m \in 1..m /\ \A k \in 1..(m - 1) : k \in 1..m /\ k # m
      BY <2>1, <2>3
    <3>4. h = [k \in 1..m |-> h[k]] /\ h[m] = last /\ \A k \in 1..(m - 1) : h[k] = p[k]
      <4> HIDE DEF last
      <4> QED
        BY <3>0
    <3> HIDE DEF h
    <3>5. ASSUME NEW k \in 1..m
          PROVE  h[k] = IF k = 1 THEN t[k] ELSE h[k - 1] \o t[k]
      <4>1. CASE k = m
        <5>1. k # 1 => h[k - 1] = p[k - 1]
          <6>1. k # 1 => k - 1 \in 1..(m - 1) /\ k - 1 = m - 1
            BY <2>1, <4>1
          <6> QED
            BY <3>4, <6>1
        <5> QED
          BY <3>4, <4>1, <5>1
      <4>2. CASE k # m
        <5>1. k \in 1..(m - 1) /\ (k # 1 => k - 1 \in 1..(m - 1))
          BY <2>1, <4>2
        <5> QED
          BY <3>3, <3>4, <5>1
      <4> QED
        BY <4>1, <4>2
    <3>6. Flat(t, m, h)
      BY <3>4, <3>5 DEF Flat
    <3> QED
      BY <2>1, <3>6
  <2> QED
    BY <2>2, <2>3
<1> QED
  BY <1>1

\* build_target_messages tells the turns of the round up to i, with their
\* answers.
LEMMA TargetMessagesTell ==
  ASSUME RowsInv, Lines, NEW i \in Ids
  PROVE  Tells(TargetMessages(i), Opening(i)..i, AnsweredBefore(i, Opening(i)..i))
<1>0. /\ Ids = 1..Len(attacks) /\ Len(attacks) \in Nat
      /\ Opening(i) \in Nat /\ i \in Nat /\ Opening(i) <= i
  BY Positions, OpeningOfRound
<1>1. PICK f, n \in Nat : f = Opening(i) /\ n = i - f + 1 /\ n >= 1 /\ f + n - 1 = i
  BY <1>0
<1> DEFINE t == [k \in 1..n |-> TurnMessages(i, f + k - 1)]
<1>2. TargetMessages(i) = FlattenSeq(t)
  <2>1. Lineage(i) = [k \in 1..n |-> f + k - 1]
    BY <1>1, LineageIs DEF Upto
  <2>2. TargetMessages(i) =
           FlattenSeq([k \in DOMAIN Lineage(i) |-> TurnMessages(i, Lineage(i)[k])])
    BY DEF TargetMessages, TurnMessages
  <2>3. [k \in DOMAIN Lineage(i) |-> TurnMessages(i, Lineage(i)[k])] = t
    BY <2>1
  <2> QED
    BY <2>2, <2>3
<1>3. Len(t) = n /\ \A k \in 1..n : t[k] = TurnMessages(i, f + k - 1)
  OBVIOUS
<1> HIDE DEF t
<1> DEFINE h == CHOOSE h : Flat(t, n, h)
<1>4. FlattenSeq(t) = h[n]
  BY <1>1, <1>3 DEF FlattenSeq, Flat
<1>5. Flat(t, n, h)
  BY FlatExists
<1> HIDE DEF h
<1>6. /\ h[1] = t[1]
      /\ \A k \in 1..n : k # 1 => h[k] = h[k - 1] \o t[k]
  <2>1. \A k \in 1..n : h[k] = IF k = 1 THEN t[k] ELSE h[k - 1] \o t[k]
    BY <1>5 DEF Flat
  <2>2. 1 \in 1..n
    BY <1>1
  <2> QED
    BY <2>1, <2>2
<1> DEFINE Told(k) == Tells(h[k], f..(f + k - 1), AnsweredBefore(i, f..(f + k - 1)))
           D == {k \in 1..n : ~Told(k)}
<1>7. Told(1)
  <2>1. Tells(<<>>, {}, AnsweredBefore(i, {}))
    BY DEF Tells, AnsweredBefore, InOrder
  <2>2. Tells(<<>> \o TurnMessages(i, f), {} \cup {f}, AnsweredBefore(i, {} \cup {f}))
    BY <2>1, TurnTells
  <2>3. <<>> \o TurnMessages(i, f) = TurnMessages(i, f)
    BY DEF TurnMessages
  <2>4. {} \cup {f} = f..f /\ f + 1 - 1 = f
    OBVIOUS
  <2>5. h[1] = TurnMessages(i, f)
    BY <1>1, <1>3, <1>6, <2>4
  <2> QED
    BY <2>2, <2>3, <2>4, <2>5
<1>8. ASSUME NEW k \in 1..n, k # 1, Told(k - 1)
      PROVE  Told(k)
  <2>1. PICK j \in Nat : j = f + k - 1 /\ f + (k - 1) - 1 = j - 1 /\ f <= j
    BY <1>8
  <2>2. Tells(h[k - 1], f..(j - 1), AnsweredBefore(i, f..(j - 1)))
    BY <1>8, <2>1
  <2>3. /\ \A x \in f..(j - 1) : x < j
        /\ (f..(j - 1)) \cup {j} = f..j
    BY <2>1
  <2>4. Tells(h[k - 1] \o TurnMessages(i, j), f..j, AnsweredBefore(i, f..j))
    BY <2>2, <2>3, TurnTells
  <2>5. h[k] = h[k - 1] \o TurnMessages(i, j)
    BY <1>3, <1>6, <1>8, <2>1
  <2> QED
    BY <2>1, <2>4, <2>5
<1>9. ASSUME D # {} PROVE FALSE
  <2>1. PICK k \in D : \A l \in D : k <= l
    <3>1. D \subseteq Nat
      OBVIOUS
    <3> HIDE DEF D
    <3> QED
      BY <1>9, <3>1, LeastPosition
  <2> HIDE DEF Told
  <2>2. k # 1 /\ k \in 1..n
    BY <1>7, <2>1
  <2>3. k - 1 \in 1..n /\ k - 1 \notin D
    BY <2>1, <2>2
  <2>4. Told(k - 1)
    BY <2>3
  <2> QED
    BY <1>8, <2>1, <2>2, <2>4
<1>10. Told(n)
  <2> HIDE DEF Told
  <2> QED
    BY <1>1, <1>9
<1> QED
  BY <1>1, <1>2, <1>4, <1>10

\* The target is sent the whole exchange of the round so far, in order, each
\* turn with its answer, whoever recorded it (conversation.py,
\* build_target_messages; campaign.py, _load_progress).
THEOREM TranscriptCompleteHolds == RoundsFairSpec => []TranscriptComplete
<1>1. LoopInv /\ ChainInv => TranscriptComplete
  <2> SUFFICES ASSUME LoopInv, ChainInv, At("execute") PROVE TranscriptComplete
    BY DEF TranscriptComplete
  <2> DEFINE i == run.current
             sent == TargetMessages(i)
  <2>1. /\ RowsInv /\ Lines /\ i \in Ids /\ i = Len(attacks) /\ attacks # <<>>
        /\ run.round = Latest
    BY DEF LoopInv, ChainInv, TableInv, Here, InRound, Unsent, At
  <2>2. Latest = attacks[i].round
    BY <2>1 DEF Latest
  <2>3. Round(run.round) = Opening(i)..i
    <3>1. Ids = 1..Len(attacks) /\ Len(attacks) \in Nat /\ Opening(i) \in Nat
      BY <2>1, Positions, OpeningOfRound
    <3>2. \A j \in Opening(i)..i : j \in Round(run.round)
      BY <2>1, <2>2, OpeningOfRound
    <3>3. ASSUME NEW j \in Round(run.round) PROVE j \in Opening(i)..i
      <4>1. j \in Ids /\ attacks[j].round = attacks[i].round
        BY <2>1, <2>2 DEF Round
      <4>2. Opening(j) = Opening(i) /\ Opening(j) <= j
        BY <2>1, <4>1, OpeningOfRound DEF Opening
      <4> QED
        BY <2>1, <3>1, <4>1, <4>2
    <3> QED
      BY <3>2, <3>3
  <2>4. Tells(sent, Round(run.round), AnsweredBefore(i, Round(run.round)))
    BY <2>1, <2>3, TargetMessagesTell
  <2> HIDE DEF sent
  <2>5. AnsweredBefore(i, Round(run.round)) = {j \in Round(run.round) \ {i} : Answered(j)}
    BY DEF AnsweredBefore
  <2> DEFINE Said(role) == {m.turn : m \in {x \in Range(sent) : x.role = role}}
  <2>6. \A role : Said(role) = {sent[k].turn : k \in {l \in DOMAIN sent : sent[l].role = role}}
    BY DEF Range
  <2>7. Said("user") = Round(run.round)
    <3>1. \A k \in DOMAIN sent : sent[k].turn \in Round(run.round)
      BY <2>4 DEF Tells
    <3>2. \A j \in Round(run.round) :
             \E k \in DOMAIN sent : sent[k].role = "user" /\ sent[k].turn = j
      BY <2>4 DEF Tells
    <3>3. Said("user") = {sent[k].turn : k \in {l \in DOMAIN sent : sent[l].role = "user"}}
      BY <2>6
    <3>4. \A j : j \in Said("user") =>
             \E k \in DOMAIN sent : sent[k].role = "user" /\ sent[k].turn = j
      BY <3>3
    <3>5. \A k \in DOMAIN sent : sent[k].role = "user" => sent[k].turn \in Said("user")
      BY <3>3
    <3> HIDE DEF Said
    <3> QED
      BY <3>1, <3>2, <3>4, <3>5
  <2>8. Said("assistant") = AnsweredBefore(i, Round(run.round))
    <3>1. \A k \in DOMAIN sent :
             sent[k].role = "assistant" => sent[k].turn \in AnsweredBefore(i, Round(run.round))
      BY <2>4 DEF Tells
    <3>2. \A j \in AnsweredBefore(i, Round(run.round)) :
             \E k \in DOMAIN sent : sent[k].role = "assistant" /\ sent[k].turn = j
      BY <2>4 DEF Tells
    <3>3. Said("assistant")
             = {sent[k].turn : k \in {l \in DOMAIN sent : sent[l].role = "assistant"}}
      BY <2>6
    <3> HIDE DEF Said
    <3> QED
      BY <3>1, <3>2, <3>3
  <2>9. InOrder(sent)
    BY <2>4 DEF Tells
  <2> QED
    BY <2>5, <2>7, <2>8, <2>9 DEF TranscriptComplete, InOrder, sent
<1> QED
  BY <1>1, ChainHolds, PTL

-----------------------------------------------------------------------------
(* Sums over a table, as the report adds its columns up. *)

\* The members that f sends into T.
Into(f, U, T) == {u \in U : f[u] \in T}

\* What MapThenSumSet computes along the subsets of S.
Sums(v, S, h) ==
    h = [T \in SUBSET S |-> IF T = {} THEN 0
                            ELSE LET x == CHOOSE x \in T : TRUE
                                 IN  v[x] + h[T \ {x}]]

\* Counting apart the members that f sends to x.
LEMMA OneOut ==
  ASSUME NEW U, IsFiniteSet(U), NEW f, NEW T, NEW x \in T
  PROVE  /\ Cardinality(Into(f, U, T)) \in Nat
         /\ Cardinality(Into(f, U, T)) =
               Cardinality(Into(f, U, {x})) + Cardinality(Into(f, U, T \ {x}))
<1> DEFINE A == Into(f, U, {x})
           B == Into(f, U, T \ {x})
<1>1. Into(f, U, T) = A \cup B /\ A \cap B = {}
  BY DEF Into
<1>2. A \subseteq U /\ B \subseteq U
  BY DEF Into
<1>3. IsFiniteSet(A) /\ IsFiniteSet(B)
  BY <1>2, FS_Subset
<1> HIDE DEF A, B
<1>4. /\ Cardinality(A) \in Nat /\ Cardinality(B) \in Nat
      /\ Cardinality(A \cup B) = Cardinality(A) + Cardinality(B) - Cardinality(A \cap B)
  BY <1>3, FS_Union, FS_CardinalityType
<1>5. Cardinality(A \cap B) = 0
  BY <1>1, FS_EmptySet
<1>6. Cardinality(A \cup B) = Cardinality(A) + Cardinality(B)
  BY <1>4, <1>5
<1> QED
  BY <1>1, <1>4, <1>6 DEF A, B

\* Counting the members of each part counts them all.
LEMMA SumsCount ==
  ASSUME NEW U, IsFiniteSet(U), NEW f, NEW S, NEW v,
         \A s \in S : v[s] = Cardinality(Into(f, U, {s}))
  PROVE  Sums(v, S, [T \in SUBSET S |-> Cardinality(Into(f, U, T))])
<1> DEFINE c == [T \in SUBSET S |-> Cardinality(Into(f, U, T))]
<1>1. ASSUME NEW T \in SUBSET S, T = {}
      PROVE  c[T] = 0
  <2>1. Into(f, U, T) = {}
    BY <1>1 DEF Into
  <2> QED
    BY <2>1, FS_EmptySet
<1>2. ASSUME NEW T \in SUBSET S, T # {}, NEW x \in T
      PROVE  c[T] = v[x] + c[T \ {x}]
  <2>1. x \in S /\ T \ {x} \in SUBSET S
    OBVIOUS
  <2>2. Cardinality(Into(f, U, T)) =
           Cardinality(Into(f, U, {x})) + Cardinality(Into(f, U, T \ {x}))
    BY OneOut
  <2> QED
    BY <2>1, <2>2
<1>3. c = [T \in SUBSET S |-> c[T]]
  OBVIOUS
<1> HIDE DEF c
<1>4. ASSUME NEW T \in SUBSET S
      PROVE  c[T] = IF T = {} THEN 0
                    ELSE LET x == CHOOSE x \in T : TRUE IN v[x] + c[T \ {x}]
  <2>1. CASE T = {}
    BY <1>1, <2>1
  <2>2. CASE T # {}
    <3>1. (CHOOSE x \in T : TRUE) \in T
      BY <2>2
    <3> QED
      BY <1>2, <2>2, <3>1
  <2> QED
    BY <2>1, <2>2
<1>5. Sums(v, S, c)
  BY <1>3, <1>4 DEF Sums
<1> QED
  BY <1>5 DEF c

\* Only one function adds them up.
LEMMA SumsUnique ==
  ASSUME NEW S, IsFiniteSet(S), NEW v, NEW g, NEW h, Sums(v, S, g), Sums(v, S, h)
  PROVE  g = h
<1>1. /\ g = [T \in SUBSET S |-> g[T]] /\ h = [T \in SUBSET S |-> h[T]]
      /\ \A T \in SUBSET S : g[T] = IF T = {} THEN 0
            ELSE LET x == CHOOSE x \in T : TRUE IN v[x] + g[T \ {x}]
      /\ \A T \in SUBSET S : h[T] = IF T = {} THEN 0
            ELSE LET x == CHOOSE x \in T : TRUE IN v[x] + h[T \ {x}]
  BY DEF Sums
<1> DEFINE D == {T \in SUBSET S : g[T] # h[T]}
           K == {Cardinality(T) : T \in D}
<1>2. ASSUME D # {} PROVE FALSE
  <2>1. \A T \in SUBSET S : IsFiniteSet(T) /\ Cardinality(T) \in Nat
    BY FS_Subset, FS_CardinalityType
  <2>2. K \subseteq Nat /\ K # {}
    BY <1>2, <2>1
  <2>3. PICK k \in K : \A j \in K : k <= j
    <3> HIDE DEF K
    <3> QED
      BY <2>2, LeastPosition
  <2>4. PICK T \in D : Cardinality(T) = k
    BY <2>3
  <2>5. T # {}
    BY <1>1, <2>4
  <2>6. PICK x \in T : x = CHOOSE y \in T : TRUE
    BY <2>5
  <2>7. Cardinality(T \ {x}) = Cardinality(T) - 1
    BY <2>1, <2>4, <2>6, FS_RemoveElement
  <2>8. T \ {x} \notin D
    <3>1. Cardinality(T \ {x}) < k /\ Cardinality(T \ {x}) \in Nat /\ k \in Nat
      BY <2>1, <2>4, <2>7
    <3> QED
      BY <2>3, <3>1
  <2>9. g[T \ {x}] = h[T \ {x}]
    BY <2>4, <2>8
  <2>10. g[T] = v[x] + g[T \ {x}] /\ h[T] = v[x] + h[T \ {x}]
    <3>1. T \in SUBSET S
      BY <2>4
    <3> QED
      BY ONLY <1>1, <2>5, <2>6, <3>1
  <2> QED
    BY <2>4, <2>9, <2>10
<1>3. \A T \in SUBSET S : g[T] = h[T]
  BY <1>2
<1> QED
  BY <1>1, <1>3

\* A column whose entries count the parts of U sums to the size of U.
LEMMA ColumnTotal ==
  ASSUME NEW U, IsFiniteSet(U), NEW f, NEW v, IsFiniteSet(DOMAIN v),
         \A u \in U : f[u] \in DOMAIN v,
         \A s \in DOMAIN v : v[s] = Cardinality({u \in U : f[u] = s})
  PROVE  MapThenSumSet(LAMBDA x : v[x], DOMAIN v) = Cardinality(U)
<1> DEFINE S == DOMAIN v
           c == [T \in SUBSET S |-> Cardinality(Into(f, U, T))]
<1>1. \A s \in S : v[s] = Cardinality(Into(f, U, {s}))
  <2>1. \A s \in S : Into(f, U, {s}) = {u \in U : f[u] = s}
    BY DEF Into
  <2> QED
    BY <2>1
<1>2. Sums(v, S, c)
  BY <1>1, SumsCount
<1>3. (CHOOSE h : Sums(v, S, h)) = c
  <2>1. Sums(v, S, CHOOSE h : Sums(v, S, h))
    BY <1>2
  <2> HIDE DEF S, c
  <2> QED
    BY <1>2, <2>1, SumsUnique DEF S
<1>4. MapThenSumSet(LAMBDA x : v[x], S) = (CHOOSE h : Sums(v, S, h))[S]
  BY DEF MapThenSumSet, MapThenFoldSet, Sums
<1>5. Into(f, U, S) = U
  BY DEF Into
<1> QED
  BY <1>3, <1>4, <1>5

\* Each finding is about an attack of its own.
LEMMA FindingsCount ==
  ASSUME RowsInv, TableInv
  PROVE  /\ IsFiniteSet(DOMAIN findings) /\ Cardinality(DOMAIN findings) = Len(findings)
         /\ IsFiniteSet(Ids) /\ Cardinality(Ids) = Len(attacks)
         /\ IsFiniteSet(Found) /\ Cardinality(Found) = Len(findings)
         /\ Found \subseteq Ids /\ Len(findings) <= Len(attacks)
         /\ Len(findings) \in Nat /\ Len(attacks) \in Nat
<1>1. /\ Len(findings) \in Nat /\ DOMAIN findings = 1..Len(findings)
      /\ Len(attacks) \in Nat /\ Ids = 1..Len(attacks)
  BY List, Positions DEF TableInv, FindingsInv
<1>2. /\ IsFiniteSet(DOMAIN findings) /\ Cardinality(DOMAIN findings) = Len(findings)
      /\ IsFiniteSet(Ids) /\ Cardinality(Ids) = Len(attacks)
  <2>1. \A n \in Nat : IsFiniteSet(1..n) /\ Cardinality(1..n) = n
    BY FS_Interval
  <2> QED
    BY <1>1, <2>1
<1> DEFINE about == [k \in DOMAIN findings |-> findings[k].attack]
<1>3. about \in Bijection(DOMAIN findings, Found)
  <2>1. about \in [DOMAIN findings -> Found]
    BY DEF Found
  <2>2. \A j, k \in DOMAIN findings : about[j] = about[k] => j = k
    BY DEF TableInv, FindingsInv
  <2>3. \A i \in Found : \E k \in DOMAIN findings : about[k] = i
    BY DEF Found
  <2> HIDE DEF about
  <2> QED
    BY <2>1, <2>2, <2>3 DEF Bijection, Injection, Surjection, IsInjective
<1>4. IsFiniteSet(Found) /\ Cardinality(Found) = Len(findings)
  <2> HIDE DEF about
  <2> QED
    BY <1>2, <1>3, FS_Bijection DEF ExistsBijection
<1>5. Found \subseteq Ids
  BY DEF TableInv, FindingsInv, Evidence
<1>6. Cardinality(Found) <= Cardinality(Ids)
  BY <1>2, <1>5, FS_Subset
<1> QED
  BY <1>1, <1>2, <1>4, <1>5, <1>6

\* One counts findings and the other attacks, and both count the same
\* (services/report.py, services/metrics.py; CampaignReports).
THEOREM ReportAgreesWithMetricsHolds == RoundsFairSpec => []ReportAgreesWithMetrics
<1>1. LoopInv /\ ChainInv => ReportAgreesWithMetrics
  <2> SUFFICES ASSUME LoopInv, ChainInv PROVE ReportAgreesWithMetrics
    OBVIOUS
  <2>0. RowsInv /\ TableInv
    BY DEF LoopInv, ChainInv
  <2>1. /\ IsFiniteSet(DOMAIN findings) /\ Cardinality(DOMAIN findings) = Len(findings)
        /\ IsFiniteSet(Ids) /\ Cardinality(Ids) = Len(attacks)
        /\ IsFiniteSet(Found) /\ Cardinality(Found) = Len(findings)
        /\ Found \subseteq Ids /\ Len(findings) <= Len(attacks)
        /\ Len(findings) \in Nat /\ Len(attacks) \in Nat
    BY <2>0, FindingsCount
  <2>2. Report.rate = Metrics.rate /\ Report.rate <= 100
    <3>1. Report.rate = Percent(Len(findings), Len(attacks)) /\ Metrics.rate = Report.rate
      BY <2>1 DEF Report, Metrics
    <3>2. Percent(Len(findings), Len(attacks)) <= 100
      <4>1. PICK n, m \in Nat : n = Len(findings) /\ m = Len(attacks) /\ n <= m
        BY <2>1
      <4>2. m # 0 => (n * 100) \div m <= 100
        BY <4>1
      <4> QED
        BY <4>1, <4>2 DEF Percent
    <3> QED
      BY <3>1, <3>2
  <2> DEFINE named == [i \in Ids |-> attacks[i].name]
             names == {attacks[i].name : i \in Ids}
             successes == [s \in DOMAIN Breakdown |-> Breakdown[s]["successes"]]
             attempts == [s \in DOMAIN Breakdown |-> Breakdown[s]["attempts"]]
             severities == SeverityCounts
             bucket == [k \in DOMAIN findings |-> Bucket(findings[k].severity)]
  <2>3. /\ DOMAIN Breakdown = names
        /\ \A s \in names :
              /\ Breakdown[s]["attempts"] = Cardinality({i \in Ids : named[i] = s})
              /\ Breakdown[s]["successes"] = Cardinality({i \in Found : named[i] = s})
    <3>1. ASSUME NEW s
          PROVE  /\ {i \in Ids : attacks[i].name = s} = {i \in Ids : named[i] = s}
                 /\ {i \in Ids : attacks[i].name = s} \cap Found = {i \in Found : named[i] = s}
      BY <2>1
    <3> HIDE DEF named
    <3> QED
      BY <3>1 DEF Breakdown
  <2>4. IsFiniteSet(names)
    <3>1. named \in Surjection(Ids, names)
      BY DEF Surjection
    <3> QED
      BY <2>1, <3>1, FS_Surjection
  <2>5. MapThenSumSet(LAMBDA x : successes[x], DOMAIN successes) = Cardinality(Found)
    <3>1. DOMAIN successes = names /\ \A i \in Found : named[i] \in names
      BY <2>1, <2>3
    <3>2. \A s \in names : successes[s] = Cardinality({i \in Found : named[i] = s})
      BY <2>3
    <3> HIDE DEF successes, named, names
    <3> QED
      BY <2>1, <2>4, <3>1, <3>2, ColumnTotal
  <2>6. MapThenSumSet(LAMBDA x : attempts[x], DOMAIN attempts) = Cardinality(Ids)
    <3>1. DOMAIN attempts = names /\ \A i \in Ids : named[i] \in names
      BY <2>3
    <3>2. \A s \in names : attempts[s] = Cardinality({i \in Ids : named[i] = s})
      BY <2>3
    <3> HIDE DEF attempts, named, names
    <3> QED
      BY <2>1, <2>4, <3>1, <3>2, ColumnTotal
  <2>7. MapThenSumSet(LAMBDA x : severities[x], DOMAIN severities)
           = Cardinality(DOMAIN findings)
    <3>1. /\ DOMAIN severities = ReportSeverities
          /\ \A s \in ReportSeverities :
                severities[s] = Cardinality({k \in DOMAIN findings : bucket[k] = s})
      <4>1. \A s : {k \in DOMAIN findings : Bucket(findings[k].severity) = s}
                      = {k \in DOMAIN findings : bucket[k] = s}
        OBVIOUS
      <4> HIDE DEF bucket
      <4> QED
        BY <4>1 DEF SeverityCounts
    <3>2. \A k \in DOMAIN findings : bucket[k] \in ReportSeverities
      BY DEF Bucket, ReportSeverities
    <3>3. IsFiniteSet(ReportSeverities)
      <4>1. ReportSeverities = {"CRITICAL"} \cup {"HIGH"} \cup {"MEDIUM"} \cup {"LOW"}
        BY DEF ReportSeverities
      <4> QED
        BY <4>1, FS_Singleton, FS_Union
    <3> DEFINE entries == DOMAIN findings
    <3>4. /\ IsFiniteSet(entries) /\ IsFiniteSet(DOMAIN severities)
          /\ \A k \in entries : bucket[k] \in DOMAIN severities
          /\ \A s \in DOMAIN severities :
                severities[s] = Cardinality({k \in entries : bucket[k] = s})
      <4> HIDE DEF severities, bucket
      <4> QED
        BY <2>1, <3>1, <3>2, <3>3
    <3> HIDE DEF severities, bucket, entries
    <3>5. MapThenSumSet(LAMBDA x : severities[x], DOMAIN severities) = Cardinality(entries)
      BY <3>4, ColumnTotal
    <3> QED
      BY <3>5 DEF entries
  <2> QED
    BY <2>1, <2>2, <2>5, <2>6, <2>7 DEF ReportAgreesWithMetrics, Report, Metrics
<1> QED
  BY <1>1, ChainHolds, PTL
=============================================================================
