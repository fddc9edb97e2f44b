---------------------------- MODULE ProposalProofs ----------------------------
(***************************************************************************)
(* Proofs about the regional proposals.                                    *)
(***************************************************************************)
EXTENDS RegionalProposals, FiniteSetTheorems, SequenceTheorems, WellFoundedInduction, TLAPS

(***************************************************************************)
(* The inductive invariant.                                                *)
(***************************************************************************)
LevelNames == {"low", "orange", "red"}
Stages == HighRisk \X (Nat \ {0})
Statuses == {"pending", "approved", "rejected", "superseded", "withdrawn"}
Rows == [type : ActionTypes, hash : Hashes, stage : Stages, status : Statuses,
         edited : BOOLEAN, flagged : BOOLEAN, born : Nat]
Writes == [row : Nat, base : Rows, to : Rows]
Steps == {"idle", "hazard", "trigger", "planning", "running", "after", "plan", "write",
          "attach", "case", "resolve", "bundle"}
CallRecords ==
  [at : Steps, level : LevelNames, previous : LevelNames \cup {"none"},
   key : (LevelNames \X Nat) \cup {NoKey}, born : Nat, writes : Seq(Seq(Writes)),
   queue : Seq(Nat), decision : {"none", "run", "request", "edit", "approve", "reject", "warn"}]

ProposalTypes ==
  /\ simulation \in [n : Nat, level : LevelNames \cup {"none"}]
  /\ level \in LevelNames
  /\ proposals \in Seq(Rows)
  /\ bundles \in Seq(Nat) /\ Len(bundles) = Len(proposals)
  /\ calls \in [Callers -> CallRecords]
  /\ reconciles \in Nat /\ crashes \in Nat
  /\ interlaced \in BOOLEAN /\ missed \in BOOLEAN

\* What never changes of a proposal.
SameProposal(p, q) ==
  p.type = q.type /\ p.hash = q.hash /\ p.stage = q.stage /\ p.born = q.born

\* A write was made from a row that was pending, and leaves what never changes.
WriteOK(w) ==
  /\ w.row \in 0..Len(proposals)
  /\ w.to.stage \in HighRisk \X (1..simulation.n)
  /\ w.row = New => w.to.status = "pending"
  /\ w.row # New => w.base.status = "pending" /\ SameProposal(w.to, proposals[w.row])

\* The writes of one action: one, or the old proposal settled and a new one created.
GroupOK(g) ==
  /\ Len(g) \in 1..2
  /\ Len(g) = 2 => /\ g[1].row # New /\ g[1].to.status = "superseded"
                   /\ g[2].row = New /\ g[2].to.type = g[1].to.type
  /\ \A k \in DOMAIN g : WriteOK(g[k])
TypeOf(g) == g[1].to.type
Created(g) == g[Len(g)]
Creates(g) == Created(g).row = New

\* What a reconciliation writes of a row: it decides nothing, supersedes no edit
\* within its stage, and withdraws only at a low level.
Reconciles(key, w) ==
  /\ w.to.status \in {"pending", "superseded", "withdrawn"}
  /\ w.to.status = "superseded" /\ w.base.edited => w.base.stage # key
  /\ key = NoKey => w.row # New /\ w.to.status = "withdrawn"

CallOK(t) ==
  LET c == calls[t] IN
  /\ c.at \notin {"write", "attach", "resolve"} => c.writes = <<>>
  /\ \A m \in DOMAIN c.writes : GroupOK(c.writes[m])
  /\ \A n \in DOMAIN c.queue : c.queue[n] \in DOMAIN proposals
  /\ c.at = "plan" => c.key[1] = c.level /\ c.key[2] \in 1..simulation.n
  /\ c.at = "write" =>
       \A m \in DOMAIN c.writes : \A k \in DOMAIN c.writes[m] : Reconciles(c.key, c.writes[m][k])
  /\ c.at = "attach" =>
       /\ c.key # NoKey
       /\ \A m \in DOMAIN c.writes : ~Creates(c.writes[m])
       /\ \A m \in DOMAIN c.writes : \A k \in DOMAIN c.writes[m] :
            c.writes[m][k].to.status = "pending"
  /\ c.at \in {"case", "resolve"} =>
       c.decision \in {"edit", "approve", "reject"} \/ (c.at = "case" /\ c.queue = <<>>)
  /\ c.at = "resolve" =>
       /\ c.queue # <<>> /\ Len(c.writes) = 1 /\ Len(c.writes[1]) = 1
       /\ c.writes[1][1].row = Head(c.queue)
       /\ c.writes[1][1].to = Resolution(c.writes[1][1].base, c.decision)
  /\ c.at = "bundle" =>
       /\ c.queue # <<>> /\ (c.decision = "approve" \/ Tail(c.queue) = <<>>)
       /\ proposals[Head(c.queue)].status = "approved" \/ Head(c.queue) \in clobbered

RowsOK == \A i \in DOMAIN proposals : proposals[i].stage \in HighRisk \X (1..simulation.n)

\* The pending proposals that no stale copy brought back.
Live == Pending \ clobbered
NewestOf(j, type) == j \in OfType(type) /\ \A k \in OfType(type) : Newer(j, k)

\* One reconciliation at a time: its proposals are the newest.
OneReconciles ==
  /\ \A i \in DOMAIN proposals : proposals[i].born <= reconciles
  /\ \A t, u \in Callers : Reconciling(t) /\ Reconciling(u) => t = u
  /\ \A t \in Callers : calls[t].at = "plan" => calls[t].born = reconciles
  /\ \A t \in Callers : \A m \in DOMAIN calls[t].writes :
       Creates(calls[t].writes[m]) => Created(calls[t].writes[m]).to.born = reconciles

\* A live proposal is the newest of its action, and a new one comes after it is settled.
LiveIsNewest == \A i \in Live : NewestOf(i, proposals[i].type)
Alone(ws) ==
  \A m \in DOMAIN ws : Creates(ws[m]) =>
    /\ \A i \in Live : proposals[i].type = TypeOf(ws[m]) => Len(ws[m]) = 2 /\ ws[m][1].row = i
    /\ \A n \in DOMAIN ws : n # m => TypeOf(ws[n]) # TypeOf(ws[m])
CreatedAlone == \A t \in Callers : Alone(calls[t].writes)

\* Whatever is about to be created was not decided in this version and stage.
Answers(p, w) ==
  p.status \in {"approved", "rejected"} /\ p.stage = w.to.stage /\ p.hash = w.to.hash
Unasked(ws) ==
  \A m \in DOMAIN ws : Creates(ws[m]) =>
    \A j \in DOMAIN proposals : NewestOf(j, TypeOf(ws[m])) =>
      IF Len(ws[m]) = 2 THEN j = ws[m][1].row
      ELSE proposals[j].status # "pending" /\ ~Answers(proposals[j], Created(ws[m]))
CreatedUnasked == clobbered = {} => \A t \in Callers : Unasked(calls[t].writes)

\* Unless a level was missed, the reconciliation under way read the present one,
\* and at a low level takes back all that is live.
LevelIsRead ==
  ~missed =>
    /\ \A t \in Callers : calls[t].at = "plan" => calls[t].level = level
    /\ \A t \in Callers : calls[t].at \in {"write", "attach"} /\ calls[t].key # NoKey =>
         level # "low"
    /\ \A t \in Callers : calls[t].at = "write" /\ calls[t].key = NoKey =>
         \A i \in Live : \E m \in DOMAIN calls[t].writes : calls[t].writes[m][1].row = i
    /\ level = "low" /\ (\A t \in Callers : ~Reconciling(t)) => Live = {}

Serial ==
  ~interlaced =>
    OneReconciles /\ LiveIsNewest /\ CreatedAlone /\ CreatedUnasked /\ LevelIsRead

ProposalInv ==
  /\ ProposalTypes
  /\ RowsOK
  /\ \A t \in Callers : CallOK(t)
  /\ ApprovalsAreCarriedOut
  /\ Serial

-----------------------------------------------------------------------------
(***************************************************************************)
(* Sequences of writes, and the newest of some proposals.                  *)
(***************************************************************************)
\* A finite set lists as a sequence that holds each of its elements once.
LEMMA ListedOnce ==
  ASSUME NEW S, IsFiniteSet(S)
  PROVE  /\ SetToSeq(S) \in Seq(S)
         /\ \A x \in S : \E n \in DOMAIN SetToSeq(S) : SetToSeq(S)[n] = x
         /\ \A m, n \in DOMAIN SetToSeq(S) : SetToSeq(S)[m] = SetToSeq(S)[n] => m = n
<1> DEFINE n == Cardinality(S)
           f == SetToSeq(S)
<1>1. n \in Nat /\ ExistsBijection(1..n, S) BY FS_CardinalityType
<1>2. \E g \in [1..n -> S] : IsInjective(g)
  <2>1. PICK g \in Bijection(1..n, S) : TRUE BY <1>1 DEF ExistsBijection
  <2> QED BY <2>1 DEF Bijection, Injection
<1>3. f \in [1..n -> S] /\ IsInjective(f) BY <1>2 DEF SetToSeq
<1>4. f \in Injection(1..n, S) BY <1>3 DEF Injection, IsInjective
<1>5. Cardinality(1..n) = n
  <2>1. Cardinality(1..n) = IF 1 > n THEN 0 ELSE n - 1 + 1 BY <1>1, FS_Interval
  <2> QED BY <2>1, <1>1
<1>6. f \in Surjection(1..n, S) BY <1>4, <1>5, FS_Injection
<1>7. \A x \in S : \E k \in DOMAIN f : f[k] = x BY <1>3, <1>6 DEF Surjection
<1>8. f \in Seq(S) BY <1>1, <1>3, SeqDef
<1>9. \A m, k \in DOMAIN f : f[m] = f[k] => m = k BY <1>3 DEF IsInjective
<1> QED BY <1>7, <1>8, <1>9

\* Of finitely many proposals one is the newest.
LEMMA NewestExists ==
  ASSUME NEW n \in Nat, NEW S \in SUBSET (1..n), S # {}, DOMAIN proposals = 1..n,
         \A i \in 1..n : proposals[i].born \in Nat
  PROVE  Newest(S) \in S /\ \A j \in S : Newer(Newest(S), j)
<1> DEFINE Has(k) == S \cap (1..k) # {} =>
                       \E i \in S \cap (1..k) : \A j \in S \cap (1..k) : Newer(i, j)
           T == {k \in Nat : k <= n /\ ~Has(k)}
<1>1. T = {}
  <2> SUFFICES ASSUME T # {} PROVE FALSE
    OBVIOUS
  <2>1. PICK R : R = OpToRel(<, Nat) /\ IsWellFoundedOn(R, Nat)
    BY NatLessThanWellFounded
  <2>2. PICK k \in T : \A y \in T : ~(<<y, k>> \in R)
    BY <2>1, WFMin
  <2>3. \A y \in T : ~(y < k)
    BY <2>1, <2>2 DEF OpToRel
  <2>4. k \in Nat /\ k <= n /\ ~Has(k)
    OBVIOUS
  <2>5. k # 0
    BY <2>4
  <2>6. k - 1 \in Nat /\ k - 1 < k /\ k - 1 <= n
    BY <2>4, <2>5
  <2>7. Has(k - 1)
    BY <2>3, <2>6
  <2>12. k \in Nat /\ k # 0 /\ k \in 1..n
    BY <2>4, <2>5
  <2>8. 1..k = (1..(k - 1)) \cup {k}
    BY ONLY <2>12
  <2>9. CASE k \notin S
    <3>1. S \cap (1..k) = S \cap (1..(k - 1))
      BY <2>8, <2>9
    <3> QED BY <3>1, <2>7, <2>4
  <2>10. CASE k \in S /\ S \cap (1..(k - 1)) = {}
    <3>4. \A x : x \in S \cap (1..k) <=> x \in S \cap (1..(k - 1)) \/ x = k
      BY <2>8, <2>10
    <3>5. \A x : x \in S \cap (1..k) <=> x = k
      BY ONLY <3>4, <2>10
    <3>1. S \cap (1..k) = {k}
      BY ONLY <3>5
    <3>2. Newer(k, k)
      BY <2>4, <2>5 DEF Newer
    <3> QED BY <3>1, <3>2, <2>4
  <2>11. CASE k \in S /\ S \cap (1..(k - 1)) # {}
    <3>1. PICK i \in S \cap (1..(k - 1)) : \A j \in S \cap (1..(k - 1)) : Newer(i, j)
      BY <2>7, <2>11
    <3>2. k \in 1..n /\ i \in 1..n /\ k >= i /\ i < k
      BY <2>4, <2>5
    <3>3. proposals[k].born \in Nat /\ proposals[i].born \in Nat
      BY <3>2
    <3>4. CASE proposals[k].born >= proposals[i].born
      <4>1. \A j \in S \cap (1..(k - 1)) : Newer(k, j)
        <5> SUFFICES ASSUME NEW j \in S \cap (1..(k - 1)) PROVE Newer(k, j)
          OBVIOUS
        <5>2. j \in 1..(k - 1) /\ j \in 1..n
          BY <2>12
        <5>5. Newer(i, j)
          BY <3>1
        <5>6. proposals[j].born \in Nat
          BY <5>2
        <5>7. j \in Nat /\ k >= j
          BY ONLY <5>2, <2>12
        <5>1. Newer(i, j) /\ proposals[j].born \in Nat /\ j \in Nat /\ k >= j
          BY ONLY <5>5, <5>6, <5>7
        <5>3. proposals[i].born > proposals[j].born
                \/ (proposals[i].born = proposals[j].born /\ i >= j)
          BY ONLY <5>1 DEF Newer
        <5>4. proposals[k].born > proposals[j].born \/ proposals[k].born = proposals[j].born
          BY ONLY <5>1, <5>3, <3>3, <3>4
        <5> QED BY <5>1, <5>4 DEF Newer
      <4>2. Newer(k, k)
        BY <3>2 DEF Newer
      <4>3. \A j \in S \cap (1..k) : Newer(k, j)
        BY <4>1, <4>2, <2>8
      <4> QED BY <4>3, <2>4, <2>8, <2>11
    <3>5. CASE ~(proposals[k].born >= proposals[i].born)
      <4>3. proposals[i].born > proposals[k].born
        BY ONLY <3>3, <3>5
      <4>1. Newer(i, k)
        BY <4>3 DEF Newer
      <4>2. \A j \in S \cap (1..k) : Newer(i, j)
        BY <4>1, <3>1, <2>8
      <4> QED BY <4>2, <2>4, <2>8
    <3> QED BY <3>4, <3>5
  <2> QED BY <2>9, <2>10, <2>11
<1>2. Has(n)
  <2>1. n \in Nat /\ n <= n
    OBVIOUS
  <2> QED BY ONLY <1>1, <2>1
<1>3. S \cap (1..n) = S
  OBVIOUS
<1>4. \E i \in S : \A j \in S : Newer(i, j)
  BY <1>2, <1>3
<1>5. Newest(S) = CHOOSE i \in S : \A j \in S : Newer(i, j)
  BY DEF Newest
<1> HIDE DEF Has, T
<1> QED BY <1>4, <1>5

\* The writes of a set of groups, each group once.
LEMMA GroupsListed ==
  ASSUME NEW S, NEW groups \in SUBSET Seq(S), IsFiniteSet(groups)
  PROVE  /\ Grouped(groups) \in Seq(Seq(S))
         /\ \A m \in DOMAIN Grouped(groups) :
              Grouped(groups)[m] \in groups /\ Grouped(groups)[m] # <<>>
         /\ \A g \in groups : g # <<>> => \E m \in DOMAIN Grouped(groups) : Grouped(groups)[m] = g
         /\ \A m, n \in DOMAIN Grouped(groups) : Grouped(groups)[m] = Grouped(groups)[n] => m = n
<1> DEFINE some == groups \ {<<>>}
           f == SetToSeq(some)
<1>1. IsFiniteSet(some)
  BY FS_Subset
<1>2. /\ f \in Seq(some)
      /\ \A x \in some : \E n \in DOMAIN f : f[n] = x
      /\ \A m, n \in DOMAIN f : f[m] = f[n] => m = n
  BY <1>1, ListedOnce
<1>3. Grouped(groups) = f
  BY DEF Grouped
<1>4. f \in [1..Len(f) -> some] /\ DOMAIN f = 1..Len(f)
  BY <1>2, LenProperties
<1>5. \A m \in DOMAIN f : f[m] \in some
  BY <1>4
<1>6. f \in Seq(Seq(S))
  BY <1>2
<1> HIDE DEF f
<1> QED BY <1>2, <1>3, <1>5, <1>6

\* The writes after the next one: d groups are done.
LEMMA RestOfWrites ==
  ASSUME NEW S, NEW ws \in Seq(Seq(S)), ws # <<>>, \A m \in DOMAIN ws : Len(ws[m]) \in 1..2
  PROVE  /\ 1 \in DOMAIN ws /\ First(ws) = ws[1][1] /\ ws[1][1] \in S
         /\ Left(ws) \in Seq(Seq(S))
         /\ \E d \in {0, 1} :
              /\ d = 1 <=> Len(ws[1]) = 1
              /\ \A m \in DOMAIN Left(ws) :
                   /\ m + d \in DOMAIN ws
                   /\ m + d # 1 => Left(ws)[m] = ws[m + d]
                   /\ m + d = 1 => m = 1 /\ Left(ws)[m] = <<ws[1][2]>> /\ Len(ws[1]) = 2
              /\ \A k \in DOMAIN ws : k # 1 => k - d \in DOMAIN Left(ws)
<1> DEFINE n == Len(ws)
<1>1. n \in Nat \ {0} /\ DOMAIN ws = 1..n /\ \A m \in 1..n : ws[m] \in Seq(S)
  <2>1. ws \in [1..n -> Seq(S)] /\ n \in Nat /\ DOMAIN ws = 1..n
    BY LenProperties
  <2>2. n # 0
    BY EmptySeq
  <2> QED BY <2>1, <2>2
<1>2. 1 \in 1..n
  BY <1>1
<1> DEFINE g == ws[1]
<1>3. g \in Seq(S) /\ Len(g) \in 1..2
  BY <1>1, <1>2
<1>4. g # <<>> /\ DOMAIN g = 1..Len(g) /\ g \in [1..Len(g) -> S]
  <2>1. DOMAIN g = 1..Len(g) /\ g \in [1..Len(g) -> S]
    BY <1>3, LenProperties
  <2>2. g # <<>>
    <3>1. Len(g) = 1 \/ Len(g) = 2
      BY ONLY <1>3
    <3>2. \A q : q = <<>> => Len(q) = 0
      OBVIOUS
    <3>3. \A k \in {1, 2} : k # 0
      OBVIOUS
    <3> QED BY ONLY <3>1, <3>2, <3>3, Zenon
  <2> QED BY <2>1, <2>2
<1>5. g[1] \in S /\ Head(ws) = g /\ Head(g) = g[1]
  BY <1>3, <1>4
<1>6. First(ws) = g[1]
  BY <1>5 DEF First
<1>7. /\ Tail(ws) \in Seq(Seq(S)) /\ Len(Tail(ws)) = n - 1
      /\ \A m \in 1..Len(Tail(ws)) : Tail(ws)[m] = ws[m + 1]
  BY HeadTailProperties
<1>8. DOMAIN Tail(ws) = 1..(n - 1)
  BY <1>7, LenProperties
<1>9. CASE Len(g) = 1
  <2>1. Left(ws) = Tail(ws)
    BY <1>5, <1>9 DEF Left
  <2>2. \A m \in 1..(n - 1) : m + 1 \in 1..n /\ m + 1 # 1 /\ Tail(ws)[m] = ws[m + 1]
    BY <1>1, <1>7
  <2>3. \A k \in 1..n : k # 1 => k - 1 \in 1..(n - 1)
    BY <1>1
  <2> HIDE DEF g
  <2> QED BY <2>1, <2>2, <2>3, <1>9, <1>1, <1>2, <1>5, <1>6, <1>7, <1>8 DEF g
<1>10. CASE Len(g) = 2
  <2>12. Len(g) # 1
    BY ONLY <1>10
  <2>11. Head(ws) = g /\ Len(Head(ws)) # 1
    BY ONLY <1>5, <2>12
  <2>1. Left(ws) = <<Tail(g)>> \o Tail(ws)
    BY ONLY <2>11 DEF Left
  <2>2. Tail(g) = <<g[2]>> /\ <<g[2]>> \in Seq(S)
    <3>1. /\ Tail(g) \in Seq(S) /\ Len(Tail(g)) = 1
          /\ Tail(g)[1] = g[2]
      BY <1>3, <1>4, <1>10, HeadTailProperties
    <3>2. g[2] \in S
      BY <1>4, <1>10
    <3>3. <<g[2]>> \in Seq(S) /\ Len(<<g[2]>>) = 1 /\ <<g[2]>>[1] = g[2]
      BY <3>2
    <3>4. Len(Tail(g)) = Len(<<g[2]>>) /\ \A i \in 1..Len(Tail(g)) : Tail(g)[i] = <<g[2]>>[i]
      BY <3>1, <3>3
    <3>5. Tail(g) = <<g[2]>>
      BY <3>1, <3>3, <3>4, SeqEqual
    <3> QED BY <3>5, <3>3
  <2>3. Left(ws) = <<<<g[2]>>>> \o Tail(ws)
    BY <2>1, <2>2
  <2>4. <<<<g[2]>>>> \in Seq(Seq(S)) /\ Len(<<<<g[2]>>>>) = 1 /\ <<<<g[2]>>>>[1] = <<g[2]>>
    BY <2>2
  <2>5. /\ Left(ws) \in Seq(Seq(S))
        /\ Len(Left(ws)) = 1 + (n - 1)
        /\ \A m \in 1..n : Left(ws)[m] = IF m <= 1 THEN <<g[2]>> ELSE Tail(ws)[m - 1]
    BY <2>3, <2>4, <1>7, <1>1, ConcatProperties
  <2>6. DOMAIN Left(ws) = 1..n
    BY <2>5, <1>1, LenProperties
  <2>7. \A m \in 1..n : m # 1 => m - 1 \in 1..(n - 1) /\ ~(m <= 1) /\ (m - 1) + 1 = m
    BY <1>1
  <2>8. \A m \in 1..n : m # 1 => Left(ws)[m] = ws[m]
    BY <2>5, <2>7, <1>7
  <2>9. Left(ws)[1] = <<g[2]>>
    BY <2>5, <1>2
  <2>10. \A m \in 1..n : m + 0 = m /\ m - 0 = m
    BY <1>1
  <2> HIDE DEF g
  <2> QED BY <2>5, <2>6, <2>8, <2>9, <2>10, <1>10, <1>1, <1>2, <1>5, <1>6 DEF g
<1>11. Len(g) = 1 \/ Len(g) = 2
  BY ONLY <1>3
<1> QED BY <1>11, <1>9, <1>10

-----------------------------------------------------------------------------
(***************************************************************************)
(* What a write does to the rows.                                          *)
(***************************************************************************)
\* The rows keep what never changes and are only added to; what is resolved stays,
\* and a resolved row comes to life again by a stale copy only.
RowsKept ==
  /\ DOMAIN proposals \subseteq DOMAIN proposals' /\ Len(proposals) <= Len(proposals')
  /\ \A i \in DOMAIN proposals : SameProposal(proposals'[i], proposals[i])
  /\ \A i \in DOMAIN proposals :
       proposals[i].status # "pending" /\ i \notin clobbered' => proposals'[i] = proposals[i]
  /\ clobbered \subseteq clobbered'
  /\ \A i \in Live' : i \in DOMAIN proposals => i \in Live

LEMMA RowTypes ==
  ASSUME ProposalTypes
  PROVE  /\ Len(proposals) \in Nat /\ DOMAIN proposals = 1..Len(proposals)
         /\ \A i \in DOMAIN proposals : proposals[i] \in Rows /\ proposals[i].born \in Nat
         /\ DOMAIN bundles = 1..Len(proposals)
         /\ \A i \in DOMAIN bundles : bundles[i] \in Nat
         /\ Pending \subseteq DOMAIN proposals /\ Live \subseteq DOMAIN proposals
         /\ \A type : OfType(type) \subseteq DOMAIN proposals
<1>1. proposals \in Seq(Rows) /\ bundles \in Seq(Nat) /\ Len(bundles) = Len(proposals)
  BY DEF ProposalTypes
<1>2. /\ Len(proposals) \in Nat /\ DOMAIN proposals = 1..Len(proposals)
      /\ DOMAIN bundles = 1..Len(bundles)
      /\ proposals \in [1..Len(proposals) -> Rows] /\ bundles \in [1..Len(bundles) -> Nat]
  BY <1>1, LenProperties
<1>3. \A i \in DOMAIN proposals : proposals[i] \in Rows
  BY <1>2
<1> QED BY <1>1, <1>2, <1>3 DEF Rows, Pending, Live, OfType

LEMMA CreatedRow ==
  ASSUME ProposalTypes, NEW w \in Writes, Store(w), w.row = New
  PROVE  /\ proposals' \in Seq(Rows) /\ bundles' \in Seq(Nat)
         /\ Len(proposals') = Len(proposals) + 1 /\ Len(bundles') = Len(proposals')
         /\ DOMAIN proposals' = DOMAIN proposals \cup {Len(proposals) + 1}
         /\ \A i \in DOMAIN proposals : proposals'[i] = proposals[i] /\ bundles'[i] = bundles[i]
         /\ proposals'[Len(proposals) + 1] = w.to /\ bundles'[Len(proposals) + 1] = 0
         /\ clobbered' = clobbered
<1>1. proposals \in Seq(Rows) /\ bundles \in Seq(Nat) /\ Len(bundles) = Len(proposals)
      /\ w.to \in Rows
  BY DEF ProposalTypes, Writes
<1>2. /\ proposals' = Append(proposals, w.to) /\ bundles' = Append(bundles, 0)
      /\ clobbered' = clobbered
  BY DEF Store
<1>3. Len(proposals) \in Nat /\ DOMAIN proposals = 1..Len(proposals)
  BY <1>1, LenProperties
<1>4. /\ proposals' \in Seq(Rows) /\ Len(proposals') = Len(proposals) + 1
      /\ \A i \in 1..Len(proposals) : proposals'[i] = proposals[i]
      /\ proposals'[Len(proposals) + 1] = w.to
  BY <1>1, <1>2, AppendProperties
<1>5. /\ bundles' \in Seq(Nat) /\ Len(bundles') = Len(bundles) + 1
      /\ \A i \in 1..Len(bundles) : bundles'[i] = bundles[i]
      /\ bundles'[Len(bundles) + 1] = 0
  BY <1>1, <1>2, AppendProperties
<1>6. DOMAIN proposals' = 1..(Len(proposals) + 1)
  BY <1>4, LenProperties
<1>7. 1..(Len(proposals) + 1) = 1..Len(proposals) \cup {Len(proposals) + 1}
  BY <1>3
<1> QED BY <1>1, <1>2, <1>3, <1>4, <1>5, <1>6, <1>7

LEMMA ReplacedRow ==
  ASSUME ProposalTypes, NEW w \in Writes, Store(w), w.row # New, w.row \in 0..Len(proposals)
  PROVE  /\ w.row \in DOMAIN proposals
         /\ proposals' \in Seq(Rows) /\ bundles' = bundles
         /\ Len(proposals') = Len(proposals) /\ DOMAIN proposals' = DOMAIN proposals
         /\ \A i \in DOMAIN proposals : i # w.row => proposals'[i] = proposals[i]
         /\ proposals'[w.row] = w.to
         /\ clobbered \subseteq clobbered' /\ clobbered' \subseteq clobbered \cup {w.row}
         /\ w.row \notin clobbered' => proposals[w.row] = w.base
<1>1. proposals \in Seq(Rows) /\ w.to \in Rows /\ w.row \in Nat
  BY DEF ProposalTypes, Writes
<1>2. Len(proposals) \in Nat /\ DOMAIN proposals = 1..Len(proposals)
  BY <1>1, LenProperties
<1>3. w.row \in 1..Len(proposals)
  BY <1>2 DEF New
<1>4. /\ proposals' = [proposals EXCEPT ![w.row] = w.to] /\ bundles' = bundles
      /\ clobbered' = IF proposals[w.row] = w.base THEN clobbered ELSE clobbered \cup {w.row}
  BY DEF Store
<1>5. /\ proposals' \in Seq(Rows) /\ Len(proposals') = Len(proposals)
      /\ \A i \in 1..Len(proposals) : proposals'[i] = IF i = w.row THEN w.to ELSE proposals[i]
  BY <1>1, <1>3, <1>4, ExceptSeq
<1>6. DOMAIN proposals' = 1..Len(proposals)
  BY <1>5, LenProperties
<1> QED BY <1>2, <1>3, <1>4, <1>5, <1>6

LEMMA StoreKeepsRows ==
  ASSUME ProposalTypes, NEW w \in Writes, Store(w), WriteOK(w)
  PROVE  RowsKept
<1>1. CASE w.row = New
  <2>1. /\ Len(proposals') = Len(proposals) + 1
        /\ DOMAIN proposals' = DOMAIN proposals \cup {Len(proposals) + 1}
        /\ \A i \in DOMAIN proposals : proposals'[i] = proposals[i]
        /\ clobbered' = clobbered
    BY <1>1, CreatedRow
  <2>2. \A i \in Live' : i \in DOMAIN proposals => i \in Live
    BY <2>1 DEF Live, Pending
  <2>3. Len(proposals) <= Len(proposals')
    BY <2>1, RowTypes
  <2> QED BY <2>1, <2>2, <2>3 DEF RowsKept, SameProposal
<1>2. CASE w.row # New
  <2>1. /\ w.row \in DOMAIN proposals
        /\ Len(proposals') = Len(proposals) /\ DOMAIN proposals' = DOMAIN proposals
        /\ \A i \in DOMAIN proposals : i # w.row => proposals'[i] = proposals[i]
        /\ proposals'[w.row] = w.to
        /\ clobbered \subseteq clobbered'
        /\ w.row \notin clobbered' => proposals[w.row] = w.base
    BY <1>2, ReplacedRow DEF WriteOK
  <2>2. w.base.status = "pending" /\ SameProposal(w.to, proposals[w.row])
    BY <1>2 DEF WriteOK
  <2>3. \A i \in DOMAIN proposals : SameProposal(proposals'[i], proposals[i])
    BY <2>1, <2>2 DEF SameProposal
  <2>4. \A i \in DOMAIN proposals :
          proposals[i].status # "pending" /\ i \notin clobbered' => proposals'[i] = proposals[i]
    BY <2>1, <2>2
  <2>5. \A i \in Live' : i \in DOMAIN proposals => i \in Live
    <3> SUFFICES ASSUME NEW i \in Live', i \in DOMAIN proposals PROVE i \in Live
      OBVIOUS
    <3>1. proposals'[i].status = "pending" /\ i \notin clobbered'
      BY DEF Live, Pending
    <3>2. proposals[i].status = "pending"
      BY <3>1, <2>4
    <3> QED BY <3>1, <3>2, <2>1 DEF Live, Pending
  <2>6. Len(proposals) <= Len(proposals')
    BY <2>1, RowTypes
  <2> QED BY <2>1, <2>3, <2>4, <2>5, <2>6 DEF RowsKept
<1> QED BY <1>1, <1>2

LEMMA UntouchedRows ==
  ASSUME ProposalTypes, UNCHANGED <<proposals, clobbered>>
  PROVE  RowsKept
<1>1. \A i \in Live' : i \in Live
  BY DEF Live, Pending
<1>2. Len(proposals) <= Len(proposals)
  BY RowTypes
<1> QED BY <1>1, <1>2 DEF RowsKept, SameProposal

-----------------------------------------------------------------------------
(***************************************************************************)
(* What other threads do takes nothing away from a call.                   *)
(***************************************************************************)
LEMMA CallTypes ==
  ASSUME ProposalTypes, NEW t \in Callers
  PROVE  /\ calls[t] \in CallRecords
         /\ calls[t].writes \in Seq(Seq(Writes)) /\ calls[t].queue \in Seq(Nat)
         /\ \A m \in DOMAIN calls[t].writes :
              /\ calls[t].writes[m] \in Seq(Writes)
              /\ \A k \in DOMAIN calls[t].writes[m] : calls[t].writes[m][k] \in Writes
<1>1. calls[t] \in CallRecords
  BY DEF ProposalTypes
<1>2. calls[t].writes \in Seq(Seq(Writes)) /\ calls[t].queue \in Seq(Nat)
  BY <1>1 DEF CallRecords
<1>3. \A m \in DOMAIN calls[t].writes : calls[t].writes[m] \in Seq(Writes)
  BY <1>2
<1>4. \A g \in Seq(Writes) : \A k \in DOMAIN g : g[k] \in Writes
  OBVIOUS
<1> QED BY <1>1, <1>2, <1>3, <1>4

LEMMA WritesKept ==
  ASSUME ProposalTypes, RowsKept, simulation.n <= simulation'.n, simulation'.n \in Nat,
         ProposalTypes', NEW w \in Writes, WriteOK(w)
  PROVE  WriteOK(w)'
<1>1. Len(proposals) \in Nat /\ Len(proposals') \in Nat /\ simulation.n \in Nat
  BY RowTypes DEF ProposalTypes
<1>2. w.row \in 0..Len(proposals')
  BY <1>1 DEF WriteOK, RowsKept
<1>3. w.to.stage \in HighRisk \X (1..simulation'.n)
  <2>1. w.to.stage \in HighRisk \X (1..simulation.n)
    BY DEF WriteOK
  <2>2. 1..simulation.n \subseteq 1..simulation'.n
    BY <1>1
  <2> QED BY <2>1, <2>2
<1>4. w.row # New => SameProposal(w.to, proposals'[w.row])
  <2> SUFFICES ASSUME w.row # New PROVE SameProposal(w.to, proposals'[w.row])
    OBVIOUS
  <2>1. w.row \in DOMAIN proposals
    BY <1>1, RowTypes DEF WriteOK, New
  <2>2. SameProposal(proposals'[w.row], proposals[w.row])
    BY <2>1 DEF RowsKept
  <2>3. SameProposal(w.to, proposals[w.row])
    BY DEF WriteOK
  <2> QED BY <2>2, <2>3 DEF SameProposal
<1> QED BY <1>2, <1>3, <1>4 DEF WriteOK, SameProposal

LEMMA GroupsKept ==
  ASSUME ProposalTypes, RowsKept, simulation.n <= simulation'.n, simulation'.n \in Nat,
         ProposalTypes', NEW g \in Seq(Writes), GroupOK(g)
  PROVE  GroupOK(g)'
<1>1. \A k \in DOMAIN g : g[k] \in Writes /\ WriteOK(g[k])
  BY DEF GroupOK
<1>2. \A k \in DOMAIN g : WriteOK(g[k])'
  BY <1>1, WritesKept
<1> QED BY <1>2 DEF GroupOK, WriteOK

LEMMA CallsKept ==
  ASSUME ProposalTypes, RowsKept, simulation.n <= simulation'.n, simulation'.n \in Nat,
         ProposalTypes', NEW u \in Callers, CallOK(u), calls'[u] = calls[u]
  PROVE  CallOK(u)'
<1> DEFINE c == calls[u]
<1>1. \A m \in DOMAIN c.writes : GroupOK(c.writes[m])'
  BY CallTypes, GroupsKept DEF CallOK
<1>2. \A n \in DOMAIN c.queue : c.queue[n] \in DOMAIN proposals'
  BY DEF CallOK, RowsKept
<1>3. c.at = "plan" => c.key[1] = c.level /\ c.key[2] \in 1..simulation'.n
  <2>1. simulation.n \in Nat
    BY DEF ProposalTypes
  <2> QED BY <2>1 DEF CallOK
<1>4. c.at = "bundle" =>
        /\ c.queue # <<>>
        /\ proposals'[Head(c.queue)].status = "approved" \/ Head(c.queue) \in clobbered'
  <2> SUFFICES ASSUME c.at = "bundle", Head(c.queue) \notin clobbered'
               PROVE  c.queue # <<>> /\ proposals'[Head(c.queue)].status = "approved"
    BY DEF CallOK
  <2>1. c.queue # <<>> /\ proposals[Head(c.queue)].status = "approved"
    BY DEF CallOK, RowsKept
  <2>2. Head(c.queue) \in DOMAIN proposals
    <3>1. c.queue \in Seq(Nat)
      BY CallTypes
    <3>2. 1 \in DOMAIN c.queue /\ Head(c.queue) = c.queue[1]
      BY <3>1, <2>1, EmptySeq, LenProperties
    <3> QED BY <3>2 DEF CallOK
  <2> QED BY <2>1, <2>2 DEF RowsKept
<1>5. /\ c.at \notin {"write", "attach", "resolve"} => c.writes = <<>>
      /\ c.at = "write" =>
           \A m \in DOMAIN c.writes : \A k \in DOMAIN c.writes[m] :
             Reconciles(c.key, c.writes[m][k])
      /\ c.at = "attach" =>
           /\ c.key # NoKey
           /\ \A m \in DOMAIN c.writes : ~Creates(c.writes[m])
           /\ \A m \in DOMAIN c.writes : \A k \in DOMAIN c.writes[m] :
                c.writes[m][k].to.status = "pending"
      /\ c.at = "bundle" => c.decision = "approve" \/ Tail(c.queue) = <<>>
      /\ c.at \in {"case", "resolve"} =>
           c.decision \in {"edit", "approve", "reject"} \/ (c.at = "case" /\ c.queue = <<>>)
      /\ c.at = "resolve" =>
           /\ c.queue # <<>> /\ Len(c.writes) = 1 /\ Len(c.writes[1]) = 1
           /\ c.writes[1][1].row = Head(c.queue)
           /\ c.writes[1][1].to = Resolution(c.writes[1][1].base, c.decision)
  BY DEF CallOK
<1>6. \A m \in DOMAIN c.writes : (GroupOK(calls[u].writes[m]))'
  BY <1>1 DEF GroupOK, WriteOK, SameProposal
<1> HIDE DEF c
<1>7. calls'[u] = c
  BY DEF c
<1> QED BY <1>2, <1>3, <1>4, <1>5, <1>6, <1>7 DEF CallOK

-----------------------------------------------------------------------------
(***************************************************************************)
(* Approvals and their notifications.                                      *)
(***************************************************************************)
LEMMA BundlesAfterStore ==
  ASSUME ProposalTypes, ApprovalsAreCarriedOut, NEW t \in Callers, NEW c,
         NEW w \in Writes, WriteOK(w), Store(w), UNCHANGED cut,
         calls' = [calls EXCEPT ![t] = c], calls[t].at # "bundle",
         w.to.status = "approved" => c.at = "bundle" /\ Head(c.queue) = w.row
  PROVE  ApprovalsAreCarriedOut'
<1> SUFFICES ASSUME NEW i \in DOMAIN proposals'
             PROVE  /\ bundles'[i] > 0 => proposals'[i].status = "approved" \/ i \in clobbered'
                    /\ proposals'[i].status = "approved" /\ bundles'[i] = 0 =>
                         \/ i \in cut' \cup clobbered'
                         \/ \E u \in Callers : calls'[u].at = "bundle" /\ Head(calls'[u].queue) = i
  BY DEF ApprovalsAreCarriedOut
<1>1. RowsKept
  BY StoreKeepsRows
<1>2. DOMAIN calls = Callers
  BY DEF ProposalTypes
<1>3. calls'[t] = c /\ \A u \in Callers : u # t => calls'[u] = calls[u]
  BY <1>2
<1>4. CASE w.row = New
  <2>1. /\ DOMAIN proposals' = DOMAIN proposals \cup {Len(proposals) + 1}
        /\ \A k \in DOMAIN proposals : proposals'[k] = proposals[k] /\ bundles'[k] = bundles[k]
        /\ proposals'[Len(proposals) + 1] = w.to /\ bundles'[Len(proposals) + 1] = 0
        /\ clobbered' = clobbered
    BY <1>4, CreatedRow
  <2>2. w.to.status = "pending"
    BY <1>4 DEF WriteOK
  <2>3. CASE i = Len(proposals) + 1
    BY <2>1, <2>2, <2>3
  <2>4. CASE i \in DOMAIN proposals
    <3>1. /\ bundles[i] > 0 => proposals[i].status = "approved" \/ i \in clobbered
          /\ proposals[i].status = "approved" /\ bundles[i] = 0 =>
               \/ i \in cut \cup clobbered
               \/ \E u \in Callers : calls[u].at = "bundle" /\ Head(calls[u].queue) = i
      BY <2>4 DEF ApprovalsAreCarriedOut
    <3>2. (\E u \in Callers : calls[u].at = "bundle" /\ Head(calls[u].queue) = i)
            => \E u \in Callers : calls'[u].at = "bundle" /\ Head(calls'[u].queue) = i
      BY <1>3
    <3> QED BY <2>1, <2>4, <3>1, <3>2
  <2> QED BY <2>1, <2>3, <2>4
<1>5. CASE w.row # New
  <2>1. /\ w.row \in DOMAIN proposals /\ bundles' = bundles
        /\ DOMAIN proposals' = DOMAIN proposals
        /\ \A k \in DOMAIN proposals : k # w.row => proposals'[k] = proposals[k]
        /\ proposals'[w.row] = w.to
        /\ clobbered \subseteq clobbered'
        /\ w.row \notin clobbered' => proposals[w.row] = w.base
    BY <1>5, ReplacedRow DEF WriteOK
  <2>2. /\ bundles[i] > 0 => proposals[i].status = "approved" \/ i \in clobbered
        /\ proposals[i].status = "approved" /\ bundles[i] = 0 =>
             \/ i \in cut \cup clobbered
             \/ \E u \in Callers : calls[u].at = "bundle" /\ Head(calls[u].queue) = i
    BY <2>1 DEF ApprovalsAreCarriedOut
  <2>3. bundles'[i] > 0 => proposals'[i].status = "approved" \/ i \in clobbered'
    BY <2>1, <2>2, <1>1 DEF RowsKept
  <2>4. ASSUME proposals'[i].status = "approved", bundles'[i] = 0, i \notin cut' \cup clobbered'
        PROVE  \E u \in Callers : calls'[u].at = "bundle" /\ Head(calls'[u].queue) = i
    <3>1. CASE i = w.row
      BY <3>1, <2>1, <2>4, <1>3
    <3>2. CASE i # w.row
      <4>1. \E u \in Callers : calls[u].at = "bundle" /\ Head(calls[u].queue) = i
        BY <3>2, <2>1, <2>2, <2>4
      <4> QED BY <4>1, <1>3
    <3> QED BY <3>1, <3>2
  <2> QED BY <2>3, <2>4
<1> QED BY <1>4, <1>5

LEMMA BundlesUntouched ==
  ASSUME ProposalTypes, ApprovalsAreCarriedOut, NEW t \in Callers, NEW c,
         UNCHANGED <<proposals, bundles, clobbered, cut>>,
         calls' = [calls EXCEPT ![t] = c], calls[t].at # "bundle"
  PROVE  ApprovalsAreCarriedOut'
<1>1. DOMAIN calls = Callers
  BY DEF ProposalTypes
<1>2. \A u \in Callers : u # t => calls'[u] = calls[u]
  BY <1>1
<1>3. \A u \in Callers : calls[u].at = "bundle" => calls'[u] = calls[u]
  BY <1>2
<1> SUFFICES ASSUME NEW i \in DOMAIN proposals
             PROVE  /\ bundles[i] > 0 => proposals[i].status = "approved" \/ i \in clobbered
                    /\ proposals[i].status = "approved" /\ bundles[i] = 0 =>
                         \/ i \in cut \cup clobbered
                         \/ \E u \in Callers : calls'[u].at = "bundle" /\ Head(calls'[u].queue) = i
  BY DEF ApprovalsAreCarriedOut
<1>4. /\ bundles[i] > 0 => proposals[i].status = "approved" \/ i \in clobbered
      /\ proposals[i].status = "approved" /\ bundles[i] = 0 =>
           \/ i \in cut \cup clobbered
           \/ \E u \in Callers : calls[u].at = "bundle" /\ Head(calls[u].queue) = i
  BY DEF ApprovalsAreCarriedOut
<1> QED BY <1>3, <1>4

-----------------------------------------------------------------------------
(***************************************************************************)
(* What is about to be created, when others write.                         *)
(***************************************************************************)
\* Only a reconciliation that writes creates proposals.
LEMMA OnlyWritesCreate ==
  ASSUME ProposalTypes, NEW u \in Callers, CallOK(u), calls[u].at # "write"
  PROVE  \A m \in DOMAIN calls[u].writes : ~Creates(calls[u].writes[m])
<1> DEFINE c == calls[u]
<1>1. CASE c.at \notin {"write", "attach", "resolve"}
  <2>1. c.writes = <<>>
    BY <1>1 DEF CallOK
  <2> QED BY <2>1
<1>2. CASE c.at = "attach"
  BY <1>2 DEF CallOK
<1>3. CASE c.at = "resolve"
  <2>1. /\ c.queue # <<>> /\ Len(c.writes) = 1 /\ Len(c.writes[1]) = 1
        /\ c.writes[1][1].row = Head(c.queue)
        /\ \A n \in DOMAIN c.queue : c.queue[n] \in DOMAIN proposals
    BY <1>3 DEF CallOK
  <2>2. c.queue \in Seq(Nat) /\ c.writes \in Seq(Seq(Writes))
    BY CallTypes
  <2>3. 1 \in DOMAIN c.queue /\ Head(c.queue) = c.queue[1]
    BY <2>1, <2>2, EmptySeq, LenProperties
  <2>4. c.writes[1][1].row # New
    BY <2>1, <2>3, RowTypes DEF New
  <2>5. \A m \in DOMAIN c.writes : m = 1
    BY <2>1, <2>2, LenProperties
  <2> QED BY <2>1, <2>4, <2>5 DEF Creates, Created
<1> QED BY <1>1, <1>2, <1>3

\* The proposals added, if any, are not of an action that is about to be created.
NoneAdded(ws) ==
  \A i \in DOMAIN proposals' \ DOMAIN proposals : \A m \in DOMAIN ws :
    Creates(ws[m]) => proposals'[i].type # TypeOf(ws[m])

LEMMA NewestKept ==
  ASSUME ProposalTypes, RowsKept, NEW type, NEW j \in DOMAIN proposals, NewestOf(j, type)',
         \A i \in DOMAIN proposals' \ DOMAIN proposals : proposals'[i].type # type
  PROVE  NewestOf(j, type)
<1>1. j \in OfType(type)
  BY DEF NewestOf, OfType, RowsKept, SameProposal
<1>2. \A k \in OfType(type) : k \in DOMAIN proposals /\ Newer(j, k)'
  BY DEF NewestOf, OfType, RowsKept, SameProposal
<1>3. \A k \in OfType(type) : Newer(j, k)
  BY <1>2 DEF Newer, RowsKept, SameProposal
<1> QED BY <1>1, <1>3 DEF NewestOf

LEMMA AloneKept ==
  ASSUME RowsKept, NEW ws, Alone(ws), NoneAdded(ws)
  PROVE  Alone(ws)'
<1> SUFFICES ASSUME NEW m \in DOMAIN ws, Creates(ws[m])
             PROVE  /\ \A i \in Live' : proposals'[i].type = TypeOf(ws[m]) =>
                         Len(ws[m]) = 2 /\ ws[m][1].row = i
                    /\ \A n \in DOMAIN ws : n # m => TypeOf(ws[n]) # TypeOf(ws[m])
  BY DEF Alone, Creates, Created, TypeOf
<1>1. \A i \in Live' : proposals'[i].type = TypeOf(ws[m]) => i \in Live /\ i \in DOMAIN proposals
  BY DEF NoneAdded, RowsKept, Live, Pending
<1>2. \A i \in Live' : proposals'[i].type = TypeOf(ws[m]) => proposals[i].type = TypeOf(ws[m])
  BY <1>1 DEF RowsKept, SameProposal
<1> QED BY <1>1, <1>2 DEF Alone

LEMMA UnaskedKept ==
  ASSUME ProposalTypes, RowsKept, clobbered' = {}, NEW ws, Unasked(ws), NoneAdded(ws)
  PROVE  Unasked(ws)'
<1> SUFFICES ASSUME NEW m \in DOMAIN ws, Creates(ws[m]),
                    NEW j \in DOMAIN proposals', NewestOf(j, TypeOf(ws[m]))'
             PROVE  IF Len(ws[m]) = 2 THEN j = ws[m][1].row
                    ELSE /\ proposals'[j].status # "pending"
                         /\ ~Answers(proposals'[j], Created(ws[m]))
  BY DEF Unasked, Creates, Created, TypeOf, Answers
<1>1. proposals'[j].type = TypeOf(ws[m])
  BY DEF NewestOf, OfType
<1>2. j \in DOMAIN proposals
  BY <1>1 DEF NoneAdded
<1>3. NewestOf(j, TypeOf(ws[m]))
  BY <1>2, NewestKept DEF NoneAdded
<1>4. IF Len(ws[m]) = 2 THEN j = ws[m][1].row
      ELSE proposals[j].status # "pending" /\ ~Answers(proposals[j], Created(ws[m]))
  BY <1>2, <1>3 DEF Unasked
<1>5. proposals[j].status # "pending" => proposals'[j] = proposals[j]
  BY <1>2 DEF RowsKept
<1> QED BY <1>4, <1>5

LEMMA LiveNewestKept ==
  ASSUME RowsKept, DOMAIN proposals' = DOMAIN proposals, LiveIsNewest
  PROVE  LiveIsNewest'
<1> SUFFICES ASSUME NEW i \in Live' PROVE NewestOf(i, proposals[i].type)'
  BY DEF LiveIsNewest
<1>1. i \in DOMAIN proposals /\ i \in Live
  BY DEF RowsKept, Live, Pending
<1>2. NewestOf(i, proposals[i].type)
  BY <1>1 DEF LiveIsNewest
<1>3. \A k \in DOMAIN proposals :
        proposals'[k].type = proposals[k].type /\ proposals'[k].born = proposals[k].born
  BY DEF RowsKept, SameProposal
<1> QED BY <1>1, <1>2, <1>3 DEF NewestOf, OfType, Newer

-----------------------------------------------------------------------------
(***************************************************************************)
(* Steps that begin no reconciliation and create no proposal.              *)
(***************************************************************************)
LEMMA SerialKept ==
  ASSUME ProposalInv, RowsKept, DOMAIN proposals' = DOMAIN proposals,
         NEW t \in Callers, NEW c, calls' = [calls EXCEPT ![t] = c],
         c.at \notin {"plan", "write"},
         c.at = "attach" => calls[t].at \in {"write", "attach"} /\ calls[t].key # NoKey,
         \A m \in DOMAIN c.writes : ~Creates(c.writes[m]),
         UNCHANGED <<reconciles, interlaced>>,
         missed' \/ UNCHANGED <<level, missed>>,
         ~missed /\ ~interlaced /\ level = "low" /\ Reconciling(t) /\ c.at # "attach" => Live = {}
  PROVE  Serial'
<1> SUFFICES ASSUME ~interlaced
             PROVE  (OneReconciles /\ LiveIsNewest /\ CreatedAlone /\ CreatedUnasked
                       /\ LevelIsRead)'
  BY DEF Serial
<1>1. /\ ProposalTypes /\ OneReconciles /\ LiveIsNewest /\ CreatedAlone /\ CreatedUnasked
      /\ LevelIsRead
  BY DEF ProposalInv, Serial
<1>2. DOMAIN calls = Callers
  BY <1>1 DEF ProposalTypes
<1>3. calls'[t] = c /\ \A u \in Callers : u # t => calls'[u] = calls[u]
  BY <1>2
<1>4. \A u \in Callers : Reconciling(u)' => Reconciling(u)
  BY <1>3 DEF Reconciling
<1>5. Live' \subseteq Live
  BY DEF RowsKept, Live, Pending
<1>6. \A u \in Callers : NoneAdded(calls[u].writes)
  BY DEF NoneAdded
<1>7. OneReconciles'
  <2>1. \A u, v \in Callers : (Reconciling(u) /\ Reconciling(v))' => u = v
    BY <1>1, <1>4 DEF OneReconciles
  <2>2. \A u \in Callers : calls'[u].at = "plan" => calls'[u].born = reconciles
    BY <1>1, <1>3 DEF OneReconciles
  <2>3. \A u \in Callers : \A m \in DOMAIN calls'[u].writes :
          Creates(calls'[u].writes[m]) => Created(calls'[u].writes[m]).to.born = reconciles
    BY <1>1, <1>3 DEF OneReconciles
  <2>4. \A i \in DOMAIN proposals' : proposals'[i].born <= reconciles
    BY <1>1 DEF OneReconciles, RowsKept, SameProposal
  <2> QED BY <2>1, <2>2, <2>3, <2>4 DEF OneReconciles, Creates, Created
<1>8. LiveIsNewest'
  BY <1>1, LiveNewestKept
<1>9. CreatedAlone'
  <2> SUFFICES ASSUME NEW u \in Callers PROVE Alone(calls[u].writes)'
    BY DEF CreatedAlone
  <2>1. CASE u = t
    <3>1. \A m \in DOMAIN calls'[u].writes : ~Creates(calls'[u].writes[m])
      BY <2>1, <1>3
    <3> QED BY <3>1 DEF Alone, Creates, Created
  <2>2. CASE u # t
    <3>1. PICK ws : ws = calls[u].writes
      OBVIOUS
    <3>2. Alone(ws) /\ NoneAdded(ws)
      BY <1>1, <1>6, <3>1 DEF CreatedAlone
    <3>3. Alone(ws)'
      BY <3>2, AloneKept
    <3>4. calls'[u].writes = ws
      BY <2>2, <1>3, <3>1
    <3> QED BY <3>3, <3>4 DEF Alone, Creates, Created, TypeOf
  <2> QED BY <2>1, <2>2
<1>10. CreatedUnasked'
  <2> SUFFICES ASSUME clobbered' = {}, NEW u \in Callers PROVE Unasked(calls[u].writes)'
    BY DEF CreatedUnasked
  <2>1. CASE u = t
    <3>1. \A m \in DOMAIN calls'[u].writes : ~Creates(calls'[u].writes[m])
      BY <2>1, <1>3
    <3> QED BY <3>1 DEF Unasked, Creates, Created
  <2>2. CASE u # t
    <3>1. PICK ws : ws = calls[u].writes
      OBVIOUS
    <3>5. clobbered = {}
      BY DEF RowsKept
    <3>2. Unasked(ws) /\ NoneAdded(ws)
      BY <1>1, <1>6, <3>1, <3>5 DEF CreatedUnasked
    <3>3. Unasked(ws)'
      BY <1>1, <3>2, UnaskedKept
    <3>4. calls'[u].writes = ws
      BY <2>2, <1>3, <3>1
    <3> QED BY <3>3, <3>4 DEF Unasked, Creates, Created, TypeOf, Answers, NewestOf, OfType, Newer
  <2> QED BY <2>1, <2>2
<1>11. LevelIsRead'
  <2> SUFFICES ASSUME ~missed' PROVE LevelIsRead'
    BY DEF LevelIsRead
  <2>1. ~missed /\ level' = level
    OBVIOUS
  <2>2. \A u \in Callers : calls'[u].at = "plan" => calls'[u].level = level
    BY <1>1, <1>3, <2>1 DEF LevelIsRead
  <2>3. \A u \in Callers : calls'[u].at \in {"write", "attach"} /\ calls'[u].key # NoKey =>
          level # "low"
    BY <1>1, <1>3, <2>1 DEF LevelIsRead
  <2>4. \A u \in Callers : calls'[u].at = "write" /\ calls'[u].key = NoKey =>
          \A i \in Live' : \E m \in DOMAIN calls'[u].writes : calls'[u].writes[m][1].row = i
    BY <1>1, <1>3, <1>5, <2>1 DEF LevelIsRead
  <2>5. level = "low" /\ (\A u \in Callers : ~Reconciling(u)') => Live' = {}
    <3> SUFFICES ASSUME level = "low", \A u \in Callers : ~Reconciling(u)' PROVE Live = {}
      BY <1>5
    <3>1. \A u \in Callers : u # t => ~Reconciling(u)
      BY <1>3 DEF Reconciling
    <3>2. CASE Reconciling(t)
      <4>1. c.at # "attach"
        BY <1>3 DEF Reconciling
      <4> QED BY <4>1, <3>2, <2>1
    <3>3. CASE ~Reconciling(t)
      BY <3>1, <3>3, <1>1, <2>1 DEF LevelIsRead
    <3> QED BY <3>2, <3>3
  <2> QED BY <2>1, <2>2, <2>3, <2>4, <2>5 DEF LevelIsRead
<1> QED BY <1>7, <1>8, <1>9, <1>10, <1>11

\* A step of one thread that writes no proposal.
LEMMA CalmStep ==
  ASSUME ProposalInv, NEW t \in Callers, NEW c \in CallRecords, calls' = [calls EXCEPT ![t] = c],
         UNCHANGED <<proposals, bundles, reconciles, crashes, interlaced, clobbered, cut>>,
         simulation' \in [n : Nat, level : LevelNames \cup {"none"}],
         simulation.n <= simulation'.n, level' \in LevelNames, missed' \in BOOLEAN,
         calls[t].at # "bundle", CallOK(t)',
         c.at \notin {"plan", "write"},
         c.at = "attach" => calls[t].at \in {"write", "attach"} /\ calls[t].key # NoKey,
         \A m \in DOMAIN c.writes : ~Creates(c.writes[m]),
         missed' \/ UNCHANGED <<level, missed>>,
         ~missed /\ ~interlaced /\ level = "low" /\ Reconciling(t) /\ c.at # "attach" => Live = {}
  PROVE  ProposalInv'
<1>1. ProposalTypes /\ RowsOK /\ (\A u \in Callers : CallOK(u)) /\ ApprovalsAreCarriedOut
  BY DEF ProposalInv
<1>2. calls' \in [Callers -> CallRecords]
  BY <1>1 DEF ProposalTypes
<1>3. ProposalTypes'
  BY <1>1, <1>2 DEF ProposalTypes
<1>4. RowsKept
  BY <1>1, UntouchedRows
<1>5. RowsOK'
  <2>1. simulation.n \in Nat /\ simulation'.n \in Nat
    BY <1>1 DEF ProposalTypes
  <2>2. 1..simulation.n \subseteq 1..simulation'.n
    BY <2>1
  <2> QED BY <1>1, <2>2 DEF RowsOK
<1>6. \A u \in Callers : CallOK(u)'
  <2> SUFFICES ASSUME NEW u \in Callers, u # t PROVE CallOK(u)'
    OBVIOUS
  <2>1. calls'[u] = calls[u]
    BY <1>1 DEF ProposalTypes
  <2>2. simulation'.n \in Nat
    OBVIOUS
  <2> QED BY <1>1, <1>3, <1>4, <2>1, <2>2, CallsKept
<1>7. ApprovalsAreCarriedOut'
  BY <1>1, BundlesUntouched
<1>8. Serial'
  BY <1>4, SerialKept
<1> QED BY <1>3, <1>5, <1>6, <1>7, <1>8 DEF ProposalInv

-----------------------------------------------------------------------------
(***************************************************************************)
(* The steps of the invariant, action by action.                           *)
(***************************************************************************)
LEMMA IdleCall == NoCall \in CallRecords /\ NoCall.writes = <<>> /\ NoCall.queue = <<>>
<1>1. <<>> \in Seq(Seq(Writes)) /\ <<>> \in Seq(Nat)
  OBVIOUS
<1> QED BY <1>1 DEF NoCall, CallRecords, Steps, LevelNames, NoKey

LEMMA QuietCall ==
  ASSUME NEW t \in Callers, calls'[t].writes = <<>>, calls'[t].queue = <<>>,
         calls'[t].at \in {"idle", "hazard", "trigger", "planning", "running", "after"}
  PROVE  CallOK(t)'
BY DEF CallOK

\* A step of one thread outside reconciliations and cases.
LEMMA QuietStep ==
  ASSUME ProposalInv, NEW t \in Callers, NEW c \in CallRecords, calls' = [calls EXCEPT ![t] = c],
         UNCHANGED <<proposals, bundles, reconciles, crashes, interlaced, clobbered, cut>>,
         simulation' \in [n : Nat, level : LevelNames \cup {"none"}],
         simulation.n <= simulation'.n, level' \in LevelNames, missed' \in BOOLEAN,
         calls[t].at # "bundle", c.writes = <<>>, c.queue = <<>>,
         c.at \in {"idle", "hazard", "trigger", "planning", "running", "after"},
         missed' \/ UNCHANGED <<level, missed>>,
         ~missed /\ ~interlaced /\ level = "low" /\ Reconciling(t) => Live = {}
  PROVE  ProposalInv'
<1>1. calls'[t] = c
  BY DEF ProposalInv, ProposalTypes
<1>2. CallOK(t)'
  BY <1>1, QuietCall
<1>3. \A m \in DOMAIN c.writes : ~Creates(c.writes[m])
  OBVIOUS
<1>4. c.at \notin {"plan", "write", "attach"}
  OBVIOUS
<1> QED BY <1>2, <1>3, <1>4, CalmStep

LEMMA TypesNow ==
  ASSUME ProposalInv
  PROVE  /\ simulation \in [n : Nat, level : LevelNames \cup {"none"}]
         /\ simulation.n \in Nat /\ simulation.n <= simulation.n
         /\ simulation.level \in LevelNames \cup {"none"}
         /\ level \in LevelNames /\ missed \in BOOLEAN /\ reconciles \in Nat
         /\ ProposalTypes /\ RowsOK /\ \A u \in Callers : CallOK(u)
BY DEF ProposalInv, ProposalTypes

LEMMA SimulateStep ==
  ASSUME ProposalAssumption, ProposalInv, NEW t \in Callers, NEW l \in Levels, simulate(t, l)
  PROVE  ProposalInv'
<1> DEFINE c == [NoCall EXCEPT !.at = "hazard", !.level = l, !.previous = simulation.level]
<1>1. l \in LevelNames
  BY DEF ProposalAssumption, LevelNames
<1>2. c \in CallRecords /\ c.at = "hazard" /\ c.writes = <<>> /\ c.queue = <<>>
  BY <1>1, TypesNow, IdleCall DEF CallRecords, Steps, NoCall
<1>3. /\ simulation' = [n |-> simulation.n + 1, level |-> l] /\ calls' = [calls EXCEPT ![t] = c]
      /\ UNCHANGED <<level, proposals, bundles, reconciles, crashes, interlaced, clobbered,
                     missed, cut>>
      /\ calls[t].at = "idle"
  BY DEF simulate, Call, May, ghosts
<1>4. /\ simulation' \in [n : Nat, level : LevelNames \cup {"none"}]
      /\ simulation.n <= simulation'.n
  BY <1>1, <1>3, TypesNow
<1>5. ~Reconciling(t)
  BY <1>3 DEF Reconciling
<1> HIDE DEF c
<1> QED BY <1>2, <1>3, <1>4, <1>5, TypesNow, QuietStep

LEMMA HazardStep ==
  ASSUME ProposalInv, NEW t \in Callers, set_hazard(t)
  PROVE  ProposalInv'
<1> DEFINE c == [calls[t] EXCEPT !.at = "trigger"]
<1>1. /\ calls' = [calls EXCEPT ![t] = c] /\ level' = calls[t].level /\ missed' = TRUE
      /\ UNCHANGED <<simulation, proposals, bundles, reconciles, crashes, interlaced, clobbered,
                     cut>>
      /\ calls[t].at = "hazard"
  BY DEF set_hazard, Call
<1>2. calls[t] \in CallRecords /\ calls[t].writes = <<>> /\ CallOK(t)
  BY <1>1, TypesNow, CallTypes DEF CallOK
<1>3. c \in CallRecords /\ c.at = "trigger" /\ c.writes = <<>> /\ c.queue = calls[t].queue
  BY <1>2 DEF CallRecords, Steps
<1>4. level' \in LevelNames
  BY <1>1, <1>2 DEF CallRecords
<1>5. calls'[t] = c
  BY <1>1, TypesNow DEF ProposalTypes
<1>6. CallOK(t)'
  BY <1>1, <1>2, <1>3, <1>5 DEF CallOK
<1> HIDE DEF c
<1>7. ~Reconciling(t)
  BY <1>1 DEF Reconciling
<1>8. /\ simulation' \in [n : Nat, level : LevelNames \cup {"none"}]
      /\ simulation.n <= simulation'.n
  BY <1>1, TypesNow
<1>9. /\ \A m \in DOMAIN c.writes : ~Creates(c.writes[m])
      /\ c.at \notin {"plan", "write", "attach"}
  BY <1>3
<1>10. calls[t].at # "bundle" /\ missed' \in BOOLEAN
  BY <1>1
<1> QED BY <1>1, <1>3, <1>4, <1>6, <1>7, <1>8, <1>9, <1>10, CalmStep

\* The parts that most actions leave alone.
Others == UNCHANGED <<simulation, level, proposals, bundles, reconciles, crashes, interlaced,
                      clobbered, missed, cut>>

LEMMA QuietOthers ==
  ASSUME ProposalInv, NEW t \in Callers, NEW c \in CallRecords, calls' = [calls EXCEPT ![t] = c],
         Others, calls[t].at # "bundle", c.writes = <<>>, c.queue = <<>>,
         c.at \in {"idle", "hazard", "trigger", "planning", "running", "after"},
         ~missed /\ ~interlaced /\ level = "low" /\ Reconciling(t) => Live = {}
  PROVE  ProposalInv'
<1>1. /\ simulation' \in [n : Nat, level : LevelNames \cup {"none"}]
      /\ simulation.n <= simulation'.n /\ level' \in LevelNames /\ missed' \in BOOLEAN
  BY TypesNow DEF Others
<1> QED BY <1>1, QuietStep DEF Others

LEMMA TriggerStep ==
  ASSUME ProposalInv, NEW t \in Callers, process_trigger(t)
  PROVE  ProposalInv'
<1> DEFINE c == IF SupervisorRuns THEN NoCall
                ELSE [NoCall EXCEPT !.at = "planning", !.decision = "run",
                                  !.previous = calls[t].previous]
<1>1. calls' = [calls EXCEPT ![t] = c] /\ Others /\ calls[t].at = "trigger"
  BY DEF process_trigger, Call, Others, ghosts
<1>2. calls[t].previous \in LevelNames \cup {"none"}
  BY TypesNow, CallTypes DEF CallRecords
<1>3. c \in CallRecords /\ c.at \in {"idle", "planning"} /\ c.writes = <<>> /\ c.queue = <<>>
  BY <1>2, IdleCall DEF CallRecords, Steps, NoCall
<1>4. ~Reconciling(t)
  BY <1>1 DEF Reconciling
<1> HIDE DEF c
<1> QED BY <1>1, <1>3, <1>4, QuietOthers

LEMMA OtherRunStep ==
  ASSUME ProposalInv, NEW t \in Callers, other_run(t) \/ run_over(t) \/ generate_proposals(t)
  PROVE  ProposalInv'
<1>1. PICK c : /\ calls' = [calls EXCEPT ![t] = c] /\ Others
               /\ calls[t].at \in {"idle", "running", "after"}
               /\ c \in {NoCall, [NoCall EXCEPT !.at = "running"],
                         [NoCall EXCEPT !.at = "planning", !.decision = "request"]}
  BY DEF other_run, run_over, generate_proposals, May, Call, Others, ghosts
<1>2. c \in CallRecords /\ c.at \in {"idle", "running", "planning"} /\ c.writes = <<>>
      /\ c.queue = <<>>
  BY <1>1, IdleCall DEF CallRecords, Steps, NoCall
<1>3. ~Reconciling(t)
  BY <1>1 DEF Reconciling
<1> QED BY <1>1, <1>2, <1>3, QuietOthers

LEMMA DoneCall ==
  ASSUME NEW t
  PROVE  Done(t) \in CallRecords /\ Done(t).at \in {"idle", "after"} /\ Done(t).writes = <<>>
           /\ Done(t).queue = <<>>
BY IdleCall DEF Done, CallRecords, Steps, NoCall

\* At a level that is read as high, the present one is not low.
LEMMA FailsStep ==
  ASSUME ProposalInv, NEW t \in Callers, model_fails(t)
  PROVE  ProposalInv'
<1>1. /\ calls' = [calls EXCEPT ![t] = Done(t)] /\ Others
      /\ calls[t].at = "plan" /\ calls[t].level \in HighRisk
  BY DEF model_fails, Call, Others, ghosts
<1>2. ~missed /\ ~interlaced => level # "low"
  BY <1>1 DEF ProposalInv, Serial, LevelIsRead, HighRisk
<1> QED BY <1>1, <1>2, DoneCall, QuietOthers

LEMMA ReconciledStep ==
  ASSUME ProposalInv, NEW t \in Callers, reconciled(t)
  PROVE  ProposalInv'
<1>1. calls' = [calls EXCEPT ![t] = Done(t)] /\ Others /\ calls[t].at = "attach"
  BY DEF reconciled, Call, Others, ghosts
<1>2. calls[t].key # NoKey
  BY <1>1, TypesNow DEF CallOK
<1>3. ~missed /\ ~interlaced => level # "low"
  BY <1>1, <1>2 DEF ProposalInv, Serial, LevelIsRead
<1> QED BY <1>1, <1>3, DoneCall, QuietOthers

\* What a finite family lists is finite.
LEMMA FiniteImage ==
  ASSUME NEW S, IsFiniteSet(S), NEW f, DOMAIN f = S, f = [x \in S |-> f[x]]
  PROVE  IsFiniteSet({f[x] : x \in S})
<1> DEFINE T == {f[x] : x \in S}
<1>1. f \in [S -> T]
  OBVIOUS
<1>2. f \in Surjection(S, T)
  BY <1>1 DEF Surjection
<1> QED BY <1>2, FS_Surjection

LEMMA SingleGroup ==
  ASSUME NEW w \in Writes
  PROVE  /\ <<w>> \in Seq(Writes) /\ Len(<<w>>) = 1 /\ DOMAIN <<w>> = {1} /\ <<w>>[1] = w
         /\ TypeOf(<<w>>) = w.to.type /\ Created(<<w>>) = w /\ <<w>> # <<>>
         /\ Creates(<<w>>) <=> w.row = New
         /\ WriteOK(w) => GroupOK(<<w>>)
<1>1. <<w>> \in Seq(Writes) /\ Len(<<w>>) = 1 /\ DOMAIN <<w>> = {1} /\ <<w>>[1] = w
  OBVIOUS
<1>2. Len(<<w>>) \in 1..2 /\ Len(<<w>>) # 2
  BY <1>1
<1>3. <<w>> # <<>>
  BY <1>1
<1> QED BY <1>1, <1>2, <1>3 DEF TypeOf, Created, Creates, GroupOK

\* A write for each of some proposals.
LEMMA SinglesListed ==
  ASSUME NEW P, IsFiniteSet(P), NEW f \in [P -> Writes], NEW groups,
         \A i \in P : <<f[i]>> \in groups,
         \A x \in groups : \E i \in P : x = <<f[i]>>
  PROVE  /\ Grouped(groups) \in Seq(Seq(Writes))
         /\ \A m \in DOMAIN Grouped(groups) : \E i \in P : Grouped(groups)[m] = <<f[i]>>
         /\ \A i \in P : \E m \in DOMAIN Grouped(groups) : Grouped(groups)[m] = <<f[i]>>
<1> DEFINE g == [i \in P |-> <<f[i]>>]
<1>1. groups = {g[i] : i \in P} /\ DOMAIN g = P /\ g = [i \in P |-> g[i]]
  OBVIOUS
<1>2. IsFiniteSet(groups)
  <2> HIDE DEF g
  <2> QED BY <1>1, FiniteImage
<1>3. \A i \in P : <<f[i]>> \in Seq(Writes) /\ <<f[i]>> # <<>>
  BY SingleGroup
<1>4. groups \in SUBSET Seq(Writes)
  BY <1>3
<1>5. /\ Grouped(groups) \in Seq(Seq(Writes))
      /\ \A m \in DOMAIN Grouped(groups) : Grouped(groups)[m] \in groups
      /\ \A x \in groups : x # <<>> =>
           \E m \in DOMAIN Grouped(groups) : Grouped(groups)[m] = x
  BY <1>2, <1>4, GroupsListed
<1> QED BY <1>3, <1>5

LEMMA FinitelyMany ==
  ASSUME ProposalTypes, NEW S \in SUBSET DOMAIN proposals
  PROVE  IsFiniteSet(S)
<1>1. DOMAIN proposals = 1..Len(proposals) /\ Len(proposals) \in Nat
  BY RowTypes
<1>2. IsFiniteSet(1..Len(proposals))
  BY <1>1, FS_Interval
<1> QED BY <1>1, <1>2, FS_Subset

LEMMA OpenStep ==
  ASSUME ProposalInv, NEW t \in Callers, NEW job \in {"edit", "approve", "reject"},
         NEW queue \in Seq(Nat), \A n \in DOMAIN queue : queue[n] \in DOMAIN proposals,
         open_case(t, job, queue)
  PROVE  ProposalInv'
<1> DEFINE c == [NoCall EXCEPT !.at = "case", !.queue = queue, !.decision = job]
<1>1. calls' = [calls EXCEPT ![t] = c] /\ Others /\ calls[t].at = "idle"
  BY DEF open_case, Call, May, Others, ghosts
<1>2. c \in CallRecords /\ c.at = "case" /\ c.writes = <<>> /\ c.queue = queue /\ c.decision = job
  BY IdleCall DEF CallRecords, Steps, NoCall
<1>3. calls'[t] = c
  BY <1>1, TypesNow DEF ProposalTypes
<1>5. ~Reconciling(t)
  BY <1>1 DEF Reconciling
<1> HIDE DEF c
<1>8. \A n \in DOMAIN calls'[t].queue : calls'[t].queue[n] \in DOMAIN proposals'
  BY <1>1, <1>2, <1>3 DEF Others
<1>4. CallOK(t)'
  BY <1>2, <1>3, <1>8 DEF CallOK
<1>6. /\ simulation' \in [n : Nat, level : LevelNames \cup {"none"}]
      /\ simulation.n <= simulation'.n /\ level' \in LevelNames /\ missed' \in BOOLEAN
  BY <1>1, TypesNow DEF Others
<1>7. \A m \in DOMAIN c.writes : ~Creates(c.writes[m])
  BY <1>2
<1> QED BY <1>1, <1>2, <1>4, <1>5, <1>6, <1>7, CalmStep DEF Others

LEMMA OpenOneStep ==
  ASSUME ProposalInv, NEW t \in Callers, NEW job \in {"edit", "approve", "reject"},
         NEW i \in Pending, open_case(t, job, <<i>>)
  PROVE  ProposalInv'
<1>1. i \in DOMAIN proposals /\ DOMAIN proposals = 1..Len(proposals) /\ Len(proposals) \in Nat
  BY TypesNow, RowTypes
<1>2. <<i>> \in Seq(Nat) /\ \A n \in DOMAIN <<i>> : <<i>>[n] = i
  BY <1>1
<1> QED BY <1>1, <1>2, OpenStep

LEMMA OpenPackageStep ==
  ASSUME ProposalInv, NEW t \in Callers, NEW job \in {"edit", "approve", "reject"},
         NEW key, open_case(t, job, Package(key))
  PROVE  ProposalInv'
<1> DEFINE S == {i \in Pending : proposals[i].stage = key}
<1>1. /\ S \in SUBSET DOMAIN proposals /\ DOMAIN proposals = 1..Len(proposals)
      /\ Len(proposals) \in Nat
  BY TypesNow, RowTypes
<1>2. IsFiniteSet(S)
  BY <1>1, FinitelyMany, TypesNow
<1>3. Package(key) \in Seq(S)
  BY <1>2, ListedOnce DEF Package
<1>4. Package(key) \in Seq(Nat) /\ \A n \in DOMAIN Package(key) : Package(key)[n] \in S
  <2>1. S \subseteq Nat
    BY <1>1
  <2>2. \A q \in Seq(S) : q \in Seq(Nat) /\ \A n \in DOMAIN q : q[n] \in S
    <3> HIDE DEF S
    <3> SUFFICES ASSUME NEW q \in Seq(S) PROVE q \in Seq(Nat) /\ \A n \in DOMAIN q : q[n] \in S
      OBVIOUS
    <3>1. q \in [1..Len(q) -> S] /\ Len(q) \in Nat /\ DOMAIN q = 1..Len(q)
      BY LenProperties
    <3>2. \A n \in 1..Len(q) : q[n] \in Nat
      BY <3>1, <2>1
    <3>3. q \in [1..Len(q) -> Nat]
      BY <3>1, <3>2
    <3> QED BY <3>1, <3>3, SeqDef
  <2> QED BY <1>3, <2>2
<1> QED BY <1>1, <1>4, OpenStep

LEMMA HeadIsThere ==
  ASSUME ProposalInv, NEW t \in Callers, calls[t].queue # <<>>
  PROVE  /\ Head(calls[t].queue) \in DOMAIN proposals /\ Head(calls[t].queue) # New
         /\ Head(calls[t].queue) \in Nat
         /\ Tail(calls[t].queue) \in Seq(Nat)
         /\ \A n \in DOMAIN Tail(calls[t].queue) : Tail(calls[t].queue)[n] \in DOMAIN proposals
<1> DEFINE q == calls[t].queue
<1>1. q \in Seq(Nat) /\ \A n \in DOMAIN q : q[n] \in DOMAIN proposals
  BY TypesNow, CallTypes DEF CallOK
<1>2. 1 \in DOMAIN q /\ Head(q) = q[1]
  BY <1>1, EmptySeq, LenProperties
<1>3. DOMAIN proposals = 1..Len(proposals) /\ Len(proposals) \in Nat
  BY TypesNow, RowTypes
<1>4. /\ Tail(q) \in Seq(Nat) /\ Len(Tail(q)) = Len(q) - 1 /\ Len(q) \in Nat
      /\ DOMAIN q = 1..Len(q) /\ \A n \in 1..Len(Tail(q)) : Tail(q)[n] = q[n + 1]
  BY <1>1, HeadTailProperties, LenProperties
<1>5. DOMAIN Tail(q) = 1..(Len(q) - 1)
  BY <1>4, LenProperties
<1>6. \A n \in 1..(Len(q) - 1) : n + 1 \in 1..Len(q)
  BY <1>4
<1> HIDE DEF q
<1>7. Head(q) \in DOMAIN proposals /\ Head(q) # New /\ Head(q) \in Nat
  BY <1>1, <1>2, <1>3 DEF New
<1>8. \A n \in DOMAIN Tail(q) : Tail(q)[n] \in DOMAIN proposals
  BY <1>1, <1>4, <1>5, <1>6
<1> QED BY <1>4, <1>7, <1>8 DEF q

\* A row that is stored over again.
LEMMA WriteOfRow ==
  ASSUME ProposalInv, NEW i \in Pending, NEW row \in Rows, SameProposal(row, proposals[i])
  PROVE  /\ Write(i, row) \in Writes /\ WriteOK(Write(i, row))
         /\ Write(i, row).row = i /\ i # New /\ Write(i, row).base = proposals[i]
         /\ Write(i, row).to = row
<1>1. /\ i \in DOMAIN proposals /\ DOMAIN proposals = 1..Len(proposals) /\ Len(proposals) \in Nat
      /\ proposals[i] \in Rows /\ proposals[i].stage \in HighRisk \X (1..simulation.n)
      /\ proposals[i].status = "pending"
  BY TypesNow, RowTypes DEF RowsOK, Pending
<1>2. i \in 1..Len(proposals) /\ i # New /\ i \in Nat /\ i \in 0..Len(proposals)
  BY <1>1 DEF New
<1>3. Write(i, row) = [row |-> i, base |-> proposals[i], to |-> row]
  BY <1>2 DEF Write
<1>4. row.stage = proposals[i].stage
  BY DEF SameProposal
<1> QED BY <1>1, <1>2, <1>3, <1>4 DEF Writes, WriteOK

LEMMA ResolutionOf ==
  ASSUME NEW row \in Rows, NEW decision \in {"edit", "approve", "reject"}
  PROVE  Resolution(row, decision) \in Rows /\ SameProposal(Resolution(row, decision), row)
<1>1. CASE decision = "edit"
  BY <1>1 DEF Resolution, Rows, SameProposal
<1>2. CASE decision = "approve"
  BY <1>2 DEF Resolution, Rows, SameProposal, Statuses
<1>3. CASE decision = "reject"
  BY <1>3 DEF Resolution, Rows, SameProposal, Statuses
<1> QED BY <1>1, <1>2, <1>3

LEMMA ReadCaseStep ==
  ASSUME ProposalInv, NEW t \in Callers, read_case(t)
  PROVE  ProposalInv'
<1> DEFINE i == Head(calls[t].queue)
           w == Write(i, Resolution(proposals[i], calls[t].decision))
           c == [calls[t] EXCEPT !.at = "resolve", !.writes = <<<<w>>>>]
<1>1. /\ calls' = [calls EXCEPT ![t] = IF proposals[i].status # "pending" THEN NoCall ELSE c]
      /\ Others /\ calls[t].at = "case" /\ calls[t].queue # <<>>
  BY DEF read_case, Call, Others, ghosts
<1>2. ~Reconciling(t)
  BY <1>1 DEF Reconciling
<1>3. CASE proposals[i].status # "pending"
  <2>1. calls' = [calls EXCEPT ![t] = NoCall] /\ NoCall.at = "idle"
    BY <1>1, <1>3 DEF NoCall
  <2> QED BY <1>1, <1>2, <2>1, IdleCall, QuietOthers
<1>4. CASE proposals[i].status = "pending"
  <2>1. i \in Pending /\ i # New /\ proposals[i] \in Rows
    BY <1>1, <1>4, HeadIsThere, TypesNow, RowTypes DEF Pending
  <2>2. calls[t].decision \in {"edit", "approve", "reject"}
    BY <1>1, TypesNow DEF CallOK
  <2>3. /\ w \in Writes /\ WriteOK(w) /\ w.row = i
        /\ w.to = Resolution(w.base, calls[t].decision)
    BY <2>1, <2>2, ResolutionOf, WriteOfRow
  <2>4. <<w>> \in Seq(Writes) /\ GroupOK(<<w>>) /\ ~Creates(<<w>>) /\ Len(<<w>>) = 1 /\ <<w>>[1] = w
    BY <2>1, <2>3, SingleGroup
  <2>5. calls[t] \in CallRecords /\ \A n \in DOMAIN calls[t].queue : calls[t].queue[n] \in DOMAIN proposals
    BY TypesNow, CallTypes DEF CallOK
  <2>6. PICK v : v = w
    OBVIOUS
  <2>7. Head(calls[t].queue) = v.row
    BY <2>3, <2>6
  <2>8. /\ <<v>> \in Seq(Writes) /\ GroupOK(<<v>>) /\ ~Creates(<<v>>) /\ Len(<<v>>) = 1
        /\ <<v>>[1] = v /\ v.to = Resolution(v.base, calls[t].decision)
        /\ c = [calls[t] EXCEPT !.at = "resolve", !.writes = <<<<v>>>>]
    BY <2>3, <2>4, <2>6
  <2>9. /\ <<<<v>>>> \in Seq(Seq(Writes)) /\ Len(<<<<v>>>>) = 1
        /\ \A m \in DOMAIN <<<<v>>>> : <<<<v>>>>[m] = <<v>>
    BY <2>8
  <2>10. /\ c \in CallRecords /\ c.at = "resolve" /\ c.writes = <<<<v>>>>
         /\ c.queue = calls[t].queue /\ c.decision = calls[t].decision
    BY <2>5, <2>8, <2>9 DEF CallRecords, Steps
  <2> HIDE DEF i, w, c
  <2>11. calls' = [calls EXCEPT ![t] = c] /\ calls'[t] = c
    BY <1>1, <1>4, TypesNow DEF ProposalTypes
  <2>15. proposals' = proposals /\ simulation' = simulation
    BY <1>1 DEF Others
  <2>16. GroupOK(<<v>>)'
    BY <2>8, <2>15 DEF GroupOK, WriteOK, SameProposal
  <2>17. \A m \in DOMAIN calls'[t].writes : calls'[t].writes[m] = <<v>>
    BY <2>9, <2>10, <2>11
  <2>18. \A m \in DOMAIN calls'[t].writes : GroupOK(calls[t].writes[m])'
    <3>1. \A g : g = <<v>> => GroupOK(g)'
      BY ONLY <2>16
    <3>2. SUFFICES ASSUME NEW m \in DOMAIN calls'[t].writes
                   PROVE  GroupOK(calls[t].writes[m])'
      OBVIOUS
    <3>3. PICK g : g = calls'[t].writes[m]
      OBVIOUS
    <3>4. GroupOK(g)'
      BY <3>1, <3>3, <2>17
    <3> QED BY ONLY <3>3, <3>4 DEF GroupOK, WriteOK, SameProposal
  <2>19. calls'[t].writes[1][1] = v /\ Len(calls'[t].writes) = 1 /\ Len(calls'[t].writes[1]) = 1
    BY <2>9, <2>10, <2>11
  <2>20. \A n \in DOMAIN calls'[t].queue : calls'[t].queue[n] \in DOMAIN proposals'
    BY <2>5, <2>10, <2>11, <2>15
  <2>12. CallOK(t)'
    <3>1. /\ calls'[t].at = "resolve" /\ calls'[t].decision \in {"edit", "approve", "reject"}
          /\ calls'[t].queue # <<>> /\ Head(calls'[t].queue) = v.row
          /\ v.to = Resolution(v.base, calls'[t].decision)
      BY <1>1, <2>2, <2>7, <2>8, <2>10, <2>11
    <3> QED BY ONLY <3>1, <2>18, <2>19, <2>20 DEF CallOK
  <2>13. /\ simulation' \in [n : Nat, level : LevelNames \cup {"none"}]
         /\ simulation.n <= simulation'.n /\ level' \in LevelNames /\ missed' \in BOOLEAN
    BY <1>1, TypesNow DEF Others
  <2>14. /\ \A m \in DOMAIN c.writes : ~Creates(c.writes[m])
         /\ c.at \notin {"plan", "write", "attach"}
    BY <2>8, <2>9, <2>10
  <2> QED BY <1>1, <1>2, <2>10, <2>11, <2>12, <2>13, <2>14, CalmStep DEF Others
<1> QED BY <1>3, <1>4

LEMMA CaseOverStep ==
  ASSUME ProposalInv, NEW t \in Callers, bundle_fails(t) \/ close_case(t)
  PROVE  ProposalInv'
<1>1. calls' = [calls EXCEPT ![t] = NoCall] /\ Others /\ calls[t].at \in {"resolve", "case"}
  BY DEF bundle_fails, close_case, Call, Others, ghosts
<1>2. ~Reconciling(t) /\ NoCall.at = "idle"
  BY <1>1 DEF Reconciling, NoCall
<1> QED BY <1>1, <1>2, IdleCall, QuietOthers

LEMMA WarnStep ==
  ASSUME ProposalInv, NEW t \in Callers, NEW i \in DOMAIN proposals, generate_warnings(t, i)
  PROVE  ProposalInv'
<1> DEFINE c == [NoCall EXCEPT !.at = "bundle", !.queue = <<i>>, !.decision = "warn"]
<1>1. /\ calls' = [calls EXCEPT ![t] = c] /\ Others /\ calls[t].at = "idle"
      /\ proposals[i].status = "approved"
  BY DEF generate_warnings, Call, May, Others, ghosts
<1>2. DOMAIN proposals = 1..Len(proposals) /\ Len(proposals) \in Nat
  BY TypesNow, RowTypes
<1>3. /\ <<i>> \in Seq(Nat) /\ <<i>> # <<>> /\ Head(<<i>>) = i /\ Tail(<<i>>) = <<>>
      /\ \A n \in DOMAIN <<i>> : <<i>>[n] = i
  BY <1>2
<1>4. c \in CallRecords /\ c.at = "bundle" /\ c.writes = <<>> /\ c.queue = <<i>>
  BY <1>3, IdleCall DEF CallRecords, Steps, NoCall
<1>5. calls'[t] = c
  BY <1>1, TypesNow DEF ProposalTypes
<1>7. ~Reconciling(t)
  BY <1>1 DEF Reconciling
<1> HIDE DEF c
<1>10. /\ \A n \in DOMAIN calls'[t].queue : calls'[t].queue[n] \in DOMAIN proposals'
       /\ calls'[t].queue # <<>> /\ Tail(calls'[t].queue) = <<>>
       /\ proposals'[Head(calls'[t].queue)].status = "approved"
  BY <1>1, <1>3, <1>4, <1>5 DEF Others
<1>6. CallOK(t)'
  BY <1>4, <1>5, <1>10 DEF CallOK
<1>8. /\ simulation' \in [n : Nat, level : LevelNames \cup {"none"}]
      /\ simulation.n <= simulation'.n /\ level' \in LevelNames /\ missed' \in BOOLEAN
  BY <1>1, TypesNow DEF Others
<1>9. \A m \in DOMAIN c.writes : ~Creates(c.writes[m])
  BY <1>4
<1> QED BY <1>1, <1>4, <1>6, <1>7, <1>8, <1>9, CalmStep DEF Others

LEMMA GroupsNow ==
  ASSUME UNCHANGED <<proposals, simulation>>, NEW t \in Callers,
         \A m \in DOMAIN calls'[t].writes : GroupOK(calls'[t].writes[m])
  PROVE  \A m \in DOMAIN calls'[t].writes : GroupOK(calls[t].writes[m])'
<1> SUFFICES ASSUME NEW m \in DOMAIN calls'[t].writes PROVE GroupOK(calls[t].writes[m])'
  OBVIOUS
<1>1. PICK g : g = calls'[t].writes[m]
  OBVIOUS
<1>2. GroupOK(g)
  BY <1>1
<1>3. GroupOK(g)'
  BY <1>2 DEF GroupOK, WriteOK, SameProposal
<1> QED BY ONLY <1>1, <1>3 DEF GroupOK, WriteOK, SameProposal

LEMMA ReadPackageStep ==
  ASSUME ProposalInv, NEW t \in Callers, read_package(t)
  PROVE  ProposalInv'
<1> DEFINE package == {i \in Pending : proposals[i].stage = calls[t].key}
           groups == {<<Write(i, proposals[i])>> : i \in package}
           ws == Grouped(groups)
           c == [calls[t] EXCEPT !.at = "attach", !.writes = ws]
<1>1. /\ calls' = [calls EXCEPT ![t] = IF calls[t].key = NoKey THEN Done(t) ELSE c]
      /\ Others /\ calls[t].at = "write" /\ calls[t].writes = <<>>
  BY DEF read_package, Call, Others, ghosts
<1>2. CASE calls[t].key = NoKey
  <2>1. calls' = [calls EXCEPT ![t] = Done(t)]
    BY <1>1, <1>2
  <2>2. \A m \in DOMAIN calls[t].writes : FALSE
    BY <1>1
  <2>3. ~missed /\ ~interlaced => Live = {}
    BY <1>1, <1>2, <2>2 DEF ProposalInv, Serial, LevelIsRead
  <2>4. /\ Done(t) \in CallRecords /\ Done(t).at \in {"idle", "after"}
        /\ Done(t).writes = <<>> /\ Done(t).queue = <<>>
    BY DoneCall
  <2>5. Others /\ calls[t].at # "bundle"
    BY <1>1
  <2> HIDE DEF package, ws, c
  <2> QED BY <2>1, <2>3, <2>4, <2>5, QuietOthers
<1>3. CASE calls[t].key # NoKey
  <2> DEFINE f == [i \in package |-> Write(i, proposals[i])]
  <2>1. \A i \in package : /\ i \in Pending /\ i \in DOMAIN proposals /\ proposals[i] \in Rows
                           /\ proposals[i].status = "pending"
    BY TypesNow, RowTypes DEF Pending
  <2>2. \A i \in package :
          /\ f[i] \in Writes /\ WriteOK(f[i]) /\ f[i].row # New /\ f[i].to.status = "pending"
    BY <2>1, WriteOfRow DEF SameProposal
  <2>3. IsFiniteSet(package) /\ f \in [package -> Writes]
    BY <2>1, <2>2, TypesNow, FinitelyMany
  <2>4. /\ \A i \in package : <<f[i]>> \in groups
        /\ \A x \in groups : \E i \in package : x = <<f[i]>>
    OBVIOUS
  <2>5. ws \in Seq(Seq(Writes)) /\ \A m \in DOMAIN ws : \E i \in package : ws[m] = <<f[i]>>
    <3> HIDE DEF package, groups, f
    <3> QED BY <2>3, <2>4, SinglesListed
  <2>6. \A m \in DOMAIN ws : /\ GroupOK(ws[m]) /\ ~Creates(ws[m])
                             /\ \A k \in DOMAIN ws[m] : ws[m][k].to.status = "pending"
    <3> HIDE DEF package, ws, f
    <3> SUFFICES ASSUME NEW m \in DOMAIN ws
                 PROVE  /\ GroupOK(ws[m]) /\ ~Creates(ws[m])
                        /\ \A k \in DOMAIN ws[m] : ws[m][k].to.status = "pending"
      OBVIOUS
    <3>1. PICK i \in package : ws[m] = <<f[i]>>
      BY <2>5
    <3>2. f[i] \in Writes /\ WriteOK(f[i]) /\ f[i].row # New /\ f[i].to.status = "pending"
      BY <2>2
    <3> QED BY <3>1, <3>2, SingleGroup
  <2>7. calls[t] \in CallRecords /\ \A n \in DOMAIN calls[t].queue : calls[t].queue[n] \in DOMAIN proposals
    BY TypesNow, CallTypes DEF CallOK
  <2> HIDE DEF package, ws, f
  <2>8. /\ c \in CallRecords /\ c.at = "attach" /\ c.writes = ws /\ c.key = calls[t].key
        /\ c.queue = calls[t].queue
    BY <2>5, <2>7 DEF CallRecords, Steps
  <2> HIDE DEF c
  <2>9. calls' = [calls EXCEPT ![t] = c] /\ calls'[t] = c
    BY <1>1, <1>3, TypesNow DEF ProposalTypes
  <2>10. \A m \in DOMAIN calls'[t].writes : GroupOK(calls[t].writes[m])'
    BY <1>1, <2>6, <2>8, <2>9, GroupsNow DEF Others
  <2>11. \A n \in DOMAIN calls'[t].queue : calls'[t].queue[n] \in DOMAIN proposals'
    BY <1>1, <2>7, <2>8, <2>9 DEF Others
  <2>12. \A m \in DOMAIN calls'[t].writes : ~Creates(calls[t].writes[m])'
    BY <2>6, <2>8, <2>9 DEF Creates, Created
  <2>13. \A m \in DOMAIN calls'[t].writes : \A k \in DOMAIN calls'[t].writes[m] :
           calls'[t].writes[m][k].to.status = "pending"
    BY <2>6, <2>8, <2>9
  <2>14. CallOK(t)'
    BY <1>3, <2>8, <2>9, <2>10, <2>11, <2>12, <2>13 DEF CallOK
  <2>15. /\ simulation' \in [n : Nat, level : LevelNames \cup {"none"}]
         /\ simulation.n <= simulation'.n /\ level' \in LevelNames /\ missed' \in BOOLEAN
    BY <1>1, TypesNow DEF Others
  <2> QED BY <1>1, <1>3, <2>6, <2>8, <2>9, <2>14, <2>15, CalmStep DEF Others
<1> QED BY <1>2, <1>3

-----------------------------------------------------------------------------
\* A reconciliation reads the level: when another is under way, they overlap.
LEMMA ReadLevelStep ==
  ASSUME ProposalInv, NEW t \in Callers, read_level(t)
  PROVE  ProposalInv'
<1> DEFINE c == [calls[t] EXCEPT !.at = "plan", !.level = level,
                                 !.key = <<level, simulation.n>>, !.born = reconciles + 1]
<1>1. /\ calls' = [calls EXCEPT ![t] = c] /\ reconciles' = reconciles + 1 /\ missed' = FALSE
      /\ interlaced' = (interlaced \/ \E u \in Callers : Reconciling(u))
      /\ UNCHANGED <<simulation, level, proposals, bundles, crashes, clobbered, cut>>
      /\ calls[t].at = "planning" /\ simulation.n > 0
  BY DEF read_level, Call
<1>2. /\ ProposalTypes /\ RowsOK /\ ApprovalsAreCarriedOut
      /\ \A u \in Callers : CallOK(u)
  BY DEF ProposalInv
<1>3. calls[t] \in CallRecords /\ calls[t].writes = <<>>
  BY <1>1, <1>2, CallTypes DEF CallOK
<1>4. simulation.n \in Nat /\ reconciles \in Nat /\ level \in LevelNames
  BY TypesNow
<1>13. <<level, simulation.n>> \in LevelNames \X Nat /\ reconciles + 1 \in Nat
  BY <1>4
<1>5. /\ c \in CallRecords /\ c.at = "plan" /\ c.level = level /\ c.key = <<level, simulation.n>>
      /\ c.born = reconciles + 1 /\ c.writes = <<>> /\ c.queue = calls[t].queue
  BY <1>3, <1>4, <1>13 DEF CallRecords, Steps
<1> HIDE DEF c
<1>6. calls'[t] = c /\ \A u \in Callers : u # t => calls'[u] = calls[u]
  BY <1>1, <1>2 DEF ProposalTypes
<1>7. calls' \in [Callers -> CallRecords]
  BY <1>1, <1>2, <1>5 DEF ProposalTypes
<1>8. ProposalTypes'
  <2>1. reconciles' \in Nat
    BY ONLY <1>1, <1>4
  <2>3. missed' \in BOOLEAN
    BY ONLY <1>1
  <2>2. interlaced' \in BOOLEAN
    BY ONLY <1>1
  <2> QED BY <1>1, <1>2, <1>7, <2>1, <2>2, <2>3 DEF ProposalTypes
<1>9. RowsOK'
  BY <1>1, <1>2 DEF RowsOK
<1>10. \A u \in Callers : CallOK(u)'
  <2> SUFFICES ASSUME NEW u \in Callers PROVE CallOK(u)'
    OBVIOUS
  <2>1. CASE u = t
    <3>1. \A n \in DOMAIN calls'[t].queue : calls'[t].queue[n] \in DOMAIN proposals'
      BY <1>1, <1>2, <1>5, <1>6 DEF CallOK
    <3>2. calls'[t].key[1] = calls'[t].level /\ calls'[t].key[2] \in 1..simulation'.n
      BY <1>1, <1>4, <1>5, <1>6
    <3> QED BY <2>1, <1>5, <1>6, <3>1, <3>2 DEF CallOK
  <2>2. CASE u # t
    <3>1. RowsKept
      BY <1>1, <1>2, UntouchedRows
    <3> QED BY <2>2, <3>1, <1>1, <1>2, <1>4, <1>6, <1>8, CallsKept
  <2> QED BY <2>1, <2>2
<1>11. ApprovalsAreCarriedOut'
  BY <1>1, <1>2, BundlesUntouched
<1>12. Serial'
  <2> SUFFICES ASSUME ~interlaced'
               PROVE  (OneReconciles /\ LiveIsNewest /\ CreatedAlone /\ CreatedUnasked
                         /\ LevelIsRead)'
    BY DEF Serial
  <2>1. ~interlaced /\ (\A u \in Callers : ~Reconciling(u)) /\ LiveIsNewest
    BY <1>1 DEF ProposalInv, Serial
  <2>2. \A u \in Callers : u # t => ~Reconciling(u)'
    BY <1>6, <2>1 DEF Reconciling
  <2>3. \A u \in Callers : \A m \in DOMAIN calls'[u].writes : ~Creates(calls'[u].writes[m])
    <3> SUFFICES ASSUME NEW u \in Callers, NEW m \in DOMAIN calls'[u].writes
                 PROVE  ~Creates(calls'[u].writes[m])
      OBVIOUS
    <3>1. u # t
      BY <1>5, <1>6
    <3>2. calls[u].at # "write" /\ calls'[u] = calls[u]
      BY <3>1, <1>6, <2>1 DEF Reconciling
    <3> QED BY <3>2, <1>2, OnlyWritesCreate
  <2>4. OneReconciles'
    <3>1. \A u, v \in Callers : (Reconciling(u) /\ Reconciling(v))' => u = v
      BY <2>2
    <3>2. \A u \in Callers : calls'[u].at = "plan" => calls'[u].born = reconciles'
      BY <1>1, <1>5, <1>6, <2>1 DEF Reconciling
    <3>3. \A i \in DOMAIN proposals : proposals[i].born <= reconciles /\ proposals[i].born \in Nat
      BY <1>2, <2>1, RowTypes DEF ProposalInv, Serial, OneReconciles
    <3>4. \A i \in DOMAIN proposals' : proposals'[i].born <= reconciles'
      BY <1>1, <1>4, <3>3
    <3> QED BY <3>1, <3>2, <3>4, <2>3 DEF OneReconciles, Creates, Created
  <2>5. LiveIsNewest'
    BY <1>1, <2>1 DEF LiveIsNewest, Live, Pending, NewestOf, OfType, Newer
  <2>6. CreatedAlone' /\ CreatedUnasked'
    BY <2>3 DEF CreatedAlone, CreatedUnasked, Alone, Unasked, Creates, Created
  <2>7. LevelIsRead'
    <3>1. \A u \in Callers : calls'[u].at = "plan" => calls'[u].level = level'
      BY <1>1, <1>5, <1>6, <2>1 DEF Reconciling
    <3>2. \A u \in Callers : calls'[u].at \notin {"write", "attach"}
      BY <1>5, <1>6, <2>1 DEF Reconciling
    <3>3. Reconciling(t)'
      BY <1>5, <1>6 DEF Reconciling
    <3> QED BY <3>1, <3>2, <3>3 DEF LevelIsRead
  <2> QED BY <2>4, <2>5, <2>6, <2>7
<1> QED BY <1>8, <1>9, <1>10, <1>11, <1>12 DEF ProposalInv

\* A reconciliation has decided what it writes.
LEMMA PlannedStep ==
  ASSUME ProposalInv, NEW t \in Callers, NEW c \in CallRecords, calls' = [calls EXCEPT ![t] = c],
         Others, calls[t].at = "plan", c.at = "write", CallOK(t)',
         \A m \in DOMAIN c.writes : Creates(c.writes[m]) =>
           Created(c.writes[m]).to.born = calls[t].born,
         ~interlaced => Alone(c.writes),
         ~interlaced /\ clobbered = {} => Unasked(c.writes),
         ~interlaced /\ ~missed /\ c.key # NoKey => level # "low",
         c.key = NoKey =>
           \A i \in Live : \E m \in DOMAIN c.writes : c.writes[m][1].row = i
  PROVE  ProposalInv'
<1>1. ProposalTypes /\ RowsOK /\ (\A u \in Callers : CallOK(u)) /\ ApprovalsAreCarriedOut
  BY DEF ProposalInv
<1>2. calls'[t] = c /\ \A u \in Callers : u # t => calls'[u] = calls[u]
  BY <1>1 DEF ProposalTypes
<1>3. calls' \in [Callers -> CallRecords]
  BY <1>1 DEF ProposalTypes
<1>4. ProposalTypes'
  BY <1>1, <1>3 DEF ProposalTypes, Others
<1>5. RowsOK'
  BY <1>1 DEF RowsOK, Others
<1>6. \A u \in Callers : CallOK(u)'
  <2>1. RowsKept
    BY <1>1, UntouchedRows DEF Others
  <2>2. simulation'.n \in Nat /\ simulation.n <= simulation'.n
    BY TypesNow DEF Others
  <2> QED BY <1>1, <1>2, <1>4, <2>1, <2>2, CallsKept
<1>7. ApprovalsAreCarriedOut'
  BY <1>1, BundlesUntouched DEF Others
<1>8. Serial'
  <2> SUFFICES ASSUME ~interlaced
               PROVE  (OneReconciles /\ LiveIsNewest /\ CreatedAlone /\ CreatedUnasked
                         /\ LevelIsRead)'
    BY DEF Serial, Others
  <2>1. OneReconciles /\ LiveIsNewest /\ CreatedAlone /\ CreatedUnasked /\ LevelIsRead
    BY DEF ProposalInv, Serial
  <2>2. Reconciling(t) /\ \A u \in Callers : Reconciling(u)' => Reconciling(u)
    BY <1>2 DEF Reconciling
  <2>3. OneReconciles'
    <3>1. \A u, v \in Callers : (Reconciling(u) /\ Reconciling(v))' => u = v
      BY <2>1, <2>2 DEF OneReconciles
    <3>2. \A u \in Callers : calls'[u].at = "plan" => calls'[u].born = reconciles'
      BY <1>2, <2>1 DEF OneReconciles, Others
    <3>3. \A u \in Callers : \A m \in DOMAIN calls'[u].writes :
            Creates(calls'[u].writes[m]) => Created(calls'[u].writes[m]).to.born = reconciles'
      BY <1>2, <2>1 DEF OneReconciles, Others
    <3>4. \A i \in DOMAIN proposals' : proposals'[i].born <= reconciles'
      BY <2>1 DEF OneReconciles, Others
    <3> QED BY <3>1, <3>2, <3>3, <3>4 DEF OneReconciles, Creates, Created
  <2>4. LiveIsNewest'
    BY <2>1 DEF LiveIsNewest, Live, Pending, NewestOf, OfType, Newer, Others
  <2>5. Live' = Live
    BY DEF Live, Pending, Others
  <2>6. CreatedAlone'
    <3> SUFFICES ASSUME NEW u \in Callers PROVE Alone(calls[u].writes)'
      BY DEF CreatedAlone
    <3>1. Alone(calls'[u].writes)
      BY <1>2, <2>1 DEF CreatedAlone
    <3> QED BY <3>1, <2>5 DEF Alone, Creates, Created, TypeOf, Others
  <2>7. CreatedUnasked'
    <3> SUFFICES ASSUME clobbered = {}, NEW u \in Callers PROVE Unasked(calls[u].writes)'
      BY DEF CreatedUnasked, Others
    <3>1. Unasked(calls'[u].writes)
      BY <1>2, <2>1 DEF CreatedUnasked
    <3>2. proposals' = proposals
      BY DEF Others
    <3> QED BY ONLY <3>1, <3>2 DEF Unasked, Creates, Created, TypeOf, NewestOf, OfType, Newer, Answers
  <2>8. LevelIsRead'
    <3> SUFFICES ASSUME ~missed PROVE LevelIsRead'
      BY DEF LevelIsRead, Others
    <3>1. \A u \in Callers : calls'[u].at = "plan" => calls'[u].level = level'
      BY <1>2, <2>1 DEF LevelIsRead, Others
    <3>2. \A u \in Callers : calls'[u].at \in {"write", "attach"} /\ calls'[u].key # NoKey =>
            level' # "low"
      BY <1>2, <2>1 DEF LevelIsRead, Others
    <3>3. \A u \in Callers : calls'[u].at = "write" /\ calls'[u].key = NoKey =>
            \A i \in Live' : \E m \in DOMAIN calls'[u].writes : calls'[u].writes[m][1].row = i
      BY <1>2, <2>1, <2>5 DEF LevelIsRead
    <3>4. Reconciling(t)'
      BY <1>2 DEF Reconciling
    <3> QED BY <3>1, <3>2, <3>3, <3>4 DEF LevelIsRead
  <2> QED BY <2>3, <2>4, <2>6, <2>7, <2>8
<1> QED BY <1>4, <1>5, <1>6, <1>7, <1>8 DEF ProposalInv

-----------------------------------------------------------------------------
(***************************************************************************)
(* Writes of a proposal that is there.                                     *)
(***************************************************************************)
LEMMA RestGroups ==
  ASSUME NEW ws \in Seq(Seq(Writes)), ws # <<>>, \A m \in DOMAIN ws : GroupOK(ws[m])
  PROVE  /\ 1 \in DOMAIN ws /\ First(ws) = ws[1][1] /\ First(ws) \in Writes /\ WriteOK(First(ws))
         /\ 1 \in DOMAIN ws[1]
         /\ Left(ws) \in Seq(Seq(Writes))
         /\ \E d \in {0, 1} :
              /\ d = 1 <=> Len(ws[1]) = 1
              /\ \A m \in DOMAIN Left(ws) :
                   /\ m \in Nat /\ m + d \in DOMAIN ws
                   /\ GroupOK(Left(ws)[m]) /\ TypeOf(Left(ws)[m]) = TypeOf(ws[m + d])
                   /\ Created(Left(ws)[m]) = Created(ws[m + d])
                   /\ m + d # 1 => Left(ws)[m] = ws[m + d]
                   /\ m + d = 1 => Len(Left(ws)[m]) = 1 /\ Len(ws[1]) = 2
                   /\ \A k \in DOMAIN Left(ws)[m] :
                        \E l \in DOMAIN ws[m + d] : Left(ws)[m][k] = ws[m + d][l]
              /\ \A k \in DOMAIN ws : k # 1 => k - d \in DOMAIN Left(ws) /\ (k - d) + d = k
<1>1. \A m \in DOMAIN ws : Len(ws[m]) \in 1..2 /\ ws[m] \in Seq(Writes)
  BY DEF GroupOK
<1>2. /\ 1 \in DOMAIN ws /\ First(ws) = ws[1][1] /\ ws[1][1] \in Writes
      /\ Left(ws) \in Seq(Seq(Writes))
      /\ \E d \in {0, 1} :
           /\ d = 1 <=> Len(ws[1]) = 1
           /\ \A m \in DOMAIN Left(ws) :
                /\ m + d \in DOMAIN ws
                /\ m + d # 1 => Left(ws)[m] = ws[m + d]
                /\ m + d = 1 => m = 1 /\ Left(ws)[m] = <<ws[1][2]>> /\ Len(ws[1]) = 2
           /\ \A k \in DOMAIN ws : k # 1 => k - d \in DOMAIN Left(ws)
  BY <1>1, RestOfWrites
<1>3. /\ DOMAIN ws = 1..Len(ws) /\ DOMAIN Left(ws) = 1..Len(Left(ws))
      /\ Len(ws) \in Nat /\ Len(Left(ws)) \in Nat
  BY <1>2, LenProperties
<1>4. DOMAIN ws[1] = 1..Len(ws[1]) /\ ws[1] \in Seq(Writes) /\ Len(ws[1]) \in 1..2
  BY <1>1, <1>2, LenProperties
<1>5. 1 \in DOMAIN ws[1]
  <2>1. \A n \in 1..2 : 1 \in 1..n
    OBVIOUS
  <2> QED BY ONLY <1>4, <2>1
<1>6. WriteOK(ws[1][1])
  BY <1>2, <1>5 DEF GroupOK
<1>7. PICK d \in {0, 1} :
           /\ d = 1 <=> Len(ws[1]) = 1
           /\ \A m \in DOMAIN Left(ws) :
                /\ m + d \in DOMAIN ws
                /\ m + d # 1 => Left(ws)[m] = ws[m + d]
                /\ m + d = 1 => m = 1 /\ Left(ws)[m] = <<ws[1][2]>> /\ Len(ws[1]) = 2
           /\ \A k \in DOMAIN ws : k # 1 => k - d \in DOMAIN Left(ws)
  BY <1>2
<1>8. \A k \in DOMAIN ws : (k - d) + d = k
  BY <1>3
<1>9. ASSUME NEW m \in DOMAIN Left(ws)
      PROVE  /\ m \in Nat /\ m + d \in DOMAIN ws
             /\ GroupOK(Left(ws)[m]) /\ TypeOf(Left(ws)[m]) = TypeOf(ws[m + d])
             /\ Created(Left(ws)[m]) = Created(ws[m + d])
             /\ m + d # 1 => Left(ws)[m] = ws[m + d]
             /\ m + d = 1 => Len(Left(ws)[m]) = 1 /\ Len(ws[1]) = 2
             /\ \A k \in DOMAIN Left(ws)[m] :
                  \E l \in DOMAIN ws[m + d] : Left(ws)[m][k] = ws[m + d][l]
  <2>1. m \in Nat /\ m + d \in DOMAIN ws
    BY <1>3, <1>7
  <2>2. CASE m + d # 1
    <3>1. Left(ws)[m] = ws[m + d]
      BY <1>7, <2>2
    <3> QED BY <2>1, <2>2, <3>1
  <2>3. CASE m + d = 1
    <3>1. Left(ws)[m] = <<ws[1][2]>> /\ Len(ws[1]) = 2
      BY <1>7, <2>3
    <3>2. 2 \in DOMAIN ws[1]
      BY ONLY <1>4, <3>1
    <3>3. ws[1][2] \in Writes /\ WriteOK(ws[1][2]) /\ ws[1][2].to.type = ws[1][1].to.type
      BY <1>2, <1>4, <3>1, <3>2 DEF GroupOK
    <3>4. /\ Len(<<ws[1][2]>>) = 1 /\ DOMAIN <<ws[1][2]>> = {1} /\ <<ws[1][2]>>[1] = ws[1][2]
          /\ TypeOf(<<ws[1][2]>>) = ws[1][2].to.type /\ Created(<<ws[1][2]>>) = ws[1][2]
          /\ GroupOK(<<ws[1][2]>>)
      BY <3>3, SingleGroup
    <3>5. TypeOf(ws[1]) = ws[1][1].to.type /\ Created(ws[1]) = ws[1][2]
      BY <3>1 DEF TypeOf, Created
    <3> QED BY <2>1, <2>3, <3>1, <3>2, <3>3, <3>4, <3>5
  <2> QED BY <2>2, <2>3
<1> QED BY <1>2, <1>5, <1>6, <1>7, <1>8, <1>9

LEMMA StoreTypes ==
  ASSUME ProposalInv, NEW t \in Callers, NEW c \in CallRecords, calls' = [calls EXCEPT ![t] = c],
         NEW w \in Writes, WriteOK(w), Store(w),
         UNCHANGED <<simulation, level, reconciles, crashes, interlaced, missed, cut>>
  PROVE  /\ ProposalTypes' /\ RowsOK' /\ RowsKept
         /\ calls'[t] = c /\ \A u \in Callers : u # t => calls'[u] = calls[u] /\ CallOK(u)'
<1>1. ProposalTypes /\ RowsOK /\ \A u \in Callers : CallOK(u)
  BY DEF ProposalInv
<1>2. RowsKept
  BY <1>1, StoreKeepsRows
<1>3. calls' \in [Callers -> CallRecords]
  BY <1>1 DEF ProposalTypes
<1>4. proposals' \in Seq(Rows) /\ bundles' \in Seq(Nat) /\ Len(bundles') = Len(proposals')
  <2>1. CASE w.row = New
    BY <1>1, <2>1, CreatedRow
  <2>2. CASE w.row # New
    BY <1>1, <2>2, ReplacedRow DEF WriteOK, ProposalTypes
  <2> QED BY <2>1, <2>2
<1>5. ProposalTypes'
  BY <1>1, <1>3, <1>4 DEF ProposalTypes
<1>6. RowsOK'
  <2> SUFFICES ASSUME NEW i \in DOMAIN proposals'
               PROVE  proposals'[i].stage \in HighRisk \X (1..simulation.n)
    BY DEF RowsOK
  <2>1. CASE i \in DOMAIN proposals
    BY <1>1, <1>2, <2>1 DEF RowsOK, RowsKept, SameProposal
  <2>2. CASE i \notin DOMAIN proposals
    <3>1. w.row = New
      BY <1>1, <2>2, ReplacedRow DEF WriteOK
    <3>2. proposals'[i] = w.to
      BY <1>1, <2>2, <3>1, CreatedRow
    <3> QED BY <3>2 DEF WriteOK
  <2> QED BY <2>1, <2>2
<1>7. calls'[t] = c /\ \A u \in Callers : u # t => calls'[u] = calls[u]
  BY <1>1 DEF ProposalTypes
<1>8. simulation.n \in Nat /\ simulation'.n \in Nat /\ simulation.n <= simulation'.n
  BY <1>1 DEF ProposalTypes
<1>9. \A u \in Callers : u # t => CallOK(u)'
  BY <1>1, <1>2, <1>5, <1>7, <1>8, CallsKept
<1> QED BY <1>2, <1>5, <1>6, <1>7, <1>9

\* A proposal is stored that was there, and its thread creates none.
LEMMA StoreStep ==
  ASSUME ProposalInv, NEW t \in Callers, NEW c \in CallRecords, calls' = [calls EXCEPT ![t] = c],
         NEW w \in Writes, WriteOK(w), Store(w), w.row # New, CallOK(t)',
         UNCHANGED <<simulation, level, reconciles, crashes, interlaced, missed, cut>>,
         calls[t].at # "bundle", c.at \notin {"plan", "write"},
         c.at = "attach" => calls[t].at \in {"write", "attach"} /\ calls[t].key # NoKey,
         Reconciling(t) => c.at = "attach",
         \A m \in DOMAIN c.writes : ~Creates(c.writes[m]),
         w.to.status = "approved" => c.at = "bundle" /\ Head(c.queue) = w.row
  PROVE  ProposalInv'
<1>1. ProposalTypes /\ ApprovalsAreCarriedOut
  BY DEF ProposalInv
<1>2. /\ ProposalTypes' /\ RowsOK' /\ RowsKept
      /\ \A u \in Callers : CallOK(u)'
  BY StoreTypes
<1>3. ApprovalsAreCarriedOut'
  BY <1>1, BundlesAfterStore
<1>4. DOMAIN proposals' = DOMAIN proposals
  BY <1>1, ReplacedRow DEF WriteOK
<1>5. Serial'
  BY <1>2, <1>4, SerialKept
<1> QED BY <1>2, <1>3, <1>5 DEF ProposalInv

LEMMA ResolveStep ==
  ASSUME ProposalInv, NEW t \in Callers, resolve(t)
  PROVE  ProposalInv'
<1> DEFINE w == First(calls[t].writes)
           done == [calls[t] EXCEPT !.at = "bundle", !.writes = <<>>]
           next == [calls[t] EXCEPT !.at = "case", !.writes = <<>>, !.queue = Tail(@)]
           c == IF calls[t].decision = "approve" THEN done ELSE next
<1>1. /\ calls' = [calls EXCEPT ![t] = c] /\ calls[t].at = "resolve" /\ Store(w)
      /\ UNCHANGED <<simulation, level, reconciles, crashes, interlaced, missed, cut>>
  BY DEF resolve, Call
<1>2. /\ calls[t].queue # <<>> /\ Len(calls[t].writes) = 1 /\ Len(calls[t].writes[1]) = 1
      /\ calls[t].writes[1][1].row = Head(calls[t].queue)
      /\ calls[t].writes[1][1].to = Resolution(calls[t].writes[1][1].base, calls[t].decision)
      /\ calls[t].decision \in {"edit", "approve", "reject"}
      /\ \A m \in DOMAIN calls[t].writes : GroupOK(calls[t].writes[m])
      /\ \A n \in DOMAIN calls[t].queue : calls[t].queue[n] \in DOMAIN proposals
  BY <1>1, TypesNow DEF CallOK
<1>3. calls[t] \in CallRecords /\ calls[t].writes \in Seq(Seq(Writes)) /\ calls[t].queue \in Seq(Nat)
  BY TypesNow, CallTypes
<1>4. calls[t].writes # <<>>
  BY <1>2, <1>3
<1>5. /\ w \in Writes /\ WriteOK(w) /\ w.row = Head(calls[t].queue)
      /\ w.to = Resolution(w.base, calls[t].decision)
  BY <1>2, <1>3, <1>4, RestGroups
<1>6. /\ Head(calls[t].queue) # New /\ Head(calls[t].queue) \in DOMAIN proposals
      /\ Tail(calls[t].queue) \in Seq(Nat)
      /\ \A n \in DOMAIN Tail(calls[t].queue) : Tail(calls[t].queue)[n] \in DOMAIN proposals
  BY <1>2, HeadIsThere
<1>7. w.base \in Rows /\ w.base.status = "pending"
  BY <1>5, <1>6 DEF Writes, WriteOK
<1>8. w.to.status = "approved" <=> calls[t].decision = "approve"
  <2>1. CASE calls[t].decision = "edit"
    BY <1>5, <1>7, <2>1 DEF Resolution, Rows
  <2>2. CASE calls[t].decision = "approve"
    BY <1>5, <1>7, <2>2 DEF Resolution, Rows
  <2>3. CASE calls[t].decision = "reject"
    BY <1>5, <1>7, <2>3 DEF Resolution, Rows
  <2> QED BY <1>2, <2>1, <2>2, <2>3
<1>9. proposals'[w.row] = w.to /\ DOMAIN proposals' = DOMAIN proposals
  BY <1>1, <1>5, <1>6, TypesNow, ReplacedRow DEF WriteOK
<1>10. <<>> \in Seq(Seq(Writes))
  OBVIOUS
<1>11. CASE calls[t].decision = "approve"
  <2>1. /\ done \in CallRecords /\ done.at = "bundle" /\ done.writes = <<>>
        /\ done.queue = calls[t].queue /\ done.decision = calls[t].decision
    BY <1>3, <1>10 DEF CallRecords, Steps
  <2>2. calls' = [calls EXCEPT ![t] = done]
    BY <1>1, <1>11
  <2> HIDE DEF w, done, next, c
  <2>3. calls'[t] = done
    BY <2>2, TypesNow DEF ProposalTypes
  <2>4. CallOK(t)'
    <3>1. proposals'[Head(calls'[t].queue)].status = "approved"
      BY <1>5, <1>8, <1>9, <1>11, <2>1, <2>3
    <3>2. \A n \in DOMAIN calls'[t].queue : calls'[t].queue[n] \in DOMAIN proposals'
      BY <1>2, <1>9, <2>1, <2>3
    <3> QED BY <1>2, <1>11, <2>1, <2>3, <3>1, <3>2 DEF CallOK
  <2>5. ~Reconciling(t) /\ \A m \in DOMAIN done.writes : ~Creates(done.writes[m])
    BY <1>1, <2>1 DEF Reconciling
  <2> QED BY <1>1, <1>5, <1>6, <2>1, <2>2, <2>4, <2>5, StoreStep
<1>12. CASE calls[t].decision # "approve"
  <2>1. /\ next \in CallRecords /\ next.at = "case" /\ next.writes = <<>>
        /\ next.queue = Tail(calls[t].queue) /\ next.decision = calls[t].decision
    BY <1>3, <1>6, <1>10 DEF CallRecords, Steps
  <2>2. calls' = [calls EXCEPT ![t] = next]
    BY <1>1, <1>12
  <2> HIDE DEF w, done, next, c
  <2>3. calls'[t] = next
    BY <2>2, TypesNow DEF ProposalTypes
  <2>4. CallOK(t)'
    <3>2. \A n \in DOMAIN calls'[t].queue : calls'[t].queue[n] \in DOMAIN proposals'
      BY <1>6, <1>9, <2>1, <2>3
    <3> QED BY <1>2, <2>1, <2>3, <3>2 DEF CallOK
  <2>5. ~Reconciling(t) /\ \A m \in DOMAIN next.writes : ~Creates(next.writes[m])
    BY <1>1, <2>1 DEF Reconciling
  <2>6. w.to.status # "approved"
    BY <1>8, <1>12
  <2> QED BY <1>1, <1>5, <1>6, <2>1, <2>2, <2>4, <2>5, <2>6, StoreStep
<1> QED BY <1>11, <1>12

LEMMA BundleStep ==
  ASSUME ProposalInv, NEW t \in Callers, save_bundle(t)
  PROVE  ProposalInv'
<1> DEFINE h == Head(calls[t].queue)
           c == [calls[t] EXCEPT !.at = "case", !.queue = Tail(@)]
<1>1. /\ calls' = [calls EXCEPT ![t] = c] /\ calls[t].at = "bundle"
      /\ bundles' = [bundles EXCEPT ![h] = @ + 1]
      /\ UNCHANGED <<simulation, level, proposals, reconciles, crashes, interlaced, clobbered,
                     missed, cut>>
  BY DEF save_bundle, Call, ghosts
<1>2. /\ ProposalTypes /\ RowsOK /\ ApprovalsAreCarriedOut
      /\ \A u \in Callers : CallOK(u)
  BY DEF ProposalInv
<1>3. /\ calls[t].queue # <<>> /\ calls[t].writes = <<>>
      /\ calls[t].decision = "approve" \/ Tail(calls[t].queue) = <<>>
      /\ proposals[h].status = "approved" \/ h \in clobbered
  BY <1>1, <1>2 DEF CallOK
<1>4. /\ h \in DOMAIN proposals
      /\ Tail(calls[t].queue) \in Seq(Nat)
      /\ \A n \in DOMAIN Tail(calls[t].queue) : Tail(calls[t].queue)[n] \in DOMAIN proposals
  BY <1>3, HeadIsThere
<1>5. /\ c \in CallRecords /\ c.at = "case" /\ c.writes = <<>>
      /\ c.queue = Tail(calls[t].queue) /\ c.decision = calls[t].decision
  BY <1>2, <1>3, <1>4, CallTypes DEF CallRecords, Steps
<1> HIDE DEF c
<1>6. /\ calls'[t] = c /\ \A u \in Callers : u # t => calls'[u] = calls[u]
      /\ calls' \in [Callers -> CallRecords]
  BY <1>1, <1>2, <1>5 DEF ProposalTypes
<1>7. /\ bundles \in Seq(Nat) /\ Len(bundles) = Len(proposals) /\ h \in 1..Len(bundles)
      /\ \A i \in 1..Len(bundles) : bundles[i] \in Nat
      /\ DOMAIN proposals = 1..Len(bundles)
  BY <1>2, <1>4, RowTypes DEF ProposalTypes
<1>8. /\ bundles' \in Seq(Nat) /\ Len(bundles') = Len(bundles)
      /\ \A i \in 1..Len(bundles) : bundles'[i] = IF i = h THEN bundles[h] + 1 ELSE bundles[i]
  BY <1>1, <1>7, ExceptSeq
<1>9. ProposalTypes'
  BY <1>1, <1>2, <1>6, <1>7, <1>8 DEF ProposalTypes
<1>10. RowsKept /\ RowsOK'
  BY <1>1, <1>2, UntouchedRows DEF RowsOK
<1>11. CallOK(t)'
  <2>1. \A n \in DOMAIN calls'[t].queue : calls'[t].queue[n] \in DOMAIN proposals'
    BY <1>1, <1>4, <1>5, <1>6
  <2>2. calls'[t].decision = "approve" \/ calls'[t].queue = <<>>
    BY <1>3, <1>5, <1>6
  <2>3. calls'[t].at = "case" /\ calls'[t].writes = <<>>
    BY <1>5, <1>6
  <2> HIDE DEF h
  <2> QED BY <2>1, <2>2, <2>3 DEF CallOK
<1>12. \A u \in Callers : CallOK(u)'
  <2>1. simulation'.n \in Nat /\ simulation.n <= simulation'.n
    BY <1>1, <1>2, TypesNow
  <2> QED BY <1>2, <1>6, <1>9, <1>10, <1>11, <2>1, CallsKept
<1>13. ApprovalsAreCarriedOut'
  <2> SUFFICES ASSUME NEW i \in DOMAIN proposals
               PROVE  /\ bundles'[i] > 0 => proposals[i].status = "approved" \/ i \in clobbered
                      /\ proposals[i].status = "approved" /\ bundles'[i] = 0 =>
                           \/ i \in cut \cup clobbered
                           \/ \E u \in Callers : calls'[u].at = "bundle" /\ Head(calls'[u].queue) = i
    BY <1>1 DEF ApprovalsAreCarriedOut
  <2>1. /\ bundles[i] > 0 => proposals[i].status = "approved" \/ i \in clobbered
        /\ proposals[i].status = "approved" /\ bundles[i] = 0 =>
             \/ i \in cut \cup clobbered
             \/ \E u \in Callers : calls[u].at = "bundle" /\ Head(calls[u].queue) = i
    BY <1>2 DEF ApprovalsAreCarriedOut
  <2>2. CASE i = h
    <3>1. bundles[h] \in Nat /\ bundles'[i] = bundles[h] + 1
      BY <1>7, <1>8, <2>2
    <3>2. bundles'[i] # 0
      BY <3>1
    <3> QED BY <1>3, <2>2, <3>2
  <2>3. CASE i # h
    <3>1. bundles'[i] = bundles[i]
      BY <1>7, <1>8, <2>3
    <3>2. (\E u \in Callers : calls[u].at = "bundle" /\ Head(calls[u].queue) = i)
            => \E u \in Callers : calls'[u].at = "bundle" /\ Head(calls'[u].queue) = i
      BY <1>6, <2>3
    <3> QED BY <2>1, <3>1, <3>2
  <2> QED BY <2>2, <2>3
<1>14. Serial'
  <2>1. ~Reconciling(t) /\ \A m \in DOMAIN c.writes : ~Creates(c.writes[m])
    BY <1>1, <1>5 DEF Reconciling
  <2> QED BY <1>1, <1>5, <1>10, <2>1, SerialKept
<1> QED BY <1>9, <1>10, <1>12, <1>13, <1>14 DEF ProposalInv

\* A restart gives up every call: approvals lose their bundle, a level its reconciliation.
LEMMA RestartStep ==
  ASSUME ProposalInv, restart
  PROVE  ProposalInv'
<1>1. /\ crashes' = crashes + 1 /\ calls' = [t \in Callers |-> NoCall]
      /\ cut' = cut \cup {Head(calls[t].queue) : t \in {u \in Callers : calls[u].at = "bundle"}}
      /\ missed' = (missed \/ \E t \in Callers : Reconciling(t))
      /\ UNCHANGED <<simulation, level, proposals, bundles, reconciles, interlaced, clobbered>>
  BY DEF restart
<1>2. ProposalTypes /\ RowsOK /\ ApprovalsAreCarriedOut
  BY DEF ProposalInv
<1>3. /\ \A t \in Callers : calls'[t] = NoCall
      /\ NoCall.at = "idle" /\ NoCall.writes = <<>> /\ NoCall.queue = <<>>
  BY <1>1, IdleCall DEF NoCall
<1>4. ProposalTypes'
  <2>1. calls' \in [Callers -> CallRecords]
    BY <1>1, IdleCall
  <2>2. crashes' \in Nat
    BY <1>1, <1>2 DEF ProposalTypes
  <2>3. missed' \in BOOLEAN
    BY ONLY <1>1
  <2> QED BY <1>1, <1>2, <2>1, <2>2, <2>3 DEF ProposalTypes
<1>5. RowsOK'
  BY <1>1, <1>2 DEF RowsOK
<1>6. \A t \in Callers : CallOK(t)'
  BY <1>3, QuietCall
<1>7. ApprovalsAreCarriedOut'
  <2> SUFFICES ASSUME NEW i \in DOMAIN proposals
               PROVE  /\ bundles[i] > 0 => proposals[i].status = "approved" \/ i \in clobbered
                      /\ proposals[i].status = "approved" /\ bundles[i] = 0 =>
                           i \in cut' \cup clobbered
    BY <1>1 DEF ApprovalsAreCarriedOut
  <2>1. /\ bundles[i] > 0 => proposals[i].status = "approved" \/ i \in clobbered
        /\ proposals[i].status = "approved" /\ bundles[i] = 0 =>
             \/ i \in cut \cup clobbered
             \/ \E u \in Callers : calls[u].at = "bundle" /\ Head(calls[u].queue) = i
    BY <1>2 DEF ApprovalsAreCarriedOut
  <2>2. (\E u \in Callers : calls[u].at = "bundle" /\ Head(calls[u].queue) = i) => i \in cut'
    BY <1>1
  <2> QED BY <1>1, <2>1, <2>2
<1>8. Serial'
  <2> SUFFICES ASSUME ~interlaced
               PROVE  (OneReconciles /\ LiveIsNewest /\ CreatedAlone /\ CreatedUnasked
                         /\ LevelIsRead)'
    BY <1>1 DEF Serial
  <2>1. OneReconciles /\ LiveIsNewest /\ LevelIsRead
    BY DEF ProposalInv, Serial
  <2>2. OneReconciles'
    BY <1>1, <1>3, <2>1 DEF OneReconciles, Reconciling
  <2>3. LiveIsNewest'
    BY <1>1, <2>1 DEF LiveIsNewest, Live, Pending, NewestOf, OfType, Newer
  <2>4. CreatedAlone' /\ CreatedUnasked'
    BY <1>3 DEF CreatedAlone, CreatedUnasked, Alone, Unasked
  <2>5. LevelIsRead'
    <3> SUFFICES ASSUME ~missed', level = "low" PROVE Live' = {}
      BY <1>1, <1>3 DEF LevelIsRead
    <3>1. ~missed /\ \A t \in Callers : ~Reconciling(t)
      BY <1>1
    <3>2. Live = {}
      BY <2>1, <3>1 DEF LevelIsRead
    <3> QED BY <1>1, <3>2 DEF Live, Pending
  <2> QED BY <2>2, <2>3, <2>4, <2>5
<1> QED BY <1>4, <1>5, <1>6, <1>7, <1>8 DEF ProposalInv

-----------------------------------------------------------------------------
(***************************************************************************)
(* Writes of a reconciliation.                                             *)
(***************************************************************************)
\* What a reconciliation that writes still has to write.
LEMMA WriteCall ==
  ASSUME ProposalInv, NEW t \in Callers, write(t)
  PROVE  LET ws == calls[t].writes  c == [calls[t] EXCEPT !.writes = Left(@)] IN
           /\ calls[t].at \in {"write", "attach"} /\ ws # <<>> /\ ws \in Seq(Seq(Writes))
           /\ \A m \in DOMAIN ws : GroupOK(ws[m])
           /\ calls' = [calls EXCEPT ![t] = c] /\ Store(First(ws))
           /\ UNCHANGED <<simulation, level, reconciles, crashes, interlaced, missed, cut>>
           /\ c \in CallRecords /\ c.at = calls[t].at /\ c.writes = Left(ws)
           /\ c.key = calls[t].key /\ c.queue = calls[t].queue /\ c.born = calls[t].born
<1>1. /\ calls[t].at \in {"write", "attach"} /\ calls[t].writes # <<>>
      /\ calls' = [calls EXCEPT ![t] = [calls[t] EXCEPT !.writes = Left(@)]]
      /\ Store(First(calls[t].writes))
      /\ UNCHANGED <<simulation, level, reconciles, crashes, interlaced, missed, cut>>
  BY DEF write, Call
<1>2. calls[t] \in CallRecords /\ calls[t].writes \in Seq(Seq(Writes))
      /\ \A m \in DOMAIN calls[t].writes : GroupOK(calls[t].writes[m])
  BY TypesNow, CallTypes DEF CallOK
<1>3. Left(calls[t].writes) \in Seq(Seq(Writes))
  BY <1>1, <1>2, RestGroups
<1>4. [calls[t] EXCEPT !.writes = Left(@)] \in CallRecords
  BY <1>2, <1>3 DEF CallRecords
<1>5. /\ [calls[t] EXCEPT !.writes = Left(@)].at = calls[t].at
      /\ [calls[t] EXCEPT !.writes = Left(@)].writes = Left(calls[t].writes)
      /\ [calls[t] EXCEPT !.writes = Left(@)].key = calls[t].key
      /\ [calls[t] EXCEPT !.writes = Left(@)].queue = calls[t].queue
      /\ [calls[t] EXCEPT !.writes = Left(@)].born = calls[t].born
  BY <1>2 DEF CallRecords
<1> QED BY <1>1, <1>2, <1>3, <1>4, <1>5

LEMMA WriteCallOK ==
  ASSUME ProposalInv, NEW t \in Callers, write(t)
  PROVE  CallOK(t)'
<1> DEFINE ws == calls[t].writes
           c == [calls[t] EXCEPT !.writes = Left(@)]
<1>1. /\ calls[t].at \in {"write", "attach"} /\ ws # <<>> /\ ws \in Seq(Seq(Writes))
      /\ \A m \in DOMAIN ws : GroupOK(ws[m])
      /\ calls' = [calls EXCEPT ![t] = c] /\ Store(First(ws))
      /\ UNCHANGED <<simulation, level, reconciles, crashes, interlaced, missed, cut>>
      /\ c \in CallRecords /\ c.at = calls[t].at /\ c.writes = Left(ws)
      /\ c.key = calls[t].key /\ c.queue = calls[t].queue
  BY WriteCall
<1> HIDE DEF c
<1>2. /\ First(ws) \in Writes /\ WriteOK(First(ws)) /\ Left(ws) \in Seq(Seq(Writes))
      /\ \A m \in DOMAIN Left(ws) : GroupOK(Left(ws)[m])
      /\ \A m \in DOMAIN Left(ws) : \E n \in DOMAIN ws :
           /\ Created(Left(ws)[m]) = Created(ws[n])
           /\ \A k \in DOMAIN Left(ws)[m] : \E l \in DOMAIN ws[n] : Left(ws)[m][k] = ws[n][l]
  <2> HIDE DEF ws
  <2> QED BY <1>1, RestGroups
<1>3. ProposalTypes' /\ RowsKept /\ calls'[t] = c
  <2> HIDE DEF ws
  <2> QED BY <1>1, <1>2, StoreTypes
<1>4. ProposalTypes /\ simulation.n \in Nat /\ simulation'.n \in Nat /\ simulation.n <= simulation'.n
  BY <1>1, TypesNow
<1>5. \A m \in DOMAIN calls'[t].writes : GroupOK(calls[t].writes[m])'
  <2> SUFFICES ASSUME NEW m \in DOMAIN calls'[t].writes PROVE GroupOK(calls[t].writes[m])'
    OBVIOUS
  <2>1. PICK g : g = calls'[t].writes[m]
    OBVIOUS
  <2>2. g = Left(ws)[m] /\ m \in DOMAIN Left(ws)
    BY <1>1, <1>3, <2>1
  <2>3. g \in Seq(Writes)
    BY <1>2, <2>2
  <2>4. GroupOK(g)
    BY <1>2, <2>2
  <2>5. GroupOK(g)'
    BY <1>3, <1>4, <2>3, <2>4, GroupsKept
  <2> QED BY ONLY <2>1, <2>5 DEF GroupOK, WriteOK, SameProposal
<1>6. \A n \in DOMAIN calls'[t].queue : calls'[t].queue[n] \in DOMAIN proposals'
  BY <1>1, <1>3, TypesNow DEF CallOK, RowsKept
<1>7. CASE calls[t].at = "write"
  <2>1. \A m \in DOMAIN ws : \A k \in DOMAIN ws[m] : Reconciles(calls[t].key, ws[m][k])
    BY <1>7, TypesNow DEF CallOK
  <2>2. \A m \in DOMAIN Left(ws) : \A k \in DOMAIN Left(ws)[m] :
          Reconciles(calls[t].key, Left(ws)[m][k])
    BY <1>2, <2>1
  <2>3. \A m \in DOMAIN calls'[t].writes : \A k \in DOMAIN calls'[t].writes[m] :
          Reconciles(calls'[t].key, calls'[t].writes[m][k])
    BY <1>1, <1>3, <2>2
  <2>4. calls'[t].at = "write"
    BY <1>1, <1>3, <1>7
  <2> HIDE DEF ws
  <2> QED BY <1>5, <1>6, <2>3, <2>4 DEF CallOK, Reconciles
<1>8. CASE calls[t].at = "attach"
  <2>1. /\ calls[t].key # NoKey
        /\ \A m \in DOMAIN ws : ~Creates(ws[m])
        /\ \A m \in DOMAIN ws : \A k \in DOMAIN ws[m] : ws[m][k].to.status = "pending"
    BY <1>8, TypesNow DEF CallOK
  <2>2. \A m \in DOMAIN Left(ws) :
          /\ ~Creates(Left(ws)[m])
          /\ \A k \in DOMAIN Left(ws)[m] : Left(ws)[m][k].to.status = "pending"
    BY <1>2, <2>1 DEF Creates
  <2>3. /\ \A m \in DOMAIN calls'[t].writes : ~Creates(calls'[t].writes[m])
        /\ \A m \in DOMAIN calls'[t].writes : \A k \in DOMAIN calls'[t].writes[m] :
             calls'[t].writes[m][k].to.status = "pending"
    BY <1>1, <1>3, <2>2
  <2>4. calls'[t].at = "attach" /\ calls'[t].key # NoKey
    BY <1>1, <1>3, <1>8, <2>1
  <2> HIDE DEF ws
  <2> QED BY <1>5, <1>6, <2>3, <2>4 DEF CallOK, Creates, Created
<1> QED BY <1>1, <1>7, <1>8

\* The summary of a package is stored with its proposals.
LEMMA AttachStep ==
  ASSUME ProposalInv, NEW t \in Callers, write(t), calls[t].at = "attach"
  PROVE  ProposalInv'
<1> DEFINE ws == calls[t].writes
           c == [calls[t] EXCEPT !.writes = Left(@)]
<1>1. /\ ws # <<>> /\ ws \in Seq(Seq(Writes))
      /\ \A m \in DOMAIN ws : GroupOK(ws[m])
      /\ calls' = [calls EXCEPT ![t] = c] /\ Store(First(ws))
      /\ UNCHANGED <<simulation, level, reconciles, crashes, interlaced, missed, cut>>
      /\ c \in CallRecords /\ c.at = "attach" /\ c.writes = Left(ws)
  BY WriteCall
<1>2. /\ calls[t].key # NoKey
      /\ \A m \in DOMAIN ws : ~Creates(ws[m])
      /\ \A m \in DOMAIN ws : \A k \in DOMAIN ws[m] : ws[m][k].to.status = "pending"
  BY TypesNow DEF CallOK
<1>3. CallOK(t)'
  BY WriteCallOK
<1> HIDE DEF ws, c
<1>4. /\ 1 \in DOMAIN ws /\ First(ws) = ws[1][1] /\ First(ws) \in Writes /\ WriteOK(First(ws))
      /\ 1 \in DOMAIN ws[1]
      /\ \A m \in DOMAIN Left(ws) : \E n \in DOMAIN ws : Created(Left(ws)[m]) = Created(ws[n])
  BY <1>1, RestGroups
<1>5. First(ws).row # New /\ First(ws).to.status # "approved"
  <2>1. ws[1][1].to.status = "pending"
    BY <1>2, <1>4
  <2>2. GroupOK(ws[1]) /\ ~Creates(ws[1])
    BY <1>1, <1>2, <1>4
  <2>3. Len(ws[1]) = 1 \/ Len(ws[1]) = 2
    <3>1. \A n \in 1..2 : n = 1 \/ n = 2
      OBVIOUS
    <3> QED BY <2>2, <3>1 DEF GroupOK
  <2>4. ws[1][1].row # New
    BY <2>2, <2>3 DEF GroupOK, Creates, Created
  <2> QED BY <1>4, <2>1, <2>4
<1>6. \A m \in DOMAIN c.writes : ~Creates(c.writes[m])
  BY <1>1, <1>2, <1>4 DEF Creates
<1> QED BY <1>1, <1>2, <1>3, <1>4, <1>5, <1>6, StoreStep

\* Only one reconciliation writes: what the others hold creates nothing.
LEMMA OthersCreateNothing ==
  ASSUME ProposalInv, ~interlaced, NEW t \in Callers, Reconciling(t), NEW u \in Callers, u # t
  PROVE  ~Reconciling(u) /\ \A m \in DOMAIN calls[u].writes : ~Creates(calls[u].writes[m])
<1>1. ~Reconciling(u)
  BY DEF ProposalInv, Serial, OneReconciles
<1>2. calls[u].at # "write"
  BY <1>1 DEF Reconciling
<1> QED BY <1>1, <1>2, TypesNow, OnlyWritesCreate

\* A reconciliation writes what it still has to: the invariant's part that all share.
LEMMA WriteSerial ==
  ASSUME ProposalInv, ~interlaced, NEW t \in Callers, NEW rest, NEW c, calls' = [calls EXCEPT ![t] = c],
         calls[t].at = "write", c.at = "write", c.writes = rest, c.key = calls[t].key,
         ProposalTypes', UNCHANGED <<level, reconciles, interlaced, missed>>,
         \A i \in DOMAIN proposals' : proposals'[i].born <= reconciles,
         \A m \in DOMAIN rest :
           Creates(rest[m]) => Created(rest[m]).to.born = reconciles,
         LiveIsNewest', Alone(rest)', clobbered' = {} => Unasked(rest)',
         ~missed => calls[t].key # NoKey
                      \/ \A i \in Live' : \E m \in DOMAIN rest : rest[m][1].row = i
  PROVE  Serial'
<1>1. OneReconciles /\ LevelIsRead /\ ProposalTypes
  BY DEF ProposalInv, Serial
<1>2. calls'[t] = c /\ \A u \in Callers : u # t => calls'[u] = calls[u]
  BY <1>1 DEF ProposalTypes
<1>3. Reconciling(t) /\ Reconciling(t)'
  BY <1>2 DEF Reconciling
<1>4. \A u \in Callers : u # t =>
        /\ ~Reconciling(u) /\ ~Reconciling(u)'
        /\ \A m \in DOMAIN calls'[u].writes : ~Creates(calls'[u].writes[m])
  BY <1>2, <1>3, OthersCreateNothing DEF Reconciling
<1>5. OneReconciles'
  <2>1. \A u, v \in Callers : (Reconciling(u) /\ Reconciling(v))' => u = v
    BY <1>4
  <2>2. \A u \in Callers : calls'[u].at # "plan"
    BY <1>2, <1>4 DEF Reconciling
  <2>3. \A u \in Callers : \A m \in DOMAIN calls'[u].writes :
          Creates(calls'[u].writes[m]) => Created(calls'[u].writes[m]).to.born = reconciles
    BY <1>2, <1>4
  <2> QED BY <2>1, <2>2, <2>3 DEF OneReconciles, Creates, Created
<1>6. CreatedAlone'
  <2> SUFFICES ASSUME NEW u \in Callers PROVE Alone(calls[u].writes)'
    BY DEF CreatedAlone
  <2>1. CASE u = t
    <3>1. calls'[t].writes = rest
      BY <1>2
    <3> QED BY <2>1, <3>1 DEF Alone, Creates, Created, TypeOf
  <2>2. CASE u # t
    BY <1>4, <2>2 DEF Alone, Creates, Created
  <2> QED BY <2>1, <2>2
<1>7. CreatedUnasked'
  <2> SUFFICES ASSUME clobbered' = {}, NEW u \in Callers PROVE Unasked(calls[u].writes)'
    BY DEF CreatedUnasked
  <2>1. CASE u = t
    <3>1. calls'[t].writes = rest
      BY <1>2
    <3> QED BY <2>1, <3>1 DEF Unasked, Creates, Created, TypeOf, NewestOf, OfType, Newer, Answers
  <2>2. CASE u # t
    BY <1>4, <2>2 DEF Unasked, Creates, Created
  <2> QED BY <2>1, <2>2
<1>8. LevelIsRead'
  <2> SUFFICES ASSUME ~missed PROVE LevelIsRead'
    BY DEF LevelIsRead
  <2>1. \A u \in Callers : calls'[u].at # "plan"
    BY <1>2, <1>4 DEF Reconciling
  <2>2. \A u \in Callers : calls'[u].at \in {"write", "attach"} /\ calls'[u].key # NoKey =>
          level # "low"
    BY <1>1, <1>2 DEF LevelIsRead
  <2>3. \A u \in Callers : calls'[u].at = "write" /\ calls'[u].key = NoKey =>
          \A i \in Live' : \E m \in DOMAIN calls'[u].writes : calls'[u].writes[m][1].row = i
    BY <1>2, <1>4 DEF Reconciling
  <2> QED BY <1>3, <2>1, <2>2, <2>3 DEF LevelIsRead
<1> QED BY <1>5, <1>6, <1>7, <1>8 DEF Serial

\* A proposal that is there is flagged, superseded or withdrawn.
LEMMA WriteOldStep ==
  ASSUME ProposalInv, NEW t \in Callers, write(t), calls[t].at = "write",
         First(calls[t].writes).row # New
  PROVE  ProposalInv'
<1>1. PICK ws : ws = calls[t].writes
  OBVIOUS
<1>2. PICK c : c = [calls[t] EXCEPT !.writes = Left(@)]
  OBVIOUS
<1>3. PICK rest, w : rest = Left(ws) /\ w = First(ws)
  OBVIOUS
<1>4. /\ ws # <<>> /\ ws \in Seq(Seq(Writes))
      /\ \A m \in DOMAIN ws : GroupOK(ws[m])
      /\ calls' = [calls EXCEPT ![t] = c] /\ Store(w)
      /\ UNCHANGED <<simulation, level, reconciles, crashes, interlaced, missed, cut>>
      /\ c \in CallRecords /\ c.at = "write" /\ c.writes = rest /\ c.key = calls[t].key
  BY <1>1, <1>2, <1>3, WriteCall
<1>5. \A m \in DOMAIN ws : \A k \in DOMAIN ws[m] : Reconciles(calls[t].key, ws[m][k])
  BY <1>1, TypesNow DEF CallOK
<1>6. /\ 1 \in DOMAIN ws /\ w = ws[1][1] /\ w \in Writes /\ WriteOK(w) /\ 1 \in DOMAIN ws[1]
      /\ \E d \in {0, 1} :
           /\ d = 1 <=> Len(ws[1]) = 1
           /\ \A m \in DOMAIN rest :
                /\ m \in Nat /\ m + d \in DOMAIN ws
                /\ TypeOf(rest[m]) = TypeOf(ws[m + d])
                /\ Created(rest[m]) = Created(ws[m + d])
                /\ m + d # 1 => rest[m] = ws[m + d]
                /\ m + d = 1 => Len(rest[m]) = 1 /\ Len(ws[1]) = 2
           /\ \A k \in DOMAIN ws : k # 1 => k - d \in DOMAIN rest /\ (k - d) + d = k
  BY <1>3, <1>4, RestGroups
<1>7. PICK d \in {0, 1} :
           /\ \A m \in DOMAIN rest :
                /\ m \in Nat /\ m + d \in DOMAIN ws
                /\ TypeOf(rest[m]) = TypeOf(ws[m + d])
                /\ Created(rest[m]) = Created(ws[m + d])
                /\ m + d # 1 => rest[m] = ws[m + d]
                /\ m + d = 1 => Len(rest[m]) = 1 /\ Len(ws[1]) = 2
           /\ \A k \in DOMAIN ws : k # 1 => k - d \in DOMAIN rest /\ (k - d) + d = k
  BY <1>6
<1>8. Reconciles(calls[t].key, w) /\ w.row # New /\ GroupOK(ws[1])
  BY <1>1, <1>3, <1>4, <1>5, <1>6
<1>9. Len(ws[1]) = 2 => w.to.status = "superseded"
  BY <1>6, <1>8 DEF GroupOK
<1>10. /\ ProposalTypes' /\ RowsOK' /\ RowsKept
       /\ \A u \in Callers : u # t => CallOK(u)'
  BY <1>4, <1>6, StoreTypes
<1>11. \A u \in Callers : CallOK(u)'
  BY <1>10, WriteCallOK
<1>12. ProposalTypes /\ ApprovalsAreCarriedOut
  BY DEF ProposalInv
<1>13. ApprovalsAreCarriedOut'
  <2>1. w.to.status # "approved"
    BY <1>8 DEF Reconciles
  <2> QED BY <1>4, <1>6, <1>12, <2>1, BundlesAfterStore
<1>14. DOMAIN proposals' = DOMAIN proposals /\ proposals'[w.row] = w.to /\ w.row \in DOMAIN proposals
  BY <1>4, <1>6, <1>8, <1>12, ReplacedRow DEF WriteOK
<1>15. Live' \subseteq Live
  BY <1>10, <1>14 DEF RowsKept, Live, Pending
<1>16. w.to.status # "pending" => w.row \notin Live'
  BY <1>14 DEF Live, Pending
<1>17. ASSUME ~interlaced PROVE Serial'
  <2>1. OneReconciles /\ LiveIsNewest /\ CreatedAlone /\ CreatedUnasked /\ LevelIsRead
    BY <1>17 DEF ProposalInv, Serial
  <2>2. \A i \in DOMAIN proposals' : proposals'[i].born <= reconciles
    BY <2>1, <1>10, <1>14 DEF OneReconciles, RowsKept, SameProposal
  <2>3. \A m \in DOMAIN rest : Creates(rest[m]) => Created(rest[m]).to.born = reconciles
    BY <2>1, <1>1, <1>7 DEF OneReconciles, Creates
  <2>4. LiveIsNewest'
    BY <2>1, <1>10, <1>14, LiveNewestKept
  <2>5. Alone(rest)'
    <3>1. Alone(ws)
      BY <2>1, <1>1 DEF CreatedAlone
    <3>2. ASSUME NEW m \in DOMAIN rest, Creates(rest[m])
          PROVE  /\ \A i \in Live' : proposals'[i].type = TypeOf(rest[m]) =>
                      Len(rest[m]) = 2 /\ rest[m][1].row = i
                 /\ \A n \in DOMAIN rest : n # m => TypeOf(rest[n]) # TypeOf(rest[m])
      <4>1. /\ m + d \in DOMAIN ws /\ Creates(ws[m + d]) /\ m \in Nat
            /\ TypeOf(rest[m]) = TypeOf(ws[m + d])
        BY <1>7, <3>2 DEF Creates
      <4>2. /\ \A i \in Live : proposals[i].type = TypeOf(ws[m + d]) =>
                 Len(ws[m + d]) = 2 /\ ws[m + d][1].row = i
            /\ \A n \in DOMAIN ws : n # m + d => TypeOf(ws[n]) # TypeOf(ws[m + d])
        BY <3>1, <4>1 DEF Alone
      <4>3. ASSUME NEW i \in Live', proposals'[i].type = TypeOf(rest[m])
            PROVE  Len(rest[m]) = 2 /\ rest[m][1].row = i
        <5>1. i \in Live /\ i \in DOMAIN proposals
          BY <1>15 DEF Live, Pending
        <5>2. proposals[i].type = TypeOf(ws[m + d])
          BY <4>1, <4>3, <5>1, <1>10 DEF RowsKept, SameProposal
        <5>3. Len(ws[m + d]) = 2 /\ ws[m + d][1].row = i
          BY <4>2, <5>1, <5>2
        <5>4. m + d # 1
          <6> SUFFICES ASSUME m + d = 1 PROVE FALSE
            OBVIOUS
          <6>1. w.row = i /\ w.to.status = "superseded"
            BY <5>3, <1>6, <1>9
          <6> QED BY <6>1, <1>16, <4>3
        <5> QED BY <5>3, <5>4, <1>7
      <4>4. ASSUME NEW n \in DOMAIN rest, n # m PROVE TypeOf(rest[n]) # TypeOf(rest[m])
        <5>1. n \in Nat /\ n + d \in DOMAIN ws /\ TypeOf(rest[n]) = TypeOf(ws[n + d])
          BY <1>7
        <5>2. n + d # m + d
          BY ONLY <4>1, <4>4, <5>1, d \in {0, 1}
        <5> QED BY <4>1, <4>2, <5>1, <5>2
      <4> QED BY <4>3, <4>4
    <3> QED BY <3>2 DEF Alone, Creates, Created, TypeOf
  <2>6. ASSUME clobbered' = {} PROVE Unasked(rest)'
    <3>1. clobbered = {} /\ Unasked(ws)
      BY <2>1, <2>6, <1>1, <1>10 DEF CreatedUnasked, RowsKept
    <3>2. ASSUME NEW m \in DOMAIN rest, Creates(rest[m]),
                 NEW j \in DOMAIN proposals', NewestOf(j, TypeOf(rest[m]))'
          PROVE  IF Len(rest[m]) = 2 THEN j = rest[m][1].row
                 ELSE proposals'[j].status # "pending" /\ ~Answers(proposals'[j], Created(rest[m]))
      <4>1. /\ m + d \in DOMAIN ws /\ Creates(ws[m + d])
            /\ TypeOf(rest[m]) = TypeOf(ws[m + d]) /\ Created(rest[m]) = Created(ws[m + d])
        BY <1>7, <3>2 DEF Creates
      <4>2. NewestOf(j, TypeOf(rest[m]))
        BY <3>2, <1>10, <1>12, <1>14, NewestKept
      <4>3. IF Len(ws[m + d]) = 2 THEN j = ws[m + d][1].row
            ELSE proposals[j].status # "pending" /\ ~Answers(proposals[j], Created(ws[m + d]))
        BY <3>1, <4>1, <4>2, <1>14 DEF Unasked
      <4>4. proposals[j].status # "pending" => proposals'[j] = proposals[j]
        BY <2>6, <1>10, <1>14 DEF RowsKept
      <4>5. CASE m + d = 1
        <5>1. j = w.row /\ w.to.status = "superseded" /\ Len(rest[m]) = 1
          BY <4>3, <4>5, <1>6, <1>7, <1>9
        <5> QED BY <5>1, <1>14 DEF Answers
      <4>6. CASE m + d # 1
        BY <4>1, <4>3, <4>4, <4>6, <1>7
      <4> QED BY <4>5, <4>6
    <3> QED BY <3>2 DEF Unasked, Creates, Created, TypeOf, Answers, NewestOf, OfType, Newer
  <2>7. ASSUME ~missed, calls[t].key = NoKey
        PROVE  \A i \in Live' : \E m \in DOMAIN rest : rest[m][1].row = i
    <3> SUFFICES ASSUME NEW i \in Live' PROVE \E m \in DOMAIN rest : rest[m][1].row = i
      OBVIOUS
    <3>1. PICK m \in DOMAIN ws : ws[m][1].row = i
      BY <2>1, <2>7, <1>1, <1>15 DEF LevelIsRead
    <3>2. m # 1
      <4>1. w.to.status = "withdrawn"
        BY <1>8, <2>7 DEF Reconciles
      <4> QED BY <4>1, <3>1, <1>6, <1>16
    <3>3. m - d \in DOMAIN rest /\ (m - d) + d = m
      BY <1>7, <3>2
    <3>4. rest[m - d] = ws[m]
      BY <1>7, <3>2, <3>3
    <3> QED BY <3>1, <3>3, <3>4
  <2> QED BY <1>17, <1>4, <1>10, <2>2, <2>3, <2>4, <2>5, <2>6, <2>7, WriteSerial
<1>18. Serial'
  BY <1>4, <1>17 DEF Serial
<1> QED BY <1>10, <1>11, <1>13, <1>18 DEF ProposalInv

\* A proposal is created: no live one of its action is left.
LEMMA WriteNewStep ==
  ASSUME ProposalInv, NEW t \in Callers, write(t), calls[t].at = "write",
         First(calls[t].writes).row = New
  PROVE  ProposalInv'
<1>1. PICK ws : ws = calls[t].writes
  OBVIOUS
<1>2. PICK c : c = [calls[t] EXCEPT !.writes = Left(@)]
  OBVIOUS
<1>3. PICK rest, w : rest = Left(ws) /\ w = First(ws)
  OBVIOUS
<1>4. /\ ws # <<>> /\ ws \in Seq(Seq(Writes))
      /\ \A m \in DOMAIN ws : GroupOK(ws[m])
      /\ calls' = [calls EXCEPT ![t] = c] /\ Store(w)
      /\ UNCHANGED <<simulation, level, reconciles, crashes, interlaced, missed, cut>>
      /\ c \in CallRecords /\ c.at = "write" /\ c.writes = rest /\ c.key = calls[t].key
  BY <1>1, <1>2, <1>3, WriteCall
<1>5. \A m \in DOMAIN ws : \A k \in DOMAIN ws[m] : Reconciles(calls[t].key, ws[m][k])
  BY <1>1, TypesNow DEF CallOK
<1>6. /\ 1 \in DOMAIN ws /\ w = ws[1][1] /\ w \in Writes /\ WriteOK(w) /\ 1 \in DOMAIN ws[1]
      /\ \E d \in {0, 1} :
           /\ d = 1 <=> Len(ws[1]) = 1
           /\ \A m \in DOMAIN rest :
                /\ m \in Nat /\ m + d \in DOMAIN ws
                /\ m + d # 1 => rest[m] = ws[m + d]
  BY <1>3, <1>4, RestGroups
<1>7. w.row = New /\ GroupOK(ws[1]) /\ Reconciles(calls[t].key, w)
  BY <1>1, <1>3, <1>4, <1>5, <1>6
<1>8. Len(ws[1]) = 1 /\ Created(ws[1]) = w /\ Creates(ws[1]) /\ TypeOf(ws[1]) = w.to.type
  <2>1. \A n \in 1..2 : n = 1 \/ n = 2
    OBVIOUS
  <2>2. Len(ws[1]) = 1
    BY <1>6, <1>7, <2>1 DEF GroupOK
  <2> QED BY <1>6, <1>7, <2>2 DEF Created, Creates, TypeOf
<1>9. \A m \in DOMAIN rest : m \in Nat /\ m + 1 \in DOMAIN ws /\ rest[m] = ws[m + 1] /\ m + 1 # 1
  <2>1. PICK d \in {0, 1} :
           /\ d = 1 <=> Len(ws[1]) = 1
           /\ \A m \in DOMAIN rest :
                /\ m \in Nat /\ m + d \in DOMAIN ws
                /\ m + d # 1 => rest[m] = ws[m + d]
    BY <1>6
  <2>2. d = 1
    BY <1>8, <2>1
  <2>3. \A m \in DOMAIN rest : m \in 1..Len(rest)
    BY <1>3, <1>4, RestGroups, LenProperties
  <2>4. \A m \in DOMAIN rest : m + 1 # 1
    BY <2>3
  <2> QED BY <2>1, <2>2, <2>4
<1>10. /\ ProposalTypes' /\ RowsOK' /\ RowsKept
       /\ \A u \in Callers : u # t => CallOK(u)'
  BY <1>4, <1>6, StoreTypes
<1>11. \A u \in Callers : CallOK(u)'
  BY <1>10, WriteCallOK
<1>12. ProposalTypes /\ ApprovalsAreCarriedOut
  BY DEF ProposalInv
<1>13. ApprovalsAreCarriedOut'
  <2>1. w.to.status # "approved"
    BY <1>6, <1>7 DEF WriteOK
  <2> QED BY <1>4, <1>6, <1>12, <2>1, BundlesAfterStore
<1>14. PICK new : new = Len(proposals) + 1
  OBVIOUS
<1>15. /\ DOMAIN proposals' = DOMAIN proposals \cup {new} /\ proposals'[new] = w.to
       /\ \A i \in DOMAIN proposals : proposals'[i] = proposals[i]
       /\ clobbered' = clobbered
       /\ \A i \in DOMAIN proposals : i \in Nat /\ i < new /\ proposals[i].born \in Nat
       /\ new \in Nat
  <2>1. /\ DOMAIN proposals' = DOMAIN proposals \cup {new} /\ proposals'[new] = w.to
        /\ \A i \in DOMAIN proposals : proposals'[i] = proposals[i]
        /\ clobbered' = clobbered
    BY <1>4, <1>6, <1>7, <1>12, <1>14, CreatedRow
  <2>2. /\ Len(proposals) \in Nat /\ DOMAIN proposals = 1..Len(proposals)
        /\ \A i \in DOMAIN proposals : proposals[i].born \in Nat
    BY <1>12, RowTypes
  <2>3. new \in Nat /\ \A i \in 1..Len(proposals) : i \in Nat /\ i < new
    BY ONLY <2>2, <1>14
  <2> QED BY <2>1, <2>2, <2>3
<1>16. ASSUME ~interlaced PROVE Serial'
  <2>1. OneReconciles /\ LiveIsNewest /\ CreatedAlone /\ CreatedUnasked /\ LevelIsRead
    BY <1>16 DEF ProposalInv, Serial
  <2>2. w.to.born = reconciles /\ reconciles \in Nat
    BY <2>1, <1>1, <1>6, <1>8, TypesNow DEF OneReconciles
  <2>3. \A i \in DOMAIN proposals' : proposals'[i].born <= reconciles
    BY <2>1, <2>2, <1>15 DEF OneReconciles
  <2>4. \A m \in DOMAIN rest : Creates(rest[m]) => Created(rest[m]).to.born = reconciles
    BY <2>1, <1>1, <1>9 DEF OneReconciles
  <2>5. Alone(ws)
    BY <2>1, <1>1 DEF CreatedAlone
  <2>6. \A i \in Live : proposals[i].type # w.to.type
    <3>1. Len(ws[1]) # 2
      BY <1>8
    <3> QED BY <2>5, <3>1, <1>6, <1>8 DEF Alone
  <2>7. \A m \in DOMAIN rest : Creates(rest[m]) => TypeOf(rest[m]) # w.to.type
    <3> SUFFICES ASSUME NEW m \in DOMAIN rest, Creates(rest[m]) PROVE TypeOf(rest[m]) # w.to.type
      OBVIOUS
    <3>1. m + 1 \in DOMAIN ws /\ rest[m] = ws[m + 1] /\ m + 1 # 1
      BY <1>9
    <3> QED BY <2>5, <3>1, <1>6, <1>8 DEF Alone
  <2>8. NoneAdded(rest)
    BY <2>7, <1>15 DEF NoneAdded
  <2>9. LiveIsNewest'
    <3> SUFFICES ASSUME NEW i \in Live' PROVE NewestOf(i, proposals[i].type)'
      BY DEF LiveIsNewest
    <3>1. i \in DOMAIN proposals'
      BY DEF Live, Pending
    <3>2. CASE i = new
      <4>1. \A k \in DOMAIN proposals' : Newer(new, k)'
        <5> SUFFICES ASSUME NEW k \in DOMAIN proposals' PROVE Newer(new, k)'
          OBVIOUS
        <5>1. new >= k /\ proposals'[new].born = reconciles /\ proposals'[k].born <= reconciles
              /\ proposals'[k].born \in Nat
          BY <1>15, <2>2, <2>3
        <5>2. proposals'[new].born > proposals'[k].born \/ proposals'[new].born = proposals'[k].born
          BY ONLY <5>1, <2>2
        <5> QED BY <5>1, <5>2 DEF Newer
      <4> QED BY <3>1, <3>2, <4>1 DEF NewestOf, OfType
    <3>3. CASE i # new
      <4>1. i \in DOMAIN proposals /\ proposals'[i] = proposals[i]
        BY <1>15, <3>1, <3>3
      <4>2. i \in Live
        BY <4>1, <1>15 DEF Live, Pending
      <4>3. NewestOf(i, proposals[i].type) /\ proposals[i].type # w.to.type
        BY <2>1, <2>6, <4>2 DEF LiveIsNewest
      <4>4. \A k \in DOMAIN proposals' : proposals'[k].type = proposals[i].type =>
              k \in DOMAIN proposals /\ proposals'[k] = proposals[k] /\ Newer(i, k)
        BY <4>3, <1>15 DEF NewestOf, OfType
      <4>5. \A k \in DOMAIN proposals' : proposals'[k].type = proposals[i].type => Newer(i, k)'
        BY <4>1, <4>4 DEF Newer
      <4> QED BY <3>1, <4>1, <4>5 DEF NewestOf, OfType
    <3> QED BY <3>2, <3>3
  <2>10. Alone(rest)'
    <3>1. Alone(rest)
      <4> SUFFICES ASSUME NEW m \in DOMAIN rest, Creates(rest[m])
                   PROVE  /\ \A i \in Live : proposals[i].type = TypeOf(rest[m]) =>
                               Len(rest[m]) = 2 /\ rest[m][1].row = i
                          /\ \A n \in DOMAIN rest : n # m => TypeOf(rest[n]) # TypeOf(rest[m])
        BY DEF Alone
      <4>1. m + 1 \in DOMAIN ws /\ rest[m] = ws[m + 1] /\ m \in Nat
        BY <1>9
      <4>2. /\ \A i \in Live : proposals[i].type = TypeOf(rest[m]) =>
                 Len(rest[m]) = 2 /\ rest[m][1].row = i
            /\ \A n \in DOMAIN ws : n # m + 1 => TypeOf(ws[n]) # TypeOf(rest[m])
        BY <2>5, <4>1 DEF Alone
      <4>3. ASSUME NEW n \in DOMAIN rest, n # m PROVE TypeOf(rest[n]) # TypeOf(rest[m])
        <5>1. n + 1 \in DOMAIN ws /\ rest[n] = ws[n + 1] /\ n \in Nat
          BY <1>9
        <5>2. n + 1 # m + 1
          BY ONLY <4>1, <4>3, <5>1
        <5> QED BY <4>2, <5>1, <5>2
      <4> QED BY <4>2, <4>3
    <3> QED BY <3>1, <2>8, <1>10, AloneKept
  <2>11. ASSUME clobbered' = {} PROVE Unasked(rest)'
    <3>1. Unasked(ws)
      BY <2>1, <2>11, <1>1, <1>15 DEF CreatedUnasked
    <3>2. Unasked(rest)
      BY <3>1, <1>9 DEF Unasked
    <3> QED BY <3>2, <2>8, <2>11, <1>10, <1>12, UnaskedKept
  <2>12. calls[t].key # NoKey
    BY <1>7 DEF Reconciles
  <2> QED BY <1>16, <1>4, <1>10, <2>3, <2>4, <2>9, <2>10, <2>11, <2>12, WriteSerial
<1>17. Serial'
  BY <1>4, <1>16 DEF Serial
<1> QED BY <1>10, <1>11, <1>13, <1>17 DEF ProposalInv

LEMMA WriteStep ==
  ASSUME ProposalInv, NEW t \in Callers, write(t)
  PROVE  ProposalInv'
<1>1. calls[t].at \in {"write", "attach"}
  BY DEF write
<1> QED BY <1>1, AttachStep, WriteOldStep, WriteNewStep

-----------------------------------------------------------------------------
(***************************************************************************)
(* What a reconciliation decides to write.                                 *)
(***************************************************************************)
LEMMA NoKeyIsLow == \A key \in HighRisk \X Nat : key # NoKey
BY DEF HighRisk, NoKey

LEMMA WithdrawStep ==
  ASSUME ProposalInv, NEW t \in Callers, withdraw(t)
  PROVE  ProposalInv'
<1> DEFINE f == [i \in Pending |-> Settle(i, "withdrawn")]
           groups == {<<Settle(i, "withdrawn")>> : i \in Pending}
           ws == Grouped(groups)
           c == [NoCall EXCEPT !.at = "write", !.decision = calls[t].decision, !.writes = ws]
<1>1. calls' = [calls EXCEPT ![t] = c] /\ Others /\ calls[t].at = "plan"
  BY DEF withdraw, Call, Others, ghosts
<1>2. \A i \in Pending : /\ f[i] \in Writes /\ WriteOK(f[i]) /\ f[i].row = i /\ i # New
                         /\ f[i].to.status = "withdrawn"
  <2> SUFFICES ASSUME NEW i \in Pending
               PROVE  /\ f[i] \in Writes /\ WriteOK(f[i]) /\ f[i].row = i /\ i # New
                      /\ f[i].to.status = "withdrawn"
    OBVIOUS
  <2> DEFINE row == [proposals[i] EXCEPT !.status = "withdrawn"]
  <2>1. proposals[i] \in Rows
    BY TypesNow, RowTypes
  <2>2. row \in Rows /\ SameProposal(row, proposals[i]) /\ row.status = "withdrawn"
    BY <2>1 DEF Rows, Statuses, SameProposal
  <2>3. f[i] = Write(i, row)
    BY DEF Settle
  <2> HIDE DEF row, f
  <2> QED BY <2>2, <2>3, WriteOfRow
<1>3. IsFiniteSet(Pending) /\ f \in [Pending -> Writes]
  BY <1>2, TypesNow, RowTypes, FinitelyMany
<1>4. /\ \A i \in Pending : <<f[i]>> \in groups
      /\ \A x \in groups : \E i \in Pending : x = <<f[i]>>
  OBVIOUS
<1>5. /\ ws \in Seq(Seq(Writes)) /\ \A m \in DOMAIN ws : \E i \in Pending : ws[m] = <<f[i]>>
      /\ \A i \in Pending : \E m \in DOMAIN ws : ws[m] = <<f[i]>>
  <2>1. PICK P, g, some : P = Pending /\ g = f /\ some = groups
    OBVIOUS
  <2> HIDE DEF groups, f
  <2>2. /\ IsFiniteSet(P) /\ g \in [P -> Writes]
        /\ \A i \in P : <<g[i]>> \in some
        /\ \A x \in some : \E i \in P : x = <<g[i]>>
    BY ONLY <1>3, <1>4, <2>1
  <2>3. /\ Grouped(some) \in Seq(Seq(Writes))
        /\ \A m \in DOMAIN Grouped(some) : \E i \in P : Grouped(some)[m] = <<g[i]>>
        /\ \A i \in P : \E m \in DOMAIN Grouped(some) : Grouped(some)[m] = <<g[i]>>
    BY ONLY <2>2, SinglesListed
  <2> QED BY ONLY <2>1, <2>3
<1> HIDE DEF groups, f, ws
<1>6. \A m \in DOMAIN ws : /\ GroupOK(ws[m]) /\ ~Creates(ws[m])
                           /\ \A k \in DOMAIN ws[m] : Reconciles(NoKey, ws[m][k])
  <2> SUFFICES ASSUME NEW m \in DOMAIN ws
               PROVE  /\ GroupOK(ws[m]) /\ ~Creates(ws[m])
                      /\ \A k \in DOMAIN ws[m] : Reconciles(NoKey, ws[m][k])
    OBVIOUS
  <2>1. PICK i \in Pending : ws[m] = <<f[i]>>
    BY <1>5
  <2>2. f[i] \in Writes /\ WriteOK(f[i]) /\ f[i].row # New /\ f[i].to.status = "withdrawn"
    BY <1>2
  <2>3. Reconciles(NoKey, f[i])
    BY <2>2 DEF Reconciles
  <2> QED BY <2>1, <2>2, <2>3, SingleGroup
<1>7. calls[t] \in CallRecords
  BY TypesNow, CallTypes
<1>8. /\ c \in CallRecords /\ c.at = "write" /\ c.writes = ws /\ c.key = NoKey /\ c.queue = <<>>
  BY <1>5, <1>7, IdleCall DEF CallRecords, Steps, NoCall
<1> HIDE DEF c
<1>9. calls'[t] = c
  BY <1>1, TypesNow DEF ProposalTypes
<1>10. CallOK(t)'
  <2>1. \A m \in DOMAIN calls'[t].writes : GroupOK(calls[t].writes[m])'
    BY <1>1, <1>6, <1>8, <1>9, GroupsNow DEF Others
  <2>2. \A m \in DOMAIN calls'[t].writes : \A k \in DOMAIN calls'[t].writes[m] :
          Reconciles(calls'[t].key, calls'[t].writes[m][k])
    BY <1>6, <1>8, <1>9
  <2> QED BY <1>8, <1>9, <2>1, <2>2 DEF CallOK, Reconciles
<1>11. \A i \in Live : \E m \in DOMAIN ws : ws[m][1].row = i
  <2> SUFFICES ASSUME NEW i \in Live PROVE \E m \in DOMAIN ws : ws[m][1].row = i
    OBVIOUS
  <2>1. i \in Pending /\ f[i].row = i /\ f[i] \in Writes
    BY <1>2 DEF Live
  <2>2. PICK m \in DOMAIN ws : ws[m] = <<f[i]>>
    BY <1>5, <2>1
  <2>3. ws[m][1] = f[i]
    BY <2>1, <2>2, SingleGroup
  <2> QED BY <2>1, <2>3
<1>12. Alone(c.writes) /\ Unasked(c.writes)
  BY <1>6, <1>8 DEF Alone, Unasked
<1> QED BY <1>1, <1>6, <1>8, <1>10, <1>11, <1>12, PlannedStep

LEMMA NewestIsThere ==
  ASSUME ProposalTypes, NEW S \in SUBSET DOMAIN proposals
  PROVE  /\ Newest(S) = New <=> S = {}
         /\ S # {} => Newest(S) \in S /\ \A j \in S : Newer(Newest(S), j)
<1>1. /\ Len(proposals) \in Nat /\ DOMAIN proposals = 1..Len(proposals)
      /\ \A i \in 1..Len(proposals) : proposals[i].born \in Nat
  BY RowTypes
<1>2. S # {} => Newest(S) \in S /\ \A j \in S : Newer(Newest(S), j)
  BY <1>1, NewestExists
<1>3. New \notin S
  BY <1>1 DEF New
<1>4. S = {} => Newest(S) = New
  BY DEF Newest
<1> QED BY <1>2, <1>3, <1>4

LEMMA OneIsNewer ==
  ASSUME ProposalTypes, NEW i \in DOMAIN proposals, NEW j \in DOMAIN proposals,
         Newer(i, j), Newer(j, i)
  PROVE  i = j
<1>1. i \in Nat /\ j \in Nat /\ proposals[i].born \in Nat /\ proposals[j].born \in Nat
  BY RowTypes
<1>2. ~(proposals[i].born > proposals[j].born /\ proposals[j].born > proposals[i].born)
  BY <1>1
<1>3. proposals[i].born = proposals[j].born /\ i >= j /\ j >= i
  BY <1>1 DEF Newer
<1> QED BY <1>1, <1>3

\* What a group of writes for an action is: it settles p, creates the new proposal, or both.
Settles(g, p, key) ==
  \E w \in Writes : /\ g = <<w>> /\ WriteOK(w) /\ w.row = p /\ p # New
                    /\ w.to.type = proposals[p].type /\ Reconciles(key, w)
Replaces(g, p, key, create) ==
  \E w \in Writes : /\ g = <<w, create>> /\ WriteOK(w) /\ w.row = p /\ p # New
                    /\ w.to.type = proposals[p].type /\ Reconciles(key, w)
                    /\ w.to.status = "superseded"

LEMMA SettledRow ==
  ASSUME ProposalInv, NEW p \in Pending, NEW key \in HighRisk \X (1..simulation.n)
  PROVE  /\ Settles(<<Flag(p)>>, p, key)
         /\ ~proposals[p].edited \/ proposals[p].stage # key =>
              /\ Settles(<<Settle(p, "superseded")>>, p, key)
              /\ \A create : Replaces(<<Settle(p, "superseded"), create>>, p, key, create)
<1>1. proposals[p] \in Rows /\ proposals[p].status = "pending" /\ key # NoKey
  <2>1. key \in HighRisk \X Nat
    BY TypesNow
  <2> QED BY <2>1, NoKeyIsLow, TypesNow, RowTypes DEF Pending
<1> DEFINE flagged == [proposals[p] EXCEPT !.flagged = TRUE]
           settled == [proposals[p] EXCEPT !.status = "superseded"]
<1>2. flagged \in Rows /\ SameProposal(flagged, proposals[p]) /\ flagged.status = "pending"
  BY <1>1 DEF Rows, SameProposal
<1>3. settled \in Rows /\ SameProposal(settled, proposals[p]) /\ settled.status = "superseded"
  BY <1>1 DEF Rows, SameProposal, Statuses
<1>4. Flag(p) = Write(p, flagged) /\ Settle(p, "superseded") = Write(p, settled)
  BY DEF Flag, Settle
<1> HIDE DEF flagged, settled
<1>5. /\ Flag(p) \in Writes /\ WriteOK(Flag(p)) /\ Flag(p).row = p /\ p # New
      /\ Flag(p).to = flagged
  BY <1>2, <1>4, WriteOfRow
<1>6. LET w == Settle(p, "superseded") IN
        w \in Writes /\ WriteOK(w) /\ w.row = p /\ w.base = proposals[p] /\ w.to = settled
  BY <1>3, <1>4, WriteOfRow
<1>7. Settles(<<Flag(p)>>, p, key)
  <2>1. Reconciles(key, Flag(p)) /\ Flag(p).to.type = proposals[p].type
    BY <1>1, <1>2, <1>5 DEF Reconciles, SameProposal
  <2> QED BY <1>5, <2>1 DEF Settles
<1>8. ASSUME ~proposals[p].edited \/ proposals[p].stage # key
      PROVE  /\ Settles(<<Settle(p, "superseded")>>, p, key)
             /\ \A create : Replaces(<<Settle(p, "superseded"), create>>, p, key, create)
  <2>1. PICK w : w = Settle(p, "superseded")
    OBVIOUS
  <2>2. w \in Writes /\ WriteOK(w) /\ w.row = p /\ w.base = proposals[p] /\ w.to = settled
    BY <1>6, <2>1
  <2>3. Reconciles(key, w) /\ w.to.type = proposals[p].type /\ w.to.status = "superseded"
    BY <1>1, <1>3, <1>8, <2>2 DEF Reconciles, SameProposal
  <2>4. Settles(<<w>>, p, key) /\ \A create : Replaces(<<w, create>>, p, key, create)
    BY <1>5, <2>2, <2>3 DEF Settles, Replaces
  <2> QED BY <2>1, <2>4
<1> QED BY <1>7, <1>8

LEMMA SettlesGroup ==
  ASSUME NEW g, NEW p, NEW key, Settles(g, p, key)
  PROVE  /\ g \in Seq(Writes) /\ g # <<>> /\ GroupOK(g) /\ ~Creates(g)
         /\ TypeOf(g) = proposals[p].type
         /\ \A k \in DOMAIN g : Reconciles(key, g[k])
<1>1. PICK w \in Writes : /\ g = <<w>> /\ WriteOK(w) /\ w.row = p /\ p # New
                          /\ w.to.type = proposals[p].type /\ Reconciles(key, w)
  BY DEF Settles
<1>2. /\ <<w>> \in Seq(Writes) /\ DOMAIN <<w>> = {1} /\ <<w>>[1] = w
      /\ TypeOf(<<w>>) = w.to.type /\ <<w>> # <<>> /\ ~Creates(<<w>>) /\ GroupOK(<<w>>)
  BY <1>1, SingleGroup
<1>3. \A k \in DOMAIN <<w>> : Reconciles(key, <<w>>[k])
  BY <1>1, <1>2
<1> QED BY <1>1, <1>2, <1>3

LEMMA ReplacesGroup ==
  ASSUME NEW g, NEW p, NEW key, NEW create \in Writes, Replaces(g, p, key, create),
         WriteOK(create), create.row = New, create.to.type = proposals[p].type,
         Reconciles(key, create)
  PROVE  /\ g \in Seq(Writes) /\ g # <<>> /\ GroupOK(g) /\ Creates(g) /\ Created(g) = create
         /\ Len(g) = 2 /\ g[1].row = p
         /\ TypeOf(g) = proposals[p].type
         /\ \A k \in DOMAIN g : Reconciles(key, g[k])
<1>1. PICK w \in Writes : /\ g = <<w, create>> /\ WriteOK(w) /\ w.row = p /\ p # New
                          /\ w.to.type = proposals[p].type /\ Reconciles(key, w)
                          /\ w.to.status = "superseded"
  BY DEF Replaces
<1>2. /\ g \in Seq(Writes) /\ Len(g) = 2 /\ DOMAIN g = {1, 2} /\ g[1] = w /\ g[2] = create
  BY <1>1
<1>3. g # <<>> /\ Len(g) \in 1..2
  <2>1. <<w, create>> # <<>>
    OBVIOUS
  <2>2. 2 \in 1..2
    OBVIOUS
  <2> QED BY ONLY <1>1, <1>2, <2>1, <2>2, Zenon
<1>4. Created(g) = create /\ Creates(g) /\ TypeOf(g) = proposals[p].type
  BY <1>1, <1>2 DEF Created, Creates, TypeOf
<1>5. \A k \in DOMAIN g : WriteOK(g[k]) /\ Reconciles(key, g[k])
  BY <1>1, <1>2
<1>6. GroupOK(g)
  BY <1>1, <1>2, <1>3, <1>5 DEF GroupOK
<1> QED BY <1>1, <1>2, <1>3, <1>4, <1>5, <1>6

LEMMA CreateWrite ==
  ASSUME ProposalInv, NEW type \in ActionTypes, NEW hash \in Hashes,
         NEW key \in HighRisk \X (1..simulation.n), NEW born \in Nat
  PROVE  LET create == Create(type, hash, key, born) IN
           /\ create \in Writes /\ WriteOK(create) /\ create.row = New
           /\ create.to.type = type /\ create.to.hash = hash /\ create.to.stage = key
           /\ create.to.born = born /\ Reconciles(key, create)
<1> DEFINE row == [type |-> type, hash |-> hash, stage |-> key, status |-> "pending",
                   edited |-> FALSE, flagged |-> FALSE, born |-> born]
           create == Create(type, hash, key, born)
<1>1. simulation.n \in Nat /\ Len(proposals) \in Nat
  BY TypesNow, RowTypes
<1>2. key \in Stages
  BY <1>1 DEF Stages
<1>3. row \in Rows
  BY <1>2 DEF Rows, Statuses
<1>4. create = [row |-> New, base |-> row, to |-> row]
  BY DEF Create, Write
<1>5. New \in Nat /\ New \in 0..Len(proposals)
  BY <1>1 DEF New
<1>6. key # NoKey
  BY <1>1, NoKeyIsLow
<1>7. create \in Writes
  BY <1>3, <1>4, <1>5 DEF Writes
<1>8. create.row = New /\ create.to = row /\ create.base = row
  BY <1>4
<1>9. WriteOK(create)
  BY <1>5, <1>8 DEF WriteOK
<1>10. Reconciles(key, create)
  BY <1>6, <1>8 DEF Reconciles
<1> HIDE DEF create
<1> QED BY <1>7, <1>8, <1>9, <1>10 DEF create

\* The cases of one action the model asks for.
LEMMA DesiredCases ==
  ASSUME ProposalInv, NEW type \in ActionTypes, NEW hash, NEW born,
         NEW key \in HighRisk \X (1..simulation.n)
  PROVE  LET p == Newest(OfType(type) \cap Pending)
             last == Newest(OfType(type))
             create == Create(type, hash, key, born)
             g == Desired(type, hash, key, born) IN
           \/ g = <<>>
           \/ p # New /\ Settles(g, p, key)
           \/ p # New /\ Replaces(g, p, key, create)
           \/ /\ p = New /\ g = <<create>>
              /\ last # New => ~Answers(proposals[last], create)
<1> DEFINE p == Newest(OfType(type) \cap Pending)
           last == Newest(OfType(type))
           create == Create(type, hash, key, born)
           g == Desired(type, hash, key, born)
<1>1. p # New => p \in Pending
  BY TypesNow, RowTypes, NewestIsThere
<1>2. create.to.stage = key /\ create.to.hash = hash
  BY DEF Create, Write
<1>3. CASE p # New /\ proposals[p].stage = key
  <2>1. p \in Pending /\ Settles(<<Flag(p)>>, p, key)
        /\ (~proposals[p].edited => Replaces(<<Settle(p, "superseded"), create>>, p, key, create))
    BY <1>1, <1>3, SettledRow
  <2>2. g = CASE proposals[p].hash = hash -> <<>>
              [] proposals[p].hash # hash /\ proposals[p].edited -> <<Flag(p)>>
              [] OTHER -> <<Settle(p, "superseded"), create>>
    BY <1>3 DEF Desired
  <2> HIDE DEF p, create, g
  <2>3. CASE proposals[p].hash = hash
    <3>1. g = <<>>
      BY <2>2, <2>3
    <3> QED BY <3>1 DEF g
  <2>4. CASE proposals[p].hash # hash /\ proposals[p].edited
    <3>1. g = <<Flag(p)>>
      BY <2>2, <2>4
    <3> QED BY <1>3, <2>1, <3>1 DEF p, create, g
  <2>5. CASE proposals[p].hash # hash /\ ~proposals[p].edited
    <3>1. g = <<Settle(p, "superseded"), create>>
      BY <2>2, <2>5
    <3> QED BY <1>3, <2>1, <2>5, <3>1 DEF p, create, g
  <2> QED BY <2>3, <2>4, <2>5 DEF p, create, g
<1>4. CASE ~(p # New /\ proposals[p].stage = key)
  <2>1. g = IF /\ last # New /\ proposals[last].status \in {"rejected", "approved"}
               /\ proposals[last].stage = key /\ proposals[last].hash = hash
            THEN <<>>
            ELSE IF p = New THEN <<create>> ELSE <<Settle(p, "superseded"), create>>
    BY <1>4 DEF Desired
  <2>2. p # New => Replaces(<<Settle(p, "superseded"), create>>, p, key, create)
    BY <1>1, <1>4, SettledRow
  <2> HIDE DEF p, last, create, g
  <2>3. \/ g = <<>>
        \/ p # New /\ g = <<Settle(p, "superseded"), create>>
        \/ /\ p = New /\ g = <<create>>
           /\ last # New => ~Answers(proposals[last], create)
    BY <2>1, <1>2 DEF Answers
  <2> QED BY <2>2, <2>3 DEF p, last, create, g
<1> QED BY <1>3, <1>4

LEMMA RemovedCases ==
  ASSUME ProposalInv, NEW type \in ActionTypes, NEW key \in HighRisk \X (1..simulation.n)
  PROVE  LET p == Newest(OfType(type) \cap Pending) IN
           Removed(type) = <<>> \/ (p # New /\ Settles(Removed(type), p, key))
<1> DEFINE p == Newest(OfType(type) \cap Pending)
<1>1. CASE p = New
  BY <1>1 DEF Removed
<1>2. CASE p # New
  <2>1. p \in Pending
    BY <1>2, TypesNow, RowTypes, NewestIsThere
  <2>2. Removed(type) = <<IF proposals[p].edited THEN Flag(p) ELSE Settle(p, "superseded")>>
    BY <1>2 DEF Removed
  <2> HIDE DEF p
  <2>3. CASE proposals[p].edited
    BY <1>2, <2>1, <2>2, <2>3, SettledRow DEF p
  <2>4. CASE ~proposals[p].edited
    BY <1>2, <2>1, <2>2, <2>4, SettledRow DEF p
  <2> QED BY <2>3, <2>4
<1> QED BY <1>1, <1>2

\* The newest of an action, when it is live, is the one that is settled.
LEMMA OneIsLive ==
  ASSUME ProposalInv, ~interlaced, NEW type, NEW i \in Live, proposals[i].type = type
  PROVE  Newest(OfType(type) \cap Pending) = i
<1>1. LiveIsNewest /\ ProposalTypes
  BY DEF ProposalInv, Serial
<1>2. i \in OfType(type) \cap Pending /\ \A k \in OfType(type) : Newer(i, k)
  BY <1>1 DEF LiveIsNewest, NewestOf, Live
<1> DEFINE p == Newest(OfType(type) \cap Pending)
<1>3. p \in OfType(type) /\ p \in DOMAIN proposals /\ i \in DOMAIN proposals /\ Newer(p, i)
  <2>1. OfType(type) \cap Pending \in SUBSET DOMAIN proposals
    BY <1>1, RowTypes
  <2>2. p \in OfType(type) \cap Pending /\ \A k \in OfType(type) \cap Pending : Newer(p, k)
    BY <1>1, <1>2, <2>1, NewestIsThere
  <2> QED BY <1>2, <2>1, <2>2
<1> HIDE DEF p
<1>4. Newer(i, p)
  BY <1>2, <1>3
<1>5. p = i
  BY <1>1, <1>3, <1>4, OneIsNewer
<1> QED BY <1>5 DEF p

LEMMA NewestIs ==
  ASSUME ProposalInv, NEW type, NEW j \in DOMAIN proposals, NewestOf(j, type)
  PROVE  Newest(OfType(type)) = j /\ Newest(OfType(type)) # New
<1>1. ProposalTypes
  BY TypesNow
<1>2. j \in OfType(type) /\ \A k \in OfType(type) : Newer(j, k)
  BY DEF NewestOf
<1>3. OfType(type) \in SUBSET DOMAIN proposals
  BY <1>1, RowTypes
<1> DEFINE p == Newest(OfType(type))
<1>4. p \in OfType(type) /\ p # New /\ \A k \in OfType(type) : Newer(p, k)
  BY <1>1, <1>2, <1>3, NewestIsThere
<1> HIDE DEF p
<1>5. p = j
  BY <1>1, <1>2, <1>3, <1>4, OneIsNewer
<1> QED BY <1>4, <1>5 DEF p

\* What is created follows the live proposal of its action, and answers no decision.
Follows(g, type) ==
  /\ ~interlaced => \A i \in Live : proposals[i].type = type => Len(g) = 2 /\ g[1].row = i
  /\ ~interlaced /\ clobbered = {} =>
       \A j \in DOMAIN proposals : NewestOf(j, type) =>
         IF Len(g) = 2 THEN j = g[1].row
         ELSE proposals[j].status # "pending" /\ ~Answers(proposals[j], Created(g))

LEMMA DesiredGroup ==
  ASSUME ProposalInv, NEW type \in ActionTypes, NEW hash \in Hashes,
         NEW key \in HighRisk \X (1..simulation.n), NEW born \in Nat,
         NEW g, g = Desired(type, hash, key, born)
  PROVE  /\ g \in Seq(Writes)
         /\ g # <<>> =>
              /\ GroupOK(g) /\ TypeOf(g) = type
              /\ \A k \in DOMAIN g : Reconciles(key, g[k])
              /\ Creates(g) => Created(g).to.born = born /\ Follows(g, type)
<1> DEFINE pending == OfType(type) \cap Pending
           p == Newest(pending)
           last == Newest(OfType(type))
<1>1. PICK create : create = Create(type, hash, key, born)
  OBVIOUS
<1>2. /\ create \in Writes /\ WriteOK(create) /\ create.row = New
      /\ create.to.type = type /\ create.to.born = born /\ Reconciles(key, create)
  BY <1>1, CreateWrite
<1>3. \/ g = <<>>
      \/ p # New /\ Settles(g, p, key)
      \/ p # New /\ Replaces(g, p, key, create)
      \/ /\ p = New /\ g = <<create>>
         /\ last # New => ~Answers(proposals[last], create)
  BY <1>1, DesiredCases
<1>4. ProposalTypes /\ pending \in SUBSET DOMAIN proposals
  BY TypesNow, RowTypes
<1>5. p # New => p \in OfType(type) /\ p \in Pending /\ p \in DOMAIN proposals
        /\ proposals[p].type = type
  <2>1. p # New => p \in pending
    BY <1>4, NewestIsThere
  <2> HIDE DEF p
  <2> QED BY <2>1, <1>4 DEF OfType
<1>6. CASE g = <<>>
  <2>1. <<>> \in Seq(Writes)
    OBVIOUS
  <2> QED BY <1>6, <2>1
<1>7. CASE p # New /\ Settles(g, p, key)
  <2> HIDE DEF p, last, pending
  <2> QED BY <1>5, <1>7, SettlesGroup
<1>8. CASE p # New /\ Replaces(g, p, key, create)
  <2>1. /\ g \in Seq(Writes) /\ g # <<>> /\ GroupOK(g) /\ Creates(g) /\ Created(g) = create
        /\ Len(g) = 2 /\ g[1].row = p /\ TypeOf(g) = type
        /\ \A k \in DOMAIN g : Reconciles(key, g[k])
    <3> HIDE DEF p, last, pending
    <3> QED BY <1>2, <1>5, <1>8, ReplacesGroup
  <2>2. ~interlaced => \A i \in Live : proposals[i].type = type => p = i
    BY OneIsLive
  <2>3. ASSUME ~interlaced, clobbered = {}, NEW j \in DOMAIN proposals, NewestOf(j, type)
        PROVE  j = p
    <3>1. LiveIsNewest /\ p \in Live
      BY <2>3, <1>5, <1>8 DEF ProposalInv, Serial, Live
    <3>2. NewestOf(p, type)
      BY <3>1, <1>5, <1>8 DEF LiveIsNewest
    <3>3. Newest(OfType(type)) = j
      BY <2>3, NewestIs
    <3>4. p \in DOMAIN proposals
      BY <1>5, <1>8
    <3> HIDE DEF p
    <3>5. Newest(OfType(type)) = p
      BY <3>2, <3>4, NewestIs
    <3> QED BY <3>3, <3>5
  <2> HIDE DEF p, last, pending
  <2>4. Follows(g, type)
    BY <2>1, <2>2, <2>3 DEF Follows
  <2> QED BY <1>2, <2>1, <2>4
<1>9. CASE p = New /\ g = <<create>> /\ (last # New => ~Answers(proposals[last], create))
  <2>1. /\ g \in Seq(Writes) /\ Len(g) = 1 /\ DOMAIN g = {1} /\ g[1] = create
        /\ TypeOf(g) = type /\ Created(g) = create /\ GroupOK(g)
    BY <1>2, <1>9, SingleGroup
  <2>2. pending = {}
    BY <1>4, <1>9, NewestIsThere
  <2>3. \A i \in Live : proposals[i].type # type
    BY <2>2 DEF Live, Pending, OfType
  <2>4. ASSUME NEW j \in DOMAIN proposals, NewestOf(j, type)
        PROVE  proposals[j].status # "pending" /\ ~Answers(proposals[j], create)
    <3>1. j \in OfType(type)
      BY <2>4 DEF NewestOf
    <3>2. j \notin Pending
      BY <2>2, <3>1
    <3>3. last = j /\ last # New
      BY <2>4, NewestIs
    <3> QED BY <1>9, <3>2, <3>3 DEF Pending
  <2> HIDE DEF p, last, pending
  <2>5. Follows(g, type)
    BY <2>1, <2>3, <2>4 DEF Follows
  <2> QED BY <1>2, <2>1, <2>5
<1> HIDE DEF p, last, pending
<1> QED BY <1>3, <1>6, <1>7, <1>8, <1>9

LEMMA RemovedGroup ==
  ASSUME ProposalInv, NEW type \in ActionTypes, NEW key \in HighRisk \X (1..simulation.n),
         NEW g, g = Removed(type)
  PROVE  /\ g \in Seq(Writes)
         /\ g # <<>> =>
              /\ GroupOK(g) /\ TypeOf(g) = type /\ ~Creates(g)
              /\ \A k \in DOMAIN g : Reconciles(key, g[k])
<1> DEFINE p == Newest(OfType(type) \cap Pending)
<1>1. g = <<>> \/ (p # New /\ Settles(g, p, key))
  BY RemovedCases
<1>2. ProposalTypes /\ OfType(type) \cap Pending \in SUBSET DOMAIN proposals
  BY TypesNow, RowTypes
<1>3. p # New => p \in OfType(type)
  BY <1>2, NewestIsThere
<1> HIDE DEF p
<1>4. p # New => proposals[p].type = type
  BY <1>3 DEF OfType
<1>5. <<>> \in Seq(Writes)
  OBVIOUS
<1> QED BY <1>1, <1>4, <1>5, SettlesGroup

LEMMA StageOfCall ==
  ASSUME ProposalInv, NEW t \in Callers, calls[t].at = "plan", calls[t].level \in HighRisk
  PROVE  StageKey(calls[t]) \in HighRisk \X (1..simulation.n)
<1> DEFINE newest == Newest(DOMAIN proposals)
<1>1. calls[t].key \in HighRisk \X (1..simulation.n)
  <2>1. calls[t].key \in (LevelNames \X Nat) \cup {NoKey}
    BY TypesNow, CallTypes DEF CallRecords
  <2>2. calls[t].key[1] \in HighRisk /\ calls[t].key[2] \in 1..simulation.n
    BY TypesNow DEF CallOK
  <2>3. calls[t].key = <<calls[t].key[1], calls[t].key[2]>>
    BY <2>1 DEF NoKey
  <2> QED BY <2>2, <2>3
<1>2. newest # New => proposals[newest].stage \in HighRisk \X (1..simulation.n)
  <2>1. newest # New => newest \in DOMAIN proposals
    BY TypesNow, NewestIsThere
  <2> HIDE DEF newest
  <2> QED BY <2>1, TypesNow DEF RowsOK
<1>3. \/ StageKey(calls[t]) = calls[t].key
      \/ newest # New /\ StageKey(calls[t]) = proposals[newest].stage
  BY DEF StageKey
<1> HIDE DEF newest
<1> QED BY <1>1, <1>2, <1>3

\* The groups of some actions, each listed once.
LEMMA FamilyListed ==
  ASSUME NEW T, IsFiniteSet(T), NEW f \in [T -> Seq(Writes)], NEW groups,
         \A x \in T : f[x] \in groups,
         \A g \in groups : \E x \in T : g = f[x]
  PROVE  /\ Grouped(groups) \in Seq(Seq(Writes))
         /\ \A m \in DOMAIN Grouped(groups) :
              \E x \in T : Grouped(groups)[m] = f[x] /\ f[x] # <<>>
         /\ \A m, n \in DOMAIN Grouped(groups) : Grouped(groups)[m] = Grouped(groups)[n] => m = n
<1>1. groups = {f[x] : x \in T} /\ DOMAIN f = T /\ f = [x \in T |-> f[x]]
  OBVIOUS
<1>2. IsFiniteSet(groups)
  BY <1>1, FiniteImage
<1>3. groups \in SUBSET Seq(Writes)
  OBVIOUS
<1>4. /\ Grouped(groups) \in Seq(Seq(Writes))
      /\ \A m \in DOMAIN Grouped(groups) :
           Grouped(groups)[m] \in groups /\ Grouped(groups)[m] # <<>>
      /\ \A m, n \in DOMAIN Grouped(groups) : Grouped(groups)[m] = Grouped(groups)[n] => m = n
  BY <1>2, <1>3, GroupsListed
<1> QED BY <1>4

\* The writes of a reconciliation: at most one group of an action that gets a new proposal.
Planned(ws, key, born) ==
  /\ ws \in Seq(Seq(Writes))
  /\ \A m \in DOMAIN ws :
       /\ GroupOK(ws[m]) /\ \A k \in DOMAIN ws[m] : Reconciles(key, ws[m][k])
       /\ Creates(ws[m]) =>
            /\ Created(ws[m]).to.born = born /\ Follows(ws[m], TypeOf(ws[m]))
            /\ \A n \in DOMAIN ws : n # m => TypeOf(ws[n]) # TypeOf(ws[m])

LEMMA ReconciliationWrites ==
  ASSUME ProposalAssumption, ProposalInv, NEW types \in SUBSET ActionTypes,
         NEW asked \in [types -> Hashes],
         NEW key \in HighRisk \X (1..simulation.n), NEW born \in Nat,
         NEW ws, ws = Reconciliation(asked, key, born)
  PROVE  Planned(ws, key, born)
<1> DEFINE others == ActionTypes \ types
           f == [x \in types |-> Desired(x, asked[x], key, born)]
           h == [x \in others |-> Removed(x)]
           wanted == {Desired(x, asked[x], key, born) : x \in types}
           unwanted == {Removed(x) : x \in others}
<1>1. IsFiniteSet(types) /\ IsFiniteSet(others)
  BY FS_Subset DEF ProposalAssumption
<1>2. \A x \in types :
        /\ f[x] \in Seq(Writes)
        /\ f[x] # <<>> =>
             /\ GroupOK(f[x]) /\ TypeOf(f[x]) = x
             /\ \A k \in DOMAIN f[x] : Reconciles(key, f[x][k])
             /\ Creates(f[x]) => Created(f[x]).to.born = born /\ Follows(f[x], x)
  <2> SUFFICES ASSUME NEW x \in types
               PROVE  /\ f[x] \in Seq(Writes)
                      /\ f[x] # <<>> =>
                           /\ GroupOK(f[x]) /\ TypeOf(f[x]) = x
                           /\ \A k \in DOMAIN f[x] : Reconciles(key, f[x][k])
                           /\ Creates(f[x]) => Created(f[x]).to.born = born /\ Follows(f[x], x)
    OBVIOUS
  <2>1. x \in ActionTypes /\ asked[x] \in Hashes /\ f[x] = Desired(x, asked[x], key, born)
    OBVIOUS
  <2> HIDE DEF f
  <2> QED BY <2>1, DesiredGroup
<1>3. \A x \in others :
        /\ h[x] \in Seq(Writes)
        /\ h[x] # <<>> =>
             /\ GroupOK(h[x]) /\ TypeOf(h[x]) = x /\ ~Creates(h[x])
             /\ \A k \in DOMAIN h[x] : Reconciles(key, h[x][k])
  <2> SUFFICES ASSUME NEW x \in others
               PROVE  /\ h[x] \in Seq(Writes)
                      /\ h[x] # <<>> =>
                           /\ GroupOK(h[x]) /\ TypeOf(h[x]) = x /\ ~Creates(h[x])
                           /\ \A k \in DOMAIN h[x] : Reconciles(key, h[x][k])
    OBVIOUS
  <2>1. x \in ActionTypes /\ h[x] = Removed(x)
    OBVIOUS
  <2> HIDE DEF h, others
  <2> QED BY <2>1, RemovedGroup
<1>4. /\ \A x \in types : f[x] \in wanted
      /\ \A g \in wanted : \E x \in types : g = f[x]
      /\ \A x \in others : h[x] \in unwanted
      /\ \A g \in unwanted : \E x \in others : g = h[x]
  OBVIOUS
<1>5. PICK a, b : a = Grouped(wanted) /\ b = Grouped(unwanted)
  OBVIOUS
<1>6. ws = a \o b
  BY <1>5 DEF Reconciliation
<1>7. f \in [types -> Seq(Writes)] /\ h \in [others -> Seq(Writes)]
  BY <1>2, <1>3
<1>8. types \cap others = {}
  OBVIOUS
<1> HIDE DEF f, h, wanted, unwanted, others
<1>9. /\ a \in Seq(Seq(Writes))
      /\ \A m \in DOMAIN a : \E x \in types : a[m] = f[x] /\ f[x] # <<>>
      /\ \A m, n \in DOMAIN a : a[m] = a[n] => m = n
  BY <1>1, <1>4, <1>5, <1>7, FamilyListed
<1>10. /\ b \in Seq(Seq(Writes))
       /\ \A m \in DOMAIN b : \E x \in others : b[m] = h[x] /\ h[x] # <<>>
  BY <1>1, <1>4, <1>5, <1>7, FamilyListed
<1>11. /\ ws \in Seq(Seq(Writes)) /\ Len(ws) = Len(a) + Len(b)
       /\ \A m \in 1..(Len(a) + Len(b)) : ws[m] = IF m <= Len(a) THEN a[m] ELSE b[m - Len(a)]
  BY <1>6, <1>9, <1>10, ConcatProperties
<1>12. /\ DOMAIN a = 1..Len(a) /\ DOMAIN b = 1..Len(b) /\ Len(a) \in Nat /\ Len(b) \in Nat
       /\ DOMAIN ws = 1..(Len(a) + Len(b))
  BY <1>9, <1>10, <1>11, LenProperties
<1>13. \A m \in 1..(Len(a) + Len(b)) :
         /\ m <= Len(a) => m \in 1..Len(a)
         /\ ~(m <= Len(a)) => m - Len(a) \in 1..Len(b)
  BY ONLY <1>12
<1>14. \A m \in DOMAIN ws :
         \/ m \in DOMAIN a /\ ws[m] = a[m]
         \/ m - Len(a) \in DOMAIN b /\ ws[m] = b[m - Len(a)]
  BY <1>11, <1>12, <1>13
<1>15. \A m \in DOMAIN ws :
         \/ m \in DOMAIN a /\ ws[m] = a[m] /\ \E x \in types : ws[m] = f[x] /\ f[x] # <<>>
         \/ \E x \in others : ws[m] = h[x] /\ h[x] # <<>>
  <2> SUFFICES ASSUME NEW m \in DOMAIN ws
               PROVE  \/ m \in DOMAIN a /\ ws[m] = a[m] /\ \E x \in types : ws[m] = f[x] /\ f[x] # <<>>
                      \/ \E x \in others : ws[m] = h[x] /\ h[x] # <<>>
    OBVIOUS
  <2>1. CASE m \in DOMAIN a /\ ws[m] = a[m]
    <3>1. \E x \in types : a[m] = f[x] /\ f[x] # <<>>
      BY <2>1, <1>9
    <3> QED BY ONLY <2>1, <3>1
  <2>2. CASE m - Len(a) \in DOMAIN b /\ ws[m] = b[m - Len(a)]
    <3>1. \E x \in others : b[m - Len(a)] = h[x] /\ h[x] # <<>>
      BY <2>2, <1>10
    <3> QED BY ONLY <2>2, <3>1
  <2> QED BY <2>1, <2>2, <1>14
<1>16. ASSUME NEW m \in DOMAIN ws
       PROVE  /\ GroupOK(ws[m]) /\ \A k \in DOMAIN ws[m] : Reconciles(key, ws[m][k])
              /\ Creates(ws[m]) =>
                   /\ Created(ws[m]).to.born = born /\ Follows(ws[m], TypeOf(ws[m]))
                   /\ \A n \in DOMAIN ws : n # m => TypeOf(ws[n]) # TypeOf(ws[m])
  <2>1. CASE \E x \in others : ws[m] = h[x] /\ h[x] # <<>>
    BY <2>1, <1>3
  <2>2. CASE m \in DOMAIN a /\ ws[m] = a[m] /\ \E x \in types : ws[m] = f[x] /\ f[x] # <<>>
    <3>1. PICK x \in types : ws[m] = f[x] /\ f[x] # <<>>
      BY <2>2
    <3>2. /\ GroupOK(ws[m]) /\ TypeOf(ws[m]) = x
          /\ \A k \in DOMAIN ws[m] : Reconciles(key, ws[m][k])
          /\ Creates(ws[m]) => Created(ws[m]).to.born = born /\ Follows(ws[m], x)
      BY <3>1, <1>2
    <3>3. ASSUME NEW n \in DOMAIN ws, TypeOf(ws[n]) = x PROVE n = m
      <4>1. CASE \E y \in others : ws[n] = h[y] /\ h[y] # <<>>
        <5>1. PICK y \in others : ws[n] = h[y] /\ h[y] # <<>>
          BY <4>1
        <5>2. y = x
          BY <5>1, <3>3, <1>3
        <5> QED BY <5>2, <1>8
      <4>2. CASE n \in DOMAIN a /\ ws[n] = a[n] /\ \E y \in types : ws[n] = f[y] /\ f[y] # <<>>
        <5>1. PICK y \in types : ws[n] = f[y] /\ f[y] # <<>>
          BY <4>2
        <5>2. y = x
          BY <5>1, <3>3, <1>2
        <5>3. a[n] = a[m]
          BY <5>1, <5>2, <3>1, <4>2, <2>2
        <5> QED BY <5>3, <4>2, <2>2, <1>9
      <4> QED BY <4>1, <4>2, <1>15
    <3> QED BY <3>2, <3>3
  <2> QED BY <2>1, <2>2, <1>15
<1> QED BY <1>11, <1>16 DEF Planned

\* The model was asked: its proposals follow those that are live.
LEMMA PlanStep ==
  ASSUME ProposalAssumption, ProposalInv, NEW t \in Callers, NEW asked \in Requests, plan(t, asked)
  PROVE  ProposalInv'
<1>1. PICK types \in SUBSET ActionTypes : asked \in [types -> Hashes]
  BY DEF Requests
<1>2. PICK key : key = StageKey(calls[t])
  OBVIOUS
<1>3. PICK ws : ws = Reconciliation(asked, key, calls[t].born)
  OBVIOUS
<1>4. PICK c : c = [NoCall EXCEPT !.at = "write", !.decision = calls[t].decision, !.key = key,
                                !.writes = ws]
  OBVIOUS
<1>5. /\ calls' = [calls EXCEPT ![t] = c] /\ Others
      /\ calls[t].at = "plan" /\ calls[t].level \in HighRisk
  BY <1>2, <1>3, <1>4 DEF plan, Call, Others, ghosts
<1>6. key \in HighRisk \X (1..simulation.n) /\ simulation.n \in Nat
  BY <1>2, <1>5, StageOfCall, TypesNow
<1>7. calls[t] \in CallRecords /\ calls[t].born \in Nat
  BY TypesNow, CallTypes DEF CallRecords
<1>8. /\ ws \in Seq(Seq(Writes))
      /\ \A m \in DOMAIN ws :
           /\ GroupOK(ws[m]) /\ \A k \in DOMAIN ws[m] : Reconciles(key, ws[m][k])
           /\ Creates(ws[m]) =>
                /\ Created(ws[m]).to.born = calls[t].born /\ Follows(ws[m], TypeOf(ws[m]))
                /\ \A n \in DOMAIN ws : n # m => TypeOf(ws[n]) # TypeOf(ws[m])
  <2>1. types \in SUBSET ActionTypes /\ asked \in [types -> Hashes] /\ calls[t].born \in Nat
    BY <1>1, <1>7
  <2>2. PICK born : born = calls[t].born
    OBVIOUS
  <2>3. born \in Nat /\ ws = Reconciliation(asked, key, born)
    BY <1>3, <2>1, <2>2
  <2>4. Planned(ws, key, born)
    BY <1>6, <2>1, <2>3, ReconciliationWrites
  <2> QED BY <2>2, <2>4 DEF Planned
<1>9. key \in LevelNames \X Nat /\ key # NoKey
  BY <1>6, NoKeyIsLow DEF HighRisk, LevelNames
<1>10. /\ c \in CallRecords /\ c.at = "write" /\ c.writes = ws /\ c.key = key /\ c.queue = <<>>
  BY <1>4, <1>7, <1>8, <1>9, IdleCall DEF CallRecords, Steps, NoCall
<1>11. calls'[t] = c
  BY <1>5, TypesNow DEF ProposalTypes
<1>12. CallOK(t)'
  <2>1. \A m \in DOMAIN calls'[t].writes : GroupOK(calls[t].writes[m])'
    BY <1>5, <1>8, <1>10, <1>11, GroupsNow DEF Others
  <2>2. \A m \in DOMAIN calls'[t].writes : \A k \in DOMAIN calls'[t].writes[m] :
          Reconciles(calls'[t].key, calls'[t].writes[m][k])
    BY <1>8, <1>10, <1>11
  <2> QED BY <1>10, <1>11, <2>1, <2>2 DEF CallOK, Reconciles
<1>13. ~interlaced => Alone(c.writes)
  BY <1>8, <1>10 DEF Alone, Follows
<1>14. ~interlaced /\ clobbered = {} => Unasked(c.writes)
  BY <1>8, <1>10 DEF Unasked, Follows
<1>15. ~interlaced /\ ~missed => level # "low"
  BY <1>5 DEF ProposalInv, Serial, LevelIsRead, HighRisk
<1> QED BY <1>5, <1>8, <1>9, <1>10, <1>12, <1>13, <1>14, <1>15, PlannedStep

-----------------------------------------------------------------------------
(***************************************************************************)
(* The invariant holds.                                                    *)
(***************************************************************************)
LEMMA InvInit ==
  ASSUME ProposalInit
  PROVE  ProposalInv
<1>1. /\ simulation = [n |-> 0, level |-> "none"] /\ level = "low"
      /\ proposals = <<>> /\ bundles = <<>> /\ calls = [t \in Callers |-> NoCall]
      /\ reconciles = 0 /\ crashes = 0
      /\ interlaced = FALSE /\ clobbered = {} /\ missed = FALSE /\ cut = {}
  BY DEF ProposalInit
<1>2. \A t \in Callers : /\ calls[t] = NoCall /\ calls[t].at = "idle" /\ calls[t].writes = <<>>
                         /\ calls[t].queue = <<>>
  BY <1>1, IdleCall DEF NoCall
<1>3. DOMAIN proposals = {} /\ Pending = {} /\ Live = {}
  BY <1>1 DEF Pending, Live
<1>4. ProposalTypes
  <2>1. calls \in [Callers -> CallRecords]
    BY <1>1, IdleCall
  <2>2. proposals \in Seq(Rows) /\ bundles \in Seq(Nat) /\ Len(bundles) = Len(proposals)
    BY <1>1
  <2>3. simulation \in [n : Nat, level : LevelNames \cup {"none"}]
    BY <1>1
  <2>4. level \in LevelNames
    BY <1>1 DEF LevelNames
  <2>5. reconciles \in Nat /\ crashes \in Nat
    BY <1>1
  <2>6. interlaced \in BOOLEAN /\ missed \in BOOLEAN
    BY <1>1
  <2> QED BY <2>1, <2>2, <2>3, <2>4, <2>5, <2>6 DEF ProposalTypes
<1>5. RowsOK /\ ApprovalsAreCarriedOut
  BY <1>3 DEF RowsOK, ApprovalsAreCarriedOut
<1>6. \A t \in Callers : CallOK(t)
  BY <1>2 DEF CallOK
<1>7. Serial
  <2>1. \A t \in Callers : ~Reconciling(t)
    BY <1>2 DEF Reconciling
  <2>2. OneReconciles
    BY <1>2, <1>3, <2>1 DEF OneReconciles
  <2>3. LiveIsNewest
    BY <1>3 DEF LiveIsNewest
  <2>4. CreatedAlone /\ CreatedUnasked
    BY <1>2 DEF CreatedAlone, CreatedUnasked, Alone, Unasked
  <2>5. LevelIsRead
    BY <1>2, <1>3 DEF LevelIsRead
  <2> QED BY <2>2, <2>3, <2>4, <2>5 DEF Serial
<1> QED BY <1>4, <1>5, <1>6, <1>7 DEF ProposalInv

LEMMA InvStutters ==
  ASSUME ProposalInv, UNCHANGED proposalVars
  PROVE  ProposalInv'
<1>1. UNCHANGED <<simulation, level, proposals, bundles, calls, reconciles, crashes,
                  interlaced, clobbered, missed, cut>>
  BY DEF proposalVars
<1>2. ProposalTypes' /\ RowsOK' /\ ApprovalsAreCarriedOut'
  BY <1>1 DEF ProposalInv, ProposalTypes, RowsOK, ApprovalsAreCarriedOut
<1>3. \A t \in Callers : CallOK(t)'
  <2> SUFFICES ASSUME NEW t \in Callers PROVE CallOK(t)'
    OBVIOUS
  <2>1. RowsKept /\ simulation'.n \in Nat /\ simulation.n <= simulation'.n
    BY <1>1, TypesNow, UntouchedRows
  <2> QED BY <1>1, <1>2, <2>1, TypesNow, CallsKept
<1>4. Serial'
  <2>1. (OneReconciles => OneReconciles') /\ (LiveIsNewest => LiveIsNewest')
    BY <1>1 DEF OneReconciles, Reconciling, Creates, Created, LiveIsNewest, Live, Pending,
                NewestOf, OfType, Newer
  <2>2. CreatedAlone => CreatedAlone'
    BY <1>1 DEF CreatedAlone, Alone, Live, Pending, Creates, Created, TypeOf
  <2>3. CreatedUnasked => CreatedUnasked'
    BY <1>1 DEF CreatedUnasked, Unasked, NewestOf, OfType, Newer, Answers, Creates, Created, TypeOf
  <2>4. LevelIsRead => LevelIsRead'
    BY <1>1 DEF LevelIsRead, Reconciling, Live, Pending
  <2> QED BY <1>1, <2>1, <2>2, <2>3, <2>4 DEF ProposalInv, Serial
<1> QED BY <1>2, <1>3, <1>4 DEF ProposalInv

LEMMA InvNext ==
  ASSUME ProposalAssumption, ProposalInv, [ProposalNext]_proposalVars
  PROVE  ProposalInv'
<1>1. ASSUME NEW t \in Callers, NEW l \in Levels, simulate(t, l) PROVE ProposalInv'
  BY <1>1, SimulateStep
<1>2. ASSUME NEW t \in Callers,
             set_hazard(t) \/ process_trigger(t) \/ other_run(t) \/ run_over(t)
               \/ generate_proposals(t)
      PROVE  ProposalInv'
  BY <1>2, HazardStep, TriggerStep, OtherRunStep
<1>3. ASSUME NEW t \in Callers, read_level(t) \/ withdraw(t) \/ model_fails(t) PROVE ProposalInv'
  BY <1>3, ReadLevelStep, WithdrawStep, FailsStep
<1>4. ASSUME NEW t \in Callers, NEW asked \in Requests, plan(t, asked) PROVE ProposalInv'
  BY <1>4, PlanStep
<1>5. ASSUME NEW t \in Callers, write(t) \/ read_package(t) \/ reconciled(t) PROVE ProposalInv'
  BY <1>5, WriteStep, ReadPackageStep, ReconciledStep
<1>6. ASSUME NEW t \in Callers, NEW job \in {"edit", "approve", "reject"}, NEW i \in Pending,
             open_case(t, job, <<i>>) \/ open_case(t, job, Package(proposals[i].stage))
      PROVE  ProposalInv'
  BY <1>6, OpenOneStep, OpenPackageStep
<1>7. ASSUME NEW t \in Callers,
             read_case(t) \/ bundle_fails(t) \/ resolve(t) \/ save_bundle(t) \/ close_case(t)
      PROVE  ProposalInv'
  BY <1>7, ReadCaseStep, CaseOverStep, ResolveStep, BundleStep
<1>8. ASSUME NEW t \in Callers, NEW i \in DOMAIN proposals, generate_warnings(t, i)
      PROVE  ProposalInv'
  BY <1>8, WarnStep
<1>9. CASE restart
  BY <1>9, RestartStep
<1>10. CASE UNCHANGED proposalVars
  BY <1>10, InvStutters
<1>11. CASE ProposalNext
  BY <1>11, <1>1, <1>2, <1>3, <1>4, <1>5, <1>6, <1>7, <1>8, <1>9 DEF ProposalNext
<1> QED BY <1>10, <1>11

LEMMA InvHolds ==
  ASSUME ProposalAssumption
  PROVE  ProposalSpec => []ProposalInv
<1>1. ProposalInit => ProposalInv
  BY InvInit
<1>2. ProposalInv /\ [ProposalNext]_proposalVars => ProposalInv'
  BY InvNext
<1> QED BY <1>1, <1>2, PTL DEF ProposalSpec

-----------------------------------------------------------------------------
(***************************************************************************)
(* What follows from it.                                                   *)
(***************************************************************************)
LEMMA OrderlyQueue ==
  ASSUME ProposalInv
  PROVE  QueueIsOrderly
<1>1. ProposalTypes
  BY TypesNow
<1>2. ProposalTypeOK
  <2>1. \A i \in DOMAIN proposals : proposals[i] \in Rows
    BY <1>1, RowTypes
  <2>2. \A i \in DOMAIN proposals :
          proposals[i].status \in {"pending", "approved", "rejected", "superseded", "withdrawn"}
    BY <2>1 DEF Rows, Statuses
  <2>3. \A i \in DOMAIN proposals : proposals[i].stage \in HighRisk \X (1..simulation.n)
    BY TypesNow DEF RowsOK
  <2>4. \A t \in Callers : \A n \in DOMAIN calls[t].queue : calls[t].queue[n] \in DOMAIN proposals
    BY TypesNow DEF CallOK
  <2>5. DOMAIN bundles = DOMAIN proposals
    BY <1>1, RowTypes
  <2> QED BY <2>2, <2>3, <2>4, <2>5 DEF ProposalTypeOK
<1>3. OnePendingPerAction
  <2> SUFFICES ASSUME ~interlaced, NEW i \in Live, NEW j \in Live,
                      proposals[i].type = proposals[j].type
               PROVE  i = j
    BY DEF OnePendingPerAction, Live
  <2>1. NewestOf(i, proposals[i].type) /\ NewestOf(j, proposals[i].type)
    BY DEF ProposalInv, Serial, LiveIsNewest
  <2>2. i \in DOMAIN proposals /\ j \in DOMAIN proposals /\ Newer(i, j) /\ Newer(j, i)
    BY <2>1 DEF NewestOf, OfType
  <2> QED BY <1>1, <2>2, OneIsNewer
<1>4. LowMeansWithdrawn
  BY DEF LowMeansWithdrawn, ProposalInv, Serial, LevelIsRead, Live
<1> QED BY <1>2, <1>3, <1>4 DEF QueueIsOrderly

\* Only reconciliations and commanders write proposals.
LEMMA WhoWrites ==
  ASSUME ProposalNext, ~UNCHANGED <<proposals, clobbered>>
  PROVE  \E t \in Callers : write(t) \/ resolve(t)
<1>1. ASSUME NEW t \in Callers,
             \/ \E l \in Levels : simulate(t, l)
             \/ set_hazard(t) \/ process_trigger(t) \/ other_run(t) \/ run_over(t)
             \/ generate_proposals(t) \/ read_level(t) \/ withdraw(t)
             \/ \E asked \in Requests : plan(t, asked)
             \/ model_fails(t) \/ read_package(t) \/ reconciled(t)
             \/ \E job, queue : open_case(t, job, queue)
             \/ read_case(t) \/ bundle_fails(t) \/ save_bundle(t) \/ close_case(t)
             \/ \E i : generate_warnings(t, i)
      PROVE  UNCHANGED <<proposals, clobbered>>
  BY <1>1 DEF simulate, set_hazard, process_trigger, other_run, run_over, generate_proposals,
              read_level, withdraw, plan, model_fails, read_package, reconciled, open_case,
              read_case, bundle_fails, save_bundle, close_case, generate_warnings, ghosts
<1>2. CASE restart
  BY <1>2 DEF restart
<1> QED BY <1>1, <1>2 DEF ProposalNext

\* A commander's write settles or edits the proposal it was made from.
LEMMA ResolveWrites ==
  ASSUME ProposalInv, NEW t \in Callers, resolve(t)
  PROVE  LET w == First(calls[t].writes) IN
           w \in Writes /\ WriteOK(w) /\ Store(w) /\ w.row # New /\ w.to.status # "superseded"
<1>1. calls[t].at = "resolve" /\ Store(First(calls[t].writes))
  BY DEF resolve
<1>2. /\ calls[t].queue # <<>> /\ Len(calls[t].writes) = 1
      /\ calls[t].writes[1][1].row = Head(calls[t].queue)
      /\ calls[t].writes[1][1].to = Resolution(calls[t].writes[1][1].base, calls[t].decision)
      /\ calls[t].decision \in {"edit", "approve", "reject"}
      /\ \A m \in DOMAIN calls[t].writes : GroupOK(calls[t].writes[m])
  BY <1>1, TypesNow DEF CallOK
<1>3. calls[t].writes \in Seq(Seq(Writes)) /\ calls[t].writes # <<>>
  BY <1>2, TypesNow, CallTypes
<1> DEFINE w == First(calls[t].writes)
<1>4. /\ w \in Writes /\ WriteOK(w) /\ w.row = Head(calls[t].queue)
      /\ w.to = Resolution(w.base, calls[t].decision)
  BY <1>2, <1>3, RestGroups
<1>5. w.row # New
  BY <1>2, <1>4, HeadIsThere
<1> HIDE DEF w
<1>6. w.base \in Rows /\ w.base.status = "pending"
  BY <1>4, <1>5 DEF Writes, WriteOK
<1>7. w.to.status # "superseded"
  <2>1. CASE calls[t].decision = "edit"
    BY <1>4, <1>6, <2>1 DEF Resolution, Rows
  <2>2. CASE calls[t].decision = "approve"
    BY <1>4, <1>6, <2>2 DEF Resolution, Rows
  <2>3. CASE calls[t].decision = "reject"
    BY <1>4, <1>6, <2>3 DEF Resolution, Rows
  <2> QED BY <1>2, <2>1, <2>2, <2>3
<1> QED BY <1>1, <1>4, <1>5, <1>7 DEF w

\* A reconciliation's write supersedes no edit within its stage, and creates what is not answered.
LEMMA WriteWrites ==
  ASSUME ProposalInv, NEW t \in Callers, write(t)
  PROVE  LET w == First(calls[t].writes) IN
           /\ calls[t].writes # <<>> /\ w \in Writes /\ WriteOK(w) /\ Store(w)
           /\ w.to.status = "superseded" /\ w.base.edited => w.base.stage # calls[t].key
           /\ w.row = New /\ ~interlaced /\ clobbered = {} =>
                \A j \in DOMAIN proposals : NewestOf(j, w.to.type) => ~Answers(proposals[j], w)
<1>1. PICK ws : ws = calls[t].writes
  OBVIOUS
<1>2. PICK w : w = First(ws)
  OBVIOUS
<1>3. /\ calls[t].at \in {"write", "attach"} /\ ws # <<>> /\ ws \in Seq(Seq(Writes))
      /\ \A m \in DOMAIN ws : GroupOK(ws[m])
      /\ Store(w)
  BY <1>1, <1>2, WriteCall
<1>4. /\ 1 \in DOMAIN ws /\ w = ws[1][1] /\ w \in Writes /\ WriteOK(w) /\ 1 \in DOMAIN ws[1]
  BY <1>2, <1>3, RestGroups
<1>5. w.to.status = "superseded" /\ w.base.edited => w.base.stage # calls[t].key
  <2>1. CASE calls[t].at = "write"
    <3>1. Reconciles(calls[t].key, ws[1][1])
      BY <2>1, <1>1, <1>4, TypesNow DEF CallOK
    <3> QED BY <3>1, <1>4 DEF Reconciles
  <2>2. CASE calls[t].at = "attach"
    <3>1. ws[1][1].to.status = "pending"
      BY <2>2, <1>1, <1>4, TypesNow DEF CallOK
    <3> QED BY <3>1, <1>4
  <2> QED BY <1>3, <2>1, <2>2
<1>6. ASSUME w.row = New, ~interlaced, clobbered = {}, NEW j \in DOMAIN proposals,
             NewestOf(j, w.to.type)
      PROVE  ~Answers(proposals[j], w)
  <2>1. Len(ws[1]) = 1
    <3>1. \A n \in 1..2 : n = 1 \/ n = 2
      OBVIOUS
    <3> QED BY <1>3, <1>4, <1>6, <3>1 DEF GroupOK
  <2>2. Created(ws[1]) = w /\ Creates(ws[1]) /\ TypeOf(ws[1]) = w.to.type
    BY <1>4, <1>6, <2>1 DEF Created, Creates, TypeOf
  <2>3. Unasked(ws)
    BY <1>1, <1>6 DEF ProposalInv, Serial, CreatedUnasked
  <2> QED BY <1>4, <1>6, <2>1, <2>2, <2>3 DEF Unasked
<1> QED BY <1>1, <1>2, <1>3, <1>4, <1>5, <1>6

\* What a commander decided or edited stands, whatever is written.
LEMMA DecisionsKept ==
  ASSUME ProposalInv, ProposalNext
  PROVE  DecisionsStand
<1>1. CASE UNCHANGED <<proposals, clobbered>>
  <2>1. ResolvedStays /\ EditsAreKept
    BY <1>1 DEF ResolvedStays, EditsAreKept
  <2>2. Len(proposals) \in Nat
    BY TypesNow, RowTypes
  <2>3. NotAskedAgain
    BY <1>1, <2>2 DEF NotAskedAgain
  <2> QED BY <2>1, <2>3 DEF DecisionsStand
<1>2. CASE ~UNCHANGED <<proposals, clobbered>>
  <2>1. PICK t \in Callers : write(t) \/ resolve(t)
    BY <1>2, WhoWrites
  <2>2. PICK w : w = First(calls[t].writes)
    OBVIOUS
  <2>3. w \in Writes /\ WriteOK(w) /\ Store(w)
    BY <2>1, <2>2, ResolveWrites, WriteWrites
  <2>4. ProposalTypes
    BY TypesNow
  <2>5. RowsKept
    BY <2>3, <2>4, StoreKeepsRows
  <2>6. ResolvedStays
    BY <2>5 DEF ResolvedStays, RowsKept
  <2>7. EditsAreKept
    <3> SUFFICES ASSUME NEW i \in DOMAIN proposals,
                        proposals[i].status = "pending", proposals[i].edited,
                        proposals'[i].status = "superseded", i \notin clobbered'
                 PROVE  \E u \in Callers : calls[u].writes # <<>>
                                           /\ calls[u].key # proposals[i].stage
      BY DEF EditsAreKept
    <3>1. w.row = i
      <4>1. CASE w.row = New
        <5>1. proposals'[i] = proposals[i]
          BY <4>1, <2>3, <2>4, CreatedRow
        <5> QED BY <5>1
      <4>2. CASE w.row # New
        BY <4>2, <2>3, <2>4, ReplacedRow DEF WriteOK
      <4> QED BY <4>1, <4>2
    <3>2. i # New
      BY <2>4, RowTypes DEF New
    <3>3. proposals'[i] = w.to /\ proposals[i] = w.base
      BY <3>1, <3>2, <2>3, <2>4, ReplacedRow DEF WriteOK
    <3>4. write(t)
      BY <2>1, <2>2, <3>3, ResolveWrites
    <3>5. calls[t].writes # <<>> /\ w.base.stage # calls[t].key
      BY <2>2, <3>3, <3>4, WriteWrites
    <3> QED BY <3>3, <3>5
  <2>8. NotAskedAgain
    <3> SUFFICES ASSUME Len(proposals') > Len(proposals), ~interlaced, clobbered = {},
                        NEW new, new = Last(proposals'),
                        NEW last, last = Newest(OfType(new.type)),
                        last # New, proposals[last].status \in {"approved", "rejected"},
                        proposals[last].stage = new.stage, proposals[last].hash = new.hash
                 PROVE  FALSE
      BY DEF NotAskedAgain
    <3>0. Len(proposals) \in Nat
      BY <2>4, RowTypes
    <3>1. w.row = New
      <4> SUFFICES ASSUME w.row # New PROVE FALSE
        OBVIOUS
      <4>1. Len(proposals') = Len(proposals)
        BY <2>3, <2>4, ReplacedRow DEF WriteOK
      <4> QED BY <3>0, <4>1
    <3>2. Len(proposals') = Len(proposals) + 1 /\ proposals'[Len(proposals) + 1] = w.to
      BY <2>3, <2>4, <3>1, CreatedRow
    <3>3. new = w.to
      BY <3>2 DEF Last
    <3>4. write(t)
      BY <2>1, <2>2, <3>1, ResolveWrites
    <3>5. OfType(new.type) \in SUBSET DOMAIN proposals
      BY <2>4, RowTypes
    <3>6. last \in OfType(new.type) /\ \A k \in OfType(new.type) : Newer(last, k)
      BY <2>4, <3>5, NewestIsThere
    <3>7. NewestOf(last, w.to.type) /\ last \in DOMAIN proposals
      BY <3>3, <3>5, <3>6 DEF NewestOf
    <3>8. ~Answers(proposals[last], w)
      BY <2>2, <3>1, <3>4, <3>7, WriteWrites
    <3> QED BY <3>3, <3>8 DEF Answers
  <2> QED BY <2>6, <2>7, <2>8 DEF DecisionsStand
<1> QED BY <1>1, <1>2

-----------------------------------------------------------------------------
(***************************************************************************)
(* Theorems.                                                               *)
(***************************************************************************)
\* The queue holds the proposals of the present level, each action once: what a
\* reconciliation adds comes after what it settles, and a low level empties it.
THEOREM QueueSafe ==
  ASSUME ProposalAssumption
  PROVE  ProposalSpec => []QueueIsOrderly
<1>1. ProposalInv => QueueIsOrderly
  BY OrderlyQueue
<1> QED BY <1>1, InvHolds, PTL

\* Every approval that is stored gets its notifications, and nothing else does, unless
\* a stale copy took it back or the process stopped before they were stored.
THEOREM ApprovalsSafe ==
  ASSUME ProposalAssumption
  PROVE  ProposalSpec => []ApprovalsAreCarriedOut
<1>1. ProposalInv => ApprovalsAreCarriedOut
  BY DEF ProposalInv
<1> QED BY <1>1, InvHolds, PTL

\* No step undoes, asks again for or replaces what a commander decided or edited, unless
\* it stores a copy that was out of date or reconciliations overlapped.
THEOREM CommandersSafe ==
  ASSUME ProposalAssumption
  PROVE  ProposalSpec => CommandersPrevail
<1>1. ProposalInv /\ [ProposalNext]_proposalVars => [DecisionsStand]_proposalVars
  BY DecisionsKept
<1> QED BY <1>1, InvHolds, PTL DEF ProposalSpec, CommandersPrevail
=============================================================================
