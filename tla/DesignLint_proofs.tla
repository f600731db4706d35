------------------------- MODULE DesignLint_proofs --------------------------
(***************************************************************************)
(* Proofs about DesignGraph and DesignLint.                                *)
(***************************************************************************)
EXTENDS DesignLint, FiniteSetTheorems, WellFoundedInduction, NaturalsInduction, TLAPS

-----------------------------------------------------------------------------
(* Loops *)

(* A set of natural numbers that is not empty has a least element, < being *)
(* well-founded.                                                           *)
LEMMA MinimalExists ==
  ASSUME NEW R, NEW S, IsWellFoundedOn(R, Nat), S \subseteq Nat, S # {}
  PROVE  \E n \in S : \A m \in S : ~(<<m, n>> \in R)
BY WFMin

(* The same, stated for a relation that is < on the naturals. *)
LEMMA LeastByRelation ==
  ASSUME NEW R, NEW S, IsWellFoundedOn(R, Nat), S \subseteq Nat, S # {},
         \A m, n \in Nat : <<m, n>> \in R <=> m < n
  PROVE  \E n \in S : \A m \in S : n <= m
<1>1. PICK n \in S : \A m \in S : ~(<<m, n>> \in R)
  BY MinimalExists
<1>2. \A m \in S : n <= m
  <2> TAKE m \in S
  <2>1. m \in Nat /\ n \in Nat
    OBVIOUS
  <2>2. ~(m < n)
    BY <1>1, <2>1
  <2> QED BY <2>1, <2>2
<1> QED BY <1>2

(* So every nonempty set of natural numbers has a least element. *)
LEMMA LeastExists ==
  ASSUME NEW S, S \subseteq Nat, S # {}
  PROVE  \E n \in S : \A m \in S : n <= m
<1>1. \A m, n \in Nat : <<m, n>> \in OpToRel(<, Nat) <=> m < n
  BY DEF OpToRel
<1> QED BY <1>1, NatLessThanWellFounded, LeastByRelation

(* What a loop reaches from a state: the least set closed under its body.  *)
Ahead(S, step, d) ==
  {s \in S : \A T \in SUBSET S :
     (d \in T /\ \A t \in T : step[t] \in T) => s \in T}

LEMMA AheadClosed ==
  ASSUME NEW S, NEW step \in [S -> S], NEW d \in S
  PROVE  /\ d \in Ahead(S, step, d)
         /\ \A s \in Ahead(S, step, d) : step[s] \in Ahead(S, step, d)
BY DEF Ahead

LEMMA AheadLeast ==
  ASSUME NEW S, NEW step \in [S -> S], NEW d \in S, NEW T \in SUBSET S,
         d \in T, \A t \in T : step[t] \in T
  PROVE  Ahead(S, step, d) \subseteq T
BY DEF Ahead

(* A state at which the loop ends is the only one that it reaches.         *)
LEMMA AheadOfAnEnd ==
  ASSUME NEW S, NEW step \in [S -> S], NEW d \in S, step[d] = d
  PROVE  Ahead(S, step, d) = {d}
<1>1. {d} \in SUBSET S /\ \A t \in {d} : step[t] \in {d}
  OBVIOUS
<1>2. Ahead(S, step, d) \subseteq {d}
  BY <1>1, AheadLeast
<1> QED BY <1>2, AheadClosed

LEMMA AheadOfAStep ==
  ASSUME NEW S, NEW step \in [S -> S], NEW d \in S
  PROVE  /\ Ahead(S, step, d) \subseteq {d} \cup Ahead(S, step, step[d])
         /\ Ahead(S, step, step[d]) \subseteq Ahead(S, step, d)
<1>1. step[d] \in S
  OBVIOUS
<1>2. {d} \cup Ahead(S, step, step[d]) \in SUBSET S
  BY <1>1 DEF Ahead
<1>3. \A t \in {d} \cup Ahead(S, step, step[d]) :
        step[t] \in {d} \cup Ahead(S, step, step[d])
  BY <1>1, AheadClosed
<1>4. Ahead(S, step, d) \subseteq {d} \cup Ahead(S, step, step[d])
  <2> DEFINE T == {d} \cup Ahead(S, step, step[d])
  <2>1. d \in T /\ T \in SUBSET S /\ \A t \in T : step[t] \in T
    BY <1>2, <1>3
  <2> HIDE DEF T
  <2>2. Ahead(S, step, d) \subseteq T
    BY <2>1, AheadLeast
  <2> QED BY <2>2 DEF T
<1>5. Ahead(S, step, d) \in SUBSET S
  BY DEF Ahead
<1>6. step[d] \in Ahead(S, step, d)
  BY AheadClosed
<1>7. Ahead(S, step, step[d]) \subseteq Ahead(S, step, d)
  BY <1>1, <1>5, <1>6, AheadLeast, AheadClosed
<1> QED BY <1>4, <1>7

(* No loop ends at two states.                                              *)
LEMMA OneEnd ==
  ASSUME NEW S, NEW step \in [S -> S], NEW d \in S,
         NEW e \in Ahead(S, step, d), step[e] = e,
         NEW f \in Ahead(S, step, d), step[f] = f
  PROVE  e = f
<1> DEFINE T == {x \in S : e \in Ahead(S, step, x)}
<1>1. e \in S /\ f \in S
  BY DEF Ahead
<1>2. \A x \in T : step[x] \in T
  <2> TAKE x \in T
  <2>1. e \in Ahead(S, step, e)
    BY <1>1, AheadClosed
  <2>2. CASE x = e
    BY <2>1, <2>2, <1>1
  <2>3. CASE x # e
    <3>1. e \in Ahead(S, step, step[x])
      BY <2>3, AheadOfAStep
    <3> QED BY <3>1
  <2> QED BY <2>2, <2>3
<1>3. d \in T /\ T \in SUBSET S
  OBVIOUS
<1>4. Ahead(S, step, d) \subseteq T
  <2> HIDE DEF T
  <2> QED BY <1>2, <1>3, AheadLeast
<1>5. e \in Ahead(S, step, f)
  BY <1>4
<1> QED BY <1>1, <1>5, AheadOfAnEnd

Ends(S, step, d) == {e \in Ahead(S, step, d) : step[e] = e}
End(S, step, d) ==
  IF Ends(S, step, d) = {} THEN {} ELSE CHOOSE e \in Ends(S, step, d) : TRUE

LEMMA EndsOfAStep ==
  ASSUME NEW S, NEW step \in [S -> S], NEW d \in S, step[d] # d
  PROVE  Ends(S, step, d) = Ends(S, step, step[d])
BY AheadOfAStep DEF Ends

(* So the function that the loop defines exists, and is the loop's.        *)
LEMMA LoopEquation ==
  ASSUME NEW S, NEW step \in [S -> S]
  PROVE  \A s \in S :
           Loop(step)[s] = IF step[s] = s THEN s ELSE Loop(step)[step[s]]
<1> DEFINE Is(f) == f = [s \in S |-> IF step[s] = s THEN s ELSE f[step[s]]]
           f0 == [s \in S |-> End(S, step, s)]
<1>1. \A s \in S : step[s] = s => f0[s] = s
  <2> TAKE s \in S
  <2> HAVE step[s] = s
  <2>1. Ends(S, step, s) = {s}
    BY AheadOfAnEnd DEF Ends
  <2> QED BY <2>1 DEF End
<1>2. \A s \in S : step[s] # s => f0[s] = f0[step[s]]
  <2> TAKE s \in S
  <2> HAVE step[s] # s
  <2>1. Ends(S, step, s) = Ends(S, step, step[s])
    BY EndsOfAStep
  <2>2. step[s] \in S
    OBVIOUS
  <2> QED BY <2>1, <2>2 DEF End
<1>3. Is(f0)
  <2>1. \A s \in S : f0[s] = IF step[s] = s THEN s ELSE f0[step[s]]
    BY <1>1, <1>2
  <2> HIDE DEF Is
  <2>2. f0 = [s \in S |-> f0[s]]
    OBVIOUS
  <2> HIDE DEF f0
  <2>3. f0 = [s \in S |-> IF step[s] = s THEN s ELSE f0[step[s]]]
    BY <2>1, <2>2
  <2> QED BY <2>3 DEF Is
<1>4. Loop(step) = CHOOSE f : Is(f)
  BY DEF Loop
<1>5. Is(Loop(step))
  <2> HIDE DEF Is, f0
  <2> QED BY <1>3, <1>4
<1> QED BY <1>5

(* Each round that changes something makes one of three counts smaller, and *)
(* none before it larger.                                                   *)
Shrinks(T, step, A, B, C) ==
  /\ \A s \in T : A[s] \in Nat /\ B[s] \in Nat /\ C[s] \in Nat
  /\ \A s \in T : step[s] # s =>
       \/ A[step[s]] < A[s]
       \/ A[step[s]] = A[s] /\ B[step[s]] < B[s]
       \/ A[step[s]] = A[s] /\ B[step[s]] = B[s] /\ C[step[s]] < C[s]

(* Then a set that is closed under the body holds an end.                   *)
LEMMA EndInside ==
  ASSUME NEW T, NEW step, T # {}, \A s \in T : step[s] \in T,
         NEW A, NEW B, NEW C,
         Shrinks(T, step, A, B, C)
  PROVE  \E s \in T : step[s] = s
<1>0. /\ \A s \in T : A[s] \in Nat /\ B[s] \in Nat /\ C[s] \in Nat
      /\ \A s \in T : step[s] # s =>
           \/ A[step[s]] < A[s]
           \/ A[step[s]] = A[s] /\ B[step[s]] < B[s]
           \/ A[step[s]] = A[s] /\ B[step[s]] = B[s] /\ C[step[s]] < C[s]
  BY DEF Shrinks
<1> DEFINE As == {A[s] : s \in T}
<1>1. PICK a \in As : \A m \in As : a <= m
  <2>1. As \subseteq Nat /\ As # {}
    BY <1>0
  <2> HIDE DEF As
  <2> QED BY <2>1, LeastExists
<1> DEFINE Bs == {B[s] : s \in {t \in T : A[t] = a}}
<1>2. PICK b \in Bs : \A m \in Bs : b <= m
  <2>1. Bs \subseteq Nat /\ Bs # {}
    BY <1>0
  <2> HIDE DEF Bs
  <2> QED BY <2>1, LeastExists
<1> DEFINE Cs == {C[s] : s \in {t \in T : A[t] = a /\ B[t] = b}}
<1>3. PICK c \in Cs : \A m \in Cs : c <= m
  <2>1. Cs \subseteq Nat /\ Cs # {}
    BY <1>0
  <2> HIDE DEF Cs
  <2> QED BY <2>1, LeastExists
<1>4. PICK s \in T : A[s] = a /\ B[s] = b /\ C[s] = c
  OBVIOUS
<1> DEFINE n == step[s]
<1>5. n \in T /\ A[n] \in As
  OBVIOUS
<1>6. a \in Nat /\ A[n] \in Nat /\ b \in Nat /\ B[n] \in Nat /\ c \in Nat /\ C[n] \in Nat
  BY <1>0, <1>4, <1>5
<1>7. ~(A[n] < A[s])
  <2>1. a <= A[n]
    BY <1>1, <1>5
  <2> HIDE DEF n
  <2> QED BY <2>1, <1>4, <1>6
<1>8. A[n] = A[s] => ~(B[n] < B[s])
  <2> HAVE A[n] = A[s]
  <2>1. B[n] \in Bs
    BY <1>4, <1>5
  <2>2. b <= B[n]
    BY <1>2, <2>1
  <2> QED BY <2>2, <1>4, <1>6
<1>9. A[n] = A[s] /\ B[n] = B[s] => ~(C[n] < C[s])
  <2> HAVE A[n] = A[s] /\ B[n] = B[s]
  <2>1. C[n] \in Cs
    BY <1>4, <1>5
  <2>2. c <= C[n]
    BY <1>3, <2>1
  <2> QED BY <2>2, <1>4, <1>6
<1> QED BY <1>0, <1>4, <1>7, <1>8, <1>9

(* How a loop is reasoned about: what its body preserves holds at the end, *)
(* which there is, and the body changes nothing there.                     *)
LEMMA LoopRule ==
  ASSUME NEW S, NEW step \in [S -> S], NEW I \in SUBSET S, NEW d \in I,
         \A s \in I : step[s] \in I,
         NEW A, NEW B, NEW C,
         Shrinks(I, step, A, B, C)
  PROVE  Loop(step)[d] \in I /\ step[Loop(step)[d]] = Loop(step)[d]
<1> DEFINE f == Loop(step)
           T == {s \in I : ~(f[s] \in I /\ step[f[s]] = f[s])}
<1>1. \A s \in S : f[s] = IF step[s] = s THEN s ELSE f[step[s]]
  BY LoopEquation
<1> HIDE DEF f
<1>2. \A s \in T : step[s] # s /\ step[s] \in T
  <2> TAKE s \in T
  <2>1. step[s] # s
    BY <1>1
  <2>2. f[s] = f[step[s]]
    BY <1>1, <2>1
  <2> QED BY <2>1, <2>2
<1>3. ASSUME T # {} PROVE FALSE
  <2>1. \E s \in T : step[s] = s
    <3>1. \A s \in T : s \in I
      OBVIOUS
    <3>2. \A s \in T : step[s] \in T
      BY <1>2
    <3> HIDE DEF T
    <3>3. Shrinks(T, step, A, B, C)
      BY <3>1 DEF Shrinks
    <3> QED BY <1>3, <3>2, <3>3, EndInside
  <2> QED BY <1>2, <2>1
<1>4. d \notin T
  BY <1>3
<1> QED BY <1>4 DEF f

-----------------------------------------------------------------------------
(* Counting *)

LEMMA IdsFinite == IsFiniteSet(Ids) /\ Ids \subseteq Nat /\ None \notin Ids /\ None \in Nat
BY GraphAssumption DEF None

(* What is left of the identifiers, counted.                                *)
LEMMA CountTyped ==
  ASSUME NEW T \in SUBSET Ids
  PROVE  IsFiniteSet(T) /\ Cardinality(T) \in Nat
BY IdsFinite, FS_Subset, FS_CardinalityType

LEMMA FewerCounted ==
  ASSUME NEW T \in SUBSET Ids, NEW U \in SUBSET T, U # T
  PROVE  Cardinality(U) < Cardinality(T)
<1>1. IsFiniteSet(T) /\ Cardinality(T) \in Nat
  BY CountTyped
<1>2. U \in SUBSET Ids
  OBVIOUS
<1>3. Cardinality(U) \in Nat
  BY <1>2, CountTyped
<1>4. Cardinality(U) <= Cardinality(T) /\ (Cardinality(T) = Cardinality(U) => T = U)
  BY <1>1, FS_Subset
<1> QED BY <1>1, <1>3, <1>4

LEMMA LeastIn ==
  ASSUME NEW T \in SUBSET Ids, T # {}
  PROVE  Least(T) \in T /\ \A m \in T : Least(T) <= m
BY IdsFinite, LeastExists DEF Least

-----------------------------------------------------------------------------
(* Gather *)

(* A step of the walk: what it visits is new and no longer queued.         *)
Sweep(next) == [w \in Walks |-> IF w.queue = {} THEN w ELSE Visit(next, w)]

LEMMA Visits ==
  ASSUME NEW next \in [Ids -> SUBSET Ids], NEW w \in Walks, w.queue # {}
  PROVE  \E at \in w.queue :
           /\ Sweep(next)[w].queue = (w.queue \ {at}) \cup (next[at] \ w.seen)
           /\ Sweep(next)[w].seen = w.seen \cup (next[at] \ w.seen)
           /\ Sweep(next)[w] \in Walks
<1> DEFINE at == CHOOSE n \in w.queue : TRUE
<1>1. at \in w.queue
  OBVIOUS
<1>2. Sweep(next)[w] = [queue |-> (w.queue \ {at}) \cup (next[at] \ w.seen),
                        seen |-> w.seen \cup (next[at] \ w.seen)]
  BY DEF Sweep, Visit
<1> HIDE DEF at
<1>3. w.queue \in SUBSET Ids /\ w.seen \in SUBSET Ids
  BY DEF Walks
<1>4. next[at] \in SUBSET Ids
  BY <1>1, <1>3
<1>5. Sweep(next)[w] \in Walks
  BY <1>2, <1>3, <1>4 DEF Walks
<1> QED BY <1>1, <1>2, <1>5

LEMMA StepsTyped ==
  ASSUME NEW next \in [Ids -> SUBSET Ids]
  PROVE  Sweep(next) \in [Walks -> Walks]
<1>1. \A w \in Walks : Sweep(next)[w] \in Walks
  <2> TAKE w \in Walks
  <2>1. CASE w.queue = {}
    BY <2>1 DEF Sweep
  <2>2. CASE w.queue # {}
    BY <2>2, Visits
  <2> QED BY <2>1, <2>2
<1>2. Sweep(next) = [w \in Walks |-> Sweep(next)[w]]
  BY DEF Sweep
<1> QED BY <1>1, <1>2

(* What holds on the way: `seen` holds what the walk began with and what   *)
(* the nodes it has left lead to, and only what it must.                   *)
Grows(next, queue, seen, T) ==
  seen \subseteq T /\ \A m \in queue \cup (T \ seen) : next[m] \subseteq T
OnTheWay(next, queue, seen, w) ==
  /\ w.queue \subseteq queue \cup (w.seen \ seen)
  /\ seen \subseteq w.seen
  /\ \A m \in (queue \cup (w.seen \ seen)) \ w.queue : next[m] \subseteq w.seen
  /\ \A T \in SUBSET Ids : Grows(next, queue, seen, T) => w.seen \subseteq T

LEMMA StaysOnTheWay ==
  ASSUME NEW next \in [Ids -> SUBSET Ids], NEW queue \in SUBSET Ids,
         NEW seen \in SUBSET Ids, NEW w \in Walks, OnTheWay(next, queue, seen, w),
         queue \subseteq seen
  PROVE  OnTheWay(next, queue, seen, Sweep(next)[w])
<1>1. CASE w.queue = {}
  BY <1>1 DEF Sweep
<1>2. CASE w.queue # {}
  <2> DEFINE v == Sweep(next)[w]
  <2>1. PICK at \in w.queue : /\ v.queue = (w.queue \ {at}) \cup (next[at] \ w.seen)
                              /\ v.seen = w.seen \cup (next[at] \ w.seen)
    BY <1>2, Visits
  <2> HIDE DEF v
  <2>2. v.seen = w.seen \cup next[at]
    BY <2>1
  <2>3. v.queue \subseteq queue \cup (v.seen \ seen)
    BY <2>1, <2>2 DEF OnTheWay
  <2>4. \A m \in (queue \cup (v.seen \ seen)) \ v.queue : next[m] \subseteq v.seen
    BY <2>1, <2>2 DEF OnTheWay
  <2>5. ASSUME NEW T \in SUBSET Ids, Grows(next, queue, seen, T)
        PROVE  v.seen \subseteq T
    <3>1. w.seen \subseteq T
      BY <2>5 DEF OnTheWay
    <3>2. at \in queue \cup (T \ seen)
      BY <3>1 DEF OnTheWay
    <3> QED BY <3>1, <3>2, <2>2, <2>5 DEF Grows
  <2>6. seen \subseteq v.seen
    BY <2>2 DEF OnTheWay
  <2>7. OnTheWay(next, queue, seen, v)
    BY <2>3, <2>4, <2>5, <2>6 DEF OnTheWay
  <2> QED BY <2>7 DEF v
<1> QED BY <1>1, <1>2

(* `Gather` returns the least set that holds what it began with and that   *)
(* nothing it enters leads out of.                                         *)
LEMMA Gathered ==
  ASSUME NEW next \in [Ids -> SUBSET Ids], NEW queue \in SUBSET Ids,
         NEW seen \in SUBSET Ids, queue \subseteq seen
  PROVE  /\ Gather(next, queue, seen) \in SUBSET Ids
         /\ Grows(next, queue, seen, Gather(next, queue, seen))
         /\ \A T \in SUBSET Ids :
              Grows(next, queue, seen, T) => Gather(next, queue, seen) \subseteq T
<1> DEFINE I == {w \in Walks : OnTheWay(next, queue, seen, w)}
           d == [queue |-> queue, seen |-> seen]
           A == [w \in Walks |-> Cardinality(Ids \ w.seen)]
           B == [w \in Walks |-> Cardinality(w.queue)]
           C == [w \in Walks |-> 0]
<1>1. Sweep(next) \in [Walks -> Walks]
  BY StepsTyped
<1>2. d \in I
  BY DEF Walks, OnTheWay, Grows
<1>3. \A w \in I : Sweep(next)[w] \in I
  BY <1>1, StaysOnTheWay
<1>4. \A w \in I : A[w] \in Nat /\ B[w] \in Nat /\ C[w] \in Nat
  <2> TAKE w \in I
  <2>1. w.queue \in SUBSET Ids /\ Ids \ w.seen \in SUBSET Ids
    BY DEF Walks
  <2> QED BY <2>1, CountTyped
<1>5. ASSUME NEW w \in I, Sweep(next)[w] # w
      PROVE  \/ A[Sweep(next)[w]] < A[w]
             \/ A[Sweep(next)[w]] = A[w] /\ B[Sweep(next)[w]] < B[w]
  <2> DEFINE v == Sweep(next)[w]
  <2>1. w.queue # {}
    BY <1>5 DEF Sweep
  <2>2. PICK at \in w.queue : /\ v.queue = (w.queue \ {at}) \cup (next[at] \ w.seen)
                              /\ v.seen = w.seen \cup (next[at] \ w.seen)
                              /\ v \in Walks
    BY <2>1, Visits
  <2> HIDE DEF v
  <2>3. w.seen \in SUBSET Ids /\ w.queue \in SUBSET Ids /\ next[at] \in SUBSET Ids
    BY DEF Walks
  <2>4. CASE next[at] \subseteq w.seen
    <3>1. v.seen = w.seen /\ v.queue = w.queue \ {at}
      BY <2>2, <2>4
    <3>2. Cardinality(v.queue) < Cardinality(w.queue)
      BY <3>1, <2>3, FewerCounted
    <3> QED BY <3>1, <3>2, <2>2 DEF v
  <2>5. CASE ~(next[at] \subseteq w.seen)
    <3>1. Ids \ v.seen \in SUBSET (Ids \ w.seen) /\ Ids \ v.seen # Ids \ w.seen
      BY <2>2, <2>3, <2>5
    <3>2. Cardinality(Ids \ v.seen) < Cardinality(Ids \ w.seen)
      BY <3>1, FewerCounted
    <3> QED BY <3>2, <2>2 DEF v
  <2> QED BY <2>4, <2>5
<1>6. Shrinks(I, Sweep(next), A, B, C)
  BY <1>4, <1>5 DEF Shrinks
<1> DEFINE e == Loop(Sweep(next))[d]
<1>7. e \in I /\ Sweep(next)[e] = e
  <2> HIDE DEF I, A, B, C, d
  <2>1. I \in SUBSET Walks
    BY DEF I
  <2> QED BY <1>1, <1>2, <1>3, <1>6, <2>1, LoopRule
<1>8. Gather(next, queue, seen) = e.seen
  BY DEF Gather, Sweep
<1> HIDE DEF d, e
<1>9. e.queue = {}
  <2> SUFFICES ASSUME e.queue # {} PROVE FALSE
    OBVIOUS
  <2>1. PICK at \in e.queue : /\ e.queue = (e.queue \ {at}) \cup (next[at] \ e.seen)
                              /\ e.seen = e.seen \cup (next[at] \ e.seen)
    BY <1>7, Visits
  <2> QED BY <2>1
<1>10. e.seen \in SUBSET Ids
  BY <1>7 DEF Walks
<1> QED BY <1>7, <1>8, <1>9, <1>10 DEF OnTheWay, Grows

-----------------------------------------------------------------------------
(* Climb *)

LEMMA Appended ==
  ASSUME NEW s \in Seq(Ids), NEW x \in Ids
  PROVE  /\ Append(s, x) \in Seq(Ids) /\ Append(s, x) # <<>>
         /\ Len(Append(s, x)) = Len(s) + 1
         /\ Append(s, x)[Len(s) + 1] = x
         /\ \A i \in DOMAIN s : Append(s, x)[i] = s[i]
         /\ DOMAIN s = 1..Len(s) /\ Len(s) \in Nat
         /\ DOMAIN Append(s, x) = 1..(Len(s) + 1)
         /\ ToSet(Append(s, x)) = ToSet(s) \cup {x}
<1>1. /\ Append(s, x) \in Seq(Ids) /\ Append(s, x) # <<>>
      /\ Len(Append(s, x)) = Len(s) + 1
      /\ Append(s, x)[Len(s) + 1] = x
      /\ DOMAIN s = 1..Len(s) /\ Len(s) \in Nat
      /\ DOMAIN Append(s, x) = 1..(Len(s) + 1)
      /\ \A i \in 1..Len(s) : Append(s, x)[i] = s[i]
  OBVIOUS
<1>2. DOMAIN Append(s, x) = DOMAIN s \cup {Len(s) + 1}
  BY <1>1
<1>3. ToSet(Append(s, x)) = ToSet(s) \cup {x}
  <2>1. ASSUME NEW y \in ToSet(Append(s, x)) PROVE y \in ToSet(s) \cup {x}
    <3>1. PICK i \in DOMAIN Append(s, x) : y = Append(s, x)[i]
      BY DEF ToSet
    <3>2. CASE i \in DOMAIN s
      BY <1>1, <3>1, <3>2 DEF ToSet
    <3>3. CASE i = Len(s) + 1
      BY <1>1, <3>1, <3>3
    <3> QED BY <1>2, <3>1, <3>2, <3>3
  <2>2. ASSUME NEW y \in ToSet(s) PROVE y \in ToSet(Append(s, x))
    <3>1. PICK i \in DOMAIN s : y = s[i]
      BY DEF ToSet
    <3>2. i \in DOMAIN Append(s, x) /\ Append(s, x)[i] = y
      BY <1>1, <1>2, <3>1
    <3> QED BY <3>2 DEF ToSet
  <2>3. x \in ToSet(Append(s, x))
    BY <1>1, <1>2 DEF ToSet
  <2> QED BY <2>1, <2>2, <2>3
<1> QED BY <1>1, <1>3

LEMMA ToSetTyped ==
  ASSUME NEW s \in Seq(Ids)
  PROVE  ToSet(s) \in SUBSET Ids /\ DOMAIN s = 1..Len(s) /\ Len(s) \in Nat
BY DEF ToSet

LEMMA InjectiveAppend ==
  ASSUME NEW s \in Seq(Ids), IsInjective(s), NEW x \in Ids, x \notin ToSet(s)
  PROVE  IsInjective(Append(s, x))
<1> DEFINE t == Append(s, x)
<1>1. /\ t[Len(s) + 1] = x /\ \A i \in DOMAIN s : t[i] = s[i]
      /\ DOMAIN s = 1..Len(s) /\ Len(s) \in Nat
      /\ DOMAIN t = 1..(Len(s) + 1)
  BY Appended
<1>2. \A i \in DOMAIN s : s[i] # x
  BY DEF ToSet
<1>3. \A i, j \in DOMAIN s : s[i] = s[j] => i = j
  BY DEF IsInjective
<1> HIDE DEF t
<1>4. \A i, j \in DOMAIN t : t[i] = t[j] => i = j
  BY <1>1, <1>2, <1>3
<1> QED BY <1>4 DEF IsInjective, t

Ways == [Ids -> Ids \cup {None}]
ClimbStep(up, settled) ==
  [c \in Climbs |->
     IF Halts(settled, c) THEN c
     ELSE [at |-> up[c.at], chain |-> Append(c.chain, c.at)]]

(* The chain goes from where it began, each node leading to the next and   *)
(* the last to where the climb is; it keeps off the settled nodes and out  *)
(* of what it does not lead into.                                           *)
Linked(up, from, c) ==
  /\ from = IF c.chain = <<>> THEN c.at ELSE c.chain[1]
  /\ \A i \in DOMAIN c.chain :
       up[c.chain[i]] = IF i = Len(c.chain) THEN c.at ELSE c.chain[i + 1]
UpClosed(up, from, T) ==
  from \in T \cup {None} /\ \A m \in T : up[m] \in T \cup {None}
Climbing(up, from, settled, c) ==
  /\ c \in Climbs
  /\ IsInjective(c.chain)
  /\ ToSet(c.chain) \cap settled = {}
  /\ Linked(up, from, c)
  /\ \A T \in SUBSET Ids :
       UpClosed(up, from, T) => ToSet(c.chain) \subseteq T /\ c.at \in T \cup {None}

LEMMA Climbs1 ==
  ASSUME NEW up \in Ways, NEW settled \in SUBSET Ids, NEW c \in Climbs,
         ~Halts(settled, c)
  PROVE  /\ ClimbStep(up, settled)[c].at = up[c.at]
         /\ ClimbStep(up, settled)[c].chain = Append(c.chain, c.at)
         /\ ClimbStep(up, settled)[c] \in Climbs
         /\ c.chain \in Seq(Ids) /\ c.at \in Ids
         /\ c.at \notin settled \cup ToSet(c.chain)
<1>1. ClimbStep(up, settled)[c] = [at |-> up[c.at], chain |-> Append(c.chain, c.at)]
  BY DEF ClimbStep
<1>2. c.chain \in Seq(Ids) /\ c.at \in Ids
  BY DEF Climbs, Halts
<1>3. c.at \notin settled \cup ToSet(c.chain)
  BY DEF Halts
<1>4. up[c.at] \in Ids \cup {None}
  BY <1>2 DEF Ways
<1>5. Append(c.chain, c.at) \in Seq(Ids)
  BY <1>2, Appended
<1>6. [at |-> up[c.at], chain |-> Append(c.chain, c.at)] \in Climbs
  BY <1>4, <1>5 DEF Climbs
<1> QED BY <1>1, <1>2, <1>3, <1>6

LEMMA ClimbStepTyped ==
  ASSUME NEW up \in Ways, NEW settled \in SUBSET Ids
  PROVE  ClimbStep(up, settled) \in [Climbs -> Climbs]
<1>1. \A c \in Climbs : ClimbStep(up, settled)[c] \in Climbs
  <2> TAKE c \in Climbs
  <2>1. CASE Halts(settled, c)
    BY <2>1 DEF ClimbStep
  <2>2. CASE ~Halts(settled, c)
    BY <2>2, Climbs1
  <2> QED BY <2>1, <2>2
<1>2. ClimbStep(up, settled) = [c \in Climbs |-> ClimbStep(up, settled)[c]]
  BY DEF ClimbStep
<1> QED BY <1>1, <1>2

LEMMA ClimbsOn ==
  ASSUME NEW up \in Ways, NEW from \in Ids \cup {None}, NEW settled \in SUBSET Ids,
         NEW c, Climbing(up, from, settled, c), ~Halts(settled, c)
  PROVE  Climbing(up, from, settled, ClimbStep(up, settled)[c])
<1> DEFINE d == ClimbStep(up, settled)[c]
<1>0. c \in Climbs
  BY DEF Climbing
<1>1. /\ d.at = up[c.at] /\ d.chain = Append(c.chain, c.at) /\ d \in Climbs
      /\ c.chain \in Seq(Ids) /\ c.at \in Ids
      /\ c.at \notin settled \cup ToSet(c.chain)
  BY <1>0, Climbs1
<1> HIDE DEF d
<1>2. /\ Append(c.chain, c.at) # <<>>
      /\ Append(c.chain, c.at)[Len(c.chain) + 1] = c.at
      /\ \A i \in DOMAIN c.chain : Append(c.chain, c.at)[i] = c.chain[i]
      /\ DOMAIN c.chain = 1..Len(c.chain) /\ Len(c.chain) \in Nat
      /\ DOMAIN Append(c.chain, c.at) = 1..(Len(c.chain) + 1)
      /\ Len(Append(c.chain, c.at)) = Len(c.chain) + 1
      /\ ToSet(Append(c.chain, c.at)) = ToSet(c.chain) \cup {c.at}
  BY <1>1, Appended
<1>3. IsInjective(d.chain)
  BY <1>1, InjectiveAppend DEF Climbing
<1>4. ToSet(d.chain) \cap settled = {}
  BY <1>1, <1>2 DEF Climbing
<1>5. Linked(up, from, d)
  <2>1. from = IF c.chain = <<>> THEN c.at ELSE c.chain[1]
    BY DEF Climbing, Linked
  <2>2. from = d.chain[1] /\ d.chain # <<>>
    <3>1. CASE c.chain = <<>>
      BY <3>1, <2>1, <1>1, <1>2
    <3>2. CASE c.chain # <<>>
      <4>1. 1 \in DOMAIN c.chain
        BY <1>1, <3>2
      <4> QED BY <4>1, <3>2, <2>1, <1>1, <1>2
    <3> QED BY <3>1, <3>2
  <2>3. ASSUME NEW i \in DOMAIN d.chain
        PROVE  up[d.chain[i]] = IF i = Len(d.chain) THEN d.at ELSE d.chain[i + 1]
    <3>1. CASE i = Len(c.chain) + 1
      BY <3>1, <1>1, <1>2
    <3>2. CASE i \in DOMAIN c.chain
      <4>1. up[c.chain[i]] = IF i = Len(c.chain) THEN c.at ELSE c.chain[i + 1]
        BY <3>2 DEF Climbing, Linked
      <4>2. i # Len(d.chain) /\ d.chain[i] = c.chain[i]
        BY <3>2, <1>1, <1>2
      <4>3. d.chain[i + 1] = IF i = Len(c.chain) THEN c.at ELSE c.chain[i + 1]
        BY <3>2, <1>1, <1>2
      <4> QED BY <4>1, <4>2, <4>3
    <3> QED BY <3>1, <3>2, <1>1, <1>2, <2>3
  <2> QED BY <2>2, <2>3 DEF Linked
<1>6. ASSUME NEW T \in SUBSET Ids, UpClosed(up, from, T)
      PROVE  ToSet(d.chain) \subseteq T /\ d.at \in T \cup {None}
  <2>1. ToSet(c.chain) \subseteq T /\ c.at \in T
    BY <1>6, <1>1, IdsFinite DEF Climbing
  <2> QED BY <2>1, <1>1, <1>2, <1>6 DEF UpClosed
<1> QED BY <1>1, <1>3, <1>4, <1>5, <1>6 DEF Climbing, d

(* The climb ends.                                                          *)
LEMMA Climbed ==
  ASSUME NEW up \in Ways, NEW from \in Ids \cup {None}, NEW settled \in SUBSET Ids
  PROVE  /\ Climbing(up, from, settled, Climb(up, from, settled))
         /\ Halts(settled, Climb(up, from, settled))
<1> DEFINE I == {c \in Climbs : Climbing(up, from, settled, c)}
           d == [at |-> from, chain |-> <<>>]
           step == ClimbStep(up, settled)
           A == [c \in Climbs |-> Cardinality(Ids \ ToSet(c.chain))]
           B == [c \in Climbs |-> 0]
<1>1. step \in [Climbs -> Climbs]
  BY ClimbStepTyped
<1>2. d \in I
  <2>1. d \in Climbs /\ IsInjective(d.chain) /\ ToSet(d.chain) = {}
    BY DEF Climbs, IsInjective, ToSet
  <2>2. Linked(up, from, d)
    BY DEF Linked
  <2> QED BY <2>1, <2>2 DEF Climbing, UpClosed
<1>3. \A c \in I : step[c] \in I
  <2> TAKE c \in I
  <2>1. CASE Halts(settled, c)
    BY <2>1 DEF ClimbStep
  <2>2. CASE ~Halts(settled, c)
    BY <2>2, <1>1, ClimbsOn
  <2> QED BY <2>1, <2>2
<1>4. \A c \in I : A[c] \in Nat /\ B[c] \in Nat
  <2> TAKE c \in I
  <2>1. Ids \ ToSet(c.chain) \in SUBSET Ids
    OBVIOUS
  <2> QED BY <2>1, CountTyped
<1>5. ASSUME NEW c \in I, step[c] # c
      PROVE  A[step[c]] < A[c]
  <2>1. ~Halts(settled, c)
    BY <1>5 DEF ClimbStep
  <2>2. /\ step[c].chain = Append(c.chain, c.at) /\ c.chain \in Seq(Ids) /\ c.at \in Ids
        /\ step[c] \in Climbs /\ c.at \notin ToSet(c.chain)
    BY <2>1, Climbs1
  <2>3. ToSet(step[c].chain) = ToSet(c.chain) \cup {c.at}
    BY <2>2, Appended
  <2>4. Ids \ ToSet(step[c].chain) \in SUBSET (Ids \ ToSet(c.chain))
    BY <2>3
  <2>5. Ids \ ToSet(step[c].chain) # Ids \ ToSet(c.chain)
    BY <2>2, <2>3
  <2>6. Cardinality(Ids \ ToSet(step[c].chain)) < Cardinality(Ids \ ToSet(c.chain))
    BY <2>4, <2>5, FewerCounted
  <2> QED BY <2>2, <2>6
<1>6. Shrinks(I, step, A, B, B)
  BY <1>4, <1>5 DEF Shrinks
<1> DEFINE e == Loop(step)[d]
<1>7. e \in I /\ step[e] = e
  <2> HIDE DEF I, A, B, d, step
  <2>1. I \in SUBSET Climbs
    BY DEF I
  <2> QED BY <1>1, <1>2, <1>3, <1>6, <2>1, LoopRule
<1>8. Climb(up, from, settled) = e
  BY DEF Climb, ClimbStep
<1>9. Halts(settled, e)
  <2> SUFFICES ASSUME ~Halts(settled, e) PROVE FALSE
    OBVIOUS
  <2> HIDE DEF e, d
  <2>1. e.chain = Append(e.chain, e.at) /\ e.chain \in Seq(Ids) /\ e.at \in Ids
    BY <1>7, Climbs1
  <2>2. Len(e.chain) = Len(e.chain) + 1 /\ Len(e.chain) \in Nat
    BY <2>1, Appended
  <2> QED BY <2>2
<1> QED BY <1>7, <1>8, <1>9

(* With nothing settled, its chain is the least set that holds where it    *)
(* began and that the way does not lead out of.                            *)
LEMMA ChainIsLeast ==
  ASSUME NEW up \in Ways, NEW from \in Ids \cup {None}
  PROVE  /\ Climb(up, from, {}).chain \in Seq(Ids)
         /\ ToSet(Climb(up, from, {}).chain) \in SUBSET Ids
         /\ UpClosed(up, from, ToSet(Climb(up, from, {}).chain))
         /\ \A T \in SUBSET Ids :
              UpClosed(up, from, T) => ToSet(Climb(up, from, {}).chain) \subseteq T
<1> DEFINE c == Climb(up, from, {})
<1>1. Climbing(up, from, {}, c) /\ Halts({}, c)
  BY Climbed
<1> HIDE DEF c
<1>2. c.chain \in Seq(Ids) /\ c.at \in ToSet(c.chain) \cup {None}
  BY <1>1 DEF Climbing, Climbs, Halts
<1>3. ToSet(c.chain) \in SUBSET Ids /\ DOMAIN c.chain = 1..Len(c.chain) /\ Len(c.chain) \in Nat
  BY <1>2, ToSetTyped
<1>4. from \in ToSet(c.chain) \cup {None}
  <2>1. from = IF c.chain = <<>> THEN c.at ELSE c.chain[1]
    BY <1>1 DEF Climbing, Linked
  <2>2. c.chain # <<>> => 1 \in DOMAIN c.chain
    BY <1>2
  <2> QED BY <1>2, <2>1, <2>2 DEF ToSet
<1>5. ASSUME NEW m \in ToSet(c.chain)
      PROVE  up[m] \in ToSet(c.chain) \cup {None}
  <2>1. PICK i \in DOMAIN c.chain : m = c.chain[i]
    BY DEF ToSet
  <2>2. up[m] = IF i = Len(c.chain) THEN c.at ELSE c.chain[i + 1]
    BY <1>1, <2>1 DEF Climbing, Linked
  <2>3. i # Len(c.chain) => i + 1 \in DOMAIN c.chain
    BY <1>3
  <2> QED BY <1>2, <2>2, <2>3 DEF ToSet
<1>6. UpClosed(up, from, ToSet(c.chain))
  BY <1>4, <1>5 DEF UpClosed
<1> QED BY <1>1, <1>2, <1>3, <1>6 DEF Climbing, c

-----------------------------------------------------------------------------
(* The tree *)

LEMMA TreeFields ==
  ASSUME NEW x \in Trees
  PROVE  /\ x.nodes \in SUBSET Ids /\ x.parent \in [Ids -> Ids \cup {None}]
         /\ x.edges \in SUBSET EdgeType /\ \A e \in x.edges : Fits(e)
         /\ x.refs \in [Ids -> SUBSET Screens] /\ x.screens \in SUBSET Screens
         /\ x.libraries \in SUBSET Libraries /\ x.decisions \in SUBSET Decisions
         /\ x.stale \in [Ids -> Ids \cup {None}]
BY DEF Trees

LEMMA EdgeFields ==
  ASSUME NEW e \in EdgeType
  PROVE  /\ e.kind \in EdgeKinds /\ e.from \in Ids /\ e.to \in Ids \cup Screens
         /\ e.live \in BOOLEAN
         /\ e = [kind |-> e.kind, from |-> e.from, to |-> e.to, live |-> e.live]
BY DEF EdgeType

LEMMA InterfacesAreScreens ==
  ASSUME NEW x \in Trees, NEW n
  PROVE  InterfaceEdges(x, n) \in SUBSET Screens
BY TreeFields DEF InterfaceEdges, Live, Fits

LEMMA FilesFit ==
  ASSUME NEW e, Fits(e), NEW live \in BOOLEAN
  PROVE  EdgeFile(e, live) \in EdgeType /\ Fits(EdgeFile(e, live))
<1>1. e.to \in Ids \cup Screens
  BY DEF Fits
<1>2. EdgeFile(e, live) \in EdgeType
  BY <1>1 DEF EdgeFile, EdgeType, Fits
<1>3. Fits(EdgeFile(e, live))
  BY DEF EdgeFile, Fits
<1> QED BY <1>2, <1>3

LEMMA WithEdges ==
  ASSUME NEW x \in Trees, NEW E \in SUBSET {e \in EdgeType : Fits(e)},
         NEW t, t = [x EXCEPT !.edges = E]
  PROVE  t \in Trees
BY DEF Trees

LEMMA SyncedTyped ==
  ASSUME NEW x \in Trees, NEW e
  PROVE  Synced(x, e) \in Trees
<1> DEFINE R == InterfaceEdges(x, e.from)
           t == [x EXCEPT !.refs[e.from] = R]
<1>1. R \in SUBSET Screens
  BY InterfacesAreScreens
<1> HIDE DEF R
<1>2. t \in Trees
  BY <1>1 DEF Trees
<1> QED BY <1>2 DEF Synced, t, R

LEMMA InitTyped == Init => TypeOK
BY LintAssumption DEF Init, TypeOK, Trees

LEMMA NextTyped == TypeOK /\ [Next]_g => TypeOK'
<1> SUFFICES ASSUME TypeOK, [Next]_g PROVE TypeOK'
  OBVIOUS
<1>0. g \in Trees
  BY DEF TypeOK
<1> DEFINE Files == {e \in EdgeType : Fits(e)}
<1>1. g.edges \in SUBSET Files
  BY <1>0, TreeFields
<1>2. ASSUME NEW n \in Ids, NEW p \in Ids \cup {None}, WriteNode(n, p)
      PROVE  g' \in Trees
  BY <1>0, <1>2 DEF WriteNode, Trees
<1>3. ASSUME NEW e, Fits(e), WriteEdge(e)
      PROVE  g' \in Trees
  <2> DEFINE E == g.edges \cup {EdgeFile(e, TRUE)}
             t == [g EXCEPT !.edges = E]
  <2>1. E \in SUBSET Files
    BY <1>1, <1>3, FilesFit
  <2>2. t \in Trees
    <3> HIDE DEF E
    <3> QED BY <1>0, <2>1, WithEdges
  <2>3. g' = Synced(t, e)
    BY <1>3 DEF WriteEdge
  <2> HIDE DEF t
  <2> QED BY <2>2, <2>3, SyncedTyped
<1>4. ASSUME NEW e, Fits(e), SupersedeEdge(e)
      PROVE  g' \in Trees
  <2> DEFINE E == (g.edges \ {EdgeFile(e, TRUE)}) \cup {EdgeFile(e, FALSE)}
             t == [g EXCEPT !.edges = E]
  <2>1. E \in SUBSET Files
    BY <1>1, <1>4, FilesFit
  <2>2. t \in Trees
    <3> HIDE DEF E
    <3> QED BY <1>0, <2>1, WithEdges
  <2>3. g' = Synced(t, e)
    BY <1>4 DEF SupersedeEdge
  <2> HIDE DEF t
  <2> QED BY <2>2, <2>3, SyncedTyped
<1>5. ASSUME NEW e, Fits(e), MergeEdge(e)
      PROVE  g' \in Trees
  <2> DEFINE E == g.edges \cup {EdgeFile(e, TRUE)}
             t == [g EXCEPT !.edges = E]
  <2>1. E \in SUBSET Files
    BY <1>1, <1>5, FilesFit
  <2>2. t \in Trees
    <3> HIDE DEF E
    <3> QED BY <1>0, <2>1, WithEdges
  <2>3. g' = t
    BY <1>5 DEF MergeEdge
  <2> QED BY <2>2, <2>3
<1>6. ASSUME NEW n \in Ids, LoseNode(n)
      PROVE  g' \in Trees
  BY <1>0, <1>6 DEF LoseNode, Trees
<1>7. ASSUME NEW s, LoseScreen(s)
      PROVE  g' \in Trees
  BY <1>0, <1>7 DEF LoseScreen, Trees
<1>8. ASSUME NEW l, LoseLibrary(l)
      PROVE  g' \in Trees
  BY <1>0, <1>8 DEF LoseLibrary, Trees
<1>11. ASSUME NEW d, LoseDecision(d)
       PROVE  g' \in Trees
  BY <1>0, <1>11 DEF LoseDecision, Trees
<1>12. ASSUME NEW n \in Ids, ChangeContract(n)
       PROVE  g' \in Trees
  <2>1. OwnerOf(n) \in Ids
    BY <1>0, TreeFields DEF OwnerOf
  <2> DEFINE marks == [m \in Ids |-> IF m \in Dropped(n) THEN OwnerOf(n) ELSE g.stale[m]]
  <2>2. marks \in [Ids -> Ids \cup {None}]
    <3>1. \A m \in Ids : g.stale[m] \in Ids \cup {None}
      BY <1>0, TreeFields
    <3> QED BY <2>1, <3>1
  <2>3. g' = [g EXCEPT !.stale = marks]
    BY <1>12 DEF ChangeContract
  <2> HIDE DEF marks
  <2> QED BY <1>0, <2>2, <2>3 DEF Trees
<1>13. ASSUME NEW n \in Ids, Review(n)
       PROVE  g' \in Trees
  BY <1>0, <1>13 DEF Review, Trees
<1>9. CASE UNCHANGED g
  BY <1>0, <1>9 DEF TypeOK
<1>10. CASE Next
  <2>1. \A e \in EdgeFiles \cup HandWritten : Fits(e)
    BY LintAssumption
  <2>2. Change
    BY <1>10 DEF Next
  <2>3. g' \in Trees
    BY <2>1, <2>2, <1>2, <1>3, <1>4, <1>5, <1>6, <1>7, <1>8, <1>11, <1>12, <1>13 DEF Change
  <2> QED BY <2>3 DEF TypeOK
<1> QED BY <1>9, <1>10

(* The tree keeps its shape: whatever the app writes and a hand edit or a  *)
(* merge does, a parent, a source and a screen are where the walks and the *)
(* rules look for them.                                                     *)
THEOREM Typed == Spec => []TypeOK
BY InitTyped, NextTyped, PTL DEF Spec

-----------------------------------------------------------------------------
(* The walks down and up agree *)

(* What is above a node. *)
Over(up, n) == ToSet(Climb(up, up[n], {}).chain)

LEMMA OverIsLeast ==
  ASSUME NEW up \in Ways, NEW n \in Ids
  PROVE  /\ Over(up, n) \in SUBSET Ids
         /\ up[n] \in Over(up, n) \cup {None}
         /\ \A m \in Over(up, n) : up[m] \in Over(up, n) \cup {None}
         /\ \A T \in SUBSET Ids :
              /\ up[n] \in T \cup {None}
              /\ \A m \in T : up[m] \in T \cup {None}
              => Over(up, n) \subseteq T
<1>1. up[n] \in Ids \cup {None}
  BY DEF Ways
<1> DEFINE from == up[n]
<1> HIDE DEF from
<1>2. /\ ToSet(Climb(up, from, {}).chain) \in SUBSET Ids
      /\ UpClosed(up, from, ToSet(Climb(up, from, {}).chain))
      /\ \A T \in SUBSET Ids :
           UpClosed(up, from, T) => ToSet(Climb(up, from, {}).chain) \subseteq T
  BY <1>1, ChainIsLeast DEF from
<1> QED BY <1>2 DEF Over, UpClosed, from

LEMMA UpTyped ==
  ASSUME NEW x \in Trees
  PROVE  /\ Up(x) \in Ways
         /\ \A n \in Ids : /\ Up(x)[n] = ParentOf(x, n)
                           /\ ToSet(Ancestors(x, n)) = Over(Up(x), n)
<1>1. \A n \in Ids : ParentOf(x, n) \in Ids \cup {None}
  BY TreeFields DEF ParentOf
<1> QED BY <1>1 DEF Up, Ways, Ancestors, Over

LEMMA OverWithin ==
  ASSUME NEW up \in Ways, NEW n \in Ids, NEW T \in SUBSET Ids,
         up[n] \in T \cup {None}, \A m \in T : up[m] \in T \cup {None}
  PROVE  Over(up, n) \subseteq T
BY OverIsLeast

(* What is above its parent is above a node. *)
LEMMA OverParent ==
  ASSUME NEW up \in Ways, NEW n \in Ids, NEW m \in Over(up, n) \cup {up[n]}, m # None
  PROVE  m \in Over(up, n) /\ Over(up, m) \subseteq Over(up, n)
<1>1. m \in Over(up, n) /\ m \in Ids
  BY OverIsLeast
<1> QED BY <1>1, OverIsLeast

LEMMA ChildrenTyped ==
  ASSUME NEW x \in Trees
  PROVE  /\ [m \in Ids |-> Children(x, m)] \in [Ids -> SUBSET Ids]
         /\ \A s : [m \in Ids |-> {c \in Children(x, m) : Enters(Kind[c])}] \in [Ids -> SUBSET Ids]
         /\ \A c, p \in Ids : c \in Children(x, p) <=> c \in x.nodes /\ Up(x)[c] = p
<1>1. \A m \in Ids : Children(x, m) \in SUBSET Ids
  BY TreeFields DEF Children
<1>2. \A c, p \in Ids : c \in Children(x, p) <=> c \in x.nodes /\ Up(x)[c] = p
  BY TreeFields, UpTyped, IdsFinite DEF Children, ParentOf
<1> QED BY <1>1, <1>2

(* A walk down from one node, over a set that no child is left out of. *)
LEMMA GatheredFrom ==
  ASSUME NEW next \in [Ids -> SUBSET Ids], NEW n \in Ids
  PROVE  /\ Gather(next, {n}, {n}) \in SUBSET Ids
         /\ n \in Gather(next, {n}, {n})
         /\ \A m \in Gather(next, {n}, {n}) : next[m] \subseteq Gather(next, {n}, {n})
         /\ \A T \in SUBSET Ids :
              n \in T /\ (\A m \in T : next[m] \subseteq T) => Gather(next, {n}, {n}) \subseteq T
<1>1. {n} \in SUBSET Ids /\ {n} \subseteq {n}
  OBVIOUS
<1>2. /\ Gather(next, {n}, {n}) \in SUBSET Ids
      /\ Grows(next, {n}, {n}, Gather(next, {n}, {n}))
      /\ \A T \in SUBSET Ids :
           Grows(next, {n}, {n}, T) => Gather(next, {n}, {n}) \subseteq T
  BY <1>1, Gathered
<1> QED BY <1>2 DEF Grows

LEMMA BelowIsAbove ==
  ASSUME NEW x \in Trees, NEW a \in Ids, NEW n \in x.nodes, n # a
  PROVE  n \in Descendants(x, a) <=> a \in ToSet(Ancestors(x, n))
<1> DEFINE up == Up(x)
           next == [m \in Ids |-> Children(x, m)]
           D == Gather(next, {a}, {a})
<1>1. up \in Ways /\ n \in Ids
  BY UpTyped, TreeFields
<1>2. /\ next \in [Ids -> SUBSET Ids]
      /\ \A c, p \in Ids : c \in next[p] <=> c \in x.nodes /\ up[c] = p
  BY ChildrenTyped
<1>3. Descendants(x, a) = D \ {a}
  BY DEF Descendants
<1>4. ToSet(Ancestors(x, n)) = Over(up, n)
  BY <1>1, UpTyped
<1> HIDE DEF up, next
<1>5. /\ D \in SUBSET Ids /\ a \in D /\ \A m \in D : next[m] \subseteq D
      /\ \A T \in SUBSET Ids : a \in T /\ (\A m \in T : next[m] \subseteq T) => D \subseteq T
  BY <1>2, GatheredFrom
<1> HIDE DEF D
<1>6. ASSUME n \in D PROVE a \in Over(up, n)
  <2> DEFINE T == {m \in Ids : m = a \/ a \in Over(up, m)}
  <2>1. ASSUME NEW m \in T, NEW c \in next[m] PROVE c \in T
    <3>1. c \in Ids /\ m \in Ids /\ up[c] = m /\ m # None
      BY <1>2, IdsFinite
    <3>2. m \in Over(up, c) /\ Over(up, m) \subseteq Over(up, c)
      BY <3>1, <1>1, OverParent
    <3> QED BY <3>1, <3>2
  <2>2. D \subseteq T
    <3>1. T \in SUBSET Ids /\ a \in T /\ \A m \in T : next[m] \subseteq T
      BY <2>1
    <3> HIDE DEF T
    <3> QED BY <3>1, <1>5
  <2> QED BY <2>2, <1>6
<1>7. ASSUME a \in Over(up, n) PROVE n \in D
  <2> SUFFICES ASSUME n \notin D PROVE FALSE
    OBVIOUS
  <2> DEFINE T == Ids \ D
  <2>1. ASSUME NEW m \in Ids, up[m] \in D, m \in x.nodes PROVE m \in D
    <3>1. m \in next[up[m]]
      BY <2>1, <1>2, <1>5
    <3> QED BY <3>1, <2>1, <1>5
  <2>2. ASSUME NEW m \in T PROVE up[m] \in T \cup {None}
    <3>1. m \in x.nodes \/ up[m] = None
      BY UpTyped DEF ParentOf, up
    <3>2. up[m] \in Ids \cup {None}
      BY <1>1 DEF Ways
    <3> QED BY <3>1, <3>2, <2>1
  <2>3. n \in T
    BY <1>1
  <2>4. Over(up, n) \subseteq T
    BY <1>1, <2>2, <2>3, OverIsLeast
  <2> QED BY <2>4, <1>7, <1>5
<1> QED BY <1>3, <1>4, <1>6, <1>7

-----------------------------------------------------------------------------
(* The nearest of a kind *)

LEMMA FirstThere ==
  ASSUME NEW chain \in Seq(Ids), NEW S, ToSet(chain) \cap S # {}
  PROVE  \E i \in 1..Len(chain) : /\ FirstIn(chain, S) = chain[i] /\ chain[i] \in S
                                  /\ \A j \in 1..(i - 1) : chain[j] \notin S
<1>1. DOMAIN chain = 1..Len(chain) /\ Len(chain) \in Nat
  BY ToSetTyped
<1> DEFINE I == {i \in 1..Len(chain) : chain[i] \in S}
<1>2. I # {} /\ I \subseteq Nat
  BY <1>1 DEF ToSet
<1>3. PICK i \in I : \A j \in I : i <= j
  <2> HIDE DEF I
  <2> QED BY <1>2, LeastExists
<1>4. i \in DOMAIN chain /\ chain[i] \in S /\ \A j \in 1..(i - 1) : chain[j] \notin S
  <2>1. ASSUME NEW j \in 1..(i - 1), chain[j] \in S PROVE FALSE
    <3>1. j \in I /\ j < i
      BY <1>1, <2>1
    <3> QED BY <3>1, <1>3, <1>1
  <2> QED BY <2>1, <1>1
<1> DEFINE k == CHOOSE m \in DOMAIN chain :
                  chain[m] \in S /\ \A j \in 1..(m - 1) : chain[j] \notin S
<1>5. k \in DOMAIN chain /\ chain[k] \in S /\ \A j \in 1..(k - 1) : chain[j] \notin S
  BY <1>4
<1>6. FirstIn(chain, S) = chain[k]
  BY DEF FirstIn
<1> HIDE DEF k
<1> QED BY <1>1, <1>5, <1>6

LEMMA Prefixed ==
  ASSUME NEW n \in Ids, NEW s \in Seq(Ids)
  PROVE  /\ <<n>> \o s \in Seq(Ids) /\ Len(<<n>> \o s) = Len(s) + 1 /\ Len(s) \in Nat
         /\ (<<n>> \o s)[1] = n /\ \A i \in 1..Len(s) : (<<n>> \o s)[i + 1] = s[i]
         /\ ToSet(<<n>> \o s) = {n} \cup ToSet(s)
<1> DEFINE q == <<n>> \o s
<1>1. /\ q \in Seq(Ids) /\ Len(q) = Len(s) + 1 /\ Len(s) \in Nat
      /\ q[1] = n /\ \A i \in 1..Len(s) : q[i + 1] = s[i]
      /\ DOMAIN q = 1..Len(q) /\ DOMAIN s = 1..Len(s)
  OBVIOUS
<1> HIDE DEF q
<1>2. ASSUME NEW y \in ToSet(q) PROVE y \in {n} \cup ToSet(s)
  <2>1. PICK i \in DOMAIN q : y = q[i]
    BY DEF ToSet
  <2>2. CASE i = 1
    BY <1>1, <2>1, <2>2
  <2>3. CASE i # 1
    <3>1. i - 1 \in DOMAIN s /\ s[i - 1] = q[(i - 1) + 1]
      BY <1>1, <2>3
    <3>2. s[i - 1] = y
      BY <3>1, <2>1, <1>1
    <3> QED BY <3>1, <3>2 DEF ToSet
  <2> QED BY <2>2, <2>3
<1>3. ASSUME NEW y \in ToSet(s) PROVE y \in ToSet(q)
  <2>1. PICK i \in DOMAIN s : y = s[i]
    BY DEF ToSet
  <2>2. i + 1 \in DOMAIN q /\ q[i + 1] = y
    BY <1>1, <2>1
  <2> QED BY <2>2 DEF ToSet
<1>4. n \in ToSet(q)
  <2>1. 1 \in DOMAIN q
    BY <1>1
  <2> QED BY <2>1, <1>1 DEF ToSet
<1>5. ToSet(q) = {n} \cup ToSet(s)
  BY <1>2, <1>3, <1>4
<1> QED BY <1>1, <1>5 DEF q

(* A node and what is above it, in order. *)
Line(up, n) == <<n>> \o Climb(up, up[n], {}).chain

LEMMA LineGoesUp ==
  ASSUME NEW up \in Ways, NEW n \in Ids
  PROVE  /\ Line(up, n) \in Seq(Ids) /\ Len(Line(up, n)) \in Nat \ {0}
         /\ Line(up, n)[1] = n
         /\ \A i \in 1..(Len(Line(up, n)) - 1) : up[Line(up, n)[i]] = Line(up, n)[i + 1]
         /\ ToSet(Line(up, n)) = {n} \cup Over(up, n)
<1> DEFINE from == up[n]
           c == Climb(up, from, {})
           q == <<n>> \o c.chain
<1>1. from \in Ids \cup {None}
  BY DEF Ways
<1>2. Climbing(up, from, {}, c)
  <2> HIDE DEF from
  <2> QED BY <1>1, Climbed
<1> HIDE DEF c
<1>3. c.chain \in Seq(Ids) /\ DOMAIN c.chain = 1..Len(c.chain)
  <2>1. c.chain \in Seq(Ids)
    BY <1>2 DEF Climbing, Climbs
  <2> QED BY <2>1, ToSetTyped
<1>4. /\ q \in Seq(Ids) /\ Len(q) = Len(c.chain) + 1 /\ Len(c.chain) \in Nat
      /\ q[1] = n /\ \A i \in 1..Len(c.chain) : q[i + 1] = c.chain[i]
      /\ ToSet(q) = {n} \cup ToSet(c.chain)
  BY <1>3, Prefixed
<1> HIDE DEF q
<1>5. ASSUME NEW i \in 1..(Len(q) - 1) PROVE up[q[i]] = q[i + 1]
  <2>1. q[i + 1] = c.chain[i]
    BY <1>4
  <2>2. CASE i = 1
    <3>1. c.chain # <<>>
      BY <2>2, <1>3, <1>4
    <3>2. from = c.chain[1]
      BY <3>1, <1>2 DEF Climbing, Linked
    <3> QED BY <3>2, <2>1, <2>2, <1>4
  <2>3. CASE i # 1
    <3>1. i - 1 \in 1..Len(c.chain) /\ (i - 1) # Len(c.chain) /\ (i - 1) + 1 = i
      BY <2>3, <1>4
    <3>2. q[i] = c.chain[i - 1]
      BY <3>1, <1>4
    <3>3. up[c.chain[i - 1]] = c.chain[(i - 1) + 1]
      BY <3>1, <1>2, <1>3 DEF Climbing, Linked
    <3> QED BY <3>1, <3>2, <3>3, <2>1
  <2> QED BY <2>2, <2>3
<1> QED BY <1>4, <1>5 DEF Line, Over, q, c

(* What the way up from a node leads to before it passes a member of S. *)
Until(up, n, S) ==
  {x \in Ids : \A T \in SUBSET Ids :
     n \in T /\ (\A y \in T \ S : up[y] \in T \cup {None}) => x \in T}

LEMMA UntilClosed ==
  ASSUME NEW up \in Ways, NEW n \in Ids, NEW S
  PROVE  /\ n \in Until(up, n, S)
         /\ \A y \in Until(up, n, S) \ S : up[y] \in Until(up, n, S) \cup {None}
         /\ Until(up, n, S) \in SUBSET Ids
BY DEF Until, Ways

LEMMA FirstOnTheWay ==
  ASSUME NEW up \in Ways, NEW n \in Ids, NEW S
  PROVE  /\ FirstIn(Line(up, n), S) # None =>
              /\ FirstIn(Line(up, n), S) \in S \cap Until(up, n, S)
              /\ FirstIn(Line(up, n), S) \in {n} \cup Over(up, n)
         /\ S \cap Until(up, n, S) \subseteq {FirstIn(Line(up, n), S)}
         /\ FirstIn(Line(up, n), S) = None => ({n} \cup Over(up, n)) \cap S = {}
<1> DEFINE q == Line(up, n)
           f == FirstIn(q, S)
           U == Until(up, n, S)
<1>1. /\ q \in Seq(Ids) /\ Len(q) \in Nat \ {0} /\ q[1] = n
      /\ \A i \in 1..(Len(q) - 1) : up[q[i]] = q[i + 1]
      /\ ToSet(q) = {n} \cup Over(up, n)
      /\ DOMAIN q = 1..Len(q)
  BY LineGoesUp, ToSetTyped
<1> HIDE DEF q, U
<1>2. CASE ToSet(q) \cap S = {}
  <2>1. f = None
    BY <1>2 DEF FirstIn
  <2>2. U \subseteq {n} \cup Over(up, n)
    <3> DEFINE T == {n} \cup Over(up, n)
    <3>1. T \in SUBSET Ids /\ n \in T /\ \A y \in T \ S : up[y] \in T \cup {None}
      BY OverIsLeast
    <3> HIDE DEF T
    <3>2. U \subseteq T
      BY <3>1 DEF Until, U
    <3> QED BY <3>2 DEF T
  <2> QED BY <2>1, <2>2, <1>1, <1>2 DEF q, U
<1>3. CASE ToSet(q) \cap S # {}
  <2>1. PICK i \in 1..Len(q) : /\ f = q[i] /\ q[i] \in S
                               /\ \A j \in 1..(i - 1) : q[j] \notin S
    BY <1>1, <1>3, FirstThere
  <2> HIDE DEF f
  <2>2. q[i] \in Ids /\ q[i] \in ToSet(q)
    BY <1>1 DEF ToSet
  <2>3. ASSUME NEW T \in SUBSET Ids, n \in T, \A y \in T \ S : up[y] \in T \cup {None},
               q[i] \notin T
        PROVE  FALSE
    <3> DEFINE J == {j \in 1..i : q[j] \notin T}
    <3>1. i \in J /\ J \subseteq Nat
      BY <2>3
    <3>2. PICK j \in J : \A k \in J : j <= k
      <4> HIDE DEF J
      <4> QED BY <3>1, LeastExists
    <3>3. j \in 1..i /\ q[j] \notin T /\ j # 1
      BY <3>2, <1>1, <2>3
    <3>4. j - 1 \in 1..(i - 1) /\ j - 1 \in 1..(Len(q) - 1) /\ (j - 1) + 1 = j
      BY <3>3, <1>1
    <3>5. j - 1 \notin J
      BY <3>2, <3>4
    <3>6. q[j - 1] \in T /\ q[j - 1] \notin S
      BY <3>4, <3>5, <2>1
    <3>7. up[q[j - 1]] = q[j]
      BY <3>4, <1>1
    <3>8. q[j] \in Ids
      BY <3>3, <1>1
    <3> QED BY <3>3, <3>6, <3>7, <3>8, <2>3, IdsFinite
  <2>4. q[i] \in U
    BY <2>2, <2>3 DEF Until, U
  <2>5. ASSUME NEW s \in S \cap U PROVE s = q[i]
    <3> DEFINE T == {q[j] : j \in 1..i}
    <3>1. T \in SUBSET Ids
      BY <1>1
    <3>2. n \in T
      BY <1>1
    <3>3. ASSUME NEW y \in T \ S PROVE up[y] \in T
      <4>1. PICK j \in 1..i : y = q[j]
        OBVIOUS
      <4>2. j # i
        BY <4>1, <2>1, <3>3
      <4>3. j \in 1..(Len(q) - 1) /\ j + 1 \in 1..i
        BY <4>1, <4>2, <1>1
      <4> QED BY <4>1, <4>3, <1>1
    <3>4. U \subseteq T
      <4> HIDE DEF T
      <4> QED BY <3>1, <3>2, <3>3 DEF Until, U
    <3>5. PICK j \in 1..i : s = q[j]
      BY <3>4
    <3>6. ~(j \in 1..(i - 1))
      BY <3>5, <2>1
    <3>7. j = i
      BY <3>5, <3>6, <1>1
    <3> QED BY <3>5, <3>7
  <2>6. q[i] # None
    BY <2>2, IdsFinite
  <2> QED BY <2>1, <2>2, <2>4, <2>5, <2>6, <1>1 DEF f, q, U
<1> QED BY <1>2, <1>3

LEMMA AncestorsLine ==
  ASSUME NEW x \in Trees, NEW n \in Ids
  PROVE  Chain(x, n) = Line(Up(x), n) /\ <<n>> \o Ancestors(x, n) = Line(Up(x), n)
<1>1. Up(x)[n] = ParentOf(x, n)
  BY UpTyped
<1> QED BY <1>1 DEF Chain, Ancestors, Line

(* The nearest node of a kind at or above a node, as the way up finds it.  *)
LEMMA Nearest ==
  ASSUME NEW x \in Trees, NEW n \in x.nodes, NEW kind
  PROVE  LET S == NodesOfKind(x, kind)
             r == NearestOf(x, n, kind)
         IN /\ r # None => r \in S \cap Until(Up(x), n, S) /\ r \in {n} \cup Over(Up(x), n)
            /\ S \cap Until(Up(x), n, S) \subseteq {r}
            /\ r = None => ({n} \cup Over(Up(x), n)) \cap S = {}
<1>1. n \in Ids /\ Up(x) \in Ways
  BY TreeFields, UpTyped
<1>2. NearestOf(x, n, kind) = FirstIn(Line(Up(x), n), NodesOfKind(x, kind))
  BY <1>1, AncestorsLine DEF NearestOf
<1> QED BY <1>1, <1>2, FirstOnTheWay

LEMMA DrawnByItsOwner ==
  ASSUME NEW x \in Trees, NEW s \in NodesOfKind(x, "service"),
         NEW m \in NodesOfKind(x, "module")
  PROVE  m \in ModulesOfService(x, s) <=> OwningService(x, m) = s
<1> DEFINE up == Up(x)
           S == NodesOfKind(x, "service")
           inside == [n \in Ids |-> {c \in Children(x, n) : Enters(Kind[c])}]
           W == Gather(inside, {s}, {s})
           r == OwningService(x, m)
<1>1. /\ s \in Ids /\ s \in x.nodes /\ Kind[s] = "service"
      /\ m \in Ids /\ m \in x.nodes /\ Kind[m] = "module"
      /\ s # None
  BY TreeFields, IdsFinite DEF NodesOfKind
<1>2. up \in Ways
  BY UpTyped
<1>3. inside \in [Ids -> SUBSET Ids]
  BY ChildrenTyped
<1>4. \A c, p \in Ids : c \in inside[p] <=> c \in x.nodes /\ up[c] = p /\ c \notin S
  <2> TAKE c, p \in Ids
  <2>1. c \in inside[p] <=> c \in Children(x, p) /\ Kind[c] # "service"
    BY DEF Enters
  <2>2. c \in x.nodes => (c \in S <=> Kind[c] = "service")
    BY DEF NodesOfKind
  <2> HIDE DEF inside, S
  <2> QED BY <2>1, <2>2, ChildrenTyped
<1>5. ModulesOfService(x, s) = (W \ {s}) \cap NodesOfKind(x, "module")
  BY DEF ModulesOfService
<1>6. /\ r # None => r \in S \cap Until(up, m, S) /\ r \in {m} \cup Over(up, m)
      /\ S \cap Until(up, m, S) \subseteq {r}
  BY <1>1, Nearest DEF OwningService
<1>7. s \in S
  OBVIOUS
<1> HIDE DEF inside, S, r, up
<1>8. /\ W \in SUBSET Ids /\ s \in W /\ \A n \in W : inside[n] \subseteq W
      /\ \A T \in SUBSET Ids : s \in T /\ (\A n \in T : inside[n] \subseteq T) => W \subseteq T
  BY <1>1, <1>3, GatheredFrom
<1> HIDE DEF W
<1>9. ASSUME m \in W PROVE r = s
  <2> DEFINE T == {y \in Ids : y = s \/ s \in Until(up, y, S)}
  <2>1. ASSUME NEW y \in T, NEW c \in inside[y] PROVE c \in T
    <3>1. c \in Ids /\ y \in Ids /\ up[c] = y /\ c \notin S /\ y # None
      BY <1>3, <1>4, IdsFinite
    <3>2. /\ c \in Until(up, c, S) /\ Until(up, c, S) \in SUBSET Ids
          /\ \A z \in Until(up, c, S) \ S : up[z] \in Until(up, c, S) \cup {None}
      BY <3>1, <1>2, UntilClosed
    <3>3. y \in Until(up, c, S)
      BY <3>1, <3>2
    <3>4. s \in Until(up, c, S)
      <4>1. CASE y = s
        BY <4>1, <3>3
      <4>2. CASE s \in Until(up, y, S)
        BY <4>2, <3>2, <3>3 DEF Until
      <4> QED BY <4>1, <4>2
    <3> QED BY <3>1, <3>4
  <2>2. W \subseteq T
    <3>1. T \in SUBSET Ids /\ s \in T /\ \A y \in T : inside[y] \subseteq T
      BY <1>1, <2>1
    <3> HIDE DEF T
    <3> QED BY <3>1, <1>8
  <2>3. m # s
    BY <1>1
  <2>4. s \in Until(up, m, S)
    BY <2>2, <2>3, <1>9
  <2> QED BY <2>4, <1>6, <1>7
<1>10. ASSUME r = s PROVE m \in W
  <2> SUFFICES ASSUME m \notin W PROVE FALSE
    OBVIOUS
  <2> DEFINE T == Ids \ W
  <2>1. ASSUME NEW y \in T \ S PROVE up[y] \in T \cup {None}
    <3>1. up[y] \in Ids \cup {None}
      BY <1>2 DEF Ways
    <3>2. y \in x.nodes \/ up[y] = None
      BY UpTyped DEF ParentOf, up
    <3>3. up[y] \in W => (up[y] \in Ids /\ y \in inside[up[y]]) \/ up[y] = None
      BY <3>2, <1>4, <1>8
    <3> QED BY <3>1, <3>3, <1>8
  <2>2. s \in Until(up, m, S)
    BY <1>1, <1>6, <1>10
  <2>3. s \in T
    BY <2>1, <2>2, <1>1 DEF Until
  <2> QED BY <2>3, <1>8
<1> QED BY <1>1, <1>5, <1>9, <1>10 DEF r

LEMMA LocatedInside ==
  ASSUME NEW x \in Trees, NEW n \in x.nodes, Location(x, n) # None
  PROVE  n \in Descendants(x, Location(x, n)) \cup NodesOfKind(x, "module")
<1>1. n \in Ids
  BY TreeFields
<1>2. ASSUME NEW kind, NearestOf(x, n, kind) # None, Kind[n] # kind
      PROVE  n \in Descendants(x, NearestOf(x, n, kind))
  <2> DEFINE r == NearestOf(x, n, kind)
  <2>1. r \in NodesOfKind(x, kind) /\ r \in {n} \cup Over(Up(x), n)
    BY <1>2, Nearest
  <2>2. r \in Ids /\ r # n
    BY <2>1, <1>2, TreeFields DEF NodesOfKind
  <2> HIDE DEF r
  <2>3. r \in ToSet(Ancestors(x, n))
    BY <2>1, <2>2, <1>1, UpTyped
  <2>4. n \in Descendants(x, r)
    BY <2>2, <2>3, BelowIsAbove
  <2> QED BY <2>4 DEF r
<1>3. Kind[n] # "service"
  BY DEF Location
<1>4. CASE Facet(n) /\ ModuleRoot(x, n) # None
  <2>1. Kind[n] # "module"
    BY <1>4 DEF Facet
  <2>2. Location(x, n) = NearestOf(x, n, "module")
    BY <1>3, <1>4 DEF Location, ModuleRoot
  <2> QED BY <2>1, <2>2, <1>2
<1>5. CASE ~(Facet(n) /\ ModuleRoot(x, n) # None)
  <2>1. Location(x, n) = NearestOf(x, n, "service")
    BY <1>3, <1>5 DEF Location, OwningService
  <2> QED BY <2>1, <1>2, <1>3
<1> QED BY <1>4, <1>5

(* WalksAgree: in every tree that the calls, hand edits and merges lead to, *)
(* cycles of parents and lost files included, what is below a node has it   *)
(* above, a service draws the modules that it is the nearest service of,    *)
(* and a finding's row opens a Schematic that holds its subject.            *)
THEOREM WalksHold == Spec => []WalksAgree
<1>1. TypeOK => WalksAgree
  <2> SUFFICES ASSUME TypeOK PROVE WalksAgree
    OBVIOUS
  <2>0. g \in Trees
    BY DEF TypeOK
  <2>1. \A a \in Ids : \A n \in g.nodes \ {a} :
          (n \in Descendants(g, a)) <=> (a \in ToSet(Ancestors(g, n)))
    BY <2>0, BelowIsAbove
  <2>2. \A s \in NodesOfKind(g, "service"), m \in NodesOfKind(g, "module") :
          (m \in ModulesOfService(g, s)) <=> (OwningService(g, m) = s)
    BY <2>0, DrawnByItsOwner
  <2>3. \A n \in g.nodes : Location(g, n) # None =>
          n \in Descendants(g, Location(g, n)) \cup NodesOfKind(g, "module")
    BY <2>0, LocatedInside
  <2> QED BY <2>1, <2>2, <2>3 DEF WalksAgree
<1> QED BY <1>1, Typed, PTL

-----------------------------------------------------------------------------
(* The lowest common ancestor *)

Common(up, D) == {c \in Ids \ D : \A d \in D : c \in Over(up, d)}
Lca(up, D) == FirstIn(Line(up, Least(D)), Common(up, D))

LEMMA SharedIsLca ==
  ASSUME NEW x \in Trees, NEW D \in SUBSET Ids, D # {}
  PROVE  /\ LowestCommonAncestor(x, D) = Lca(Up(x), D)
         /\ Common(Up(x), D) =
              {c \in Ids \ D : \A d \in D : c = d \/ c \in ToSet(Ancestors(x, d))}
<1>1. Least(D) \in Ids
  BY LeastIn
<1>2. \A d \in D : /\ ToSet(Chain(x, d)) = {d} \cup Over(Up(x), d)
                   /\ ToSet(Ancestors(x, d)) = Over(Up(x), d)
  <2> TAKE d \in D
  <2>1. d \in Ids /\ Up(x) \in Ways
    BY UpTyped
  <2>2. Chain(x, d) = Line(Up(x), d)
    BY <2>1, AncestorsLine
  <2> QED BY <2>1, <2>2, LineGoesUp, UpTyped
<1>3. {c \in Ids : \A n \in D : c \in ToSet(Chain(x, n))} \ D = Common(Up(x), D)
  BY <1>2 DEF Common
<1>4. Chain(x, Least(D)) = Line(Up(x), Least(D))
  BY <1>1, AncestorsLine
<1>5. LowestCommonAncestor(x, D) = Lca(Up(x), D)
  BY <1>3, <1>4 DEF LowestCommonAncestor, Deepest, Lca
<1> QED BY <1>2, <1>5 DEF Common

LEMMA LcaLowest ==
  ASSUME NEW up \in Ways, NEW D \in SUBSET Ids, D # {}
  PROVE  /\ Common(up, D) = {} => Lca(up, D) = None
         /\ Common(up, D) # {} =>
              /\ Lca(up, D) \in Common(up, D)
              /\ Lca(up, D) \in Until(up, Least(D), Common(up, D))
              /\ Common(up, D) \ {Lca(up, D)} \subseteq Over(up, Lca(up, D))
         /\ Common(up, D) \cap Until(up, Least(D), Common(up, D)) \subseteq {Lca(up, D)}
<1> DEFINE d == Least(D)
           S == Common(up, D)
           r == Lca(up, D)
           U == Until(up, d, S)
<1>1. d \in D /\ d \in Ids
  BY LeastIn
<1>2. S \subseteq Over(up, d) /\ S \subseteq Ids
  BY <1>1 DEF Common
<1> HIDE DEF d, S
<1>3. /\ r # None => r \in S \cap U
      /\ S \cap U \subseteq {r}
      /\ r = None => ({d} \cup Over(up, d)) \cap S = {}
  BY <1>1, FirstOnTheWay DEF Lca, d, S
<1> HIDE DEF r
<1>4. S = {} => r = None
  BY <1>3
<1>5. S # {} => r \in S \cap U
  BY <1>2, <1>3
<1>6. ASSUME S # {} PROVE S \ {r} \subseteq Over(up, r)
  <2>1. r \in Ids /\ r \in S
    BY <1>2, <1>5, <1>6
  <2>2. d \in U /\ (\A y \in U \ S : up[y] \in U \cup {None}) /\ U \in SUBSET Ids
    BY <1>1, UntilClosed
  <2>3. /\ Over(up, r) \in SUBSET Ids /\ up[r] \in Over(up, r) \cup {None}
        /\ \A m \in Over(up, r) : up[m] \in Over(up, r) \cup {None}
    BY <2>1, OverIsLeast
  <2> DEFINE T == U \cup Over(up, r)
  <2>4. \A y \in T : up[y] \in T \cup {None}
    <3> TAKE y \in T
    <3>1. CASE y \in U \ S
      BY <3>1, <2>2
    <3>2. CASE y \in U \cap S
      BY <3>2, <1>3, <2>3
    <3>3. CASE y \in Over(up, r)
      BY <3>3, <2>3
    <3> QED BY <3>1, <3>2, <3>3
  <2>5. Over(up, d) \subseteq T
    <3>1. T \in SUBSET Ids /\ d \in T
      BY <2>2, <2>3
    <3> HIDE DEF T
    <3> QED BY <3>1, <2>4, <1>1, OverIsLeast
  <2> QED BY <2>5, <1>2, <1>3
<1> QED BY <1>3, <1>4, <1>5, <1>6 DEF r, S, d

Moved(up, n, v, to) == to \in Ways /\ to[n] = v /\ \A m \in Ids \ {n} : to[m] = up[m]

(* Moving a node under the lowest common ancestor of some nodes leaves that *)
(* where it was, unless it was below the node or was the node.              *)
LEMMA LcaMoved ==
  ASSUME NEW up \in Ways, NEW D \in SUBSET Ids, D # {}, NEW n \in Ids,
         NEW v, v = Lca(up, D), v # None, v # n, n \notin Over(up, v),
         NEW to, Moved(up, n, v, to)
  PROVE  Lca(to, D) = v
<1> DEFINE d == Least(D)
           S == Common(up, D)
           R == Common(to, D)
<1>1. v \in S /\ v \in Until(up, d, S) /\ S \ {v} \subseteq Over(up, v)
  BY LcaLowest
<1>2. v \in Ids /\ v \notin D /\ \A e \in D : v \in Over(up, e)
  BY <1>1 DEF Common
<1>3. to \in Ways /\ to[n] = v /\ \A m \in Ids \ {n} : to[m] = up[m]
  BY DEF Moved
<1>4. d \in D /\ d \in Ids
  BY LeastIn
<1> HIDE DEF d
<1>5. Over(to, v) = Over(up, v)
  <2>1. to[v] = up[v]
    BY <1>2, <1>3
  <2>2. Over(to, v) \subseteq Over(up, v)
    <3>1. /\ Over(up, v) \in SUBSET Ids /\ to[v] \in Over(up, v) \cup {None}
          /\ \A m \in Over(up, v) : to[m] \in Over(up, v) \cup {None}
      BY <2>1, <1>2, <1>3, OverIsLeast
    <3> QED BY <3>1, <1>2, <1>3, OverWithin
  <2>3. Over(up, v) \subseteq Over(to, v)
    <3>1. /\ Over(to, v) \in SUBSET Ids /\ to[v] \in Over(to, v) \cup {None}
          /\ \A m \in Over(to, v) : to[m] \in Over(to, v) \cup {None}
      <4>1. v \in Ids /\ to \in Ways
        BY <1>2, <1>3
      <4> QED BY <4>1, OverIsLeast
    <3>2. n \notin Over(to, v)
      BY <2>2
    <3>3. \A m \in Over(to, v) : up[m] = to[m]
      BY <3>1, <3>2, <1>3
    <3>4. \A m \in Over(to, v) : up[m] \in Over(to, v) \cup {None}
      BY <3>1, <3>3
    <3> QED BY <3>1, <3>4, <2>1, <1>2, OverWithin
  <2> QED BY <2>2, <2>3
<1>6. ASSUME NEW e \in D PROVE v \in Over(to, e)
  <2> SUFFICES ASSUME v \notin Over(to, e) PROVE FALSE
    OBVIOUS
  <2>1. e \in Ids
    OBVIOUS
  <2>2. /\ Over(to, e) \in SUBSET Ids /\ to[e] \in Over(to, e) \cup {None}
        /\ \A m \in Over(to, e) : to[m] \in Over(to, e) \cup {None}
    BY <2>1, <1>3, OverIsLeast
  <2>3. e # n /\ n \notin Over(to, e)
    BY <2>2, <1>3
  <2>4. up[e] \in Over(to, e) \cup {None} /\ \A m \in Over(to, e) : up[m] \in Over(to, e) \cup {None}
    BY <2>1, <2>2, <2>3, <1>3
  <2>5. Over(up, e) \subseteq Over(to, e)
    BY <2>1, <2>2, <2>4, OverIsLeast
  <2> QED BY <2>5, <1>2
<1>7. v \in R
  BY <1>2, <1>6 DEF Common
<1>8. ASSUME NEW e \in D PROVE Over(to, e) \subseteq Over(up, e)
  <2>1. e \in Ids /\ v \in Over(up, e)
    BY <1>2
  <2>2. /\ Over(up, e) \in SUBSET Ids /\ up[e] \in Over(up, e) \cup {None}
        /\ \A m \in Over(up, e) : up[m] \in Over(up, e) \cup {None}
    BY <2>1, OverIsLeast
  <2>3. to[e] \in Over(up, e) \cup {None} /\ \A m \in Over(up, e) : to[m] \in Over(up, e) \cup {None}
    BY <2>1, <2>2, <1>3
  <2> QED BY <2>1, <2>2, <2>3, <1>3, OverIsLeast
<1>9. R \subseteq S
  BY <1>8 DEF Common
<1>10. n \notin R
  BY <1>1, <1>9
<1>11. v \in Until(to, d, R)
  <2>1. ASSUME NEW T \in SUBSET Ids, d \in T, \A y \in T \ R : to[y] \in T \cup {None},
               v \notin T
        PROVE  FALSE
    <3>1. n \notin T
      BY <2>1, <1>3, <1>10
    <3>2. \A y \in T \ S : up[y] \in T \cup {None}
      BY <3>1, <2>1, <1>3, <1>9
    <3>3. v \in T
      BY <3>2, <2>1, <1>1 DEF Until
    <3> QED BY <3>3, <2>1
  <2> QED BY <2>1, <1>2 DEF Until
<1>12. R \cap Until(to, d, R) \subseteq {Lca(to, D)}
  BY <1>3, LcaLowest DEF d
<1> QED BY <1>7, <1>11, <1>12

LEMMA DependentsTyped ==
  ASSUME NEW x \in Trees, NEW n
  PROVE  Dependents(x, n) \in SUBSET Ids /\ (IsShared(x, n) => Dependents(x, n) # {})
<1>1. Dependents(x, n) \in SUBSET Ids
  BY TreeFields, EdgeFields DEF Dependents, Live
<1>2. Cardinality({}) = 0
  BY FS_EmptySet
<1> QED BY <1>1, <1>2 DEF IsShared

LEMMA AdviceHolds ==
  ASSUME NEW x \in Trees, NEW n \in x.nodes, IsShared(x, n),
         NEW v, v = SharedNodeParent(x, n), v # None,
         v \notin Descendants(x, n) \cup {n},
         NEW f \in SharedNodeAboveTheLca([x EXCEPT !.parent[n] = v])
  PROVE  f.subject # n
<1> DEFINE y == [x EXCEPT !.parent[n] = v]
           D == Dependents(x, n)
<1>1. D \in SUBSET Ids /\ D # {} /\ n \in Ids
  BY DependentsTyped, TreeFields
<1>2. v = Lca(Up(x), D) /\ Up(x) \in Ways
  BY <1>1, SharedIsLca, UpTyped DEF SharedNodeParent
<1>3. v \in Ids
  <2>1. Common(Up(x), D) \subseteq Ids
    BY DEF Common
  <2>2. Common(Up(x), D) # {} /\ v \in Common(Up(x), D)
    <3> HIDE DEF D
    <3> QED BY <1>1, <1>2, LcaLowest
  <2> QED BY <2>1, <2>2
<1>4. y \in Trees
  BY <1>1, <1>3 DEF Trees
<1>5. y.nodes = x.nodes /\ y.edges = x.edges /\ y.parent = [x.parent EXCEPT ![n] = v]
  BY DEF Trees
<1> HIDE DEF y
<1>6. Up(y) = [Up(x) EXCEPT ![n] = v]
  BY <1>1, <1>5, TreeFields DEF Up, ParentOf
<1>7. n \notin Over(Up(x), v)
  <2>1. CASE v \in x.nodes
    <3>1. ToSet(Ancestors(x, v)) = Over(Up(x), v)
      BY <1>3, UpTyped
    <3>2. v \notin Descendants(x, n) /\ v # n
      OBVIOUS
    <3>3. n \notin ToSet(Ancestors(x, v))
      BY <3>2, <2>1, <1>1, BelowIsAbove
    <3> QED BY <3>1, <3>3
  <2>2. CASE v \notin x.nodes
    <3>1. Up(x)[v] = None
      BY <2>2, <1>3, UpTyped DEF ParentOf
    <3>2. Over(Up(x), v) \subseteq {}
      <4>1. {} \in SUBSET Ids /\ Up(x)[v] \in {} \cup {None}
            /\ \A m \in {} : Up(x)[m] \in {} \cup {None}
        BY <3>1
      <4> QED BY <4>1, <1>2, <1>3, OverWithin
    <3> QED BY <3>2
  <2> QED BY <2>1, <2>2
<1>8. Lca(Up(y), D) = v
  <2>1. v # n /\ v # None /\ n \in Ids
    BY <1>1
  <2> DEFINE up == Up(x)
             to == Up(y)
  <2>2. /\ up \in Ways /\ D \in SUBSET Ids /\ D # {} /\ v = Lca(up, D)
        /\ n \notin Over(up, v) /\ Moved(up, n, v, to)
    <3>1. Moved(up, n, v, to)
      BY <1>1, <1>2, <1>3, <1>6 DEF Moved, Ways
    <3> QED BY <1>1, <1>2, <1>7, <3>1
  <2> HIDE DEF D, up, to
  <2>3. Lca(to, D) = v
    BY <2>1, <2>2, LcaMoved
  <2> QED BY <2>3 DEF to
<1>9. Dependents(y, n) = D
  BY <1>5 DEF Dependents, Live
<1>10. SharedNodeParent(y, n) = v
  BY <1>1, <1>4, <1>8, <1>9, SharedIsLca DEF SharedNodeParent
<1>11. y.parent[n] = v
  BY <1>1, <1>5, TreeFields
<1>12. PICK m \in y.nodes : /\ SharedNodeParent(y, m) \notin {None, y.parent[m]}
                            /\ f = Finding("L10", m, SharedNodeParent(y, m))
  BY DEF SharedNodeAboveTheLca, y
<1>13. f.subject = m
  BY <1>12 DEF Finding
<1> QED BY <1>10, <1>11, <1>12, <1>13

(* SharedAtTheLca: what L10 advises is above every consumer and nothing     *)
(* else above them all is below it, for every tree; and a shared node that  *)
(* follows the advice is not advised again.                                 *)
THEOREM SharedHold == Spec => []SharedAtTheLca
<1>1. TypeOK => SharedAtTheLca
  <2> SUFFICES ASSUME TypeOK, NEW n \in g.nodes, IsShared(g, n)
      PROVE
        LET consumers == Dependents(g, n)
            above == {c \in Ids \ consumers :
                        \A d \in consumers : c = d \/ c \in ToSet(Ancestors(g, d))}
            advised == SharedNodeParent(g, n)
        IN /\ IF above = {} THEN advised = None
              ELSE /\ advised \in above
                   /\ above \ {advised} \subseteq ToSet(Ancestors(g, advised))
           /\ (/\ Finding("L10", n, advised) \in SharedNodeAboveTheLca(g)
               /\ advised \notin Descendants(g, n) \cup {n})
              => \A f \in SharedNodeAboveTheLca([g EXCEPT !.parent[n] = advised]) :
                   f.subject # n
    BY DEF SharedAtTheLca
  <2> DEFINE D == Dependents(g, n)
             above == {c \in Ids \ D : \A d \in D : c = d \/ c \in ToSet(Ancestors(g, d))}
             v == SharedNodeParent(g, n)
  <2>0. g \in Trees
    BY DEF TypeOK
  <2>1. D \in SUBSET Ids /\ D # {}
    BY <2>0, DependentsTyped
  <2>2. above = Common(Up(g), D) /\ v = Lca(Up(g), D) /\ Up(g) \in Ways
    BY <2>0, <2>1, SharedIsLca, UpTyped DEF SharedNodeParent
  <2>3. above \subseteq Ids
    OBVIOUS
  <2> HIDE DEF D, above, v
  <2>4. IF above = {} THEN v = None
        ELSE v \in above /\ above \ {v} \subseteq ToSet(Ancestors(g, v))
    <3>1. CASE above = {}
      BY <3>1, <2>1, <2>2, LcaLowest
    <3>2. CASE above # {}
      <4>1. v \in above /\ above \ {v} \subseteq Over(Up(g), v)
        BY <3>2, <2>1, <2>2, LcaLowest
      <4>2. ToSet(Ancestors(g, v)) = Over(Up(g), v)
        BY <4>1, <2>0, <2>3, UpTyped
      <4> QED BY <3>2, <4>1, <4>2
    <3> QED BY <3>1, <3>2
  <2>5. ASSUME Finding("L10", n, v) \in SharedNodeAboveTheLca(g),
               v \notin Descendants(g, n) \cup {n},
               NEW f \in SharedNodeAboveTheLca([g EXCEPT !.parent[n] = v])
        PROVE  f.subject # n
    <3>1. PICK m \in g.nodes : /\ SharedNodeParent(g, m) \notin {None, g.parent[m]}
                               /\ Finding("L10", n, v) = Finding("L10", m, SharedNodeParent(g, m))
      BY <2>5 DEF SharedNodeAboveTheLca
    <3>2. v # None
      BY <3>1 DEF Finding
    <3> QED BY <3>2, <2>0, <2>5, AdviceHolds DEF v
  <2> QED BY <2>4, <2>5 DEF D, above, v
<1> QED BY <1>1, Typed, PTL

-----------------------------------------------------------------------------
(* What dangles *)

(* The linter's list, thing by thing: the owner of the reference, and the  *)
(* field with what it names.                                                *)
LEMMA FindingOf ==
  ASSUME NEW rule, NEW n, NEW m
  PROVE  Finding(rule, n, m).subject = n /\ Finding(rule, n, m).about = m
BY DEF Finding

LEMMA RowsOf ==
  ASSUME NEW x, NEW r
  PROVE  r \in Rows(x) <=>
           \/ \E n \in x.nodes : \E m \in DanglingInEnvelope(x, n) : r = <<n, m>>
           \/ \E n \in x.nodes : \E m \in DanglingInFields(x, n) : r = <<n, m>>
           \/ \E n \in NodesOfKind(x, "module") : \E m \in Missing("allowed_libraries", Names[n].allowed_libraries, x.libraries) :
                   r = <<n, m>>
           \/ \E e \in LiveEdges(x) : \E m \in DanglingEnd(x, e) : r = <<e.from, m>>
           \/ \E s \in x.screens : \E m \in Missing("backed_by", BackedBy[s], x.nodes) :
                   r = <<s, m>>
           \/ \E w \in Flows : \E m \in Missing("steps", Steps[w], x.screens) : r = <<w, m>>
           \/ \E d \in x.decisions : \E m \in DanglingInDecision(x, d) : r = <<d, m>>
<1> DEFINE All == LibraryAbsentFromRegistry(x) \cup DanglingReference(x)
<1>1. \A p : p \in Rows(x) <=> \E f \in All : p = <<f.subject, f.about>>
  BY DEF Rows
<1>2. \A f : f \in All <=>
         \/ \E n \in x.nodes : \E m \in DanglingInEnvelope(x, n) : f = Finding("L06", n, m)
         \/ \E n \in x.nodes : \E m \in DanglingInFields(x, n) : f = Finding("L06", n, m)
         \/ \E n \in NodesOfKind(x, "module") : \E m \in Missing("allowed_libraries", Names[n].allowed_libraries, x.libraries) :
                 f = Finding("L04", n, m)
         \/ \E e \in LiveEdges(x) : \E m \in DanglingEnd(x, e) : f = Finding("L06", e.from, m)
         \/ \E s \in x.screens : \E m \in Missing("backed_by", BackedBy[s], x.nodes) :
                 f = Finding("L06", s, m)
         \/ \E w \in Flows : \E m \in Missing("steps", Steps[w], x.screens) :
                 f = Finding("L06", w, m)
         \/ \E d \in x.decisions : \E m \in DanglingInDecision(x, d) : f = Finding("L06", d, m)
  <2> TAKE f
  <2>1. f \in LibraryAbsentFromRegistry(x) <=>
          \E n \in NodesOfKind(x, "module") : \E m \in Missing("allowed_libraries", Names[n].allowed_libraries, x.libraries) :
               f = Finding("L04", n, m)
    <3> DEFINE A(n) == {Finding("L04", n, m) : m \in Missing("allowed_libraries", Names[n].allowed_libraries, x.libraries)}
    <3>1. LibraryAbsentFromRegistry(x) = UNION {A(n) : n \in NodesOfKind(x, "module")}
      BY DEF LibraryAbsentFromRegistry
    <3>2. \A n : f \in A(n) <=> \E m \in Missing("allowed_libraries", Names[n].allowed_libraries, x.libraries) : f = Finding("L04", n, m)
      OBVIOUS
    <3> HIDE DEF A
    <3> QED BY <3>1, <3>2
  <2>2. f \in DanglingInNodes(x) <=>
          \E n \in x.nodes : \E m \in DanglingInEnvelope(x, n) \cup DanglingInFields(x, n) :
               f = Finding("L06", n, m)
    <3> DEFINE A(n) == {Finding("L06", n, m) : m \in DanglingInEnvelope(x, n) \cup DanglingInFields(x, n)}
    <3>1. DanglingInNodes(x) = UNION {A(n) : n \in x.nodes}
      BY DEF DanglingInNodes
    <3>2. \A n : f \in A(n) <=> \E m \in DanglingInEnvelope(x, n) \cup DanglingInFields(x, n) : f = Finding("L06", n, m)
      OBVIOUS
    <3> HIDE DEF A
    <3> QED BY <3>1, <3>2
  <2>3. f \in DanglingEnds(x) <=>
          \E e \in LiveEdges(x) : \E m \in DanglingEnd(x, e) : f = Finding("L06", e.from, m)
    <3> DEFINE A(e) == {Finding("L06", e.from, m) : m \in DanglingEnd(x, e)}
    <3>1. DanglingEnds(x) = UNION {A(e) : e \in LiveEdges(x)}
      BY DEF DanglingEnds
    <3>2. \A e : f \in A(e) <=> \E m \in DanglingEnd(x, e) : f = Finding("L06", e.from, m)
      OBVIOUS
    <3> HIDE DEF A
    <3> QED BY <3>1, <3>2
  <2>4. f \in DanglingInScreens(x) <=>
          \E s \in x.screens : \E m \in Missing("backed_by", BackedBy[s], x.nodes) :
               f = Finding("L06", s, m)
    <3> DEFINE A(s) == {Finding("L06", s, m) : m \in Missing("backed_by", BackedBy[s], x.nodes)}
    <3>1. DanglingInScreens(x) = UNION {A(s) : s \in x.screens}
      BY DEF DanglingInScreens
    <3>2. \A s : f \in A(s) <=> \E m \in Missing("backed_by", BackedBy[s], x.nodes) : f = Finding("L06", s, m)
      OBVIOUS
    <3> HIDE DEF A
    <3> QED BY <3>1, <3>2
  <2>5. f \in DanglingInFlows(x) <=>
          \E w \in Flows : \E m \in Missing("steps", Steps[w], x.screens) :
               f = Finding("L06", w, m)
    <3> DEFINE A(w) == {Finding("L06", w, m) : m \in Missing("steps", Steps[w], x.screens)}
    <3>1. DanglingInFlows(x) = UNION {A(w) : w \in Flows}
      BY DEF DanglingInFlows
    <3>2. \A w : f \in A(w) <=> \E m \in Missing("steps", Steps[w], x.screens) : f = Finding("L06", w, m)
      OBVIOUS
    <3> HIDE DEF A
    <3> QED BY <3>1, <3>2
  <2>6. f \in DanglingInDecisions(x) <=>
          \E d \in x.decisions : \E m \in DanglingInDecision(x, d) : f = Finding("L06", d, m)
    <3> DEFINE A(d) == {Finding("L06", d, m) : m \in DanglingInDecision(x, d)}
    <3>1. DanglingInDecisions(x) = UNION {A(d) : d \in x.decisions}
      BY DEF DanglingInDecisions
    <3>2. \A d : f \in A(d) <=> \E m \in DanglingInDecision(x, d) : f = Finding("L06", d, m)
      OBVIOUS
    <3> HIDE DEF A
    <3> QED BY <3>1, <3>2
  <2>7. (\E n \in x.nodes : \E m \in DanglingInEnvelope(x, n) \cup DanglingInFields(x, n) :
           f = Finding("L06", n, m))
        <=> \/ \E n \in x.nodes : \E m \in DanglingInEnvelope(x, n) : f = Finding("L06", n, m)
            \/ \E n \in x.nodes : \E m \in DanglingInFields(x, n) : f = Finding("L06", n, m)
    OBVIOUS
  <2>8. f \in All <=> \/ f \in LibraryAbsentFromRegistry(x)
                      \/ f \in DanglingInNodes(x)
                      \/ f \in DanglingEnds(x)
                      \/ f \in DanglingInScreens(x)
                      \/ f \in DanglingInFlows(x)
                      \/ f \in DanglingInDecisions(x)
    BY DEF DanglingReference
  <2> HIDE DEF All
  <2> QED BY <2>1, <2>2, <2>3, <2>4, <2>5, <2>6, <2>7, <2>8
<1> HIDE DEF All
<1>3. \A rule, n, m : <<Finding(rule, n, m).subject, Finding(rule, n, m).about>> = <<n, m>>
  BY FindingOf
<1>4. ASSUME NEW rule, NEW n, NEW m, Finding(rule, n, m) \in All
      PROVE  <<n, m>> \in Rows(x)
  BY <1>1, <1>3, <1>4
<1>5. ASSUME NEW n \in x.nodes, NEW m \in DanglingInEnvelope(x, n)
      PROVE  <<n, m>> \in Rows(x)
  <2>1. Finding("L06", n, m) \in All
    BY <1>2
  <2> QED BY <2>1, <1>4
<1>6. ASSUME NEW n \in x.nodes, NEW m \in DanglingInFields(x, n)
      PROVE  <<n, m>> \in Rows(x)
  <2>1. Finding("L06", n, m) \in All
    BY <1>2
  <2> QED BY <2>1, <1>4
<1>7. ASSUME NEW n \in NodesOfKind(x, "module"), NEW m \in Missing("allowed_libraries", Names[n].allowed_libraries, x.libraries)
      PROVE  <<n, m>> \in Rows(x)
  <2>1. Finding("L04", n, m) \in All
    BY <1>2
  <2> QED BY <2>1, <1>4
<1>8. ASSUME NEW e \in LiveEdges(x), NEW m \in DanglingEnd(x, e)
      PROVE  <<e.from, m>> \in Rows(x)
  <2>1. Finding("L06", e.from, m) \in All
    BY <1>2
  <2> QED BY <2>1, <1>4
<1>9. ASSUME NEW s \in x.screens, NEW m \in Missing("backed_by", BackedBy[s], x.nodes)
      PROVE  <<s, m>> \in Rows(x)
  <2>1. Finding("L06", s, m) \in All
    BY <1>2
  <2> QED BY <2>1, <1>4
<1>10. ASSUME NEW w \in Flows, NEW m \in Missing("steps", Steps[w], x.screens)
      PROVE  <<w, m>> \in Rows(x)
  <2>1. Finding("L06", w, m) \in All
    BY <1>2
  <2> QED BY <2>1, <1>4
<1>11. ASSUME NEW d \in x.decisions, NEW m \in DanglingInDecision(x, d)
      PROVE  <<d, m>> \in Rows(x)
  <2>1. Finding("L06", d, m) \in All
    BY <1>2
  <2> QED BY <2>1, <1>4
<1>12. ASSUME r \in Rows(x)
       PROVE
         \/ \E n \in x.nodes : \E m \in DanglingInEnvelope(x, n) : r = <<n, m>>
         \/ \E n \in x.nodes : \E m \in DanglingInFields(x, n) : r = <<n, m>>
         \/ \E n \in NodesOfKind(x, "module") : \E m \in Missing("allowed_libraries", Names[n].allowed_libraries, x.libraries) :
                 r = <<n, m>>
         \/ \E e \in LiveEdges(x) : \E m \in DanglingEnd(x, e) : r = <<e.from, m>>
         \/ \E s \in x.screens : \E m \in Missing("backed_by", BackedBy[s], x.nodes) :
                 r = <<s, m>>
         \/ \E w \in Flows : \E m \in Missing("steps", Steps[w], x.screens) : r = <<w, m>>
         \/ \E d \in x.decisions : \E m \in DanglingInDecision(x, d) : r = <<d, m>>
  <2>1. PICK f \in All : r = <<f.subject, f.about>>
    BY <1>1, <1>12
  <2>2. CASE \E n \in x.nodes : \E m \in DanglingInEnvelope(x, n) : f = Finding("L06", n, m)
    BY <2>1, <2>2, <1>3
  <2>3. CASE \E n \in x.nodes : \E m \in DanglingInFields(x, n) : f = Finding("L06", n, m)
    BY <2>1, <2>3, <1>3
  <2>4. CASE \E n \in NodesOfKind(x, "module") : \E m \in Missing("allowed_libraries", Names[n].allowed_libraries, x.libraries) :
                 f = Finding("L04", n, m)
    BY <2>1, <2>4, <1>3
  <2>5. CASE \E e \in LiveEdges(x) : \E m \in DanglingEnd(x, e) : f = Finding("L06", e.from, m)
    BY <2>1, <2>5, <1>3
  <2>6. CASE \E s \in x.screens : \E m \in Missing("backed_by", BackedBy[s], x.nodes) :
                 f = Finding("L06", s, m)
    BY <2>1, <2>6, <1>3
  <2>7. CASE \E w \in Flows : \E m \in Missing("steps", Steps[w], x.screens) :
                 f = Finding("L06", w, m)
    BY <2>1, <2>7, <1>3
  <2>8. CASE \E d \in x.decisions : \E m \in DanglingInDecision(x, d) : f = Finding("L06", d, m)
    BY <2>1, <2>8, <1>3
  <2> QED BY <1>2, <2>1, <2>2, <2>3, <2>4, <2>5, <2>6, <2>7, <2>8, Zenon
<1> QED BY <1>5, <1>6, <1>7, <1>8, <1>9, <1>10, <1>11, <1>12, Zenon

(* The loader's list, in the same way. *)
LEMMA QuarantineOf ==
  ASSUME NEW n, NEW e, NEW m
  PROVE  /\ Quarantine(n, e, m).owner = n /\ Quarantine(n, e, m).missing = m
         /\ Quarantine(n, e, m).edge = e
BY DEF Quarantine

LEMMA Resolved ==
  ASSUME NEW x, NEW q
  PROVE  q \in ResolveReferences(x) <=>
           \/ \E n \in x.nodes : \E m \in EnvelopeProblems(x, n) : q = Quarantine(n, {}, m)
           \/ \E n \in x.nodes : \E m \in FieldProblems(x, n) : q = Quarantine(n, {}, m)
           \/ \E e \in x.edges : \E m \in EdgeProblems(x, e) : q = Quarantine(e.from, {e}, m)
           \/ \E s \in x.screens : \E m \in Missing("backed_by", BackedBy[s], x.nodes) :
                q = Quarantine(s, {}, m)
           \/ \E f \in Flows : \E m \in Missing("steps", Steps[f], x.screens) :
                q = Quarantine(f, {}, m)
           \/ \E d \in x.decisions : \E m \in SuccessionProblems(x, d) : q = Quarantine(d, {}, m)
<1>1. q \in NodesQuarantined(x) <=>
        \E n \in x.nodes : \E m \in EnvelopeProblems(x, n) \cup FieldProblems(x, n) :
          q = Quarantine(n, {}, m)
  <2> DEFINE A(n) == {Quarantine(n, {}, m) : m \in EnvelopeProblems(x, n) \cup FieldProblems(x, n)}
  <2>1. NodesQuarantined(x) = UNION {A(n) : n \in x.nodes}
    BY DEF NodesQuarantined
  <2>2. \A n : q \in A(n) <=> \E m \in EnvelopeProblems(x, n) \cup FieldProblems(x, n) : q = Quarantine(n, {}, m)
    OBVIOUS
  <2> HIDE DEF A
  <2> QED BY <2>1, <2>2
<1>2. q \in EdgesQuarantined(x) <=>
        \E e \in x.edges : \E m \in EdgeProblems(x, e) : q = Quarantine(e.from, {e}, m)
  <2> DEFINE A(e) == {Quarantine(e.from, {e}, m) : m \in EdgeProblems(x, e)}
  <2>1. EdgesQuarantined(x) = UNION {A(e) : e \in x.edges}
    BY DEF EdgesQuarantined
  <2>2. \A e : q \in A(e) <=> \E m \in EdgeProblems(x, e) : q = Quarantine(e.from, {e}, m)
    OBVIOUS
  <2> HIDE DEF A
  <2> QED BY <2>1, <2>2
<1>3. q \in ScreensQuarantined(x) <=>
        \E s \in x.screens : \E m \in Missing("backed_by", BackedBy[s], x.nodes) :
             q = Quarantine(s, {}, m)
  <2> DEFINE A(s) == {Quarantine(s, {}, m) : m \in Missing("backed_by", BackedBy[s], x.nodes)}
  <2>1. ScreensQuarantined(x) = UNION {A(s) : s \in x.screens}
    BY DEF ScreensQuarantined
  <2>2. \A s : q \in A(s) <=> \E m \in Missing("backed_by", BackedBy[s], x.nodes) : q = Quarantine(s, {}, m)
    OBVIOUS
  <2> HIDE DEF A
  <2> QED BY <2>1, <2>2
<1>4. q \in FlowsQuarantined(x) <=>
        \E w \in Flows : \E m \in Missing("steps", Steps[w], x.screens) :
             q = Quarantine(w, {}, m)
  <2> DEFINE A(w) == {Quarantine(w, {}, m) : m \in Missing("steps", Steps[w], x.screens)}
  <2>1. FlowsQuarantined(x) = UNION {A(w) : w \in Flows}
    BY DEF FlowsQuarantined
  <2>2. \A w : q \in A(w) <=> \E m \in Missing("steps", Steps[w], x.screens) : q = Quarantine(w, {}, m)
    OBVIOUS
  <2> HIDE DEF A
  <2> QED BY <2>1, <2>2
<1>5. q \in DecisionsQuarantined(x) <=>
        \E d \in x.decisions : \E m \in SuccessionProblems(x, d) : q = Quarantine(d, {}, m)
  <2> DEFINE A(d) == {Quarantine(d, {}, m) : m \in SuccessionProblems(x, d)}
  <2>1. DecisionsQuarantined(x) = UNION {A(d) : d \in x.decisions}
    BY DEF DecisionsQuarantined
  <2>2. \A d : q \in A(d) <=> \E m \in SuccessionProblems(x, d) : q = Quarantine(d, {}, m)
    OBVIOUS
  <2> HIDE DEF A
  <2> QED BY <2>1, <2>2
<1>6. (\E n \in x.nodes : \E m \in EnvelopeProblems(x, n) \cup FieldProblems(x, n) :
          q = Quarantine(n, {}, m))
      <=> \/ \E n \in x.nodes : \E m \in EnvelopeProblems(x, n) : q = Quarantine(n, {}, m)
          \/ \E n \in x.nodes : \E m \in FieldProblems(x, n) : q = Quarantine(n, {}, m)
  OBVIOUS
<1>7. q \in ResolveReferences(x) <=>
        \/ q \in NodesQuarantined(x) \/ q \in EdgesQuarantined(x)
        \/ q \in ScreensQuarantined(x) \/ q \in FlowsQuarantined(x)
        \/ q \in DecisionsQuarantined(x)
  BY DEF ResolveReferences
<1> QED BY <1>1, <1>2, <1>3, <1>4, <1>5, <1>6, <1>7

(* Where the two lists agree, part by part. *)
LEMMA EnvelopesAgree ==
  ASSUME NEW x, NEW n, NEW m
  PROVE  m \in EnvelopeProblems(x, n) <=>
           m \in DanglingInEnvelope(x, n) /\ m[1] # "stale.source"
<1>1. \A named, held : m \in Missing("stale.source", named, held) => m[1] = "stale.source"
  BY DEF Missing
<1>2. \A field, named, held : m \in Missing(field, named, held) => m[1] = field
  BY DEF Missing
<1>3. \A named, held : m \in Missing("parent", named, held) => m[1] # "stale.source"
  BY <1>2
<1>4. \A named, held : m \in Missing("superseded_by", named, held) => m[1] # "stale.source"
  BY <1>2
<1>5. \A named, held : m \in Missing("decisions", named, held) => m[1] # "stale.source"
  BY <1>2
<1> QED BY <1>1, <1>3, <1>4, <1>5 DEF EnvelopeProblems, DanglingInEnvelope

LEMMA FieldsAgree ==
  ASSUME NEW x, NEW n, NEW m
  PROVE  (m \in FieldProblems(x, n) /\ OfItsKind(Quarantine(n, {}, m))) <=>
           \/ m \in DanglingInFields(x, n)
           \/ /\ Kind[n] = "module"
              /\ m \in Missing("allowed_libraries", Names[n].allowed_libraries, x.libraries)
<1> DEFINE libraries == Missing("allowed_libraries", Names[n].allowed_libraries, x.libraries)
           screens == Missing("ui_refs", x.refs[n], x.screens)
           exports == Missing("exports", Names[n].exports, x.nodes)
           registry == Missing("registry_ref", Names[n].registry_ref, x.libraries)
           anchor == Missing("anchor", Names[n].anchor, x.nodes)
           members == Missing("members", Names[n].members, x.nodes)
<1>1. OfItsKind(Quarantine(n, {}, m)) <=>
        (m[1] \in DOMAIN KindOf => Kind[n] = KindOf[m[1]])
  BY QuarantineOf DEF OfItsKind
<1>2. /\ DOMAIN KindOf = {"exports", "allowed_libraries", "ui_refs", "registry_ref",
                          "anchor", "members"}
      /\ KindOf["exports"] = "service" /\ KindOf["allowed_libraries"] = "module"
      /\ KindOf["ui_refs"] = "module" /\ KindOf["registry_ref"] = "external-dep"
      /\ KindOf["anchor"] = "comment" /\ KindOf["members"] = "group"
  BY DEF KindOf
<1>3. /\ m \in libraries => m[1] = "allowed_libraries"
      /\ m \in screens => m[1] = "ui_refs"
      /\ m \in exports => m[1] = "exports"
      /\ m \in registry => m[1] = "registry_ref"
      /\ m \in anchor => m[1] = "anchor"
      /\ m \in members => m[1] = "members"
  BY DEF Missing
<1>4. m \in FieldProblems(x, n) <=>
        m \in libraries \/ m \in screens \/ m \in exports \/ m \in registry
          \/ m \in anchor \/ m \in members
  BY DEF FieldProblems
<1>5. m \in DanglingInFields(x, n) <=>
        \/ Kind[n] = "service" /\ m \in exports
        \/ Kind[n] = "module" /\ m \in screens
        \/ Kind[n] = "external-dep" /\ m \in registry
        \/ Kind[n] = "comment" /\ m \in anchor
        \/ Kind[n] = "group" /\ m \in members
  BY DEF DanglingInFields
<1> HIDE DEF libraries, screens, exports, registry, anchor, members
<1>6. (m \in FieldProblems(x, n) /\ OfItsKind(Quarantine(n, {}, m))) <=>
        \/ m \in libraries /\ Kind[n] = "module"
        \/ m \in screens /\ Kind[n] = "module"
        \/ m \in exports /\ Kind[n] = "service"
        \/ m \in registry /\ Kind[n] = "external-dep"
        \/ m \in anchor /\ Kind[n] = "comment"
        \/ m \in members /\ Kind[n] = "group"
  BY <1>1, <1>2, <1>3, <1>4
<1> QED BY <1>5, <1>6 DEF libraries

LEMMA EndsAgree ==
  ASSUME NEW x, NEW e
  PROVE  EdgeProblems(x, e) = DanglingEnd(x, e)
<1>1. /\ EndpointStore(x, e.kind, "source") = x.nodes
      /\ EndpointStore(x, e.kind, "target") =
           IF e.kind = "references_ui" THEN x.screens ELSE x.nodes
  BY DEF EndpointStore
<1> QED BY <1>1 DEF EdgeProblems, DanglingEnd

LEMMA SuccessionsAgree ==
  ASSUME NEW x, NEW d
  PROVE  SuccessionProblems(x, d) = DanglingInDecision(x, d)
<1> DEFINE P(field) == Missing(field, Links[d][field], x.decisions)
<1>1. SuccessionProblems(x, d) = UNION {P(field) : field \in {"supersedes", "superseded_by"}}
  BY DEF SuccessionProblems
<1>2. P("supersedes") = Missing("supersedes", Links[d].supersedes, x.decisions)
  OBVIOUS
<1>3. P("superseded_by") = Missing("superseded_by", Links[d].superseded_by, x.decisions)
  OBVIOUS
<1> HIDE DEF P
<1>4. UNION {P(field) : field \in {"supersedes", "superseded_by"}}
        = P("supersedes") \cup P("superseded_by")
  OBVIOUS
<1> QED BY <1>1, <1>2, <1>3, <1>4 DEF DanglingInDecision

(* A field outside the kinds' is nobody's leftover. *)
LEMMA OfNoKind ==
  ASSUME NEW n, NEW e, NEW m, m[1] \notin DOMAIN KindOf
  PROVE  OfItsKind(Quarantine(n, e, m))
BY QuarantineOf DEF OfItsKind

LEMMA NamedByNoKind ==
  ASSUME NEW x, NEW m
  PROVE  /\ \A n : m \in DanglingInEnvelope(x, n) => m[1] \notin DOMAIN KindOf
         /\ \A e : m \in DanglingEnd(x, e) =>
              m[1] \notin DOMAIN KindOf /\ m[1] # "stale.source"
         /\ \A field \in {"backed_by", "steps", "supersedes", "superseded_by"} :
              \A named, held : m \in Missing(field, named, held) =>
                m[1] \notin DOMAIN KindOf /\ m[1] # "stale.source"
         /\ \A d : m \in DanglingInDecision(x, d) =>
              m[1] \notin DOMAIN KindOf /\ m[1] # "stale.source"
<1>1. DOMAIN KindOf = {"exports", "allowed_libraries", "ui_refs", "registry_ref",
                       "anchor", "members"}
  BY DEF KindOf
<1>2. \A field, named, held : m \in Missing(field, named, held) => m[1] = field
  BY DEF Missing
<1>3. ASSUME NEW n, m \in DanglingInEnvelope(x, n) PROVE m[1] \notin DOMAIN KindOf
  <2>1. m[1] \in {"parent", "superseded_by", "stale.source", "decisions"}
    BY <1>2, <1>3 DEF DanglingInEnvelope
  <2> QED BY <1>1, <2>1
<1>4. ASSUME NEW e, m \in DanglingEnd(x, e)
      PROVE  m[1] \notin DOMAIN KindOf /\ m[1] # "stale.source"
  <2>1. m[1] \in {"source", "target"}
    BY <1>2, <1>4 DEF DanglingEnd
  <2> QED BY <1>1, <2>1
<1>5. ASSUME NEW field \in {"backed_by", "steps", "supersedes", "superseded_by"},
             NEW named, NEW held, m \in Missing(field, named, held)
      PROVE  m[1] \notin DOMAIN KindOf /\ m[1] # "stale.source"
  <2>1. m[1] = field
    BY <1>2, <1>5
  <2> QED BY <1>1, <2>1
<1>6. ASSUME NEW d, m \in DanglingInDecision(x, d)
      PROVE  m[1] \notin DOMAIN KindOf /\ m[1] # "stale.source"
  <2>1. m[1] \in {"supersedes", "superseded_by"}
    BY <1>2, <1>6 DEF DanglingInDecision
  <2> QED BY <1>1, <2>1
<1> QED BY <1>3, <1>4, <1>5, <1>6

LEMMA FieldsNamed ==
  ASSUME NEW x, NEW n, NEW m
  PROVE  /\ m \in DanglingInFields(x, n) => m[1] # "stale.source"
         /\ m \in Missing("allowed_libraries", Names[n].allowed_libraries, x.libraries) =>
              m[1] # "stale.source"
<1>1. \A field, named, held : m \in Missing(field, named, held) => m[1] = field
  BY DEF Missing
<1>2. ASSUME m \in DanglingInFields(x, n)
      PROVE  m[1] \in {"exports", "ui_refs", "registry_ref", "anchor", "members"}
  BY <1>1, <1>2 DEF DanglingInFields
<1>3. ASSUME m \in Missing("allowed_libraries", Names[n].allowed_libraries, x.libraries)
      PROVE  m[1] = "allowed_libraries"
  BY <1>1, <1>3
<1> QED BY <1>2, <1>3

(* QuarantineIsLinted: the loader's list and the linter's, which are kept   *)
(* apart, hold the same references of what is live and of its kind, but for *)
(* the source of a stale mark, which the loader never looks for.            *)
THEOREM QuarantineHolds == Spec => []QuarantineIsLinted
<1>1. QuarantineIsLinted
  <2> DEFINE Q == {q \in ResolveReferences(g) : OfItsKind(q) /\ \A e \in q.edge : e.live}
             R == {r \in Rows(g) : r[2][1] # "stale.source"}
  <2>1. ASSUME NEW n \in g.nodes, NEW m, m \in EnvelopeProblems(g, n)
        PROVE  <<n, m>> \in R
    <3>1. m \in DanglingInEnvelope(g, n) /\ m[1] # "stale.source"
      BY <2>1, EnvelopesAgree
    <3>2. <<n, m>> \in Rows(g)
      BY <3>1, RowsOf
    <3> QED BY <3>1, <3>2
  <2>2. ASSUME NEW n \in g.nodes, NEW m, m \in FieldProblems(g, n), OfItsKind(Quarantine(n, {}, m))
        PROVE  <<n, m>> \in R
    <3>1. \/ m \in DanglingInFields(g, n)
          \/ /\ Kind[n] = "module"
             /\ m \in Missing("allowed_libraries", Names[n].allowed_libraries, g.libraries)
      BY <2>2, FieldsAgree
    <3>2. CASE m \in DanglingInFields(g, n)
      <4>1. <<n, m>> \in Rows(g)
        BY <3>2, RowsOf
      <4> QED BY <4>1, <3>2, FieldsNamed
    <3>3. CASE /\ Kind[n] = "module"
               /\ m \in Missing("allowed_libraries", Names[n].allowed_libraries, g.libraries)
      <4>1. n \in NodesOfKind(g, "module")
        BY <3>3 DEF NodesOfKind
      <4>2. <<n, m>> \in Rows(g)
        BY <4>1, <3>3, RowsOf
      <4> QED BY <4>2, <3>3, FieldsNamed
    <3> QED BY <3>1, <3>2, <3>3
  <2>3. ASSUME NEW e \in g.edges, e.live, NEW m, m \in EdgeProblems(g, e)
        PROVE  <<e.from, m>> \in R
    <3>1. e \in LiveEdges(g) /\ m \in DanglingEnd(g, e)
      BY <2>3, EndsAgree DEF LiveEdges
    <3>2. <<e.from, m>> \in Rows(g)
      BY <3>1, RowsOf
    <3> QED BY <3>1, <3>2, NamedByNoKind
  <2>4. ASSUME NEW s \in g.screens, NEW m, m \in Missing("backed_by", BackedBy[s], g.nodes)
        PROVE  <<s, m>> \in R
    <3>1. <<s, m>> \in Rows(g)
      BY <2>4, RowsOf
    <3> QED BY <2>4, <3>1, NamedByNoKind
  <2>5. ASSUME NEW f \in Flows, NEW m, m \in Missing("steps", Steps[f], g.screens)
        PROVE  <<f, m>> \in R
    <3>1. <<f, m>> \in Rows(g)
      BY <2>5, RowsOf
    <3> QED BY <2>5, <3>1, NamedByNoKind
  <2>6. ASSUME NEW d \in g.decisions, NEW m, m \in SuccessionProblems(g, d)
        PROVE  <<d, m>> \in R
    <3>1. m \in DanglingInDecision(g, d)
      BY <2>6, SuccessionsAgree
    <3>2. <<d, m>> \in Rows(g)
      BY <3>1, RowsOf
    <3>3. m[1] # "stale.source"
      BY <3>1, NamedByNoKind
    <3> QED BY <3>2, <3>3
  <2>7. ASSUME NEW q \in Q PROVE <<q.owner, q.missing>> \in R
    <3> HIDE DEF R
    <3>1. q \in ResolveReferences(g) /\ OfItsKind(q) /\ \A e \in q.edge : e.live
      OBVIOUS
    <3>2. CASE \E n \in g.nodes : \E m \in EnvelopeProblems(g, n) : q = Quarantine(n, {}, m)
      BY <3>2, <2>1, QuarantineOf
    <3>3. CASE \E n \in g.nodes : \E m \in FieldProblems(g, n) : q = Quarantine(n, {}, m)
      BY <3>1, <3>3, <2>2, QuarantineOf
    <3>4. CASE \E e \in g.edges : \E m \in EdgeProblems(g, e) : q = Quarantine(e.from, {e}, m)
      <4>1. PICK e \in g.edges : \E m \in EdgeProblems(g, e) : q = Quarantine(e.from, {e}, m)
        BY <3>4
      <4>2. PICK m \in EdgeProblems(g, e) : q = Quarantine(e.from, {e}, m)
        BY <4>1
      <4>3. q.owner = e.from /\ q.missing = m /\ q.edge = {e}
        BY <4>2, QuarantineOf
      <4>4. e.live
        BY <3>1, <4>3
      <4> QED BY <4>3, <4>4, <2>3
    <3>5. CASE \E s \in g.screens : \E m \in Missing("backed_by", BackedBy[s], g.nodes) :
                 q = Quarantine(s, {}, m)
      BY <3>5, <2>4, QuarantineOf
    <3>6. CASE \E f \in Flows : \E m \in Missing("steps", Steps[f], g.screens) :
                 q = Quarantine(f, {}, m)
      BY <3>6, <2>5, QuarantineOf
    <3>7. CASE \E d \in g.decisions : \E m \in SuccessionProblems(g, d) : q = Quarantine(d, {}, m)
      BY <3>7, <2>6, QuarantineOf
    <3>8. \/ \E n \in g.nodes : \E m \in EnvelopeProblems(g, n) : q = Quarantine(n, {}, m)
          \/ \E n \in g.nodes : \E m \in FieldProblems(g, n) : q = Quarantine(n, {}, m)
          \/ \E e \in g.edges : \E m \in EdgeProblems(g, e) : q = Quarantine(e.from, {e}, m)
          \/ \E s \in g.screens : \E m \in Missing("backed_by", BackedBy[s], g.nodes) :
               q = Quarantine(s, {}, m)
          \/ \E f \in Flows : \E m \in Missing("steps", Steps[f], g.screens) :
               q = Quarantine(f, {}, m)
          \/ \E d \in g.decisions : \E m \in SuccessionProblems(g, d) : q = Quarantine(d, {}, m)
      BY ONLY <3>1, Resolved, SMTT(90)
    <3> QED BY <3>2, <3>3, <3>4, <3>5, <3>6, <3>7, <3>8
  <2>8. ASSUME NEW r \in R PROVE \E q \in Q : r = <<q.owner, q.missing>>
    <3>0. r \in Rows(g) /\ r[2][1] # "stale.source"
      OBVIOUS
    <3>1. ASSUME NEW n, NEW E, NEW m, Quarantine(n, E, m) \in ResolveReferences(g),
                 OfItsKind(Quarantine(n, E, m)), \A e \in E : e.live, r = <<n, m>>
          PROVE  \E q \in Q : r = <<q.owner, q.missing>>
      <4> DEFINE q == Quarantine(n, E, m)
      <4>1. q.owner = n /\ q.missing = m /\ q.edge = E
        BY QuarantineOf
      <4>2. q \in ResolveReferences(g) /\ OfItsKind(q) /\ \A e \in q.edge : e.live
        BY <3>1, <4>1
      <4> HIDE DEF q
      <4>3. q \in Q
        BY <4>2
      <4> HIDE DEF Q
      <4> QED BY <4>1, <4>3, <3>1
    <3> HIDE DEF Q
    <3>2. CASE \E n \in g.nodes : \E m \in DanglingInEnvelope(g, n) : r = <<n, m>>
      <4>1. PICK n \in g.nodes : \E m \in DanglingInEnvelope(g, n) : r = <<n, m>>
        BY <3>2
      <4>2. PICK m \in DanglingInEnvelope(g, n) : r = <<n, m>>
        BY <4>1
      <4>3. m \in EnvelopeProblems(g, n)
        BY <3>0, <4>2, EnvelopesAgree
      <4>4. Quarantine(n, {}, m) \in ResolveReferences(g)
        BY <4>3, Resolved
      <4>5. OfItsKind(Quarantine(n, {}, m))
        BY NamedByNoKind, OfNoKind
      <4> QED BY <4>2, <4>4, <4>5, <3>1
    <3>3. ASSUME NEW n \in g.nodes, NEW m, r = <<n, m>>,
                 \/ m \in DanglingInFields(g, n)
                 \/ /\ Kind[n] = "module"
                    /\ m \in Missing("allowed_libraries", Names[n].allowed_libraries, g.libraries)
          PROVE  \E q \in Q : r = <<q.owner, q.missing>>
      <4>1. m \in FieldProblems(g, n) /\ OfItsKind(Quarantine(n, {}, m))
        BY <3>3, FieldsAgree
      <4>2. Quarantine(n, {}, m) \in ResolveReferences(g)
        BY <4>1, Resolved
      <4> QED BY <4>1, <4>2, <3>1, <3>3
    <3>4. CASE \E n \in NodesOfKind(g, "module") :
                 \E m \in Missing("allowed_libraries", Names[n].allowed_libraries, g.libraries) :
                   r = <<n, m>>
      BY <3>4, <3>3 DEF NodesOfKind
    <3>5. CASE \E n \in g.nodes : \E m \in DanglingInFields(g, n) : r = <<n, m>>
      BY <3>5, <3>3
    <3>6. CASE \E e \in LiveEdges(g) : \E m \in DanglingEnd(g, e) : r = <<e.from, m>>
      <4>1. PICK e \in LiveEdges(g) : \E m \in DanglingEnd(g, e) : r = <<e.from, m>>
        BY <3>6
      <4>2. PICK m \in DanglingEnd(g, e) : r = <<e.from, m>>
        BY <4>1
      <4>3. e \in g.edges /\ e.live /\ m \in EdgeProblems(g, e)
        BY EndsAgree DEF LiveEdges
      <4>4. Quarantine(e.from, {e}, m) \in ResolveReferences(g)
        BY <4>3, Resolved
      <4>5. OfItsKind(Quarantine(e.from, {e}, m))
        BY NamedByNoKind, OfNoKind
      <4>6. \A d \in {e} : d.live
        BY <4>3
      <4> QED BY <4>2, <4>4, <4>5, <4>6, <3>1
    <3>7. ASSUME NEW n, NEW m, r = <<n, m>>, Quarantine(n, {}, m) \in ResolveReferences(g),
                 m[1] \notin DOMAIN KindOf
          PROVE  \E q \in Q : r = <<q.owner, q.missing>>
      BY <3>7, <3>1, OfNoKind
    <3>8. CASE \E s \in g.screens : \E m \in Missing("backed_by", BackedBy[s], g.nodes) : r = <<s, m>>
      <4>1. PICK s \in g.screens : \E m \in Missing("backed_by", BackedBy[s], g.nodes) : r = <<s, m>>
        BY <3>8
      <4>2. PICK m \in Missing("backed_by", BackedBy[s], g.nodes) : r = <<s, m>>
        BY <4>1
      <4>3. Quarantine(s, {}, m) \in ResolveReferences(g)
        BY Resolved
      <4> QED BY <4>2, <4>3, <3>7, NamedByNoKind
    <3>9. CASE \E f \in Flows : \E m \in Missing("steps", Steps[f], g.screens) : r = <<f, m>>
      <4>1. PICK f \in Flows : \E m \in Missing("steps", Steps[f], g.screens) : r = <<f, m>>
        BY <3>9
      <4>2. PICK m \in Missing("steps", Steps[f], g.screens) : r = <<f, m>>
        BY <4>1
      <4>3. Quarantine(f, {}, m) \in ResolveReferences(g)
        BY Resolved
      <4> QED BY <4>2, <4>3, <3>7, NamedByNoKind
    <3>10. CASE \E d \in g.decisions : \E m \in DanglingInDecision(g, d) : r = <<d, m>>
      <4>1. PICK d \in g.decisions : \E m \in DanglingInDecision(g, d) : r = <<d, m>>
        BY <3>10
      <4>2. PICK m \in DanglingInDecision(g, d) : r = <<d, m>>
        BY <4>1
      <4>3. m \in SuccessionProblems(g, d)
        BY SuccessionsAgree
      <4>4. Quarantine(d, {}, m) \in ResolveReferences(g)
        BY <4>3, Resolved
      <4>5. m[1] \notin DOMAIN KindOf
        BY NamedByNoKind
      <4> QED BY <4>2, <4>4, <4>5, <3>7
    <3> QED BY <3>0, <3>2, <3>4, <3>5, <3>6, <3>8, <3>9, <3>10, RowsOf
  <2> HIDE DEF Q, R
  <2>9. {<<q.owner, q.missing>> : q \in Q} = R
    BY <2>7, <2>8
  <2> QED BY <2>9 DEF QuarantineIsLinted, Quarantined, Q, R
<1> QED BY <1>1, PTL

-----------------------------------------------------------------------------
(* Rotations and paths *)

LEMMA GreatestExists ==
  ASSUME NEW N \in Nat, NEW S \in SUBSET (0..N), S # {}
  PROVE  \E n \in S : \A m \in S : m <= n
<1> DEFINE D == {N - m : m \in S}
<1>1. D \subseteq Nat /\ D # {}
  <2>1. \A m \in S : N - m \in Nat
    OBVIOUS
  <2> QED BY <2>1
<1>2. PICK d \in D : \A e \in D : d <= e
  BY <1>1, LeastExists
<1>3. PICK n \in S : d = N - n
  BY <1>2
<1>4. \A m \in S : m <= n
  <2> TAKE m \in S
  <2>1. N - m \in D
    OBVIOUS
  <2>2. N - n <= N - m
    BY <1>2, <1>3, <2>1
  <2> QED BY <2>2
<1> QED BY <1>4

LEMMA SubSeqItems ==
  ASSUME NEW s \in Seq(Ids), NEW k \in 1..Len(s)
  PROVE  /\ SubSeq(s, k, Len(s)) \in Seq(Ids)
         /\ Len(SubSeq(s, k, Len(s))) = Len(s) - k + 1
         /\ \A i \in 1..(Len(s) - k + 1) : SubSeq(s, k, Len(s))[i] = s[k + i - 1]
         /\ SubSeq(s, 1, k - 1) \in Seq(Ids)
         /\ Len(SubSeq(s, 1, k - 1)) = k - 1
         /\ \A i \in 1..(k - 1) : SubSeq(s, 1, k - 1)[i] = s[i]
OBVIOUS

LEMMA Concatenated ==
  ASSUME NEW a \in Seq(Ids), NEW b \in Seq(Ids)
  PROVE  /\ a \o b \in Seq(Ids) /\ Len(a \o b) = Len(a) + Len(b)
         /\ Len(a) \in Nat /\ Len(b) \in Nat
         /\ DOMAIN (a \o b) = 1..(Len(a) + Len(b))
         /\ \A i \in 1..Len(a) : (a \o b)[i] = a[i]
         /\ \A i \in 1..Len(b) : (a \o b)[Len(a) + i] = b[i]
OBVIOUS

LEMMA Rotated ==
  ASSUME NEW s \in Seq(Ids), NEW k \in 1..Len(s),
         NEW t, t = SubSeq(s, k, Len(s)) \o SubSeq(s, 1, k - 1)
  PROVE  /\ t \in Seq(Ids) /\ Len(t) = Len(s) /\ t[1] = s[k]
         /\ ToSet(t) = ToSet(s)
<1> DEFINE a == SubSeq(s, k, Len(s))
           b == SubSeq(s, 1, k - 1)
<1>1. /\ a \in Seq(Ids) /\ Len(a) = Len(s) - k + 1
      /\ \A i \in 1..(Len(s) - k + 1) : a[i] = s[k + i - 1]
      /\ b \in Seq(Ids) /\ Len(b) = k - 1
      /\ \A i \in 1..(k - 1) : b[i] = s[i]
  BY SubSeqItems
<1>2. t = a \o b
  OBVIOUS
<1>3. Len(s) \in Nat /\ DOMAIN s = 1..Len(s)
  OBVIOUS
<1> HIDE DEF a, b
<1>10. /\ a \o b \in Seq(Ids) /\ Len(a \o b) = Len(a) + Len(b)
       /\ Len(a) \in Nat /\ Len(b) \in Nat
       /\ DOMAIN (a \o b) = 1..(Len(a) + Len(b))
       /\ \A i \in 1..Len(a) : (a \o b)[i] = a[i]
       /\ \A i \in 1..Len(b) : (a \o b)[Len(a) + i] = b[i]
  BY <1>1, Concatenated
<1>11. Len(a) + Len(b) = Len(s)
  BY <1>1, <1>3
<1>4. /\ t \in Seq(Ids) /\ Len(t) = Len(s) /\ DOMAIN t = 1..Len(s)
      /\ \A i \in 1..Len(a) : t[i] = a[i]
      /\ \A i \in 1..Len(b) : t[Len(a) + i] = b[i]
  BY <1>2, <1>10, <1>11
<1>5. \A i \in 1..(Len(s) - k + 1) : t[i] = s[k + i - 1]
  BY <1>1, <1>4
<1>6. \A i \in 1..(k - 1) : t[(Len(s) - k + 1) + i] = s[i]
  BY <1>1, <1>4
<1>7. t[1] = s[k]
  BY <1>5, <1>3
<1>8. ASSUME NEW y \in ToSet(t) PROVE y \in ToSet(s)
  <2>1. PICK i \in 1..Len(s) : y = t[i]
    BY <1>4 DEF ToSet
  <2>2. CASE i <= Len(s) - k + 1
    <3>1. k + i - 1 \in DOMAIN s /\ t[i] = s[k + i - 1]
      BY <2>2, <1>3, <1>5
    <3> QED BY <3>1, <2>1 DEF ToSet
  <2>3. CASE i > Len(s) - k + 1
    <3>1. i - (Len(s) - k + 1) \in 1..(k - 1) /\ (Len(s) - k + 1) + (i - (Len(s) - k + 1)) = i
      BY <2>3, <1>3
    <3>2. t[i] = s[i - (Len(s) - k + 1)]
      BY <3>1, <1>6
    <3>3. i - (Len(s) - k + 1) \in DOMAIN s
      BY <3>1, <1>3
    <3> QED BY <3>2, <3>3, <2>1 DEF ToSet
  <2> QED BY <2>2, <2>3, <1>3
<1>9. ASSUME NEW y \in ToSet(s) PROVE y \in ToSet(t)
  <2>1. PICK i \in 1..Len(s) : y = s[i]
    BY <1>3 DEF ToSet
  <2>2. CASE i >= k
    <3>1. i - k + 1 \in 1..(Len(s) - k + 1) /\ k + (i - k + 1) - 1 = i
      BY <2>2, <1>3
    <3>2. t[i - k + 1] = s[i] /\ i - k + 1 \in DOMAIN t
      BY <3>1, <1>3, <1>4, <1>5
    <3> QED BY <3>2, <2>1 DEF ToSet
  <2>3. CASE i < k
    <3>1. i \in 1..(k - 1) /\ (Len(s) - k + 1) + i \in DOMAIN t
      BY <2>3, <1>3, <1>4
    <3> QED BY <3>1, <1>6, <2>1 DEF ToSet
  <2> QED BY <2>2, <2>3, <1>3
<1> QED BY <1>4, <1>7, <1>8, <1>9

LEMMA SlugTyped ==
  ASSUME NEW x \in Trees, NEW n \in Ids
  PROVE  Slug(x, n) \in Nat
<1>1. Cardinality(Ids) \in Nat
  BY IdsFinite, FS_CardinalityType
<1>2. SlugRank[n] \in Nat
  BY LintAssumption
<1> QED BY <1>1, <1>2, IdsFinite DEF Slug

(* A cycle can be led by each of its nodes; it stays the same cycle.        *)
LEMMA RotationKeeps ==
  ASSUME NEW x \in Trees, NEW s \in Seq(Ids), s # <<>>
  PROVE  /\ RotateToLowestSlug(x, s) \in Seq(Ids)
         /\ RotateToLowestSlug(x, s)[1] \in ToSet(s)
         /\ ToSet(RotateToLowestSlug(x, s)) = ToSet(s)
<1> DEFINE Leads(i) == \A j \in DOMAIN s :
              \/ Slug(x, s[i]) < Slug(x, s[j])
              \/ (Slug(x, s[i]) = Slug(x, s[j]) /\ i <= j)
           k == CHOOSE i \in DOMAIN s : Leads(i)
<1>1. DOMAIN s = 1..Len(s) /\ Len(s) \in Nat \ {0}
  OBVIOUS
<1>2. \A i \in DOMAIN s : Slug(x, s[i]) \in Nat
  BY SlugTyped
<1> DEFINE L == {Slug(x, s[i]) : i \in DOMAIN s}
<1>3. PICK l \in L : \A m \in L : l <= m
  <2>1. L \subseteq Nat /\ L # {}
    BY <1>1, <1>2
  <2> HIDE DEF L
  <2> QED BY <2>1, LeastExists
<1> DEFINE J == {i \in DOMAIN s : Slug(x, s[i]) = l}
<1>4. PICK i \in J : \A j \in J : i <= j
  <2>1. J \subseteq Nat /\ J # {}
    BY <1>1
  <2> HIDE DEF J
  <2> QED BY <2>1, LeastExists
<1>5. i \in DOMAIN s /\ Slug(x, s[i]) = l /\ l \in Nat
  BY <1>2
<1>6. ASSUME NEW j \in DOMAIN s
      PROVE  \/ Slug(x, s[i]) < Slug(x, s[j])
             \/ (Slug(x, s[i]) = Slug(x, s[j]) /\ i <= j)
  <2>1. l <= Slug(x, s[j]) /\ Slug(x, s[j]) \in Nat
    BY <1>2, <1>3
  <2>2. CASE l = Slug(x, s[j])
    BY <2>2, <1>4, <1>5
  <2>3. CASE l < Slug(x, s[j])
    BY <2>3, <1>5
  <2> QED BY <2>1, <2>2, <2>3, <1>5
<1>7. \E m \in DOMAIN s : Leads(m)
  BY <1>5, <1>6
<1>8. k \in 1..Len(s)
  <2> HIDE DEF Leads
  <2> QED BY <1>1, <1>7
<1>9. RotateToLowestSlug(x, s) = SubSeq(s, k, Len(s)) \o SubSeq(s, 1, k - 1)
  BY DEF RotateToLowestSlug
<1> HIDE DEF k
<1>10. s[k] \in ToSet(s)
  BY <1>1, <1>8 DEF ToSet
<1> QED BY <1>8, <1>9, <1>10, Rotated

-----------------------------------------------------------------------------
(* Cycles of parents *)

(* A node that is above itself has above it what those above it have.      *)
LEMMA OverLoop ==
  ASSUME NEW up \in Ways, NEW n \in Ids, n \in Over(up, n), NEW m \in Over(up, n)
  PROVE  m \in Ids /\ n \in Over(up, m) /\ Over(up, m) = Over(up, n)
<1> DEFINE T == {y \in Over(up, n) : n \in Over(up, y)}
<1>1. /\ Over(up, n) \in SUBSET Ids
      /\ up[n] \in Over(up, n) \cup {None}
      /\ \A y \in Over(up, n) : up[y] \in Over(up, n) \cup {None}
  BY OverIsLeast
<1>2. ASSUME NEW y \in Ids, n \in Over(up, y), up[y] \in Over(up, n)
      PROVE  n \in Over(up, up[y])
  <2> DEFINE z == up[y]
             S == {z} \cup Over(up, z)
  <2>1. z \in Ids
    BY <1>1, <1>2
  <2> HIDE DEF z
  <2>2. S \in SUBSET Ids /\ z \in S /\ \A v \in S : up[v] \in S \cup {None}
    BY <2>1, OverIsLeast
  <2>3. up[y] \in S \cup {None}
    BY <2>2 DEF z
  <2>4. Over(up, y) \subseteq S
    <3> HIDE DEF S
    <3> QED BY <2>2, <2>3, OverWithin
  <2>5. n = z \/ n \in Over(up, z)
    BY <2>4, <1>2
  <2>6. n \in Over(up, z)
    BY <2>5
  <2> QED BY <2>6 DEF z
<1>3. T \in SUBSET Ids
  BY <1>1
<1>4. up[n] \in T \cup {None}
  BY <1>1, <1>2
<1>5. \A y \in T : up[y] \in T \cup {None}
  BY <1>1, <1>2
<1>6. Over(up, n) \subseteq T
  <2> HIDE DEF T
  <2> QED BY <1>3, <1>4, <1>5, OverWithin
<1>7. m \in Ids /\ n \in Over(up, m)
  BY <1>1, <1>6
<1>8. m # None /\ n # None
  BY <1>7, IdsFinite
<1>9. Over(up, m) \subseteq Over(up, n)
  BY <1>8, OverParent
<1>10. Over(up, n) \subseteq Over(up, m)
  BY <1>7, <1>8, OverParent
<1> QED BY <1>7, <1>9, <1>10

(* Nodes that lead around to the first of them.                             *)
Round(up, s) ==
  /\ s \in Seq(Ids) /\ s # <<>>
  /\ \A i \in 1..Len(s) : up[s[i]] = IF i = Len(s) THEN s[1] ELSE s[i + 1]

LEMMA RoundIsOver ==
  ASSUME NEW up \in Ways, NEW s, Round(up, s)
  PROVE  /\ ToSet(s) = Over(up, s[1]) /\ s[1] \in ToSet(s)
         /\ \A m \in ToSet(s) : Over(up, m) = ToSet(s)
<1> DEFINE K == ToSet(s)
           O == Over(up, s[1])
<1>1. s \in Seq(Ids) /\ s # <<>> /\ Len(s) \in Nat \ {0} /\ DOMAIN s = 1..Len(s)
  BY DEF Round
<1>12. Len(s) \in Nat \ {0}
  BY <1>1
<1>2. \A i \in 1..Len(s) : s[i] \in Ids /\ s[i] \in K /\ s[i] # None
  BY <1>1, IdsFinite DEF ToSet
<1>3. \A i \in 1..Len(s) : up[s[i]] = IF i = Len(s) THEN s[1] ELSE s[i + 1]
  BY DEF Round
<1>4. s[1] \in Ids /\ s[1] \in K
  BY <1>1, <1>2
<1>5. /\ O \in SUBSET Ids
      /\ up[s[1]] \in O \cup {None}
      /\ \A m \in O : up[m] \in O \cup {None}
  BY <1>4, OverIsLeast
<1>6. ASSUME NEW m \in K PROVE up[m] \in K
  <2>1. PICK i \in 1..Len(s) : m = s[i]
    BY <1>1 DEF ToSet
  <2>2. i = Len(s) \/ i + 1 \in 1..Len(s)
    BY <1>12
  <2> QED BY <2>1, <2>2, <1>2, <1>3, <1>4
<1>7. O \subseteq K
  <2>1. K \in SUBSET Ids
    BY <1>1, ToSetTyped
  <2> HIDE DEF K
  <2> QED BY <1>4, <1>6, <2>1, OverWithin
<1> HIDE DEF O, K
<1> DEFINE J == {i \in 2..Len(s) : s[i] \notin O}
<1>8. J = {}
  <2> SUFFICES ASSUME J # {} PROVE FALSE
    OBVIOUS
  <2>1. PICK j \in J : \A i \in J : j <= i
    <3>1. J \subseteq Nat
      OBVIOUS
    <3> HIDE DEF J
    <3> QED BY <3>1, LeastExists
  <2>2. j \in 2..Len(s) /\ s[j] \notin O /\ j - 1 \in 1..Len(s) /\ (j - 1) + 1 = j /\ j - 1 # Len(s)
    BY <2>1, <1>1
  <2>3. up[s[j - 1]] = s[j] /\ s[j] \in Ids /\ s[j] # None
    <3>1. up[s[j - 1]] = s[j]
      BY <2>2, <1>3
    <3>2. j \in 1..Len(s)
      BY <2>2
    <3> QED BY <3>1, <3>2, <1>2
  <2>4. CASE j = 2
    BY <2>2, <2>3, <2>4, <1>5
  <2>5. CASE j # 2
    <3>1. j - 1 \in 2..Len(s) /\ j - 1 \notin J
      BY <2>1, <2>2, <2>5
    <3> QED BY <3>1, <2>2, <2>3, <1>5
  <2> QED BY <2>4, <2>5
<1>9. s[1] \in O
  <2>1. Len(s) \in 1..Len(s)
    BY <1>12
  <2>4. up[s[Len(s)]] = s[1]
    BY <2>1, <1>3
  <2>2. CASE Len(s) = 1
    BY <2>1, <2>2, <2>4, <1>2, <1>5
  <2>3. CASE Len(s) # 1
    <3>1. Len(s) \in 2..Len(s)
      BY <2>3, <1>1
    <3>2. s[Len(s)] \in O
      BY <3>1, <1>8
    <3> QED BY <3>2, <2>1, <2>4, <1>2, <1>4, <1>5
  <2> QED BY <2>2, <2>3
<1>10. K \subseteq O
  <2>1. ASSUME NEW m \in K PROVE m \in O
    <3>1. PICK i \in 1..Len(s) : m = s[i]
      BY <1>1 DEF ToSet, K
    <3>2. i = 1 \/ i \in 2..Len(s)
      BY <1>1
    <3> QED BY <3>1, <3>2, <1>8, <1>9
  <2> QED BY <2>1
<1>11. \A m \in K : Over(up, m) = K
  <2> TAKE m \in K
  <2>1. m \in Over(up, s[1])
    BY <1>10 DEF O
  <2>2. Over(up, m) = Over(up, s[1])
    BY <2>1, <1>4, <1>9, OverLoop DEF O
  <2> QED BY <2>2, <1>7, <1>10 DEF O
<1> QED BY <1>4, <1>7, <1>10, <1>11 DEF K, O

(* Where a climb meets its own chain, the chain goes round from there on.   *)
LEMMA RoundFrom ==
  ASSUME NEW up \in Ways, NEW chain \in Seq(Ids), NEW at \in ToSet(chain),
         \A i \in DOMAIN chain :
           up[chain[i]] = IF i = Len(chain) THEN at ELSE chain[i + 1]
  PROVE  /\ Round(up, From(chain, at))
         /\ ToSet(From(chain, at)) \subseteq ToSet(chain)
         /\ \E k \in DOMAIN chain : /\ chain[k] = at
              /\ \A i \in DOMAIN chain : i >= k => chain[i] \in ToSet(From(chain, at))
<1> DEFINE k == CHOOSE i \in DOMAIN chain : chain[i] = at
           s == From(chain, at)
<1>1. DOMAIN chain = 1..Len(chain) /\ Len(chain) \in Nat
  BY ToSetTyped
<1>2. k \in DOMAIN chain /\ chain[k] = at
  <2>1. \E i \in DOMAIN chain : chain[i] = at
    BY DEF ToSet
  <2> QED BY <2>1
<1>3. s = SubSeq(chain, k, Len(chain))
  BY DEF From
<1> HIDE DEF k
<1>4. /\ s \in Seq(Ids) /\ Len(s) = Len(chain) - k + 1
      /\ \A i \in 1..(Len(chain) - k + 1) : s[i] = chain[k + i - 1]
  BY <1>1, <1>2, <1>3, SubSeqItems
<1> HIDE DEF s
<1>5. Len(s) \in Nat \ {0} /\ s # <<>> /\ DOMAIN s = 1..Len(s)
  BY <1>1, <1>2, <1>4
<1>12. Len(s) \in Nat /\ k \in Nat /\ Len(chain) \in Nat /\ Len(s) = Len(chain) - k + 1
  BY <1>1, <1>2, <1>4, <1>5
<1>6. \A i \in 1..Len(s) : s[i] = chain[k + i - 1] /\ k + i - 1 \in DOMAIN chain
  BY <1>1, <1>2, <1>4
<1>7. s[1] = at
  <2>1. s[1] = chain[k + 1 - 1] /\ k + 1 - 1 = k
    BY <1>1, <1>2, <1>5, <1>6
  <2> QED BY <2>1, <1>2
<1>8. ASSUME NEW i \in 1..Len(s)
      PROVE  up[s[i]] = IF i = Len(s) THEN s[1] ELSE s[i + 1]
  <2> DEFINE j == k + i - 1
  <2>1. j \in DOMAIN chain /\ s[i] = chain[j] /\ j \in Int /\ i \in Nat
    BY <1>6, <1>12
  <2>2. j = Len(chain) <=> i = Len(s)
    BY <1>12
  <2>3. k + (i + 1) - 1 = j + 1
    BY <1>12
  <2> HIDE DEF j
  <2>4. up[chain[j]] = IF j = Len(chain) THEN at ELSE chain[j + 1]
    BY <2>1
  <2>5. i # Len(s) => i + 1 \in 1..Len(s)
    BY <1>12
  <2>6. i # Len(s) => s[i + 1] = chain[j + 1]
    BY <2>3, <2>5, <1>6
  <2> QED BY <2>1, <2>2, <2>4, <2>6, <1>7
<1>9. Round(up, s)
  BY <1>4, <1>5, <1>8 DEF Round
<1>10. ToSet(s) \subseteq ToSet(chain)
  BY <1>5, <1>6 DEF ToSet
<1>11. ASSUME NEW i \in DOMAIN chain, i >= k PROVE chain[i] \in ToSet(s)
  <2>1. i - k + 1 \in 1..Len(s) /\ k + (i - k + 1) - 1 = i
    BY <1>1, <1>2, <1>4, <1>11
  <2>2. s[i - k + 1] = chain[i]
    BY <2>1, <1>6
  <2> QED BY <2>1, <2>2, <1>5 DEF ToSet
<1> QED BY <1>2, <1>9, <1>10, <1>11 DEF s
-----------------------------------------------------------------------------
(* Each cycle of parents is found once *)

Closed(up, T) == \A m \in T : up[m] \in T \cup {None}
Looped(up, n) == n \in Over(up, n)

(* What holds of the cycles that are found among the settled nodes.         *)
Disjoint(cycles) ==
  \A c, d \in cycles : ToSet(c) \cap ToSet(d) # {} => c = d
Around(up, settled, c) ==
  /\ c \in Seq(Ids) /\ c # <<>> /\ ToSet(c) \subseteq settled
  /\ \A m \in ToSet(c) : Over(up, m) = ToSet(c)
Covered(up, settled, cycles) ==
  \A n \in settled : Looped(up, n) => \E c \in cycles : n \in ToSet(c)
Chasing(x, w) ==
  /\ Closed(Up(x), w.settled)
  /\ x.nodes \subseteq w.todo \cup w.settled
  /\ \A c \in w.cycles : Around(Up(x), w.settled, c)
  /\ Covered(Up(x), w.settled, w.cycles)
  /\ Disjoint(w.cycles)

(* A climb over what is not settled settles its chain.                      *)
LEMMA ChainSettles ==
  ASSUME NEW up \in Ways, NEW n \in Ids, NEW settled \in SUBSET Ids,
         Closed(up, settled), NEW c, Climbing(up, n, settled, c), Halts(settled, c)
  PROVE  /\ c.chain \in Seq(Ids) /\ ToSet(c.chain) \in SUBSET Ids
         /\ ToSet(c.chain) \cap settled = {}
         /\ c.at \in Ids \cup {None}
         /\ n \in settled \cup ToSet(c.chain)
         /\ Closed(up, settled \cup ToSet(c.chain))
         /\ \A i \in DOMAIN c.chain :
              up[c.chain[i]] = IF i = Len(c.chain) THEN c.at ELSE c.chain[i + 1]
<1>1. /\ c.chain \in Seq(Ids) /\ c.at \in Ids \cup {None}
      /\ ToSet(c.chain) \cap settled = {}
  BY DEF Climbing, Climbs
<1>2. /\ n = IF c.chain = <<>> THEN c.at ELSE c.chain[1]
      /\ \A i \in DOMAIN c.chain :
           up[c.chain[i]] = IF i = Len(c.chain) THEN c.at ELSE c.chain[i + 1]
  BY DEF Climbing, Linked
<1>3. ToSet(c.chain) \in SUBSET Ids /\ DOMAIN c.chain = 1..Len(c.chain) /\ Len(c.chain) \in Nat
  BY <1>1, ToSetTyped
<1>4. c.at \in settled \cup ToSet(c.chain) \cup {None}
  BY DEF Halts
<1>5. n \in settled \cup ToSet(c.chain)
  <2>1. CASE c.chain = <<>>
    <3>1. n = c.at /\ n # None
      BY <2>1, <1>2, IdsFinite
    <3> QED BY <3>1, <1>4
  <2>2. CASE c.chain # <<>>
    <3>1. 1 \in DOMAIN c.chain
      BY <2>2, <1>1
    <3> QED BY <3>1, <2>2, <1>2 DEF ToSet
  <2> QED BY <2>1, <2>2
<1>6. ASSUME NEW m \in ToSet(c.chain)
      PROVE  up[m] \in settled \cup ToSet(c.chain) \cup {None}
  <2>1. PICK i \in DOMAIN c.chain : m = c.chain[i]
    BY DEF ToSet
  <2>2. i # Len(c.chain) => i + 1 \in DOMAIN c.chain
    BY <1>3
  <2>3. i # Len(c.chain) => c.chain[i + 1] \in ToSet(c.chain)
    BY <2>2 DEF ToSet
  <2> QED BY <2>1, <2>3, <1>2, <1>4
<1>7. Closed(up, settled \cup ToSet(c.chain))
  BY <1>6 DEF Closed
<1> QED BY <1>1, <1>2, <1>3, <1>5, <1>7

(* What it passes before the cycle it meets is on none.                     *)
LEMMA PassedOver ==
  ASSUME NEW up \in Ways, NEW n \in Ids, NEW settled \in SUBSET Ids,
         Closed(up, settled), NEW c, Climbing(up, n, settled, c), Halts(settled, c),
         NEW i \in DOMAIN c.chain,
         \A j \in DOMAIN c.chain : j <= i => c.chain[j] # c.at
  PROVE  ~Looped(up, c.chain[i])
<1>1. /\ c.chain \in Seq(Ids) /\ ToSet(c.chain) \in SUBSET Ids
      /\ ToSet(c.chain) \cap settled = {}
      /\ \A k \in DOMAIN c.chain :
           up[c.chain[k]] = IF k = Len(c.chain) THEN c.at ELSE c.chain[k + 1]
  BY ChainSettles
<1>2. DOMAIN c.chain = 1..Len(c.chain) /\ Len(c.chain) \in Nat
  BY <1>1, ToSetTyped
<1>3. \A k, l \in DOMAIN c.chain : c.chain[k] = c.chain[l] => k = l
  BY DEF Climbing, IsInjective
<1> DEFINE Later == {c.chain[k] : k \in {l \in DOMAIN c.chain : l > i}}
           T == settled \cup Later
<1>4. T \in SUBSET Ids
  BY <1>1
<1>5. ASSUME NEW k \in DOMAIN c.chain, k >= i
      PROVE  up[c.chain[k]] \in T \cup {None}
  <2>1. CASE k # Len(c.chain)
    <3>1. k + 1 \in DOMAIN c.chain /\ k + 1 > i
      BY <2>1, <1>2, <1>5
    <3> QED BY <3>1, <2>1, <1>1
  <2>2. CASE k = Len(c.chain)
    <3>1. up[c.chain[k]] = c.at
      BY <2>2, <1>1
    <3>2. c.at \in settled \cup ToSet(c.chain) \cup {None}
      BY DEF Halts
    <3>3. ASSUME c.at \in ToSet(c.chain) PROVE c.at \in Later
      <4>1. PICK l \in DOMAIN c.chain : c.at = c.chain[l]
        BY <3>3 DEF ToSet
      <4>2. l > i
        <5>1. ~(l <= i)
          BY <4>1
        <5> QED BY <5>1, <1>2
      <4> QED BY <4>1, <4>2
    <3> QED BY <3>1, <3>2, <3>3
  <2> QED BY <2>1, <2>2
<1>6. \A m \in T : up[m] \in T \cup {None}
  <2> TAKE m \in T
  <2>1. CASE m \in settled
    BY <2>1 DEF Closed
  <2>2. CASE m \in Later
    <3>1. PICK k \in DOMAIN c.chain : k > i /\ m = c.chain[k]
      BY <2>2
    <3>2. k >= i
      BY <3>1, <1>2
    <3> QED BY <3>1, <3>2, <1>5
  <2> QED BY <2>1, <2>2
<1>7. c.chain[i] \notin T
  <2>1. c.chain[i] \in ToSet(c.chain)
    BY DEF ToSet
  <2>2. ASSUME NEW k \in DOMAIN c.chain, k > i PROVE c.chain[i] # c.chain[k]
    BY <2>2, <1>2, <1>3
  <2> QED BY <2>1, <2>2, <1>1
<1>8. c.chain[i] \in Ids /\ i >= i
  BY <1>1, <1>2
<1>9. Over(up, c.chain[i]) \subseteq T
  <2>1. up[c.chain[i]] \in T \cup {None}
    BY <1>5, <1>8
  <2> HIDE DEF T
  <2> QED BY <2>1, <1>4, <1>6, <1>8, OverWithin
<1> QED BY <1>7, <1>9 DEF Looped

LEMMA Chased ==
  ASSUME NEW x \in Trees, NEW w \in Chases, Chasing(x, w), w.todo # {}
  PROVE  /\ Chase(x, w) \in Chases /\ Chasing(x, Chase(x, w))
         /\ \E n \in w.todo : Chase(x, w).todo = w.todo \ {n}
<1> DEFINE up == Up(x)
           n == Least(w.todo)
           c == Climb(up, n, w.settled)
           cycle == RotateToLowestSlug(x, From(c.chain, c.at))
           settled == w.settled \cup ToSet(c.chain)
           cycles == Reported(x, w.cycles, c)
<1>1. /\ w.todo \in SUBSET Ids /\ w.settled \in SUBSET Ids
      /\ w.cycles \in SUBSET Seq(Ids)
  BY DEF Chases
<1>2. n \in w.todo /\ n \in Ids
  BY <1>1, LeastIn
<1>3. up \in Ways
  BY UpTyped
<1>4. Chase(x, w) = [todo |-> w.todo \ {n}, settled |-> settled, cycles |-> cycles]
  BY DEF Chase
<1> HIDE DEF n
<1>5. Climbing(up, n, w.settled, c) /\ Halts(w.settled, c)
  <2> HIDE DEF up
  <2> QED BY <1>1, <1>2, <1>3, Climbed
<1>6. Closed(up, w.settled)
  BY DEF Chasing
<1> HIDE DEF up, c
<1>7. /\ c.chain \in Seq(Ids) /\ ToSet(c.chain) \in SUBSET Ids
      /\ ToSet(c.chain) \cap w.settled = {}
      /\ c.at \in Ids \cup {None}
      /\ n \in settled
      /\ Closed(up, settled)
      /\ \A i \in DOMAIN c.chain :
           up[c.chain[i]] = IF i = Len(c.chain) THEN c.at ELSE c.chain[i + 1]
  BY <1>1, <1>2, <1>3, <1>5, <1>6, ChainSettles
<1>8. x.nodes \subseteq (w.todo \ {n}) \cup settled
  BY <1>7 DEF Chasing
<1>9. \A d \in w.cycles : Around(up, w.settled, d) /\ Around(up, settled, d)
  <2>1. \A d \in w.cycles : Around(up, w.settled, d)
    BY DEF Chasing, up
  <2> QED BY <2>1 DEF Around
<1>10. ASSUME NEW m \in w.settled, Looped(up, m)
       PROVE  \E d \in w.cycles : m \in ToSet(d)
  BY <1>10 DEF Chasing, Covered, up
<1>11. Disjoint(w.cycles)
  BY DEF Chasing
<1>12. CASE c.at \notin ToSet(c.chain)
  <2>1. cycles = w.cycles
    BY <1>12 DEF Reported
  <2>2. Covered(up, settled, cycles)
    <3>1. ASSUME NEW m \in ToSet(c.chain) PROVE ~Looped(up, m)
      <4>1. PICK i \in DOMAIN c.chain : m = c.chain[i]
        BY DEF ToSet
      <4>2. \A j \in DOMAIN c.chain : j <= i => c.chain[j] # c.at
        BY <1>12 DEF ToSet
      <4> QED BY <4>1, <4>2, <1>1, <1>2, <1>3, <1>5, <1>6, PassedOver
    <3> QED BY <3>1, <2>1, <1>10 DEF Covered
  <2>3. Chasing(x, [todo |-> w.todo \ {n}, settled |-> settled, cycles |-> cycles])
    BY <2>1, <2>2, <1>7, <1>8, <1>9, <1>11 DEF Chasing, up
  <2>4. [todo |-> w.todo \ {n}, settled |-> settled, cycles |-> cycles] \in Chases
    BY <2>1, <1>1, <1>7 DEF Chases
  <2> QED BY <2>3, <2>4, <1>2, <1>4
<1>13. CASE c.at \in ToSet(c.chain)
  <2> DEFINE s == From(c.chain, c.at)
  <2>1. /\ Round(up, s) /\ ToSet(s) \subseteq ToSet(c.chain)
        /\ \E k \in DOMAIN c.chain : /\ c.chain[k] = c.at
             /\ \A i \in DOMAIN c.chain : i >= k => c.chain[i] \in ToSet(s)
    BY <1>3, <1>7, <1>13, RoundFrom
  <2> HIDE DEF s
  <2>2. \A m \in ToSet(s) : Over(up, m) = ToSet(s)
    BY <2>1, <1>3, RoundIsOver
  <2>3. s \in Seq(Ids) /\ s # <<>>
    BY <2>1 DEF Round
  <2>4. cycle \in Seq(Ids) /\ cycle[1] \in ToSet(s) /\ ToSet(cycle) = ToSet(s)
    <3>1. cycle = RotateToLowestSlug(x, s)
      BY DEF s
    <3> HIDE DEF cycle
    <3> QED BY <3>1, <2>3, RotationKeeps
  <2>5. cycle # <<>>
    <3> HIDE DEF cycle
    <3>1. ToSet(cycle) # {}
      BY <2>4
    <3> QED BY <3>1 DEF ToSet
  <2> HIDE DEF cycle
  <2>6. \A d \in w.cycles : d[1] # cycle[1]
    <3> TAKE d \in w.cycles
    <3>1. d \in Seq(Ids) /\ d # <<>> /\ ToSet(d) \subseteq w.settled
      BY <1>9 DEF Around
    <3>2. 1 \in DOMAIN d
      BY <3>1
    <3>3. d[1] \in w.settled
      BY <3>1, <3>2 DEF ToSet
    <3> QED BY <3>3, <2>1, <2>4, <1>7
  <2>7. cycles = w.cycles \cup {cycle}
    BY <2>6, <1>13 DEF Reported, cycle
  <2>8. Around(up, settled, cycle)
    BY <2>1, <2>2, <2>4, <2>5 DEF Around
  <2>9. Covered(up, settled, cycles)
    <3>1. ASSUME NEW m \in ToSet(c.chain), Looped(up, m) PROVE m \in ToSet(cycle)
      <4>1. PICK i \in DOMAIN c.chain : m = c.chain[i]
        BY DEF ToSet
      <4>2. PICK k \in DOMAIN c.chain : /\ c.chain[k] = c.at
             /\ \A j \in DOMAIN c.chain : j >= k => c.chain[j] \in ToSet(s)
        BY <2>1
      <4>3. DOMAIN c.chain = 1..Len(c.chain) /\ Len(c.chain) \in Nat
        BY <1>7, ToSetTyped
      <4>4. CASE i >= k
        BY <4>1, <4>2, <4>4, <2>4
      <4>5. CASE i < k
        <5>1. \A j, l \in DOMAIN c.chain : c.chain[j] = c.chain[l] => j = l
          BY <1>5 DEF Climbing, IsInjective
        <5>2. ASSUME NEW j \in DOMAIN c.chain, j <= i PROVE c.chain[j] # c.at
          <6>1. j # k
            BY <5>2, <4>3, <4>5
          <6> QED BY <6>1, <5>1, <4>2
        <5>3. ~Looped(up, c.chain[i])
          BY <5>2, <1>1, <1>2, <1>3, <1>5, <1>6, PassedOver
        <5> QED BY <5>3, <4>1, <3>1
      <4> QED BY <4>3, <4>4, <4>5
    <3> QED BY <3>1, <2>7, <1>10 DEF Covered
  <2>10. Disjoint(cycles)
    <3>1. ASSUME NEW d \in w.cycles PROVE ToSet(d) \cap ToSet(cycle) = {}
      <4>1. ToSet(d) \subseteq w.settled
        BY <1>9 DEF Around
      <4> QED BY <4>1, <2>1, <2>4, <1>7
    <3> QED BY <3>1, <2>7, <1>11 DEF Disjoint
  <2>11. Chasing(x, [todo |-> w.todo \ {n}, settled |-> settled, cycles |-> cycles])
    BY <2>7, <2>8, <2>9, <2>10, <1>7, <1>8, <1>9 DEF Chasing, up
  <2>12. [todo |-> w.todo \ {n}, settled |-> settled, cycles |-> cycles] \in Chases
    BY <2>4, <2>7, <1>1, <1>7 DEF Chases
  <2> QED BY <2>11, <2>12, <1>2, <1>4
<1> QED BY <1>12, <1>13

LEMMA ChaseTyped ==
  ASSUME NEW x \in Trees, NEW w \in Chases, w.todo # {}
  PROVE  Chase(x, w) \in Chases
<1> DEFINE up == Up(x)
           n == Least(w.todo)
           c == Climb(up, n, w.settled)
           cycle == RotateToLowestSlug(x, From(c.chain, c.at))
           cycles == Reported(x, w.cycles, c)
<1>1. /\ w.todo \in SUBSET Ids /\ w.settled \in SUBSET Ids
      /\ w.cycles \in SUBSET Seq(Ids)
  BY DEF Chases
<1>2. n \in w.todo /\ n \in Ids
  BY <1>1, LeastIn
<1>3. up \in Ways
  BY UpTyped
<1>4. Chase(x, w) = [todo |-> w.todo \ {n}, settled |-> w.settled \cup ToSet(c.chain),
                     cycles |-> cycles]
  BY DEF Chase
<1> HIDE DEF n
<1>5. Climbing(up, n, w.settled, c)
  <2> HIDE DEF up
  <2> QED BY <1>1, <1>2, <1>3, Climbed
<1> HIDE DEF up, c
<1>6. c.chain \in Seq(Ids)
  BY <1>5 DEF Climbing, Climbs
<1>7. \A i \in DOMAIN c.chain :
        up[c.chain[i]] = IF i = Len(c.chain) THEN c.at ELSE c.chain[i + 1]
  BY <1>5 DEF Climbing, Linked
<1>8. ToSet(c.chain) \in SUBSET Ids
  BY <1>6, ToSetTyped
<1>9. c.at \in ToSet(c.chain) => cycle \in Seq(Ids)
  <2> SUFFICES ASSUME c.at \in ToSet(c.chain) PROVE cycle \in Seq(Ids)
    OBVIOUS
  <2> DEFINE s == From(c.chain, c.at)
  <2>1. Round(up, s)
    BY <1>3, <1>6, <1>7, RoundFrom
  <2> HIDE DEF s
  <2>2. s \in Seq(Ids) /\ s # <<>>
    BY <2>1 DEF Round
  <2>3. RotateToLowestSlug(x, s) \in Seq(Ids)
    BY <2>2, RotationKeeps
  <2> QED BY <2>3 DEF s
<1>10. cycles \in SUBSET Seq(Ids)
  <2> HIDE DEF cycle
  <2>1. cycles \in {w.cycles, w.cycles \cup {cycle}}
        /\ (cycles # w.cycles => c.at \in ToSet(c.chain))
    BY DEF Reported, cycle
  <2> QED BY <2>1, <1>1, <1>9
<1> HIDE DEF cycles
<1> QED BY <1>1, <1>4, <1>8, <1>10 DEF Chases

LEMMA CyclesFound ==
  ASSUME NEW x \in Trees
  PROVE  /\ \A c \in ContainmentCycles(x) : Around(Up(x), Ids, c)
         /\ Covered(Up(x), x.nodes, ContainmentCycles(x))
         /\ Disjoint(ContainmentCycles(x))
<1> DEFINE step == [w \in Chases |-> IF w.todo = {} THEN w ELSE Chase(x, w)]
           I == {w \in Chases : Chasing(x, w)}
           d == [todo |-> x.nodes, settled |-> {}, cycles |-> {}]
           A == [w \in Chases |-> Cardinality(w.todo)]
           B == [w \in Chases |-> 0]
<1>0. x.nodes \in SUBSET Ids
  BY TreeFields
<1>1. d \in I
  BY <1>0 DEF Chases, Chasing, Closed, Covered, Disjoint
<1>2. ASSUME NEW w \in I
      PROVE  /\ step[w] \in I
             /\ step[w] # w => A[step[w]] < A[w]
             /\ A[w] \in Nat /\ B[w] \in Nat
  <2>1. w.todo \in SUBSET Ids
    BY DEF Chases
  <2>2. A[w] \in Nat /\ B[w] \in Nat
    BY <2>1, CountTyped
  <2>3. CASE w.todo = {}
    BY <2>2, <2>3
  <2>4. CASE w.todo # {}
    <3>1. step[w] = Chase(x, w)
      BY <2>4
    <3>2. /\ Chase(x, w) \in Chases /\ Chasing(x, Chase(x, w))
          /\ \E n \in w.todo : Chase(x, w).todo = w.todo \ {n}
      BY <2>4, Chased
    <3>3. Chase(x, w).todo \in SUBSET w.todo /\ Chase(x, w).todo # w.todo
      BY <3>2
    <3>4. Cardinality(Chase(x, w).todo) < Cardinality(w.todo)
      BY <2>1, <3>3, FewerCounted
    <3> QED BY <3>1, <3>2, <3>4, <2>2
  <2> QED BY <2>3, <2>4
<1>3. step \in [Chases -> Chases]
  BY ChaseTyped
<1>4. Shrinks(I, step, A, B, B)
  <2> HIDE DEF step, A, B, I
  <2> QED BY <1>2 DEF Shrinks
<1> DEFINE e == Loop(step)[d]
<1>5. e \in I /\ step[e] = e
  <2>1. I \in SUBSET Chases
    OBVIOUS
  <2> HIDE DEF I, A, B, d, step
  <2> QED BY <1>1, <1>2, <1>3, <1>4, <2>1, LoopRule
<1>6. ContainmentCycles(x) = e.cycles
  BY DEF ContainmentCycles
<1> HIDE DEF e
<1>7. e.todo = {}
  <2> SUFFICES ASSUME e.todo # {} PROVE FALSE
    OBVIOUS
  <2>1. step[e] = Chase(x, e)
    BY <1>5
  <2>2. \E n \in e.todo : Chase(x, e).todo = e.todo \ {n}
    BY <1>5, Chased
  <2> QED BY <1>5, <2>1, <2>2
<1>8. e.settled \in SUBSET Ids /\ Chasing(x, e)
  BY <1>5 DEF Chases
<1>9. \A c \in e.cycles : Around(Up(x), Ids, c)
  BY <1>8 DEF Chasing, Around
<1>10. Covered(Up(x), x.nodes, e.cycles)
  BY <1>7, <1>8 DEF Chasing, Covered
<1> QED BY <1>6, <1>8, <1>9, <1>10 DEF Chasing

(* The least closed set, as the properties say it.                          *)
LEMMA AboveIsOver ==
  ASSUME NEW x \in Trees, NEW n \in Ids
  PROVE  Above(x)[n] = Over(Up(x), n)
<1> DEFINE up == Up(x)
           step == [m \in Ids |-> {ParentOf(x, m)} \ {None}]
           closed == {S \in SUBSET Ids : \A m \in S : step[m] \subseteq S}
<1>1. up \in Ways /\ \A m \in Ids : step[m] = {up[m]} \ {None}
  BY UpTyped
<1>2. Above(x)[n] = {m \in Ids : \A S \in closed : step[n] \subseteq S => m \in S}
  BY DEF Above, Closure
<1> HIDE DEF step, up
<1>3. /\ Over(up, n) \in SUBSET Ids
      /\ up[n] \in Over(up, n) \cup {None}
      /\ \A m \in Over(up, n) : up[m] \in Over(up, n) \cup {None}
  BY <1>1, OverIsLeast
<1>4. Over(up, n) \in closed /\ step[n] \subseteq Over(up, n)
  BY <1>1, <1>3
<1>5. ASSUME NEW S \in closed, step[n] \subseteq S PROVE Over(up, n) \subseteq S
  <2>1. S \in SUBSET Ids /\ up[n] \in S \cup {None} /\ \A m \in S : up[m] \in S \cup {None}
    BY <1>1, <1>5
  <2> QED BY <2>1, <1>1, OverWithin
<1> QED BY <1>2, <1>3, <1>4, <1>5 DEF up

LEMMA OneOf ==
  ASSUME NEW S, NEW c \in S, \A d \in S : d = c
  PROVE  Cardinality(S) = 1
<1>1. S = {c}
  OBVIOUS
<1> QED BY <1>1, FS_Singleton

(* What CyclesAreReported says of the cycles of parents.                    *)
LEMMA ParentCyclesReported ==
  ASSUME NEW x \in Trees
  PROVE  /\ \A n \in x.nodes : n \in Above(x)[n] =>
              Cardinality({c \in ContainmentCycles(x) : n \in ToSet(c)}) = 1
         /\ \A c \in ContainmentCycles(x) : \A n \in ToSet(c) : n \in Above(x)[n]
<1>1. x.nodes \in SUBSET Ids
  BY TreeFields
<1>2. ASSUME NEW n \in x.nodes, n \in Above(x)[n]
      PROVE  Cardinality({c \in ContainmentCycles(x) : n \in ToSet(c)}) = 1
  <2> DEFINE S == {c \in ContainmentCycles(x) : n \in ToSet(c)}
  <2>1. Looped(Up(x), n)
    BY <1>1, <1>2, AboveIsOver DEF Looped
  <2>2. PICK c \in S : TRUE
    BY <2>1, CyclesFound DEF Covered
  <2>3. \A d \in S : d = c
    BY CyclesFound DEF Disjoint
  <2> HIDE DEF S
  <2>4. Cardinality(S) = 1
    BY <2>2, <2>3, OneOf
  <2> QED BY <2>4 DEF S
<1>3. ASSUME NEW c \in ContainmentCycles(x), NEW n \in ToSet(c)
      PROVE  n \in Above(x)[n]
  <2>1. ToSet(c) \subseteq Ids /\ Over(Up(x), n) = ToSet(c)
    BY CyclesFound DEF Around
  <2> QED BY <2>1, AboveIsOver
<1> QED BY <1>2, <1>3
-----------------------------------------------------------------------------
(* What dependencies lead to *)

Deps == [Ids -> SUBSET Ids]
Far(dep, n) == Closure(dep)[n]
FarFrom(dep, n) == {n} \cup Far(dep, n)

LEMMA FarIsLeast ==
  ASSUME NEW dep \in Deps, NEW n \in Ids
  PROVE  /\ Far(dep, n) \in SUBSET Ids
         /\ dep[n] \subseteq Far(dep, n)
         /\ \A m \in Far(dep, n) : dep[m] \subseteq Far(dep, n)
<1> DEFINE closed == {S \in SUBSET Ids : \A m \in S : dep[m] \subseteq S}
<1>1. Far(dep, n) = {m \in Ids : \A S \in closed : dep[n] \subseteq S => m \in S}
  BY DEF Far, Closure
<1>2. dep[n] \subseteq Ids
  BY DEF Deps
<1>3. ASSUME NEW m \in Far(dep, n) PROVE dep[m] \subseteq Far(dep, n)
  <2>1. m \in Ids /\ dep[m] \subseteq Ids
    BY <1>1 DEF Deps
  <2>2. ASSUME NEW S \in closed, dep[n] \subseteq S PROVE dep[m] \subseteq S
    BY <2>2, <1>1
  <2> HIDE DEF closed
  <2> QED BY <2>1, <2>2, <1>1
<1> QED BY <1>1, <1>2, <1>3

LEMMA FarWithin ==
  ASSUME NEW dep \in Deps, NEW n \in Ids, NEW T \in SUBSET Ids,
         dep[n] \subseteq T, \A m \in T : dep[m] \subseteq T
  PROVE  Far(dep, n) \subseteq T
BY DEF Far, Closure

LEMMA FarOnwards ==
  ASSUME NEW dep \in Deps, NEW n \in Ids, NEW m \in FarFrom(dep, n)
  PROVE  /\ m \in Ids /\ Far(dep, m) \subseteq Far(dep, n)
         /\ dep[m] \subseteq Far(dep, n)
<1>1. /\ Far(dep, n) \in SUBSET Ids
      /\ dep[n] \subseteq Far(dep, n)
      /\ \A k \in Far(dep, n) : dep[k] \subseteq Far(dep, n)
  BY FarIsLeast
<1>2. m \in Ids /\ dep[m] \subseteq Far(dep, n)
  BY <1>1 DEF FarFrom
<1> QED BY <1>1, <1>2, FarWithin

(* What is far is next, or far from what is next.                           *)
LEMMA FarBegins ==
  ASSUME NEW dep \in Deps, NEW n \in Ids, NEW m \in Far(dep, n)
  PROVE  \E k \in dep[n] : m \in FarFrom(dep, k)
<1> DEFINE T == {y \in Ids : \E k \in dep[n] : y \in FarFrom(dep, k)}
<1>1. \A k \in dep[n] : k \in Ids
  BY DEF Deps
<1>2. dep[n] \subseteq T
  BY <1>1 DEF FarFrom
<1>3. \A y \in T : dep[y] \subseteq T
  <2> TAKE y \in T
  <2>1. PICK k \in dep[n] : y \in FarFrom(dep, k)
    OBVIOUS
  <2>2. dep[y] \subseteq Far(dep, k)
    BY <2>1, <1>1, FarOnwards
  <2>3. dep[y] \subseteq Ids
    BY DEF Deps
  <2> QED BY <2>2, <2>3 DEF FarFrom
<1>4. Far(dep, n) \subseteq T
  <2>1. T \in SUBSET Ids
    OBVIOUS
  <2> HIDE DEF T
  <2> QED BY <1>2, <1>3, <2>1, FarWithin
<1> QED BY <1>4

(* A sequence in which each depends on the next.                            *)
Trail(dep, s) ==
  s \in Seq(Ids) /\ \A i \in DOMAIN s : i + 1 \in DOMAIN s => s[i + 1] \in dep[s[i]]

LEMMA TrailLeadsOn ==
  ASSUME NEW dep \in Deps, NEW s, Trail(dep, s),
         NEW i \in DOMAIN s, NEW j \in DOMAIN s, i <= j
  PROVE  s[j] \in FarFrom(dep, s[i])
<1>1. s \in Seq(Ids)
  BY DEF Trail
<1>2. DOMAIN s = 1..Len(s) /\ Len(s) \in Nat
  BY <1>1
<1> DEFINE F == FarFrom(dep, s[i])
           J == {k \in i..j : s[k] \notin F}
<1>3. s[i] \in Ids /\ s[i] \in F
  BY <1>1 DEF FarFrom
<1>4. i \in Nat /\ j \in Nat /\ i..j \subseteq DOMAIN s
  BY <1>2
<1>5. ASSUME J # {} PROVE FALSE
  <2>1. PICK k \in J : \A l \in J : k <= l
    <3>1. J \subseteq Nat
      BY <1>4
    <3> HIDE DEF J
    <3> QED BY <3>1, <1>5, LeastExists
  <2>2. k \in i..j /\ s[k] \notin F /\ k # i
    BY <2>1, <1>3
  <2>3. k - 1 \in i..j /\ (k - 1) + 1 = k
    BY <2>2, <1>4
  <2>4. s[k - 1] \in F
    <3>1. ~(k <= k - 1)
      BY <2>2, <1>4
    <3> QED BY <2>1, <2>3, <3>1
  <2>5. s[k] \in dep[s[k - 1]]
    BY <2>2, <2>3, <1>4 DEF Trail
  <2>6. dep[s[k - 1]] \subseteq Far(dep, s[i])
    BY <2>4, <1>3, FarOnwards
  <2> QED BY <2>2, <2>5, <2>6 DEF FarFrom
<1>6. j \in i..j
  BY <1>4
<1> QED BY <1>5, <1>6

-----------------------------------------------------------------------------
(* Depth first *)

DfsStep(stops) ==
  [w \in DepthFirsts |->
     IF w.met # None THEN w
     ELSE IF w.left[At(w.path)] # {} THEN Advance(w, stops)
     ELSE IF w.path # <<>> THEN Leave(w) ELSE w]

LEMMA LastIn ==
  ASSUME NEW s \in Seq(Ids), s # <<>>
  PROVE  /\ Len(s) \in DOMAIN s /\ At(s) = s[Len(s)] /\ Last(s) = s[Len(s)]
         /\ At(s) \in ToSet(s) /\ At(s) \in Ids /\ At(s) # None
         /\ Front(s) \in Seq(Ids) /\ Len(Front(s)) = Len(s) - 1
         /\ DOMAIN Front(s) = 1..(Len(s) - 1) /\ Len(s) \in Nat \ {0}
         /\ \A i \in 1..(Len(s) - 1) : Front(s)[i] = s[i]
<1>1. Len(s) \in Nat \ {0} /\ DOMAIN s = 1..Len(s)
  OBVIOUS
<1>2. Len(s) \in DOMAIN s /\ At(s) = s[Len(s)] /\ Last(s) = s[Len(s)]
  BY <1>1 DEF At, Last
<1>3. At(s) \in ToSet(s) /\ At(s) \in Ids /\ At(s) # None
  BY <1>2, IdsFinite DEF ToSet
<1>4. Front(s) = SubSeq(s, 1, Len(s) - 1)
  BY DEF Front
<1>5. 1..(Len(s) - 1) \subseteq 1..Len(s) /\ Len(s) - 1 \in Nat
  BY <1>1
<1>6. /\ SubSeq(s, 1, Len(s) - 1) \in Seq(Ids) /\ Len(SubSeq(s, 1, Len(s) - 1)) = Len(s) - 1
      /\ \A i \in 1..(Len(s) - 1) : SubSeq(s, 1, Len(s) - 1)[i] = s[i]
  BY <1>1, SubSeqItems
<1>7. DOMAIN Front(s) = 1..(Len(s) - 1)
  BY <1>4, <1>6
<1> QED BY <1>1, <1>2, <1>3, <1>4, <1>6, <1>7

Changed(w, v, path, order) ==
  /\ v \in DepthFirsts /\ v.path = path /\ v.order = order
  /\ v.left = w.left /\ v.met = w.met

LEMMA PathChanged ==
  ASSUME NEW w \in DepthFirsts, NEW path \in Seq(Ids), NEW order \in Seq(Ids)
  PROVE  /\ Changed(w, [w EXCEPT !.path = path, !.order = order], path, order)
         /\ Changed(w, [w EXCEPT !.path = path], path, w.order)
BY DEF DepthFirsts, Changed

LEMMA LeftChanged ==
  ASSUME NEW w \in DepthFirsts, NEW at \in Ids \cup {None}, NEW T \in SUBSET Ids
  PROVE  /\ [w EXCEPT !.left[at] = T] \in DepthFirsts
         /\ [w EXCEPT !.left[at] = T].path = w.path
         /\ [w EXCEPT !.left[at] = T].order = w.order
         /\ [w EXCEPT !.left[at] = T].left = [w.left EXCEPT ![at] = T]
         /\ [w EXCEPT !.left[at] = T].met = w.met
BY DEF DepthFirsts

LEMMA AtTyped ==
  ASSUME NEW s \in Seq(Ids)
  PROVE  At(s) \in Ids \cup {None}
BY LastIn DEF At

(* The node n is no longer to be entered from `at`.                          *)
Removed(old, new, at, n) ==
  \A m \in Ids \cup {None} : new[m] = IF m = at THEN old[m] \ {n} ELSE old[m]

LEMMA Advanced ==
  ASSUME NEW w \in DepthFirsts, NEW stops \in BOOLEAN, w.left[At(w.path)] # {}
  PROVE  LET v == Advance(w, stops)
         IN \E n \in w.left[At(w.path)] :
              /\ v \in DepthFirsts /\ n \in Ids
              /\ Removed(w.left, v.left, At(w.path), n)
              /\ v.order = w.order
              /\ \/ /\ n \in ToSet(w.order) \cup ToSet(w.path)
                    /\ n \in ToSet(w.order) \/ ~stops
                    /\ v.path = w.path /\ v.met = w.met
                 \/ /\ n \notin ToSet(w.order) \cup ToSet(w.path)
                    /\ v.path = Append(w.path, n) /\ v.met = w.met
                 \/ /\ n \in ToSet(w.path) \ ToSet(w.order) /\ stops
                    /\ v.path = w.path /\ v.met = n
<1> DEFINE at == At(w.path)
           n == Least(w.left[at])
           T == w.left[at] \ {n}
           r == [w EXCEPT !.left[at] = T]
<1>1. /\ w.path \in Seq(Ids) /\ w.order \in Seq(Ids)
      /\ w.left \in [Ids \cup {None} -> SUBSET Ids] /\ w.met \in Ids \cup {None}
  BY DEF DepthFirsts
<1>2. at \in Ids \cup {None} /\ w.left[at] \in SUBSET Ids
  BY <1>1, AtTyped
<1>3. n \in w.left[at] /\ n \in Ids
  <2>1. w.left[at] # {}
    OBVIOUS
  <2> HIDE DEF at
  <2> QED BY <2>1, <1>2, LeastIn
<1>4. [w EXCEPT !.left[at] = @ \ {n}] = r
  OBVIOUS
<1>5. Advance(w, stops) = Enter(r, n, stops)
  BY <1>4 DEF Advance
<1>6. T \in SUBSET Ids /\ T = w.left[at] \ {n}
  BY <1>2
<1> HIDE DEF n, at, T
<1>7. /\ r \in DepthFirsts /\ r.path = w.path /\ r.order = w.order /\ r.met = w.met
      /\ r.left = [w.left EXCEPT ![at] = T]
  BY <1>2, <1>6, LeftChanged
<1> HIDE DEF r
<1>12. Removed(w.left, r.left, at, n)
  BY <1>1, <1>2, <1>6, <1>7 DEF Removed
<1>8. CASE n \in ToSet(w.order)
  <2>1. Advance(w, stops) = r
    BY <1>5, <1>7, <1>8 DEF Enter
  <2> QED BY <2>1, <1>3, <1>7, <1>8, <1>12 DEF at
<1>9. CASE n \notin ToSet(w.order) /\ n \notin ToSet(w.path)
  <2> DEFINE path == Append(w.path, n)
  <2>1. Advance(w, stops) = [r EXCEPT !.path = path]
    BY <1>5, <1>7, <1>9 DEF Enter
  <2>2. path \in Seq(Ids) /\ path = Append(w.path, n)
    BY <1>1, <1>3, Appended
  <2> HIDE DEF path
  <2>4. Changed(r, [r EXCEPT !.path = path], path, r.order)
    BY <2>2, <1>1, <1>7, PathChanged
  <2>3. /\ Advance(w, stops) \in DepthFirsts /\ Advance(w, stops).path = path
        /\ Advance(w, stops).order = w.order /\ Advance(w, stops).left = r.left
        /\ Advance(w, stops).met = w.met
    BY <2>1, <2>4, <1>7 DEF Changed
  <2> QED BY <2>2, <2>3, <1>3, <1>9, <1>12 DEF at
<1>10. CASE n \notin ToSet(w.order) /\ n \in ToSet(w.path) /\ stops
  <2>1. Advance(w, stops) = [r EXCEPT !.met = n]
    BY <1>5, <1>7, <1>10 DEF Enter
  <2>2. /\ Advance(w, stops) \in DepthFirsts /\ Advance(w, stops).path = w.path
        /\ Advance(w, stops).order = w.order /\ Advance(w, stops).left = r.left
        /\ Advance(w, stops).met = n
    BY <2>1, <1>3, <1>7 DEF DepthFirsts
  <2> QED BY <2>2, <1>3, <1>10, <1>12 DEF at
<1>11. CASE n \notin ToSet(w.order) /\ n \in ToSet(w.path) /\ ~stops
  <2>1. Advance(w, stops) = r
    BY <1>5, <1>7, <1>11 DEF Enter
  <2> QED BY <2>1, <1>3, <1>7, <1>11, <1>12 DEF at
<1> QED BY <1>8, <1>9, <1>10, <1>11

LEMMA Left ==
  ASSUME NEW w \in DepthFirsts, w.path # <<>>
  PROVE  /\ Leave(w) \in DepthFirsts
         /\ Leave(w).path = Front(w.path) /\ Leave(w).order = Append(w.order, At(w.path))
         /\ Leave(w).left = w.left /\ Leave(w).met = w.met
<1> DEFINE path == Front(w.path)
           order == Append(w.order, At(w.path))
<1>1. w.path \in Seq(Ids) /\ w.order \in Seq(Ids)
  BY DEF DepthFirsts
<1>2. At(w.path) = Last(w.path) /\ At(w.path) \in Ids /\ path \in Seq(Ids)
  BY <1>1, LastIn
<1>3. Leave(w) = [w EXCEPT !.path = path, !.order = order]
  BY <1>2 DEF Leave
<1>4. order \in Seq(Ids)
  BY <1>1, <1>2, Appended
<1>5. path = Front(w.path) /\ order = Append(w.order, At(w.path))
  OBVIOUS
<1> HIDE DEF path, order
<1>7. Changed(w, [w EXCEPT !.path = path, !.order = order], path, order)
  BY <1>2, <1>4, PathChanged
<1>6. /\ Leave(w) \in DepthFirsts /\ Leave(w).path = path /\ Leave(w).order = order
      /\ Leave(w).left = w.left /\ Leave(w).met = w.met
  BY <1>3, <1>7 DEF Changed
<1> QED BY <1>5, <1>6

LEMMA DfsTyped ==
  ASSUME NEW stops \in BOOLEAN
  PROVE  DfsStep(stops) \in [DepthFirsts -> DepthFirsts]
<1>1. \A w \in DepthFirsts : DfsStep(stops)[w] \in DepthFirsts
  <2> TAKE w \in DepthFirsts
  <2>1. CASE w.met = None /\ w.left[At(w.path)] # {}
    <3>1. DfsStep(stops)[w] = Advance(w, stops)
      BY <2>1 DEF DfsStep
    <3> QED BY <3>1, <2>1, Advanced
  <2>2. CASE w.met = None /\ w.left[At(w.path)] = {} /\ w.path # <<>>
    <3>1. DfsStep(stops)[w] = Leave(w)
      BY <2>2 DEF DfsStep
    <3> QED BY <3>1, <2>2, Left
  <2>3. CASE w.met # None \/ (w.left[At(w.path)] = {} /\ w.path = <<>>)
    BY <2>3 DEF DfsStep
  <2> QED BY <2>1, <2>2, <2>3
<1>2. DfsStep(stops) = [w \in DepthFirsts |-> DfsStep(stops)[w]]
  BY DEF DfsStep
<1> QED BY <1>1, <1>2

LEMMA FrontOf ==
  ASSUME NEW s \in Seq(Ids), s # <<>>
  PROVE  /\ ToSet(s) = ToSet(Front(s)) \cup {At(s)}
         /\ IsInjective(s) => IsInjective(Front(s)) /\ At(s) \notin ToSet(Front(s))
         /\ \A dep : Trail(dep, s) => Trail(dep, Front(s))
         /\ Front(s) # <<>> => Front(s)[1] = s[1]
<1> DEFINE f == Front(s)
<1>1. /\ Len(s) \in DOMAIN s /\ At(s) = s[Len(s)]
      /\ f \in Seq(Ids)
      /\ DOMAIN f = 1..(Len(s) - 1) /\ Len(s) \in Nat \ {0}
      /\ \A i \in 1..(Len(s) - 1) : f[i] = s[i]
  BY LastIn
<1>2. DOMAIN s = 1..Len(s)
  OBVIOUS
<1> HIDE DEF f
<1>3. \A i \in DOMAIN f : i \in DOMAIN s /\ i # Len(s) /\ f[i] = s[i]
  BY <1>1, <1>2
<1>4. \A i \in DOMAIN s : i = Len(s) \/ i \in DOMAIN f
  BY <1>1, <1>2
<1>5. ToSet(s) = ToSet(f) \cup {At(s)}
  <2>1. ASSUME NEW y \in ToSet(s) PROVE y \in ToSet(f) \cup {At(s)}
    <3>1. PICK i \in DOMAIN s : y = s[i]
      BY DEF ToSet
    <3> QED BY <3>1, <1>1, <1>3, <1>4 DEF ToSet
  <2>2. ASSUME NEW y \in ToSet(f) PROVE y \in ToSet(s)
    BY <2>2, <1>3 DEF ToSet
  <2>3. At(s) \in ToSet(s)
    BY <1>1 DEF ToSet
  <2> QED BY <2>1, <2>2, <2>3
<1>6. ASSUME IsInjective(s) PROVE IsInjective(f) /\ At(s) \notin ToSet(f)
  <2>1. \A i, j \in DOMAIN s : s[i] = s[j] => i = j
    BY <1>6 DEF IsInjective
  <2>2. \A i, j \in DOMAIN f : f[i] = f[j] => i = j
    BY <2>1, <1>3
  <2>3. \A i \in DOMAIN f : f[i] # At(s)
    BY <2>1, <1>1, <1>3
  <2> QED BY <2>2, <2>3 DEF IsInjective, ToSet
<1>7. ASSUME NEW dep, Trail(dep, s) PROVE Trail(dep, f)
  <2>1. ASSUME NEW i \in DOMAIN f, i + 1 \in DOMAIN f PROVE f[i + 1] \in dep[f[i]]
    <3>1. i \in DOMAIN s /\ i + 1 \in DOMAIN s /\ f[i] = s[i] /\ f[i + 1] = s[i + 1]
      BY <2>1, <1>3
    <3> QED BY <3>1, <1>7 DEF Trail
  <2> QED BY <2>1, <1>1 DEF Trail
<1>8. f # <<>> => f[1] = s[1]
  <2> HAVE f # <<>>
  <2>1. 1 \in DOMAIN f
    BY <1>1
  <2> QED BY <2>1, <1>3
<1> QED BY <1>5, <1>6, <1>7, <1>8 DEF f

LEMMA TrailAppend ==
  ASSUME NEW dep \in Deps, NEW s, Trail(dep, s), NEW n \in Ids,
         s # <<>> => n \in dep[At(s)]
  PROVE  Trail(dep, Append(s, n))
<1> DEFINE t == Append(s, n)
<1>1. s \in Seq(Ids)
  BY DEF Trail
<1>2. /\ t \in Seq(Ids) /\ t[Len(s) + 1] = n /\ \A i \in DOMAIN s : t[i] = s[i]
      /\ DOMAIN s = 1..Len(s) /\ Len(s) \in Nat /\ DOMAIN t = 1..(Len(s) + 1)
  BY <1>1, Appended
<1> HIDE DEF t
<1>3. ASSUME NEW i \in DOMAIN t, i + 1 \in DOMAIN t PROVE t[i + 1] \in dep[t[i]]
  <2>1. i \in DOMAIN s /\ (i + 1 \in DOMAIN s \/ i = Len(s))
    BY <1>2, <1>3
  <2>2. CASE i + 1 \in DOMAIN s
    BY <2>1, <2>2, <1>2 DEF Trail
  <2>3. CASE i = Len(s)
    <3>1. s # <<>>
      BY <2>1
    <3>2. At(s) = s[i]
      BY <3>1, <2>3, <1>1, LastIn
    <3> QED BY <3>1, <3>2, <2>1, <2>3, <1>2
  <2> QED BY <2>1, <2>2, <2>3
<1> QED BY <1>2, <1>3 DEF Trail, t

Visited(w) == ToSet(w.order) \cup ToSet(w.path)

(* The path is a way down from a root, apart from what has finished; what a *)
(* node no longer has to enter has been visited.                            *)
Deep(dep, roots, stops, w) ==
  /\ IsInjective(w.path) /\ ToSet(w.path) \cap ToSet(w.order) = {}
  /\ Trail(dep, w.path)
  /\ w.path # <<>> => w.path[1] \in roots
  /\ w.left[None] \subseteq roots /\ roots \ w.left[None] \subseteq Visited(w)
  /\ \A n \in Ids : /\ w.left[n] \subseteq dep[n]
                    /\ dep[n] \ w.left[n] \subseteq Visited(w)
                    /\ n \notin Visited(w) => w.left[n] = dep[n]
  /\ \A n \in ToSet(w.order) : w.left[n] = {}
  /\ w.met # None =>
       stops /\ w.met \in ToSet(w.path) /\ w.met \in dep[At(w.path)]

LEMMA DeepAdvances ==
  ASSUME NEW dep \in Deps, NEW roots \in SUBSET Ids, NEW stops \in BOOLEAN,
         NEW w \in DepthFirsts, Deep(dep, roots, stops, w), w.met = None,
         w.left[At(w.path)] # {}
  PROVE  Deep(dep, roots, stops, Advance(w, stops))
<1> DEFINE v == Advance(w, stops)
           at == At(w.path)
<1>1. PICK n \in w.left[at] :
              /\ v \in DepthFirsts /\ n \in Ids
              /\ Removed(w.left, v.left, at, n)
              /\ v.order = w.order
              /\ \/ /\ n \in ToSet(w.order) \cup ToSet(w.path)
                    /\ n \in ToSet(w.order) \/ ~stops
                    /\ v.path = w.path /\ v.met = w.met
                 \/ /\ n \notin ToSet(w.order) \cup ToSet(w.path)
                    /\ v.path = Append(w.path, n) /\ v.met = w.met
                 \/ /\ n \in ToSet(w.path) \ ToSet(w.order) /\ stops
                    /\ v.path = w.path /\ v.met = n
  BY Advanced
<1> HIDE DEF v
<1>2. /\ w.path \in Seq(Ids) /\ w.order \in Seq(Ids)
      /\ w.left \in [Ids \cup {None} -> SUBSET Ids]
  BY DEF DepthFirsts
<1>3. /\ w.path = <<>> => at = None
      /\ w.path # <<>> => at \in Ids /\ at \in ToSet(w.path) /\ at # None
  BY <1>2, LastIn DEF At
<1>4. Visited(v) = Visited(w) \cup {n}
  <2>1. ToSet(Append(w.path, n)) = ToSet(w.path) \cup {n}
    BY <1>1, <1>2, Appended
  <2> QED BY <2>1, <1>1 DEF Visited
<1>5. \A m \in Ids \cup {None} : v.left[m] = IF m = at THEN w.left[m] \ {n} ELSE w.left[m]
  BY <1>1 DEF Removed
<1> HIDE DEF at
<1>6. v.left[None] \subseteq roots /\ roots \ v.left[None] \subseteq Visited(v)
  <2>1. v.left[None] = IF None = at THEN w.left[None] \ {n} ELSE w.left[None]
    BY <1>5
  <2> QED BY <2>1, <1>4 DEF Deep
<1>7. ASSUME NEW m \in Ids
      PROVE  /\ v.left[m] \subseteq dep[m]
             /\ dep[m] \ v.left[m] \subseteq Visited(v)
             /\ m \notin Visited(v) => v.left[m] = dep[m]
  <2>1. v.left[m] = IF m = at THEN w.left[m] \ {n} ELSE w.left[m]
    BY <1>5
  <2>2. /\ w.left[m] \subseteq dep[m]
        /\ dep[m] \ w.left[m] \subseteq Visited(w)
        /\ m \notin Visited(w) => w.left[m] = dep[m]
    BY DEF Deep
  <2>3. m = at => m \in Visited(w)
    <3>1. m # None
      BY IdsFinite
    <3> QED BY <3>1, <1>3 DEF Visited
  <2> QED BY <2>1, <2>2, <2>3, <1>4
<1>8. \A m \in ToSet(v.order) : v.left[m] = {}
  <2> TAKE m \in ToSet(v.order)
  <2>1. m \in Ids
    BY <1>1, <1>2, ToSetTyped
  <2> QED BY <2>1, <1>1, <1>5 DEF Deep
<1>9. w.path # <<>> => n \in dep[at]
  BY <1>1, <1>3 DEF Deep
<1>10. w.path = <<>> => n \in roots
  BY <1>1, <1>3 DEF Deep
<1>11. CASE v.path = w.path
  <2>1. /\ IsInjective(v.path) /\ ToSet(v.path) \cap ToSet(v.order) = {}
        /\ Trail(dep, v.path)
        /\ v.path # <<>> => v.path[1] \in roots
    BY <1>1, <1>11 DEF Deep
  <2>2. v.met # None => stops /\ v.met \in ToSet(v.path) /\ v.met \in dep[At(v.path)]
    <3> SUFFICES ASSUME v.met # None
                 PROVE  stops /\ v.met \in ToSet(v.path) /\ v.met \in dep[At(v.path)]
      OBVIOUS
    <3>1. stops /\ v.met = n /\ n \in ToSet(w.path)
      BY <1>1
    <3>2. w.path # <<>>
      BY <3>1 DEF ToSet
    <3> QED BY <3>1, <3>2, <1>9, <1>11 DEF at
  <2> QED BY <2>1, <2>2, <1>6, <1>7, <1>8 DEF Deep, v
<1>12. CASE v.path = Append(w.path, n) /\ n \notin ToSet(w.order) \cup ToSet(w.path) /\ v.met = w.met
  <2>1. IsInjective(v.path)
    BY <1>1, <1>2, <1>12, InjectiveAppend DEF Deep
  <2>2. /\ ToSet(v.path) = ToSet(w.path) \cup {n}
        /\ v.path[Len(w.path) + 1] = n /\ \A i \in DOMAIN w.path : v.path[i] = w.path[i]
    BY <1>1, <1>2, <1>12, Appended
  <2>3. ToSet(v.path) \cap ToSet(v.order) = {}
    BY <2>2, <1>1, <1>12 DEF Deep
  <2>4. Trail(dep, v.path)
    BY <1>1, <1>9, <1>12, TrailAppend DEF Deep, at
  <2>5. v.path[1] \in roots
    <3>1. CASE w.path = <<>>
      <4>1. Len(w.path) + 1 = 1
        BY <3>1
      <4> QED BY <4>1, <3>1, <2>2, <1>10
    <3>2. CASE w.path # <<>>
      <4>1. 1 \in DOMAIN w.path
        BY <3>2, <1>2
      <4> QED BY <4>1, <3>2, <2>2 DEF Deep
    <3> QED BY <3>1, <3>2
  <2>6. v.met = None
    BY <1>12
  <2>7. Deep(dep, roots, stops, v)
    BY <2>1, <2>3, <2>4, <2>5, <2>6, <1>6, <1>7, <1>8 DEF Deep
  <2> QED BY <2>7 DEF v
<1> QED BY <1>1, <1>11, <1>12

LEMMA DeepLeaves ==
  ASSUME NEW dep \in Deps, NEW roots \in SUBSET Ids, NEW stops \in BOOLEAN,
         NEW w \in DepthFirsts, Deep(dep, roots, stops, w), w.met = None,
         w.left[At(w.path)] = {}, w.path # <<>>
  PROVE  /\ Deep(dep, roots, stops, Leave(w)) /\ Visited(Leave(w)) = Visited(w)
         /\ ToSet(Leave(w).order) = ToSet(w.order) \cup {At(w.path)}
         /\ At(w.path) \in Ids \ ToSet(w.order)
<1> DEFINE v == Leave(w)
           at == At(w.path)
<1>1. /\ v \in DepthFirsts
      /\ v.path = Front(w.path) /\ v.order = Append(w.order, at)
      /\ v.left = w.left /\ v.met = w.met
  BY Left
<1>2. w.path \in Seq(Ids) /\ w.order \in Seq(Ids)
  BY DEF DepthFirsts
<1>3. at \in Ids /\ at \in ToSet(w.path)
  BY <1>2, LastIn
<1>4. ToSet(v.order) = ToSet(w.order) \cup {at}
  BY <1>1, <1>2, <1>3, Appended
<1>5. /\ ToSet(w.path) = ToSet(v.path) \cup {at}
      /\ IsInjective(v.path) /\ at \notin ToSet(v.path)
      /\ Trail(dep, v.path)
      /\ v.path # <<>> => v.path[1] = w.path[1]
  BY <1>1, <1>2, FrontOf DEF Deep
<1>8. at \notin ToSet(w.order) /\ w.left[at] = {}
  BY <1>3 DEF Deep
<1> HIDE DEF v, at
<1>6. Visited(v) = Visited(w)
  BY <1>4, <1>5 DEF Visited
<1>7. ToSet(v.path) \cap ToSet(v.order) = {}
  BY <1>4, <1>5 DEF Deep
<1>9. \A n \in ToSet(v.order) : v.left[n] = {}
  BY <1>1, <1>4, <1>8 DEF Deep
<1>10. v.path # <<>> => v.path[1] \in roots
  BY <1>5 DEF Deep
<1>11. v.met = None
  BY <1>1
<1>12. /\ v.left[None] \subseteq roots /\ roots \ v.left[None] \subseteq Visited(v)
       /\ \A n \in Ids : /\ v.left[n] \subseteq dep[n]
                         /\ dep[n] \ v.left[n] \subseteq Visited(v)
                         /\ n \notin Visited(v) => v.left[n] = dep[n]
  BY <1>1, <1>6 DEF Deep
<1>13. Deep(dep, roots, stops, v)
  BY <1>5, <1>7, <1>9, <1>10, <1>11, <1>12 DEF Deep
<1> QED BY <1>3, <1>4, <1>6, <1>8, <1>13 DEF v, at

DfsStart(dep, roots) ==
  [path |-> <<>>, order |-> <<>>, met |-> None,
   left |-> [n \in Ids \cup {None} |-> IF n = None THEN roots ELSE dep[n]]]

LEMMA DeepAtFirst ==
  ASSUME NEW dep \in Deps, NEW roots \in SUBSET Ids, NEW stops \in BOOLEAN
  PROVE  /\ DfsStart(dep, roots) \in DepthFirsts
         /\ Deep(dep, roots, stops, DfsStart(dep, roots))
         /\ DepthFirst(dep, roots, stops) = Loop(DfsStep(stops))[DfsStart(dep, roots)]
<1> DEFINE d == DfsStart(dep, roots)
<1>1. /\ d.path = <<>> /\ d.order = <<>> /\ d.met = None
      /\ d.left = [n \in Ids \cup {None} |-> IF n = None THEN roots ELSE dep[n]]
  BY DEF DfsStart
<1>2. d.left \in [Ids \cup {None} -> SUBSET Ids]
  BY <1>1 DEF Deps
<1>3. d \in DepthFirsts
  BY <1>1, <1>2 DEF DfsStart, DepthFirsts
<1>4. d.left[None] = roots /\ \A n \in Ids : d.left[n] = dep[n]
  BY <1>1, IdsFinite
<1> HIDE DEF d
<1>5. ToSet(d.path) = {} /\ ToSet(d.order) = {} /\ IsInjective(d.path) /\ Trail(dep, d.path)
  BY <1>1 DEF ToSet, IsInjective, Trail
<1>6. Deep(dep, roots, stops, d)
  BY <1>1, <1>4, <1>5 DEF Deep, Visited
<1>7. DepthFirst(dep, roots, stops) = Loop(DfsStep(stops))[d]
  BY DEF DepthFirst, DfsStep, d, DfsStart
<1> QED BY <1>3, <1>6, <1>7 DEF d

LEMMA OrderGrows ==
  ASSUME NEW w \in DepthFirsts, w.path # <<>>, ToSet(w.path) \cap ToSet(w.order) = {}
  PROVE  /\ ToSet(Leave(w).order) = ToSet(w.order) \cup {At(w.path)}
         /\ At(w.path) \in Ids \ ToSet(w.order)
<1>1. Leave(w).order = Append(w.order, At(w.path))
  BY Left
<1>2. w.path \in Seq(Ids) /\ w.order \in Seq(Ids)
  BY DEF DepthFirsts
<1>3. At(w.path) \in Ids /\ At(w.path) \in ToSet(w.path)
  BY <1>2, LastIn
<1> QED BY <1>1, <1>2, <1>3, Appended

LEMMA DeepShrinks ==
  ASSUME NEW dep \in Deps, NEW roots \in SUBSET Ids, NEW stops \in BOOLEAN,
         NEW w \in DepthFirsts, Deep(dep, roots, stops, w), DfsStep(stops)[w] # w
  PROVE  LET v == DfsStep(stops)[w] IN
         \/ Cardinality(Ids \ ToSet(v.order)) < Cardinality(Ids \ ToSet(w.order))
         \/ /\ Cardinality(Ids \ ToSet(v.order)) = Cardinality(Ids \ ToSet(w.order))
            /\ Cardinality(Ids \ ToSet(v.path)) < Cardinality(Ids \ ToSet(w.path))
         \/ /\ Cardinality(Ids \ ToSet(v.order)) = Cardinality(Ids \ ToSet(w.order))
            /\ Cardinality(Ids \ ToSet(v.path)) = Cardinality(Ids \ ToSet(w.path))
            /\ Cardinality(v.left[At(v.path)]) < Cardinality(w.left[At(w.path)])
<1> DEFINE v == DfsStep(stops)[w]
<1>1. /\ w.path \in Seq(Ids) /\ w.order \in Seq(Ids)
      /\ w.left \in [Ids \cup {None} -> SUBSET Ids]
  BY DEF DepthFirsts
<1>2. w.met = None
  BY DEF DfsStep
<1>3. CASE w.left[At(w.path)] # {}
  <2>1. v = Advance(w, stops)
    BY <1>2, <1>3 DEF DfsStep
  <2>2. PICK n \in w.left[At(w.path)] :
              /\ v \in DepthFirsts /\ n \in Ids
              /\ Removed(w.left, v.left, At(w.path), n)
              /\ v.order = w.order
              /\ \/ v.path = w.path
                 \/ /\ n \notin ToSet(w.order) \cup ToSet(w.path)
                    /\ v.path = Append(w.path, n)
    BY <2>1, <1>3, Advanced
  <2> HIDE DEF v
  <2>3. CASE v.path = w.path
    <3>1. At(w.path) \in Ids \cup {None}
      BY <1>1, AtTyped
    <3>2. v.left[At(w.path)] = w.left[At(w.path)] \ {n}
      BY <2>2, <3>1 DEF Removed
    <3>3. w.left[At(w.path)] \in SUBSET Ids
      BY <3>1, <1>1
    <3>4. Cardinality(v.left[At(w.path)]) < Cardinality(w.left[At(w.path)])
      BY <3>2, <3>3, <2>2, FewerCounted
    <3> QED BY <3>4, <2>2, <2>3 DEF v
  <2>4. CASE n \notin ToSet(w.path) /\ v.path = Append(w.path, n)
    <3>1. ToSet(v.path) = ToSet(w.path) \cup {n}
      BY <2>2, <2>4, <1>1, Appended
    <3>2. /\ Ids \ ToSet(v.path) \in SUBSET (Ids \ ToSet(w.path))
          /\ Ids \ ToSet(v.path) # Ids \ ToSet(w.path)
          /\ Ids \ ToSet(w.path) \in SUBSET Ids
      BY <3>1, <2>2, <2>4
    <3>3. Cardinality(Ids \ ToSet(v.path)) < Cardinality(Ids \ ToSet(w.path))
      BY <3>2, FewerCounted
    <3> QED BY <3>3, <2>2 DEF v
  <2> QED BY <2>2, <2>3, <2>4
<1>4. CASE w.left[At(w.path)] = {}
  <2>1. w.path # <<>> /\ v = Leave(w)
    BY <1>2, <1>4 DEF DfsStep
  <2>2. /\ ToSet(Leave(w).order) = ToSet(w.order) \cup {At(w.path)}
        /\ At(w.path) \in Ids \ ToSet(w.order)
    <3>1. ToSet(w.path) \cap ToSet(w.order) = {}
      BY DEF Deep
    <3> QED BY <3>1, <2>1, OrderGrows
  <2> HIDE DEF v
  <2>3. /\ Ids \ ToSet(v.order) \in SUBSET (Ids \ ToSet(w.order))
        /\ Ids \ ToSet(v.order) # Ids \ ToSet(w.order)
        /\ Ids \ ToSet(w.order) \in SUBSET Ids
    BY <2>1, <2>2
  <2>4. Cardinality(Ids \ ToSet(v.order)) < Cardinality(Ids \ ToSet(w.order))
    BY <2>3, FewerCounted
  <2> QED BY <2>4 DEF v
<1> QED BY <1>3, <1>4

(* A walk depth first keeps what its two kinds of step keep, and ends where *)
(* it has met a node or has nothing left.                                   *)
Kept(dep, roots, stops, I) ==
  /\ \A w \in I : w \in DepthFirsts /\ Deep(dep, roots, stops, w)
  /\ DfsStart(dep, roots) \in I
  /\ \A w \in I :
       /\ w.met = None /\ w.left[At(w.path)] # {} => Advance(w, stops) \in I
       /\ w.met = None /\ w.left[At(w.path)] = {} /\ w.path # <<>> => Leave(w) \in I

LEMMA DepthFirstRule ==
  ASSUME NEW dep \in Deps, NEW roots \in SUBSET Ids, NEW stops \in BOOLEAN,
         NEW I, Kept(dep, roots, stops, I)
  PROVE  LET e == DepthFirst(dep, roots, stops)
         IN e \in I /\ (e.met # None \/ (e.path = <<>> /\ e.left[None] = {}))
<1> DEFINE step == DfsStep(stops)
           d == DfsStart(dep, roots)
           A == [w \in DepthFirsts |-> Cardinality(Ids \ ToSet(w.order))]
           B == [w \in DepthFirsts |-> Cardinality(Ids \ ToSet(w.path))]
           C == [w \in DepthFirsts |-> Cardinality(w.left[At(w.path)])]
           e == Loop(step)[d]
<1>1. step \in [DepthFirsts -> DepthFirsts]
  BY DfsTyped
<1>5. I \in SUBSET DepthFirsts /\ \A w \in I : Deep(dep, roots, stops, w)
  BY DEF Kept
<1>2. ASSUME NEW w \in I PROVE step[w] \in I /\ (step[w] = w \/ w.met = None)
  <2>1. w \in DepthFirsts
    BY <1>5
  <2> QED BY <2>1 DEF DfsStep, Kept
<1>3. ASSUME NEW w \in I PROVE A[w] \in Nat /\ B[w] \in Nat /\ C[w] \in Nat
  <2>1. w \in DepthFirsts
    BY <1>5
  <2>2. At(w.path) \in Ids \cup {None}
    BY <2>1, AtTyped DEF DepthFirsts
  <2>3. w.left[At(w.path)] \in SUBSET Ids
    BY <2>1, <2>2 DEF DepthFirsts
  <2>4. Ids \ ToSet(w.order) \in SUBSET Ids /\ Ids \ ToSet(w.path) \in SUBSET Ids
    OBVIOUS
  <2> QED BY <2>1, <2>3, <2>4, CountTyped
<1>4. ASSUME NEW w \in I, step[w] # w
      PROVE  \/ A[step[w]] < A[w]
             \/ A[step[w]] = A[w] /\ B[step[w]] < B[w]
             \/ A[step[w]] = A[w] /\ B[step[w]] = B[w] /\ C[step[w]] < C[w]
  <2> DEFINE v == step[w]
  <2>1. w \in DepthFirsts /\ v \in DepthFirsts /\ Deep(dep, roots, stops, w)
    BY <1>2, <1>5
  <2>2. \/ Cardinality(Ids \ ToSet(v.order)) < Cardinality(Ids \ ToSet(w.order))
        \/ /\ Cardinality(Ids \ ToSet(v.order)) = Cardinality(Ids \ ToSet(w.order))
           /\ Cardinality(Ids \ ToSet(v.path)) < Cardinality(Ids \ ToSet(w.path))
        \/ /\ Cardinality(Ids \ ToSet(v.order)) = Cardinality(Ids \ ToSet(w.order))
           /\ Cardinality(Ids \ ToSet(v.path)) = Cardinality(Ids \ ToSet(w.path))
           /\ Cardinality(v.left[At(v.path)]) < Cardinality(w.left[At(w.path)])
    BY <2>1, <1>4, DeepShrinks
  <2> HIDE DEF v
  <2>3. /\ A[v] = Cardinality(Ids \ ToSet(v.order)) /\ A[w] = Cardinality(Ids \ ToSet(w.order))
        /\ B[v] = Cardinality(Ids \ ToSet(v.path)) /\ B[w] = Cardinality(Ids \ ToSet(w.path))
        /\ C[v] = Cardinality(v.left[At(v.path)]) /\ C[w] = Cardinality(w.left[At(w.path)])
    BY <2>1
  <2> HIDE DEF A, B, C
  <2>4. \/ A[v] < A[w]
        \/ A[v] = A[w] /\ B[v] < B[w]
        \/ A[v] = A[w] /\ B[v] = B[w] /\ C[v] < C[w]
    BY <2>2, <2>3
  <2> QED BY <2>4 DEF v
<1> HIDE DEF step, A, B, C, d, e
<1>6. Shrinks(I, step, A, B, C)
  BY <1>3, <1>4 DEF Shrinks
<1>7. e \in I /\ step[e] = e
  <2>1. d \in I
    BY DEF d, Kept
  <2>2. \A w \in I : step[w] \in I
    BY <1>2
  <2> QED BY <1>1, <1>5, <1>6, <2>1, <2>2, LoopRule DEF e
<1>8. DepthFirst(dep, roots, stops) = e
  BY DeepAtFirst DEF e, d, step
<1>9. e \in DepthFirsts /\ Deep(dep, roots, stops, e)
  BY <1>5, <1>7
<1>10. ASSUME e.met = None PROVE e.left[At(e.path)] = {}
  <2> SUFFICES ASSUME e.left[At(e.path)] # {} PROVE FALSE
    OBVIOUS
  <2>1. e = Advance(e, stops)
    BY <1>7, <1>9, <1>10 DEF step, DfsStep
  <2>2. PICK n \in e.left[At(e.path)] : Removed(e.left, e.left, At(e.path), n)
    BY <2>1, <1>9, Advanced
  <2>3. At(e.path) \in Ids \cup {None}
    BY <1>9, AtTyped DEF DepthFirsts
  <2> QED BY <2>2, <2>3 DEF Removed
<1>11. ASSUME e.met = None PROVE e.path = <<>>
  <2> SUFFICES ASSUME e.path # <<>> PROVE FALSE
    OBVIOUS
  <2>1. e = Leave(e)
    BY <1>7, <1>9, <1>10, <1>11 DEF step, DfsStep
  <2>2. /\ ToSet(e.order) = ToSet(e.order) \cup {At(e.path)}
        /\ At(e.path) \in Ids \ ToSet(e.order)
    <3>1. ToSet(e.path) \cap ToSet(e.order) = {}
      BY <1>9 DEF Deep
    <3> QED BY <3>1, <2>1, <1>9, OrderGrows
  <2> QED BY <2>2
<1>12. e.met # None \/ (e.path = <<>> /\ e.left[None] = {})
  BY <1>10, <1>11 DEF At
<1> QED BY <1>7, <1>8, <1>12
-----------------------------------------------------------------------------
(* The cycle that `dependency_cycle` finds *)

Onward(s, i) == IF i + 1 \in DOMAIN s THEN {s[i + 1]} ELSE {}

(* What has finished leads to what has finished, and to no cycle; a node of *)
(* the path has entered what has finished and the next of the path.         *)
Settles(dep, w) ==
  /\ \A n \in ToSet(w.order) : dep[n] \subseteq ToSet(w.order) /\ n \notin Far(dep, n)
  /\ w.met = None =>
       \A i \in DOMAIN w.path :
         dep[w.path[i]] \ w.left[w.path[i]] \subseteq ToSet(w.order) \cup Onward(w.path, i)

LEMMA SettlesAdvances ==
  ASSUME NEW dep \in Deps, NEW roots \in SUBSET Ids,
         NEW w \in DepthFirsts, Deep(dep, roots, TRUE, w), w.met = None,
         w.left[At(w.path)] # {}, Settles(dep, w)
  PROVE  Settles(dep, Advance(w, TRUE))
<1> DEFINE v == Advance(w, TRUE)
           at == At(w.path)
<1>1. PICK n \in w.left[at] :
              /\ v \in DepthFirsts /\ n \in Ids
              /\ Removed(w.left, v.left, at, n)
              /\ v.order = w.order
              /\ \/ /\ n \in ToSet(w.order) \cup ToSet(w.path)
                    /\ n \in ToSet(w.order) \/ ~TRUE
                    /\ v.path = w.path /\ v.met = w.met
                 \/ /\ n \notin ToSet(w.order) \cup ToSet(w.path)
                    /\ v.path = Append(w.path, n) /\ v.met = w.met
                 \/ /\ n \in ToSet(w.path) \ ToSet(w.order) /\ TRUE
                    /\ v.path = w.path /\ v.met = n
  BY Advanced
<1> HIDE DEF v
<1>2. w.path \in Seq(Ids) /\ DOMAIN w.path = 1..Len(w.path) /\ Len(w.path) \in Nat
  <2>1. w.path \in Seq(Ids)
    BY DEF DepthFirsts
  <2> QED BY <2>1
<1>3. \A m \in Ids : v.left[m] = IF m = at THEN w.left[m] \ {n} ELSE w.left[m]
  BY <1>1 DEF Removed
<1>4. \A i \in DOMAIN w.path : w.path[i] \in Ids /\ w.path[i] \in ToSet(w.path)
  BY <1>2 DEF ToSet
<1>5. \A i \in DOMAIN w.path :
        dep[w.path[i]] \ w.left[w.path[i]] \subseteq ToSet(w.order) \cup Onward(w.path, i)
  BY DEF Settles
<1>6. \A m \in ToSet(v.order) : dep[m] \subseteq ToSet(v.order) /\ m \notin Far(dep, m)
  BY <1>1 DEF Settles
<1> HIDE DEF at
<1>7. CASE n \in ToSet(w.order) /\ v.path = w.path
  <2>1. ASSUME NEW i \in DOMAIN v.path
        PROVE  dep[v.path[i]] \ v.left[v.path[i]] \subseteq ToSet(v.order) \cup Onward(v.path, i)
    <3>1. v.path[i] = w.path[i] /\ w.path[i] \in Ids
      BY <2>1, <1>4, <1>7
    <3>2. w.left[w.path[i]] \subseteq v.left[w.path[i]] \cup {n}
      BY <3>1, <1>3
    <3> QED BY <2>1, <3>1, <3>2, <1>1, <1>5, <1>7
  <2>2. Settles(dep, v)
    BY <2>1, <1>6 DEF Settles
  <2> QED BY <2>2 DEF v
<1>8. CASE n \notin ToSet(w.order) \cup ToSet(w.path) /\ v.path = Append(w.path, n)
  <2>1. /\ v.path[Len(w.path) + 1] = n /\ \A i \in DOMAIN w.path : v.path[i] = w.path[i]
        /\ DOMAIN v.path = 1..(Len(w.path) + 1)
    BY <1>1, <1>2, <1>8, Appended
  <2>2. ASSUME NEW i \in DOMAIN v.path
        PROVE  dep[v.path[i]] \ v.left[v.path[i]] \subseteq ToSet(v.order) \cup Onward(v.path, i)
    <3>1. CASE i = Len(w.path) + 1
      <4>1. n \notin Visited(w)
        BY <1>8 DEF Visited
      <4>2. w.left[n] = dep[n]
        BY <4>1, <1>1 DEF Deep
      <4>3. n # at
        <5>1. w.path # <<>> => at \in ToSet(w.path)
          BY <1>2, LastIn DEF at
        <5>2. w.path = <<>> => at = None
          BY DEF at, At
        <5> QED BY <5>1, <5>2, <1>1, <1>8, IdsFinite
      <4> QED BY <4>2, <4>3, <3>1, <2>1, <1>1, <1>3
    <3>2. CASE i \in DOMAIN w.path /\ i = Len(w.path)
      <4>1. w.path # <<>>
        BY <3>2, <1>2
      <4>2. at = w.path[i]
        BY <4>1, <3>2, <1>2, LastIn DEF at
      <4>3. Onward(w.path, i) = {}
        BY <3>2, <1>2 DEF Onward
      <4>4. Onward(v.path, i) = {n}
        BY <3>2, <1>2, <2>1 DEF Onward
      <4>5. v.path[i] = at /\ at \in Ids
        BY <4>2, <3>2, <2>1, <1>4
      <4>6. v.left[at] = w.left[at] \ {n}
        BY <4>5, <1>3
      <4> QED BY <4>2, <4>3, <4>4, <4>5, <4>6, <3>2, <1>1, <1>5
    <3>3. CASE i \in DOMAIN w.path /\ i # Len(w.path)
      <4>1. w.path # <<>>
        BY <3>3, <1>2
      <4>2. at = w.path[Len(w.path)] /\ Len(w.path) \in DOMAIN w.path
        BY <4>1, <1>2, LastIn DEF at
      <4>3. w.path[i] # at
        BY <4>2, <3>3 DEF Deep, IsInjective
      <4>4. i + 1 \in DOMAIN w.path
        BY <3>3, <1>2
      <4>5. Onward(v.path, i) = Onward(w.path, i)
        <5>1. i + 1 \in DOMAIN v.path
          BY <2>2, <4>4, <2>1, <1>2
        <5> QED BY <5>1, <4>4, <2>1 DEF Onward
      <4>6. v.path[i] = w.path[i] /\ v.left[w.path[i]] = w.left[w.path[i]]
        BY <4>3, <3>3, <2>1, <1>3, <1>4
      <4> QED BY <4>5, <4>6, <3>3, <1>1, <1>5
    <3> QED BY <3>1, <3>2, <3>3, <2>1, <1>2
  <2>3. Settles(dep, v)
    BY <2>2, <1>6 DEF Settles
  <2> QED BY <2>3 DEF v
<1>9. CASE v.met = n
  <2>1. v.met # None
    BY <1>1, <1>9, IdsFinite
  <2>2. Settles(dep, v)
    BY <2>1, <1>6 DEF Settles
  <2> QED BY <2>2 DEF v
<1> QED BY <1>1, <1>7, <1>8, <1>9

LEMMA SettlesLeaves ==
  ASSUME NEW dep \in Deps, NEW roots \in SUBSET Ids,
         NEW w \in DepthFirsts, Deep(dep, roots, TRUE, w), w.met = None,
         w.left[At(w.path)] = {}, w.path # <<>>, Settles(dep, w)
  PROVE  Settles(dep, Leave(w))
<1> DEFINE v == Leave(w)
           at == At(w.path)
<1>1. v.path = Front(w.path) /\ v.left = w.left /\ v.met = w.met
  BY Left
<1>2. ToSet(v.order) = ToSet(w.order) \cup {at} /\ at \in Ids \ ToSet(w.order)
  BY DeepLeaves
<1>3. w.path \in Seq(Ids) /\ DOMAIN w.path = 1..Len(w.path) /\ Len(w.path) \in Nat
  <2>1. w.path \in Seq(Ids)
    BY DEF DepthFirsts
  <2> QED BY <2>1
<1>4. /\ Len(w.path) \in DOMAIN w.path /\ at = w.path[Len(w.path)]
      /\ DOMAIN Front(w.path) = 1..(Len(w.path) - 1)
      /\ \A i \in 1..(Len(w.path) - 1) : Front(w.path)[i] = w.path[i]
  BY <1>3, LastIn
<1>5. \A i \in DOMAIN w.path :
        dep[w.path[i]] \ w.left[w.path[i]] \subseteq ToSet(w.order) \cup Onward(w.path, i)
  BY DEF Settles
<1>6. w.left[at] = {}
  OBVIOUS
<1> HIDE DEF v, at
<1>7. dep[at] \subseteq ToSet(w.order)
  <2>1. Onward(w.path, Len(w.path)) = {}
    BY <1>3 DEF Onward
  <2> QED BY <2>1, <1>4, <1>5, <1>6
<1>8. at \notin Far(dep, at)
  <2>1. ToSet(w.order) \in SUBSET Ids
    BY ToSetTyped DEF DepthFirsts
  <2>2. \A m \in ToSet(w.order) : dep[m] \subseteq ToSet(w.order)
    BY DEF Settles
  <2>3. Far(dep, at) \subseteq ToSet(w.order)
    BY <2>1, <2>2, <1>2, <1>7, FarWithin
  <2> QED BY <2>3, <1>2
<1>9. \A m \in ToSet(v.order) : dep[m] \subseteq ToSet(v.order) /\ m \notin Far(dep, m)
  BY <1>2, <1>7, <1>8 DEF Settles
<1>10. ASSUME NEW i \in DOMAIN v.path
       PROVE  dep[v.path[i]] \ v.left[v.path[i]] \subseteq ToSet(v.order) \cup Onward(v.path, i)
  <2>1. i \in DOMAIN w.path /\ i \in 1..(Len(w.path) - 1) /\ i + 1 \in DOMAIN w.path
    BY <1>1, <1>3, <1>4, <1>10
  <2>2. v.path[i] = w.path[i]
    BY <2>1, <1>1, <1>4
  <2>3. Onward(w.path, i) \subseteq ToSet(v.order) \cup Onward(v.path, i)
    <3>1. CASE i + 1 = Len(w.path)
      BY <3>1, <2>1, <1>2, <1>4 DEF Onward
    <3>2. CASE i + 1 # Len(w.path)
      <4>1. i + 1 \in 1..(Len(w.path) - 1)
        BY <3>2, <2>1, <1>3
      <4> QED BY <4>1, <2>1, <1>1, <1>4 DEF Onward
    <3> QED BY <3>1, <3>2
  <2> QED BY <2>1, <2>2, <2>3, <1>1, <1>2, <1>5
<1>11. Settles(dep, v)
  BY <1>9, <1>10 DEF Settles
<1> QED BY <1>11 DEF v

LEMMA SettledAtTheEnd ==
  ASSUME NEW dep \in Deps, NEW roots \in SUBSET Ids
  PROVE  LET e == DepthFirst(dep, roots, TRUE)
         IN /\ e \in DepthFirsts /\ Deep(dep, roots, TRUE, e) /\ Settles(dep, e)
            /\ e.met = None => e.path = <<>> /\ e.left[None] = {}
<1> DEFINE I == {w \in DepthFirsts : Deep(dep, roots, TRUE, w) /\ Settles(dep, w)}
           d == DfsStart(dep, roots)
<1>1. d \in DepthFirsts /\ Deep(dep, roots, TRUE, d)
  BY DeepAtFirst
<1>2. d.path = <<>> /\ d.order = <<>>
  BY DEF DfsStart
<1>3. Settles(dep, d)
  <2>1. ToSet(d.order) = {} /\ DOMAIN d.path = {}
    BY <1>2 DEF ToSet
  <2> HIDE DEF d
  <2> QED BY <2>1 DEF Settles
<1>4. ASSUME NEW w \in I, w.met = None, w.left[At(w.path)] # {}
      PROVE  Advance(w, TRUE) \in I
  <2>1. Advance(w, TRUE) \in DepthFirsts
    BY <1>4, Advanced
  <2> QED BY <2>1, <1>4, DeepAdvances, SettlesAdvances
<1>5. ASSUME NEW w \in I, w.met = None, w.left[At(w.path)] = {}, w.path # <<>>
      PROVE  Leave(w) \in I
  <2>1. Leave(w) \in DepthFirsts
    BY <1>5, Left
  <2> QED BY <2>1, <1>5, DeepLeaves, SettlesLeaves
<1>6. Kept(dep, roots, TRUE, I)
  <2>1. d \in I /\ \A w \in I : w \in DepthFirsts /\ Deep(dep, roots, TRUE, w)
    BY <1>1, <1>3
  <2> HIDE DEF I
  <2> QED BY <2>1, <1>4, <1>5 DEF Kept
<1> DEFINE e == DepthFirst(dep, roots, TRUE)
<1>7. e \in I /\ (e.met # None \/ (e.path = <<>> /\ e.left[None] = {}))
  <2> HIDE DEF I
  <2> QED BY <1>6, DepthFirstRule
<1> QED BY <1>7

(* A trail that comes back to where it began, as CyclesAreReported says it. *)
IsRing(dep, s) ==
  /\ IsInjective(s)
  /\ \A i \in DOMAIN s : s[(i % Len(s)) + 1] \in dep[s[i]]

LEMMA RingOf ==
  ASSUME NEW dep \in Deps, NEW s, Trail(dep, s), IsInjective(s), s # <<>>,
         s[1] \in dep[s[Len(s)]]
  PROVE  IsRing(dep, s)
<1>1. s \in Seq(Ids)
  BY DEF Trail
<1>2. DOMAIN s = 1..Len(s) /\ Len(s) \in Nat \ {0}
  BY <1>1
<1>3. ASSUME NEW i \in DOMAIN s PROVE s[(i % Len(s)) + 1] \in dep[s[i]]
  <2>1. CASE i = Len(s)
    <3>1. i % Len(s) = 0
      BY <2>1, <1>2
    <3>2. (i % Len(s)) + 1 = 1
      BY <3>1
    <3> QED BY <3>2, <2>1
  <2>2. CASE i # Len(s)
    <3>1. i \in Nat /\ i < Len(s) /\ i + 1 \in DOMAIN s
      BY <2>2, <1>2
    <3>2. i % Len(s) = i
      BY <3>1, <1>2
    <3>3. s[i + 1] \in dep[s[i]]
      BY <3>1 DEF Trail
    <3> QED BY <3>2, <3>3
  <2> QED BY <2>1, <2>2
<1> QED BY <1>3 DEF IsRing

LEMMA TrailFrom ==
  ASSUME NEW dep \in Deps, NEW chain, Trail(dep, chain), IsInjective(chain),
         NEW at \in ToSet(chain)
  PROVE  LET s == From(chain, at)
         IN /\ Trail(dep, s) /\ IsInjective(s) /\ s # <<>>
            /\ s[1] = at /\ s[Len(s)] = At(chain)
<1> DEFINE k == CHOOSE i \in DOMAIN chain : chain[i] = at
           s == From(chain, at)
<1>1. chain \in Seq(Ids)
  BY DEF Trail
<1>2. DOMAIN chain = 1..Len(chain) /\ Len(chain) \in Nat
  BY <1>1
<1>3. k \in DOMAIN chain /\ chain[k] = at
  <2>1. \E i \in DOMAIN chain : chain[i] = at
    BY DEF ToSet
  <2> QED BY <2>1
<1>4. s = SubSeq(chain, k, Len(chain))
  BY DEF From
<1> HIDE DEF k, s
<1>5. /\ s \in Seq(Ids) /\ Len(s) = Len(chain) - k + 1
      /\ \A i \in 1..(Len(chain) - k + 1) : s[i] = chain[k + i - 1]
  BY <1>1, <1>2, <1>3, <1>4, SubSeqItems
<1>6. DOMAIN s = 1..(Len(chain) - k + 1)
  BY <1>5
<1>7. k \in Nat /\ k >= 1 /\ k <= Len(chain)
  BY <1>2, <1>3
<1>8. \A i \in DOMAIN s : s[i] = chain[k + i - 1] /\ k + i - 1 \in DOMAIN chain
  BY <1>2, <1>5, <1>6, <1>7
<1>9. s[1] = at
  <2>1. 1 \in DOMAIN s /\ k + 1 - 1 = k
    BY <1>2, <1>6, <1>7
  <2> QED BY <2>1, <1>3, <1>8
<1>10. s # <<>> /\ s[Len(s)] = At(chain)
  <2>1. Len(s) \in DOMAIN s /\ k + Len(s) - 1 = Len(chain)
    BY <1>2, <1>5, <1>6, <1>7
  <2>2. s[Len(s)] = chain[Len(chain)]
    BY <2>1, <1>8
  <2>3. chain # <<>>
    BY <1>2, <1>7
  <2>4. At(chain) = chain[Len(chain)]
    BY <2>3, <1>1, LastIn
  <2>5. s # <<>>
    BY <2>1, <1>6
  <2> QED BY <2>2, <2>4, <2>5
<1>11. IsInjective(s)
  <2>1. ASSUME NEW i \in DOMAIN s, NEW j \in DOMAIN s, s[i] = s[j] PROVE i = j
    <3>1. k + i - 1 = k + j - 1
      BY <2>1, <1>8 DEF IsInjective
    <3>2. i \in Nat /\ j \in Nat
      BY <2>1, <1>6, <1>2, <1>7
    <3> QED BY <3>1, <3>2, <1>7
  <2> QED BY <2>1 DEF IsInjective
<1>12. Trail(dep, s)
  <2>1. ASSUME NEW i \in DOMAIN s, i + 1 \in DOMAIN s PROVE s[i + 1] \in dep[s[i]]
    <3>1. i \in Nat
      BY <2>1, <1>6, <1>2, <1>7
    <3> DEFINE j == k + i - 1
    <3>2. k + (i + 1) - 1 = j + 1
      BY <3>1, <1>7
    <3>3. s[i] = chain[j] /\ j \in DOMAIN chain
      BY <2>1, <1>8
    <3>4. s[i + 1] = chain[j + 1] /\ j + 1 \in DOMAIN chain
      BY <2>1, <1>8, <3>2
    <3> HIDE DEF j
    <3> QED BY <3>3, <3>4 DEF Trail
  <2> QED BY <2>1, <1>5 DEF Trail
<1> QED BY <1>9, <1>10, <1>11, <1>12 DEF s

LEMMA DependsTyped ==
  ASSUME NEW x \in Trees
  PROVE  /\ Depends(x) \in Deps
         /\ \A n \in Ids : Depends(x)[n] = Dependencies(x, n)
         /\ \A n \in Ids : Reach(x)[n] = Far(Depends(x), n)
<1>1. ASSUME NEW n \in Ids PROVE Dependencies(x, n) \in SUBSET Ids
  <2>1. ASSUME NEW e \in x.edges, e.kind = "depends_on" PROVE e.to \in Ids
    <3>1. Fits(e)
      BY DEF Trees
    <3> QED BY <3>1, <2>1 DEF Fits
  <2> QED BY <2>1 DEF Dependencies, Live
<1>2. Depends(x) \in Deps
  BY <1>1 DEF Depends, Deps
<1> QED BY <1>2 DEF Depends, Reach, Far

(* `dependency_cycle` returns a cycle of dependencies, or nothing, and only *)
(* if no node leads to a cycle.                                             *)
LEMMA CycleFound ==
  ASSUME NEW x \in Trees
  PROVE  LET dep == Depends(x)
             c == DependencyCycle(x)
         IN /\ IsRing(dep, c) /\ c \in Seq(Ids)
            /\ (c # NoCycle) <=> (\E n \in x.nodes : \E m \in FarFrom(dep, n) : m \in Far(dep, m))
<1> DEFINE dep == Depends(x)
           e == DepthFirst(dep, x.nodes, TRUE)
           c == DependencyCycle(x)
<1>0. dep \in Deps /\ x.nodes \in SUBSET Ids
  BY DependsTyped, TreeFields
<1>1. c = IF e.met = None THEN NoCycle ELSE From(e.path, e.met)
  BY DEF DependencyCycle
<1> HIDE DEF dep, c
<1>2. /\ e \in DepthFirsts /\ Deep(dep, x.nodes, TRUE, e) /\ Settles(dep, e)
      /\ e.met = None => e.path = <<>> /\ e.left[None] = {}
  BY <1>0, SettledAtTheEnd
<1> HIDE DEF e
<1>3. CASE e.met = None
  <2>1. c = <<>>
    BY <1>1, <1>3 DEF NoCycle
  <2>2. IsRing(dep, c) /\ c \in Seq(Ids)
    BY <2>1 DEF IsRing, IsInjective
  <2>3. x.nodes \subseteq ToSet(e.order)
    <3>1. x.nodes \ e.left[None] \subseteq Visited(e)
      BY <1>2 DEF Deep
    <3>2. ToSet(e.path) = {}
      BY <1>2, <1>3 DEF ToSet
    <3> QED BY <3>1, <3>2, <1>2, <1>3 DEF Visited
  <2>4. ASSUME NEW n \in x.nodes, NEW m \in FarFrom(dep, n) PROVE m \notin Far(dep, m)
    <3>1. ToSet(e.order) \in SUBSET Ids
      BY <1>2, ToSetTyped DEF DepthFirsts
    <3>2. \A k \in ToSet(e.order) : dep[k] \subseteq ToSet(e.order) /\ k \notin Far(dep, k)
      BY <1>2 DEF Settles
    <3>3. n \in ToSet(e.order) /\ n \in Ids
      BY <2>3, <2>4, <1>0
    <3>4. Far(dep, n) \subseteq ToSet(e.order)
      BY <3>1, <3>2, <3>3, <1>0, FarWithin
    <3> QED BY <3>2, <3>3, <3>4 DEF FarFrom
  <2> QED BY <2>1, <2>2, <2>4 DEF NoCycle, c, dep
<1>4. CASE e.met # None
  <2>1. c = From(e.path, e.met)
    BY <1>1, <1>4
  <2>2. /\ Trail(dep, e.path) /\ IsInjective(e.path)
        /\ e.met \in ToSet(e.path) /\ e.met \in dep[At(e.path)]
        /\ e.path # <<>> => e.path[1] \in x.nodes
    BY <1>2, <1>4 DEF Deep
  <2>3. /\ Trail(dep, c) /\ IsInjective(c) /\ c # <<>>
        /\ c[1] = e.met /\ c[Len(c)] = At(e.path)
    BY <2>1, <2>2, <1>0, TrailFrom
  <2>4. IsRing(dep, c)
    BY <2>2, <2>3, <1>0, RingOf
  <2>5. c \in Seq(Ids)
    BY <2>3 DEF Trail
  <2>6. 1 \in DOMAIN c /\ Len(c) \in DOMAIN c /\ 1 <= Len(c)
    BY <2>3, <2>5
  <2>7. c[Len(c)] \in FarFrom(dep, c[1]) /\ c[1] \in Ids
    BY <2>3, <2>5, <2>6, <1>0, TrailLeadsOn
  <2>8. c[1] \in Far(dep, c[1])
    <3>1. dep[c[Len(c)]] \subseteq Far(dep, c[1])
      BY <2>7, <1>0, FarOnwards
    <3> QED BY <3>1, <2>2, <2>3
  <2>9. \E n \in x.nodes : c[1] \in FarFrom(dep, n)
    <3>1. e.path \in Seq(Ids)
      BY <2>2 DEF Trail
    <3>2. PICK i \in DOMAIN e.path : e.path[i] = e.met
      BY <2>2 DEF ToSet
    <3>3. 1 \in DOMAIN e.path /\ 1 <= i /\ e.path # <<>>
      BY <3>1, <3>2
    <3>4. e.path[i] \in FarFrom(dep, e.path[1])
      BY <3>2, <3>3, <2>2, <1>0, TrailLeadsOn
    <3> QED BY <3>2, <3>3, <3>4, <2>2, <2>3
  <2> QED BY <2>3, <2>4, <2>5, <2>8, <2>9 DEF NoCycle, c, dep
<1> QED BY <1>3, <1>4
-----------------------------------------------------------------------------
(* The order in which a walk depth first finishes *)

(* What a node that has finished depends on had finished when a later one   *)
(* did, or leads to the later one.                                          *)
Finishes(dep, order) ==
  \A i \in DOMAIN order : \A j \in 1..i : \A v \in dep[order[j]] :
    (\E k \in 1..i : order[k] = v) \/ order[i] \in FarFrom(dep, v)

LEMMA FinishesLeaves ==
  ASSUME NEW dep \in Deps, NEW roots \in SUBSET Ids,
         NEW w \in DepthFirsts, Deep(dep, roots, FALSE, w), w.met = None,
         w.left[At(w.path)] = {}, w.path # <<>>, Finishes(dep, w.order),
         IsInjective(w.order)
  PROVE  Finishes(dep, Leave(w).order) /\ IsInjective(Leave(w).order)
<1> DEFINE at == At(w.path)
           o == Leave(w).order
           N == Len(w.order)
<1>1. o = Append(w.order, at)
  BY Left
<1>2. ToSet(o) = ToSet(w.order) \cup {at} /\ at \in Ids \ ToSet(w.order)
  BY DeepLeaves
<1>3. w.path \in Seq(Ids) /\ w.order \in Seq(Ids)
  BY DEF DepthFirsts
<1> HIDE DEF o, at
<1>4. /\ o[N + 1] = at /\ \A i \in DOMAIN w.order : o[i] = w.order[i]
      /\ DOMAIN o = 1..(N + 1) /\ DOMAIN w.order = 1..N /\ N \in Nat
  BY <1>1, <1>2, <1>3, Appended
<1>5. IsInjective(o)
  BY <1>1, <1>2, <1>3, InjectiveAppend
<1>6. at = w.path[Len(w.path)] /\ Len(w.path) \in DOMAIN w.path /\ Len(w.path) \in Nat
      /\ DOMAIN w.path = 1..Len(w.path) /\ at \in ToSet(w.path)
  BY <1>3, LastIn DEF at
<1>7. w.left[at] = {}
  BY DEF at
<1> HIDE DEF N
<1>8. \A n \in ToSet(o) : n \in Ids /\ dep[n] \subseteq Visited(w)
  <2> TAKE n \in ToSet(o)
  <2>1. n \in Ids
    BY <1>2, <1>3, ToSetTyped
  <2>2. w.left[n] = {}
    BY <1>2, <1>7 DEF Deep
  <2> QED BY <2>1, <2>2 DEF Deep
<1>9. ASSUME NEW i \in DOMAIN o, NEW j \in 1..i, NEW v \in dep[o[j]]
      PROVE  (\E k \in 1..i : o[k] = v) \/ o[i] \in FarFrom(dep, v)
  <2>1. CASE i \in DOMAIN w.order
    <3>1. \A k \in 1..i : k \in DOMAIN w.order /\ o[k] = w.order[k]
      BY <2>1, <1>4
    <3>2. v \in dep[w.order[j]] /\ o[i] = w.order[i]
      BY <3>1, <1>4, <2>1, <1>9
    <3>3. (\E k \in 1..i : w.order[k] = v) \/ w.order[i] \in FarFrom(dep, v)
      BY <3>2, <2>1 DEF Finishes
    <3> QED BY <3>1, <3>2, <3>3
  <2>2. CASE i = N + 1
    <3>1. j \in DOMAIN o
      BY <2>2, <1>4
    <3>2. o[j] \in ToSet(o)
      BY <3>1 DEF ToSet
    <3>3. v \in Visited(w)
      BY <3>2, <1>8, <1>9
    <3>4. CASE v \in ToSet(w.order)
      <4>1. PICK k \in DOMAIN w.order : w.order[k] = v
        BY <3>4 DEF ToSet
      <4>2. k \in 1..i /\ o[k] = v
        BY <4>1, <2>2, <1>4
      <4> QED BY <4>2
    <3>5. CASE v \in ToSet(w.path)
      <4>1. PICK k \in DOMAIN w.path : w.path[k] = v
        BY <3>5 DEF ToSet
      <4>2. k <= Len(w.path)
        BY <1>6
      <4>3. w.path[Len(w.path)] \in FarFrom(dep, w.path[k])
        BY <4>2, <1>6, TrailLeadsOn DEF Deep
      <4> QED BY <4>1, <4>3, <2>2, <1>4, <1>6
    <3> QED BY <3>3, <3>4, <3>5 DEF Visited
  <2> QED BY <2>1, <2>2, <1>4
<1>10. Finishes(dep, o)
  BY <1>9 DEF Finishes
<1> QED BY <1>5, <1>10 DEF o

(* What the first of Kosaraju's passes leaves to the second.                *)
LEMMA FirstPass ==
  ASSUME NEW dep \in Deps, NEW roots \in SUBSET Ids
  PROVE  LET o == DepthFirst(dep, roots, FALSE).order
         IN o \in Seq(Ids) /\ roots \subseteq ToSet(o) /\ IsInjective(o) /\ Finishes(dep, o)
<1> DEFINE I == {w \in DepthFirsts : /\ Deep(dep, roots, FALSE, w)
                                     /\ Finishes(dep, w.order) /\ IsInjective(w.order)}
           d == DfsStart(dep, roots)
<1>1. d \in DepthFirsts /\ Deep(dep, roots, FALSE, d)
  BY DeepAtFirst
<1>2. Finishes(dep, d.order) /\ IsInjective(d.order)
  <2>1. d.order = <<>>
    BY DEF DfsStart
  <2> HIDE DEF d
  <2> QED BY <2>1 DEF Finishes, IsInjective
<1>3. ASSUME NEW w \in I, w.met = None, w.left[At(w.path)] # {}
      PROVE  Advance(w, FALSE) \in I
  <2>1. Advance(w, FALSE) \in DepthFirsts /\ Advance(w, FALSE).order = w.order
    BY <1>3, Advanced
  <2> QED BY <2>1, <1>3, DeepAdvances
<1>4. ASSUME NEW w \in I, w.met = None, w.left[At(w.path)] = {}, w.path # <<>>
      PROVE  Leave(w) \in I
  <2>1. Leave(w) \in DepthFirsts
    BY <1>4, Left
  <2> QED BY <2>1, <1>4, DeepLeaves, FinishesLeaves
<1>5. Kept(dep, roots, FALSE, I)
  <2>1. d \in I /\ \A w \in I : w \in DepthFirsts /\ Deep(dep, roots, FALSE, w)
    BY <1>1, <1>2
  <2> HIDE DEF I
  <2> QED BY <2>1, <1>3, <1>4 DEF Kept
<1> DEFINE e == DepthFirst(dep, roots, FALSE)
<1>6. e \in I /\ (e.met # None \/ (e.path = <<>> /\ e.left[None] = {}))
  <2> HIDE DEF I
  <2> QED BY <1>5, DepthFirstRule
<1> HIDE DEF e
<1>7. e.met = None
  BY <1>6 DEF Deep
<1>8. roots \subseteq ToSet(e.order)
  <2>1. roots \ e.left[None] \subseteq Visited(e)
    BY <1>6 DEF Deep
  <2>2. ToSet(e.path) = {}
    BY <1>6, <1>7 DEF ToSet
  <2> QED BY <2>1, <2>2, <1>6, <1>7 DEF Visited
<1>9. e.order \in Seq(Ids)
  BY <1>6 DEF DepthFirsts
<1> QED BY <1>6, <1>8, <1>9 DEF e
-----------------------------------------------------------------------------
(* What depends on each other *)

Together(dep, m) == {v \in Ids : v \in FarFrom(dep, m) /\ m \in FarFrom(dep, v)}
OnCycles(dep) == {m \in Ids : m \in Far(dep, m)}

LEMMA FarFromOn ==
  ASSUME NEW dep \in Deps, NEW n \in Ids, NEW m \in FarFrom(dep, n), NEW k \in FarFrom(dep, m)
  PROVE  m \in Ids /\ k \in Ids /\ k \in FarFrom(dep, n)
<1>1. m \in Ids /\ Far(dep, m) \subseteq Far(dep, n)
  BY FarOnwards
<1>2. Far(dep, m) \in SUBSET Ids
  BY <1>1, FarIsLeast
<1> QED BY <1>1, <1>2 DEF FarFrom

(* One step, and then on.                                                   *)
LEMMA FarByOne ==
  ASSUME NEW dep \in Deps, NEW n \in Ids, NEW m \in dep[n], NEW k \in FarFrom(dep, m)
  PROVE  m \in Ids /\ m \in Far(dep, n) /\ k \in Far(dep, n)
<1>1. m \in Ids /\ m \in Far(dep, n)
  BY FarIsLeast DEF Deps
<1>2. Far(dep, m) \subseteq Far(dep, n)
  BY <1>1, FarOnwards DEF FarFrom
<1> QED BY <1>1, <1>2 DEF FarFrom

LEMMA TogetherAgree ==
  ASSUME NEW dep \in Deps, NEW s \in Ids, NEW m \in Together(dep, s)
  PROVE  /\ Together(dep, m) = Together(dep, s)
         /\ m \in Far(dep, m) <=> s \in Far(dep, s)
<1>1. m \in Ids /\ m \in FarFrom(dep, s) /\ s \in FarFrom(dep, m)
  BY DEF Together
<1>2. ASSUME NEW v \in Together(dep, m) PROVE v \in Together(dep, s)
  <2>1. v \in Ids /\ v \in FarFrom(dep, m) /\ m \in FarFrom(dep, v)
    BY DEF Together
  <2>2. v \in FarFrom(dep, s)
    BY <1>1, <2>1, FarFromOn
  <2>3. s \in FarFrom(dep, v)
    BY <1>1, <2>1, FarFromOn
  <2> QED BY <2>1, <2>2, <2>3 DEF Together
<1>3. ASSUME NEW v \in Together(dep, s) PROVE v \in Together(dep, m)
  <2>1. v \in Ids /\ v \in FarFrom(dep, s) /\ s \in FarFrom(dep, v)
    BY DEF Together
  <2>2. v \in FarFrom(dep, m)
    BY <1>1, <2>1, FarFromOn
  <2>3. m \in FarFrom(dep, v)
    BY <1>1, <2>1, FarFromOn
  <2> QED BY <1>1, <2>1, <2>2, <2>3 DEF Together
<1>4. m # s => m \in Far(dep, m) /\ s \in Far(dep, s)
  <2> HAVE m # s
  <2>1. m \in Far(dep, s) /\ s \in Far(dep, m)
    BY <1>1 DEF FarFrom
  <2>2. Far(dep, m) \subseteq Far(dep, s) /\ Far(dep, s) \subseteq Far(dep, m)
    BY <1>1, FarOnwards
  <2> QED BY <2>1, <2>2
<1> QED BY <1>2, <1>3, <1>4

-----------------------------------------------------------------------------
(* The second pass *)

(* Nothing that is not assigned yet leads to what is.                       *)
Apart(dep, assigned) == \A v \in Ids \ assigned : dep[v] \cap assigned = {}

LEMMA ApartFar ==
  ASSUME NEW dep \in Deps, NEW assigned \in SUBSET Ids, Apart(dep, assigned),
         NEW n \in Ids \ assigned, NEW m \in FarFrom(dep, n)
  PROVE  m \in Ids \ assigned
<1> DEFINE T == Ids \ assigned
<1>1. \A v \in T : dep[v] \subseteq T
  BY DEF Apart, Deps
<1>2. Far(dep, n) \subseteq T
  <2>1. T \in SUBSET Ids /\ n \in T
    OBVIOUS
  <2> HIDE DEF T
  <2> QED BY <1>1, <2>1, FarWithin
<1> QED BY <1>2 DEF FarFrom

LEMMA BackFrom ==
  ASSUME NEW dep \in Deps, NEW assigned \in SUBSET Ids, Apart(dep, assigned),
         NEW s \in Ids \ assigned
  PROVE  Gather(Sources(dep), {s}, assigned \cup {s}) \ assigned
           = {v \in Ids \ assigned : s \in FarFrom(dep, v)}
<1> DEFINE next == Sources(dep)
           G == Gather(next, {s}, assigned \cup {s})
           C == {v \in Ids \ assigned : s \in FarFrom(dep, v)}
           T == assigned \cup C
<1>1. next \in [Ids -> SUBSET Ids] /\ \A m \in Ids : next[m] = {y \in Ids : m \in dep[y]}
  BY DEF Sources
<1> HIDE DEF next
<1>2. /\ G \in SUBSET Ids
      /\ Grows(next, {s}, assigned \cup {s}, G)
      /\ \A U \in SUBSET Ids : Grows(next, {s}, assigned \cup {s}, U) => G \subseteq U
  <2>1. {s} \in SUBSET Ids /\ assigned \cup {s} \in SUBSET Ids
    OBVIOUS
  <2> QED BY <1>1, <2>1, Gathered
<1> HIDE DEF G
<1>3. Grows(next, {s}, assigned \cup {s}, T)
  <2>1. s \in C
    BY DEF FarFrom
  <2>2. ASSUME NEW m \in C, NEW y \in next[m] PROVE y \in T
    <3>1. y \in Ids /\ m \in dep[y] /\ s \in FarFrom(dep, m)
      BY <1>1, <2>2
    <3>2. s \in Far(dep, y)
      BY <3>1, FarByOne
    <3> QED BY <3>1, <3>2 DEF FarFrom
  <2>3. {s} \cup (T \ (assigned \cup {s})) \subseteq C /\ assigned \cup {s} \subseteq T
    BY <2>1
  <2> HIDE DEF T, C
  <2> QED BY <2>2, <2>3 DEF Grows
<1>4. G \subseteq T
  <2>1. T \in SUBSET Ids
    OBVIOUS
  <2> HIDE DEF T
  <2> QED BY <2>1, <1>2, <1>3
<1>5. ASSUME NEW v \in C PROVE v \in G
  <2> SUFFICES ASSUME v \notin G PROVE FALSE
    OBVIOUS
  <2> DEFINE U == (Ids \ assigned) \ G
  <2>1. ASSUME NEW y \in U, NEW z \in dep[y] PROVE z \in U
    <3>1. z \in Ids \ assigned
      BY <2>1 DEF Apart, Deps
    <3>2. z \in G => z \in {s} \cup (G \ (assigned \cup {s}))
      BY <3>1
    <3>3. z \in G => next[z] \subseteq G
      BY <3>2, <1>2 DEF Grows
    <3>4. y \in next[z]
      BY <3>1, <2>1, <1>1
    <3> QED BY <3>1, <3>3, <3>4, <2>1
  <2>2. s \in G
    BY <1>2 DEF Grows
  <2>3. v \in U /\ U \in SUBSET Ids /\ v \in Ids
    OBVIOUS
  <2>4. s \in Far(dep, v)
    BY <2>2 DEF FarFrom
  <2>5. s \notin U
    BY <2>2
  <2> HIDE DEF U
  <2>6. Far(dep, v) \subseteq U
    BY <2>1, <2>3, FarWithin
  <2> QED BY <2>4, <2>5, <2>6
<1>6. G \ assigned = C
  BY <1>4, <1>5
<1> QED BY <1>6 DEF G, next

(* What the first pass gives to the second, and where the second is.        *)
Ordered(dep, order) ==
  /\ order \in Seq(Ids) /\ IsInjective(order) /\ Finishes(dep, order)
  /\ \A n \in Ids : dep[n] # {} => n \in ToSet(order)
Behind(order, k, assigned) == \A i \in DOMAIN order : i > k => order[i] \in assigned

(* What leads to the last node that is not assigned, the node leads back to. *)
LEMMA LedBack ==
  ASSUME NEW dep \in Deps, NEW order, Ordered(dep, order), NEW assigned \in SUBSET Ids,
         Apart(dep, assigned), NEW k \in DOMAIN order, Behind(order, k, assigned),
         NEW s, s = order[k], s \notin assigned,
         NEW v \in Ids \ assigned, s \in FarFrom(dep, v)
  PROVE  v \in FarFrom(dep, s)
<1> SUFFICES ASSUME v \notin FarFrom(dep, s) PROVE FALSE
  OBVIOUS
<1>1. order \in Seq(Ids) /\ DOMAIN order = 1..Len(order) /\ Len(order) \in Nat
  <2>1. order \in Seq(Ids)
    BY DEF Ordered
  <2> QED BY <2>1
<1>2. s \in Ids /\ s \in ToSet(order) /\ s \in FarFrom(dep, s)
  BY <1>1 DEF ToSet, FarFrom
<1>3. ASSUME NEW y \in Ids, s \in FarFrom(dep, y)
      PROVE  \E i \in DOMAIN order : order[i] = y
  <2>1. CASE y = s
    BY <2>1
  <2>2. CASE y # s
    <3>1. s \in Far(dep, y)
      BY <1>3, <2>2 DEF FarFrom
    <3>2. dep[y] # {}
      BY <3>1, FarBegins
    <3> QED BY <3>2 DEF Ordered, ToSet
  <2> QED BY <2>1, <2>2
<1> DEFINE J == {i \in DOMAIN order : /\ order[i] \notin assigned
                                      /\ s \in FarFrom(dep, order[i])
                                      /\ order[i] \notin FarFrom(dep, s)}
<1>4. J # {}
  BY <1>3
<1>5. PICK j \in J : \A i \in J : i <= j
  <2>1. J \in SUBSET (0..Len(order))
    BY <1>1
  <2> HIDE DEF J
  <2> QED BY <2>1, <1>1, <1>4, GreatestExists
<1> DEFINE n == order[j]
<1>6. /\ j \in DOMAIN order /\ n \in Ids /\ n \notin assigned
      /\ s \in FarFrom(dep, n) /\ n \notin FarFrom(dep, s) /\ n # s
  BY <1>1, <1>2
<1>7. j < k /\ j \in Nat /\ k \in Nat
  <2>1. j \in Nat /\ k \in Nat /\ j # k
    BY <1>1, <1>6
  <2>2. ~(j > k)
    BY <1>6 DEF Behind
  <2> QED BY <2>1, <2>2
<1>8. ASSUME NEW i \in DOMAIN order, i \notin 1..j, order[i] \notin assigned,
             s \in FarFrom(dep, order[i])
      PROVE  order[i] \in FarFrom(dep, s)
  <2>1. ~(i <= j)
    BY <1>1, <1>7, <1>8
  <2> QED BY <2>1, <1>5, <1>8
<1> HIDE DEF J, n
<1> DEFINE P == {order[a] : a \in 1..j}
           T == {y \in FarFrom(dep, n) : y \in P \/ s \notin FarFrom(dep, y)}
<1>9. s \notin P
  <2> SUFFICES ASSUME NEW a \in 1..j, order[a] = s PROVE FALSE
    OBVIOUS
  <2>1. a \in DOMAIN order /\ a # k
    BY <1>1, <1>6, <1>7
  <2> QED BY <2>1 DEF Ordered, IsInjective
<1>10. FarFrom(dep, n) \in SUBSET Ids /\ n \in FarFrom(dep, n) /\ n \in P
  <2>1. j \in 1..j
    BY <1>1, <1>6
  <2> QED BY <2>1, <1>6, FarIsLeast DEF FarFrom, n
<1>11. \E a \in T : \E b \in dep[a] : b \notin T
  <2> SUFFICES ASSUME \A a \in T : dep[a] \subseteq T PROVE FALSE
    OBVIOUS
  <2>1. T \in SUBSET Ids /\ n \in T /\ s \notin T
    BY <1>2, <1>9, <1>10
  <2> HIDE DEF T
  <2>2. Far(dep, n) \subseteq T
    BY <2>1, <1>6, FarWithin
  <2> QED BY <2>1, <2>2, <1>6 DEF FarFrom
<1>12. PICK a \in T : \E b \in dep[a] : b \notin T
  BY <1>11
<1>13. PICK b \in dep[a] : b \notin T
  BY <1>12
<1>14. a \in FarFrom(dep, n) /\ a \in Ids /\ b \in Ids /\ b \in FarFrom(dep, n)
  <2>1. a \in FarFrom(dep, n) /\ a \in Ids
    BY <1>10, <1>12
  <2>2. dep[a] \subseteq Far(dep, n)
    BY <2>1, <1>6, FarOnwards
  <2> QED BY <2>1, <2>2, <1>10, <1>13 DEF FarFrom
<1>15. b \notin P /\ s \in FarFrom(dep, b)
  BY <1>13, <1>14
<1>16. a \in P
  <2>1. s \in Far(dep, a)
    BY <1>13, <1>14, <1>15, FarByOne
  <2> QED BY <2>1, <1>12 DEF FarFrom
<1> HIDE DEF T
<1>17. n \in FarFrom(dep, b)
  <2>1. PICK i \in 1..j : a = order[i]
    BY <1>16
  <2>2. b \in dep[order[i]]
    BY <2>1, <1>13
  <2>3. (\E l \in 1..j : order[l] = b) \/ order[j] \in FarFrom(dep, b)
    BY <2>1, <2>2, <1>6 DEF Ordered, Finishes
  <2> QED BY <2>3, <1>15 DEF n
<1>18. b \in FarFrom(dep, s)
  <2>1. b \notin assigned
    BY <1>6, <1>14, ApartFar
  <2>2. PICK i \in DOMAIN order : order[i] = b
    BY <1>3, <1>14, <1>15
  <2>3. i \notin 1..j
    BY <2>2, <1>15
  <2> QED BY <2>1, <2>2, <2>3, <1>8, <1>15
<1>19. n \in FarFrom(dep, s)
  BY <1>2, <1>17, <1>18, FarFromOn
<1> QED BY <1>6, <1>19

(* So what the second pass takes next is all that depends on each other.    *)
LEMMA ComponentTaken ==
  ASSUME NEW dep \in Deps, NEW order, Ordered(dep, order), NEW assigned \in SUBSET Ids,
         Apart(dep, assigned), NEW k \in DOMAIN order, Behind(order, k, assigned),
         NEW s, s = order[k], s \notin assigned
  PROVE  /\ s \in Ids
         /\ Gather(Sources(dep), {s}, assigned \cup {s}) \ assigned = Together(dep, s)
         /\ Together(dep, s) \cap assigned = {}
         /\ Apart(dep, assigned \cup Together(dep, s))
<1>1. s \in Ids \ assigned
  <2>1. order \in Seq(Ids)
    BY DEF Ordered
  <2> QED BY <2>1
<1> DEFINE C == {v \in Ids \ assigned : s \in FarFrom(dep, v)}
<1>2. Gather(Sources(dep), {s}, assigned \cup {s}) \ assigned = C
  BY <1>1, BackFrom
<1>3. ASSUME NEW v \in C PROVE v \in Together(dep, s)
  <2>1. v \in Ids \ assigned /\ s \in FarFrom(dep, v)
    OBVIOUS
  <2>2. v \in FarFrom(dep, s)
    BY <2>1, LedBack
  <2> QED BY <2>1, <2>2 DEF Together
<1>4. ASSUME NEW v \in Together(dep, s) PROVE v \in C
  <2>1. v \in Ids /\ v \in FarFrom(dep, s) /\ s \in FarFrom(dep, v)
    BY DEF Together
  <2>2. v \in Ids \ assigned
    BY <2>1, <1>1, ApartFar
  <2> QED BY <2>1, <2>2
<1>5. C = Together(dep, s)
  BY <1>3, <1>4
<1>6. ASSUME NEW v \in Ids \ (assigned \cup C), NEW z \in dep[v]
      PROVE  z \notin assigned \cup C
  <2>1. z \notin assigned
    BY <1>6 DEF Apart
  <2>2. ASSUME z \in C PROVE FALSE
    <3>1. s \in Far(dep, v)
      BY <1>6, <2>2, FarByOne
    <3> QED BY <3>1, <1>6 DEF FarFrom
  <2> QED BY <2>1, <2>2
<1>7. Apart(dep, assigned \cup C)
  <2> HIDE DEF C
  <2> QED BY <1>6 DEF Apart
<1> QED BY <1>1, <1>2, <1>5, <1>7
LEMMA SeveralCounted ==
  ASSUME NEW S \in SUBSET Ids, NEW a \in S
  PROVE  Cardinality(S) > 1 <=> \E b \in S : b # a
<1>1. ASSUME \E b \in S : b # a PROVE Cardinality(S) > 1
  <2>1. {a} \in SUBSET S /\ {a} # S
    BY <1>1
  <2>2. Cardinality({a}) < Cardinality(S)
    BY <2>1, FewerCounted
  <2>3. Cardinality({a}) = 1 /\ Cardinality(S) \in Nat
    BY FS_Singleton, CountTyped
  <2> QED BY <2>2, <2>3
<1>2. ASSUME \A b \in S : b = a PROVE ~(Cardinality(S) > 1)
  BY <1>2, OneOf
<1> QED BY <1>1, <1>2

LEMMA CycleHeld ==
  ASSUME NEW dep \in Deps, NEW s \in Ids
  PROVE  HoldsCycle(dep, Together(dep, s), s) <=> s \in Far(dep, s)
<1> DEFINE C == Together(dep, s)
<1>1. C \in SUBSET Ids /\ s \in C
  BY DEF Together, FarFrom
<1>2. Cardinality(C) > 1 <=> \E b \in C : b # s
  <2> HIDE DEF C
  <2> QED BY <1>1, SeveralCounted
<1>3. ASSUME NEW b \in C, b # s PROVE s \in Far(dep, s)
  <2>1. b \in Far(dep, s) /\ s \in Far(dep, b)
    BY <1>3 DEF Together, FarFrom
  <2>2. Far(dep, b) \subseteq Far(dep, s)
    BY <2>1, FarOnwards DEF FarFrom
  <2> QED BY <2>1, <2>2
<1>4. s \in dep[s] => s \in Far(dep, s)
  BY FarIsLeast
<1>5. ASSUME s \in Far(dep, s) PROVE s \in dep[s] \/ \E b \in C : b # s
  <2>1. PICK b \in dep[s] : s \in FarFrom(dep, b)
    BY <1>5, FarBegins
  <2>2. b \in Ids /\ b \in Far(dep, s)
    BY <2>1, FarByOne
  <2>3. b \in C
    BY <2>1, <2>2 DEF Together, FarFrom
  <2> QED BY <2>1, <2>3
<1> QED BY <1>2, <1>3, <1>4, <1>5 DEF HoldsCycle

(* What is assigned has been searched for cycles.                           *)
Taking(dep, order, w) ==
  /\ Apart(dep, w.assigned) /\ Behind(order, w.k, w.assigned)
  /\ w.found = {Together(dep, m) : m \in w.assigned \cap OnCycles(dep)}

LEMMA TakeTyped ==
  ASSUME NEW dep \in Deps, NEW order \in Seq(Ids), NEW w \in Takes(order), w.k # 0
  PROVE  LET s == order[w.k]
             C == Gather(Sources(dep), {s}, w.assigned \cup {s}) \ w.assigned
             v == Take(dep, w, s)
         IN /\ s \in Ids /\ w.k \in DOMAIN order
            /\ v \in Takes(order) /\ v.k = w.k - 1
            /\ s \in w.assigned => v.assigned = w.assigned /\ v.found = w.found
            /\ s \notin w.assigned =>
                 /\ v.assigned = w.assigned \cup C
                 /\ v.found = IF HoldsCycle(dep, C, s) THEN w.found \cup {C} ELSE w.found
<1> DEFINE s == order[w.k]
           C == Gather(Sources(dep), {s}, w.assigned \cup {s}) \ w.assigned
           v == Take(dep, w, s)
<1>1. /\ w.k \in 0..Len(order) /\ w.assigned \in SUBSET Ids
      /\ w.found \in SUBSET SUBSET Ids
  BY DEF Takes
<1>2. Len(order) \in Nat /\ DOMAIN order = 1..Len(order)
  OBVIOUS
<1>3. w.k \in DOMAIN order /\ w.k - 1 \in 0..Len(order)
  BY <1>1, <1>2
<1>4. s \in Ids
  BY <1>3
<1> HIDE DEF s
<1>5. C \in SUBSET Ids
  <2>1. Sources(dep) \in [Ids -> SUBSET Ids]
    BY DEF Sources
  <2>2. {s} \in SUBSET Ids /\ w.assigned \cup {s} \in SUBSET Ids /\ {s} \subseteq w.assigned \cup {s}
    BY <1>1, <1>4
  <2>3. Gather(Sources(dep), {s}, w.assigned \cup {s}) \in SUBSET Ids
    BY <2>1, <2>2, Gathered
  <2> QED BY <2>3
<1>6. CASE s \in w.assigned
  <2>1. v = [w EXCEPT !.k = w.k - 1]
    BY <1>6 DEF Take
  <2>2. v \in Takes(order) /\ v.k = w.k - 1 /\ v.assigned = w.assigned /\ v.found = w.found
    BY <2>1, <1>3 DEF Takes
  <2> QED BY <2>2, <1>3, <1>4, <1>6 DEF s
<1>7. CASE s \notin w.assigned
  <2> DEFINE found == IF HoldsCycle(dep, C, s) THEN w.found \cup {C} ELSE w.found
             assigned == w.assigned \cup C
  <2>1. v = [k |-> w.k - 1, assigned |-> assigned, found |-> found]
    BY <1>7 DEF Take
  <2>2. assigned \in SUBSET Ids /\ found \in SUBSET SUBSET Ids
    BY <1>1, <1>5
  <2> HIDE DEF v, C
  <2>3. v.k = w.k - 1 /\ v.assigned = assigned /\ v.found = found
    BY <2>1
  <2>4. v \in Takes(order)
    <3> HIDE DEF found, assigned
    <3> QED BY <2>1, <2>2, <1>3 DEF Takes
  <2> QED BY <2>3, <2>4, <1>3, <1>4, <1>7 DEF s, v, C
<1> QED BY <1>6, <1>7

LEMMA TakeKeeps ==
  ASSUME NEW dep \in Deps, NEW order, Ordered(dep, order), NEW w \in Takes(order),
         w.k # 0, Taking(dep, order, w)
  PROVE  Taking(dep, order, Take(dep, w, order[w.k]))
<1> DEFINE s == order[w.k]
           C == Gather(Sources(dep), {s}, w.assigned \cup {s}) \ w.assigned
           v == Take(dep, w, s)
<1>1. order \in Seq(Ids)
  BY DEF Ordered
<1>2. /\ s \in Ids /\ w.k \in DOMAIN order
      /\ v \in Takes(order) /\ v.k = w.k - 1
      /\ s \in w.assigned => v.assigned = w.assigned /\ v.found = w.found
      /\ s \notin w.assigned =>
           /\ v.assigned = w.assigned \cup C
           /\ v.found = IF HoldsCycle(dep, C, s) THEN w.found \cup {C} ELSE w.found
  BY <1>1, TakeTyped
<1>3. DOMAIN order = 1..Len(order) /\ Len(order) \in Nat
  BY <1>1
<1>4. s = order[w.k]
  OBVIOUS
<1> HIDE DEF v
<1>5. ASSUME s \in v.assigned, w.assigned \subseteq v.assigned
      PROVE  Behind(order, v.k, v.assigned)
  <2>1. ASSUME NEW i \in DOMAIN order, i > v.k PROVE order[i] \in v.assigned
    <3>1. i = w.k \/ i > w.k
      BY <2>1, <1>2, <1>3
    <3> QED BY <3>1, <1>4, <1>5 DEF Taking, Behind
  <2> QED BY <2>1 DEF Behind
<1>6. w.assigned \in SUBSET Ids
  BY DEF Takes
<1> HIDE DEF s
<1>7. CASE s \in w.assigned
  <2>1. v.assigned = w.assigned /\ v.found = w.found
    BY <1>2, <1>7
  <2>2. Behind(order, v.k, v.assigned)
    BY <2>1, <1>5, <1>7
  <2>3. Taking(dep, order, v)
    BY <2>1, <2>2 DEF Taking
  <2> QED BY <2>3 DEF v, s
<1>8. CASE s \notin w.assigned
  <2>1. /\ C = Together(dep, s)
        /\ Apart(dep, w.assigned \cup Together(dep, s))
    <3>1. Apart(dep, w.assigned) /\ Behind(order, w.k, w.assigned)
      BY DEF Taking
    <3> QED BY <3>1, <1>2, <1>4, <1>6, <1>8, ComponentTaken
  <2> HIDE DEF C
  <2>2. /\ v.assigned = w.assigned \cup Together(dep, s)
        /\ v.found = IF HoldsCycle(dep, Together(dep, s), s)
                     THEN w.found \cup {Together(dep, s)} ELSE w.found
    BY <2>1, <1>2, <1>8
  <2>3. s \in Together(dep, s)
    BY <1>2 DEF Together, FarFrom
  <2>4. Apart(dep, v.assigned) /\ Behind(order, v.k, v.assigned)
    BY <2>1, <2>2, <2>3, <1>5
  <2>5. v.found = {Together(dep, m) : m \in v.assigned \cap OnCycles(dep)}
    <3>1. \A m \in Together(dep, s) : /\ Together(dep, m) = Together(dep, s)
                                      /\ m \in Far(dep, m) <=> s \in Far(dep, s)
      BY <1>2, TogetherAgree
    <3>2. w.found = {Together(dep, m) : m \in w.assigned \cap OnCycles(dep)}
      BY DEF Taking
    <3>3. HoldsCycle(dep, Together(dep, s), s) <=> s \in Far(dep, s)
      BY <1>2, CycleHeld
    <3>4. \A m \in Together(dep, s) : m \in Ids
      BY DEF Together
    <3>5. CASE s \in Far(dep, s)
      <4>1. v.found = w.found \cup {Together(dep, s)}
        BY <3>3, <3>5, <2>2
      <4>2. v.assigned \cap OnCycles(dep) =
              (w.assigned \cap OnCycles(dep)) \cup Together(dep, s)
        BY <3>1, <3>4, <3>5, <2>2 DEF OnCycles
      <4>3. {Together(dep, m) : m \in (w.assigned \cap OnCycles(dep)) \cup Together(dep, s)}
              = {Together(dep, m) : m \in w.assigned \cap OnCycles(dep)} \cup {Together(dep, s)}
        BY <3>1, <2>3
      <4> QED BY <4>1, <4>2, <4>3, <3>2
    <3>6. CASE s \notin Far(dep, s)
      <4>1. v.found = w.found
        BY <3>3, <3>6, <2>2
      <4>2. v.assigned \cap OnCycles(dep) = w.assigned \cap OnCycles(dep)
        BY <3>1, <3>6, <2>2 DEF OnCycles
      <4> QED BY <4>1, <4>2, <3>2
    <3> QED BY <3>5, <3>6
  <2>6. Taking(dep, order, v)
    BY <2>4, <2>5 DEF Taking
  <2> QED BY <2>6 DEF v, s
<1> QED BY <1>7, <1>8

(* Every dependency comes from a node.                                      *)
Sourced(x) == \A n \in Ids : Depends(x)[n] # {} => n \in x.nodes

(* Kosaraju's two passes find the components that hold a cycle.             *)
LEMMA ComponentsFound ==
  ASSUME NEW x \in Trees, Sourced(x)
  PROVE  StronglyConnected(x) = {Together(Depends(x), m) : m \in OnCycles(Depends(x))}
<1> DEFINE dep == Depends(x)
           order == Finished(x)
           step == [w \in Takes(order) |->
                      IF w.k = 0 THEN w ELSE Take(dep, w, Taken(order, w.k))]
           I == {w \in Takes(order) : Taking(dep, order, w)}
           d == [k |-> Len(order), assigned |-> {}, found |-> {}]
           A == [w \in Takes(order) |-> w.k]
           B == [w \in Takes(order) |-> 0]
           e == Loop(step)[d]
<1>1. dep \in Deps /\ x.nodes \in SUBSET Ids
  BY DependsTyped, TreeFields
<1>2. Ordered(dep, order) /\ order \in Seq(Ids)
  <2>1. /\ order \in Seq(Ids) /\ x.nodes \subseteq ToSet(order)
        /\ IsInjective(order) /\ Finishes(dep, order)
    <3>1. order = DepthFirst(dep, x.nodes, FALSE).order
      BY DEF Finished
    <3> HIDE DEF order, dep
    <3> QED BY <3>1, <1>1, FirstPass
  <2> QED BY <2>1 DEF Ordered, Sourced
<1>3. StronglyConnected(x) = e.found
  BY DEF StronglyConnected
<1>13. \A n \in OnCycles(dep) : n \in ToSet(order)
  <2> TAKE n \in OnCycles(dep)
  <2>1. n \in Ids /\ n \in Far(dep, n)
    BY DEF OnCycles
  <2> HIDE DEF dep, order
  <2>2. dep[n] # {}
    BY <2>1, <1>1, FarBegins
  <2> QED BY <2>1, <2>2, <1>2 DEF Ordered
<1> HIDE DEF dep, order, e
<1>4. Len(order) \in Nat /\ DOMAIN order = 1..Len(order)
  BY <1>2
<1>5. d \in I
  <2>1. d.k = Len(order) /\ d.assigned = {} /\ d.found = {}
    OBVIOUS
  <2>2. d \in Takes(order)
    BY <1>4 DEF Takes
  <2> HIDE DEF d
  <2>3. Behind(order, d.k, d.assigned)
    BY <1>4, <2>1 DEF Behind
  <2>4. Apart(dep, d.assigned)
    BY <2>1 DEF Apart
  <2>5. Taking(dep, order, d)
    BY <2>1, <2>3, <2>4 DEF Taking
  <2> QED BY <2>2, <2>5
<1>6. ASSUME NEW w \in Takes(order)
      PROVE  /\ step[w] \in Takes(order) /\ w.k \in Nat
             /\ step[w] # w => step[w].k < w.k
             /\ step[w] = w => w.k = 0
             /\ Taking(dep, order, w) => Taking(dep, order, step[w])
  <2>1. w.k \in Nat
    BY DEF Takes
  <2>2. CASE w.k = 0
    BY <2>1, <2>2
  <2>3. CASE w.k # 0
    <3>1. step[w] = Take(dep, w, order[w.k])
      BY <2>3 DEF Taken
    <3> HIDE DEF step
    <3>2. step[w] \in Takes(order) /\ step[w].k = w.k - 1
      <4>1. Take(dep, w, order[w.k]) \in Takes(order) /\ Take(dep, w, order[w.k]).k = w.k - 1
        BY <2>3, <1>1, <1>2, TakeTyped
      <4> QED BY <3>1, <4>1
    <3>3. Taking(dep, order, w) => Taking(dep, order, step[w])
      BY <3>1, <2>3, <1>1, <1>2, TakeKeeps
    <3>4. step[w].k < w.k /\ step[w] # w
      BY <3>2, <2>1
    <3> QED BY <3>2, <3>3, <3>4, <2>1
  <2> QED BY <2>2, <2>3
<1>7. step \in [Takes(order) -> Takes(order)]
  BY <1>6
<1> HIDE DEF step, d
<1>8. Shrinks(I, step, A, B, B)
  <2>1. ASSUME NEW w \in I PROVE A[w] \in Nat /\ B[w] \in Nat
    BY <1>6
  <2>2. ASSUME NEW w \in I, step[w] # w PROVE A[step[w]] < A[w]
    BY <2>2, <1>6
  <2> HIDE DEF I, A, B
  <2> QED BY <2>1, <2>2 DEF Shrinks
<1>9. e \in I /\ step[e] = e
  <2>1. I \in SUBSET Takes(order) /\ \A w \in I : step[w] \in I
    BY <1>6
  <2> HIDE DEF I, A, B
  <2> QED BY <1>5, <1>7, <1>8, <2>1, LoopRule DEF e
<1>10. e.k = 0 /\ Taking(dep, order, e)
  BY <1>6, <1>9
<1>11. ASSUME NEW n \in ToSet(order) PROVE n \in e.assigned
  <2>1. PICK i \in DOMAIN order : order[i] = n
    BY DEF ToSet
  <2>2. i > e.k
    BY <2>1, <1>4, <1>10
  <2> QED BY <2>1, <2>2, <1>10 DEF Taking, Behind
<1>12. e.assigned \cap OnCycles(dep) = OnCycles(dep)
  BY <1>11, <1>13
<1> QED BY <1>3, <1>10, <1>12 DEF Taking, dep
-----------------------------------------------------------------------------
(* The search for the evidence *)

Met(s) == {n \in Ids : s.previous[n] # None}
SearchStep(dep, start) ==
  [s \in Searches |->
     IF s.closing # None THEN s
     ELSE IF s.left # {} THEN Look(start, s)
     ELSE IF s.queue = <<>> THEN s
     ELSE [s EXCEPT !.at = Head(s.queue), !.queue = Tail(@),
                    !.left = dep[Head(s.queue)]]]

(* The fields of a search.                                                  *)
Shows(s, at, left, queue, previous, closing) ==
  /\ s \in Searches /\ s.at = at /\ s.left = left /\ s.queue = queue
  /\ s.previous = previous /\ s.closing = closing

LEMMA SearchChanged ==
  ASSUME NEW s \in Searches
  PROVE  /\ \A left \in SUBSET Ids :
              Shows([s EXCEPT !.left = left], s.at, left, s.queue, s.previous, s.closing)
         /\ \A closing \in Ids :
              Shows([s EXCEPT !.closing = closing], s.at, s.left, s.queue, s.previous, closing)
         /\ \A previous \in [Ids -> Ids \cup {None}], queue \in Seq(Ids) :
              Shows([s EXCEPT !.previous = previous, !.queue = queue],
                    s.at, s.left, queue, previous, s.closing)
         /\ \A at \in Ids, queue \in Seq(Ids), left \in SUBSET Ids :
              Shows([s EXCEPT !.at = at, !.queue = queue, !.left = left],
                    at, left, queue, s.previous, s.closing)
BY DEF Searches, Shows

Noted(s, next) == [s.previous EXCEPT ![next] = s.at]
Queued(s, next) == IF s.previous[next] = None THEN Append(s.queue, next) ELSE s.queue

LEMMA Looks ==
  ASSUME NEW start \in Ids, NEW s \in Searches, s.left # {}
  PROVE  \E next \in s.left :
           /\ next \in Ids
           /\ \/ /\ next = start
                 /\ Shows(Look(start, s), s.at, s.left \ {next}, s.queue, s.previous, s.at)
              \/ /\ next # start
                 /\ Shows(Look(start, s), s.at, s.left \ {next}, Queued(s, next),
                          Noted(s, next), s.closing)
<1> DEFINE next == Least(s.left)
           left == s.left \ {next}
           rest == [s EXCEPT !.left = left]
<1>1. /\ s.at \in Ids /\ s.left \in SUBSET Ids /\ s.queue \in Seq(Ids)
      /\ s.previous \in [Ids -> Ids \cup {None}] /\ s.closing \in Ids \cup {None}
  BY DEF Searches
<1>2. next \in s.left /\ next \in Ids
  BY <1>1, LeastIn
<1>3. left = s.left \ {next} /\ left \in SUBSET Ids
  BY <1>1
<1>4. [s EXCEPT !.left = @ \ {next}] = rest
  OBVIOUS
<1>5. Look(start, s) = IF next = start THEN [rest EXCEPT !.closing = s.at]
                       ELSE [rest EXCEPT !.previous = Note(rest.previous, next, s.at),
                               !.queue = IF s.previous[next] = None
                                         THEN Append(rest.queue, next) ELSE rest.queue]
  BY <1>4 DEF Look
<1> HIDE DEF next, left
<1>6. Shows(rest, s.at, left, s.queue, s.previous, s.closing)
  BY <1>3, SearchChanged
<1> HIDE DEF rest
<1>7. CASE next = start
  <2>1. Look(start, s) = [rest EXCEPT !.closing = s.at]
    BY <1>5, <1>7
  <2>2. rest \in Searches
    BY <1>6 DEF Shows
  <2>3. Shows([rest EXCEPT !.closing = s.at],
              rest.at, rest.left, rest.queue, rest.previous, s.at)
    BY <2>2, <1>1, SearchChanged
  <2>4. Shows(Look(start, s), s.at, left, s.queue, s.previous, s.at)
    BY <2>1, <2>3, <1>6 DEF Shows
  <2> QED BY <2>4, <1>2, <1>3, <1>7
<1>8. CASE next # start
  <2> DEFINE P == Noted(s, next)
             Q == Queued(s, next)
  <2>1. rest \in Searches /\ rest.previous = s.previous /\ rest.queue = s.queue
    BY <1>6 DEF Shows
  <2>2. Look(start, s) = [rest EXCEPT !.previous = P, !.queue = Q]
    BY <1>5, <1>8, <2>1 DEF Note, Noted, Queued
  <2>3. P \in [Ids -> Ids \cup {None}] /\ Q \in Seq(Ids)
    <3>1. Append(s.queue, next) \in Seq(Ids)
      BY <1>1, <1>2, Appended
    <3> QED BY <3>1, <1>1, <1>2 DEF Noted, Queued
  <2> HIDE DEF P, Q
  <2>4. Shows([rest EXCEPT !.previous = P, !.queue = Q],
              rest.at, rest.left, Q, P, rest.closing)
    BY <2>1, <2>3, SearchChanged
  <2>5. Shows(Look(start, s), s.at, left, Q, P, s.closing)
    BY <2>2, <2>4, <1>6 DEF Shows
  <2> QED BY <2>5, <1>2, <1>3, <1>8 DEF P, Q
<1> QED BY <1>7, <1>8

LEMMA HeadIn ==
  ASSUME NEW s \in Seq(Ids), s # <<>>
  PROVE  /\ Head(s) \in Ids /\ Tail(s) \in Seq(Ids)
         /\ ToSet(s) = {Head(s)} \cup ToSet(Tail(s))
         /\ Len(Tail(s)) = Len(s) - 1 /\ Len(s) \in Nat
<1>1. Len(s) \in Nat \ {0} /\ DOMAIN s = 1..Len(s)
  OBVIOUS
<1>2. /\ Head(s) = s[1] /\ Tail(s) \in Seq(Ids) /\ Len(Tail(s)) = Len(s) - 1
      /\ DOMAIN Tail(s) = 1..(Len(s) - 1)
      /\ \A i \in 1..(Len(s) - 1) : Tail(s)[i] = s[i + 1]
  OBVIOUS
<1>3. Head(s) \in Ids /\ 1 \in DOMAIN s
  BY <1>1, <1>2
<1>4. ASSUME NEW y \in ToSet(s) PROVE y \in {Head(s)} \cup ToSet(Tail(s))
  <2>1. PICK i \in DOMAIN s : s[i] = y
    BY DEF ToSet
  <2>2. i = 1 \/ (i - 1 \in 1..(Len(s) - 1) /\ (i - 1) + 1 = i)
    BY <2>1, <1>1
  <2>3. i # 1 => Tail(s)[i - 1] = y /\ i - 1 \in DOMAIN Tail(s)
    BY <2>1, <2>2, <1>2
  <2> QED BY <2>1, <2>3, <1>2 DEF ToSet
<1>5. ASSUME NEW y \in ToSet(Tail(s)) PROVE y \in ToSet(s)
  <2>1. PICK i \in DOMAIN Tail(s) : Tail(s)[i] = y
    BY DEF ToSet
  <2>2. i + 1 \in DOMAIN s /\ s[i + 1] = y
    BY <2>1, <1>1, <1>2
  <2> QED BY <2>2 DEF ToSet
<1>6. Head(s) \in ToSet(s)
  BY <1>2, <1>3 DEF ToSet
<1> QED BY <1>1, <1>2, <1>3, <1>4, <1>5, <1>6

LEMMA Dequeues ==
  ASSUME NEW dep \in Deps, NEW start \in Ids, NEW s \in Searches,
         s.closing = None, s.left = {}, s.queue # <<>>
  PROVE  Shows(SearchStep(dep, start)[s], Head(s.queue), dep[Head(s.queue)],
               Tail(s.queue), s.previous, None)
<1> DEFINE at == Head(s.queue)
           queue == Tail(s.queue)
           left == dep[at]
<1>1. SearchStep(dep, start)[s] = [s EXCEPT !.at = at, !.queue = queue, !.left = left]
  BY DEF SearchStep
<1>2. s.queue \in Seq(Ids)
  BY DEF Searches
<1>3. at \in Ids /\ queue \in Seq(Ids)
  BY <1>2, HeadIn
<1> HIDE DEF at, queue
<1>4. left \in SUBSET Ids
  BY <1>3 DEF Deps
<1> HIDE DEF left
<1>5. Shows([s EXCEPT !.at = at, !.queue = queue, !.left = left],
            at, left, queue, s.previous, s.closing)
  BY <1>3, <1>4, SearchChanged
<1>6. Shows(SearchStep(dep, start)[s], at, left, queue, s.previous, None)
  BY <1>1, <1>5
<1> QED BY <1>6 DEF at, queue, left

LEMMA SearchTyped ==
  ASSUME NEW dep \in Deps, NEW start \in Ids
  PROVE  SearchStep(dep, start) \in [Searches -> Searches]
<1>1. ASSUME NEW s \in Searches PROVE SearchStep(dep, start)[s] \in Searches
  <2>1. CASE s.closing = None /\ s.left # {}
    <3>1. SearchStep(dep, start)[s] = Look(start, s)
      BY <2>1 DEF SearchStep
    <3>2. Look(start, s) \in Searches
      BY <2>1, Looks DEF Shows
    <3> QED BY <3>1, <3>2
  <2>2. CASE s.closing = None /\ s.left = {} /\ s.queue # <<>>
    BY <2>2, Dequeues DEF Shows
  <2>3. CASE s.closing # None \/ (s.left = {} /\ s.queue = <<>>)
    BY <2>3 DEF SearchStep
  <2> QED BY <2>1, <2>2, <2>3
<1>2. SearchStep(dep, start) = [s \in Searches |-> SearchStep(dep, start)[s]]
  BY DEF SearchStep
<1> QED BY <1>1, <1>2

(* Where each node was met is where an edge to it starts; until the way back *)
(* is found, what has been looked at has been met.                          *)
Searching(dep, start, s) ==
  /\ s.left \subseteq dep[s.at] /\ s.at \in Met(s) \cup {start}
  /\ ToSet(s.queue) \subseteq Met(s) /\ start \notin Met(s)
  /\ \A n \in Met(s) : /\ s.previous[n] \in Met(s) \cup {start}
                       /\ n \in dep[s.previous[n]]
  /\ s.closing # None =>
       s.closing \in Met(s) \cup {start} /\ start \in dep[s.closing]
  /\ s.closing = None =>
       /\ dep[s.at] \ s.left \subseteq Met(s)
       /\ \A n \in Met(s) \cup {start} :
            n \in ToSet(s.queue) \/ n = s.at \/ dep[n] \subseteq Met(s)

LEMMA SearchingLooks ==
  ASSUME NEW dep \in Deps, NEW start \in Ids, NEW s \in Searches,
         Searching(dep, start, s), s.closing = None, s.left # {}
  PROVE  Searching(dep, start, Look(start, s))
<1> DEFINE v == Look(start, s)
<1>1. PICK next \in s.left :
           /\ next \in Ids
           /\ \/ /\ next = start
                 /\ Shows(v, s.at, s.left \ {next}, s.queue, s.previous, s.at)
              \/ /\ next # start
                 /\ Shows(v, s.at, s.left \ {next}, Queued(s, next),
                          Noted(s, next), s.closing)
  BY Looks
<1> HIDE DEF v
<1>2. /\ s.at \in Ids /\ s.queue \in Seq(Ids) /\ s.at # None
      /\ s.previous \in [Ids -> Ids \cup {None}]
  BY IdsFinite DEF Searches
<1>3. CASE next = start
  <2>1. /\ v.at = s.at /\ v.left = s.left \ {next} /\ v.queue = s.queue
        /\ v.previous = s.previous /\ v.closing = s.at
    BY <1>1, <1>3 DEF Shows
  <2>2. Met(v) = Met(s)
    BY <2>1 DEF Met
  <2>3. start \in dep[s.at] /\ s.at \in Met(s) \cup {start}
    BY <1>1, <1>3 DEF Searching
  <2>4. Searching(dep, start, v)
    BY <2>1, <2>2, <2>3, <1>2 DEF Searching
  <2> QED BY <2>4 DEF v
<1>4. CASE next # start
  <2>1. /\ v.at = s.at /\ v.left = s.left \ {next} /\ v.queue = Queued(s, next)
        /\ v.previous = Noted(s, next) /\ v.closing = None
    BY <1>1, <1>4 DEF Shows
  <2>2. \A n \in Ids : v.previous[n] = IF n = next THEN s.at ELSE s.previous[n]
    BY <2>1, <1>1, <1>2 DEF Noted
  <2>3. Met(v) = Met(s) \cup {next}
    BY <2>2, <1>1, <1>2 DEF Met
  <2>4. ToSet(v.queue) \subseteq Met(v) /\ ToSet(s.queue) \subseteq ToSet(v.queue)
        /\ (next \notin Met(s) => next \in ToSet(v.queue))
    <3>1. ToSet(Append(s.queue, next)) = ToSet(s.queue) \cup {next}
      BY <1>1, <1>2, Appended
    <3> QED BY <3>1, <2>1, <2>3, <1>1 DEF Queued, Searching, Met
  <2>5. ASSUME NEW n \in Met(v)
        PROVE  v.previous[n] \in Met(v) \cup {start} /\ n \in dep[v.previous[n]]
    <3>1. CASE n = next
      <4>1. v.previous[n] = s.at /\ n \in dep[s.at]
        BY <3>1, <2>2, <1>1 DEF Searching
      <4> QED BY <4>1, <2>3 DEF Searching
    <3>2. CASE n # next
      <4>1. v.previous[n] = s.previous[n] /\ n \in Met(s)
        BY <3>2, <2>2, <2>3, <2>5 DEF Met
      <4> QED BY <4>1, <2>3 DEF Searching
    <3> QED BY <3>1, <3>2
  <2>6. dep[v.at] \ v.left \subseteq Met(v)
    BY <2>1, <2>3 DEF Searching
  <2>7. ASSUME NEW n \in Met(v) \cup {start}
        PROVE  n \in ToSet(v.queue) \/ n = v.at \/ dep[n] \subseteq Met(v)
    <3>1. n \in Met(s) \cup {start} \/ n \in ToSet(v.queue)
      BY <2>3, <2>4
    <3> QED BY <3>1, <2>1, <2>3, <2>4 DEF Searching
  <2>8. /\ v.left \subseteq dep[v.at] /\ v.at \in Met(v) \cup {start}
        /\ start \notin Met(v) /\ v.closing = None
    BY <2>1, <2>3, <1>4 DEF Searching
  <2>9. Searching(dep, start, v)
    BY <2>4, <2>5, <2>6, <2>7, <2>8 DEF Searching
  <2> QED BY <2>9 DEF v
<1> QED BY <1>1, <1>3, <1>4

LEMMA SearchingGoesOn ==
  ASSUME NEW dep \in Deps, NEW start \in Ids, NEW s \in Searches,
         Searching(dep, start, s), s.closing = None, s.left = {}, s.queue # <<>>
  PROVE  Searching(dep, start, SearchStep(dep, start)[s])
<1> DEFINE v == SearchStep(dep, start)[s]
           at == Head(s.queue)
<1>1. /\ v.at = at /\ v.left = dep[at] /\ v.queue = Tail(s.queue)
      /\ v.previous = s.previous /\ v.closing = None
  BY Dequeues DEF Shows
<1>2. ToSet(s.queue) = {at} \cup ToSet(Tail(s.queue))
  BY HeadIn DEF Searches
<1> HIDE DEF v, at
<1>3. Met(v) = Met(s)
  BY <1>1 DEF Met
<1>4. /\ v.left \subseteq dep[v.at] /\ v.at \in Met(v) \cup {start}
      /\ ToSet(v.queue) \subseteq Met(v) /\ start \notin Met(v)
      /\ dep[v.at] \ v.left \subseteq Met(v)
  BY <1>1, <1>2, <1>3 DEF Searching
<1>5. \A n \in Met(v) : v.previous[n] \in Met(v) \cup {start} /\ n \in dep[v.previous[n]]
  BY <1>1, <1>3 DEF Searching
<1>6. ASSUME NEW n \in Met(v) \cup {start}
      PROVE  n \in ToSet(v.queue) \/ n = v.at \/ dep[n] \subseteq Met(v)
  BY <1>1, <1>2, <1>3, <1>6 DEF Searching
<1>7. Searching(dep, start, v)
  BY <1>1, <1>4, <1>5, <1>6 DEF Searching
<1> QED BY <1>7 DEF v

LEMMA SearchShrinks ==
  ASSUME NEW dep \in Deps, NEW start \in Ids, NEW s \in Searches,
         SearchStep(dep, start)[s] # s
  PROVE  LET v == SearchStep(dep, start)[s] IN
         \/ Cardinality(Ids \ Met(v)) < Cardinality(Ids \ Met(s))
         \/ /\ Cardinality(Ids \ Met(v)) = Cardinality(Ids \ Met(s))
            /\ Len(v.queue) < Len(s.queue)
         \/ /\ Cardinality(Ids \ Met(v)) = Cardinality(Ids \ Met(s))
            /\ Len(v.queue) = Len(s.queue)
            /\ Cardinality(v.left) < Cardinality(s.left)
<1> DEFINE v == SearchStep(dep, start)[s]
<1>1. /\ s.at \in Ids /\ s.queue \in Seq(Ids) /\ s.at # None /\ s.left \in SUBSET Ids
      /\ s.previous \in [Ids -> Ids \cup {None}]
  BY IdsFinite DEF Searches
<1>2. s.closing = None
  BY DEF SearchStep
<1>3. CASE s.left = {}
  <2>1. s.queue # <<>>
    BY <1>2, <1>3 DEF SearchStep
  <2>2. v.queue = Tail(s.queue) /\ v.previous = s.previous
    BY <2>1, <1>2, <1>3, Dequeues DEF Shows
  <2> HIDE DEF v
  <2>3. Met(v) = Met(s)
    BY <2>2 DEF Met
  <2>4. Len(Tail(s.queue)) = Len(s.queue) - 1 /\ Len(s.queue) \in Nat
    BY <2>1, <1>1, HeadIn
  <2>5. Len(v.queue) < Len(s.queue)
    BY <2>2, <2>4
  <2> QED BY <2>3, <2>5 DEF v
<1>4. CASE s.left # {}
  <2>1. v = Look(start, s)
    BY <1>2, <1>4 DEF SearchStep
  <2>2. PICK next \in s.left :
           /\ next \in Ids
           /\ \/ /\ next = start
                 /\ Shows(v, s.at, s.left \ {next}, s.queue, s.previous, s.at)
              \/ /\ next # start
                 /\ Shows(v, s.at, s.left \ {next}, Queued(s, next),
                          Noted(s, next), s.closing)
    BY <2>1, <1>4, Looks
  <2> HIDE DEF v
  <2>3. v.left = s.left \ {next}
    BY <2>2 DEF Shows
  <2>4. Cardinality(v.left) < Cardinality(s.left)
    <3>1. v.left \in SUBSET s.left /\ v.left # s.left
      BY <2>2, <2>3
    <3> QED BY <3>1, <1>1, FewerCounted
  <2>5. CASE next = start
    <3>1. v.queue = s.queue /\ v.previous = s.previous
      BY <2>2, <2>5 DEF Shows
    <3>2. Met(v) = Met(s)
      BY <3>1 DEF Met
    <3> QED BY <3>1, <3>2, <2>4 DEF v
  <2>6. CASE next # start
    <3>1. v.queue = Queued(s, next) /\ v.previous = Noted(s, next)
      BY <2>2, <2>6 DEF Shows
    <3>2. \A n \in Ids : v.previous[n] = IF n = next THEN s.at ELSE s.previous[n]
      BY <3>1, <2>2, <1>1 DEF Noted
    <3>3. Met(v) = Met(s) \cup {next}
      BY <3>2, <2>2, <1>1 DEF Met
    <3>4. CASE next \in Met(s)
      <4>1. Met(v) = Met(s) /\ v.queue = s.queue
        BY <3>1, <3>3, <3>4 DEF Queued, Met
      <4> QED BY <4>1, <2>4 DEF v
    <3>5. CASE next \notin Met(s)
      <4>1. /\ Ids \ Met(v) \in SUBSET (Ids \ Met(s)) /\ Ids \ Met(v) # Ids \ Met(s)
            /\ Ids \ Met(s) \in SUBSET Ids
        BY <3>3, <3>5, <2>2
      <4>2. Cardinality(Ids \ Met(v)) < Cardinality(Ids \ Met(s))
        BY <4>1, FewerCounted
      <4> QED BY <4>2 DEF v
    <3> QED BY <3>4, <3>5
  <2> QED BY <2>2, <2>5, <2>6
<1> QED BY <1>3, <1>4
SearchStart(dep, start) ==
  [at |-> start, left |-> dep[start], queue |-> <<>>,
   previous |-> [n \in Ids |-> None], closing |-> None]

(* If something leads back to the start, the search finds it.               *)
LEMMA Searched ==
  ASSUME NEW dep \in Deps, NEW start \in Ids, start \in Far(dep, start)
  PROVE  LET s == Search(dep, start)
         IN s \in Searches /\ Searching(dep, start, s) /\ s.closing # None
<1> DEFINE step == SearchStep(dep, start)
           d == SearchStart(dep, start)
           I == {s \in Searches : Searching(dep, start, s)}
           A == [s \in Searches |-> Cardinality(Ids \ Met(s))]
           B == [s \in Searches |-> Len(s.queue)]
           C == [s \in Searches |-> Cardinality(s.left)]
           e == Loop(step)[d]
<1>1. Search(dep, start) = e
  BY DEF Search, SearchStep, SearchStart
<1>2. d \in I
  <2>1. /\ d.at = start /\ d.left = dep[start] /\ d.queue = <<>>
        /\ d.previous = [n \in Ids |-> None] /\ d.closing = None
    BY DEF SearchStart
  <2>2. d \in Searches
    <3>1. dep[start] \in SUBSET Ids /\ <<>> \in Seq(Ids)
      BY DEF Deps
    <3>2. [n \in Ids |-> None] \in [Ids -> Ids \cup {None}]
      OBVIOUS
    <3> QED BY <3>1, <3>2 DEF Searches, SearchStart
  <2> HIDE DEF d
  <2>3. Met(d) = {} /\ ToSet(d.queue) = {}
    BY <2>1 DEF Met, ToSet
  <2>4. Searching(dep, start, d)
    BY <2>1, <2>3 DEF Searching
  <2> QED BY <2>2, <2>4
<1> HIDE DEF d, e
<1>3. step \in [Searches -> Searches]
  BY SearchTyped
<1>4. ASSUME NEW s \in I PROVE step[s] \in I
  <2>0. s \in Searches /\ Searching(dep, start, s) /\ step[s] \in Searches
    BY <1>3
  <2>1. CASE s.closing = None /\ s.left # {}
    <3>1. step[s] = Look(start, s)
      BY <2>0, <2>1 DEF SearchStep
    <3>2. Searching(dep, start, Look(start, s))
      BY <2>0, <2>1, SearchingLooks
    <3> QED BY <2>0, <3>1, <3>2
  <2>2. CASE s.closing = None /\ s.left = {} /\ s.queue # <<>>
    BY <2>0, <2>2, SearchingGoesOn
  <2>3. CASE s.closing # None \/ (s.left = {} /\ s.queue = <<>>)
    <3>1. step[s] = s
      BY <2>0, <2>3 DEF SearchStep
    <3> QED BY <3>1
  <2> QED BY <2>1, <2>2, <2>3
<1>5. ASSUME NEW s \in I PROVE A[s] \in Nat /\ B[s] \in Nat /\ C[s] \in Nat
  <2>1. s \in Searches
    OBVIOUS
  <2>2. s.queue \in Seq(Ids) /\ s.left \in SUBSET Ids /\ Ids \ Met(s) \in SUBSET Ids
    BY <2>1 DEF Searches
  <2>3. Len(s.queue) \in Nat
    BY <2>2
  <2> QED BY <2>1, <2>2, <2>3, CountTyped
<1>6. ASSUME NEW s \in I, step[s] # s
      PROVE  \/ A[step[s]] < A[s]
             \/ A[step[s]] = A[s] /\ B[step[s]] < B[s]
             \/ A[step[s]] = A[s] /\ B[step[s]] = B[s] /\ C[step[s]] < C[s]
  <2> DEFINE v == step[s]
  <2>1. s \in Searches /\ v \in Searches
    BY <1>3
  <2>2. \/ Cardinality(Ids \ Met(v)) < Cardinality(Ids \ Met(s))
        \/ /\ Cardinality(Ids \ Met(v)) = Cardinality(Ids \ Met(s))
           /\ Len(v.queue) < Len(s.queue)
        \/ /\ Cardinality(Ids \ Met(v)) = Cardinality(Ids \ Met(s))
           /\ Len(v.queue) = Len(s.queue)
           /\ Cardinality(v.left) < Cardinality(s.left)
    BY <2>1, <1>6, SearchShrinks
  <2> HIDE DEF v
  <2>3. /\ A[v] = Cardinality(Ids \ Met(v)) /\ A[s] = Cardinality(Ids \ Met(s))
        /\ B[v] = Len(v.queue) /\ B[s] = Len(s.queue)
        /\ C[v] = Cardinality(v.left) /\ C[s] = Cardinality(s.left)
    BY <2>1
  <2> HIDE DEF A, B, C
  <2>4. \/ A[v] < A[s]
        \/ A[v] = A[s] /\ B[v] < B[s]
        \/ A[v] = A[s] /\ B[v] = B[s] /\ C[v] < C[s]
    BY <2>2, <2>3
  <2> QED BY <2>4 DEF v
<1> HIDE DEF step, A, B, C
<1>7. Shrinks(I, step, A, B, C)
  BY <1>5, <1>6 DEF Shrinks
<1>8. e \in I /\ step[e] = e
  <2>1. I \in SUBSET Searches /\ \A s \in I : step[s] \in I
    BY <1>4
  <2> HIDE DEF I
  <2> QED BY <1>2, <1>3, <1>7, <2>1, LoopRule DEF e
<1>9. e \in Searches /\ Searching(dep, start, e)
  BY <1>8
<1>10. e.closing # None
  <2> SUFFICES ASSUME e.closing = None PROVE FALSE
    OBVIOUS
  <2>1. e.left = {}
    <3> SUFFICES ASSUME e.left # {} PROVE FALSE
      OBVIOUS
    <3>1. e = Look(start, e)
      BY <1>8, <1>9 DEF step, SearchStep
    <3>2. PICK next \in e.left : Look(start, e).left = e.left \ {next}
      BY <1>9, Looks DEF Shows
    <3> QED BY <3>1, <3>2
  <2>2. e.queue = <<>>
    <3> SUFFICES ASSUME e.queue # <<>> PROVE FALSE
      OBVIOUS
    <3>1. e.queue = Tail(e.queue)
      <4>1. Shows(SearchStep(dep, start)[e], Head(e.queue), dep[Head(e.queue)],
                  Tail(e.queue), e.previous, None)
        BY <1>9, <2>1, Dequeues
      <4>2. SearchStep(dep, start)[e] = e
        BY <1>8 DEF step
      <4> QED BY <4>1, <4>2 DEF Shows
    <3> DEFINE t == Tail(e.queue)
    <3>2. Len(t) = Len(e.queue) - 1 /\ Len(e.queue) \in Nat /\ e.queue = t
      BY <3>1, <1>9, HeadIn DEF Searches
    <3> HIDE DEF t
    <3>3. Len(e.queue) = Len(t)
      BY <3>2
    <3> QED BY <3>2, <3>3
  <2>3. \A n \in Met(e) \cup {start} : dep[n] \subseteq Met(e)
    <3>1. ToSet(e.queue) = {}
      BY <2>2 DEF ToSet
    <3> QED BY <3>1, <2>1, <1>9 DEF Searching
  <2>4. Met(e) \in SUBSET Ids
    BY DEF Met
  <2>5. Far(dep, start) \subseteq Met(e)
    BY <2>3, <2>4, FarWithin
  <2> QED BY <2>5, <1>9 DEF Searching
<1> QED BY <1>1, <1>9, <1>10

(* The way back from where the search closed, read forwards, is a cycle     *)
(* that leaves the start.                                                   *)
LEMMA WayBack ==
  ASSUME NEW dep \in Deps, NEW start \in Ids, NEW s \in Searches,
         Searching(dep, start, s), s.closing # None,
         NEW c, c = Climb([s.previous EXCEPT ![start] = None], s.closing, {}),
         c.at = None
  PROVE  /\ Reverse(c.chain) \in Seq(Ids)
         /\ Reverse(c.chain) # <<>> /\ Reverse(c.chain)[1] = start
         /\ IsRing(dep, Reverse(c.chain))
<1> DEFINE up == [s.previous EXCEPT ![start] = None]
           M == Met(s) \cup {start}
           path == Reverse(c.chain)
           N == Len(c.chain)
<1>1. s.previous \in [Ids -> Ids \cup {None}] /\ s.closing \in Ids
  BY DEF Searches
<1>2. up \in Ways /\ \A n \in Ids : up[n] = IF n = start THEN None ELSE s.previous[n]
  BY <1>1 DEF Ways
<1> HIDE DEF up
<1>3. Climbing(up, s.closing, {}, c)
  BY <1>1, <1>2, Climbed DEF up
<1>4. /\ c.chain \in Seq(Ids) /\ IsInjective(c.chain)
      /\ s.closing = IF c.chain = <<>> THEN c.at ELSE c.chain[1]
      /\ \A i \in DOMAIN c.chain :
           up[c.chain[i]] = IF i = N THEN c.at ELSE c.chain[i + 1]
  BY <1>3 DEF Climbing, Climbs, Linked
<1>5. c.chain # <<>> /\ c.chain[1] = s.closing
  BY <1>4
<1>6. DOMAIN c.chain = 1..N /\ N \in Nat \ {0}
  <2>1. c.chain \in Seq(Ids) /\ c.chain # <<>>
    BY <1>4, <1>5
  <2> QED BY <2>1
<1>7. \A i \in DOMAIN c.chain : c.chain[i] \in M
  <2>1. M \in SUBSET Ids
    BY DEF Met
  <2>2. UpClosed(up, s.closing, M)
    BY <1>1, <1>2 DEF UpClosed, Searching, Met
  <2>3. ToSet(c.chain) \subseteq M
    BY <2>1, <2>2, <1>3 DEF Climbing
  <2> QED BY <2>3 DEF ToSet
<1>8. \A n \in Met(s) : n # start /\ s.previous[n] # None /\ n \in dep[s.previous[n]]
  BY DEF Searching, Met
<1>9. c.chain[N] = start
  <2>0. N \in DOMAIN c.chain
    BY <1>6
  <2> HIDE DEF M
  <2>1. up[c.chain[N]] = None /\ c.chain[N] \in M
    BY <2>0, <1>4, <1>7
  <2> QED BY <2>1, <1>2, <1>8 DEF Met, M
<1> HIDE DEF N, M
<1>10. /\ path \in Seq(Ids) /\ DOMAIN path = 1..N /\ Len(path) = N
       /\ \A i \in 1..N : path[i] = c.chain[(N - i) + 1]
  <2>1. path = [i \in 1..N |-> c.chain[(N - i) + 1]]
    BY DEF Reverse, N
  <2>2. \A i \in 1..N : (N - i) + 1 \in 1..N
    BY <1>6
  <2>3. ASSUME NEW i \in 1..N PROVE c.chain[(N - i) + 1] \in Ids
    <3> DEFINE k == (N - i) + 1
    <3>1. k \in DOMAIN c.chain /\ c.chain \in Seq(Ids)
      BY <2>2, <1>4, <1>6
    <3> HIDE DEF k
    <3>2. c.chain[k] \in Ids
      BY <3>1
    <3> QED BY <3>2 DEF k
  <2>4. N \in Nat
    BY <1>6
  <2> HIDE DEF path
  <2>5. path \in [1..N -> Ids]
    BY <2>1, <2>3
  <2>6. path \in Seq(Ids) /\ Len(path) = N
    BY <2>4, <2>5
  <2> QED BY <2>1, <2>6
<1> HIDE DEF path
<1>11. path # <<>> /\ path[1] = start /\ path[N] = s.closing
  <2>1. 1 \in 1..N /\ N \in 1..N /\ (N - 1) + 1 = N /\ (N - N) + 1 = 1
    BY <1>6
  <2>2. path[1] = start /\ path[N] = s.closing
    BY <2>1, <1>5, <1>9, <1>10
  <2>3. path # <<>>
    BY <1>6, <1>10
  <2> QED BY <2>2, <2>3
<1>12. IsInjective(path)
  <2>1. ASSUME NEW i \in DOMAIN path, NEW j \in DOMAIN path, path[i] = path[j] PROVE i = j
    <3>1. i \in 1..N /\ j \in 1..N /\ (N - i) + 1 \in 1..N /\ (N - j) + 1 \in 1..N
      BY <1>6, <1>10
    <3>2. c.chain[(N - i) + 1] = c.chain[(N - j) + 1]
      BY <2>1, <3>1, <1>10
    <3>3. (N - i) + 1 = (N - j) + 1
      BY <3>1, <3>2, <1>4, <1>6 DEF IsInjective
    <3> QED BY <3>1, <3>3, <1>6
  <2> QED BY <2>1 DEF IsInjective
<1>13. ASSUME NEW i \in DOMAIN path, i + 1 \in DOMAIN path PROVE path[i + 1] \in dep[path[i]]
  <2> DEFINE k == (N - (i + 1)) + 1
  <2>1. i \in 1..N /\ i + 1 \in 1..N /\ k \in 1..N /\ k # N /\ (N - i) + 1 = k + 1
    BY <1>6, <1>10, <1>13
  <2>2. path[i + 1] = c.chain[k]
    BY <2>1, <1>10
  <2> HIDE DEF k
  <2>3. path[i] = c.chain[k + 1]
    BY <2>1, <1>10
  <2>4. k \in DOMAIN c.chain /\ N \in DOMAIN c.chain
    BY <2>1, <1>6
  <2>5. up[c.chain[k]] = c.chain[k + 1]
    BY <2>1, <2>4, <1>4 DEF N
  <2>6. c.chain[k] # start
    BY <2>1, <2>4, <1>4, <1>9 DEF IsInjective
  <2>7. c.chain[k] \in Met(s)
    BY <2>4, <2>6, <1>7 DEF M
  <2>8. up[c.chain[k]] = s.previous[c.chain[k]]
    BY <2>6, <2>7, <1>2 DEF Met
  <2>9. c.chain[k] \in dep[s.previous[c.chain[k]]]
    BY <2>7, <1>8
  <2> QED BY <2>2, <2>3, <2>5, <2>8, <2>9
<1>14. Trail(dep, path)
  BY <1>10, <1>13 DEF Trail
<1>15. path[1] \in dep[path[Len(path)]]
  <2>1. start \in dep[s.closing]
    BY DEF Searching
  <2> QED BY <2>1, <1>10, <1>11
<1>16. IsRing(dep, path)
  BY <1>11, <1>12, <1>14, <1>15, RingOf
<1> QED BY <1>10, <1>11, <1>16 DEF path

(* What lies on a cycle with the start is reached by way of such nodes.     *)
LEMMA FarAmongThem ==
  ASSUME NEW dep \in Deps, NEW start \in Ids, start \in Far(dep, start),
         NEW sub \in Deps, \A n \in Ids : sub[n] = dep[n] \cap Together(dep, start)
  PROVE  start \in Far(sub, start)
<1> DEFINE F == Far(sub, start)
           T == {y \in Ids : y \in F \/ start \notin FarFrom(dep, y)}
<1>1. /\ F \in SUBSET Ids /\ sub[start] \subseteq F
      /\ \A m \in F : sub[m] \subseteq F
  BY FarIsLeast
<1>2. F \subseteq Far(dep, start)
  <2>1. /\ Far(dep, start) \in SUBSET Ids /\ dep[start] \subseteq Far(dep, start)
        /\ \A m \in Far(dep, start) : dep[m] \subseteq Far(dep, start)
    BY FarIsLeast
  <2>2. /\ sub[start] \subseteq Far(dep, start)
        /\ \A m \in Far(dep, start) : sub[m] \subseteq Far(dep, start)
    BY <2>1
  <2> QED BY <2>1, <2>2, FarWithin
<1> HIDE DEF F
<1>3. ASSUME NEW y \in F \cup {start}, NEW z \in dep[y] PROVE z \in T
  <2>1. y \in Ids /\ z \in Ids /\ y \in FarFrom(dep, start)
    BY <1>1, <1>2, <1>3 DEF Deps, FarFrom
  <2>2. CASE start \notin FarFrom(dep, z)
    BY <2>1, <2>2
  <2>3. CASE start \in FarFrom(dep, z)
    <3>1. dep[y] \subseteq Far(dep, start)
      BY <2>1, FarOnwards
    <3>2. z \in Together(dep, start)
      BY <3>1, <2>1, <2>3, <1>3 DEF Together, FarFrom
    <3>3. z \in sub[y]
      BY <3>2, <2>1, <1>3
    <3> QED BY <3>3, <2>1, <1>1, <1>3
  <2> QED BY <2>2, <2>3
<1>4. ASSUME NEW y \in T, NEW z \in dep[y] PROVE z \in T
  <2>1. y \in Ids /\ z \in Ids
    BY <1>4 DEF Deps
  <2>2. CASE y \in F
    BY <2>2, <1>3, <1>4
  <2>3. CASE start \notin FarFrom(dep, y)
    <3>1. start \notin FarFrom(dep, z)
      <4> SUFFICES ASSUME start \in FarFrom(dep, z) PROVE FALSE
        OBVIOUS
      <4>1. start \in Far(dep, y)
        BY <2>1, <1>4, FarByOne
      <4> QED BY <4>1, <2>3 DEF FarFrom
    <3> QED BY <3>1, <2>1
  <2> QED BY <2>2, <2>3, <1>4
<1>5. dep[start] \subseteq T /\ T \in SUBSET Ids
  BY <1>3
<1>6. start \in T
  <2> HIDE DEF T
  <2>1. Far(dep, start) \subseteq T
    BY <1>4, <1>5, FarWithin
  <2> QED BY <2>1
<1> QED BY <1>6 DEF F, FarFrom
LEMMA LeadIn ==
  ASSUME NEW x \in Trees, NEW c \in SUBSET Ids, c # {}
  PROVE  Lead(x, c) \in c
<1>1. \A n \in c : Slug(x, n) \in Nat /\ n \in Nat
  BY SlugTyped, IdsFinite
<1> DEFINE L == {Slug(x, n) : n \in c}
<1>2. PICK l \in L : \A m \in L : l <= m
  <2>1. L \subseteq Nat /\ L # {}
    BY <1>1
  <2> HIDE DEF L
  <2> QED BY <2>1, LeastExists
<1> DEFINE J == {n \in c : Slug(x, n) = l}
<1>3. PICK n \in J : \A m \in J : n <= m
  <2>1. J \subseteq Nat /\ J # {}
    BY <1>1
  <2> HIDE DEF J
  <2> QED BY <2>1, LeastExists
<1>4. n \in c /\ Slug(x, n) = l /\ l \in Nat
  BY <1>1
<1>5. ASSUME NEW m \in c PROVE Before(x, n, m)
  <2>1. l <= Slug(x, m) /\ Slug(x, m) \in Nat
    BY <1>1, <1>2
  <2>2. CASE l = Slug(x, m)
    <3>1. n <= m
      BY <2>2, <1>3
    <3> QED BY <3>1, <2>2, <1>4 DEF Before
  <2>3. CASE l < Slug(x, m)
    BY <2>3, <1>4 DEF Before
  <2> QED BY <2>1, <2>2, <2>3, <1>4
<1> QED BY <1>4, <1>5 DEF Lead

(* The evidence for a component is a cycle from its lead.                   *)
LEMMA EvidenceIsACycle ==
  ASSUME NEW x \in Trees, NEW m \in OnCycles(Depends(x))
  PROVE  LET dep == Depends(x)
             c == Together(dep, m)
             e == ShortestCycle(x, c, Lead(x, c))
         IN /\ Lead(x, c) \in Ids /\ m \in Together(dep, Lead(x, c))
            /\ Together(dep, Lead(x, c)) = c
            /\ Lead(x, c) \in Far(dep, Lead(x, c))
            /\ e.ends =>
                 e.path \in Seq(Ids) /\ e.path # <<>> /\ e.path[1] = Lead(x, c)
                   /\ IsRing(dep, e.path)
<1> DEFINE dep == Depends(x)
           c == Together(dep, m)
           start == Lead(x, c)
           e == ShortestCycle(x, c, start)
           sub == Within(x, c)
           s == Search(sub, start)
           back == Climb([s.previous EXCEPT ![start] = None], s.closing, {})
<1>1. dep \in Deps /\ \A n \in Ids : dep[n] = Dependencies(x, n)
  BY DependsTyped
<1>2. m \in Ids /\ m \in Far(dep, m)
  BY DEF OnCycles
<1> HIDE DEF dep
<1>3. c \in SUBSET Ids /\ m \in c
  BY <1>2 DEF Together, FarFrom
<1>4. start \in c
  <2> HIDE DEF c
  <2>1. c # {}
    BY <1>3
  <2> QED BY <1>3, <2>1, LeadIn
<1> HIDE DEF start
<1>5. /\ start \in Ids /\ Together(dep, start) = c
      /\ start \in Far(dep, start)
  BY <1>1, <1>2, <1>3, <1>4, TogetherAgree
<1> HIDE DEF c
<1>6. e = IF start \in Dependencies(x, start) THEN [path |-> <<start>>, ends |-> TRUE]
          ELSE [path |-> Reverse(back.chain), ends |-> back.at = None]
  BY DEF ShortestCycle
<1> HIDE DEF e
<1>7. CASE start \in Dependencies(x, start)
  <2> DEFINE path == <<start>>
  <2>1. e.path = path
    BY <1>6, <1>7
  <2>2. /\ path \in Seq(Ids) /\ path # <<>> /\ path[1] = start /\ DOMAIN path = {1}
        /\ Len(path) = 1
    BY <1>5
  <2> HIDE DEF path
  <2>3. start \in dep[start]
    BY <1>1, <1>5, <1>7
  <2>4. IsInjective(path) /\ Trail(dep, path)
    BY <2>2 DEF IsInjective, Trail
  <2>5. IsRing(dep, path)
    BY <2>2, <2>3, <2>4, <1>1, RingOf
  <2> QED BY <2>1, <2>2, <2>5, <1>3, <1>5 DEF dep, c, start, e
<1>8. CASE start \notin Dependencies(x, start)
  <2>1. sub \in Deps /\ \A n \in Ids : sub[n] = dep[n] \cap c
    BY <1>1, <1>3 DEF Within, Deps
  <2> HIDE DEF sub
  <2>2. start \in Far(sub, start)
    BY <2>1, <1>1, <1>5, FarAmongThem
  <2>3. s \in Searches /\ Searching(sub, start, s) /\ s.closing # None
    BY <2>1, <2>2, <1>5, Searched
  <2> HIDE DEF s
  <2>4. ASSUME back.at = None
        PROVE  /\ Reverse(back.chain) \in Seq(Ids) /\ Reverse(back.chain) # <<>>
               /\ Reverse(back.chain)[1] = start /\ IsRing(sub, Reverse(back.chain))
    <3> HIDE DEF back
    <3>1. back = Climb([s.previous EXCEPT ![start] = None], s.closing, {})
      BY DEF back
    <3> QED BY <3>1, <2>1, <2>3, <2>4, <1>5, WayBack
  <2> HIDE DEF back
  <2>5. e.path = Reverse(back.chain) /\ (e.ends <=> back.at = None)
    BY <1>6, <1>8
  <2>6. ASSUME NEW path \in Seq(Ids), IsRing(sub, path) PROVE IsRing(dep, path)
    <3>1. \A i \in DOMAIN path : path[i] \in Ids
      OBVIOUS
    <3>2. \A i \in DOMAIN path : sub[path[i]] \subseteq dep[path[i]]
      BY <3>1, <2>1
    <3> QED BY <3>2, <2>6 DEF IsRing
  <2>7. e.ends => e.path \in Seq(Ids) /\ e.path # <<>> /\ e.path[1] = start
                    /\ IsRing(dep, e.path)
    BY <2>4, <2>5, <2>6
  <2> QED BY <2>7, <1>3, <1>5 DEF dep, c, start, e
<1> QED BY <1>7, <1>8

(* What CyclesAreReported says of the findings of L02.                      *)
LEMMA DependencyCyclesReported ==
  ASSUME NEW x \in Trees, Sourced(x), Returns(x)
  PROVE  LET dep == Depends(x)
             found == DependencyIsAcyclic(x)
         IN /\ \A f \in found : f.about \in Seq(Ids) /\ IsRing(dep, f.about)
            /\ \A n \in OnCycles(dep) :
                 Cardinality({f \in found : /\ f.subject \in Ids
                                            /\ f.subject \in Far(dep, n)
                                            /\ n \in Far(dep, f.subject)}) = 1
            /\ \A f \in found : f.subject \in Ids
<1> DEFINE dep == Depends(x)
           found == DependencyIsAcyclic(x)
           Comp(m) == Together(dep, m)
           Ev(m) == ShortestCycle(x, Comp(m), Lead(x, Comp(m)))
           Row(m) == Finding("L02", Ev(m).path[1], Ev(m).path)
<1>1. dep \in Deps
  BY DependsTyped
<1>2. Evidence(x) = {Ev(m) : m \in OnCycles(dep)}
  BY ComponentsFound DEF Evidence
<1>3. ASSUME NEW m \in OnCycles(dep)
      PROVE  /\ m \in Together(dep, Lead(x, Comp(m)))
             /\ Together(dep, Lead(x, Comp(m))) = Comp(m)
             /\ Lead(x, Comp(m)) \in Ids
             /\ Lead(x, Comp(m)) \in Far(dep, Lead(x, Comp(m)))
             /\ Ev(m).path \in Seq(Ids) /\ Ev(m).path # <<>>
             /\ Ev(m).path[1] = Lead(x, Comp(m)) /\ IsRing(dep, Ev(m).path)
  <2>1. Ev(m).ends
    BY <1>2 DEF Returns
  <2> QED BY <2>1, EvidenceIsACycle
<1>4. found = {Row(m) : m \in OnCycles(dep)}
  <2>1. {f \in Evidence(x) : f.path # <<>>} = {Ev(m) : m \in OnCycles(dep)}
    BY <1>2, <1>3
  <2> HIDE DEF Ev
  <2> QED BY <2>1 DEF DependencyIsAcyclic
<1>5. ASSUME NEW m \in OnCycles(dep)
      PROVE  /\ Row(m).about \in Seq(Ids) /\ IsRing(dep, Row(m).about)
             /\ Row(m).subject = Lead(x, Comp(m)) /\ Row(m).subject \in Ids
  <2>1. Row(m).about = Ev(m).path /\ Row(m).subject = Ev(m).path[1]
    BY DEF Finding
  <2> HIDE DEF Ev, Row
  <2> QED BY <2>1, <1>3
<1>6. ASSUME NEW n \in OnCycles(dep)
      PROVE  Cardinality({f \in found : /\ f.subject \in Ids
                                        /\ f.subject \in Far(dep, n)
                                        /\ n \in Far(dep, f.subject)}) = 1
  <2> DEFINE S == {f \in found : /\ f.subject \in Ids
                                 /\ f.subject \in Far(dep, n)
                                 /\ n \in Far(dep, f.subject)}
  <2>0. n \in Ids /\ n \in Far(dep, n)
    BY DEF OnCycles
  <2>1. ASSUME NEW m \in OnCycles(dep), Comp(m) = Comp(n) PROVE Row(m) = Row(n)
    BY <2>1
  <2>2. ASSUME NEW f \in S PROVE f = Row(n)
    <3>1. PICK m \in OnCycles(dep) : f = Row(m)
      BY <1>4
    <3>2. /\ f.subject = Lead(x, Comp(m)) /\ f.subject \in Ids
          /\ f.subject \in Far(dep, n) /\ n \in Far(dep, f.subject)
      BY <3>1, <1>5
    <3>3. n \in Together(dep, f.subject)
      BY <3>2, <2>0 DEF Together, FarFrom
    <3>4. Together(dep, f.subject) = Comp(m)
      BY <3>2, <1>3
    <3>5. Together(dep, n) = Together(dep, f.subject)
      BY <3>2, <3>3, <1>1, TogetherAgree
    <3> HIDE DEF Row
    <3> QED BY <3>1, <3>4, <3>5, <2>1
  <2>3. Row(n) \in S
    <3> DEFINE l == Lead(x, Comp(n))
    <3>1. Row(n) \in found /\ Row(n).subject = l /\ l \in Ids
      BY <1>4, <1>5
    <3>2. n \in Together(dep, l) /\ l \in Far(dep, l)
      BY <1>3
    <3> HIDE DEF Row, l
    <3>3. n \in FarFrom(dep, l) /\ l \in FarFrom(dep, n)
      BY <3>2 DEF Together
    <3>4. n \in Far(dep, l) /\ l \in Far(dep, n)
      BY <3>2, <3>3, <2>0 DEF FarFrom
    <3> QED BY <3>1, <3>4
  <2> HIDE DEF S, Row
  <2>4. Cardinality(S) = 1
    BY <2>2, <2>3, OneOf
  <2> QED BY <2>4 DEF S
<1> HIDE DEF Row
<1>7. \A f \in found : f.about \in Seq(Ids) /\ IsRing(dep, f.about) /\ f.subject \in Ids
  BY <1>4, <1>5
<1> QED BY <1>6, <1>7
(* CyclesAreReported: in every tree each cycle of parents has one row of    *)
(* L01, `dependency_cycle` finds a cycle exactly when a node leads to one,  *)
(* and, where every dependency comes from a node and the searches return,   *)
(* each set of nodes that depend on each other has one row of L02, whose    *)
(* evidence is a cycle.                                                     *)
THEOREM CyclesHold == Spec => []CyclesAreReported
<1>1. TypeOK => CyclesAreReported
  <2> SUFFICES ASSUME g \in Trees PROVE CyclesAreReported
    BY DEF TypeOK
  <2> DEFINE dep == Depends(g)
             above == Above(g)
             reach == Reach(g)
             looped == {n \in Ids : n \in reach[n]}
             found == DependencyIsAcyclic(g)
             first == DependencyCycle(g)
             IsCycle(path) == /\ IsInjective(path)
                              /\ \A i \in DOMAIN path :
                                   path[(i % Len(path)) + 1] \in Dependencies(g, path[i])
  <2>1. /\ dep \in Deps /\ \A n \in Ids : dep[n] = Dependencies(g, n)
        /\ \A n \in Ids : reach[n] = Far(dep, n)
    BY DependsTyped
  <2>2. looped = OnCycles(dep) /\ g.nodes \in SUBSET Ids
    BY <2>1, TreeFields DEF OnCycles
  <2>3. IsRing(dep, first) /\ first \in Seq(Ids)
        /\ ((first # NoCycle) <=> (\E n \in g.nodes : \E m \in FarFrom(dep, n) : m \in Far(dep, m)))
    BY CycleFound
  <2>4. /\ \A n \in g.nodes : n \in above[n] =>
             Cardinality({c \in ContainmentCycles(g) : n \in ToSet(c)}) = 1
        /\ \A c \in ContainmentCycles(g) : \A n \in ToSet(c) : n \in above[n]
    BY ParentCyclesReported
  <2> HIDE DEF dep, above, reach, found, first
  <2>5. ASSUME NEW path \in Seq(Ids), IsRing(dep, path) PROVE IsCycle(path)
    <3>1. \A i \in DOMAIN path : path[i] \in Ids
      OBVIOUS
    <3> QED BY <3>1, <2>1, <2>5 DEF IsRing
  <2>7. (first # NoCycle) <=> (\E n \in g.nodes : \E m \in looped : n = m \/ m \in reach[n])
    <3>1. \A n \in g.nodes : FarFrom(dep, n) = {n} \cup reach[n] /\ FarFrom(dep, n) \in SUBSET Ids
      BY <2>1, <2>2, FarIsLeast DEF FarFrom
    <3> QED BY <3>1, <2>2, <2>3 DEF OnCycles
  <2>8. ASSUME Returns(g), \A e \in Live(g, "depends_on") : e.from \in g.nodes
        PROVE  /\ \A f \in found : IsCycle(f.about)
               /\ \A n \in looped :
                    Cardinality({f \in found : f.subject \in reach[n] /\ n \in reach[f.subject]}) = 1
    <3>1. Sourced(g)
      <4> SUFFICES ASSUME NEW n \in Ids, dep[n] # {} PROVE n \in g.nodes
        BY DEF Sourced, dep
      <4>1. Dependencies(g, n) # {}
        BY <2>1
      <4> QED BY <4>1, <2>8 DEF Dependencies
    <3>2. /\ \A f \in found : f.about \in Seq(Ids) /\ IsRing(dep, f.about)
          /\ \A n \in OnCycles(dep) :
               Cardinality({f \in found : /\ f.subject \in Ids
                                          /\ f.subject \in Far(dep, n)
                                          /\ n \in Far(dep, f.subject)}) = 1
          /\ \A f \in found : f.subject \in Ids
      BY <3>1, <2>8, DependencyCyclesReported DEF dep, found
    <3>3. \A f \in found : IsCycle(f.about)
      BY <3>2, <2>5
    <3>4. ASSUME NEW n \in looped
          PROVE  Cardinality({f \in found : f.subject \in reach[n] /\ n \in reach[f.subject]}) = 1
      <4>1. {f \in found : f.subject \in reach[n] /\ n \in reach[f.subject]}
              = {f \in found : /\ f.subject \in Ids
                               /\ f.subject \in Far(dep, n)
                               /\ n \in Far(dep, f.subject)}
        BY <3>2, <2>1
      <4> QED BY <4>1, <3>2, <2>2
    <3> QED BY <3>3, <3>4
  <2>9. IsCycle(first)
    BY <2>3, <2>5
  <2> HIDE DEF looped, IsCycle
  <2>10. CyclesAreReported <=>
           /\ \A n \in g.nodes : n \in above[n] =>
                Cardinality({c \in ContainmentCycles(g) : n \in ToSet(c)}) = 1
           /\ \A c \in ContainmentCycles(g) : \A n \in ToSet(c) : n \in above[n]
           /\ (first # NoCycle) <=> (\E n \in g.nodes : \E m \in looped : n = m \/ m \in reach[n])
           /\ IsCycle(first)
           /\ (/\ Returns(g) /\ \A e \in Live(g, "depends_on") : e.from \in g.nodes)
              => /\ \A f \in found : IsCycle(f.about)
                 /\ \A n \in looped :
                      Cardinality({f \in found : f.subject \in reach[n] /\ n \in reach[f.subject]}) = 1
    BY DEF CyclesAreReported, above, reach, looped, found, first, IsCycle
  <2> QED BY <2>4, <2>7, <2>8, <2>9, <2>10
<1> QED BY <1>1, Typed, PTL
-----------------------------------------------------------------------------
(* What a tree without errors promises *)

LEMMA AtMostOne ==
  ASSUME NEW S, NEW c, \A s \in S : s = c
  PROVE  Cardinality(S) <= 1
<1>1. CASE S = {}
  BY <1>1, FS_EmptySet
<1>2. CASE S # {}
  <2>1. c \in S
    BY <1>2
  <2>2. Cardinality(S) = 1
    BY <2>1, OneOf
  <2> QED BY <2>2
<1> QED BY <1>1, <1>2

LEMMA CleanResolves ==
  ASSUME NEW x \in Trees, NoErrors(x)
  PROVE  /\ \A e \in LiveEdges(x) : DanglingEnd(x, e) = {}
         /\ \A q \in ResolveReferences(x) : OfItsKind(q) => \E e \in q.edge : ~e.live
         /\ \A n \in x.nodes : x.stale[n] \in x.nodes \cup {None}
<1>1. DanglingReference(x) = {} /\ LibraryAbsentFromRegistry(x) = {}
  BY DEF NoErrors
<1>2. \A r : r \notin Rows(x)
  BY <1>1 DEF Rows
<1>3. ASSUME NEW e \in LiveEdges(x), NEW m, m \in DanglingEnd(x, e) PROVE FALSE
  <2>1. <<e.from, m>> \in Rows(x)
    BY <1>3, RowsOf
  <2> QED BY <2>1, <1>2
<1>4. ASSUME NEW n \in x.nodes, NEW m, m \in DanglingInEnvelope(x, n) PROVE FALSE
  <2>1. <<n, m>> \in Rows(x)
    BY <1>4, RowsOf
  <2> QED BY <2>1, <1>2
<1>5. ASSUME NEW n \in x.nodes, NEW m, m \in FieldProblems(x, n), OfItsKind(Quarantine(n, {}, m))
      PROVE  FALSE
  <2>1. \/ m \in DanglingInFields(x, n)
        \/ /\ Kind[n] = "module"
           /\ m \in Missing("allowed_libraries", Names[n].allowed_libraries, x.libraries)
    BY <1>5, FieldsAgree
  <2>2. <<n, m>> \in Rows(x)
    BY <2>1, RowsOf DEF NodesOfKind
  <2> QED BY <2>2, <1>2
<1>6. ASSUME NEW q \in ResolveReferences(x), OfItsKind(q) PROVE \E e \in q.edge : ~e.live
  <2>1. CASE \E n \in x.nodes : \E m \in EnvelopeProblems(x, n) : q = Quarantine(n, {}, m)
    BY <2>1, <1>4, EnvelopesAgree
  <2>2. CASE \E n \in x.nodes : \E m \in FieldProblems(x, n) : q = Quarantine(n, {}, m)
    BY <2>2, <1>5, <1>6
  <2>3. CASE \E e \in x.edges : \E m \in EdgeProblems(x, e) : q = Quarantine(e.from, {e}, m)
    <3>1. PICK e \in x.edges : \E m \in EdgeProblems(x, e) : q = Quarantine(e.from, {e}, m)
      BY <2>3
    <3>2. PICK m \in EdgeProblems(x, e) : q = Quarantine(e.from, {e}, m)
      BY <3>1
    <3>3. e \notin LiveEdges(x)
      BY <3>2, <1>3, EndsAgree
    <3>4. ~e.live
      BY <3>3 DEF LiveEdges
    <3>5. q.edge = {e}
      BY <3>2, QuarantineOf
    <3> QED BY <3>4, <3>5
  <2>4. CASE \E s \in x.screens : \E m \in Missing("backed_by", BackedBy[s], x.nodes) :
               q = Quarantine(s, {}, m)
    <3>1. PICK s \in x.screens : \E m \in Missing("backed_by", BackedBy[s], x.nodes) : TRUE
      BY <2>4
    <3>2. PICK m \in Missing("backed_by", BackedBy[s], x.nodes) : TRUE
      BY <3>1
    <3>3. <<s, m>> \in Rows(x)
      BY RowsOf
    <3> QED BY <3>3, <1>2
  <2>5. CASE \E f \in Flows : \E m \in Missing("steps", Steps[f], x.screens) :
               q = Quarantine(f, {}, m)
    <3>1. PICK f \in Flows : \E m \in Missing("steps", Steps[f], x.screens) : TRUE
      BY <2>5
    <3>2. PICK m \in Missing("steps", Steps[f], x.screens) : TRUE
      BY <3>1
    <3>3. <<f, m>> \in Rows(x)
      BY RowsOf
    <3> QED BY <3>3, <1>2
  <2>6. CASE \E d \in x.decisions : \E m \in SuccessionProblems(x, d) : q = Quarantine(d, {}, m)
    <3>1. PICK d \in x.decisions : \E m \in SuccessionProblems(x, d) : TRUE
      BY <2>6
    <3>2. PICK m \in SuccessionProblems(x, d) : TRUE
      BY <3>1
    <3>3. m \in DanglingInDecision(x, d)
      BY SuccessionsAgree
    <3>4. <<d, m>> \in Rows(x)
      BY <3>3, RowsOf
    <3> QED BY <3>4, <1>2
  <2>7. \/ \E n \in x.nodes : \E m \in EnvelopeProblems(x, n) : q = Quarantine(n, {}, m)
        \/ \E n \in x.nodes : \E m \in FieldProblems(x, n) : q = Quarantine(n, {}, m)
        \/ \E e \in x.edges : \E m \in EdgeProblems(x, e) : q = Quarantine(e.from, {e}, m)
        \/ \E s \in x.screens : \E m \in Missing("backed_by", BackedBy[s], x.nodes) :
             q = Quarantine(s, {}, m)
        \/ \E f \in Flows : \E m \in Missing("steps", Steps[f], x.screens) :
             q = Quarantine(f, {}, m)
        \/ \E d \in x.decisions : \E m \in SuccessionProblems(x, d) : q = Quarantine(d, {}, m)
    <3>1. q \in ResolveReferences(x)
      OBVIOUS
    <3> QED BY ONLY <3>1, Resolved, SMTT(90)
  <2> QED BY <2>1, <2>2, <2>3, <2>4, <2>5, <2>6, <2>7
<1>7. ASSUME NEW n \in x.nodes, x.stale[n] \notin x.nodes \cup {None} PROVE FALSE
  <2>1. <<"stale.source", x.stale[n]>> \in DanglingInEnvelope(x, n)
    BY <1>7 DEF DanglingInEnvelope, Missing
  <2> QED BY <2>1, <1>4
<1> QED BY <1>3, <1>6, <1>7

LEMMA CleanIsAcyclic ==
  ASSUME NEW x \in Trees, NoErrors(x), Returns(x), NEW n \in Ids
  PROVE  n \notin Above(x)[n] /\ n \notin Reach(x)[n]
<1>1. n \notin Above(x)[n]
  <2> SUFFICES ASSUME n \in Above(x)[n] PROVE FALSE
    OBVIOUS
  <2>1. n \in Over(Up(x), n) /\ Looped(Up(x), n)
    BY AboveIsOver DEF Looped
  <2>2. n \in x.nodes
    <3> SUFFICES ASSUME n \notin x.nodes PROVE FALSE
      OBVIOUS
    <3>1. Up(x) \in Ways /\ Up(x)[n] = None
      BY UpTyped DEF ParentOf
    <3>2. Over(Up(x), n) \subseteq {}
      <4>1. {} \in SUBSET Ids /\ Up(x)[n] \in {} \cup {None}
            /\ \A m \in {} : Up(x)[m] \in {} \cup {None}
        BY <3>1
      <4> QED BY <4>1, <3>1, OverWithin
    <3> QED BY <3>2, <2>1
  <2>3. PICK c \in ContainmentCycles(x) : n \in ToSet(c)
    BY <2>1, <2>2, CyclesFound DEF Covered
  <2>4. Finding("L01", c[1], c) \in ContainmentIsATree(x)
    BY DEF ContainmentIsATree
  <2> QED BY <2>4 DEF NoErrors
<1>2. Sourced(x)
  <2> SUFFICES ASSUME NEW m \in Ids, Depends(x)[m] # {} PROVE m \in x.nodes
    BY DEF Sourced
  <2>1. Dependencies(x, m) # {}
    BY DependsTyped
  <2>2. PICK e \in Live(x, "depends_on") : e.from = m
    BY <2>1 DEF Dependencies
  <2>3. e \in LiveEdges(x)
    BY DEF Live, LiveEdges
  <2>4. DanglingEnd(x, e) = {}
    BY <2>3, CleanResolves
  <2>5. <<"source", e.from>> \in DanglingEnd(x, e) \/ e.from \in x.nodes
    BY DEF DanglingEnd, Missing
  <2> QED BY <2>2, <2>4, <2>5
<1>3. n \notin Reach(x)[n]
  <2> SUFFICES ASSUME n \in Reach(x)[n] PROVE FALSE
    OBVIOUS
  <2> DEFINE S == {f \in DependencyIsAcyclic(x) : /\ f.subject \in Ids
                                                 /\ f.subject \in Far(Depends(x), n)
                                                 /\ n \in Far(Depends(x), f.subject)}
  <2>1. n \in OnCycles(Depends(x))
    BY DependsTyped DEF OnCycles
  <2>2. Cardinality(S) = 1
    BY <2>1, <1>2, DependencyCyclesReported
  <2>3. S = {}
    BY DEF NoErrors
  <2> HIDE DEF S
  <2>4. Cardinality(S) = 0
    BY <2>3, FS_EmptySet
  <2> QED BY <2>2, <2>4
<1> QED BY <1>1, <1>3

LEMMA CleanHasOneParent ==
  ASSUME NEW x \in Trees, NoErrors(x), NEW n \in x.nodes,
         NEW e \in Live(x, "contains"), e.to = n
  PROVE  x.parent[n] \in {None, e.from}
<1> DEFINE parents == ({x.parent[n]} \ {None}) \cup ContainsSources(x, n)
<1> SUFFICES ASSUME x.parent[n] # None, x.parent[n] # e.from PROVE FALSE
  OBVIOUS
<1>1. n \in Ids /\ x.parent[n] \in Ids \cup {None}
  BY TreeFields
<1>2. \A d \in x.edges : d.from \in Ids
  BY TreeFields DEF Fits
<1>3. ContainsSources(x, n) \in SUBSET Ids /\ e.from \in ContainsSources(x, n)
  BY <1>2 DEF ContainsSources, Live
<1>4. parents \in SUBSET Ids /\ e.from \in parents /\ x.parent[n] \in parents
  BY <1>1, <1>3
<1>5. Cardinality(parents) > 1 /\ Cardinality(parents) \in Nat
  <2> HIDE DEF parents
  <2> QED BY <1>4, SeveralCounted, CountTyped
<1>6. \E f \in TwoParents(x) : TRUE
  <2>1. Cardinality(parents) >= 2
    <3> HIDE DEF parents
    <3> QED BY <1>5
  <2> QED BY <2>1, Zenon DEF TwoParents
<1> QED BY <1>6 DEF NoErrors, ContainmentIsATree

LEMMA CleanCachesScreens ==
  ASSUME NEW x \in Trees, NoErrors(x), NEW m \in NodesOfKind(x, "module")
  PROVE  x.refs[m] = {s \in x.screens : EdgeFile([kind |-> "references_ui",
                                        from |-> m, to |-> s], TRUE) \in x.edges}
<1> DEFINE File(s) == EdgeFile([kind |-> "references_ui", from |-> m, to |-> s], TRUE)
<1>1. x.refs[m] = InterfaceEdges(x, m)
  <2> SUFFICES ASSUME x.refs[m] # InterfaceEdges(x, m) PROVE FALSE
    OBVIOUS
  <2>1. Finding("L08", m, None) \in UiRefsCacheMismatch(x)
    BY DEF UiRefsCacheMismatch
  <2> QED BY <2>1 DEF NoErrors
<1>2. \A s : /\ File(s).kind = "references_ui" /\ File(s).from = m
             /\ File(s).to = s /\ File(s).live
  BY DEF EdgeFile
<1>3. ASSUME NEW s, File(s) \in x.edges PROVE s \in InterfaceEdges(x, m)
  <2> DEFINE e == File(s)
  <2>1. e \in x.edges /\ e.kind = "references_ui" /\ e.from = m /\ e.to = s /\ e.live
    BY <1>2, <1>3
  <2> HIDE DEF e
  <2> QED BY <2>1 DEF InterfaceEdges, Live
<1>4. ASSUME NEW s \in InterfaceEdges(x, m) PROVE s \in x.screens /\ File(s) \in x.edges
  <2>1. PICK e \in x.edges : /\ e.live /\ e.kind = "references_ui"
                             /\ e.from = m /\ e.to = s
    BY <1>4 DEF InterfaceEdges, Live
  <2>2. e \in LiveEdges(x)
    BY <2>1 DEF LiveEdges
  <2>3. DanglingEnd(x, e) = {}
    BY <2>2, CleanResolves
  <2>4. s \in x.screens
    <3>1. <<"target", s>> \in DanglingEnd(x, e) \/ s \in x.screens
      BY <2>1 DEF DanglingEnd, Missing
    <3> QED BY <2>3, <3>1
  <2>5. e \in EdgeType
    BY TreeFields
  <2>6. e = [kind |-> "references_ui", from |-> m, to |-> s, live |-> TRUE]
    BY <2>1, <2>5 DEF EdgeType
  <2>7. e = File(s)
    BY <2>6 DEF EdgeFile
  <2> QED BY <2>1, <2>4, <2>7
<1> HIDE DEF File
<1>5. x.refs[m] = {s \in x.screens : File(s) \in x.edges}
  BY <1>1, <1>3, <1>4
<1> QED BY <1>5 DEF File

(* CleanMeansSound: in every tree in which the linter reports no error,     *)
(* nothing live and of its kind is quarantined and the source of each stale *)
(* mark is there, parents and dependencies close no cycle, a `contains`     *)
(* edge agrees with the parent its node names, the cache of screens is that *)
(* of the edges, and no two services draw one module.                       *)
THEOREM CleanHolds == Spec => []CleanMeansSound
<1>1. TypeOK => CleanMeansSound
  <2> SUFFICES ASSUME g \in Trees, Returns(g), NoErrors(g)
               PROVE  /\ \A q \in ResolveReferences(g) :
                           OfItsKind(q) => \E e \in q.edge : ~e.live
                      /\ \A n \in g.nodes : g.stale[n] \in g.nodes \cup {None}
                      /\ \A n \in Ids : n \notin Above(g)[n] /\ n \notin Reach(g)[n]
                      /\ \A n \in g.nodes, e \in Live(g, "contains") : e.to = n =>
                           g.parent[n] \in {None, e.from}
                      /\ \A m \in NodesOfKind(g, "module") :
                           /\ g.refs[m] = {s \in g.screens :
                                EdgeFile([kind |-> "references_ui",
                                          from |-> m, to |-> s], TRUE) \in g.edges}
                           /\ Cardinality({s \in NodesOfKind(g, "service") :
                                             m \in ModulesOfService(g, s)}) <= 1
    BY DEF TypeOK, CleanMeansSound
  <2>1. /\ \A q \in ResolveReferences(g) : OfItsKind(q) => \E e \in q.edge : ~e.live
        /\ \A n \in g.nodes : g.stale[n] \in g.nodes \cup {None}
    BY CleanResolves
  <2>2. \A n \in Ids : n \notin Above(g)[n] /\ n \notin Reach(g)[n]
    BY CleanIsAcyclic
  <2>3. \A n \in g.nodes, e \in Live(g, "contains") : e.to = n => g.parent[n] \in {None, e.from}
    BY CleanHasOneParent
  <2>4. ASSUME NEW m \in NodesOfKind(g, "module")
        PROVE  Cardinality({s \in NodesOfKind(g, "service") : m \in ModulesOfService(g, s)}) <= 1
    <3> DEFINE S == {s \in NodesOfKind(g, "service") : m \in ModulesOfService(g, s)}
    <3>1. \A s \in S : s = OwningService(g, m)
      BY DrawnByItsOwner
    <3> HIDE DEF S
    <3>2. Cardinality(S) <= 1
      BY <3>1, AtMostOne
    <3> QED BY <3>2 DEF S
  <2>5. \A m \in NodesOfKind(g, "module") :
          g.refs[m] = {s \in g.screens : EdgeFile([kind |-> "references_ui",
                                          from |-> m, to |-> s], TRUE) \in g.edges}
    BY CleanCachesScreens
  <2> QED BY <2>1, <2>2, <2>3, <2>4, <2>5
<1> QED BY <1>1, Typed, PTL
=============================================================================
