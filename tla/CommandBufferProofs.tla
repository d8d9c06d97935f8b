------------------------- MODULE CommandBufferProofs -------------------------
(* Theorems about CommandBuffer, for any number of tasks, copies and links. *)
EXTENDS CommandBuffer, ListLemmas

(* The counter counts the copies and the BufferedCommands, and baking      *)
(* leaves one copy.                                                        *)
Counted ==
  /\ refs = copies + Cardinality(open)
  /\ phase \in {"baked", "submitted"} => open = {} /\ copies <= 1

(* The chains C of the tasks with predecessors p, one after the other, are *)
(* the tasks in their order; each begins with a task without predecessor,  *)
(* so the chain of a task is the number of those up to it.                 *)
Heads(p, t) == {r \in 1 .. t : p[r] = NoTask}

Final(c) == c[Len(c)]

Blocks(C, p) ==
  /\ Len(C) >= 1
  /\ IF Len(p) = 0 THEN Len(C) = 1 /\ Len(C[1]) = 0
     ELSE (\A g \in 1 .. Len(C) : Len(C[g]) > 0) /\ Final(C[Len(C)]) = Len(p)
  /\ \A i \in 1 .. Len(C[1]) : C[1][i] = i
  /\ \A g \in 2 .. Len(C) : \A i \in 1 .. Len(C[g]) : C[g][i] = Final(C[g - 1]) + i
  /\ \A g \in 1 .. Len(C) : \A i \in 1 .. Len(C[g]) :
       C[g][i] \in 1 .. Len(p) /\ Cardinality(Heads(p, C[g][i])) = g
  /\ \A t \in 1 .. Len(p) : \E g \in 1 .. Len(C) : \E i \in 1 .. Len(C[g]) : C[g][i] = t

Recording ==
  phase = "recording" =>
    /\ Blocks(chains, pred) /\ Len(controllers) = Len(chains)
    /\ askedLinks = Range(links) /\ askedFences = Range(fences)
    /\ \A j, k \in DOMAIN fences : fences[j][2] = fences[k][2] => j = k

(* What is baked goes back to such chains C.                               *)
BakedFrom(C) ==
  /\ Blocks(C, pred)
  /\ tasks = [i \in 1 .. Len(pred) |-> i]
  /\ \A w \in waits : Forward => w[1] < w[2]
  /\ \A g \in 1 .. Len(C) : \A i \in 2 .. Len(C[g]) : <<C[g][i - 1], C[g][i]>> \in waits
  /\ \A l \in askedLinks :
       /\ l[1] < Len(C) /\ l[2] < Len(C)
       /\ Len(pred) # 0 => <<Final(C[l[1] + 1]), C[l[2] + 1][1]>> \in waits
  /\ \A a \in askedFences :
       /\ a[1] < Len(C)
       /\ Len(pred) # 0 => bound[a[2]] = Final(C[a[1] + 1])

Baked == phase \in {"baked", "submitted"} => \E C \in Seq(Seq(Task)) : BakedFrom(C)

(* Nothing starts before what it waits for is finished.                    *)
Waited ==
  /\ phase # "submitted" => begun = {} /\ Done = {}
  /\ \A t \in begun \cup Done : \A w \in waits : w[2] = t => w[1] \in Done

-----------------------------------------------------------------------------
LEMMA HeadsFinite ==
  ASSUME NEW p, NEW n \in Nat
  PROVE  IsFiniteSet(Heads(p, n)) /\ Heads(p, n) \subseteq 1 .. n /\ Cardinality(Heads(p, n)) \in Nat
<1>1. IsFiniteSet(1 .. n)
  BY FS_Interval
<1>2. Heads(p, n) \subseteq 1 .. n
  BY DEF Heads
<1>3. IsFiniteSet(Heads(p, n))
  BY <1>1, <1>2, FS_Subset
<1> QED
  BY <1>2, <1>3, FS_CardinalityType

LEMMA HeadsMonotone ==
  ASSUME NEW p, NEW t \in Nat, NEW u \in Nat, t <= u
  PROVE  Cardinality(Heads(p, t)) <= Cardinality(Heads(p, u))
<1>1. Heads(p, t) \subseteq Heads(p, u)
  BY DEF Heads
<1> QED
  BY <1>1, HeadsFinite, FS_Subset

(* One more task, after the n that are there.                              *)
Grows(p, q, n, x) ==
  /\ Len(p) = n /\ Len(q) = n + 1
  /\ \A t \in 1 .. n : q[t] = p[t]
  /\ q[n + 1] = x

LEMMA HeadsGrow ==
  ASSUME NEW n \in Nat, NEW p, NEW q, NEW x, Grows(p, q, n, x)
  PROVE  /\ \A t \in 1 .. n : Heads(q, t) = Heads(p, t)
         /\ x # NoTask => Heads(q, n + 1) = Heads(p, n)
         /\ x = NoTask => Cardinality(Heads(q, n + 1)) = Cardinality(Heads(p, n)) + 1
<1>1. \A r \in 1 .. n : q[r] = p[r]
  BY DEF Grows
<1>2. \A t \in 1 .. n : \A r \in 1 .. t : r \in 1 .. n
  OBVIOUS
<1>3. \A t \in 1 .. n : Heads(q, t) = Heads(p, t)
  BY <1>1, <1>2 DEF Heads
<1>4. \A r : r \in 1 .. n + 1 <=> r \in 1 .. n \/ r = n + 1
  OBVIOUS
<1>5. Heads(q, n + 1) = Heads(p, n) \cup (IF x = NoTask THEN {n + 1} ELSE {})
  BY <1>1, <1>4 DEF Heads, Grows
<1>6. IsFiniteSet(Heads(p, n)) /\ n + 1 \notin Heads(p, n)
  BY HeadsFinite
<1>7. x = NoTask => Cardinality(Heads(q, n + 1)) = Cardinality(Heads(p, n)) + 1
  BY <1>5, <1>6, FS_AddElement
<1> QED
  BY <1>3, <1>5, <1>7

(* What Blocks says of chains of at least one task.                        *)
Chained(C, p, m, n) ==
  /\ Len(C) = m /\ Len(p) = n
  /\ \A g \in 1 .. m : Len(C[g]) \in Nat \ {0}
  /\ \A g \in 1 .. m : \A i \in 1 .. Len(C[g]) : C[g][i] \in 1 .. n /\ Cardinality(Heads(p, C[g][i])) = g
  /\ \A t \in 1 .. n : \E g \in 1 .. m : \E i \in 1 .. Len(C[g]) : C[g][i] = t
  /\ \A i \in 1 .. Len(C[1]) : C[1][i] = i
  /\ \A g \in 2 .. m : \A i \in 1 .. Len(C[g]) : C[g][i] = C[g - 1][Len(C[g - 1])] + i
  /\ C[m][Len(C[m])] = n

LEMMA ChainedBlocks ==
  ASSUME NEW p, NEW C, NEW m \in Nat \ {0}, NEW n \in Nat \ {0}, Len(C) = m, Len(p) = n
  PROVE  /\ Chained(C, p, m, n) => Blocks(C, p)
         /\ Blocks(C, p) /\ C \in Seq(Seq(Task)) => Chained(C, p, m, n) /\ Cardinality(Heads(p, n)) = m
<1>1. ASSUME Chained(C, p, m, n) PROVE Blocks(C, p)
  BY <1>1 DEF Chained, Blocks, Final
<1>2. ASSUME Blocks(C, p), C \in Seq(Seq(Task)) PROVE Chained(C, p, m, n) /\ Cardinality(Heads(p, n)) = m
  <2>1. \A g \in 1 .. m : Len(C[g]) \in Nat
    <3>1. \A g \in 1 .. m : C[g] \in Seq(Task)
      BY <1>2
    <3> QED
      BY <3>1
  <2>2. Chained(C, p, m, n)
    BY <1>2, <2>1 DEF Chained, Blocks, Final
  <2>3. m \in 1 .. m
    OBVIOUS
  <2>4. Len(C[m]) \in 1 .. Len(C[m]) /\ C[m][Len(C[m])] = n
    BY <2>2, <2>3 DEF Chained
  <2>5. Cardinality(Heads(p, C[m][Len(C[m])])) = m
    BY <2>2, <2>3, <2>4 DEF Chained
  <2> QED
    BY <2>2, <2>4, <2>5
<1> QED
  BY <1>1, <1>2

(* D is C with e at the end of the last of its k lists; with an empty list *)
(* after its k lists.                                                      *)
Appended(D, C, k, e) ==
  /\ D \in Seq(Seq(Task)) /\ Len(D) = k
  /\ \A g \in 1 .. k - 1 : D[g] = C[g]
  /\ Len(C[k]) \in Nat /\ Len(D[k]) = Len(C[k]) + 1
  /\ \A i \in 1 .. Len(C[k]) : D[k][i] = C[k][i]
  /\ D[k][Len(C[k]) + 1] = e

Opened(D, C, k) ==
  /\ D \in Seq(Seq(Task)) /\ Len(D) = k + 1
  /\ \A g \in 1 .. k : D[g] = C[g]
  /\ Len(D[k + 1]) = 0

(* A first command begins a chain: the first one of the buffer the one that *)
(* is there, the others a new one.                                         *)
LEMMA FirstBlock ==
  ASSUME NEW D, NEW C, NEW p, NEW q, Appended(D, C, 1, 1), Len(C[1]) = 0, Grows(p, q, 0, NoTask)
  PROVE  Blocks(D, q)
<1>1. PICK d : d = D[1]
  OBVIOUS
<1>2. Len(D) = 1 /\ Len(d) = 1 /\ d[1] = 1 /\ Len(q) = 1 /\ q[1] = NoTask
  BY <1>1 DEF Appended, Grows
<1>3. \A r : (r \in 1 .. 1 <=> r = 1) /\ r \notin 2 .. 1
  OBVIOUS
<1>4. Heads(q, 1) = {1}
  BY <1>2, <1>3 DEF Heads
<1>5. Cardinality(Heads(q, 1)) = 1
  BY <1>4, FS_Singleton
<1>6. (\A g \in 1 .. Len(D) : Len(D[g]) > 0) /\ Final(D[Len(D)]) = Len(q)
  BY <1>1, <1>2, <1>3 DEF Final
<1>7. (\A i \in 1 .. Len(D[1]) : D[1][i] = i) /\ \A g : g \notin 2 .. Len(D)
  BY <1>1, <1>2, <1>3
<1>8. \A g \in 1 .. Len(D) : \A i \in 1 .. Len(D[g]) :
        D[g][i] \in 1 .. Len(q) /\ Cardinality(Heads(q, D[g][i])) = g
  BY <1>1, <1>2, <1>3, <1>5
<1>9. \A t \in 1 .. Len(q) : \E g \in 1 .. Len(D) : \E i \in 1 .. Len(D[g]) : D[g][i] = t
  BY <1>1, <1>2, <1>3
<1>10. Len(D) >= 1 /\ Len(q) # 0
  BY <1>2
<1> QED
  BY <1>6, <1>7, <1>8, <1>9, <1>10 DEF Blocks

LEMMA NewBlock ==
  ASSUME NEW m \in Nat \ {0}, NEW n \in Nat \ {0}, NEW p, NEW q, NEW C, NEW B, NEW D,
         Chained(C, p, m, n), Cardinality(Heads(p, n)) = m, Grows(p, q, n, NoTask),
         Opened(B, C, m), Appended(D, B, m + 1, n + 1)
  PROVE  Blocks(D, q)
<1>a. \A g \in 1 .. m : D[g] = C[g]
  BY DEF Opened, Appended
<1>b. Len(D) = m + 1 /\ Len(D[m + 1]) = 1 /\ D[m + 1][1] = n + 1
  BY DEF Opened, Appended
<1>1. Cardinality(Heads(q, n + 1)) = m + 1
  BY HeadsGrow
<1>2. \A t \in 1 .. n : Heads(q, t) = Heads(p, t)
  BY HeadsGrow
<1>3. \A g : g \in 1 .. m + 1 <=> g \in 1 .. m \/ g = m + 1
  OBVIOUS
<1>4. \A g \in 1 .. m + 1 : Len(D[g]) \in Nat \ {0}
  BY <1>a, <1>b, <1>3 DEF Chained
<1>5. \A g \in 1 .. m + 1 : \A i \in 1 .. Len(D[g]) :
        D[g][i] \in 1 .. n + 1 /\ Cardinality(Heads(q, D[g][i])) = g
  <2> TAKE g \in 1 .. m + 1
  <2> TAKE i \in 1 .. Len(D[g])
  <2>1. CASE g = m + 1
    <3>1. Len(D[g]) = 1 /\ D[g][1] = n + 1
      BY <1>a, <1>b, <2>1
    <3>2. i = 1
      BY <1>a, <1>b, <3>1
    <3> QED
      BY <1>a, <1>b, <1>1, <2>1, <3>1, <3>2
  <2>2. CASE g \in 1 .. m
    <3>1. C[g][i] \in 1 .. n /\ Cardinality(Heads(p, C[g][i])) = g /\ D[g] = C[g]
      BY <1>a, <1>b, <2>2 DEF Chained
    <3> QED
      BY <1>a, <1>b, <1>2, <3>1
  <2> QED
    BY <1>a, <1>b, <1>3, <2>1, <2>2
<1>6. \A t \in 1 .. n + 1 : \E g \in 1 .. m + 1 : \E i \in 1 .. Len(D[g]) : D[g][i] = t
  <2> TAKE t \in 1 .. n + 1
  <2>1. CASE t = n + 1
    BY <1>a, <1>b, <2>1
  <2>2. CASE t \in 1 .. n
    <3>1. PICK g \in 1 .. m : \E i \in 1 .. Len(C[g]) : C[g][i] = t
      BY <1>a, <1>b, <2>2 DEF Chained
    <3> QED
      BY <1>a, <1>b, <1>3, <3>1
  <2> QED
    BY <1>a, <1>b, <2>1, <2>2
<1>7. \A i \in 1 .. Len(D[1]) : D[1][i] = i
  BY <1>a, <1>b DEF Chained
<1>8. \A g \in 2 .. m + 1 : \A i \in 1 .. Len(D[g]) : D[g][i] = D[g - 1][Len(D[g - 1])] + i
  <2> TAKE g \in 2 .. m + 1
  <2> TAKE i \in 1 .. Len(D[g])
  <2>1. g - 1 \in 1 .. m /\ D[g - 1] = C[g - 1]
    BY <1>a
  <2>2. CASE g = m + 1
    <3>1. Len(D[g]) = 1 /\ D[g][1] = n + 1 /\ g - 1 = m
      BY <1>a, <1>b, <2>2
    <3>2. i = 1
      BY <1>a, <1>b, <3>1
    <3> QED
      BY <1>a, <1>b, <2>1, <3>1, <3>2 DEF Chained
  <2>3. CASE g \in 2 .. m
    <3>1. D[g] = C[g]
      BY <1>a, <1>b, <2>3
    <3>2. C[g][i] = C[g - 1][Len(C[g - 1])] + i
      BY <1>a, <1>b, <2>3, <3>1 DEF Chained
    <3> QED
      BY <1>a, <1>b, <2>1, <3>1, <3>2
  <2> QED
    BY <1>a, <1>b, <2>2, <2>3
<1>9. Len(q) = n + 1 /\ n + 1 \in Nat \ {0} /\ m + 1 \in Nat \ {0}
  BY DEF Grows
<1>10. Chained(D, q, m + 1, n + 1)
  BY <1>a, <1>b, <1>4, <1>5, <1>6, <1>7, <1>8, <1>9 DEF Chained
<1> QED
  BY <1>a, <1>b, <1>9, <1>10, ChainedBlocks

(* Another command lengthens the last chain.                               *)
LEMMA LongerBlock ==
  ASSUME NEW m \in Nat \ {0}, NEW n \in Nat \ {0}, NEW p, NEW q, NEW C, NEW D, NEW x, x # NoTask,
         Chained(C, p, m, n), Cardinality(Heads(p, n)) = m, Grows(p, q, n, x),
         Appended(D, C, m, n + 1)
  PROVE  Blocks(D, q)
<1>a. Len(D) = m /\ \A g \in 1 .. m - 1 : D[g] = C[g]
  BY DEF Appended
<1>m. PICK l \in Nat \ {0} : l = Len(C[m])
  <2>1. m \in 1 .. m
    OBVIOUS
  <2> QED
    BY <2>1 DEF Chained
<1>b. Len(D[m]) = l + 1 /\ (\A i \in 1 .. l : D[m][i] = C[m][i]) /\ D[m][l + 1] = n + 1
  BY <1>m DEF Appended
<1>1. Cardinality(Heads(q, n + 1)) = m
  BY HeadsGrow
<1>2. \A t \in 1 .. n : Heads(q, t) = Heads(p, t)
  BY HeadsGrow
<1>3. /\ \A g \in 1 .. m : (g \in 1 .. m - 1 /\ D[g] = C[g]) \/ g = m
      /\ \A i : i \in 1 .. l + 1 <=> i \in 1 .. l \/ i = l + 1
  BY <1>a
<1>4. \A g \in 1 .. m : Len(D[g]) \in Nat \ {0}
  BY <1>a, <1>b, <1>m, <1>3 DEF Chained
<1>5. \A g \in 1 .. m : \A i \in 1 .. Len(D[g]) :
        (D[g][i] = n + 1 /\ g = m /\ i = l + 1) \/ (i \in 1 .. Len(C[g]) /\ D[g][i] = C[g][i])
  <2> TAKE g \in 1 .. m
  <2> TAKE i \in 1 .. Len(D[g])
  <2>1. CASE D[g] = C[g]
    BY <1>a, <1>b, <1>m, <2>1
  <2>2. CASE g = m
    <3>1. i \in 1 .. l + 1
      BY <1>a, <1>b, <1>m, <2>2
    <3> QED
      BY <1>a, <1>b, <1>m, <1>3, <2>2, <3>1
  <2> QED
    BY <1>a, <1>b, <1>m, <1>3, <2>1, <2>2
<1>6. \A g \in 1 .. m : \A i \in 1 .. Len(C[g]) : i \in 1 .. Len(D[g]) /\ D[g][i] = C[g][i]
  BY <1>a, <1>b, <1>m, <1>3
<1>7. \A g \in 1 .. m : \A i \in 1 .. Len(D[g]) :
        D[g][i] \in 1 .. n + 1 /\ Cardinality(Heads(q, D[g][i])) = g
  <2> TAKE g \in 1 .. m
  <2> TAKE i \in 1 .. Len(D[g])
  <2>1. CASE D[g][i] = n + 1 /\ g = m
    BY <1>a, <1>b, <1>m, <1>1, <2>1
  <2>2. CASE i \in 1 .. Len(C[g]) /\ D[g][i] = C[g][i]
    <3>1. C[g][i] \in 1 .. n /\ Cardinality(Heads(p, C[g][i])) = g
      BY <1>a, <1>b, <1>m, <2>2 DEF Chained
    <3> QED
      BY <1>a, <1>b, <1>m, <1>2, <2>2, <3>1
  <2> QED
    BY <1>a, <1>b, <1>m, <1>5, <2>1, <2>2
<1>8. \A t \in 1 .. n + 1 : \E g \in 1 .. m : \E i \in 1 .. Len(D[g]) : D[g][i] = t
  <2> TAKE t \in 1 .. n + 1
  <2>1. CASE t = n + 1
    <3>1. m \in 1 .. m /\ l + 1 \in 1 .. Len(D[m])
      BY <1>b
    <3> QED
      BY <1>a, <1>b, <1>m, <2>1, <3>1
  <2>2. CASE t \in 1 .. n
    <3>1. PICK g \in 1 .. m : \E i \in 1 .. Len(C[g]) : C[g][i] = t
      BY <1>a, <1>b, <1>m, <2>2 DEF Chained
    <3> QED
      BY <1>a, <1>b, <1>m, <1>6, <3>1
  <2> QED
    BY <1>a, <1>b, <1>m, <2>1, <2>2
<1>9. C[m][l] = n /\ l \in 1 .. l
  BY <1>a, <1>b, <1>m DEF Chained
<1>10. \A i \in 1 .. Len(D[1]) : D[1][i] = i
  <2> TAKE i \in 1 .. Len(D[1])
  <2>1. CASE i \in 1 .. Len(C[1]) /\ D[1][i] = C[1][i]
    BY <1>a, <1>b, <1>m, <2>1 DEF Chained
  <2>2. CASE D[1][i] = n + 1 /\ 1 = m /\ i = l + 1
    <3>1. C[1][l] = l
      BY <1>a, <1>b, <1>m, <1>9, <2>2 DEF Chained
    <3> QED
      BY <1>a, <1>b, <1>m, <1>9, <2>2, <3>1
  <2> QED
    BY <1>a, <1>b, <1>m, <1>5, <2>1, <2>2
<1>11. \A g \in 2 .. m : \A i \in 1 .. Len(D[g]) : D[g][i] = D[g - 1][Len(D[g - 1])] + i
  <2> TAKE g \in 2 .. m
  <2> TAKE i \in 1 .. Len(D[g])
  <2>1. g - 1 \in 1 .. m /\ D[g - 1] = C[g - 1] /\ g \in 1 .. m
    BY <1>a
  <2>2. CASE i \in 1 .. Len(C[g]) /\ D[g][i] = C[g][i]
    <3>1. C[g][i] = C[g - 1][Len(C[g - 1])] + i
      BY <2>2 DEF Chained
    <3> QED
      BY <2>1, <2>2, <3>1
  <2>3. CASE D[g][i] = n + 1 /\ g = m /\ i = l + 1
    <3>1. PICK f : f = C[g - 1][Len(C[g - 1])]
      OBVIOUS
    <3>2. Len(C[g - 1]) \in 1 .. Len(C[g - 1])
      BY <1>a, <1>b, <1>m, <2>1 DEF Chained
    <3>3. f \in Nat
      <4>1. f \in 1 .. n
        BY <1>a, <1>b, <1>m, <2>1, <3>1, <3>2 DEF Chained
      <4> QED
        BY <1>a, <1>b, <1>m, <4>1
    <3>4. C[g][l] = f + l
      BY <1>a, <1>b, <1>m, <1>9, <2>3, <3>1 DEF Chained
    <3>5. n + 1 = f + (l + 1)
      BY <1>a, <1>b, <1>m, <1>9, <2>3, <3>3, <3>4
    <3> QED
      BY <1>a, <1>b, <1>m, <2>1, <2>3, <3>1, <3>5
  <2> QED
    BY <1>a, <1>b, <1>m, <1>5, <2>1, <2>2, <2>3
<1>12. Len(q) = n + 1 /\ n + 1 \in Nat \ {0}
  BY DEF Grows
<1>13. Chained(D, q, m, n + 1)
  BY <1>a, <1>b, <1>m, <1>4, <1>7, <1>8, <1>10, <1>11, <1>12 DEF Chained
<1> QED
  BY <1>a, <1>b, <1>m, <1>12, <1>13, ChainedBlocks

-----------------------------------------------------------------------------
(* Flattening such chains gives the tasks in their order.                  *)
LEMMA FlattenByEquation ==
  ASSUME NEW C, Len(C) # 0, NEW Y,
         \A f : f = [i \in 1 .. Len(C) |-> IF i = 1 THEN C[i] ELSE f[i - 1] \o C[i]] <=> f = Y
  PROVE  FlattenSeq(C) = Y[Len(C)]
BY DEF FlattenSeq

UpTo(n) == [j \in 1 .. n |-> j]

LEMMA UpToIsList ==
  ASSUME NEW n \in Nat
  PROVE  UpTo(n) \in Seq(Nat) /\ Len(UpTo(n)) = n
BY DEF UpTo

LEMMA UpToJoined ==
  ASSUME NEW a \in Nat, NEW c \in Seq(Nat), \A i \in 1 .. Len(c) : c[i] = a + i
  PROVE  UpTo(a) \o c = UpTo(a + Len(c))
<1>1. PICK l \in Nat : l = Len(c)
  OBVIOUS
<1>2. PICK s \in Seq(Nat) : s = UpTo(a) /\ Len(s) = a
  BY UpToIsList
<1>3. /\ s \o c \in Seq(Nat) /\ Len(s \o c) = a + l
      /\ \A i \in 1 .. a + l : (s \o c)[i] = IF i <= a THEN s[i] ELSE c[i - a]
  <2>1. /\ s \o c \in Seq(Nat) /\ Len(s \o c) = Len(s) + Len(c)
        /\ \A i \in 1 .. Len(s) + Len(c) : (s \o c)[i] = IF i <= Len(s) THEN s[i] ELSE c[i - Len(s)]
    BY JoinFacts
  <2> QED
    BY <1>1, <1>2, <2>1
<1>4. ASSUME NEW i \in 1 .. a + l PROVE (IF i <= a THEN s[i] ELSE c[i - a]) = i
  <2>1. CASE i <= a
    <3>1. i \in 1 .. a
      BY <2>1
    <3> QED
      BY <1>2, <2>1, <3>1 DEF UpTo
  <2>2. CASE ~ (i <= a)
    <3>1. i - a \in 1 .. l /\ a + (i - a) = i
      BY <2>2
    <3> QED
      BY <1>1, <2>2, <3>1
  <2> QED
    BY <2>1, <2>2
<1>5. s \o c = [i \in 1 .. a + l |-> i]
  <2>1. \A i \in 1 .. a + l : (s \o c)[i] = i
    BY <1>3, <1>4
  <2>2. s \o c = [i \in 1 .. Len(s \o c) |-> (s \o c)[i]]
    BY <1>3, ListIsFunction
  <2> QED
    BY <1>3, <2>1, <2>2
<1> QED
  BY <1>1, <1>2, <1>5 DEF UpTo

Stacked(C, m, E) ==
  /\ Len(C) = m /\ E \in [1 .. m -> Nat]
  /\ Len(C[1]) = E[1] /\ \A i \in 1 .. Len(C[1]) : C[1][i] = i
  /\ \A g \in 2 .. m : E[g] = E[g - 1] + Len(C[g]) /\ \A i \in 1 .. Len(C[g]) : C[g][i] = E[g - 1] + i

LEMMA UpToFlattened ==
  ASSUME NEW m \in Nat \ {0}, NEW C \in Seq(Seq(Nat)), NEW E, Stacked(C, m, E)
  PROVE  FlattenSeq(C) = UpTo(E[m])
<1>a. Len(C) = m /\ E \in [1 .. m -> Nat] /\ Len(C[1]) = E[1] /\ \A i \in 1 .. Len(C[1]) : C[1][i] = i
  BY DEF Stacked
<1>b. \A g \in 2 .. m : E[g] = E[g - 1] + Len(C[g]) /\ \A i \in 1 .. Len(C[g]) : C[g][i] = E[g - 1] + i
  BY DEF Stacked
<1> DEFINE Y == [g \in 1 .. m |-> UpTo(E[g])]
           Body(f) == [i \in 1 .. m |-> IF i = 1 THEN C[i] ELSE f[i - 1] \o C[i]]
<1>1. \A g \in 1 .. m : C[g] \in Seq(Nat)
  BY <1>a
<1>2. C[1] = UpTo(E[1])
  <2>1. C[1] \in Seq(Nat) /\ 1 \in 1 .. m
    BY <1>1
  <2>2. C[1] = [i \in 1 .. Len(C[1]) |-> C[1][i]]
    BY <2>1, ListIsFunction
  <2> QED
    BY <1>a, <2>2 DEF UpTo
<1>3. \A g \in 2 .. m : g \in 1 .. m /\ g - 1 \in 1 .. m /\ g # 1
  OBVIOUS
<1>4. ASSUME NEW g \in 2 .. m PROVE UpTo(E[g - 1]) \o C[g] = UpTo(E[g])
  <2>1. C[g] \in Seq(Nat) /\ E[g - 1] \in Nat
    BY <1>a, <1>1, <1>3
  <2>2. E[g] = E[g - 1] + Len(C[g]) /\ \A i \in 1 .. Len(C[g]) : C[g][i] = E[g - 1] + i
    BY <1>b
  <2>3. UpTo(E[g - 1]) \o C[g] = UpTo(E[g - 1] + Len(C[g]))
    BY <2>1, <2>2, UpToJoined
  <2> QED
    BY <2>2, <2>3
<1>5. Y = Body(Y)
  <2>1. ASSUME NEW i \in 1 .. m PROVE Y[i] = IF i = 1 THEN C[i] ELSE Y[i - 1] \o C[i]
    <3>1. CASE i = 1
      BY <1>2, <3>1
    <3>2. CASE i # 1
      <4>1. i \in 2 .. m
        BY <3>2
      <4>2. Y[i - 1] = UpTo(E[i - 1])
        BY <1>3, <4>1
      <4> QED
        BY <1>4, <3>2, <4>1, <4>2
    <3> QED
      BY <3>1, <3>2
  <2> QED
    BY <2>1
<1>6. ASSUME NEW f, f = Body(f) PROVE f = Y
  <2>1. f = [i \in 1 .. m |-> f[i]]
    BY <1>6
  <2>2. \A i \in 1 .. m : f[i] = IF i = 1 THEN C[i] ELSE f[i - 1] \o C[i]
    BY <1>6
  <2> DEFINE I == {g \in 1 .. m : f[g] = UpTo(E[g])}
  <2>3. 1 \in I
    <3>1. 1 \in 1 .. m
      OBVIOUS
    <3> QED
      BY <1>2, <2>2, <3>1
  <2>4. ASSUME NEW i \in 2 .. m, i - 1 \in I PROVE i \in I
    <3>1. f[i] = f[i - 1] \o C[i]
      BY <1>3, <2>2
    <3> QED
      BY <1>3, <1>4, <2>4, <3>1
  <2>5. \A i \in 1 .. m : i \in I
    <3> HIDE DEF I
    <3> QED
      BY <2>3, <2>4, Upwards
  <2> QED
    BY <2>1, <2>5
<1>7. \A f : f = Body(f) <=> f = Y
  <2> HIDE DEF Body, Y
  <2> QED
    BY <1>5, <1>6
<1>8. FlattenSeq(C) = Y[m]
  <2> HIDE DEF Y
  <2> QED
    BY <1>a, <1>7, FlattenByEquation
<1> QED
  BY <1>8

LEMMA BlocksFlattened ==
  ASSUME NEW C \in Seq(Seq(Task)), NEW p, Len(p) \in Nat, Blocks(C, p)
  PROVE  FlattenSeq(C) = UpTo(Len(p))
<1>1. PICK m \in Nat \ {0}, n \in Nat : Len(C) = m /\ Len(p) = n
  BY DEF Blocks
<1>2. C \in Seq(Seq(Nat))
  <2>1. Task \subseteq Nat
    BY CommandBufferAssumption DEF Task
  <2>2. ASSUME NEW s \in Seq(Task) PROVE s \in Seq(Nat)
    <3>1. Len(s) \in Nat /\ s = [i \in 1 .. Len(s) |-> s[i]] /\ \A i \in 1 .. Len(s) : s[i] \in Task
      BY ListIsFunction
    <3> QED
      BY <2>1, <3>1
  <2>3. C = [g \in 1 .. m |-> C[g]] /\ \A g \in 1 .. m : C[g] \in Seq(Nat)
    BY <1>1, <2>2, ListIsFunction
  <2>4. C \in [1 .. m -> Seq(Nat)]
    BY <2>3
  <2> QED
    BY <2>4, FunctionIsList
<1>3. CASE n = 0
  <2>1. m = 1 /\ Len(C[1]) = 0
    BY <1>1, <1>3 DEF Blocks
  <2>2. \A g : g \notin 2 .. 1 /\ g \notin 1 .. 0
    OBVIOUS
  <2>3. PICK E : E = [g \in 1 .. 1 |-> 0]
    OBVIOUS
  <2>4. E \in [1 .. 1 -> Nat] /\ E[1] = 0
    BY <2>3
  <2>5. Stacked(C, 1, E)
    BY <1>1, <2>1, <2>2, <2>4 DEF Stacked
  <2>6. FlattenSeq(C) = UpTo(E[1])
    BY <1>2, <2>5, UpToFlattened
  <2> QED
    BY <1>1, <1>3, <2>4, <2>6
<1>4. CASE n # 0
  <2>1. Chained(C, p, m, n)
    BY <1>1, <1>4, ChainedBlocks
  <2>2. PICK E : E = [g \in 1 .. m |-> C[g][Len(C[g])]]
    OBVIOUS
  <2>3. \A g \in 1 .. m : Len(C[g]) \in Nat \ {0} /\ Len(C[g]) \in 1 .. Len(C[g])
    BY <2>1 DEF Chained
  <2>4. \A g \in 1 .. m : E[g] \in 1 .. n /\ E[g] = C[g][Len(C[g])]
    BY <2>1, <2>2, <2>3 DEF Chained
  <2>5. E \in [1 .. m -> Nat]
    BY <2>2, <2>4
  <2>6. 1 \in 1 .. m /\ m \in 1 .. m /\ \A g \in 2 .. m : g \in 1 .. m /\ g - 1 \in 1 .. m
    OBVIOUS
  <2>7. E[1] = Len(C[1]) /\ E[m] = n
    BY <2>1, <2>3, <2>4, <2>6 DEF Chained
  <2>8. \A g \in 2 .. m : \A i \in 1 .. Len(C[g]) : C[g][i] = E[g - 1] + i
    <3> TAKE g \in 2 .. m
    <3> TAKE i \in 1 .. Len(C[g])
    <3>1. C[g][i] = C[g - 1][Len(C[g - 1])] + i
      BY <2>1 DEF Chained
    <3>2. E[g - 1] = C[g - 1][Len(C[g - 1])]
      BY <2>4, <2>6
    <3> QED
      BY <3>1, <3>2
  <2>9. \A g \in 2 .. m : E[g] = E[g - 1] + Len(C[g])
    BY <2>3, <2>4, <2>6, <2>8
  <2>10. \A i \in 1 .. Len(C[1]) : C[1][i] = i
    BY <2>1 DEF Chained
  <2>11. Stacked(C, m, E)
    BY <1>1, <2>5, <2>7, <2>8, <2>9, <2>10 DEF Stacked
  <2>12. FlattenSeq(C) = UpTo(E[m])
    BY <1>2, <2>11, UpToFlattened
  <2> QED
    BY <1>1, <2>7, <2>12
<1> QED
  BY <1>3, <1>4

-----------------------------------------------------------------------------
(* What a command does to the chains, or to their controllers.             *)
LEMMA AddedToLast ==
  ASSUME NEW cs \in Seq(Seq(Task)), New \in Task, NEW k \in Nat \ {0}, k = Len(cs)
  PROVE  Appended(AddTo(cs, k), cs, k, New)
<1>1. k \in 1 .. k /\ \A g \in 1 .. k - 1 : g \in 1 .. k /\ g # k
  OBVIOUS
<1>2. cs[k] \in Seq(Task)
  BY <1>1
<1>3. PICK c : c = Append(cs[k], New)
  OBVIOUS
<1>4. /\ c \in Seq(Task) /\ Len(cs[k]) \in Nat /\ Len(c) = Len(cs[k]) + 1
      /\ \A i \in 1 .. Len(cs[k]) : c[i] = cs[k][i]
      /\ c[Len(cs[k]) + 1] = New
  BY <1>2, <1>3, AppendFacts
<1>5. AddTo(cs, k) = [cs EXCEPT ![k] = c]
  BY <1>3 DEF AddTo
<1>6. /\ AddTo(cs, k) \in Seq(Seq(Task)) /\ Len(AddTo(cs, k)) = k /\ AddTo(cs, k)[k] = c
      /\ \A g \in 1 .. k : g # k => AddTo(cs, k)[g] = cs[g]
  BY <1>1, <1>4, <1>5, ReplaceFacts
<1> QED
  BY <1>1, <1>4, <1>6 DEF Appended

LEMMA ChainOpened ==
  ASSUME NEW cs \in Seq(Seq(Task))
  PROVE  Opened(Append(cs, <<>>), cs, Len(cs))
<1>1. <<>> \in Seq(Task) /\ Len(<<>>) = 0
  OBVIOUS
<1> QED
  BY <1>1, AppendFacts DEF Opened

LEMMA FirstOrNot ==
  ASSUME NEW C \in Seq(Seq(Task)), NEW p, Len(p) \in Nat, Blocks(C, p)
  PROVE  \/ Len(p) = 0 /\ Len(C) = 1 /\ C[Len(C)] = <<>> /\ Len(C[1]) = 0
         \/ Len(p) # 0 /\ C[Len(C)] # <<>>
<1>1. PICK m \in Nat \ {0} : m = Len(C)
  BY DEF Blocks
<1>2. C[m] \in Seq(Task) /\ Len(C[m]) \in Nat /\ m \in 1 .. m
  BY <1>1
<1>3. C[m] = <<>> <=> Len(C[m]) = 0
  BY <1>2
<1> QED
  BY <1>1, <1>2, <1>3 DEF Blocks

LEMMA PredGrows ==
  ASSUME pred \in Seq(Task \cup {NoTask}), NEW x \in Task \cup {NoTask}, NEW n \in Nat, Len(pred) = n
  PROVE  Grows(pred, Append(pred, x), n, x) /\ New = n + 1
BY AppendFacts DEF Grows, New

(* The chains after AddCommand.                                            *)
LEMMA CommandAdded ==
  ASSUME TypeOK, Recording, phase = "recording", New \in Task
  PROVE  LET cs == AddTo(OpenChain(chains), Len(OpenChain(chains)))
             bs == AddTo(OpenChain(controllers), Len(OpenChain(controllers)))
         IN  /\ cs \in Seq(Seq(Task)) /\ bs \in Seq(Seq(Task)) /\ Len(bs) = Len(cs)
             /\ Len(OpenChain(chains)) - 1 \in Nat
             /\ Blocks(cs, Append(pred, NoTask))
<1> SUFFICES ASSUME NEW cs, NEW bs, NEW ds, NEW es,
                    cs = OpenChain(chains), bs = OpenChain(controllers),
                    ds = AddTo(cs, Len(cs)), es = AddTo(bs, Len(bs))
             PROVE  /\ ds \in Seq(Seq(Task)) /\ es \in Seq(Seq(Task)) /\ Len(es) = Len(ds)
                    /\ Len(cs) - 1 \in Nat
                    /\ Blocks(ds, Append(pred, NoTask))
  OBVIOUS
<1>1. Blocks(chains, pred) /\ chains \in Seq(Seq(Task)) /\ controllers \in Seq(Seq(Task))
      /\ pred \in Seq(Task \cup {NoTask}) /\ Len(controllers) = Len(chains)
  BY DEF TypeOK, Recording
<1>2. PICK n \in Nat, m \in Nat \ {0} : n = Len(pred) /\ m = Len(chains) /\ m = Len(controllers)
  BY <1>1 DEF Blocks
<1>3. Grows(pred, Append(pred, NoTask), n, NoTask) /\ New = n + 1
  BY <1>1, <1>2, PredGrows
<1>4. CASE chains[m] = <<>>
  <2>1. cs = chains /\ bs = controllers
    BY <1>2, <1>4 DEF OpenChain, Group
  <2>2. n = 0 /\ m = 1 /\ Len(chains[1]) = 0
    BY <1>1, <1>2, <1>4, FirstOrNot
  <2>3. Appended(ds, chains, m, New) /\ Appended(es, controllers, m, New)
    BY <1>1, <1>2, <2>1, AddedToLast
  <2>4. Blocks(ds, Append(pred, NoTask))
    BY <1>3, <2>2, <2>3, FirstBlock
  <2> QED
    <3>1. ds \in Seq(Seq(Task)) /\ es \in Seq(Seq(Task)) /\ Len(ds) = m /\ Len(es) = m
      BY <2>3 DEF Appended
    <3>2. Len(cs) - 1 \in Nat
      <4>1. Len(cs) = 1
        BY <1>2, <2>1, <2>2
      <4> QED
        BY <4>1
    <3> QED
      BY <2>4, <3>1, <3>2
<1>5. CASE chains[m] # <<>>
  <2>1. cs = Append(chains, <<>>) /\ bs = Append(controllers, <<>>)
    BY <1>2, <1>5 DEF OpenChain, Group
  <2>2. Opened(cs, chains, m) /\ Opened(bs, controllers, m)
    BY <1>1, <1>2, <2>1, ChainOpened
  <2>3. cs \in Seq(Seq(Task)) /\ bs \in Seq(Seq(Task)) /\ Len(cs) = m + 1 /\ Len(bs) = m + 1 /\ m + 1 \in Nat \ {0}
    BY <2>2 DEF Opened
  <2>4. Appended(ds, cs, m + 1, New) /\ Appended(es, bs, m + 1, New)
    BY <2>3, AddedToLast
  <2>5. n \in Nat \ {0}
    BY <1>1, <1>2, <1>5, FirstOrNot
  <2>6. Chained(chains, pred, m, n) /\ Cardinality(Heads(pred, n)) = m
    BY <1>1, <1>2, <2>5, ChainedBlocks
  <2>7. Blocks(ds, Append(pred, NoTask))
    BY <1>3, <2>2, <2>4, <2>5, <2>6, NewBlock
  <2> QED
    <3>1. ds \in Seq(Seq(Task)) /\ es \in Seq(Seq(Task)) /\ Len(ds) = m + 1 /\ Len(es) = m + 1
      BY <2>4 DEF Appended
    <3> QED
      BY <2>3, <2>7, <3>1
<1> QED
  BY <1>4, <1>5

(* The chains after Chain.                                                 *)
LEMMA CommandChained ==
  ASSUME TypeOK, Recording, phase = "recording", New \in Task, NEW u \in open
  PROVE  /\ AddTo(chains, Group) \in Seq(Seq(Task)) /\ AddTo(controllers, Group) \in Seq(Seq(Task))
         /\ Len(AddTo(chains, Group)) = Len(AddTo(controllers, Group))
         /\ Blocks(AddTo(chains, Group), Append(pred, u))
<1>1. Blocks(chains, pred) /\ chains \in Seq(Seq(Task)) /\ controllers \in Seq(Seq(Task))
      /\ pred \in Seq(Task \cup {NoTask}) /\ Len(controllers) = Len(chains)
  BY DEF TypeOK, Recording
<1>2. PICK n \in Nat, m \in Nat \ {0} : n = Len(pred) /\ m = Len(chains) /\ m = Len(controllers)
  BY <1>1 DEF Blocks
<1>3. u \in 1 .. n
  BY <1>1, <1>2 DEF TypeOK, Recorded
<1>4. New = n + 1
  BY <1>2 DEF New
<1>5. u \in Task /\ u # NoTask /\ n \in Nat \ {0}
  BY <1>3, <1>4, CommandBufferAssumption DEF Task
<1>6. Grows(pred, Append(pred, u), n, u)
  BY <1>1, <1>2, <1>5, PredGrows
<1>7. Chained(chains, pred, m, n) /\ Cardinality(Heads(pred, n)) = m
  BY <1>1, <1>2, <1>5, ChainedBlocks
<1>8. Appended(AddTo(chains, m), chains, m, n + 1) /\ Appended(AddTo(controllers, m), controllers, m, n + 1)
  BY <1>1, <1>2, <1>4, AddedToLast
<1>9. Blocks(AddTo(chains, m), Append(pred, u))
  BY <1>5, <1>6, <1>7, <1>8, LongerBlock
<1> QED
  BY <1>2, <1>8, <1>9 DEF Appended, Group

-----------------------------------------------------------------------------
(* Within a chain and from chain to chain the tasks are in order.          *)
LEMMA ChainsAscend ==
  ASSUME NEW C \in Seq(Seq(Task)), NEW p, Len(p) \in Nat \ {0}, Blocks(C, p)
  PROVE  /\ \A g \in 1 .. Len(C) : \A i \in 2 .. Len(C[g]) : C[g][i - 1] < C[g][i]
         /\ \A g, h \in 1 .. Len(C) : g < h => Final(C[g]) < C[h][1]
<1>1. PICK m \in Nat \ {0}, n \in Nat \ {0} : Len(C) = m /\ Len(p) = n
  BY DEF Blocks
<1>2. Chained(C, p, m, n)
  BY <1>1, ChainedBlocks
<1>3. ASSUME NEW g \in 1 .. m
      PROVE  /\ 1 \in 1 .. Len(C[g]) /\ Len(C[g]) \in 1 .. Len(C[g]) /\ Len(C[g]) \in Nat
             /\ \A i \in 1 .. Len(C[g]) : C[g][i] \in 1 .. n /\ Cardinality(Heads(p, C[g][i])) = g
  BY <1>2 DEF Chained
<1>4. ASSUME NEW g \in 1 .. m, NEW i \in 2 .. Len(C[g]) PROVE C[g][i - 1] < C[g][i]
  <2>1. i \in 1 .. Len(C[g]) /\ i - 1 \in 1 .. Len(C[g]) /\ i \in Nat
    BY <1>3
  <2>2. CASE g = 1
    <3>1. C[g][i] = i /\ C[g][i - 1] = i - 1
      BY <1>2, <2>1, <2>2 DEF Chained
    <3> QED
      BY <2>1, <3>1
  <2>3. CASE g # 1
    <3>1. g \in 2 .. m /\ g - 1 \in 1 .. m
      BY <2>3
    <3>2. PICK f : f = C[g - 1][Len(C[g - 1])]
      OBVIOUS
    <3>3. f \in 1 .. n
      BY <1>3, <3>1, <3>2
    <3>4. C[g][i] = f + i /\ C[g][i - 1] = f + (i - 1)
      BY <1>2, <2>1, <3>1, <3>2 DEF Chained
    <3> QED
      BY <2>1, <3>3, <3>4
  <2> QED
    BY <2>2, <2>3
<1>5. ASSUME NEW g \in 1 .. m, NEW h \in 1 .. m, g < h PROVE Final(C[g]) < C[h][1]
  <2>1. PICK a \in 1 .. n : a = Final(C[g]) /\ Cardinality(Heads(p, a)) = g
    BY <1>3 DEF Final
  <2>2. PICK b \in 1 .. n : b = C[h][1] /\ Cardinality(Heads(p, b)) = h
    BY <1>3
  <2>3. b <= a => h <= g
    BY <2>1, <2>2, HeadsMonotone
  <2> QED
    BY <1>5, <2>1, <2>2, <2>3
<1> QED
  BY <1>1, <1>4, <1>5

(* The ends of the chains that a link or a fence can ask for.              *)
LEMMA ChainEnds ==
  ASSUME chains \in Seq(Seq(Task)), Len(pred) \in Nat, Blocks(chains, pred), NEW i \in Nat, i < Len(chains)
  PROVE  /\ Len(pred) = 0 => End(i) = {} /\ First(i) = {}
         /\ Len(pred) # 0 => /\ End(i) = {Final(chains[i + 1])} /\ First(i) = {chains[i + 1][1]}
                             /\ Final(chains[i + 1]) \in Task /\ chains[i + 1][1] \in Task
<1>1. PICK g \in 1 .. Len(chains) : g = i + 1
  <2>1. Len(chains) \in Nat
    OBVIOUS
  <2> QED
    BY <2>1
<1>2. PICK c \in Seq(Task) : c = chains[g]
  OBVIOUS
<1>3. Len(c) \in Nat /\ (c = <<>> <=> Len(c) = 0)
  OBVIOUS
<1>4. End(i) = (IF c = <<>> THEN {} ELSE {Final(c)}) /\ First(i) = (IF c = <<>> THEN {} ELSE {Head(c)})
  BY <1>1, <1>2 DEF End, First, Last, Final
<1>5. CASE Len(pred) = 0
  <2>1. Len(c) = 0
    BY <1>1, <1>2, <1>5 DEF Blocks
  <2> QED
    BY <1>3, <1>4, <1>5, <2>1
<1>6. CASE Len(pred) # 0
  <2>1. Len(c) > 0
    BY <1>1, <1>2, <1>6 DEF Blocks
  <2>2. 1 \in 1 .. Len(c) /\ Len(c) \in 1 .. Len(c) /\ Head(c) = c[1]
    BY <1>3, <2>1
  <2>3. c[1] \in Task /\ Final(c) \in Task
    BY <2>2 DEF Final
  <2> QED
    BY <1>1, <1>2, <1>3, <1>4, <1>6, <2>1, <2>2, <2>3
<1> QED
  BY <1>5, <1>6

(* What finish makes of the chains, links and fences.                      *)
LEMMA LinksBaked ==
  ASSUME chains \in Seq(Seq(Task)), Len(pred) \in Nat, Blocks(chains, pred),
         links \in Seq(Nat \X Nat), InBounds
  PROVE  /\ LinkWaits \subseteq Task \X Task
         /\ \A l \in Range(links) :
              /\ l[1] < Len(chains) /\ l[2] < Len(chains)
              /\ Len(pred) # 0 => <<Final(chains[l[1] + 1]), chains[l[2] + 1][1]>> \in LinkWaits
         /\ (\A l \in Range(links) : l[1] < l[2]) => \A w \in LinkWaits : w[1] < w[2]
<1>1. ASSUME NEW k \in DOMAIN links
      PROVE  /\ links[k][1] \in Nat /\ links[k][2] \in Nat /\ links[k] \in Range(links)
             /\ links[k][1] < Len(chains) /\ links[k][2] < Len(chains)
  <2>1. links[k] \in Nat \X Nat
    OBVIOUS
  <2> QED
    BY <2>1 DEF InBounds, Range
<1>2. CASE Len(pred) = 0
  <2>1. \A k \in DOMAIN links : End(links[k][1]) \X First(links[k][2]) = {}
    BY <1>1, <1>2, ChainEnds
  <2>2. LinkWaits = {}
    BY <2>1 DEF LinkWaits
  <2> QED
    BY <1>1, <1>2, <2>2 DEF Range
<1>3. CASE Len(pred) # 0
  <2>1. ASSUME NEW k \in DOMAIN links
        PROVE  /\ Final(chains[links[k][1] + 1]) \in Task /\ chains[links[k][2] + 1][1] \in Task
               /\ End(links[k][1]) \X First(links[k][2])
                    = {<<Final(chains[links[k][1] + 1]), chains[links[k][2] + 1][1]>>}
    <3>1. /\ End(links[k][1]) = {Final(chains[links[k][1] + 1])} /\ Final(chains[links[k][1] + 1]) \in Task
      BY <1>1, <1>3, ChainEnds
    <3>2. First(links[k][2]) = {chains[links[k][2] + 1][1]} /\ chains[links[k][2] + 1][1] \in Task
      BY <1>1, <1>3, ChainEnds
    <3> QED
      BY <3>1, <3>2
  <2>2. \A w : w \in LinkWaits <=>
          \E k \in DOMAIN links : w = <<Final(chains[links[k][1] + 1]), chains[links[k][2] + 1][1]>>
    <3>1. \A w : w \in LinkWaits <=> \E k \in DOMAIN links : w \in End(links[k][1]) \X First(links[k][2])
      BY DEF LinkWaits
    <3> QED
      BY <2>1, <3>1
  <2>3. ASSUME NEW w \in LinkWaits PROVE w \in Task \X Task
    <3>1. PICK k \in DOMAIN links : w = <<Final(chains[links[k][1] + 1]), chains[links[k][2] + 1][1]>>
      BY <2>2
    <3> QED
      BY <2>1, <3>1
  <2>4. \A l \in Range(links) : <<Final(chains[l[1] + 1]), chains[l[2] + 1][1]>> \in LinkWaits
    BY <2>2 DEF Range
  <2>5. \A l \in Range(links) : l[1] < Len(chains) /\ l[2] < Len(chains)
    BY <1>1 DEF Range
  <2>6. ASSUME \A l \in Range(links) : l[1] < l[2], NEW w \in LinkWaits PROVE w[1] < w[2]
    <3>1. PICK k \in DOMAIN links : w = <<Final(chains[links[k][1] + 1]), chains[links[k][2] + 1][1]>>
      BY <2>2
    <3>2. PICK a \in Nat, b \in Nat : a = links[k][1] /\ b = links[k][2]
      BY <1>1
    <3>m. PICK m \in Nat : m = Len(chains)
      OBVIOUS
    <3>3. a < b /\ b < m
      BY <1>1, <2>6, <3>2, <3>m
    <3>4. a + 1 \in 1 .. m /\ b + 1 \in 1 .. m /\ a + 1 < b + 1
      BY <3>3
    <3>5. Final(chains[a + 1]) < chains[b + 1][1]
      BY <1>3, <3>m, <3>4, ChainsAscend
    <3> QED
      BY <3>1, <3>2, <3>5
  <2> QED
    BY <2>3, <2>4, <2>5, <2>6
<1> QED
  BY <1>2, <1>3

LEMMA ChainsBaked ==
  ASSUME chains \in Seq(Seq(Task)), Len(pred) \in Nat, Blocks(chains, pred)
  PROVE  /\ ChainWaits \subseteq Task \X Task
         /\ \A g \in 1 .. Len(chains) : \A i \in 2 .. Len(chains[g]) : <<chains[g][i - 1], chains[g][i]>> \in ChainWaits
         /\ \A w \in ChainWaits : w[1] < w[2]
<1>1. \A w : w \in ChainWaits <=>
        \E g \in DOMAIN chains : \E i \in 2 .. Len(chains[g]) : w = <<chains[g][i - 1], chains[g][i]>>
  <2> DEFINE Pairs(c) == {<<c[i - 1], c[i]>> : i \in 2 .. Len(c)}
  <2>1. ChainWaits = UNION {Pairs(c) : c \in Range(chains)}
    BY DEF ChainWaits
  <2>2. Range(chains) = {chains[g] : g \in DOMAIN chains}
    BY DEF Range
  <2>3. \A c, w : w \in Pairs(c) <=> \E i \in 2 .. Len(c) : w = <<c[i - 1], c[i]>>
    OBVIOUS
  <2> HIDE DEF Pairs
  <2>4. \A w : w \in ChainWaits <=> \E g \in DOMAIN chains : w \in Pairs(chains[g])
    BY <2>1, <2>2
  <2> QED
    BY <2>3, <2>4
<1>2. DOMAIN chains = 1 .. Len(chains)
  OBVIOUS
<1>3. ASSUME NEW g \in 1 .. Len(chains), NEW i \in 2 .. Len(chains[g])
      PROVE  /\ chains[g][i - 1] \in Task /\ chains[g][i] \in Task /\ chains[g][i - 1] < chains[g][i]
  <2>1. PICK c \in Seq(Task) : c = chains[g]
    OBVIOUS
  <2>2. i \in 1 .. Len(c) /\ i - 1 \in 1 .. Len(c)
    BY <2>1
  <2>3. Len(pred) \in Nat \ {0}
    <3>1. chains[g][i] \in 1 .. Len(pred)
      BY <2>1, <2>2 DEF Blocks
    <3> QED
      BY <3>1
  <2> QED
    BY <2>1, <2>2, <2>3, ChainsAscend
<1>4. ASSUME NEW w \in ChainWaits PROVE w \in Task \X Task /\ w[1] < w[2]
  <2>1. PICK g \in 1 .. Len(chains) : \E i \in 2 .. Len(chains[g]) : w = <<chains[g][i - 1], chains[g][i]>>
    BY <1>1, <1>2
  <2>2. PICK i \in 2 .. Len(chains[g]) : w = <<chains[g][i - 1], chains[g][i]>>
    BY <2>1
  <2> QED
    BY <1>3, <2>2
<1> QED
  BY <1>1, <1>2, <1>4

LEMMA FencesBaked ==
  ASSUME chains \in Seq(Seq(Task)), Len(pred) \in Nat, Blocks(chains, pred),
         fences \in Seq(Nat \X Fences), InBounds,
         \A j, k \in DOMAIN fences : fences[j][2] = fences[k][2] => j = k
  PROVE  /\ \A f \in Fences : FenceTasks(f) \subseteq Task
         /\ \A a \in Range(fences) :
              /\ a[1] < Len(chains) /\ a[2] \in Fences
              /\ Len(pred) # 0 => FenceTasks(a[2]) = {Final(chains[a[1] + 1])}
<1>1. ASSUME NEW k \in DOMAIN fences
      PROVE  fences[k][1] \in Nat /\ fences[k][2] \in Fences /\ fences[k][1] < Len(chains)
  <2>1. fences[k] \in Nat \X Fences
    OBVIOUS
  <2> QED
    BY <2>1 DEF InBounds
<1>2. \A f, e : e \in FenceTasks(f) <=> \E k \in DOMAIN fences : fences[k][2] = f /\ e \in End(fences[k][1])
  BY DEF FenceTasks
<1>3. \A k \in DOMAIN fences : End(fences[k][1]) \subseteq Task
  BY <1>1, ChainEnds
<1>4. ASSUME NEW k \in DOMAIN fences, Len(pred) # 0
      PROVE  FenceTasks(fences[k][2]) = {Final(chains[fences[k][1] + 1])}
  <2>1. End(fences[k][1]) = {Final(chains[fences[k][1] + 1])}
    BY <1>1, <1>4, ChainEnds
  <2>2. \A e : e \in FenceTasks(fences[k][2]) <=> e \in End(fences[k][1])
    BY <1>2
  <2> QED
    BY <2>1, <2>2
<1>5. \A f \in Fences : FenceTasks(f) \subseteq Task
  BY <1>2, <1>3
<1>6. ASSUME NEW a \in Range(fences)
      PROVE  /\ a[1] < Len(chains) /\ a[2] \in Fences
             /\ Len(pred) # 0 => FenceTasks(a[2]) = {Final(chains[a[1] + 1])}
  <2>1. PICK k \in DOMAIN fences : a = fences[k]
    BY DEF Range
  <2> QED
    BY <1>1, <1>4, <2>1
<1> QED
  BY <1>5, <1>6

-----------------------------------------------------------------------------
(* The inductive invariant.                                                *)
IInv == TypeOK /\ Counted /\ Recording /\ Baked /\ Waited

LEMMA RecordedAreTasks ==
  ASSUME NEW C \in Seq(Seq(Task)), pred \in Seq(Task \cup {NoTask}), Blocks(C, pred)
  PROVE  Recorded = 1 .. Len(pred) /\ Recorded \subseteq Task /\ IsFiniteSet(Recorded)
<1>1. Recorded = 1 .. Len(pred) /\ Len(pred) \in Nat
  BY DEF Recorded
<1>2. ASSUME NEW t \in 1 .. Len(pred) PROVE t \in Task
  <2>1. PICK g \in 1 .. Len(C) : \E i \in 1 .. Len(C[g]) : C[g][i] = t
    BY DEF Blocks
  <2>2. C[g] \in Seq(Task)
    OBVIOUS
  <2> QED
    BY <2>1, <2>2
<1> QED
  BY <1>1, <1>2, FS_Interval

LEMMA InitHolds == Init => IInv
<1> SUFFICES ASSUME Init PROVE IInv
  OBVIOUS
<1>1. <<>> \in Seq(Task) /\ Len(<<>>) = 0 /\ Len(<<<<>>>>) = 1 /\ <<<<>>>>[1] = <<>>
  OBVIOUS
<1>2. TypeOK
  BY <1>1 DEF Init, TypeOK, Recorded
<1>3. Counted
  BY FS_EmptySet DEF Init, Counted
<1>4. Blocks(chains, pred)
  <2>1. Len(chains) = 1 /\ Len(chains[1]) = 0 /\ Len(pred) = 0
    BY <1>1 DEF Init
  <2>2. (\A i : i \notin 1 .. 0) /\ (\A g : g \in 1 .. 1 <=> g = 1) /\ (\A g : g \notin 2 .. 1)
    OBVIOUS
  <2> QED
    BY <2>1, <2>2 DEF Blocks
<1>5. Recording
  BY <1>1, <1>4, RangeOfNone DEF Init, Recording
<1>6. Baked /\ Waited
  BY DEF Init, Baked, Waited, Done
<1> QED
  BY <1>2, <1>3, <1>5, <1>6 DEF IInv

(* While the buffer is recorded, nothing is baked and nothing runs.        *)
LEMMA StillRecording ==
  ASSUME IInv, phase = "recording", phase' = phase, UNCHANGED <<waits, begun, state>>
  PROVE  Baked' /\ Waited'
BY DEF IInv, Baked, Waited, Done

LEMMA OpenIsFinite ==
  ASSUME IInv, phase = "recording"
  PROVE  /\ Recorded = 1 .. Len(pred) /\ Recorded \subseteq Task /\ open \subseteq Recorded
         /\ IsFiniteSet(open) /\ Cardinality(open) \in Nat /\ Len(pred) \in Nat
         /\ New = Len(pred) + 1 /\ New \notin open
<1>1. /\ Recorded = 1 .. Len(pred) /\ Recorded \subseteq Task /\ IsFiniteSet(Recorded)
  BY RecordedAreTasks DEF IInv, TypeOK, Recording
<1>2. open \subseteq Recorded /\ Len(pred) \in Nat
  BY DEF IInv, TypeOK
<1>3. IsFiniteSet(open)
  BY <1>1, <1>2, FS_Subset
<1> QED
  BY <1>1, <1>2, <1>3, FS_CardinalityType DEF New

(* What AddCommand and Chain have in common.                               *)
RecordsCommand(x, g) ==
  /\ phase = "recording" /\ New \in Task
  /\ pred' = Append(pred, x) /\ origin' = Append(origin, g)
  /\ fallible' \subseteq fallible \cup {New} /\ open' \subseteq open \cup {New}
  /\ UNCHANGED <<phase, links, fences, copies, bakeVars, runVars, given, askedLinks, askedFences>>

LEMMA CommandKeeps ==
  ASSUME IInv, NEW x \in Task \cup {NoTask}, NEW g \in Nat, RecordsCommand(x, g),
         chains' \in Seq(Seq(Task)), controllers' \in Seq(Seq(Task)),
         Len(controllers') = Len(chains'), Blocks(chains', pred'),
         refs' = copies + Cardinality(open'), Cardinality(open') \in Nat
  PROVE  IInv'
<1>1. /\ pred \in Seq(Task \cup {NoTask}) /\ origin \in Seq(Nat) /\ Len(origin) = Len(pred)
      /\ copies \in Nat /\ fallible \subseteq Recorded /\ begun \subseteq Recorded
  BY DEF IInv, TypeOK
<1>2. Recorded = 1 .. Len(pred) /\ open \subseteq Recorded /\ New = Len(pred) + 1 /\ Len(pred) \in Nat
  BY OpenIsFinite DEF RecordsCommand
<1>3. /\ pred' \in Seq(Task \cup {NoTask}) /\ Len(pred') = Len(pred) + 1
      /\ origin' \in Seq(Nat) /\ Len(origin') = Len(origin) + 1
  BY <1>1, AppendFacts DEF RecordsCommand
<1>4. Recorded' = 1 .. Len(pred) + 1
  BY <1>3 DEF Recorded
<1>5. Recorded \cup {New} \subseteq Recorded'
  BY <1>2, <1>4
<1>6. open' \subseteq Recorded' /\ fallible' \subseteq Recorded' /\ begun' \subseteq Recorded'
  BY <1>1, <1>2, <1>5 DEF RecordsCommand, runVars
<1>7. TypeOK'
  <2>1. refs' \in Nat
    BY <1>1
  <2> QED
    BY <1>1, <1>3, <1>6, <2>1 DEF IInv, TypeOK, RecordsCommand, bakeVars, runVars
<1>8. Counted'
  BY DEF Counted, RecordsCommand
<1>9. Recording'
  BY DEF IInv, Recording, RecordsCommand
<1>10. Baked' /\ Waited'
  BY StillRecording DEF RecordsCommand, bakeVars, runVars
<1> QED
  BY <1>7, <1>8, <1>9, <1>10 DEF IInv

LEMMA AddCommandKeeps ==
  ASSUME IInv, NEW fails, AddCommand(fails)
  PROVE  IInv'
<1>1. PICK cs, bs : cs = OpenChain(chains) /\ bs = OpenChain(controllers)
  OBVIOUS
<1>2. /\ phase = "recording" /\ New \in Task
      /\ chains' = AddTo(cs, Len(cs)) /\ controllers' = AddTo(bs, Len(bs))
      /\ pred' = Append(pred, NoTask) /\ open' = open \cup {New} /\ refs' = refs + 1
  BY <1>1 DEF AddCommand
<1>3. /\ chains' \in Seq(Seq(Task)) /\ controllers' \in Seq(Seq(Task))
      /\ Len(controllers') = Len(chains') /\ Len(cs) - 1 \in Nat
      /\ Blocks(chains', pred')
  BY <1>1, <1>2, CommandAdded DEF IInv
<1>4. RecordsCommand(NoTask, Len(cs) - 1)
  BY <1>1 DEF AddCommand, RecordsCommand
<1>5. refs' = copies + Cardinality(open') /\ Cardinality(open') \in Nat
  <2>1. IsFiniteSet(open) /\ New \notin open /\ Cardinality(open) \in Nat
    BY <1>2, OpenIsFinite
  <2>2. Cardinality(open') = Cardinality(open) + 1
    BY <1>2, <2>1, FS_AddElement
  <2>3. refs = copies + Cardinality(open) /\ copies \in Nat
    BY DEF IInv, Counted, TypeOK
  <2> QED
    BY <1>2, <2>1, <2>2, <2>3
<1> QED
  BY <1>3, <1>4, <1>5, CommandKeeps

LEMMA ChainKeeps ==
  ASSUME IInv, NEW u \in open, NEW fails, Chain(u, fails)
  PROVE  IInv'
<1>1. /\ phase = "recording" /\ New \in Task
      /\ chains' = AddTo(chains, Group) /\ controllers' = AddTo(controllers, Group)
      /\ pred' = Append(pred, u) /\ open' = (open \ {u}) \cup {New} /\ refs' = refs
  BY DEF Chain, Extend
<1>2. /\ chains' \in Seq(Seq(Task)) /\ controllers' \in Seq(Seq(Task))
      /\ Len(controllers') = Len(chains') /\ Blocks(chains', pred')
  BY <1>1, CommandChained DEF IInv
<1>3. /\ IsFiniteSet(open) /\ New \notin open /\ Cardinality(open) \in Nat /\ u \in Task
      /\ u \in Recorded /\ Recorded = 1 .. Len(pred)
  BY <1>1, OpenIsFinite
<1>4. origin[u] \in Nat
  <2>1. origin \in Seq(Nat) /\ Len(origin) = Len(pred)
    BY DEF IInv, TypeOK
  <2> QED
    BY <1>3, <2>1
<1>5. RecordsCommand(u, origin[u])
  BY <1>1 DEF Chain, Extend, RecordsCommand
<1>6. Cardinality(open') = Cardinality(open)
  <2>1. PICK rest : rest = open \ {u}
    OBVIOUS
  <2>2. IsFiniteSet(rest) /\ Cardinality(rest) = Cardinality(open) - 1 /\ New \notin rest
    BY <1>3, <2>1, FS_RemoveElement
  <2>3. Cardinality(rest \cup {New}) = Cardinality(rest) + 1
    BY <2>2, FS_AddElement
  <2>4. open' = rest \cup {New}
    BY <1>1, <2>1
  <2> QED
    BY <1>3, <2>2, <2>3, <2>4
<1>7. refs' = copies + Cardinality(open') /\ Cardinality(open') \in Nat
  BY <1>1, <1>3, <1>6 DEF IInv, Counted
<1> QED
  BY <1>2, <1>3, <1>4, <1>5, <1>7, CommandKeeps

(* A BufferedCommand is dropped, and with it its clone of the buffer.      *)
LEMMA OneLessOpen ==
  ASSUME IInv, phase = "recording", NEW u \in open, open' = open \ {u}, refs' = refs - 1, UNCHANGED <<phase, copies>>
  PROVE  Counted' /\ refs' \in Nat /\ open' \subseteq Recorded
<1>1. IsFiniteSet(open) /\ Cardinality(open) \in Nat /\ open \subseteq Recorded
  BY OpenIsFinite
<1>2. PICK rest : rest = open \ {u}
  OBVIOUS
<1>3. IsFiniteSet(rest) /\ Cardinality(rest) = Cardinality(open) - 1 /\ Cardinality(rest) \in Nat
  BY <1>1, <1>2, FS_RemoveElement, FS_CardinalityType
<1>4. refs = copies + Cardinality(open) /\ copies \in Nat
  BY DEF IInv, Counted, TypeOK
<1>5. refs - 1 = copies + Cardinality(rest)
  BY <1>1, <1>3, <1>4
<1>6. refs' = copies' + Cardinality(open') /\ refs' \in Nat
  BY <1>2, <1>3, <1>4, <1>5
<1>7. phase' \notin {"baked", "submitted"}
  OBVIOUS
<1> QED
  BY <1>1, <1>6, <1>7 DEF Counted

LEMMA ResponseKeeps ==
  ASSUME IInv, NEW u \in open, Response(u)
  PROVE  IInv'
<1>1. Counted' /\ refs' \in Nat /\ open' \subseteq Recorded
  BY OneLessOpen DEF Response
<1>2. /\ chains \in Seq(Seq(Task)) /\ controllers \in Seq(Seq(Task)) /\ Len(controllers) = Len(chains)
      /\ Group \in 1 .. Len(controllers) /\ given \in [Task -> Seq(Task)] /\ phase = "recording"
  BY DEF IInv, TypeOK, Recording, Response, Blocks, Group
<1>3. controllers[Group] \in Seq(Task) /\ <<>> \in Seq(Task)
  BY <1>2
<1>4. given' \in [Task -> Seq(Task)]
  BY <1>2, <1>3 DEF Response
<1>5. controllers' \in Seq(Seq(Task)) /\ Len(controllers') = Len(controllers)
  BY <1>2, <1>3, ReplaceFacts DEF Response
<1>6. TypeOK'
  BY <1>1, <1>4, <1>5 DEF IInv, TypeOK, Response, Recorded, bakeVars, runVars
<1>7. Recording'
  BY <1>2, <1>5 DEF IInv, Recording, Response
<1>8. Baked' /\ Waited'
  BY StillRecording DEF Response, bakeVars, runVars
<1> QED
  BY <1>1, <1>6, <1>7, <1>8 DEF IInv

LEMMA DropCommandKeeps ==
  ASSUME IInv, NEW u \in open, DropCommand(u)
  PROVE  IInv'
<1>1. Counted' /\ refs' \in Nat /\ open' \subseteq Recorded
  BY OneLessOpen DEF DropCommand
<1>2. TypeOK'
  BY <1>1 DEF IInv, TypeOK, DropCommand, Recorded, rawVars, bakeVars, runVars, history
<1>3. Recording'
  BY DEF IInv, Recording, DropCommand, rawVars, history
<1>4. Baked' /\ Waited'
  BY StillRecording DEF DropCommand, bakeVars, runVars
<1> QED
  BY <1>1, <1>2, <1>3, <1>4 DEF IInv

LEMMA LinkChainsKeeps ==
  ASSUME IInv, NEW e \in Indices, NEW s \in Indices, LinkChains(e, s)
  PROVE  IInv'
<1>1. <<e, s>> \in Nat \X Nat /\ links \in Seq(Nat \X Nat) /\ phase = "recording"
  BY CommandBufferAssumption DEF IInv, TypeOK, LinkChains
<1>2. links' \in Seq(Nat \X Nat) /\ Range(links') = Range(links) \cup {<<e, s>>}
  BY <1>1, AppendFacts, RangeOfAppend DEF LinkChains
<1>3. TypeOK'
  BY <1>1, <1>2 DEF IInv, TypeOK, LinkChains, Recorded, refVars, bakeVars, runVars
<1>4. Recording'
  BY <1>2 DEF IInv, Recording, LinkChains
<1>5. Counted' /\ Baked' /\ Waited'
  BY StillRecording DEF IInv, Counted, LinkChains, refVars, bakeVars, runVars
<1> QED
  BY <1>3, <1>4, <1>5 DEF IInv

LEMMA CreateFenceKeeps ==
  ASSUME IInv, NEW i \in Indices, NEW f \in Fences, CreateFence(i, f)
  PROVE  IInv'
<1>1. <<i, f>> \in Nat \X Fences /\ fences \in Seq(Nat \X Fences) /\ phase = "recording"
  BY CommandBufferAssumption DEF IInv, TypeOK, CreateFence
<1>2. PICK n \in Nat : n = Len(fences)
  BY <1>1
<1>3. /\ fences' \in Seq(Nat \X Fences) /\ Len(fences') = n + 1
      /\ \A k \in 1 .. n : fences'[k] = fences[k]
      /\ fences'[n + 1] = <<i, f>>
      /\ Range(fences') = Range(fences) \cup {<<i, f>>}
  BY <1>1, <1>2, AppendFacts, RangeOfAppend DEF CreateFence
<1>4. TypeOK'
  BY <1>1, <1>3 DEF IInv, TypeOK, CreateFence, Recorded, refVars, bakeVars, runVars
<1>5. \A j, k \in DOMAIN fences' : fences'[j][2] = fences'[k][2] => j = k
  <2>1. DOMAIN fences = 1 .. n /\ DOMAIN fences' = 1 .. n + 1
    BY <1>1, <1>2, <1>3
  <2>2. \A k \in 1 .. n : fences[k][2] # f
    BY <1>1, <2>1 DEF IInv, Recording, CreateFence, Range
  <2>3. \A j, k \in 1 .. n : fences[j][2] = fences[k][2] => j = k
    BY <1>1, <2>1 DEF IInv, Recording
  <2>4. \A k \in 1 .. n + 1 : k \in 1 .. n \/ k = n + 1
    OBVIOUS
  <2>5. <<i, f>>[2] = f
    OBVIOUS
  <2> QED
    BY <1>3, <2>1, <2>2, <2>3, <2>4, <2>5
<1>6. Recording'
  BY <1>1, <1>3, <1>5 DEF IInv, Recording, CreateFence
<1>7. Counted' /\ Baked' /\ Waited'
  BY StillRecording DEF IInv, Counted, CreateFence, refVars, bakeVars, runVars
<1> QED
  BY <1>4, <1>6, <1>7 DEF IInv

LEMMA CloneKeeps ==
  ASSUME IInv, Clone
  PROVE  IInv'
<1>1. copies \in Nat /\ refs \in Nat /\ refs = copies + Cardinality(open) /\ phase = "recording"
  BY DEF IInv, TypeOK, Counted, Clone
<1>2. Cardinality(open) \in Nat
  BY <1>1, OpenIsFinite
<1>3. copies + 1 \in Nat /\ refs + 1 \in Nat /\ refs + 1 = (copies + 1) + Cardinality(open)
  BY <1>1, <1>2
<1>4. Counted'
  BY <1>3 DEF Counted, Clone
<1>5. TypeOK'
  BY <1>3 DEF IInv, TypeOK, Clone, Recorded, rawVars, bakeVars, runVars, history
<1>6. Recording'
  BY DEF IInv, Recording, Clone, rawVars, history
<1>7. Baked' /\ Waited'
  BY StillRecording DEF Clone, bakeVars, runVars
<1> QED
  BY <1>4, <1>5, <1>6, <1>7 DEF IInv

(* What is baked stays as it is.                                           *)
LEMMA BakedStays ==
  ASSUME IInv, phase \in {"baked", "submitted"}, UNCHANGED <<pred, bakeVars, askedLinks, askedFences>>
  PROVE  Baked'
<1>1. PICK C \in Seq(Seq(Task)) : BakedFrom(C)
  BY DEF IInv, Baked
<1>2. BakedFrom(C)'
  BY <1>1 DEF BakedFrom, Forward, bakeVars
<1> QED
  BY <1>2 DEF Baked

LEMMA OpenIsCounted ==
  ASSUME IInv, phase \in {"recording", "baked", "submitted"}
  PROVE  Cardinality(open) \in Nat
<1>1. CASE phase = "recording"
  BY <1>1, OpenIsFinite
<1>2. CASE phase \in {"baked", "submitted"}
  BY <1>2, FS_EmptySet DEF IInv, Counted
<1> QED
  BY <1>1, <1>2

(* One copy fewer.                                                         *)
LEMMA OneLessCopy ==
  ASSUME IInv, phase \in {"recording", "baked"}, copies > 0, copies' = copies - 1, refs' = refs - 1, open' = open,
         phase' = phase \/ (phase = "baked" /\ phase' = "submitted")
  PROVE  Counted' /\ refs' \in Nat /\ copies' \in Nat
<1>1. refs = copies + Cardinality(open) /\ copies \in Nat /\ copies # 0 /\ Cardinality(open) \in Nat
  BY OpenIsCounted DEF IInv, TypeOK, Counted
<1>2. copies - 1 \in Nat /\ refs - 1 = (copies - 1) + Cardinality(open) /\ refs - 1 \in Nat
  BY <1>1
<1>3. phase' \in {"baked", "submitted"} => open = {} /\ copies - 1 <= 1
  BY <1>1 DEF IInv, Counted
<1> QED
  BY <1>2, <1>3 DEF Counted

LEMMA DropCopyKeeps ==
  ASSUME IInv, DropCopy
  PROVE  IInv'
<1>1. Counted' /\ refs' \in Nat /\ copies' \in Nat
  BY OneLessCopy DEF DropCopy
<1>2. TypeOK'
  BY <1>1 DEF IInv, TypeOK, DropCopy, Recorded, rawVars, bakeVars, runVars, history
<1>3. Recording'
  BY DEF IInv, Recording, DropCopy, rawVars, history
<1>4. Baked'
  BY BakedStays DEF Baked, DropCopy, history
<1>5. Waited'
  BY DEF IInv, Waited, Done, DropCopy, bakeVars, runVars
<1> QED
  BY <1>1, <1>2, <1>3, <1>4, <1>5 DEF IInv

LEMMA SubmitKeeps ==
  ASSUME IInv, Submit
  PROVE  IInv'
<1>1. Counted' /\ refs' \in Nat /\ copies' \in Nat
  BY OneLessCopy DEF Submit
<1>2. TypeOK'
  BY <1>1 DEF IInv, TypeOK, Submit, Recorded, rawVars, bakeVars, runVars, history
<1>3. Recording'
  BY DEF IInv, Recording, Submit, rawVars, history
<1>4. Baked'
  BY BakedStays DEF Submit, history
<1>5. Waited'
  BY DEF IInv, Waited, Done, Submit, bakeVars, runVars
<1> QED
  BY <1>1, <1>2, <1>3, <1>4, <1>5 DEF IInv

LEMMA PanicKeeps ==
  ASSUME IInv, phase \in {"recording", "baked"}, Panic
  PROVE  IInv'
<1>1. begun = {} /\ Done = {}
  BY DEF IInv, Waited
<1>2. /\ <<>> \in Seq(Seq(Task)) /\ <<>> \in Seq(Task) /\ <<>> \in Seq(Nat) /\ Len(<<>>) = 0
      /\ <<>> \in Seq(Nat \X Nat) /\ <<>> \in Seq(Nat \X Fences) /\ <<>> \in Seq(Task \cup {NoTask})
  OBVIOUS
<1>3. given' \in [Task -> Seq(Task)]
  BY <1>2 DEF Panic
<1>4. TypeOK'
  BY <1>1, <1>2, <1>3 DEF IInv, TypeOK, Panic, Recorded, runVars
<1>5. Counted' /\ Recording' /\ Baked'
  BY FS_EmptySet DEF Counted, Recording, Baked, Panic
<1>6. Waited'
  BY <1>1 DEF Waited, Done, Panic, runVars
<1> QED
  BY <1>4, <1>5, <1>6 DEF IInv

LEMMA BakeKeeps ==
  ASSUME IInv, Finish, refs = 1, InBounds
  PROVE  IInv'
<1>1. /\ phase = "recording" /\ copies > 0 /\ phase' = "baked"
      /\ tasks' = FlattenSeq(chains) /\ waits' = LinkWaits \cup ChainWaits
      /\ bound' = [f \in Fences |-> IF FenceTasks(f) = {} THEN NoTask
                                    ELSE CHOOSE t \in FenceTasks(f) : TRUE]
      /\ chains' = <<>> /\ controllers' = <<>> /\ links' = <<>> /\ fences' = <<>>
      /\ UNCHANGED <<refVars, pred, fallible, runVars, history>>
  BY DEF Finish
<1>2. /\ chains \in Seq(Seq(Task)) /\ pred \in Seq(Task \cup {NoTask}) /\ Len(pred) \in Nat
      /\ links \in Seq(Nat \X Nat) /\ fences \in Seq(Nat \X Fences)
      /\ Blocks(chains, pred) /\ askedLinks = Range(links) /\ askedFences = Range(fences)
      /\ \A j, k \in DOMAIN fences : fences[j][2] = fences[k][2] => j = k
  BY <1>1 DEF IInv, TypeOK, Recording
<1>3. /\ LinkWaits \subseteq Task \X Task
      /\ \A l \in Range(links) :
           /\ l[1] < Len(chains) /\ l[2] < Len(chains)
           /\ Len(pred) # 0 => <<Final(chains[l[1] + 1]), chains[l[2] + 1][1]>> \in LinkWaits
      /\ (\A l \in Range(links) : l[1] < l[2]) => \A w \in LinkWaits : w[1] < w[2]
  BY <1>2, LinksBaked
<1>4. /\ ChainWaits \subseteq Task \X Task
      /\ \A g \in 1 .. Len(chains) : \A i \in 2 .. Len(chains[g]) : <<chains[g][i - 1], chains[g][i]>> \in ChainWaits
      /\ \A w \in ChainWaits : w[1] < w[2]
  BY <1>2, ChainsBaked
<1>5. /\ \A f \in Fences : FenceTasks(f) \subseteq Task
      /\ \A a \in Range(fences) :
           /\ a[1] < Len(chains) /\ a[2] \in Fences
           /\ Len(pred) # 0 => FenceTasks(a[2]) = {Final(chains[a[1] + 1])}
  BY <1>2, FencesBaked
<1>6. tasks' = [i \in 1 .. Len(pred) |-> i]
  BY <1>1, <1>2, BlocksFlattened DEF UpTo
<1>7. Counted'
  <2>1. refs = copies + Cardinality(open) /\ copies \in Nat /\ Cardinality(open) \in Nat /\ IsFiniteSet(open)
    BY <1>1, OpenIsFinite DEF IInv, Counted, TypeOK
  <2>2. Cardinality(open) = 0 /\ copies = 1
    BY <1>1, <2>1
  <2>3. open = {}
    BY <2>1, <2>2, FS_EmptySet
  <2> QED
    BY <1>1, <2>1, <2>2, <2>3 DEF Counted, refVars
<1>8. TypeOK'
  <2>1. tasks' \in Seq(Task)
    <3>1. \A t \in 1 .. Len(pred) : t \in Task
      BY <1>2, RecordedAreTasks
    <3> QED
      BY <1>2, <1>6, <3>1
  <2>2. waits' \subseteq (Task \cup {NoTask}) \X Task
    BY <1>1, <1>3, <1>4
  <2>3. bound' \in [Fences -> Task \cup {NoTask}]
    BY <1>1, <1>5
  <2>4. <<>> \in Seq(Seq(Task)) /\ <<>> \in Seq(Nat \X Nat) /\ <<>> \in Seq(Nat \X Fences)
    OBVIOUS
  <2> QED
    BY <1>1, <2>1, <2>2, <2>3, <2>4 DEF IInv, TypeOK, Recorded, refVars, runVars, history
<1>9. Baked'
  <2>1. \A w \in waits' : Forward => w[1] < w[2]
    BY <1>1, <1>2, <1>3, <1>4 DEF Forward
  <2>2. \A l \in askedLinks :
          /\ l[1] < Len(chains) /\ l[2] < Len(chains)
          /\ Len(pred) # 0 => <<Final(chains[l[1] + 1]), chains[l[2] + 1][1]>> \in waits'
    BY <1>1, <1>2, <1>3
  <2>3. \A a \in askedFences :
          /\ a[1] < Len(chains)
          /\ Len(pred) # 0 => bound'[a[2]] = Final(chains[a[1] + 1])
    BY <1>1, <1>2, <1>5
  <2>4. \A g \in 1 .. Len(chains) : \A i \in 2 .. Len(chains[g]) : <<chains[g][i - 1], chains[g][i]>> \in waits'
    BY <1>1, <1>4
  <2>5. PICK C \in Seq(Seq(Task)) : C = chains
    BY <1>2
  <2>6. BakedFrom(C)'
    BY <1>1, <1>2, <1>6, <2>1, <2>2, <2>3, <2>4, <2>5 DEF BakedFrom, Forward, history
  <2> QED
    BY <2>6 DEF Baked
<1>10. Recording' /\ Waited'
  <2>1. begun = {} /\ Done = {}
    BY <1>1 DEF IInv, Waited
  <2> QED
    BY <1>1, <2>1 DEF Recording, Waited, Done, runVars
<1> QED
  BY <1>7, <1>8, <1>9, <1>10 DEF IInv

LEMMA FinishKeeps ==
  ASSUME IInv, Finish
  PROVE  IInv'
<1>1. CASE refs # 1 \/ ~InBounds
  <2>1. Panic /\ phase = "recording"
    BY <1>1 DEF Finish
  <2> QED
    BY <2>1, PanicKeeps
<1>2. CASE ~(refs # 1 \/ ~InBounds)
  BY <1>2, BakeKeeps
<1> QED
  BY <1>1, <1>2

(* The tasks that are baked are those that were recorded.                  *)
LEMMA QueuedIsRecorded ==
  ASSUME IInv, NEW t \in Task, CanStart(t)
  PROVE  phase = "submitted" /\ t \in Recorded
<1>1. phase = "submitted" /\ t \in Range(tasks)
  BY DEF CanStart, InQueue
<1>2. tasks = [i \in 1 .. Len(pred) |-> i]
  BY <1>1 DEF IInv, Baked, BakedFrom
<1>3. t \in 1 .. Len(pred)
  BY <1>1, <1>2 DEF Range
<1>4. Recorded = 1 .. Len(pred)
  BY DEF IInv, TypeOK, Recorded
<1> QED
  BY <1>1, <1>3, <1>4

LEMMA BeginKeeps ==
  ASSUME IInv, NEW t \in Task, Begin(t)
  PROVE  IInv'
<1>1. phase = "submitted" /\ t \in Recorded /\ CanStart(t) /\ begun' = begun \cup {t}
      /\ UNCHANGED <<phase, rawVars, refVars, pred, fallible, bakeVars, state, history>>
  BY QueuedIsRecorded DEF Begin
<1>2. TypeOK'
  BY <1>1 DEF IInv, TypeOK, Recorded, rawVars, refVars, bakeVars, history
<1>3. Counted' /\ Recording'
  BY <1>1 DEF IInv, Counted, Recording, refVars
<1>4. Baked'
  BY <1>1, BakedStays DEF history
<1>5. Waited'
  BY <1>1 DEF IInv, Waited, Done, CanStart, bakeVars
<1> QED
  BY <1>2, <1>3, <1>4, <1>5 DEF IInv

(* A task is done: one that began, or one that could have begun.           *)
LEMMA DoneKeeps ==
  ASSUME IInv, NEW t \in Task, phase = "submitted", t \in begun \/ CanStart(t), NEW s \in {"Ready", "Panicked"},
         state' = [state EXCEPT ![t] = s],
         UNCHANGED <<phase, rawVars, refVars, pred, fallible, bakeVars, begun, history>>
  PROVE  IInv'
<1>1. TypeOK'
  BY DEF IInv, TypeOK, Recorded, rawVars, refVars, bakeVars, history
<1>2. Counted' /\ Recording'
  BY DEF IInv, Counted, Recording, refVars
<1>3. Baked'
  BY BakedStays DEF history
<1>4. Done' = Done \cup {t}
  BY DEF IInv, TypeOK, Done
<1>5. \A w \in waits : w[2] = t => w[1] \in Done
  BY DEF IInv, Waited, CanStart
<1>6. Waited'
  BY <1>4, <1>5 DEF IInv, Waited, bakeVars
<1> QED
  BY <1>1, <1>2, <1>3, <1>6 DEF IInv

LEMMA ExecuteKeeps ==
  ASSUME IInv, NEW t \in Task, Execute(t)
  PROVE  IInv'
<1>1. CASE Begin(t)
  BY <1>1, BeginKeeps
<1>2. CASE Halt(t)
  BY <1>2, QueuedIsRecorded, DoneKeeps DEF Halt
<1>3. CASE Completes(t)
  <2>1. t \in begun /\ phase = "submitted"
    BY <1>3 DEF Completes, IInv, Waited
  <2>2. PICK s \in {"Ready", "Panicked"} : state' = [state EXCEPT ![t] = s]
    BY <1>3 DEF Completes
  <2> QED
    BY <1>3, <2>1, <2>2, DoneKeeps DEF Completes
<1> QED
  BY <1>1, <1>2, <1>3 DEF Execute

LEMMA Unchanged ==
  ASSUME IInv, UNCHANGED vars
  PROVE  IInv'
<1>1. TypeOK' /\ Counted' /\ Recording'
  BY DEF IInv, TypeOK, Recorded, Counted, Recording, vars, rawVars, refVars, bakeVars, runVars, history
<1>2. Baked'
  BY BakedStays DEF Baked, vars, history
<1>3. Waited'
  BY DEF IInv, Waited, Done, vars, bakeVars, runVars
<1> QED
  BY <1>1, <1>2, <1>3 DEF IInv

LEMMA NextKeeps == IInv /\ [Next]_vars => IInv'
<1> SUFFICES ASSUME IInv, [Next]_vars PROVE IInv'
  OBVIOUS
<1>1. ASSUME NEW fails, AddCommand(fails) PROVE IInv'
  BY <1>1, AddCommandKeeps
<1>2. ASSUME NEW u \in open, Total(u) PROVE IInv'
  BY <1>2, ChainKeeps DEF Total
<1>3. ASSUME NEW u \in open, Fallible(u) PROVE IInv'
  BY <1>3, ChainKeeps DEF Fallible
<1>4. ASSUME NEW u \in open, Response(u) PROVE IInv'
  BY <1>4, ResponseKeeps
<1>5. ASSUME NEW u \in open, DropCommand(u) PROVE IInv'
  BY <1>5, DropCommandKeeps
<1>6. ASSUME NEW e \in Indices, NEW s \in Indices, LinkChains(e, s) PROVE IInv'
  BY <1>6, LinkChainsKeeps
<1>7. ASSUME NEW i \in Indices, NEW f \in Fences, CreateFence(i, f) PROVE IInv'
  BY <1>7, CreateFenceKeeps
<1>8. ASSUME Clone PROVE IInv'
  BY <1>8, CloneKeeps
<1>9. ASSUME DropCopy PROVE IInv'
  BY <1>9, DropCopyKeeps
<1>10. ASSUME Finish PROVE IInv'
  BY <1>10, FinishKeeps
<1>11. ASSUME Submit PROVE IInv'
  BY <1>11, SubmitKeeps
<1>12. ASSUME Misuse PROVE IInv'
  BY <1>12, PanicKeeps DEF Misuse
<1>13. ASSUME NEW t \in Task, Execute(t) PROVE IInv'
  BY <1>13, ExecuteKeeps
<1>14. ASSUME Terminated \/ UNCHANGED vars PROVE IInv'
  BY <1>14, Unchanged DEF Terminated
<1> QED
  BY <1>1, <1>2, <1>3, <1>4, <1>5, <1>6, <1>7, <1>8, <1>9, <1>10, <1>11, <1>12, <1>13, <1>14 DEF Next

LEMMA IInvHolds == Spec => []IInv
BY InitHolds, NextKeeps, PTL DEF Spec

-----------------------------------------------------------------------------
(* Every call leaves the buffer, its copies and its tasks well-formed.     *)
THEOREM TypeCorrect == Spec => []TypeOK
<1>1. IInv => TypeOK
  BY DEF IInv
<1> QED
  BY <1>1, IInvHolds, PTL

(* The memory is freed with the last copy and the last BufferedCommand,    *)
(* and after finish there is at most the one copy it was called on, however *)
(* the buffer was cloned, recorded in and dropped.                         *)
THEOREM CopiesAreCounted == Spec => []NoDanglingCopies
<1>1. ASSUME IInv PROVE NoDanglingCopies
  <2>1. ASSUME refs = 0 PROVE copies = 0 /\ open = {}
    <3>1. refs = copies + Cardinality(open) /\ copies \in Nat /\ open \subseteq Recorded /\ Recorded = 1 .. Len(pred)
          /\ Len(pred) \in Nat
      BY <1>1 DEF IInv, Counted, TypeOK, Recorded
    <3>2. IsFiniteSet(open)
      <4>1. IsFiniteSet(1 .. Len(pred))
        BY <3>1, FS_Interval
      <4> QED
        BY <3>1, <4>1, FS_Subset
    <3>3. Cardinality(open) \in Nat /\ (Cardinality(open) = 0 <=> open = {})
      BY <3>2, FS_CardinalityType, FS_EmptySet
    <3> QED
      BY <2>1, <3>1, <3>3
  <2>2. phase \in {"baked", "submitted"} => open = {} /\ copies <= 1
    BY <1>1 DEF IInv, Counted
  <2> QED
    BY <2>1, <2>2 DEF NoDanglingCopies
<1> QED
  BY <1>1, IInvHolds, PTL

(* finish pushes the tasks in the order they were recorded, each once, and *)
(* with forward links only no task waits for one behind it.                *)
THEOREM TasksAreBakedInOrder == Spec => []BakedInOrder
<1>1. ASSUME IInv PROVE BakedInOrder
  BY <1>1 DEF IInv, Baked, BakedFrom, BakedInOrder
<1> QED
  BY <1>1, IInvHolds, PTL

-----------------------------------------------------------------------------
(* The chain the user means, as the buffer keeps it.                       *)
LEMMA ChainOfUser ==
  ASSUME pred \in Seq(Task \cup {NoTask}), NEW C \in Seq(Seq(Task)), Blocks(C, pred), Orderly, origin \in Seq(Nat),
         Len(origin) = Len(pred), NEW k \in Nat, k < Len(C), NEW t \in UserChain(k)
  PROVE  k + 1 \in 1 .. Len(C) /\ \E i \in 1 .. Len(C[k + 1]) : t = C[k + 1][i]
<1>1. t \in 1 .. Len(pred) /\ origin[t] = k /\ t \in Recorded
  BY DEF UserChain, Recorded
<1>2. PICK g \in 1 .. Len(C) : \E i \in 1 .. Len(C[g]) : C[g][i] = t
  BY <1>1 DEF Blocks
<1>3. PICK i \in 1 .. Len(C[g]) : C[g][i] = t
  BY <1>2
<1>4. Cardinality(Heads(pred, t)) = g
  <2>1. Cardinality(Heads(pred, C[g][i])) = g
    BY DEF Blocks
  <2> QED
    BY <1>3, <2>1
<1>5. k + 1 = Cardinality(Heads(pred, t))
  BY <1>1 DEF Orderly, Heads
<1>6. g = k + 1
  BY <1>4, <1>5
<1> QED
  BY <1>2, <1>3, <1>6

(* The tasks of a chain are done from its first to its last.               *)
LEMMA DoneDownwards ==
  ASSUME Waited, NEW C, BakedFrom(C), NEW g \in 1 .. Len(C), NEW n \in Nat, n <= Len(C[g]), Len(C[g]) \in Nat,
         NEW S, S = begun \cup Done \/ S = Done, C[g][n] \in S
  PROVE  \A i \in 1 .. n : C[g][i] \in S
<1> DEFINE I == {i \in 0 .. n : C[g][i] \in S}
<1>1. n \in I
  OBVIOUS
<1>2. ASSUME NEW i \in 2 .. n, i \in I PROVE i - 1 \in I
  <2>1. i \in 2 .. Len(C[g]) /\ i - 1 \in 0 .. n
    OBVIOUS
  <2>2. <<C[g][i - 1], C[g][i]>> \in waits
    BY <2>1 DEF BakedFrom
  <2>3. C[g][i] \in begun \cup Done
    BY <1>2
  <2>4. C[g][i - 1] \in Done
    BY <2>2, <2>3 DEF Waited
  <2> QED
    BY <2>1, <2>4
<1> HIDE DEF I
<1>3. \A i \in 1 .. n : i \in I
  BY <1>1, <1>2, Downwards
<1> QED
  BY <1>3 DEF I

(* When the last task of a chain is done, so is the chain.                 *)
LEMMA ChainIsDone ==
  ASSUME IInv, Orderly, NEW C \in Seq(Seq(Task)), BakedFrom(C), NEW k \in Nat, k < Len(C), Final(C[k + 1]) \in Done
  PROVE  UserChain(k) \subseteq Done
<1>1. PICK g \in 1 .. Len(C) : g = k + 1
  <2>1. Len(C) \in Nat
    OBVIOUS
  <2> QED
    BY <2>1
<1>2. PICK n \in Nat : n = Len(C[g])
  <2>1. C[g] \in Seq(Task)
    OBVIOUS
  <2> QED
    BY <2>1
<1>3. C[g][n] \in Done
  BY <1>1, <1>2 DEF Final
<1>4. \A i \in 1 .. n : C[g][i] \in Done
  BY <1>2, <1>3, DoneDownwards DEF IInv
<1>5. ASSUME NEW t \in UserChain(k) PROVE \E i \in 1 .. Len(C[k + 1]) : t = C[k + 1][i]
  BY ChainOfUser DEF IInv, TypeOK, BakedFrom
<1> QED
  BY <1>1, <1>2, <1>4, <1>5

(* When a task of a chain has begun, so has its first, unless it is done.  *)
LEMMA ChainHasBegun ==
  ASSUME IInv, Orderly, NEW C \in Seq(Seq(Task)), BakedFrom(C), NEW k \in Nat, k < Len(C),
         NEW t \in UserChain(k), t \in begun
  PROVE  C[k + 1][1] \in begun \cup Done
<1>1. k + 1 \in 1 .. Len(C) /\ \E i \in 1 .. Len(C[k + 1]) : t = C[k + 1][i]
  BY ChainOfUser DEF IInv, TypeOK, BakedFrom
<1>2. PICK g \in 1 .. Len(C) : g = k + 1
  BY <1>1
<1>3. PICK n \in Nat : n = Len(C[g])
  <2>1. C[g] \in Seq(Task)
    OBVIOUS
  <2> QED
    BY <2>1
<1>4. PICK i \in 1 .. n : t = C[g][i]
  BY <1>1, <1>2, <1>3
<1>5. \A j \in 1 .. i : C[g][j] \in begun \cup Done
  <2>1. i \in Nat /\ i <= Len(C[g])
    BY <1>3
  <2> QED
    BY <1>3, <1>4, <2>1, DoneDownwards DEF IInv
<1> QED
  BY <1>2, <1>5

(* A fence opens only when its whole chain is done, and no task of a chain *)
(* that another is linked to begins before all of that one is.             *)
THEOREM FencesAndLinksAreBarriers == Spec => []ChainsAreBarriers
<1>1. ASSUME IInv, phase = "submitted", Orderly
      PROVE  /\ \A a \in askedFences : bound[a[2]] \in Done => UserChain(a[1]) \subseteq Done
             /\ \A l \in askedLinks : UserChain(l[2]) \cap begun # {} => UserChain(l[1]) \subseteq Done
  <2>1. PICK C \in Seq(Seq(Task)) : BakedFrom(C)
    BY <1>1 DEF IInv, Baked
  <2>2. /\ askedFences \subseteq Nat \X Fences /\ askedLinks \subseteq Nat \X Nat
        /\ Recorded = 1 .. Len(pred) /\ Len(pred) \in Nat
    BY <1>1 DEF IInv, TypeOK, Recorded
  <2>3. CASE Len(pred) = 0
    <3>1. \A k : UserChain(k) = {}
      BY <2>2, <2>3 DEF UserChain
    <3> QED
      BY <3>1
  <2>4. CASE Len(pred) # 0
    <3>1. ASSUME NEW a \in askedFences, bound[a[2]] \in Done PROVE UserChain(a[1]) \subseteq Done
      <4>1. a[1] \in Nat /\ a[1] < Len(C) /\ bound[a[2]] = Final(C[a[1] + 1])
        BY <2>1, <2>2, <2>4 DEF BakedFrom
      <4> QED
        BY <1>1, <2>1, <3>1, <4>1, ChainIsDone
    <3>2. ASSUME NEW l \in askedLinks, UserChain(l[2]) \cap begun # {} PROVE UserChain(l[1]) \subseteq Done
      <4>1. /\ l[1] \in Nat /\ l[2] \in Nat /\ l[1] < Len(C) /\ l[2] < Len(C)
            /\ <<Final(C[l[1] + 1]), C[l[2] + 1][1]>> \in waits
        BY <2>1, <2>2, <2>4 DEF BakedFrom
      <4>2. PICK t \in UserChain(l[2]) : t \in begun
        BY <3>2
      <4>3. C[l[2] + 1][1] \in begun \cup Done
        BY <1>1, <2>1, <4>1, <4>2, ChainHasBegun
      <4>4. Final(C[l[1] + 1]) \in Done
        BY <1>1, <4>1, <4>3 DEF IInv, Waited
      <4> QED
        BY <1>1, <2>1, <4>1, <4>4, ChainIsDone
    <3> QED
      BY <3>1, <3>2
  <2> QED
    BY <2>3, <2>4
<1>2. IInv => ChainsAreBarriers
  BY <1>1 DEF ChainsAreBarriers
<1> QED
  BY <1>2, IInvHolds, PTL

-----------------------------------------------------------------------------
(* The controllers of a chain are with it, or response has given them to    *)
(* somebody; and of the commands of a chain the user means, only the last   *)
(* is open, and none has been given any while one is.                       *)
Owned ==
  phase = "recording" =>
    /\ \A t \in Task \ Recorded : given[t] = <<>>
    /\ \A t \in Recorded : origin[t] < Len(chains)
    /\ \A u \in open : \A t \in Recorded :
         origin[t] = origin[u] => given[t] = <<>> /\ (t \in open => t = u)
    /\ \A g \in 1 .. Len(chains) :
         /\ Range(controllers[g]) \subseteq Range(chains[g])
         /\ \A t \in Range(chains[g]) : t \in Range(controllers[g]) \/ \E s \in Recorded : t \in Range(given[s])

LEMMA OwnedStays ==
  ASSUME Owned, phase' = phase, open' \subseteq open, UNCHANGED <<chains, controllers, given, origin, pred>>
  PROVE  Owned'
BY DEF Owned, Recorded

(* The tasks of list g of cs, which may have fewer lists.                   *)
Members(cs, g) == IF g \in 1 .. Len(cs) THEN Range(cs[g]) ELSE {}

(* es has one more task than cs, in its last list.                         *)
AddsNew(es, cs) ==
  \A g \in 1 .. Len(es) : Range(es[g]) = Members(cs, g) \cup (IF g = Len(es) THEN {New} ELSE {})

LEMMA MembersAdded ==
  ASSUME NEW cs \in Seq(Seq(Task)), New \in Task, NEW ds, ds = cs \/ ds = Append(cs, <<>>), Len(ds) # 0
  PROVE  Len(AddTo(ds, Len(ds))) = Len(ds) /\ AddsNew(AddTo(ds, Len(ds)), cs)
<1>1. <<>> \in Seq(Task) /\ Range(<<>>) = {}
  BY RangeOfNone
<1>2. PICK n \in Nat : n = Len(cs)
  OBVIOUS
<1>3. ds \in Seq(Seq(Task)) /\ \A g \in 1 .. Len(ds) : Range(ds[g]) = Members(cs, g)
  <2>1. CASE ds = cs
    BY <2>1 DEF Members
  <2>2. CASE ds = Append(cs, <<>>)
    <3>1. ds \in Seq(Seq(Task)) /\ Len(ds) = n + 1 /\ (\A g \in 1 .. n : ds[g] = cs[g]) /\ ds[n + 1] = <<>>
      BY <1>1, <1>2, <2>2, AppendFacts
    <3>2. \A g \in 1 .. n + 1 : g \in 1 .. n \/ (g = n + 1 /\ g \notin 1 .. n)
      OBVIOUS
    <3> QED
      BY <1>1, <1>2, <3>1, <3>2 DEF Members
  <2> QED
    BY <2>1, <2>2
<1>4. PICK k \in Nat \ {0} : k = Len(ds)
  BY <1>3
<1>5. k \in 1 .. k /\ ds[k] \in Seq(Task)
  BY <1>3, <1>4
<1>6. PICK c : c = Append(ds[k], New)
  OBVIOUS
<1>7. c \in Seq(Task) /\ Range(c) = Range(ds[k]) \cup {New}
  BY <1>5, <1>6, AppendFacts, RangeOfAppend
<1>8. AddTo(ds, k) = [ds EXCEPT ![k] = c]
  BY <1>6 DEF AddTo
<1>9. /\ Len(AddTo(ds, k)) = k /\ AddTo(ds, k)[k] = c
      /\ \A g \in 1 .. k : g # k => AddTo(ds, k)[g] = ds[g]
  BY <1>3, <1>4, <1>5, <1>7, <1>8, ReplaceFacts
<1> QED
  BY <1>3, <1>4, <1>5, <1>7, <1>9 DEF AddsNew

(* A new command belongs to an origin h of which none is open any more.    *)
LEMMA CommandOwned ==
  ASSUME IInv, Owned, NEW x \in Task \cup {NoTask}, NEW h \in Nat, RecordsCommand(x, h), h < Len(chains'),
         AddsNew(chains', chains), AddsNew(controllers', controllers),
         Len(chains') = Len(controllers'), Len(chains') \in Nat, Len(chains) <= Len(chains'),
         \A v \in open' \ {New} : origin[v] # h,
         \A t \in Recorded : origin[t] = h => given[t] = <<>>
  PROVE  Owned'
<1>1. /\ pred \in Seq(Task \cup {NoTask}) /\ origin \in Seq(Nat) /\ Len(origin) = Len(pred)
      /\ Len(controllers) = Len(chains) /\ Len(chains) \in Nat /\ phase = "recording" /\ given' = given
      /\ New \in Task
  BY DEF IInv, TypeOK, Recording, RecordsCommand
<1>2. /\ Recorded = 1 .. Len(pred) /\ open \subseteq Recorded /\ New = Len(pred) + 1 /\ Len(pred) \in Nat
      /\ New \notin Recorded
  BY OpenIsFinite, <1>1
<1>3. Recorded' = Recorded \cup {New} /\ origin'[New] = h /\ \A t \in Recorded : origin'[t] = origin[t]
  <2>1. Len(pred') = Len(pred) + 1 /\ pred' \in Seq(Task \cup {NoTask})
    BY <1>1, AppendFacts DEF RecordsCommand
  <2>2. Recorded' = 1 .. Len(pred) + 1
    BY <2>1 DEF Recorded
  <2>3. (\A t \in 1 .. Len(pred) : origin'[t] = origin[t]) /\ origin'[Len(pred) + 1] = h
    BY <1>1, AppendFacts DEF RecordsCommand
  <2> QED
    BY <1>2, <2>2, <2>3
<1>4. given[New] = <<>> /\ \A t \in Task \ Recorded' : given'[t] = <<>>
  BY <1>1, <1>2, <1>3 DEF Owned
<1>5. \A t \in Recorded' : origin'[t] < Len(chains')
  <2>1. \A t \in Recorded : origin[t] \in Nat /\ origin[t] < Len(chains)
    BY <1>1, <1>2 DEF Owned
  <2> QED
    BY <1>1, <1>3, <2>1
<1>6. ASSUME NEW u \in open', NEW t \in Recorded', origin'[t] = origin'[u]
      PROVE  given'[t] = <<>> /\ (t \in open' => t = u)
  <2>1. u \in open \/ u = New
    BY DEF RecordsCommand
  <2>2. CASE u = New
    <3>1. origin'[t] = h
      BY <1>3, <1>6, <2>2
    <3>2. t # New => t \in Recorded /\ origin[t] = h
      BY <1>3, <3>1
    <3> QED
      BY <1>1, <1>4, <2>2, <3>2
  <2>3. CASE u # New
    <3>1. u \in open /\ u \in Recorded /\ origin[u] # h /\ origin'[u] = origin[u]
      BY <1>2, <1>3, <2>1, <2>3
    <3>2. t # New
      BY <1>3, <1>6, <3>1
    <3>3. t \in Recorded /\ origin[t] = origin[u] /\ (t \in open' => t \in open)
      BY <1>3, <1>6, <3>1, <3>2 DEF RecordsCommand
    <3> QED
      BY <1>1, <3>1, <3>3 DEF Owned
  <2> QED
    BY <2>2, <2>3
<1>7. ASSUME NEW g \in 1 .. Len(chains')
      PROVE  /\ Range(controllers'[g]) \subseteq Range(chains'[g])
             /\ \A t \in Range(chains'[g]) : t \in Range(controllers'[g]) \/ \E s \in Recorded' : t \in Range(given'[s])
  <2>1. /\ Members(controllers, g) \subseteq Members(chains, g)
        /\ \A t \in Members(chains, g) : t \in Members(controllers, g) \/ \E s \in Recorded : t \in Range(given[s])
    BY <1>1 DEF Owned, Members
  <2>2. /\ Range(chains'[g]) = Members(chains, g) \cup (IF g = Len(chains') THEN {New} ELSE {})
        /\ Range(controllers'[g]) = Members(controllers, g) \cup (IF g = Len(chains') THEN {New} ELSE {})
    BY DEF AddsNew
  <2> QED
    BY <1>1, <1>3, <2>1, <2>2
<1> QED
  BY <1>4, <1>5, <1>6, <1>7 DEF Owned

LEMMA AddCommandOwned ==
  ASSUME IInv, Owned, NEW fails, AddCommand(fails)
  PROVE  Owned'
<1>1. PICK cs, bs : cs = OpenChain(chains) /\ bs = OpenChain(controllers)
  OBVIOUS
<1>2. /\ phase = "recording" /\ New \in Task
      /\ chains' = AddTo(cs, Len(cs)) /\ controllers' = AddTo(bs, Len(bs))
      /\ open' = open \cup {New}
  BY <1>1 DEF AddCommand
<1>3. /\ chains' \in Seq(Seq(Task)) /\ Len(controllers') = Len(chains') /\ Len(cs) - 1 \in Nat
  BY <1>1, <1>2, CommandAdded DEF IInv
<1>4. RecordsCommand(NoTask, Len(cs) - 1)
  BY <1>1 DEF AddCommand, RecordsCommand
<1>5. /\ chains \in Seq(Seq(Task)) /\ controllers \in Seq(Seq(Task)) /\ Len(controllers) = Len(chains)
      /\ Blocks(chains, pred) /\ Len(pred) \in Nat /\ Len(chains) \in Nat
  BY <1>2 DEF IInv, TypeOK, Recording
<1>6. /\ (cs = chains /\ bs = controllers /\ chains[Len(chains)] = <<>>)
         \/ (cs = Append(chains, <<>>) /\ bs = Append(controllers, <<>>))
  BY <1>1 DEF OpenChain, Group
<1>7. <<>> \in Seq(Task)
  OBVIOUS
<1>8. Len(cs) \in Nat /\ Len(bs) = Len(cs) /\ Len(cs) # 0
      /\ ((cs = chains /\ Len(cs) = Len(chains)) \/ Len(cs) = Len(chains) + 1)
  <2>1. CASE cs = chains /\ bs = controllers
    BY <1>5, <2>1 DEF Blocks
  <2>2. CASE cs = Append(chains, <<>>) /\ bs = Append(controllers, <<>>)
    BY <1>5, <1>7, <2>2, AppendFacts
  <2> QED
    BY <1>6, <2>1, <2>2
<1>9. /\ Len(chains') = Len(cs) /\ AddsNew(chains', chains)
      /\ Len(controllers') = Len(bs) /\ AddsNew(controllers', controllers)
  BY <1>2, <1>5, <1>6, <1>8, MembersAdded
<1>10. Recorded = 1 .. Len(pred) /\ open \subseteq Recorded /\ New \notin open
  BY <1>2, OpenIsFinite
<1>11. \A t \in Recorded : origin[t] # Len(cs) - 1
  <2>1. CASE cs = chains /\ chains[Len(chains)] = <<>>
    <3>1. Len(pred) = 0
      BY <1>5, <2>1, FirstOrNot
    <3> QED
      BY <1>10, <3>1
  <2>2. CASE Len(cs) = Len(chains) + 1
    <3>1. \A t \in Recorded : origin[t] < Len(chains)
      BY <1>2 DEF Owned
    <3> QED
      BY <1>5, <2>2, <3>1
  <2>3. cs = Append(chains, <<>>) => Len(cs) = Len(chains) + 1
    BY <1>5, <1>7, AppendFacts
  <2> QED
    BY <1>6, <2>1, <2>2, <2>3
<1>12. \A v \in open' \ {New} : origin[v] # Len(cs) - 1
  BY <1>2, <1>10, <1>11
<1>13. Len(cs) - 1 < Len(chains') /\ Len(chains) <= Len(chains') /\ Len(chains') \in Nat
  BY <1>5, <1>8, <1>9
<1> QED
  BY <1>3, <1>4, <1>9, <1>11, <1>12, <1>13, CommandOwned

LEMMA ChainOwned ==
  ASSUME IInv, Owned, NEW u \in open, NEW fails, Chain(u, fails)
  PROVE  Owned'
<1>1. /\ phase = "recording" /\ New \in Task
      /\ chains' = AddTo(chains, Group) /\ controllers' = AddTo(controllers, Group)
      /\ open' = (open \ {u}) \cup {New}
  BY DEF Chain, Extend
<1>2. Len(controllers') = Len(chains')
  BY <1>1, CommandChained DEF IInv
<1>3. u \in Task /\ u \in Recorded /\ Recorded = 1 .. Len(pred) /\ open \subseteq Recorded
  BY <1>1, OpenIsFinite
<1>4. origin[u] \in Nat /\ origin[u] < Len(chains)
  <2>1. origin \in Seq(Nat) /\ Len(origin) = Len(pred)
    BY DEF IInv, TypeOK
  <2> QED
    BY <1>1, <1>3, <2>1 DEF Owned
<1>5. RecordsCommand(u, origin[u])
  BY <1>1 DEF Chain, Extend, RecordsCommand
<1>6. /\ chains \in Seq(Seq(Task)) /\ controllers \in Seq(Seq(Task)) /\ Len(controllers) = Len(chains)
      /\ Len(chains) \in Nat /\ Len(chains) # 0 /\ Group = Len(chains)
  BY <1>1 DEF IInv, TypeOK, Recording, Blocks, Group
<1>7. /\ Len(chains') = Len(chains) /\ AddsNew(chains', chains) /\ AddsNew(controllers', controllers)
  BY <1>1, <1>6, MembersAdded
<1>8. \A t \in Recorded : origin[t] = origin[u] => given[t] = <<>>
  BY <1>1 DEF Owned
<1>9. \A v \in open' \ {New} : origin[v] # origin[u]
  BY <1>1, <1>3 DEF Owned
<1>10. origin[u] < Len(chains') /\ Len(chains) <= Len(chains') /\ Len(chains') \in Nat
  BY <1>4, <1>6, <1>7
<1> QED
  BY <1>2, <1>3, <1>4, <1>5, <1>7, <1>8, <1>9, <1>10, CommandOwned

LEMMA ResponseOwned ==
  ASSUME IInv, Owned, NEW u \in open, Response(u)
  PROVE  Owned'
<1>1. /\ phase = "recording" /\ given' = [given EXCEPT ![u] = controllers[Group]]
      /\ controllers' = [controllers EXCEPT ![Group] = <<>>] /\ open' = open \ {u}
      /\ UNCHANGED <<phase, chains, origin, pred>>
  BY DEF Response
<1>2. u \in Task /\ u \in Recorded /\ open \subseteq Recorded /\ Recorded' = Recorded /\ Recorded \subseteq Task
  BY <1>1, OpenIsFinite DEF Recorded
<1>3. /\ controllers \in Seq(Seq(Task)) /\ Len(controllers) = Len(chains) /\ Group = Len(chains)
      /\ Group \in 1 .. Len(controllers) /\ given \in [Task -> Seq(Task)]
  BY <1>1 DEF IInv, TypeOK, Recording, Blocks, Group
<1>4. given[u] = <<>> /\ given'[u] = controllers[Group] /\ \A t \in Task : t # u => given'[t] = given[t]
  BY <1>1, <1>2, <1>3 DEF Owned
<1>5. controllers'[Group] = <<>> /\ \A g \in 1 .. Len(chains) : g # Group => controllers'[g] = controllers[g]
  <2>1. <<>> \in Seq(Task)
    OBVIOUS
  <2> QED
    BY <1>1, <1>3, <2>1, ReplaceFacts
<1>6. \A t \in Task \ Recorded' : given'[t] = <<>>
  BY <1>1, <1>2, <1>4 DEF Owned
<1>7. \A v \in open' : \A t \in Recorded : origin[t] = origin[v] => given'[t] = <<>> /\ (t \in open' => t = v)
  BY <1>1, <1>2, <1>4 DEF Owned
<1>8. ASSUME NEW g \in 1 .. Len(chains)
      PROVE  /\ Range(controllers'[g]) \subseteq Range(chains[g])
             /\ \A t \in Range(chains[g]) : t \in Range(controllers'[g]) \/ \E s \in Recorded : t \in Range(given'[s])
  <2>1. /\ Range(controllers[g]) \subseteq Range(chains[g])
        /\ \A t \in Range(chains[g]) : t \in Range(controllers[g]) \/ \E s \in Recorded : t \in Range(given[s])
    BY <1>1 DEF Owned
  <2>2. Range(controllers'[g]) = IF g = Group THEN {} ELSE Range(controllers[g])
    BY <1>5, RangeOfNone
  <2>3. ASSUME NEW t, NEW s \in Recorded, t \in Range(given[s]) PROVE t \in Range(given'[s])
    <3>1. s # u
      BY <1>4, <2>3, RangeOfNone
    <3> QED
      BY <1>2, <1>4, <2>3, <3>1
  <2>4. g = Group => \A t \in Range(controllers[g]) : t \in Range(given'[u])
    BY <1>4
  <2> QED
    BY <1>2, <2>1, <2>2, <2>3, <2>4
<1> QED
  BY <1>1, <1>2, <1>6, <1>7, <1>8 DEF Owned

LEMMA OwnedKeeps == IInv /\ Owned /\ [Next]_vars => Owned'
<1> SUFFICES ASSUME IInv, Owned, [Next]_vars PROVE Owned'
  OBVIOUS
<1>1. ASSUME NEW fails, AddCommand(fails) PROVE Owned'
  BY <1>1, AddCommandOwned
<1>2. ASSUME NEW u \in open, Total(u) \/ Fallible(u) PROVE Owned'
  BY <1>2, ChainOwned DEF Total, Fallible
<1>3. ASSUME NEW u \in open, Response(u) PROVE Owned'
  BY <1>3, ResponseOwned
<1>4. ASSUME NEW u \in open, DropCommand(u) PROVE Owned'
  BY <1>4, OwnedStays DEF DropCommand, rawVars, history
<1>5. ASSUME NEW e \in Indices, NEW s \in Indices, LinkChains(e, s) PROVE Owned'
  BY <1>5, OwnedStays DEF LinkChains, refVars
<1>6. ASSUME NEW i \in Indices, NEW f \in Fences, CreateFence(i, f) PROVE Owned'
  BY <1>6, OwnedStays DEF CreateFence, refVars
<1>7. ASSUME Clone \/ DropCopy PROVE Owned'
  BY <1>7, OwnedStays DEF Clone, DropCopy, rawVars, history
<1>8. ASSUME Finish \/ Submit \/ Misuse PROVE Owned'
  BY <1>8 DEF Finish, Submit, Misuse, Panic, Owned
<1>9. ASSUME NEW t \in Task, Execute(t) PROVE Owned'
  BY <1>9, OwnedStays DEF Execute, Begin, Halt, Completes, rawVars, refVars, history
<1>10. ASSUME Terminated \/ UNCHANGED vars PROVE Owned'
  BY <1>10, OwnedStays DEF Terminated, vars, rawVars, refVars, history
<1> QED
  BY <1>1, <1>2, <1>3, <1>4, <1>5, <1>6, <1>7, <1>8, <1>9, <1>10 DEF Next

LEMMA OwnedHolds == Spec => [](IInv /\ Owned)
<1>1. Init => Owned
  <2> SUFFICES ASSUME Init PROVE Owned
    OBVIOUS
  <2>1. /\ Len(chains) = 1 /\ chains[1] = <<>> /\ controllers[1] = <<>> /\ open = {} /\ Recorded = {}
        /\ \A t \in Task : given[t] = <<>>
    BY DEF Init, Recorded
  <2>2. \A g : g \in 1 .. 1 <=> g = 1
    OBVIOUS
  <2> QED
    BY <2>1, <2>2, RangeOfNone DEF Owned
<1> QED
  BY <1>1, OwnedKeeps, IInvHolds, InitHolds, NextKeeps, PTL DEF Spec

(* The last chain is that of the user, when chains are recorded in order.  *)
LEMMA LastChainOfUser ==
  ASSUME IInv, phase = "recording", Orderly, NEW k \in Nat, k + 1 = Group
  PROVE  UserChain(k) = Range(chains[Group])
<1>1. /\ pred \in Seq(Task \cup {NoTask}) /\ chains \in Seq(Seq(Task)) /\ Blocks(chains, pred)
      /\ origin \in Seq(Nat) /\ Len(origin) = Len(pred)
      /\ Group = Len(chains) /\ Group \in 1 .. Len(chains)
  BY DEF IInv, TypeOK, Recording, Blocks, Group
<1>2. chains[Group] \in Seq(Task)
  BY <1>1
<1>3. ASSUME NEW t \in UserChain(k) PROVE t \in Range(chains[Group])
  <2>1. k < Len(chains)
    BY <1>1
  <2>2. \E i \in 1 .. Len(chains[k + 1]) : t = chains[k + 1][i]
    BY <1>1, <2>1, ChainOfUser
  <2> QED
    BY <1>2, <2>2 DEF Range
<1>4. ASSUME NEW t \in Range(chains[Group]) PROVE t \in UserChain(k)
  <2>1. PICK i \in 1 .. Len(chains[Group]) : t = chains[Group][i]
    BY <1>2 DEF Range
  <2>2. chains[Group][i] \in 1 .. Len(pred) /\ Cardinality(Heads(pred, chains[Group][i])) = Group
    BY <1>1 DEF Blocks
  <2>3. t \in Recorded /\ Cardinality(Heads(pred, t)) = Group /\ Recorded = 1 .. Len(pred)
    BY <1>1, <2>1, <2>2 DEF Recorded
  <2>4. origin[t] + 1 = Group
    BY <2>3 DEF Orderly, Heads
  <2>5. origin[t] \in Nat
    BY <1>1, <2>3
  <2>6. origin[t] = k
    BY <2>4, <2>5
  <2> QED
    BY <2>3, <2>6 DEF UserChain
<1> QED
  BY <1>3, <1>4

(* While its chain is the last, response gives the controllers of exactly  *)
(* the commands of that chain, unless those of an earlier chain took some. *)
THEOREM ResponsesControlTheirChain == Spec => ResponseControlsItsChain
<1>1. ASSUME IInv, Owned, NEW u \in open, Response(u), Orderly, OwnControllers, origin[u] + 1 = Group
      PROVE  Range(given'[u]) = UserChain(origin[u])
  <2>1. /\ phase = "recording" /\ given \in [Task -> Seq(Task)]
        /\ given' = [given EXCEPT ![u] = controllers[Group]]
    BY <1>1 DEF IInv, TypeOK, Response
  <2>2. u \in Recorded /\ u \in Task /\ Recorded = 1 .. Len(pred)
    BY <1>1, <2>1, OpenIsFinite
  <2>3. given'[u] = controllers[Group]
    BY <2>1, <2>2
  <2>4. Group = Len(chains) /\ Group \in 1 .. Len(chains)
    BY <1>1, <2>1 DEF IInv, TypeOK, Recording, Blocks, Group
  <2>5. origin[u] \in Nat
    <3>1. origin \in Seq(Nat) /\ Len(origin) = Len(pred)
      BY <1>1 DEF IInv, TypeOK
    <3> QED
      BY <2>2, <3>1
  <2>6. UserChain(origin[u]) = Range(chains[Group])
    BY <1>1, <2>1, <2>5, LastChainOfUser
  <2>7. /\ Range(controllers[Group]) \subseteq Range(chains[Group])
        /\ \A t \in Range(chains[Group]) : t \in Range(controllers[Group]) \/ \E s \in Recorded : t \in Range(given[s])
    BY <1>1, <2>1, <2>4 DEF Owned
  <2>8. ASSUME NEW t \in UserChain(origin[u]), NEW s \in Recorded, t \in Range(given[s]) PROVE FALSE
    <3>1. t \in UserChain(origin[s])
      BY <1>1, <2>8 DEF OwnControllers
    <3>2. origin[s] = origin[u]
      BY <2>8, <3>1 DEF UserChain
    <3>3. given[s] = <<>>
      BY <1>1, <2>1, <3>2 DEF Owned
    <3> QED
      BY <2>8, <3>3, RangeOfNone
  <2> QED
    BY <2>3, <2>6, <2>7, <2>8
<1>2. ASSUME IInv, Owned, Next, NEW u \in open, given'[u] # given[u]
      PROVE  Response(u)
  <2>1. given' # given
    BY <1>2
  <2>2. CASE \E v \in open : Response(v)
    <3>1. PICK v \in open : Response(v)
      BY <2>2
    <3>2. given \in [Task -> Seq(Task)] /\ given' = [given EXCEPT ![v] = controllers[Group]]
      BY <1>2, <3>1 DEF IInv, TypeOK, Response
    <3>3. u = v
      BY <1>2, <3>2
    <3> QED
      BY <3>1, <3>3
  <2>3. CASE Panic /\ phase \in {"recording", "baked"}
    <3>1. phase = "recording"
      BY <1>2, <2>3 DEF IInv, Counted
    <3>2. u \in Recorded /\ u \in Task
      BY <1>2, <3>1, OpenIsFinite
    <3>3. given[u] = <<>>
      BY <1>2, <3>1, <3>2 DEF Owned
    <3>4. given'[u] = <<>>
      BY <2>3, <3>2 DEF Panic
    <3> QED
      BY <1>2, <3>3, <3>4
  <2>4. ASSUME NEW fails, AddCommand(fails) PROVE given' = given
    BY <2>4 DEF AddCommand
  <2>5. ASSUME NEW v \in open, Total(v) \/ Fallible(v) \/ DropCommand(v) PROVE given' = given
    BY <2>5 DEF Total, Fallible, Chain, Extend, DropCommand, history
  <2>6. ASSUME NEW e \in Indices, NEW s \in Indices, LinkChains(e, s) PROVE given' = given
    BY <2>6 DEF LinkChains
  <2>7. ASSUME NEW i \in Indices, NEW f \in Fences, CreateFence(i, f) PROVE given' = given
    BY <2>7 DEF CreateFence
  <2>8. ASSUME Clone \/ DropCopy \/ Submit PROVE given' = given
    BY <2>8 DEF Clone, DropCopy, Submit, history
  <2>9. ASSUME Finish PROVE given' = given \/ (Panic /\ phase \in {"recording", "baked"})
    BY <2>9 DEF Finish, history
  <2>10. ASSUME NEW t \in Task, Execute(t) PROVE given' = given
    BY <2>10 DEF Execute, Begin, Halt, Completes, history
  <2>11. ASSUME Terminated PROVE given' = given
    BY <2>11 DEF Terminated, vars, history
  <2> QED
    BY <1>2, <2>1, <2>2, <2>3, <2>4, <2>5, <2>6, <2>7, <2>8, <2>9, <2>10, <2>11 DEF Next, Misuse
<1> DEFINE Step == \A u \in open :
             given'[u] # given[u] /\ Orderly /\ OwnControllers /\ origin[u] + 1 = Group =>
               Range(given'[u]) = UserChain(origin[u])
<1>3. IInv /\ Owned /\ [Next]_vars => [Step]_vars
  BY <1>1, <1>2
<1>4. ResponseControlsItsChain <=> [][Step]_vars
  BY DEF ResponseControlsItsChain
<1> HIDE DEF Step
<1> QED
  BY <1>3, <1>4, OwnedHolds, PTL DEF Spec
=============================================================================
