-------------------------- MODULE GeneratorProofs ---------------------------
(***************************************************************************)
(* Proofs about Generator, for every number of transactions and every      *)
(* mode: that the patterns add up to the number asked for, and that every  *)
(* circle closes.                                                          *)
(***************************************************************************)
EXTENDS Generator, FiniteSetTheorems, TLAPS

Patterns == {"independent", "sequential", "circular", "manyToOne", "oneToMany"}

Sent == [Pattern : Patterns, Round : Nat, Sender : Int, Recipient : Int,
         Amount : Int, Nonce : Int]

GenTypeOK ==
    /\ numTransactions \in Nat
    /\ gpc \in {"users", "independent", "sequential", "circular", "manyToOne",
               "oneToMany", "done"}
    /\ i \in Nat /\ j \in Nat
    /\ submitted \in Seq(Sent)

-----------------------------------------------------------------------------
(* The shares.                                                             *)

LEMMA Tenths == /\ SimpleTenths \in {1, 3, 6, 9}
                /\ MediumTenths \in {1, 3, 6}
                /\ SimpleTenths + MediumTenths <= 10
<1>1. CASE testMode = "small"
  BY <1>1 DEF SimpleTenths, MediumTenths
<1>2. CASE testMode = "medium"
  BY <1>2 DEF SimpleTenths, MediumTenths
<1>3. CASE testMode = "complex"
  BY <1>3 DEF SimpleTenths, MediumTenths
<1>4. CASE testMode \notin {"small", "medium", "complex"}
  BY <1>4 DEF SimpleTenths, MediumTenths
<1> QED BY <1>1, <1>2, <1>3, <1>4

(* Rounding down takes nothing away: complexCount has what is left of the  *)
(* whole, and the last loop what is left of complexCount.                  *)
LEMMA Shares ==
    ASSUME numTransactions \in Nat
    PROVE  /\ simpleCount \in Nat /\ mediumCount \in Nat /\ patternCount \in Nat
           /\ remainingCount \in Nat
           /\ simpleCount + mediumCount + 2 * patternCount + remainingCount = numTransactions
<1> DEFINE n == numTransactions
<1>1. /\ simpleCount \in Nat /\ mediumCount \in Nat /\ simpleCount + mediumCount <= n
  <2>1. PICK a \in {1, 3, 6, 9}, b \in {1, 3, 6} :
              a = SimpleTenths /\ b = MediumTenths /\ a + b <= 10
    BY Tenths
  <2>2. (n * a) \div 10 \in Nat /\ (n * b) \div 10 \in Nat
        /\ (n * a) \div 10 + (n * b) \div 10 <= n
    <3>1. ASSUME NEW c \in Nat, NEW d \in Nat, c + d <= 10 * n
          PROVE  c \div 10 \in Nat /\ d \div 10 \in Nat /\ c \div 10 + d \div 10 <= n
      BY <3>1
    <3>2. n * a \in Nat /\ n * b \in Nat /\ n * a + n * b <= 10 * n
      <4>1. CASE a = 1
        BY <4>1, <2>1
      <4>2. CASE a = 3
        BY <4>2, <2>1
      <4>3. CASE a = 6
        BY <4>3, <2>1
      <4>4. CASE a = 9
        BY <4>4, <2>1
      <4> QED BY <4>1, <4>2, <4>3, <4>4
    <3> QED BY <3>1, <3>2
  <2> QED BY <2>1, <2>2 DEF simpleCount, mediumCount
<1>2. PICK c \in Nat : c = complexCount
  BY <1>1 DEF complexCount
<1>3. c \div 3 \in Nat /\ c - 2 * (c \div 3) \in Nat
  OBVIOUS
<1>4. patternCount = c \div 3 /\ remainingCount = c - 2 * (c \div 3)
  BY <1>2 DEF patternCount, remainingCount
<1>5. simpleCount + mediumCount + c = n
  BY <1>1, <1>2 DEF complexCount
<1> QED BY <1>1, <1>3, <1>4, <1>5

-----------------------------------------------------------------------------
(* The inductive invariants.  Which turns were taken, by loop: what went   *)
(* out apart from the circles.                                             *)
Turns ==
    CASE gpc = "users"       -> 0
      [] gpc = "independent" -> i
      [] gpc = "sequential"  -> simpleCount + i
      [] gpc = "circular"    -> simpleCount + mediumCount
      [] gpc = "manyToOne"   -> simpleCount + mediumCount + i
      [] gpc = "oneToMany"   -> simpleCount + mediumCount + patternCount + i
      [] gpc = "done"        -> simpleCount + mediumCount + patternCount + remainingCount

CountInv ==
    /\ gpc = "users" => i = 0
    /\ gpc = "independent" => i <= simpleCount
    /\ gpc = "sequential" => i <= mediumCount
    /\ gpc = "circular" => i <= patternCount
    /\ gpc = "manyToOne" => i <= patternCount
    /\ gpc = "oneToMany" => i <= remainingCount
    /\ Len(submitted) - Cardinality(Of("circular")) = Turns

(* The circle of round r, and how long and where it is.                    *)
Circle(r) == {k \in Of("circular") : submitted[k].Round = r}

LengthOf(r) == 3 + (r % 3)

(* The first n payments of round r went out one after the other, each user *)
(* paying the next and the last one, if it is among them, the first.       *)
Chain(r, n, after) ==
    /\ Circle(r) = after + 1 .. after + n
    /\ \A m \in 1 .. n :
          /\ submitted[after + m].Sender = (r % 10) + m - 1
          /\ submitted[after + m].Recipient =
                IF m = LengthOf(r) THEN r % 10 ELSE (r % 10) + m

Before == {"users", "independent", "sequential"}
Later == {"manyToOne", "oneToMany", "done"}

RoundOver(r) == (gpc \in Later /\ r < patternCount) \/ (gpc = "circular" /\ r < i)

CircleInv ==
    /\ gpc \in Before => Of("circular") = {}
    /\ gpc /= "circular" => j = 0
    /\ gpc = "circular" =>
          /\ j < LengthOf(i)
          /\ i = patternCount => j = 0
          /\ j <= Len(submitted)
          /\ Chain(i, j, Len(submitted) - j)
          /\ \A r \in Nat : r > i => Circle(r) = {}
    /\ \A r \in Nat : RoundOver(r) => \E after \in Nat : Chain(r, LengthOf(r), after)

GenInv == GenTypeOK /\ CountInv /\ CircleInv

-----------------------------------------------------------------------------
(* What one more payment does to the positions the invariants count.       *)
LEMMA Grows ==
    ASSUME GenTypeOK, NEW p \in Sent, Submit(p)
    PROVE  LET n == Len(submitted) + 1
           IN  /\ submitted' \in Seq(Sent) /\ Len(submitted') = n
               /\ submitted'[n] = p
               /\ \A k \in 1 .. Len(submitted) : submitted'[k] = submitted[k]
               /\ Of("circular")' = IF p.Pattern = "circular"
                                    THEN Of("circular") \cup {n} ELSE Of("circular")
               /\ n \notin Of("circular")
               /\ Of("circular") \subseteq 1 .. Len(submitted)
<1>1. submitted \in Seq(Sent) /\ submitted' = Append(submitted, p)
  BY DEF GenTypeOK, Submit
<1>2. /\ submitted' \in Seq(Sent) /\ Len(submitted') = Len(submitted) + 1
      /\ submitted'[Len(submitted) + 1] = p
      /\ \A k \in 1 .. Len(submitted) : submitted'[k] = submitted[k]
  BY <1>1
<1>3. /\ DOMAIN submitted = 1 .. Len(submitted) /\ Len(submitted) \in Nat
      /\ DOMAIN submitted' = 1 .. Len(submitted) + 1
  BY <1>1, <1>2
<1>4. Of("circular")' = {k \in DOMAIN submitted' : submitted'[k].Pattern = "circular"}
  BY DEF Of
<1>5. Of("circular") = {k \in DOMAIN submitted : submitted[k].Pattern = "circular"}
  BY DEF Of
<1>6. Of("circular")' = IF p.Pattern = "circular"
                        THEN Of("circular") \cup {Len(submitted) + 1} ELSE Of("circular")
  <2>1. \A k \in DOMAIN submitted' :
           k \in DOMAIN submitted \/ k = Len(submitted) + 1
    BY <1>3
  <2>2. DOMAIN submitted \subseteq DOMAIN submitted'
        /\ Len(submitted) + 1 \in DOMAIN submitted'
        /\ Len(submitted) + 1 \notin DOMAIN submitted
    BY <1>3
  <2>3. \A k \in DOMAIN submitted : submitted'[k] = submitted[k]
    BY <1>2, <1>3
  <2>4. PICK n : n = Len(submitted) + 1 /\ submitted'[n] = p
    BY <1>2
  <2> QED BY <2>1, <2>2, <2>3, <2>4, <1>4, <1>5
<1> QED BY <1>2, <1>3, <1>5, <1>6

LEMMA CirclePositions ==
    ASSUME GenTypeOK
    PROVE  /\ Of("circular") \subseteq 1 .. Len(submitted) /\ Len(submitted) \in Nat
           /\ IsFiniteSet(Of("circular")) /\ Cardinality(Of("circular")) \in Nat
<1>1. Of("circular") \subseteq 1 .. Len(submitted) /\ Len(submitted) \in Nat
  BY DEF GenTypeOK, Of
<1>2. IsFiniteSet(1 .. Len(submitted))
  BY <1>1, FS_Interval
<1>3. IsFiniteSet(Of("circular"))
  BY <1>1, <1>2, FS_Subset
<1> QED BY <1>1, <1>3, FS_CardinalityType

(* A payment of the circles leaves the count of the others alone; any      *)
(* other one adds one to it.                                               *)
LEMMA CountGrows ==
    ASSUME GenTypeOK, NEW p \in Sent, Submit(p)
    PROVE  Len(submitted') - Cardinality(Of("circular")')
             = IF p.Pattern = "circular" THEN Len(submitted) - Cardinality(Of("circular"))
               ELSE Len(submitted) - Cardinality(Of("circular")) + 1
<1>1. PICK n \in Nat : n = Len(submitted)
  BY CirclePositions
<1>2. PICK c \in Nat : c = Cardinality(Of("circular"))
  BY CirclePositions
<1>3. Len(submitted') = n + 1 /\ n + 1 \notin Of("circular")
      /\ Of("circular")' = IF p.Pattern = "circular"
                           THEN Of("circular") \cup {n + 1} ELSE Of("circular")
  BY <1>1, Grows
<1>4. CASE p.Pattern = "circular"
  <2>1. Cardinality(Of("circular") \cup {n + 1}) = c + 1
    BY <1>2, <1>3, CirclePositions, FS_AddElement
  <2>2. Cardinality(Of("circular")') = c + 1
    BY <2>1, <1>3, <1>4
  <2> QED BY <2>2, <1>1, <1>2, <1>3, <1>4
<1>5. CASE p.Pattern /= "circular"
  <2>1. Cardinality(Of("circular")') = c
    BY <1>2, <1>3, <1>5
  <2> QED BY <2>1, <1>1, <1>2, <1>3, <1>5
<1> QED BY <1>4, <1>5

LEMMA CircleGrows ==
    ASSUME GenTypeOK, NEW p \in Sent, Submit(p), NEW r \in Nat
    PROVE  /\ Circle(r)' = IF p.Pattern = "circular" /\ p.Round = r
                           THEN Circle(r) \cup {Len(submitted) + 1} ELSE Circle(r)
           /\ \A k \in Circle(r) : submitted'[k] = submitted[k]
<1>1. Circle(r)' = {k \in Of("circular")' : submitted'[k].Round = r}
  BY DEF Circle
<1>2. Circle(r) = {k \in Of("circular") : submitted[k].Round = r}
  BY DEF Circle
<1> QED BY <1>1, <1>2, Grows

(* A circle nothing was added to is as long and as good as before.         *)
LEMMA ChainKept ==
    ASSUME NEW r \in Nat, NEW n \in Nat, NEW after \in Nat, Chain(r, n, after),
           Circle(r)' = Circle(r), \A k \in Circle(r) : submitted'[k] = submitted[k]
    PROVE  Chain(r, n, after)'
<1>1. Circle(r) = after + 1 .. after + n
  BY DEF Chain
<1>2. \A m \in 1 .. n : after + m \in Circle(r)
  BY <1>1
<1>3. Circle(r)' = after + 1 .. after + n
  BY <1>1
<1>4. \A m \in 1 .. n : submitted'[after + m] = submitted[after + m]
  BY <1>2
<1>5. \A m \in 1 .. n :
         /\ submitted'[after + m].Sender = (r % 10) + m - 1
         /\ submitted'[after + m].Recipient =
               IF m = LengthOf(r) THEN r % 10 ELSE (r % 10) + m
  BY <1>4 DEF Chain
<1> QED BY <1>3, <1>5 DEF Chain, LengthOf

LEMMA SharesKept ==
    ASSUME UNCHANGED <<numTransactions, testMode>>
    PROVE  /\ simpleCount' = simpleCount /\ mediumCount' = mediumCount
           /\ patternCount' = patternCount /\ remainingCount' = remainingCount
<1>1. SimpleTenths' = SimpleTenths /\ MediumTenths' = MediumTenths
  BY DEF SimpleTenths, MediumTenths
<1>2. simpleCount' = simpleCount /\ mediumCount' = mediumCount
  BY <1>1 DEF simpleCount, mediumCount
<1>3. complexCount' = complexCount
  BY <1>2 DEF complexCount
<1>4. patternCount' = patternCount
  BY <1>3 DEF patternCount
<1> QED BY <1>2, <1>3, <1>4 DEF remainingCount

-----------------------------------------------------------------------------
(* The steps.                                                              *)

(* The four loops that are not the circles.                                *)
LEMMA TurnKeeps ==
    ASSUME GenInv,
           NEW pattern \in {"independent", "sequential", "manyToOne", "oneToMany"},
           NEW n, NEW p \in Sent, p.Pattern = pattern, Turn(pattern, n, p),
           n = (CASE pattern = "independent" -> simpleCount
                  [] pattern = "sequential" -> mediumCount
                  [] pattern = "manyToOne" -> patternCount
                  [] pattern = "oneToMany" -> remainingCount)
    PROVE  GenInv'
<1>1. /\ gpc = pattern /\ i < n /\ Submit(p) /\ i' = i + 1
      /\ UNCHANGED <<numTransactions, testMode, users, gpc, j>>
  BY DEF Turn
<1>2. GenTypeOK /\ CountInv /\ CircleInv
  BY DEF GenInv
<1>3. i \in Nat /\ numTransactions \in Nat
  BY <1>2 DEF GenTypeOK
<1>4. GenTypeOK'
  BY <1>1, <1>2, Grows DEF GenTypeOK
<1>5. /\ simpleCount' = simpleCount /\ mediumCount' = mediumCount
      /\ patternCount' = patternCount /\ remainingCount' = remainingCount
  BY <1>1, SharesKept
<1>6. /\ simpleCount \in Nat /\ mediumCount \in Nat /\ patternCount \in Nat
      /\ remainingCount \in Nat
  BY <1>3, Shares
<1>7. CountInv'
  <2>1. Len(submitted') - Cardinality(Of("circular")')
          = Len(submitted) - Cardinality(Of("circular")) + 1
    BY <1>1, <1>2, CountGrows
  <2>2. Turns' = Turns + 1
    BY <1>1, <1>3, <1>5, <1>6 DEF Turns
  <2>3. (Len(submitted) - Cardinality(Of("circular")) = Turns)'
    BY <2>1, <2>2, <1>2 DEF CountInv
  <2>4. i' <= n
    BY <1>1, <1>3, <1>6
  <2> QED BY <2>3, <2>4, <1>1, <1>5 DEF CountInv
<1>8. \A r \in Nat : Circle(r)' = Circle(r) /\ \A k \in Circle(r) : submitted'[k] = submitted[k]
  BY <1>1, <1>2, CircleGrows
<1>9. CircleInv'
  <2>1. gpc' /= "circular" /\ j' = 0
    BY <1>1, <1>2 DEF CircleInv
  <2>2. gpc' \in Before => Of("circular")' = {}
    <3>1. Of("circular")' = Of("circular")
      BY <1>1, <1>2, Grows
    <3> QED BY <3>1, <1>1, <1>2 DEF CircleInv
  <2>3. ASSUME NEW r \in Nat, RoundOver(r)'
        PROVE  \E after \in Nat : Chain(r, LengthOf(r), after)'
    <3>1. RoundOver(r)
      BY <2>1, <2>3, <1>1, <1>5 DEF RoundOver
    <3>2. PICK after \in Nat : Chain(r, LengthOf(r), after)
      BY <3>1, <1>2 DEF CircleInv
    <3>3. LengthOf(r) \in Nat
      BY DEF LengthOf
    <3> QED BY <3>2, <3>3, <1>8, ChainKept DEF LengthOf
  <2> QED BY <2>1, <2>2, <2>3 DEF CircleInv
<1> QED BY <1>4, <1>7, <1>9 DEF GenInv

(* One payment of a circle: the round's circle is one longer, or complete. *)
LEMMA CircularKeeps == ASSUME GenInv, Circular PROVE GenInv'
<1>1. GenTypeOK /\ CountInv /\ CircleInv
  BY DEF GenInv
<1>2. PICK r \in Nat, q \in Nat, n \in Nat : r = i /\ q = j /\ n = Len(submitted)
  BY <1>1, CirclePositions DEF GenTypeOK
<1>3. PICK b \in 0 .. 9, l \in 3 .. 5 : b = r % 10 /\ l = LengthOf(r)
  BY DEF LengthOf
<1>4. PICK to \in Int : to = IF q = l - 1 THEN b ELSE b + q + 1
  OBVIOUS
<1> DEFINE p == [Pattern |-> "circular", Round |-> r, Sender |-> b + q,
                 Recipient |-> to, Amount |-> 1, Nonce |-> 0]
<1>5. gpc = "circular" /\ r < patternCount
      /\ UNCHANGED <<numTransactions, testMode, users, gpc>>
  BY <1>2 DEF Circular
<1>6. /\ q < l /\ q <= n /\ Chain(r, q, n - q)
      /\ \A s \in Nat : s > r => Circle(s) = {}
      /\ \A s \in Nat : s < r => \E after \in Nat : Chain(s, LengthOf(s), after)
  BY <1>1, <1>2, <1>3, <1>5 DEF CircleInv, RoundOver
<1>7. p \in Sent /\ p.Pattern = "circular" /\ p.Round = r
      /\ p.Sender = b + q /\ p.Recipient = to
  <2>1. b + q \in Int
    OBVIOUS
  <2> QED BY <2>1 DEF Sent, Patterns
<1>8. Submit(p)
  <2>1. Submit(Payment("circular", (baseIdx + j) % 20, NextInCircle, 1))
    BY DEF Circular
  <2>2. (b + q) % 20 = b + q
    BY <1>6
  <2>3. q /= l - 1 => (b + q + 1) % 20 = b + q + 1
    <3> SUFFICES ASSUME q /= l - 1 PROVE (b + q + 1) % 20 = b + q + 1
      OBVIOUS
    <3>1. b + q + 1 \in 0 .. 19
      BY <1>6
    <3> QED BY <3>1
  <2>4. baseIdx = b /\ chainLength = l
    BY <1>2, <1>3 DEF baseIdx, chainLength, LengthOf
  <2>5. NextInCircle = to /\ (baseIdx + j) % 20 = b + q
    BY <2>2, <2>3, <2>4, <1>2, <1>4 DEF NextInCircle
  <2>6. Payment("circular", b + q, to, 1) = p
    BY <1>2 DEF Payment
  <2> QED BY <2>1, <2>5, <2>6
<1> HIDE DEF p
<1>9. IF q = l - 1 THEN i' = r + 1 /\ j' = 0 ELSE j' = q + 1 /\ i' = r
  BY <1>2, <1>3 DEF Circular, chainLength, LengthOf
<1>10. /\ simpleCount' = simpleCount /\ mediumCount' = mediumCount
       /\ patternCount' = patternCount /\ remainingCount' = remainingCount
       /\ patternCount \in Nat
  BY <1>1, <1>5, SharesKept, Shares DEF GenTypeOK
<1>11. GenTypeOK'
  <2>1. i' \in Nat /\ j' \in Nat
    BY <1>9
  <2> QED BY <2>1, <1>1, <1>5, <1>7, <1>8, Grows DEF GenTypeOK
<1>12. CountInv'
  <2>1. Len(submitted') - Cardinality(Of("circular")')
          = Len(submitted) - Cardinality(Of("circular"))
    BY <1>1, <1>7, <1>8, CountGrows
  <2>2. Turns' = Turns
    BY <1>5, <1>10 DEF Turns
  <2>3. (Len(submitted) - Cardinality(Of("circular")) = Turns)'
    BY <2>1, <2>2, <1>1 DEF CountInv
  <2>4. i' <= patternCount'
    BY <1>5, <1>9, <1>10
  <2> QED BY <2>3, <2>4, <1>5 DEF CountInv
<1>13. \A s \in Nat :
          /\ Circle(s)' = IF s = r THEN Circle(s) \cup {n + 1} ELSE Circle(s)
          /\ \A k \in Circle(s) : submitted'[k] = submitted[k]
  BY <1>1, <1>2, <1>7, <1>8, CircleGrows
<1>14. Len(submitted') = n + 1 /\ submitted'[n + 1] = p
  BY <1>1, <1>2, <1>7, <1>8, Grows
<1>15. Chain(r, q + 1, n - q)'
  <2>1. Circle(r) = (n - q) + 1 .. (n - q) + q
    BY <1>6 DEF Chain
  <2>2. Circle(r)' = Circle(r) \cup {n + 1}
    BY <1>13
  <2>3. Circle(r)' = (n - q) + 1 .. (n - q) + (q + 1)
    <3>1. (n - q) + q = n /\ (n - q) + (q + 1) = n + 1 /\ (n - q) + 1 <= n + 1
      BY <1>6
    <3>2. ((n - q) + 1 .. n) \cup {n + 1} = (n - q) + 1 .. n + 1
      BY <1>6
    <3> QED BY <2>1, <2>2, <3>1, <3>2
  <2>4. ASSUME NEW m \in 1 .. q + 1
        PROVE  /\ submitted'[(n - q) + m].Sender = b + m - 1
               /\ submitted'[(n - q) + m].Recipient = IF m = l THEN b ELSE b + m
    <3>1. CASE m = q + 1
      <4>1. (n - q) + m = n + 1
        BY <3>1
      <4>2. submitted'[(n - q) + m] = p
        BY <4>1, <1>14
      <4> QED BY <4>2, <3>1, <1>4, <1>7
    <3>2. CASE m \in 1 .. q
      <4>1. (n - q) + m \in Circle(r)
        BY <2>1, <3>2, <1>6
      <4>2. submitted'[(n - q) + m] = submitted[(n - q) + m]
        BY <4>1, <1>13
      <4> QED BY <4>2, <3>2, <1>3, <1>6 DEF Chain
    <3> QED BY <3>1, <3>2
  <2>5. \A m \in 1 .. q + 1 :
           /\ submitted'[(n - q) + m].Sender = (r % 10) + m - 1
           /\ submitted'[(n - q) + m].Recipient =
                 IF m = LengthOf(r) THEN r % 10 ELSE (r % 10) + m
    BY <2>4, <1>3
  <2> QED BY <2>3, <2>5 DEF Chain, LengthOf
<1>16. ASSUME NEW s \in Nat, s < r
       PROVE  \E after \in Nat : Chain(s, LengthOf(s), after)'
  <2>1. PICK after \in Nat : Chain(s, LengthOf(s), after)
    BY <1>6, <1>16
  <2>2. PICK ls \in Nat : ls = LengthOf(s)
    BY DEF LengthOf
  <2>3. Circle(s)' = Circle(s) /\ \A k \in Circle(s) : submitted'[k] = submitted[k]
    BY <1>13, <1>16
  <2>4. Chain(s, ls, after)'
    BY <2>1, <2>2, <2>3, ChainKept
  <2> QED BY <2>2, <2>4 DEF LengthOf
<1>17. n - q \in Nat /\ \A s \in Nat : s > r => Circle(s)' = {}
  BY <1>6, <1>13
<1>18. CASE q = l - 1
  <2>1. i' = r + 1 /\ j' = 0 /\ gpc' = "circular"
    BY <1>5, <1>9, <1>18
  <2>2. Chain(r, LengthOf(r), n - q)'
    <3>1. Chain(r, l, n - q)'
      BY <1>15, <1>18
    <3> QED BY <3>1, <1>3 DEF LengthOf
  <2>3. \A s \in Nat : RoundOver(s)' => \E after \in Nat : Chain(s, LengthOf(s), after)'
    <3> SUFFICES ASSUME NEW s \in Nat, RoundOver(s)'
                 PROVE  \E after \in Nat : Chain(s, LengthOf(s), after)'
      OBVIOUS
    <3>1. s < r \/ s = r
      BY <2>1 DEF RoundOver, Later
    <3>2. CASE s = r
      BY <3>2, <2>2, <1>17
    <3> QED BY <3>1, <3>2, <1>16
  <2>4. Chain(r + 1, 0, n + 1)'
    <3>1. Circle(r + 1)' = {}
      BY <1>17
    <3>2. (n + 1) + 1 .. (n + 1) + 0 = {}
      OBVIOUS
    <3> QED BY <3>1, <3>2 DEF Chain
  <2>5. Chain(i, j, Len(submitted) - j)'
    <3>1. Len(submitted') - j' = n + 1
      BY <2>1, <1>14
    <3> QED BY <2>1, <2>4, <3>1
  <2>6. /\ j' < LengthOf(i)' /\ (i' = patternCount' => j' = 0) /\ j' <= Len(submitted')
        /\ \A s \in Nat : s > i' => Circle(s)' = {}
    BY <2>1, <1>14, <1>17 DEF LengthOf
  <2> QED BY <2>1, <2>3, <2>5, <2>6, <1>11, <1>12 DEF GenInv, CircleInv, Before
<1>19. CASE q /= l - 1
  <2>1. i' = r /\ j' = q + 1 /\ gpc' = "circular"
    BY <1>5, <1>9, <1>19
  <2>2. Chain(i, j, Len(submitted) - j)'
    <3>1. Len(submitted') - j' = n - q
      BY <2>1, <1>14
    <3> QED BY <2>1, <1>15, <3>1
  <2>3. \A s \in Nat : RoundOver(s)' => \E after \in Nat : Chain(s, LengthOf(s), after)'
    <3> SUFFICES ASSUME NEW s \in Nat, RoundOver(s)'
                 PROVE  \E after \in Nat : Chain(s, LengthOf(s), after)'
      OBVIOUS
    <3>1. s < r
      BY <2>1 DEF RoundOver, Later
    <3> QED BY <3>1, <1>16
  <2>4. /\ j' < LengthOf(i)' /\ (i' = patternCount' => j' = 0) /\ j' <= Len(submitted')
        /\ \A s \in Nat : s > i' => Circle(s)' = {}
    <3>1. LengthOf(i)' = l
      BY <2>1, <1>3 DEF LengthOf
    <3>2. q + 1 < l /\ q + 1 <= n + 1 /\ r < patternCount'
      BY <1>5, <1>6, <1>10, <1>19
    <3> QED BY <2>1, <3>1, <3>2, <1>14, <1>17
  <2> QED BY <2>1, <2>2, <2>3, <2>4, <1>11, <1>12 DEF GenInv, CircleInv, Before
<1> QED BY <1>18, <1>19

(* Rounds are done with as the loops end one after the other.              *)
LEMMA LoopEndsKeeps == ASSUME GenInv, LoopEnds PROVE GenInv'
<1>1. GenTypeOK /\ CountInv /\ CircleInv
  BY DEF GenInv
<1>2. PICK k \in 1 .. 5 : gpc = Loops[k] /\ i >= TurnsOf(k) /\ gpc' = Loops[k + 1]
  BY DEF LoopEnds
<1>3. i' = 0 /\ UNCHANGED <<numTransactions, testMode, users, j, submitted>>
  BY DEF LoopEnds
<1>4. /\ simpleCount' = simpleCount /\ mediumCount' = mediumCount
      /\ patternCount' = patternCount /\ remainingCount' = remainingCount
      /\ simpleCount \in Nat /\ mediumCount \in Nat /\ patternCount \in Nat
      /\ remainingCount \in Nat /\ i \in Nat
  BY <1>1, <1>3, SharesKept, Shares DEF GenTypeOK
<1>5. \/ gpc = "independent" /\ gpc' = "sequential" /\ i >= simpleCount
      \/ gpc = "sequential" /\ gpc' = "circular" /\ i >= mediumCount
      \/ gpc = "circular" /\ gpc' = "manyToOne" /\ i >= patternCount
      \/ gpc = "manyToOne" /\ gpc' = "oneToMany" /\ i >= patternCount
      \/ gpc = "oneToMany" /\ gpc' = "done" /\ i >= remainingCount
  BY <1>2 DEF Loops, TurnsOf
<1>6. GenTypeOK'
  BY <1>1, <1>3, <1>5 DEF GenTypeOK
<1>7. CountInv'
  <2>1. Turns' = Turns
    BY <1>1, <1>3, <1>4, <1>5 DEF Turns, CountInv
  <2>2. Of("circular")' = Of("circular")
    BY <1>3 DEF Of
  <2>3. (Len(submitted) - Cardinality(Of("circular")) = Turns)'
    BY <2>1, <2>2, <1>1, <1>3 DEF CountInv
  <2> QED BY <2>3, <1>3, <1>4, <1>5 DEF CountInv
<1>8. Of("circular")' = Of("circular") /\ \A s \in Nat : Circle(s)' = Circle(s)
  BY <1>3 DEF Of, Circle
<1>9. ASSUME NEW s \in Nat, RoundOver(s)
      PROVE  \E after \in Nat : Chain(s, LengthOf(s), after)'
  <2>1. PICK after \in Nat : Chain(s, LengthOf(s), after)
    BY <1>1, <1>9 DEF CircleInv
  <2>2. PICK ls \in Nat : ls = LengthOf(s)
    BY DEF LengthOf
  <2>3. Chain(s, ls, after)'
    BY <2>1, <2>2, <1>3, <1>8, ChainKept
  <2> QED BY <2>2, <2>3 DEF LengthOf
<1>10. CASE gpc' = "circular"
  <2>1. gpc = "sequential" /\ j = 0 /\ Of("circular") = {}
    BY <1>1, <1>5, <1>10 DEF CircleInv, Before
  <2>2. \A s \in Nat : Circle(s)' = {}
    BY <2>1, <1>8 DEF Circle
  <2>3. PICK n \in Nat : n = Len(submitted)
    BY <1>1, CirclePositions
  <2>4. Chain(0, 0, n)'
    <3>1. n + 1 .. n + 0 = {}
      OBVIOUS
    <3> QED BY <3>1, <2>2 DEF Chain
  <2>5. Chain(i, j, Len(submitted) - j)'
    <3>1. Len(submitted') - j' = n /\ i' = 0 /\ j' = 0
      BY <2>1, <2>3, <1>3
    <3> QED BY <2>4, <3>1
  <2>6. \A s \in Nat : ~RoundOver(s)'
    BY <1>3, <1>10 DEF RoundOver, Later
  <2>7. j' < LengthOf(i)' /\ j' = 0 /\ j' <= Len(submitted')
    BY <2>1, <2>3, <1>3 DEF LengthOf
  <2> QED BY <2>2, <2>5, <2>6, <2>7, <1>6, <1>7, <1>10 DEF GenInv, CircleInv, Before
<1>11. CASE gpc' /= "circular"
  <2>1. j' = 0
    <3>1. CASE gpc = "circular"
      <4>1. i = patternCount
        BY <3>1, <1>1, <1>4, <1>5 DEF CountInv
      <4> QED BY <3>1, <4>1, <1>1, <1>3 DEF CircleInv
    <3>2. CASE gpc /= "circular"
      BY <3>2, <1>1, <1>3 DEF CircleInv
    <3> QED BY <3>1, <3>2
  <2>2. gpc' \in Before => Of("circular")' = {}
    BY <1>1, <1>5, <1>8 DEF CircleInv, Before
  <2>3. ASSUME NEW s \in Nat, RoundOver(s)' PROVE RoundOver(s)
    <3>1. gpc' \in Later /\ s < patternCount
      BY <2>3, <1>4, <1>11 DEF RoundOver
    <3> QED BY <3>1, <1>4, <1>5 DEF RoundOver, Later
  <2>4. \A s \in Nat : RoundOver(s)' => \E after \in Nat : Chain(s, LengthOf(s), after)'
    BY <2>3, <1>9
  <2> QED BY <2>1, <2>2, <2>4, <1>6, <1>7, <1>11 DEF GenInv, CircleInv
<1> QED BY <1>10, <1>11

LEMMA UsersKeep == ASSUME GenInv, CreateUsers PROVE GenInv'
<1>1. GenTypeOK /\ CountInv /\ CircleInv
  BY DEF GenInv
<1>2. gpc = "users" /\ gpc' = "independent"
      /\ UNCHANGED <<numTransactions, testMode, i, j, submitted>>
  BY DEF CreateUsers
<1>3. /\ simpleCount' = simpleCount /\ simpleCount \in Nat
  BY <1>1, <1>2, SharesKept, Shares DEF GenTypeOK
<1>4. Of("circular")' = Of("circular")
  BY <1>2 DEF Of
<1>5. GenTypeOK'
  BY <1>1, <1>2 DEF GenTypeOK
<1>6. CountInv'
  <2>1. Turns = 0 /\ Turns' = i /\ i = 0
    BY <1>1, <1>2 DEF Turns, CountInv
  <2> QED BY <2>1, <1>1, <1>2, <1>3, <1>4 DEF CountInv
<1>7. CircleInv'
  <2>1. \A s \in Nat : ~RoundOver(s)'
    BY <1>2 DEF RoundOver, Later
  <2> QED BY <2>1, <1>1, <1>2, <1>4 DEF CircleInv, Before
<1> QED BY <1>5, <1>6, <1>7 DEF GenInv

LEMMA InitKeeps == GenInit => GenInv
<1> SUFFICES ASSUME GenInit PROVE GenInv
  OBVIOUS
<1>1. /\ numTransactions \in Nat /\ gpc = "users" /\ i = 0 /\ j = 0 /\ submitted = <<>>
  BY GeneratorAssumption DEF GenInit, GeneratorAssumption
<1>2. GenTypeOK
  BY <1>1 DEF GenTypeOK
<1>3. Of("circular") = {} /\ Cardinality(Of("circular")) = 0
  <2>1. Of("circular") = {}
    BY <1>1 DEF Of
  <2> QED BY <2>1, FS_EmptySet
<1>4. CountInv
  BY <1>1, <1>3 DEF CountInv, Turns
<1>5. CircleInv
  BY <1>1, <1>3 DEF CircleInv, RoundOver, Before, Later
<1> QED BY <1>2, <1>4, <1>5 DEF GenInv

LEMMA PaymentIsSent ==
    ASSUME GenTypeOK, NEW pattern \in Patterns, NEW from \in Int, NEW to \in Int,
           NEW amount \in Int
    PROVE  Payment(pattern, from, to, amount) \in Sent
           /\ Payment(pattern, from, to, amount).Pattern = pattern
BY DEF GenTypeOK, Payment, Sent

LEMMA StepKeeps == GenInv /\ [GenNext]_genVars => GenInv'
<1> SUFFICES ASSUME GenInv, [GenNext]_genVars PROVE GenInv'
  OBVIOUS
<1>1. GenTypeOK /\ i \in Nat
  BY DEF GenInv, GenTypeOK
<1>2. ASSUME UNCHANGED genVars PROVE GenInv'
  <2>1. UNCHANGED <<numTransactions, testMode, gpc, i, j, submitted>>
    BY <1>2 DEF genVars
  <2>2. GenTypeOK'
    BY <2>1, <1>1 DEF GenTypeOK
  <2>3. /\ simpleCount' = simpleCount /\ mediumCount' = mediumCount
        /\ patternCount' = patternCount /\ remainingCount' = remainingCount
    BY <2>1, SharesKept
  <2>4. Of("circular")' = Of("circular") /\ \A s \in Nat : Circle(s)' = Circle(s)
    BY <2>1 DEF Of, Circle
  <2>5. CountInv'
    BY <2>1, <2>3, <2>4 DEF GenInv, CountInv, Turns
  <2>6. CircleInv'
    <3>1. CircleInv
      BY DEF GenInv
    <3>2. ASSUME NEW r \in Nat, NEW n, NEW after, Chain(r, n, after)
          PROVE  Chain(r, n, after)'
      BY <2>1, <2>4, <3>2 DEF Chain, LengthOf
    <3>3. \A r \in Nat : RoundOver(r)' => \E after \in Nat : Chain(r, LengthOf(r), after)'
      <4> SUFFICES ASSUME NEW r \in Nat, RoundOver(r)'
                   PROVE  \E after \in Nat : Chain(r, LengthOf(r), after)'
        OBVIOUS
      <4>1. RoundOver(r)
        BY <2>1, <2>3 DEF RoundOver
      <4>2. PICK after \in Nat : Chain(r, LengthOf(r), after)
        BY <4>1, <3>1 DEF CircleInv
      <4>3. PICK l : l = LengthOf(r)
        OBVIOUS
      <4>4. Chain(r, l, after)'
        BY <4>2, <4>3, <3>2
      <4> QED BY <4>3, <4>4 DEF LengthOf
    <3>4. gpc' = "circular" => Chain(i, j, Len(submitted) - j)'
      <4> SUFFICES ASSUME gpc' = "circular" PROVE Chain(i, j, Len(submitted) - j)'
        OBVIOUS
      <4>0. i \in Nat /\ j \in Nat /\ Len(submitted) \in Nat
        BY <1>1, CirclePositions DEF GenTypeOK
      <4>1. PICK r \in Nat, q \in Nat, n \in Nat : r = i /\ q = j /\ n = Len(submitted)
        BY <4>0
      <4>2. Chain(r, q, n - q)
        BY <4>1, <2>1, <3>1 DEF CircleInv
      <4>3. Chain(r, q, n - q)'
        BY <4>2, <3>2
      <4>4. r = i' /\ q = j' /\ n - q = Len(submitted') - j'
        BY <4>1, <2>1
      <4> QED BY <4>3, <4>4
    <3> QED BY <2>1, <2>3, <2>4, <3>1, <3>3, <3>4 DEF CircleInv, LengthOf
  <2> QED BY <2>2, <2>5, <2>6 DEF GenInv
<1>3. CASE CreateUsers
  BY <1>3, UsersKeep
<1>4. CASE Independent
  <2> DEFINE p == Payment("independent", i % 15, ((i % 15) + 5) % 20, 1 + (i % 5))
  <2>1. p \in Sent /\ p.Pattern = "independent"
    BY <1>1, PaymentIsSent DEF Patterns
  <2>2. Turn("independent", simpleCount, p)
    BY <1>4 DEF Independent
  <2> HIDE DEF p
  <2> QED BY <2>1, <2>2, TurnKeeps
<1>5. CASE Sequential
  <2> DEFINE p == Payment("sequential", i % 3, 10 + (i % 10), 1)
  <2>1. p \in Sent /\ p.Pattern = "sequential"
    BY <1>1, PaymentIsSent DEF Patterns
  <2>2. Turn("sequential", mediumCount, p)
    BY <1>5 DEF Sequential
  <2> HIDE DEF p
  <2> QED BY <2>1, <2>2, TurnKeeps
<1>6. CASE Circular
  BY <1>6, CircularKeeps
<1>7. CASE ManyToOne
  <2> DEFINE p == Payment("manyToOne", ManySenders, 0, 1)
  <2>1. p \in Sent /\ p.Pattern = "manyToOne"
    BY <1>1, PaymentIsSent DEF ManySenders, Patterns
  <2>2. Turn("manyToOne", patternCount, p)
    BY <1>7 DEF ManyToOne
  <2> HIDE DEF p
  <2> QED BY <2>1, <2>2, TurnKeeps
<1>8. CASE OneToMany
  <2> DEFINE p == Payment("oneToMany", 1, (i % 18) + 2, 1)
  <2>1. p \in Sent /\ p.Pattern = "oneToMany"
    BY <1>1, PaymentIsSent DEF Patterns
  <2>2. Turn("oneToMany", remainingCount, p)
    BY <1>8 DEF OneToMany
  <2> HIDE DEF p
  <2> QED BY <2>1, <2>2, TurnKeeps
<1>9. CASE LoopEnds
  BY <1>9, LoopEndsKeeps
<1> QED BY <1>2, <1>3, <1>4, <1>5, <1>6, <1>7, <1>8, <1>9 DEF GenNext, GenStep, Done

(* Between any two payments generateTransactions knows how many of each    *)
(* kind are out, and how far the circle it is at has come.                 *)
THEOREM GeneratorInvariant == GenSpec => []GenInv
BY InitKeeps, StepKeeps, PTL DEF GenSpec

(* However the shares are rounded, the payments that are not part of a     *)
(* circle, and the circles, add up to the number asked for.                *)
THEOREM SharesAddUp == GenSpec => []CountsAddUp
<1>1. GenInv => CountsAddUp
  <2> SUFFICES ASSUME GenInv, gpc = "done"
               PROVE  Len(submitted) - Cardinality(Of("circular")) + patternCount
                        = numTransactions
    BY DEF CountsAddUp
  <2>1. Len(submitted) - Cardinality(Of("circular"))
          = simpleCount + mediumCount + patternCount + remainingCount
    BY DEF GenInv, CountInv, Turns
  <2>2. /\ simpleCount \in Nat /\ mediumCount \in Nat /\ patternCount \in Nat
        /\ remainingCount \in Nat
        /\ simpleCount + mediumCount + 2 * patternCount + remainingCount = numTransactions
    BY Shares DEF GenInv, GenTypeOK
  <2> QED BY <2>1, <2>2
<1> QED BY <1>1, GeneratorInvariant, PTL

(* A circle of three, four or five users, from whichever user it starts:   *)
(* who has paid in it has been paid, and each of them once.                *)
LEMMA ChainCloses ==
    ASSUME NEW r \in Nat, NEW after \in Nat, Chain(r, LengthOf(r), after)
    PROVE  LET payers == {submitted[k].Sender : k \in Circle(r)}
               payees == {submitted[k].Recipient : k \in Circle(r)}
           IN  payers = payees /\ Cardinality(payers) = Cardinality(Circle(r))
<1>1. PICK b \in 0 .. 9, l \in 3 .. 5 : b = r % 10 /\ l = LengthOf(r)
  BY DEF LengthOf
<1>2. Circle(r) = after + 1 .. after + l
  BY <1>1 DEF Chain
<1>3. \A m \in 1 .. l : /\ submitted[after + m].Sender = b + m - 1
                        /\ submitted[after + m].Recipient = IF m = l THEN b ELSE b + m
  BY <1>1 DEF Chain
<1>4. \A k \in Circle(r) : k - after \in 1 .. l /\ after + (k - after) = k
  BY <1>2
<1>5. \A m \in 1 .. l : after + m \in Circle(r)
  BY <1>2
<1>6. \A k \in Circle(r) :
         /\ submitted[k].Sender = b + (k - after) - 1
         /\ submitted[k].Recipient = IF k - after = l THEN b ELSE b + (k - after)
  BY <1>3, <1>4
<1>7. {submitted[k].Sender : k \in Circle(r)} = b .. b + l - 1
  <2>1. \A k \in Circle(r) : submitted[k].Sender \in b .. b + l - 1
    BY <1>4, <1>6
  <2>2. ASSUME NEW u \in b .. b + l - 1
        PROVE  \E k \in Circle(r) : submitted[k].Sender = u
    <3>1. u - b + 1 \in 1 .. l /\ b + (u - b + 1) - 1 = u
      OBVIOUS
    <3> QED BY <3>1, <1>3, <1>5
  <2> QED BY <2>1, <2>2
<1>8. {submitted[k].Recipient : k \in Circle(r)} = b .. b + l - 1
  <2>1. \A k \in Circle(r) : submitted[k].Recipient \in b .. b + l - 1
    BY <1>4, <1>6
  <2>2. ASSUME NEW u \in b .. b + l - 1
        PROVE  \E k \in Circle(r) : submitted[k].Recipient = u
    <3>1. CASE u = b
      BY <3>1, <1>3, <1>5
    <3>2. CASE u /= b
      <4>1. u - b \in 1 .. l /\ u - b /= l /\ b + (u - b) = u
        BY <3>2
      <4> QED BY <4>1, <1>3, <1>5
    <3> QED BY <3>1, <3>2
  <2> QED BY <2>1, <2>2
<1>9. Cardinality(b .. b + l - 1) = l
  <2>1. (IF b > b + l - 1 THEN 0 ELSE (b + l - 1) - b + 1) = l
    OBVIOUS
  <2> QED BY <2>1, FS_Interval
<1>10. Cardinality(after + 1 .. after + l) = l
  <2>1. (IF after + 1 > after + l THEN 0 ELSE (after + l) - (after + 1) + 1) = l
    OBVIOUS
  <2> QED BY <2>1, FS_Interval
<1> QED BY <1>2, <1>7, <1>8, <1>9, <1>10

(* "A->B->C->A", in every round that is over.                              *)
THEOREM EveryCircleCloses == GenSpec => []CirclesClose
<1>1. GenInv => CirclesClose
  <2> SUFFICES ASSUME GenInv, NEW r \in 0 .. patternCount - 1,
                      gpc \in Later \/ (gpc = "circular" /\ i > r)
               PROVE  LET payers == {submitted[k].Sender : k \in Circle(r)}
                          payees == {submitted[k].Recipient : k \in Circle(r)}
                      IN  payers = payees /\ Cardinality(payers) = Cardinality(Circle(r))
    BY DEF CirclesClose, Later, Circle
  <2>1. patternCount \in Nat /\ i \in Nat
    BY Shares DEF GenInv, GenTypeOK
  <2>2. r \in Nat /\ RoundOver(r)
    BY <2>1 DEF RoundOver
  <2>3. PICK after \in Nat : Chain(r, LengthOf(r), after)
    BY <2>2 DEF GenInv, CircleInv
  <2> QED BY <2>2, <2>3, ChainCloses
<1> QED BY <1>1, GeneratorInvariant, PTL
=============================================================================
