---------------------------- MODULE SequenceLemmas ----------------------------
(***************************************************************************)
(* Facts about sequences on which the proofs of several components rest:    *)
(* their elements, their repetitions, and what a selection keeps.           *)
(***************************************************************************)
EXTENDS Selection, Sums, SequencesExt, Functions, SequenceTheorems, FiniteSetTheorems, TLAPS

-------------------------------------------------------------------------------
(* Induction.  The least counterexample is found through the well-founded   *)
(* order of finite sets: n stands for the interval 0 .. n - 1.             *)
THEOREM NatSetInduction ==
  ASSUME NEW S, 0 \in S, \A n \in Nat : n \in S => n + 1 \in S
  PROVE  Nat \subseteq S
<1> DEFINE Missing   == {n \in Nat : n \notin S}
           Intervals == {0 .. n - 1 : n \in Missing}
           Below     == StrictSubsetOrdering(Nat)
<1> SUFFICES ASSUME Missing # {} PROVE FALSE
  OBVIOUS
<1>1. Intervals \subseteq FiniteSubsetsOf(Nat) /\ Intervals # {}
  <2>1. \A n \in Nat : IsFiniteSet(0 .. n - 1)
    BY FS_Interval
  <2> QED BY <2>1 DEF FiniteSubsetsOf
<1>2. PICK X \in Intervals : \A Y \in Intervals : <<Y, X>> \notin Below
  <2>1. IsWellFoundedOn(Below, FiniteSubsetsOf(Nat))
    BY FS_StrictSubsetOrderingWellFounded
  <2> HIDE DEF Below, Intervals
  <2> QED BY <1>1, <2>1, WFMin
<1>3. PICK n \in Missing : X = 0 .. n - 1
  OBVIOUS
<1>4. n - 1 \in Missing /\ n > 0
  OBVIOUS
<1>5. 0 .. n - 2 \in Intervals
  <2>1. 0 .. n - 2 = 0 .. (n - 1) - 1
    BY <1>4
  <2> QED BY <2>1, <1>4
<1>6. <<0 .. n - 2, X>> \in Below
  <2>1. 0 .. n - 2 \subseteq X /\ n - 1 \in X /\ n - 1 \notin 0 .. n - 2
    BY <1>3, <1>4
  <2> QED BY <2>1, <1>3, <1>4 DEF StrictSubsetOrdering
<1> QED BY <1>2, <1>5, <1>6

-------------------------------------------------------------------------------
(* Elements and repetitions                                                *)

LEMMA ToSetAppend ==
  ASSUME NEW S, NEW s \in Seq(S), NEW x \in S
  PROVE  ToSet(Append(s, x)) = ToSet(s) \cup {x}
<1>1. /\ DOMAIN Append(s, x) = 1 .. Len(s) + 1 /\ DOMAIN s = 1 .. Len(s) /\ Len(s) \in Nat
      /\ \A i \in 1 .. Len(s) : Append(s, x)[i] = s[i]
      /\ Append(s, x)[Len(s) + 1] = x
  BY AppendProperties
<1>2. 1 .. Len(s) + 1 = (1 .. Len(s)) \cup {Len(s) + 1}
  BY <1>1
<1> QED BY <1>1, <1>2 DEF ToSet

LEMMA ToSetConcat ==
  ASSUME NEW S, NEW s \in Seq(S), NEW t \in Seq(S)
  PROVE  s \o t \in Seq(S) /\ ToSet(s \o t) = ToSet(s) \cup ToSet(t)
<1>1. /\ s \o t \in Seq(S) /\ Len(s) \in Nat /\ Len(t) \in Nat
      /\ DOMAIN (s \o t) = 1 .. Len(s) + Len(t)
      /\ DOMAIN s = 1 .. Len(s) /\ DOMAIN t = 1 .. Len(t)
      /\ \A i \in 1 .. Len(s) + Len(t) :
           (s \o t)[i] = IF i <= Len(s) THEN s[i] ELSE t[i - Len(s)]
  BY ConcatProperties
<1>2. ASSUME NEW x \in ToSet(s \o t) PROVE x \in ToSet(s) \cup ToSet(t)
  <2>1. PICK i \in 1 .. Len(s) + Len(t) : x = (s \o t)[i]
    BY <1>1, <1>2 DEF ToSet
  <2>2. CASE i <= Len(s)
    BY <1>1, <2>1, <2>2 DEF ToSet
  <2>3. CASE i > Len(s)
    <3>1. i - Len(s) \in DOMAIN t /\ x = t[i - Len(s)]
      BY <1>1, <2>1, <2>3
    <3> QED BY <3>1 DEF ToSet
  <2> QED BY <1>1, <2>2, <2>3
<1>3. \A i \in DOMAIN s : i \in DOMAIN (s \o t) /\ (s \o t)[i] = s[i]
  BY <1>1
<1>4. \A i \in DOMAIN t : i + Len(s) \in DOMAIN (s \o t) /\ (s \o t)[i + Len(s)] = t[i]
  BY <1>1
<1>5. ToSet(s) \subseteq ToSet(s \o t)
  BY <1>3 DEF ToSet
<1>6. ToSet(t) \subseteq ToSet(s \o t)
  BY <1>4 DEF ToSet
<1> QED BY <1>1, <1>2, <1>5, <1>6

(* A new element repeats nothing.                                           *)
LEMMA AppendNewInjective ==
  ASSUME NEW S, NEW s \in Seq(S), NEW x \in S \ ToSet(s), IsInjective(s)
  PROVE  IsInjective(Append(s, x))
<1>1. /\ DOMAIN Append(s, x) = 1 .. Len(s) + 1 /\ DOMAIN s = 1 .. Len(s) /\ Len(s) \in Nat
      /\ \A i \in 1 .. Len(s) : Append(s, x)[i] = s[i] /\ s[i] # x
      /\ Append(s, x)[Len(s) + 1] = x
  BY AppendProperties, LenProperties DEF ToSet
<1>2. \A i \in 1 .. Len(s) + 1 : i \in 1 .. Len(s) \/ i = Len(s) + 1
  BY <1>1
<1> QED BY <1>1, <1>2 DEF IsInjective

(* What may be repeated may be more.                                       *)
LEMMA RepeatsMore ==
  ASSUME NEW s, NEW K, NEW L, K \subseteq L, RepeatsOnly(s, K)
  PROVE  RepeatsOnly(s, L)
BY DEF RepeatsOnly

(* A new element, or one that may be repeated.                              *)
LEMMA AppendRepeats ==
  ASSUME NEW S, NEW s \in Seq(S), NEW x \in S, NEW K, RepeatsOnly(s, K), x \in ToSet(s) => x \in K
  PROVE  RepeatsOnly(Append(s, x), K)
<1>1. /\ DOMAIN Append(s, x) = 1 .. Len(s) + 1 /\ DOMAIN s = 1 .. Len(s) /\ Len(s) \in Nat
      /\ \A i \in 1 .. Len(s) : Append(s, x)[i] = s[i] /\ s[i] \in ToSet(s)
      /\ Append(s, x)[Len(s) + 1] = x
  BY AppendProperties, LenProperties DEF ToSet
<1>2. \A i \in 1 .. Len(s) + 1 : i \in 1 .. Len(s) \/ i = Len(s) + 1
  BY <1>1
<1> QED BY <1>1, <1>2 DEF RepeatsOnly

(* Two sequences, one after the other, that share only what may be repeated. *)
LEMMA ConcatRepeats ==
  ASSUME NEW S, NEW s \in Seq(S), NEW t \in Seq(S), NEW K,
         RepeatsOnly(s, K), RepeatsOnly(t, K), ToSet(s) \cap ToSet(t) \subseteq K
  PROVE  RepeatsOnly(s \o t, K)
<1>1. /\ Len(s) \in Nat /\ Len(t) \in Nat
      /\ DOMAIN (s \o t) = 1 .. Len(s) + Len(t)
      /\ DOMAIN s = 1 .. Len(s) /\ DOMAIN t = 1 .. Len(t)
      /\ \A i \in 1 .. Len(s) + Len(t) :
           (s \o t)[i] = IF i <= Len(s) THEN s[i] ELSE t[i - Len(s)]
  BY ConcatProperties, LenProperties
<1>2. ASSUME NEW i \in DOMAIN (s \o t), NEW j \in DOMAIN (s \o t), i # j, (s \o t)[i] = (s \o t)[j]
      PROVE  (s \o t)[i] \in K
  <2>1. CASE i <= Len(s) /\ j <= Len(s)
    <3>1. i \in DOMAIN s /\ j \in DOMAIN s /\ s[i] = s[j] /\ (s \o t)[i] = s[i]
      BY <1>1, <1>2, <2>1
    <3> QED BY <1>2, <3>1 DEF RepeatsOnly
  <2>2. CASE i > Len(s) /\ j > Len(s)
    <3>1. /\ i - Len(s) \in DOMAIN t /\ j - Len(s) \in DOMAIN t /\ i - Len(s) # j - Len(s)
          /\ t[i - Len(s)] = t[j - Len(s)] /\ (s \o t)[i] = t[i - Len(s)]
      BY <1>1, <1>2, <2>2
    <3> QED BY <3>1 DEF RepeatsOnly
  <2>3. CASE i <= Len(s) /\ j > Len(s)
    <3>1. /\ i \in DOMAIN s /\ j - Len(s) \in DOMAIN t /\ s[i] = t[j - Len(s)]
          /\ (s \o t)[i] = s[i]
      BY <1>1, <1>2, <2>3
    <3> QED BY <3>1 DEF ToSet
  <2>4. CASE i > Len(s) /\ j <= Len(s)
    <3>1. /\ j \in DOMAIN s /\ i - Len(s) \in DOMAIN t /\ s[j] = t[i - Len(s)]
          /\ (s \o t)[i] = s[j]
      BY <1>1, <1>2, <2>4
    <3> QED BY <3>1 DEF ToSet
  <2> QED BY <1>1, <2>1, <2>2, <2>3, <2>4
<1> QED BY <1>2 DEF RepeatsOnly

LEMMA ReverseProperties ==
  ASSUME NEW S, NEW s \in Seq(S)
  PROVE  /\ Reverse(s) \in Seq(S) /\ Len(Reverse(s)) = Len(s)
         /\ \A i \in 1 .. Len(s) : Reverse(s)[i] = s[Len(s) - i + 1]
<1>1. Len(s) \in Nat /\ \A i \in 1 .. Len(s) : s[i] \in S /\ (Len(s) - i) + 1 \in 1 .. Len(s)
  BY LenProperties
<1>2. Reverse(s) \in [1 .. Len(s) -> S]
  BY <1>1 DEF Reverse
<1>3. Reverse(s) \in Seq(S) /\ Len(Reverse(s)) = Len(s)
  BY <1>1, <1>2
<1> QED BY <1>1, <1>3 DEF Reverse

LEMMA LengthOfRest ==
  ASSUME NEW n \in Nat, NEW i \in 1 .. n, NEW rest,
         rest = IF i + 1 <= n THEN n - (i + 1) + 1 ELSE 0
  PROVE  rest = n - i
OBVIOUS

(* Taking one element out.                                                  *)
LEMMA RemoveAtProperties ==
  ASSUME NEW S, NEW s \in Seq(S), NEW i \in 1 .. Len(s)
  PROVE  /\ RemoveAt(s, i) \in Seq(S) /\ Len(RemoveAt(s, i)) = Len(s) - 1
         /\ \A k \in 1 .. Len(s) - 1 : RemoveAt(s, i)[k] = IF k < i THEN s[k] ELSE s[k + 1]
         /\ ToSet(s) \ {s[i]} \subseteq ToSet(RemoveAt(s, i))
         /\ ToSet(RemoveAt(s, i)) \subseteq ToSet(s)
         /\ IsInjective(s) => IsInjective(RemoveAt(s, i)) /\ s[i] \notin ToSet(RemoveAt(s, i))
<1> DEFINE head == SubSeq(s, 1, i - 1)
           tail == SubSeq(s, i + 1, Len(s))
           rest == RemoveAt(s, i)
<1>1. Len(s) \in Nat /\ DOMAIN s = 1 .. Len(s) /\ \A k \in 1 .. Len(s) : s[k] \in S
  BY LenProperties
<1>2. /\ head \in Seq(S) /\ Len(head) = i - 1
      /\ \A k \in 1 .. i - 1 : head[k] = s[k]
  <2>1. \A k \in 1 .. i - 1 : s[k] \in S
    BY <1>1
  <2> QED BY <1>1, <2>1, SubSeqProperties
<1>3. /\ tail \in Seq(S) /\ Len(tail) = Len(s) - i
      /\ \A k \in 1 .. Len(s) - i : tail[k] = s[i + k]
  <2>1. \A k \in i + 1 .. Len(s) : s[k] \in S
    BY <1>1
  <2>2. /\ tail \in Seq(S)
        /\ Len(tail) = IF i + 1 <= Len(s) THEN Len(s) - (i + 1) + 1 ELSE 0
        /\ \A k \in 1 .. Len(s) - (i + 1) + 1 : tail[k] = s[(i + 1) + k - 1]
    BY <1>1, <2>1, SubSeqProperties
  <2> HIDE DEF tail
  <2>3. Len(s) - (i + 1) + 1 = Len(s) - i /\ \A k \in 1 .. Len(s) - i : (i + 1) + k - 1 = i + k
    BY <1>1
  <2>4. Len(tail) = Len(s) - i
    <3>1. Len(s) \in Nat
      BY <1>1
    <3>2. Len(tail) = IF i + 1 <= Len(s) THEN Len(s) - (i + 1) + 1 ELSE 0
      BY <2>2, Zenon
    <3> QED BY <3>1, <3>2, LengthOfRest, Zenon
  <2>5. ASSUME NEW k \in 1 .. Len(s) - i PROVE tail[k] = s[i + k]
    BY <2>2, <2>3, Zenon
  <2> QED BY <2>2, <2>4, <2>5
<1> HIDE DEF head, tail
<1>4. /\ rest \in Seq(S) /\ Len(rest) = Len(s) - 1
      /\ \A k \in 1 .. Len(s) - 1 : rest[k] = IF k <= i - 1 THEN head[k] ELSE tail[k - (i - 1)]
  <2>1. rest = head \o tail
    BY DEF RemoveAt, head, tail
  <2> HIDE DEF rest
  <2>2. Len(head) + Len(tail) = Len(s) - 1
    BY <1>1, <1>2, <1>3
  <2>3. /\ head \o tail \in Seq(S) /\ Len(head \o tail) = Len(head) + Len(tail)
        /\ \A k \in 1 .. Len(head) + Len(tail) :
             (head \o tail)[k] = IF k <= Len(head) THEN head[k] ELSE tail[k - Len(head)]
    BY <1>2, <1>3, ConcatProperties
  <2> QED BY <1>2, <2>1, <2>2, <2>3
<1> HIDE DEF rest
<1>5. ASSUME NEW k \in 1 .. Len(s) - 1 PROVE rest[k] = IF k < i THEN s[k] ELSE s[k + 1]
  <2>1. CASE k < i
    BY <1>1, <1>2, <1>4, <2>1
  <2>2. CASE ~(k < i)
    <3>1. k - (i - 1) \in 1 .. Len(s) - i /\ i + (k - (i - 1)) = k + 1 /\ ~(k <= i - 1)
      BY <1>1, <2>2
    <3> QED BY <1>3, <1>4, <2>2, <3>1
  <2> QED BY <2>1, <2>2
<1>6. DOMAIN rest = 1 .. Len(s) - 1
  BY <1>4, LenProperties
<1>7. \A k \in 1 .. Len(s) - 1 : k \in 1 .. Len(s) /\ k + 1 \in 1 .. Len(s)
  BY <1>1
<1>8. ToSet(rest) \subseteq ToSet(s)
  BY <1>1, <1>5, <1>6, <1>7 DEF ToSet
<1>9. ASSUME NEW k \in 1 .. Len(s), k # i PROVE s[k] \in ToSet(rest)
  <2>1. CASE k < i
    <3>1. k \in 1 .. Len(s) - 1 /\ rest[k] = s[k]
      BY <1>1, <1>5, <2>1
    <3> QED BY <1>6, <3>1 DEF ToSet
  <2>2. CASE k > i
    <3>1. k - 1 \in 1 .. Len(s) - 1 /\ ~(k - 1 < i) /\ (k - 1) + 1 = k
      BY <1>1, <2>2
    <3>2. rest[k - 1] = s[k]
      BY <1>5, <3>1
    <3> QED BY <1>6, <3>1, <3>2 DEF ToSet
  <2> QED BY <1>1, <1>9, <2>1, <2>2
<1>10. ToSet(s) \ {s[i]} \subseteq ToSet(rest)
  BY <1>1, <1>9 DEF ToSet
<1>11. ASSUME IsInjective(s) PROVE IsInjective(rest) /\ s[i] \notin ToSet(rest)
  <2>0. \A k, l \in 1 .. Len(s) : s[k] = s[l] => k = l
    BY <1>1, <1>11 DEF IsInjective
  <2> DEFINE from(k) == IF k < i THEN k ELSE k + 1
  <2>1. \A k \in 1 .. Len(s) - 1 : from(k) \in 1 .. Len(s) /\ from(k) # i /\ rest[k] = s[from(k)]
    BY <1>5, <1>7
  <2>2. \A k, l \in 1 .. Len(s) - 1 : from(k) = from(l) => k = l
    BY <1>1
  <2> HIDE DEF from
  <2>3. IsInjective(rest)
    BY <1>1, <1>6, <1>11, <2>1, <2>2 DEF IsInjective
  <2>4. s[i] \notin ToSet(rest)
    <3>0. Len(s) \in Nat
      BY <1>1
    <3>1. ASSUME NEW k \in 1 .. Len(s) - 1 PROVE rest[k] # s[i]
      <4>1. PICK l \in 1 .. Len(s) : l # i /\ rest[k] = s[l]
        BY <2>1
      <4>2. s[l] # s[i]
        BY <2>0, <4>1, Zenon
      <4> QED BY <4>1, <4>2, Zenon
    <3> QED BY <1>6, <3>1 DEF ToSet
  <2> QED BY <2>3, <2>4
<1> QED BY <1>4, <1>5, <1>8, <1>10, <1>11 DEF rest

-------------------------------------------------------------------------------
(* Selection                                                               *)

(* The recursive definition of KeptAfter has a solution, so it is one.      *)
LEMMA KeptAfterDef ==
  ASSUME NEW s, Len(s) \in Nat, NEW K
  PROVE  KeptAfter(s, K) =
           [i \in 0 .. Len(s) |->
              IF i = 0 THEN <<>>
              ELSE IF s[i] \in K THEN Append(KeptAfter(s, K)[i - 1], s[i])
              ELSE KeptAfter(s, K)[i - 1]]
<1> DEFINE Solves(n, f) ==
             f = [i \in 0 .. n |->
                    IF i = 0 THEN <<>>
                    ELSE IF s[i] \in K THEN Append(f[i - 1], s[i]) ELSE f[i - 1]]
           S == {n \in Nat : \E f : Solves(n, f)}
<1>1. 0 \in S
  <2>1. Solves(0, [i \in 0 .. 0 |-> <<>>])
    OBVIOUS
  <2> QED BY <2>1
<1>2. ASSUME NEW n \in Nat, n \in S PROVE n + 1 \in S
  <2>1. PICK f : Solves(n, f)
    BY <1>2
  <2> DEFINE g == [i \in 0 .. n + 1 |->
                     IF i <= n THEN f[i]
                     ELSE IF s[i] \in K THEN Append(f[i - 1], s[i]) ELSE f[i - 1]]
  <2>2. \A i \in 0 .. n + 1 : i # 0 => i - 1 \in 0 .. n /\ g[i - 1] = f[i - 1]
    OBVIOUS
  <2>3. \A i \in 0 .. n : f[i] = IF i = 0 THEN <<>>
                                 ELSE IF s[i] \in K THEN Append(f[i - 1], s[i]) ELSE f[i - 1]
    BY <2>1
  <2>4. \A i \in 0 .. n + 1 :
          g[i] = IF i = 0 THEN <<>>
                 ELSE IF s[i] \in K THEN Append(g[i - 1], s[i]) ELSE g[i - 1]
    BY <2>2, <2>3
  <2>5. g = [i \in 0 .. n + 1 |-> g[i]]
    OBVIOUS
  <2>6. Solves(n + 1, g)
    <3> HIDE DEF g
    <3>1. [i \in 0 .. n + 1 |-> g[i]]
            = [i \in 0 .. n + 1 |->
                 IF i = 0 THEN <<>>
                 ELSE IF s[i] \in K THEN Append(g[i - 1], s[i]) ELSE g[i - 1]]
      BY <2>4
    <3> QED BY <2>5, <3>1
  <2>7. \E h : Solves(n + 1, h)
    <3> HIDE DEF g, Solves, S
    <3> QED BY <2>6, Zenon
  <2> HIDE DEF Solves
  <2> QED BY <2>7
<1>3. Len(s) \in S
  <2> HIDE DEF S
  <2> QED BY <1>1, <1>2, NatSetInduction
<1>4. \E f : Solves(Len(s), f)
  BY <1>3
<1> QED BY <1>4, Zenon DEF KeptAfter

(* The ways in which t stands in the first n places of s: in its order, and *)
(* at all places where s has an element of K.                              *)
Places(t, s, n, K) ==
  {at \in [1 .. Len(t) -> 1 .. n] :
     /\ \A k \in 1 .. Len(t) : t[k] = s[at[k]] /\ s[at[k]] \in K
     /\ \A k, l \in 1 .. Len(t) : k < l => at[k] < at[l]
     /\ \A i \in 1 .. n : s[i] \in K => \E k \in 1 .. Len(t) : at[k] = i}

(* What the loop has kept stands in s in this way.                          *)
LEMMA SelectPlaces ==
  ASSUME NEW S, NEW s \in Seq(S), NEW K
  PROVE  Select(s, K) \in Seq(S) /\ Places(Select(s, K), s, Len(s), K) # {}
<1> DEFINE kept == KeptAfter(s, K)
           Good(n) == kept[n] \in Seq(S) /\ Places(kept[n], s, n, K) # {}
           T == {n \in Nat : n <= Len(s) => Good(n)}
<1>len. Len(s) \in Nat /\ \A i \in 1 .. Len(s) : s[i] \in S
  BY LenProperties
<1>def. \A i \in 0 .. Len(s) :
          kept[i] = IF i = 0 THEN <<>>
                    ELSE IF s[i] \in K THEN Append(kept[i - 1], s[i]) ELSE kept[i - 1]
  <2> HIDE DEF kept
  <2>1. kept = [i \in 0 .. Len(s) |->
                 IF i = 0 THEN <<>>
                 ELSE IF s[i] \in K THEN Append(kept[i - 1], s[i]) ELSE kept[i - 1]]
    BY <1>len, KeptAfterDef DEF kept
  <2> QED BY <2>1
<1> HIDE DEF kept
<1>1. 0 \in T
  <2>1. kept[0] = <<>>
    BY <1>len, <1>def
  <2>2. kept[0] \in Seq(S) /\ Len(kept[0]) = 0
    BY <2>1, EmptySeq
  <2>3. [k \in 1 .. 0 |-> 1] \in [1 .. Len(kept[0]) -> 1 .. 0]
    BY <2>2
  <2>4. [k \in 1 .. 0 |-> 1] \in Places(kept[0], s, 0, K)
    BY <2>2, <2>3 DEF Places
  <2> QED BY <2>2, <2>4
<1>2. ASSUME NEW n \in Nat, n \in T PROVE n + 1 \in T
  <2> SUFFICES ASSUME n + 1 <= Len(s) PROVE Good(n + 1)
    <3> HIDE DEF Good
    <3> QED OBVIOUS
  <2>0. n + 1 \in 0 .. Len(s) /\ n + 1 # 0 /\ (n + 1) - 1 = n /\ n <= Len(s) /\ s[n + 1] \in S
    BY <1>len
  <2>1. Good(n)
    BY <1>2, <2>0
  <2>2. kept[n + 1] = IF s[n + 1] \in K THEN Append(kept[n], s[n + 1]) ELSE kept[n]
    BY <1>def, <2>0
  <2>at. PICK at \in Places(kept[n], s, n, K) : TRUE
    BY <2>1
  <2>3. /\ at \in [1 .. Len(kept[n]) -> 1 .. n]
        /\ \A k \in 1 .. Len(kept[n]) : kept[n][k] = s[at[k]] /\ s[at[k]] \in K
        /\ \A k, l \in 1 .. Len(kept[n]) : k < l => at[k] < at[l]
        /\ \A i \in 1 .. n : s[i] \in K => \E k \in 1 .. Len(kept[n]) : at[k] = i
    BY DEF Places
  <2>4. \A i \in 1 .. n + 1 : i \in 1 .. n \/ i = n + 1
    OBVIOUS
  <2>5. kept[n] \in Seq(S) /\ Len(kept[n]) \in Nat
    BY <2>1, LenProperties
  <2>6. CASE s[n + 1] \notin K
    <3>1. kept[n + 1] = kept[n]
      BY <2>2, <2>6
    <3>2. at \in [1 .. Len(kept[n]) -> 1 .. n + 1]
      BY <2>3
    <3>3. \A i \in 1 .. n + 1 : s[i] \in K => \E k \in 1 .. Len(kept[n]) : at[k] = i
      BY <2>3, <2>4, <2>6
    <3>4. at \in Places(kept[n], s, n + 1, K)
      BY <2>3, <3>2, <3>3 DEF Places
    <3> QED BY <2>5, <3>1, <3>4
  <2>7. CASE s[n + 1] \in K
    <3> DEFINE new == kept[n + 1]
               to  == [k \in 1 .. Len(kept[n]) + 1 |-> IF k <= Len(kept[n]) THEN at[k] ELSE n + 1]
    <3>1. /\ new \in Seq(S) /\ Len(new) = Len(kept[n]) + 1
          /\ \A k \in 1 .. Len(kept[n]) : new[k] = kept[n][k]
          /\ new[Len(kept[n]) + 1] = s[n + 1]
      BY <2>0, <2>2, <2>5, <2>7, AppendProperties
    <3> HIDE DEF new
    <3>2. to \in [1 .. Len(new) -> 1 .. n + 1]
      <4>1. 1 .. n \subseteq 1 .. n + 1
        OBVIOUS
      <4>2. \A k \in 1 .. Len(kept[n]) : at[k] \in 1 .. n + 1
        BY <2>3, <4>1
      <4> QED BY <2>5, <3>1, <4>2
    <3>3. \A k \in 1 .. Len(new) : new[k] = s[to[k]] /\ s[to[k]] \in K
      BY <2>3, <2>5, <2>7, <3>1
    <3>4. \A k, l \in 1 .. Len(new) : k < l => to[k] < to[l]
      <4>1. \A k \in 1 .. Len(kept[n]) : at[k] \in 1 .. n
        BY <2>3
      <4> QED BY <2>3, <2>5, <3>1, <4>1
    <3>5. \A i \in 1 .. n + 1 : s[i] \in K => \E k \in 1 .. Len(new) : to[k] = i
      <4> SUFFICES ASSUME NEW i \in 1 .. n + 1, s[i] \in K PROVE \E k \in 1 .. Len(new) : to[k] = i
        OBVIOUS
      <4>1. CASE i \in 1 .. n
        <5>1. PICK k \in 1 .. Len(kept[n]) : at[k] = i
          BY <2>3, <4>1
        <5>2. k \in 1 .. Len(new) /\ to[k] = at[k]
          BY <2>5, <3>1
        <5> QED BY <5>1, <5>2
      <4>2. CASE i = n + 1
        <5>1. Len(kept[n]) + 1 \in 1 .. Len(new) /\ to[Len(kept[n]) + 1] = n + 1
          BY <2>5, <3>1
        <5> QED BY <4>2, <5>1
      <4> QED BY <2>4, <4>1, <4>2
    <3>6. to \in Places(new, s, n + 1, K)
      <4> HIDE DEF to
      <4> QED BY <3>2, <3>3, <3>4, <3>5 DEF Places
    <3> QED BY <3>1, <3>6 DEF new
  <2> QED BY <2>6, <2>7
<1>3. Len(s) \in T
  <2> HIDE DEF T
  <2> QED BY <1>len, <1>1, <1>2, NatSetInduction
<1>4. Good(Len(s))
  BY <1>len, <1>3
<1> QED BY <1>4 DEF Select, kept

(* It keeps exactly the elements of K.                                      *)
LEMMA SelectElements ==
  ASSUME NEW S, NEW s \in Seq(S), NEW K
  PROVE  Select(s, K) \in Seq(S) /\ ToSet(Select(s, K)) = ToSet(s) \cap K
<1> DEFINE t == Select(s, K)
<1>at. t \in Seq(S) /\ Places(t, s, Len(s), K) # {}
  BY SelectPlaces
<1> HIDE DEF t
<1>1. PICK at \in [1 .. Len(t) -> 1 .. Len(s)] :
        /\ \A k \in 1 .. Len(t) : t[k] = s[at[k]] /\ s[at[k]] \in K
        /\ \A i \in 1 .. Len(s) : s[i] \in K => \E k \in 1 .. Len(t) : at[k] = i
  BY <1>at DEF Places
<1>2. t \in Seq(S) /\ DOMAIN t = 1 .. Len(t) /\ DOMAIN s = 1 .. Len(s)
  BY <1>at, LenProperties
<1>3. ToSet(t) \subseteq ToSet(s) \cap K
  BY <1>1, <1>2 DEF ToSet
<1>4. ASSUME NEW i \in 1 .. Len(s), s[i] \in K PROVE s[i] \in ToSet(t)
  <2>1. PICK k \in 1 .. Len(t) : at[k] = i
    BY <1>1, <1>4
  <2> QED BY <1>1, <1>2, <2>1 DEF ToSet
<1>5. ToSet(s) \cap K \subseteq ToSet(t)
  BY <1>2, <1>4 DEF ToSet
<1> QED BY <1>2, <1>3, <1>5 DEF t
-------------------------------------------------------------------------------
(* Sums                                                                    *)

(* The recursive definition of SumsOf has a solution, so it is one.         *)
LEMMA SumsOfDef ==
  ASSUME NEW ns, Len(ns) \in Nat
  PROVE  SumsOf(ns) = [i \in 0 .. Len(ns) |-> IF i = 0 THEN 0 ELSE SumsOf(ns)[i - 1] + ns[i]]
<1> DEFINE Solves(n, f) == f = [i \in 0 .. n |-> IF i = 0 THEN 0 ELSE f[i - 1] + ns[i]]
           S == {n \in Nat : \E f : Solves(n, f)}
<1>1. 0 \in S
  <2>1. Solves(0, [i \in 0 .. 0 |-> 0])
    OBVIOUS
  <2> QED BY <2>1
<1>2. ASSUME NEW n \in Nat, n \in S PROVE n + 1 \in S
  <2>1. PICK f : Solves(n, f)
    BY <1>2
  <2> DEFINE g == [i \in 0 .. n + 1 |-> IF i <= n THEN f[i] ELSE f[i - 1] + ns[i]]
  <2>2. \A i \in 0 .. n + 1 : i # 0 => i - 1 \in 0 .. n /\ g[i - 1] = f[i - 1]
    OBVIOUS
  <2>3. \A i \in 0 .. n : f[i] = IF i = 0 THEN 0 ELSE f[i - 1] + ns[i]
    BY <2>1
  <2>4. \A i \in 0 .. n + 1 : g[i] = IF i = 0 THEN 0 ELSE g[i - 1] + ns[i]
    BY <2>2, <2>3
  <2>5. g = [i \in 0 .. n + 1 |-> g[i]]
    OBVIOUS
  <2>6. Solves(n + 1, g)
    <3> HIDE DEF g
    <3>1. [i \in 0 .. n + 1 |-> g[i]]
            = [i \in 0 .. n + 1 |-> IF i = 0 THEN 0 ELSE g[i - 1] + ns[i]]
      BY <2>4
    <3> QED BY <2>5, <3>1
  <2>7. \E h : Solves(n + 1, h)
    <3> HIDE DEF g, Solves, S
    <3> QED BY <2>6, Zenon
  <2> HIDE DEF Solves
  <2> QED BY <2>7
<1>3. Len(ns) \in S
  <2> HIDE DEF S
  <2> QED BY <1>1, <1>2, NatSetInduction
<1>4. \E f : Solves(Len(ns), f)
  BY <1>3
<1> QED BY <1>4, Zenon DEF SumsOf

(* What each turn of the loop adds.                                         *)
LEMMA SumsOfSteps ==
  ASSUME NEW ns \in Seq(Int)
  PROVE  /\ SumsOf(ns)[0] = 0
         /\ \A i \in 1 .. Len(ns) : SumsOf(ns)[i] = SumsOf(ns)[i - 1] + ns[i]
         /\ \A i \in 0 .. Len(ns) : SumsOf(ns)[i] \in Int
<1> DEFINE sum == SumsOf(ns)
           T   == {n \in Nat : n <= Len(ns) => sum[n] \in Int}
<1>len. Len(ns) \in Nat /\ \A i \in 1 .. Len(ns) : ns[i] \in Int
  BY LenProperties
<1>1. \A i \in 0 .. Len(ns) : sum[i] = IF i = 0 THEN 0 ELSE sum[i - 1] + ns[i]
  <2> HIDE DEF sum
  <2>1. sum = [i \in 0 .. Len(ns) |-> IF i = 0 THEN 0 ELSE sum[i - 1] + ns[i]]
    BY <1>len, SumsOfDef DEF sum
  <2> QED BY <2>1
<1> HIDE DEF sum
<1>2. sum[0] = 0
  BY <1>len, <1>1
<1>3. \A i \in 1 .. Len(ns) : sum[i] = sum[i - 1] + ns[i]
  BY <1>len, <1>1
<1>4. 0 \in T
  BY <1>2
<1>5. ASSUME NEW n \in Nat, n \in T PROVE n + 1 \in T
  <2> SUFFICES ASSUME n + 1 <= Len(ns) PROVE sum[n + 1] \in Int
    OBVIOUS
  <2>1. n + 1 \in 1 .. Len(ns) /\ (n + 1) - 1 = n /\ n <= Len(ns)
    BY <1>len
  <2>2. sum[n] \in Int /\ ns[n + 1] \in Int /\ sum[n + 1] = sum[n] + ns[n + 1]
    BY <1>len, <1>3, <1>5, <2>1
  <2> QED BY <2>2
<1>6. \A n \in Nat : n \in T
  <2> HIDE DEF T
  <2> QED BY <1>4, <1>5, NatSetInduction
<1>7. \A i \in 0 .. Len(ns) : sum[i] \in Int
  BY <1>len, <1>6
<1> QED BY <1>2, <1>3, <1>7 DEF sum

(* A sum depends only on what has been added.                               *)
LEMMA SumsOfAgree ==
  ASSUME NEW ns \in Seq(Int), NEW ks \in Seq(Int), NEW m \in Nat, m <= Len(ns), m <= Len(ks),
         \A i \in 1 .. m : ns[i] = ks[i]
  PROVE  SumsOf(ns)[m] = SumsOf(ks)[m]
<1> DEFINE T == {n \in Nat : n <= m => SumsOf(ns)[n] = SumsOf(ks)[n]}
<1>len. Len(ns) \in Nat /\ Len(ks) \in Nat
  BY LenProperties
<1>1. 0 \in T
  BY SumsOfSteps
<1>2. ASSUME NEW n \in Nat, n \in T PROVE n + 1 \in T
  <2> SUFFICES ASSUME n + 1 <= m PROVE SumsOf(ns)[n + 1] = SumsOf(ks)[n + 1]
    OBVIOUS
  <2>1. n + 1 \in 1 .. m /\ n + 1 \in 1 .. Len(ns) /\ n + 1 \in 1 .. Len(ks) /\ (n + 1) - 1 = n
    BY <1>len
  <2>2. SumsOf(ns)[n + 1] = SumsOf(ns)[n] + ns[n + 1]
    BY <2>1, SumsOfSteps
  <2>3. SumsOf(ks)[n + 1] = SumsOf(ks)[n] + ks[n + 1]
    BY <2>1, SumsOfSteps
  <2>4. SumsOf(ns)[n] = SumsOf(ks)[n]
    BY <1>2
  <2> QED BY <2>1, <2>2, <2>3, <2>4
<1>3. m \in T
  <2> HIDE DEF T
  <2> QED BY <1>1, <1>2, NatSetInduction
<1> QED BY <1>3

LEMMA TotalOfFew ==
  /\ Total(<<>>) = 0
  /\ \A x \in Int : Total(<<x>>) = x
<1>1. <<>> \in Seq(Int) /\ Len(<<>>) = 0
  OBVIOUS
<1>2. Total(<<>>) = 0
  BY <1>1, SumsOfSteps DEF Total
<1>3. ASSUME NEW x \in Int PROVE Total(<<x>>) = x
  <2>1. <<x>> \in Seq(Int) /\ Len(<<x>>) = 1 /\ <<x>>[1] = x
    OBVIOUS
  <2> DEFINE ns == <<x>>
  <2>2. ns \in Seq(Int) /\ Len(ns) = 1 /\ ns[1] = x
    BY <2>1
  <2> HIDE DEF ns
  <2>3. SumsOf(ns)[0] = 0 /\ \A i \in 1 .. 1 : SumsOf(ns)[i] = SumsOf(ns)[i - 1] + ns[i]
    BY <2>2, SumsOfSteps
  <2>4. SumsOf(ns)[1] = x
    <3>1. 1 \in 1 .. 1 /\ 1 - 1 = 0
      OBVIOUS
    <3> QED BY <2>2, <2>3, <3>1
  <2> QED BY <2>2, <2>4 DEF Total, ns
<1> QED BY <1>2, <1>3

LEMMA TotalConcat ==
  ASSUME NEW s \in Seq(Int), NEW t \in Seq(Int)
  PROVE  Total(s \o t) = Total(s) + Total(t)
<1> DEFINE both == s \o t
           T    == {n \in Nat : n <= Len(t) =>
                      SumsOf(both)[Len(s) + n] = SumsOf(s)[Len(s)] + SumsOf(t)[n]}
<1>len. /\ both \in Seq(Int) /\ Len(s) \in Nat /\ Len(t) \in Nat /\ Len(both) = Len(s) + Len(t)
        /\ \A i \in 1 .. Len(s) : both[i] = s[i]
        /\ \A i \in 1 .. Len(t) : both[Len(s) + i] = t[i]
  BY LenProperties, ConcatProperties
<1> HIDE DEF both
<1>1. 0 \in T
  <2>1. SumsOf(both)[Len(s)] = SumsOf(s)[Len(s)]
    <3>1. Len(s) <= Len(both) /\ Len(s) <= Len(s) /\ \A i \in 1 .. Len(s) : both[i] = s[i]
      BY <1>len
    <3> QED BY <1>len, <3>1, SumsOfAgree
  <2>2. SumsOf(t)[0] = 0 /\ SumsOf(s)[Len(s)] \in Int
    BY <1>len, SumsOfSteps
  <2> QED BY <1>len, <2>1, <2>2
<1>2. ASSUME NEW n \in Nat, n \in T PROVE n + 1 \in T
  <2> SUFFICES ASSUME n + 1 <= Len(t)
               PROVE  SumsOf(both)[Len(s) + (n + 1)] = SumsOf(s)[Len(s)] + SumsOf(t)[n + 1]
    OBVIOUS
  <2>1. /\ n + 1 \in 1 .. Len(t) /\ n \in 0 .. Len(t) /\ (n + 1) - 1 = n
        /\ Len(s) + (n + 1) \in 1 .. Len(both) /\ (Len(s) + (n + 1)) - 1 = Len(s) + n
        /\ Len(s) \in 0 .. Len(s)
    BY <1>len
  <2>2. SumsOf(both)[Len(s) + (n + 1)] = SumsOf(both)[Len(s) + n] + both[Len(s) + (n + 1)]
    BY <1>len, <2>1, SumsOfSteps
  <2>3. SumsOf(t)[n + 1] = SumsOf(t)[n] + t[n + 1]
    BY <2>1, SumsOfSteps
  <2>4. SumsOf(both)[Len(s) + n] = SumsOf(s)[Len(s)] + SumsOf(t)[n]
    BY <1>2, <2>1
  <2>5. both[Len(s) + (n + 1)] = t[n + 1] /\ t[n + 1] \in Int
    BY <1>len, <2>1, LenProperties
  <2>6. SumsOf(s)[Len(s)] \in Int /\ SumsOf(t)[n] \in Int
    BY <2>1, SumsOfSteps
  <2> QED BY <2>2, <2>3, <2>4, <2>5, <2>6
<1>3. Len(t) \in T
  <2> HIDE DEF T
  <2> QED BY <1>len, <1>1, <1>2, NatSetInduction
<1> QED BY <1>len, <1>3 DEF Total, both

LEMMA TotalInInt ==
  ASSUME NEW ns \in Seq(Int)
  PROVE  Total(ns) \in Int
<1>1. Len(ns) \in 0 .. Len(ns)
  BY LenProperties
<1> QED BY <1>1, SumsOfSteps DEF Total

LEMMA TotalInNat ==
  ASSUME NEW ns \in Seq(Nat)
  PROVE  Total(ns) \in Nat
<1> DEFINE T == {n \in Nat : n <= Len(ns) => SumsOf(ns)[n] \in Nat}
<1>1. /\ ns \in Seq(Int) /\ Len(ns) \in Nat /\ \A i \in 1 .. Len(ns) : ns[i] \in Nat
      /\ SumsOf(ns)[0] = 0
      /\ \A i \in 1 .. Len(ns) : SumsOf(ns)[i] = SumsOf(ns)[i - 1] + ns[i]
  <2>1. ns \in Seq(Int)
    OBVIOUS
  <2> QED BY <2>1, LenProperties, SumsOfSteps
<1>2. 0 \in T
  BY <1>1
<1>3. ASSUME NEW n \in Nat, n \in T PROVE n + 1 \in T
  <2> SUFFICES ASSUME n + 1 <= Len(ns) PROVE SumsOf(ns)[n + 1] \in Nat
    OBVIOUS
  <2>1. n + 1 \in 1 .. Len(ns) /\ (n + 1) - 1 = n /\ n <= Len(ns)
    BY <1>1
  <2>2. SumsOf(ns)[n] \in Nat /\ ns[n + 1] \in Nat /\ SumsOf(ns)[n + 1] = SumsOf(ns)[n] + ns[n + 1]
    BY <1>1, <1>3, <2>1
  <2> QED BY <2>2
<1>4. Len(ns) \in T
  <2> HIDE DEF T
  <2> QED BY <1>1, <1>2, <1>3, NatSetInduction
<1> QED BY <1>1, <1>4 DEF Total
===============================================================================
