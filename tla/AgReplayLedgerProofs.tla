------------------------ MODULE AgReplayLedgerProofs ------------------------
(***************************************************************************)
(* Proofs about the ledger of thought signatures: what overlapping         *)
(* requests may rely on, for any number of sessions and requests, chains   *)
(* of any length, a ledger of any size and any batch of evictions.         *)
(***************************************************************************)
EXTENDS AgReplayLedger, FiniteSetTheorems, SequenceTheorems, TLAPS

-----------------------------------------------------------------------------
(***************************************************************************)
(* Sequences of keys.  Eviction cuts keys off at the old end, a load or a  *)
(* write moves one to the young end; a key is in the order at most once,   *)
(* and the keys whose time is over are the oldest.                         *)
(***************************************************************************)
Distinct(keys) == \A i, j \in DOMAIN keys : keys[i] = keys[j] => i = j

\* The keys of gone are the oldest n.
OldestAre(n, gone, keys) ==
  /\ n \in 0..Len(keys)
  /\ gone = {keys[i] : i \in 1..n}

OldestGone(gone, keys) == \E n \in 0..Len(keys) : OldestAre(n, gone, keys)

\* A sequence of keys has its keys at the positions of its domain.
LEMMA KeysInSeq ==
  ASSUME NEW keys \in Seq(Keys)
  PROVE  /\ DOMAIN keys = 1..Len(keys)
         /\ KeysIn(keys) \subseteq Keys
         /\ \A k : k \in KeysIn(keys) <=> \E i \in 1..Len(keys) : keys[i] = k
BY DEF KeysIn

\* The keys whose time is over are in the order.
LEMMA GoneInOrder ==
  ASSUME NEW keys \in Seq(Keys), NEW gone, OldestGone(gone, keys)
  PROVE  gone \cap KeysIn(keys) = gone
<1>1. PICK n \in 0..Len(keys) : OldestAre(n, gone, keys)
  BY DEF OldestGone
<1>2. \A i \in 1..n : i \in 1..Len(keys)
  BY <1>1
<1>3. QED
  BY <1>1, <1>2, KeysInSeq DEF OldestAre

\* A key added at the young end.
LEMMA AppendKey ==
  ASSUME NEW keys \in Seq(Keys), Distinct(keys),
         NEW k \in Keys, k \notin KeysIn(keys),
         NEW gone, OldestGone(gone, keys)
  PROVE  /\ Append(keys, k) \in Seq(Keys)
         /\ Distinct(Append(keys, k))
         /\ KeysIn(Append(keys, k)) = KeysIn(keys) \cup {k}
         /\ Len(Append(keys, k)) = Len(keys) + 1
         /\ OldestGone(gone, Append(keys, k))
<1> DEFINE longer == Append(keys, k)
<1>1. /\ longer \in Seq(Keys)
      /\ Len(longer) = Len(keys) + 1
      /\ \A i \in 1..Len(keys) : longer[i] = keys[i]
      /\ longer[Len(keys) + 1] = k
  BY AppendProperties
<1> HIDE DEF longer
<1>2. DOMAIN longer = 1..(Len(keys) + 1) /\ DOMAIN keys = 1..Len(keys)
  BY <1>1, KeysInSeq
<1>3. \A i \in 1..Len(keys) : keys[i] # k
  BY KeysInSeq
<1>4. Distinct(longer)
  BY <1>1, <1>2, <1>3 DEF Distinct
<1>5. KeysIn(longer) = KeysIn(keys) \cup {k}
  <2>1. \A x : x \in KeysIn(longer) <=> \E i \in 1..(Len(keys) + 1) : longer[i] = x
    BY <1>1, KeysInSeq
  <2>2. \A x : x \in KeysIn(keys) <=> \E i \in 1..Len(keys) : keys[i] = x
    BY KeysInSeq
  <2>3. QED
    BY <1>1, <2>1, <2>2
<1>6. OldestGone(gone, longer)
  <2>1. PICK n \in Nat : OldestAre(n, gone, keys)
    BY DEF OldestGone
  <2>2. {longer[i] : i \in 1..n} = {keys[i] : i \in 1..n}
    BY <1>1, <2>1 DEF OldestAre
  <2>3. OldestAre(n, gone, longer)
    BY <1>1, <2>1, <2>2 DEF OldestAre
  <2>4. QED
    BY <2>3 DEF OldestGone, OldestAre
<1>7. QED
  BY <1>1, <1>4, <1>5, <1>6 DEF longer

\* The number of keys left when m of n are cut off.
LEMMA CutLength ==
  ASSUME NEW n \in Nat, NEW m \in 0..n
  PROVE  (IF m + 1 <= n THEN n - (m + 1) + 1 ELSE 0) = n - m
OBVIOUS

\* The keys from the young end on after the oldest m are cut off.
LEMMA CutOldest ==
  ASSUME NEW keys \in Seq(Keys), Distinct(keys), NEW m \in 0..Len(keys)
  PROVE  LET rest == SubSeq(keys, m + 1, Len(keys)) IN
         /\ rest \in Seq(Keys)
         /\ Distinct(rest)
         /\ Len(rest) = Len(keys) - m
         /\ \A i \in 1..Len(rest) : rest[i] = keys[m + i]
         /\ KeysIn(rest) = KeysIn(keys) \ {keys[i] : i \in 1..m}
<1> DEFINE rest == SubSeq(keys, m + 1, Len(keys))
<1>1. Len(keys) \in Nat /\ DOMAIN keys = 1..Len(keys)
  BY KeysInSeq
<1>2. /\ rest \in Seq(Keys)
      /\ Len(rest) = Len(keys) - m
      /\ \A i \in 1..Len(rest) : rest[i] = keys[m + i]
  <2>1. \A i \in (m + 1)..Len(keys) : keys[i] \in Keys
    BY <1>1
  <2>2. /\ rest \in Seq(Keys)
        /\ Len(rest) = IF m + 1 <= Len(keys) THEN Len(keys) - (m + 1) + 1 ELSE 0
        /\ \A i \in 1..(Len(keys) - (m + 1) + 1) : rest[i] = keys[(m + 1) + i - 1]
    BY <1>1, <2>1, SubSeqProperties, m + 1 \in Int, Len(keys) \in Int
  <2> HIDE DEF rest
  <2>3. Len(rest) = Len(keys) - m
    <3>1. Len(rest) = IF m + 1 <= Len(keys) THEN Len(keys) - (m + 1) + 1 ELSE 0
      BY <2>2
    <3>2. QED
      BY <1>1, <3>1, CutLength
  <2>4. ASSUME NEW i \in 1..Len(rest)
        PROVE  rest[i] = keys[m + i]
    <3>1. i \in 1..(Len(keys) - (m + 1) + 1) /\ (m + 1) + i - 1 = m + i
      BY <1>1, <2>3
    <3>2. QED
      BY <2>2, <3>1
  <2>5. QED
    BY <2>2, <2>3, <2>4
<1> HIDE DEF rest
<1>3. DOMAIN rest = 1..(Len(keys) - m)
  BY <1>2, KeysInSeq
<1>4. Distinct(rest)
  <2> SUFFICES ASSUME NEW i \in 1..(Len(keys) - m), NEW j \in 1..(Len(keys) - m),
                      rest[i] = rest[j]
               PROVE  i = j
    BY <1>3 DEF Distinct
  <2>1. keys[m + i] = keys[m + j]
    BY <1>2
  <2>2. m + i \in DOMAIN keys /\ m + j \in DOMAIN keys
    BY <1>1
  <2>3. m + i = m + j
    BY <2>1, <2>2 DEF Distinct
  <2>4. QED
    BY <2>3
<1>5. KeysIn(rest) = KeysIn(keys) \ {keys[i] : i \in 1..m}
  <2>1. ASSUME NEW x \in KeysIn(rest)
        PROVE  x \in KeysIn(keys) \ {keys[i] : i \in 1..m}
    <3>1. PICK i \in 1..(Len(keys) - m) : rest[i] = x
      BY <1>2, <2>1, KeysInSeq
    <3>2. m + i \in 1..Len(keys) /\ keys[m + i] = x
      BY <1>1, <1>2, <3>1
    <3>3. \A j \in 1..m : keys[j] # x
      BY <1>1, <3>2 DEF Distinct
    <3>4. QED
      BY <3>2, <3>3, KeysInSeq
  <2>2. ASSUME NEW x \in KeysIn(keys) \ {keys[i] : i \in 1..m}
        PROVE  x \in KeysIn(rest)
    <3>1. PICK i \in 1..Len(keys) : keys[i] = x
      BY <2>2, KeysInSeq
    <3>2. i \notin 1..m
      BY <2>2, <3>1
    <3>3. i - m \in 1..(Len(keys) - m) /\ i = m + (i - m)
      BY <1>1, <3>1, <3>2
    <3>4. rest[i - m] = x
      BY <1>2, <3>1, <3>3
    <3>5. QED
      BY <1>2, <3>3, <3>4, KeysInSeq
  <2>3. QED
    BY <2>1, <2>2
<1>6. QED
  BY <1>2, <1>4, <1>5 DEF rest

\* The keys of gone that are left are still the oldest.
LEMMA CutOldestGone ==
  ASSUME NEW keys \in Seq(Keys), Distinct(keys), NEW m \in 0..Len(keys),
         NEW gone, OldestGone(gone, keys)
  PROVE  LET rest == SubSeq(keys, m + 1, Len(keys)) IN
         OldestGone(gone \cap KeysIn(rest), rest)
<1> DEFINE rest == SubSeq(keys, m + 1, Len(keys))
           left == gone \cap KeysIn(rest)
<1>1. /\ rest \in Seq(Keys)
      /\ Len(rest) = Len(keys) - m
      /\ \A i \in 1..Len(rest) : rest[i] = keys[m + i]
  BY CutOldest
<1> HIDE DEF rest
<1>2. PICK n \in Nat : OldestAre(n, gone, keys)
  BY DEF OldestGone
<1>3. DOMAIN keys = 1..Len(keys) /\ Len(keys) \in Nat
  BY KeysInSeq
<1> DEFINE d == IF n >= m THEN n - m ELSE 0
<1>4. d \in 0..Len(rest)
  BY <1>1, <1>2, <1>3 DEF OldestAre
<1>5. ASSUME NEW x \in left
      PROVE  x \in {rest[i] : i \in 1..d}
  <2>1. PICK i \in 1..Len(rest) : rest[i] = x
    BY <1>1, <1>5, KeysInSeq
  <2>2. PICK j \in 1..n : keys[j] = x
    BY <1>2, <1>5 DEF OldestAre
  <2>3. j = m + i
    <3>1. keys[m + i] = keys[j]
      BY <1>1, <2>1, <2>2
    <3>2. m + i \in DOMAIN keys
      BY <1>1, <1>3
    <3>3. j \in DOMAIN keys
      BY <1>2, <1>3 DEF OldestAre
    <3>4. QED
      BY <3>1, <3>2, <3>3 DEF Distinct
  <2>4. i \in 1..d
    BY <2>3
  <2>5. QED
    BY <2>1, <2>4
<1>6. ASSUME NEW x \in {rest[i] : i \in 1..d}
      PROVE  x \in left
  <2>1. PICK i \in 1..d : rest[i] = x
    BY <1>6
  <2>2. i \in 1..Len(rest) /\ m + i \in 1..n
    BY <1>2, <1>4, <2>1
  <2>3. x = keys[m + i]
    BY <1>1, <2>1, <2>2
  <2>4. QED
    BY <1>1, <1>2, <2>1, <2>2, <2>3, KeysInSeq DEF OldestAre
<1>7. OldestAre(d, left, rest)
  BY <1>4, <1>5, <1>6 DEF OldestAre
<1>8. OldestGone(left, rest)
  BY <1>4, <1>7 DEF OldestGone
<1>9. QED
  BY <1>8 DEF rest

\* A key taken out of the order leaves the others, in their order.
LEMMA RemoveKey ==
  ASSUME NEW keys \in Seq(Keys), Distinct(keys), NEW k \in Keys,
         NEW gone, OldestGone(gone, keys)
  PROVE  LET others == RemoveFirst(keys, k) IN
         /\ others \in Seq(Keys)
         /\ Distinct(others)
         /\ KeysIn(others) = KeysIn(keys) \ {k}
         /\ Len(others) = IF k \in KeysIn(keys) THEN Len(keys) - 1 ELSE Len(keys)
         /\ OldestGone(gone \ {k}, others)
<1> DEFINE others == RemoveFirst(keys, k)
<1>1. Len(keys) \in Nat /\ DOMAIN keys = 1..Len(keys)
  BY KeysInSeq
<1>2. PICK n \in Nat : OldestAre(n, gone, keys)
  BY DEF OldestGone
<1>3. CASE k \notin KeysIn(keys)
  <2>1. others = keys
    BY <1>3, KeysInSeq DEF RemoveFirst
  <2>2. k \notin gone
    BY <1>1, <1>2, <1>3, KeysInSeq DEF OldestAre
  <2>3. gone \ {k} = gone
    BY <2>2
  <2>4. QED
    BY <1>3, <2>1, <2>3
<1>4. CASE k \in KeysIn(keys)
  <2>1. PICK p \in 1..Len(keys) : keys[p] = k
    BY <1>4, KeysInSeq
  <2>2. {i \in 1..Len(keys) : keys[i] = k} = {p}
    BY <1>1, <2>1 DEF Distinct
  <2>3. Min({p}) = p
    BY <2>1 DEF Min
  <2>4. others = SubSeq(keys, 1, p - 1) \o SubSeq(keys, p + 1, Len(keys))
    BY <2>1, <2>2, <2>3 DEF RemoveFirst, RemoveAt, SelectInSeq
  <2> DEFINE before == SubSeq(keys, 1, p - 1)
             after == SubSeq(keys, p + 1, Len(keys))
  <2>5. /\ before \in Seq(Keys)
        /\ Len(before) = p - 1
        /\ \A i \in 1..(p - 1) : before[i] = keys[i]
    <3>1. \A i \in 1..(p - 1) : keys[i] \in Keys
      BY <1>1, <2>1
    <3>2. /\ before \in Seq(Keys)
          /\ Len(before) = IF 1 <= p - 1 THEN (p - 1) - 1 + 1 ELSE 0
          /\ \A i \in 1..((p - 1) - 1 + 1) : before[i] = keys[1 + i - 1]
      BY <2>1, <3>1, SubSeqProperties, 1 \in Int, p - 1 \in Int
    <3>3. QED
      BY <2>1, <3>2
  <2>6. /\ after \in Seq(Keys)
        /\ Len(after) = Len(keys) - p
        /\ \A i \in 1..(Len(keys) - p) : after[i] = keys[p + i]
    BY <2>1, CutOldest, p \in 0..Len(keys)
  <2> HIDE DEF others, before, after
  <2>7. /\ others \in Seq(Keys)
        /\ Len(others) = Len(keys) - 1
        /\ \A i \in 1..(p - 1) : others[i] = keys[i]
        /\ \A i \in p..(Len(keys) - 1) : others[i] = keys[i + 1]
    <3>1. /\ others \in Seq(Keys)
          /\ Len(others) = Len(before) + Len(after)
          /\ \A i \in 1..(Len(before) + Len(after)) :
               others[i] = IF i <= Len(before) THEN before[i]
                           ELSE after[i - Len(before)]
      BY <2>4, <2>5, <2>6, ConcatProperties DEF before, after
    <3>2. \A i \in 1..(p - 1) : others[i] = keys[i]
      <4> TAKE i \in 1..(p - 1)
      <4>1. i \in 1..(Len(before) + Len(after)) /\ i <= Len(before)
        BY <1>1, <2>1, <2>5, <2>6
      <4>2. others[i] = before[i]
        BY <3>1, <4>1
      <4>3. QED
        BY <2>5, <4>2
    <3>3. \A i \in p..(Len(keys) - 1) : others[i] = keys[i + 1]
      <4> TAKE i \in p..(Len(keys) - 1)
      <4>1. /\ i \in 1..(Len(before) + Len(after))
            /\ ~(i <= Len(before))
            /\ i - Len(before) \in 1..(Len(keys) - p)
            /\ p + (i - Len(before)) = i + 1
        BY <1>1, <2>1, <2>5, <2>6
      <4>2. others[i] = after[i - Len(before)]
        BY <3>1, <4>1
      <4>3. after[i - Len(before)] = keys[p + (i - Len(before))]
        BY <2>6, <4>1
      <4>4. QED
        BY <4>1, <4>2, <4>3
    <3>4. QED
      BY <1>1, <2>1, <2>5, <2>6, <3>1, <3>2, <3>3
  <2>8. DOMAIN others = 1..(Len(keys) - 1)
    BY <2>7, KeysInSeq
  <2>9. Distinct(others)
    BY <1>1, <2>1, <2>7, <2>8 DEF Distinct
  <2>10. KeysIn(others) = KeysIn(keys) \ {k}
    <3>1. ASSUME NEW x \in KeysIn(others)
          PROVE  x \in KeysIn(keys) \ {k}
      <4>1. PICK i \in 1..(Len(keys) - 1) : others[i] = x
        BY <2>7, <3>1, KeysInSeq
      <4>2. \E j \in 1..Len(keys) : j # p /\ keys[j] = x
        <5>1. CASE i <= p - 1
          BY <1>1, <2>1, <2>7, <4>1, <5>1
        <5>2. CASE ~(i <= p - 1)
          BY <1>1, <2>1, <2>7, <4>1, <5>2, i + 1 \in 1..Len(keys)
        <5>3. QED
          BY <5>1, <5>2
      <4>3. x # k
        BY <1>1, <2>1, <4>2 DEF Distinct
      <4>4. QED
        BY <4>2, <4>3, KeysInSeq
    <3>2. ASSUME NEW x \in KeysIn(keys) \ {k}
          PROVE  x \in KeysIn(others)
      <4>1. PICK i \in 1..Len(keys) : keys[i] = x
        BY <3>2, KeysInSeq
      <4>2. i # p
        BY <2>1, <3>2, <4>1
      <4>3. \E j \in 1..(Len(keys) - 1) : others[j] = x
        <5>1. CASE i <= p - 1
          BY <1>1, <2>1, <2>7, <4>1, <5>1
        <5>2. CASE ~(i <= p - 1)
          <6>1. i - 1 \in p..(Len(keys) - 1) /\ (i - 1) + 1 = i
            BY <1>1, <2>1, <4>1, <4>2, <5>2
          <6>2. others[i - 1] = x /\ i - 1 \in 1..(Len(keys) - 1)
            BY <1>1, <2>1, <2>7, <4>1, <6>1
          <6>3. QED
            BY <6>2
        <5>3. QED
          BY <5>1, <5>2
      <4>4. QED
        BY <2>7, <4>3, KeysInSeq
    <3>3. QED
      BY <3>1, <3>2
  <2> DEFINE m == IF p <= n THEN n - 1 ELSE n
  <2>11. OldestAre(m, gone \ {k}, others)
    <3>1. m \in 0..Len(others) /\ n \in 0..Len(keys)
      BY <1>1, <1>2, <2>1, <2>7 DEF OldestAre
    <3>2. ASSUME NEW x \in gone \ {k}
          PROVE  x \in {others[i] : i \in 1..m}
      <4>1. PICK i \in 1..n : keys[i] = x
        BY <1>2, <3>2 DEF OldestAre
      <4>2. i # p
        BY <2>1, <3>2, <4>1
      <4>3. CASE i <= p - 1
        <5>1. others[i] = x /\ i \in 1..m
          BY <1>1, <2>1, <2>7, <3>1, <4>1, <4>3
        <5>2. QED
          BY <5>1
      <4>4. CASE ~(i <= p - 1)
        <5>1. i - 1 \in p..(Len(keys) - 1) /\ (i - 1) + 1 = i /\ i - 1 \in 1..m
          BY <1>1, <2>1, <3>1, <4>1, <4>2, <4>4
        <5>2. others[i - 1] = x
          BY <2>7, <4>1, <5>1
        <5>3. QED
          BY <5>1, <5>2
      <4>5. QED
        BY <4>3, <4>4
    <3>3. ASSUME NEW x \in {others[i] : i \in 1..m}
          PROVE  x \in gone \ {k}
      <4>1. PICK i \in 1..m : others[i] = x
        BY <3>3
      <4>2. \E j \in 1..n : j # p /\ keys[j] = x
        <5>1. CASE i <= p - 1
          BY <1>1, <2>1, <2>7, <3>1, <4>1, <5>1
        <5>2. CASE ~(i <= p - 1)
          <6>1. i \in p..(Len(keys) - 1) /\ i + 1 \in 1..n /\ i + 1 # p
            BY <1>1, <2>1, <2>7, <3>1, <4>1, <5>2
          <6>2. QED
            BY <2>7, <4>1, <6>1
        <5>3. QED
          BY <5>1, <5>2
      <4>3. PICK j \in 1..n : j # p /\ keys[j] = x
        BY <4>2
      <4>4. x # k
        BY <1>1, <2>1, <3>1, <4>3 DEF Distinct
      <4>5. QED
        BY <1>2, <4>3, <4>4 DEF OldestAre
    <3>4. QED
      BY <3>1, <3>2, <3>3 DEF OldestAre
  <2>12. OldestGone(gone \ {k}, others)
    BY <2>11 DEF OldestGone, OldestAre
  <2>13. QED
    BY <1>4, <2>7, <2>9, <2>10, <2>12 DEF others
<1>5. QED
  BY <1>3, <1>4
-----------------------------------------------------------------------------
(***************************************************************************)
(* What each operation does to the order, and the bound of the ledger.     *)
(***************************************************************************)
\* The keys are in the order once each, those whose time is over are the
\* oldest, and there are no more than the ledger has room for.
OrderOK(keys, gone) ==
  /\ keys \in Seq(Keys)
  /\ Distinct(keys)
  /\ OldestGone(gone, keys)
  /\ Len(keys) <= Capacity

\* What a write keeps: k is there, and the others that are were there before.
LEMMA PutKeeps ==
  ASSUME NEW keys \in Seq(Keys), NEW gone, OrderOK(keys, gone), NEW k \in Keys
  PROVE  LET young == Youngest(k, keys)
             kept == IF Len(young) > Capacity THEN evict_oldest(young) ELSE young
         IN /\ OrderOK(kept, (gone \ {k}) \cap KeysIn(kept))
            /\ k \in KeysIn(kept)
            /\ KeysIn(kept) \subseteq KeysIn(keys) \cup {k}
<1> DEFINE others == RemoveFirst(keys, k)
           young == Youngest(k, keys)
           kept == IF Len(young) > Capacity THEN evict_oldest(young) ELSE young
           left == gone \ {k}
<1> USE SizesAssumption
<1>1. /\ others \in Seq(Keys)
      /\ Distinct(others)
      /\ KeysIn(others) = KeysIn(keys) \ {k}
      /\ Len(others) = IF k \in KeysIn(keys) THEN Len(keys) - 1 ELSE Len(keys)
      /\ OldestGone(left, others)
  BY RemoveKey DEF OrderOK
<1>2. young = Append(others, k)
  BY DEF Youngest
<1> HIDE DEF others, young, left
<1>3. Len(keys) \in Nat /\ Len(others) \in Nat
  BY <1>1
<1>4. /\ young \in Seq(Keys)
      /\ Distinct(young)
      /\ KeysIn(young) = KeysIn(keys) \cup {k}
      /\ Len(young) = Len(others) + 1
      /\ OldestGone(left, young)
  BY <1>1, <1>2, AppendKey
<1>5. Len(young) <= Capacity + 1
  BY <1>1, <1>3, <1>4 DEF OrderOK
<1>6. young[Len(young)] = k
  BY <1>1, <1>2, <1>4, AppendProperties
<1>7. CASE Len(young) > Capacity
  <2>1. EvictBatch \in 0..Len(young) /\ EvictBatch < Len(young) /\ Len(young) \in Nat
    BY <1>3, <1>4, <1>7
  <2>2. kept = SubSeq(young, EvictBatch + 1, Len(young))
    BY <1>7 DEF evict_oldest
  <2> HIDE DEF kept
  <2>3. /\ kept \in Seq(Keys)
        /\ Distinct(kept)
        /\ Len(kept) = Len(young) - EvictBatch
        /\ \A i \in 1..Len(kept) : kept[i] = young[EvictBatch + i]
        /\ KeysIn(kept) = KeysIn(young) \ {young[i] : i \in 1..EvictBatch}
    BY <1>4, <2>1, <2>2, CutOldest
  <2>4. OldestGone(left \cap KeysIn(kept), kept)
    BY <1>4, <2>1, <2>2, CutOldestGone
  <2>5. Len(kept) <= Capacity
    BY <1>5, <2>1, <2>3
  <2>6. k \in KeysIn(kept)
    <3>1. /\ Len(kept) \in 1..Len(kept)
          /\ EvictBatch + Len(kept) = Len(young)
      BY <2>1, <2>3
    <3>2. kept[Len(kept)] = k
      BY <1>6, <2>3, <3>1
    <3>3. QED
      BY <2>3, <3>1, <3>2, KeysInSeq
  <2>7. QED
    BY <1>4, <2>3, <2>4, <2>5, <2>6 DEF OrderOK, kept, left, young
<1>8. CASE ~(Len(young) > Capacity)
  <2>1. kept = young
    BY <1>8
  <2>2. left \cap KeysIn(young) = left
    BY <1>4, GoneInOrder
  <2>3. Len(young) <= Capacity
    BY <1>3, <1>4, <1>8
  <2>4. QED
    BY <1>4, <2>1, <2>2, <2>3 DEF OrderOK, left, young
<1>9. QED
  BY <1>7, <1>8

\* What a miss keeps: k takes the place that was made for it.
LEMMA ReserveKeeps ==
  ASSUME NEW keys \in Seq(Keys), NEW gone, OrderOK(keys, gone), NEW k \in Keys
  PROVE  LET others == RemoveFirst(keys, k)
             room == IF Len(others) >= Capacity THEN evict_oldest(others) ELSE others
             kept == Append(room, k)
         IN /\ OrderOK(kept, (gone \ {k}) \cap KeysIn(kept))
            /\ k \in KeysIn(kept)
            /\ KeysIn(kept) \subseteq KeysIn(keys) \cup {k}
<1> DEFINE others == RemoveFirst(keys, k)
           room == IF Len(others) >= Capacity THEN evict_oldest(others) ELSE others
           kept == Append(room, k)
           left == gone \ {k}
<1> USE SizesAssumption
<1>1. /\ others \in Seq(Keys)
      /\ Distinct(others)
      /\ KeysIn(others) = KeysIn(keys) \ {k}
      /\ Len(others) = IF k \in KeysIn(keys) THEN Len(keys) - 1 ELSE Len(keys)
      /\ OldestGone(left, others)
  BY RemoveKey DEF OrderOK
<1> HIDE DEF others, left
<1>2. Len(keys) \in Nat /\ Len(others) \in Nat /\ Len(others) <= Capacity
  BY <1>1 DEF OrderOK
<1>3. /\ room \in Seq(Keys)
      /\ Distinct(room)
      /\ KeysIn(room) \subseteq KeysIn(keys) \ {k}
      /\ Len(room) < Capacity
      /\ OldestGone(left \cap KeysIn(room), room)
  <2>1. CASE Len(others) >= Capacity
    <3>1. EvictBatch \in 0..Len(others) /\ EvictBatch > 0
      BY <1>2, <2>1
    <3>2. room = SubSeq(others, EvictBatch + 1, Len(others))
      BY <2>1 DEF evict_oldest
    <3> HIDE DEF room
    <3>3. /\ room \in Seq(Keys)
          /\ Distinct(room)
          /\ Len(room) = Len(others) - EvictBatch
          /\ KeysIn(room) = KeysIn(others) \ {others[i] : i \in 1..EvictBatch}
      BY <1>1, <3>1, <3>2, CutOldest
    <3>4. OldestGone(left \cap KeysIn(room), room)
      BY <1>1, <3>1, <3>2, CutOldestGone
    <3>5. Len(room) < Capacity
      BY <1>2, <3>1, <3>3
    <3>6. QED
      BY <1>1, <3>3, <3>4, <3>5
  <2>2. CASE ~(Len(others) >= Capacity)
    <3>1. room = others
      BY <2>2
    <3>2. left \cap KeysIn(others) = left
      BY <1>1, GoneInOrder
    <3>3. Len(others) < Capacity
      BY <1>2, <2>2
    <3>4. QED
      BY <1>1, <3>1, <3>2, <3>3
  <2>3. QED
    BY <2>1, <2>2
<1> HIDE DEF room
<1>4. /\ kept \in Seq(Keys)
      /\ Distinct(kept)
      /\ KeysIn(kept) = KeysIn(room) \cup {k}
      /\ Len(kept) = Len(room) + 1
      /\ OldestGone(left \cap KeysIn(room), kept)
  BY <1>3, AppendKey
<1>5. Len(room) \in Nat
  BY <1>3
<1> HIDE DEF kept
<1>6. Len(kept) <= Capacity
  BY <1>3, <1>4, <1>5
<1>7. left \cap KeysIn(kept) = left \cap KeysIn(room)
  BY <1>4 DEF left
<1>8. QED
  BY <1>3, <1>4, <1>6, <1>7 DEF OrderOK, kept, room, others, left

\* What the task that cleans up keeps: the keys whose time is not over.
LEMMA PurgeKeeps ==
  ASSUME NEW keys \in Seq(Keys), NEW gone, OrderOK(keys, gone)
  PROVE  LET kept == SubSeq(keys, Cardinality(gone) + 1, Len(keys)) IN
         /\ OrderOK(kept, {})
         /\ KeysIn(kept) = KeysIn(keys) \ gone
<1> USE SizesAssumption
<1>1. PICK n \in 0..Len(keys) : OldestAre(n, gone, keys)
  BY DEF OrderOK, OldestGone
<1>2. DOMAIN keys = 1..Len(keys) /\ Len(keys) \in Nat
  BY KeysInSeq
<1>3. Cardinality(gone) = n
  <2> DEFINE f == [i \in 1..n |-> keys[i]]
  <2>1. gone = {keys[i] : i \in 1..n}
    BY <1>1 DEF OldestAre
  <2>2. f \in Bijection(1..n, gone)
    <3>1. \A i, j \in 1..n : keys[i] = keys[j] => i = j
      BY <1>1, <1>2 DEF OrderOK, Distinct
    <3>2. QED
      BY <2>1, <3>1 DEF Bijection, Injection, Surjection, IsInjective
  <2>3. IsFiniteSet(1..n) /\ Cardinality(1..n) = n
    BY <1>2, FS_Interval
  <2>4. QED
    BY <2>2, <2>3, FS_Bijection DEF ExistsBijection
<1> DEFINE kept == SubSeq(keys, n + 1, Len(keys))
<1>4. /\ kept \in Seq(Keys)
      /\ Distinct(kept)
      /\ Len(kept) = Len(keys) - n
      /\ KeysIn(kept) = KeysIn(keys) \ {keys[i] : i \in 1..n}
  BY CutOldest DEF OrderOK
<1>5. OldestGone({}, kept)
  <2> HIDE DEF kept
  <2>1. {} = {kept[i] : i \in 1..0} /\ 0 \in 0..Len(kept)
    BY <1>2, <1>4
  <2>2. QED
    BY <2>1 DEF OldestGone, OldestAre
<1> HIDE DEF kept
<1>6. Len(kept) <= Capacity
  BY <1>2, <1>4 DEF OrderOK
<1>7. QED
  BY <1>1, <1>3, <1>4, <1>5, <1>6 DEF OrderOK, OldestAre, kept

\* Keys that are there at most Capacity times in the order are at most Capacity.
LEMMA OrderBounds ==
  ASSUME NEW keys \in Seq(Keys), Len(keys) <= Capacity
  PROVE  Cardinality(KeysIn(keys)) <= Capacity
<1> DEFINE f == [i \in 1..Len(keys) |-> keys[i]]
<1>1. Len(keys) \in Nat /\ DOMAIN keys = 1..Len(keys)
  BY KeysInSeq
<1>2. IsFiniteSet(1..Len(keys)) /\ Cardinality(1..Len(keys)) = Len(keys)
  BY <1>1, FS_Interval
<1>3. f \in Surjection(1..Len(keys), KeysIn(keys))
  BY <1>1, KeysInSeq DEF Surjection, KeysIn
<1>4. IsFiniteSet(KeysIn(keys)) /\ Cardinality(KeysIn(keys)) <= Len(keys)
  BY <1>2, <1>3, FS_Surjection
<1>5. Cardinality(KeysIn(keys)) \in Nat
  BY <1>4, FS_CardinalityType
<1>6. QED
  BY <1>1, <1>4, <1>5, SizesAssumption
-----------------------------------------------------------------------------
(***************************************************************************)
(* Chains.                                                                 *)
(***************************************************************************)
\* A chain is a sequence of signatures, and the empty one is a chain.
LEMMA ChainIsSeq ==
  /\ << >> \in Chains
  /\ \A c \in Chains : c \in Seq(Items) /\ Len(c) \in Nat
<1>1. << >> \in [1..0 -> Items] /\ 0 \in 0..MaxLength
  BY SizesAssumption
<1>2. << >> \in Chains
  BY <1>1 DEF Chains
<1>3. \A n \in Nat : [1..n -> Items] \subseteq Seq(Items)
  BY SeqDef
<1>4. QED
  BY <1>2, <1>3, LenProperties, SizesAssumption DEF Chains

\* Chains are prefixes of themselves, and of what their continuations continue.
LEMMA PrefixOrder ==
  /\ \A c \in Chains : items_prefix(c, c)
  /\ \A c, d, e \in Chains :
       items_prefix(c, d) /\ items_prefix(d, e) => items_prefix(c, e)
<1>1. ASSUME NEW c \in Chains, NEW d \in Chains, NEW e \in Chains,
             items_prefix(c, d), items_prefix(d, e)
      PROVE  items_prefix(c, e)
  <2>1. Len(c) \in Nat /\ Len(d) \in Nat /\ Len(e) \in Nat
    BY ChainIsSeq
  <2>2. QED
    BY <1>1, <2>1 DEF items_prefix
<1>2. \A c \in Chains : items_prefix(c, c)
  BY ChainIsSeq DEF items_prefix
<1>3. QED
  BY <1>1, <1>2
-----------------------------------------------------------------------------
(***************************************************************************)
(* The inductive invariant.                                                *)
(***************************************************************************)
\* Entries bear revisions and branches that were given out.
EntriesDated ==
  \A k \in Keys :
    IF entries[k].present
    THEN entries[k].revision \in 1..next_revision /\ entries[k].branch \in 1..next_branch
    ELSE entries[k] = Absent

\* A request that holds a snapshot holds one that bears a revision and a branch
\* given out; an entry of the same revision is what it loaded, an entry of the
\* same branch continues it, a tombstone too, and no entry bears the revision
\* or the branch of a snapshot that a deletion overtook.
SnapshotSound(q, held, revisions, branches) ==
  LET entry == held[q.key]
      snapshot == q.snapshot IN
  /\ snapshot.present
  /\ snapshot.revision \in 1..revisions
  /\ snapshot.branch \in 1..branches
  /\ entry.present /\ entry.revision = snapshot.revision => entry = snapshot
  /\ entry.present /\ entry.branch = snapshot.branch
       => items_prefix(snapshot.items, entry.items)
  /\ entry.present /\ q.overtaken
       => entry.revision # snapshot.revision /\ entry.branch # snapshot.branch

SoundNow(q) == SnapshotSound(q, entries, next_revision, next_branch)
SoundNext(q) == SnapshotSound(q, entries', next_revision', next_branch')

RequestsSound ==
  \A r \in Requests :
    /\ request[r].pc = "loaded" => SoundNow(request[r])
    /\ request[r].pc = "idle" => ~request[r].overtaken

LedgerInv ==
  /\ TypeOK
  /\ OrderOK(order, expired)
  /\ EntriesDated
  /\ RequestsSound

RequestType == [pc : {"idle", "loaded"}, key : Keys,
                snapshot : EntryType, overtaken : BOOLEAN]

\* Where there is no entry none is present; one that is stored is, and an idle
\* request holds nothing.
LEMMA AbsentEntry == Absent \in EntryType /\ Absent.present = FALSE
BY ChainIsSeq DEF Absent, EntryType

LEMMA EntryPresent ==
  \A items, revision, branch : Entry(items, revision, branch).present
BY DEF Entry

LEMMA IdleHoldsNothing ==
  \A k : Idle(k).pc = "idle" /\ Idle(k).overtaken = FALSE
BY DEF Idle

\* The ledger starts empty, with requests that hold nothing.
LEMMA InitInv == Init => LedgerInv
<1> SUFFICES ASSUME Init PROVE LedgerInv
  OBVIOUS
<1> USE DEF Init
<1>1. Absent \in EntryType
  BY AbsentEntry
<1>2. order \in Seq(Keys) /\ KeysIn(order) = {} /\ Len(order) = 0
  BY DEF KeysIn
<1>3. OrderOK(order, expired)
  <2>1. Distinct(order)
    BY DEF Distinct
  <2>2. OldestGone(expired, order)
    <3>1. {} = {order[i] : i \in 1..0}
      OBVIOUS
    <3>2. QED
      BY <1>2, <3>1 DEF OldestGone, OldestAre
  <2>3. QED
    BY <1>2, <2>1, <2>2, SizesAssumption DEF OrderOK
<1>4. TypeOK
  <2>1. entries \in [Keys -> EntryType]
    BY <1>1
  <2>2. ASSUME NEW r \in Requests PROVE request[r] \in RequestType
    <3>1. PICK k \in Keys : request[r] = Idle(k)
      OBVIOUS
    <3>2. QED
      BY <1>1, <3>1 DEF Idle, RequestType
  <2>3. request \in [Requests -> RequestType]
    BY <2>2
  <2>4. \A k \in Keys : entries[k].present <=> k \in KeysIn(order)
    BY <1>2 DEF Absent
  <2>5. QED
    BY <1>2, <2>1, <2>3, <2>4 DEF TypeOK, RequestType
<1>5. EntriesDated
  BY DEF EntriesDated, Absent
<1>6. RequestsSound
  BY DEF RequestsSound, Idle
<1>7. QED
  BY <1>3, <1>4, <1>5, <1>6 DEF LedgerInv
-----------------------------------------------------------------------------
(***************************************************************************)
(* What a write and a miss do: they store one entry, under a new revision, *)
(* and leave every other as it is or drop it.                              *)
(***************************************************************************)
Stored(k, items, branch) ==
  /\ entries' \in [Keys -> EntryType]
  /\ entries'[k] = Entry(items, bump_revision, branch)
  /\ \A j \in Keys \ {k} : entries'[j] = entries[j] \/ entries'[j] = Absent
  /\ \A j \in Keys : entries'[j].present <=> j \in KeysIn(order')
  /\ OrderOK(order', expired')
  /\ next_revision' = bump_revision

LEMMA HoldStores ==
  ASSUME TypeOK, NEW k \in Keys, NEW items \in Chains, NEW branch \in Nat,
         NEW kept,
         OrderOK(kept, (expired \ {k}) \cap KeysIn(kept)),
         k \in KeysIn(kept),
         KeysIn(kept) \subseteq KeysIn(order) \cup {k},
         Hold(kept, k, Entry(items, bump_revision, branch))
  PROVE  Stored(k, items, branch)
<1> DEFINE entry == Entry(items, bump_revision, branch)
<1>1. entry \in EntryType /\ entry.present
  BY DEF Entry, EntryType, bump_revision, TypeOK
<1>2. Absent \in EntryType /\ ~Absent.present
  BY AbsentEntry
<1> HIDE DEF entry
<1>3. entries' = [j \in Keys |-> IF j \notin KeysIn(kept) THEN Absent
                                 ELSE IF j = k THEN entry ELSE entries[j]]
  BY DEF Hold, entry
<1>4. entries' \in [Keys -> EntryType]
  BY <1>1, <1>2, <1>3 DEF TypeOK
<1>5. \A j \in Keys : entries'[j].present <=> j \in KeysIn(kept)
  BY <1>1, <1>2, <1>3 DEF TypeOK
<1>6. /\ entries'[k] = entry
      /\ \A j \in Keys \ {k} : entries'[j] = entries[j] \/ entries'[j] = Absent
  BY <1>3
<1>7. QED
  BY <1>4, <1>5, <1>6 DEF Stored, Hold, entry

LEMMA PutStores ==
  ASSUME TypeOK, OrderOK(order, expired),
         NEW k \in Keys, NEW items \in Chains, NEW branch \in Nat,
         put(k, items, branch)
  PROVE  Stored(k, items, branch)
<1> DEFINE young == Youngest(k, order)
           kept == IF Len(young) > Capacity THEN evict_oldest(young) ELSE young
<1>1. /\ OrderOK(kept, (expired \ {k}) \cap KeysIn(kept))
      /\ k \in KeysIn(kept)
      /\ KeysIn(kept) \subseteq KeysIn(order) \cup {k}
  BY PutKeeps DEF OrderOK
<1>2. Hold(kept, k, Entry(items, bump_revision, branch))
  BY DEF put
<1> HIDE DEF kept
<1>3. QED
  BY <1>1, <1>2, HoldStores

LEMMA ReserveStores ==
  ASSUME TypeOK, OrderOK(order, expired), NEW k \in Keys,
         reserve_absent(k, RemoveFirst(order, k))
  PROVE  Stored(k, << >>, new_branch) /\ next_branch' = new_branch
<1> DEFINE others == RemoveFirst(order, k)
           room == IF Len(others) >= Capacity THEN evict_oldest(others) ELSE others
           kept == Append(room, k)
<1>1. /\ OrderOK(kept, (expired \ {k}) \cap KeysIn(kept))
      /\ k \in KeysIn(kept)
      /\ KeysIn(kept) \subseteq KeysIn(order) \cup {k}
  BY ReserveKeeps DEF OrderOK
<1>2. /\ Hold(kept, k, Entry(<< >>, bump_revision, new_branch))
      /\ next_branch' = new_branch
  BY DEF reserve_absent
<1> HIDE DEF kept
<1>3. << >> \in Chains /\ new_branch \in Nat
  BY ChainIsSeq DEF new_branch, TypeOK
<1>4. QED
  BY <1>1, <1>2, <1>3, HoldStores

\* What is stored begins a new branch, or continues what is there on its own.
Fresh(branch) == branch = new_branch /\ next_branch' = new_branch
Continues(k, items, branch) ==
  /\ entries[k].present
  /\ branch = entries[k].branch
  /\ items_prefix(entries[k].items, items)
  /\ next_branch' = next_branch

\* Either way the entries and the snapshots stay sound; those of the key that
\* the deletion overtakes too, since its tombstone begins a new branch.
LEMMA StoredIsDated ==
  ASSUME LedgerInv, NEW k \in Keys, NEW items \in Chains, NEW branch \in Nat,
         Stored(k, items, branch),
         Fresh(branch) \/ Continues(k, items, branch)
  PROVE  /\ EntriesDated'
         /\ next_branch' \in Nat
         /\ next_revision' \in Nat
<1>1. /\ next_revision \in Nat /\ next_branch \in Nat
      /\ next_revision' = next_revision + 1
  BY DEF LedgerInv, TypeOK, Stored, bump_revision
<1>2. /\ next_branch' \in Nat
      /\ next_branch <= next_branch'
      /\ branch \in 1..next_branch'
  BY <1>1 DEF LedgerInv, EntriesDated, Fresh, Continues, new_branch
<1>3. ASSUME NEW j \in Keys
      PROVE  IF entries'[j].present
             THEN entries'[j].revision \in 1..next_revision' /\ entries'[j].branch \in 1..next_branch'
             ELSE entries'[j] = Absent
  <2>1. CASE j = k
    BY <1>1, <1>2, <2>1 DEF Stored, Entry, bump_revision
  <2>2. CASE j # k /\ entries'[j] = entries[j]
    BY <1>1, <1>2, <2>2 DEF LedgerInv, EntriesDated
  <2>3. CASE j # k /\ entries'[j] = Absent
    BY <2>3 DEF Absent
  <2>4. QED
    BY <2>1, <2>2, <2>3 DEF Stored
<1>4. QED
  BY <1>1, <1>2, <1>3 DEF EntriesDated

LEMMA StoredIsSound ==
  ASSUME LedgerInv, NEW k \in Keys, NEW items \in Chains, NEW branch \in Nat,
         Stored(k, items, branch),
         Fresh(branch) \/ Continues(k, items, branch),
         NEW q \in RequestType, SoundNow(q)
  PROVE  /\ SoundNext(q)
         /\ Fresh(branch) /\ q.key = k
              => SoundNext([q EXCEPT !.overtaken = TRUE])
<1> DEFINE snapshot == q.snapshot
           passed == [q EXCEPT !.overtaken = TRUE]
<1>1. /\ next_revision \in Nat /\ next_branch \in Nat
      /\ next_revision' = next_revision + 1
      /\ next_branch' = next_branch \/ next_branch' = next_branch + 1
  BY DEF LedgerInv, TypeOK, Stored, bump_revision, Fresh, Continues, new_branch
<1>2. /\ snapshot \in EntryType /\ q.key \in Keys
      /\ passed.key = q.key /\ passed.snapshot = snapshot
  BY DEF RequestType
<1>3. /\ snapshot.present
      /\ snapshot.revision \in 1..next_revision'
      /\ snapshot.branch \in 1..next_branch'
  BY <1>1 DEF SoundNow, SoundNext, SnapshotSound
<1>4. CASE q.key # k
  <2>1. \/ entries'[q.key] = entries[q.key]
        \/ entries'[q.key] = Absent
    BY <1>2, <1>4 DEF Stored
  <2>2. SoundNext(q)
    BY <1>3, <2>1 DEF SoundNow, SoundNext, SnapshotSound, Absent
  <2>3. QED
    BY <1>4, <2>2
<1>5. CASE q.key = k
  <2>1. entries'[k] = Entry(items, next_revision + 1, branch)
    BY DEF Stored, bump_revision
  <2>2. /\ entries'[k].revision = next_revision + 1
        /\ entries'[k].branch = branch
        /\ entries'[k].items = items
    BY <2>1 DEF Entry
  <2>3. entries'[k].revision # snapshot.revision
    BY <1>1, <2>2 DEF SoundNow, SoundNext, SnapshotSound
  <2>4. CASE Fresh(branch)
    <3>1. entries'[k].branch # snapshot.branch
      BY <1>1, <2>2, <2>4 DEF SoundNow, SoundNext, SnapshotSound, Fresh, new_branch
    <3>2. SoundNext(q) /\ SoundNext(passed)
      BY <1>2, <1>3, <1>5, <2>3, <3>1 DEF SoundNow, SoundNext, SnapshotSound
    <3>3. QED
      BY <3>2
  <2>5. CASE Continues(k, items, branch)
    <3>1. ~Fresh(branch)
      BY <1>1, <2>5 DEF Fresh, Continues, new_branch
    <3>2. branch = entries[k].branch /\ entries[k].present
      BY <2>5 DEF Continues
    <3>3. ASSUME branch = snapshot.branch
          PROVE  items_prefix(snapshot.items, items)
      <4>1. items_prefix(snapshot.items, entries[k].items)
        BY <1>5, <3>2, <3>3 DEF SoundNow, SoundNext, SnapshotSound
      <4>2. snapshot.items \in Chains /\ entries[k].items \in Chains
        BY <1>2 DEF LedgerInv, TypeOK, EntryType
      <4>3. QED
        BY <2>5, <4>1, <4>2, PrefixOrder DEF Continues
    <3>4. q.overtaken => branch # snapshot.branch
      BY <1>5, <3>2 DEF SoundNow, SoundNext, SnapshotSound
    <3>5. SoundNext(q)
      BY <1>3, <1>5, <2>2, <2>3, <3>3, <3>4 DEF SoundNow, SoundNext, SnapshotSound
    <3>6. QED
      BY <3>1, <3>5
  <2>6. QED
    BY <2>4, <2>5
<1>6. QED
  BY <1>4, <1>5

\* A step that stores an entry and lets every request keep its record, lose its
\* snapshot, or be overtaken by the deletion, keeps the invariant.
LEMMA StoredKeepsInv ==
  ASSUME LedgerInv, NEW k \in Keys, NEW items \in Chains, NEW branch \in Nat,
         Stored(k, items, branch),
         Fresh(branch) \/ Continues(k, items, branch),
         request' \in [Requests -> RequestType],
         \A r \in Requests :
           \/ request'[r] = request[r]
           \/ request'[r] = Idle(request[r].key)
           \/ /\ Fresh(branch) /\ request[r].key = k /\ request[r].pc = "loaded"
              /\ request'[r] = [request[r] EXCEPT !.overtaken = TRUE]
           \/ /\ request'[r] = [request[r] EXCEPT !.pc = "loaded",
                                                  !.snapshot = entries'[k]]
              /\ request[r].key = k /\ request[r].pc = "idle"
  PROVE  LedgerInv'
<1>1. EntriesDated' /\ next_branch' \in Nat /\ next_revision' \in Nat
  BY StoredIsDated
<1>2. OrderOK(order, expired)'
  BY DEF Stored
<1>3. TypeOK'
  <2>1. expired' \subseteq KeysIn(order')
    BY <1>2, GoneInOrder DEF OrderOK
  <2>2. QED
    BY <1>1, <1>2, <2>1 DEF TypeOK, Stored, OrderOK, RequestType
<1>4. RequestsSound'
  <2> SUFFICES ASSUME NEW r \in Requests
               PROVE  /\ request'[r].pc = "loaded"  => SoundNext(request'[r])
                      /\ request'[r].pc = "idle" => ~request'[r].overtaken
    BY DEF RequestsSound, SoundNow, SoundNext
  <2>1. /\ request[r] \in RequestType
        /\ request[r].pc = "loaded"  => SoundNow(request[r])
        /\ request[r].pc = "idle" => ~request[r].overtaken
    BY DEF LedgerInv, TypeOK, RequestsSound, RequestType
  <2>2. CASE request'[r] = request[r]
    BY <2>1, <2>2, StoredIsSound
  <2>3. CASE request'[r] = Idle(request[r].key)
    BY <2>3, IdleHoldsNothing
  <2>4. CASE /\ Fresh(branch) /\ request[r].key = k /\ request[r].pc = "loaded"
             /\ request'[r] = [request[r] EXCEPT !.overtaken = TRUE]
    <3>1. SoundNext([request[r] EXCEPT !.overtaken = TRUE])
      BY <2>1, <2>4, StoredIsSound
    <3>2. request'[r].pc = "loaded"
      BY <2>1, <2>4 DEF RequestType
    <3>3. QED
      BY <2>4, <3>1, <3>2
  <2>5. CASE /\ request'[r] = [request[r] EXCEPT !.pc = "loaded",
                                                 !.snapshot = entries'[k]]
             /\ request[r].key = k /\ request[r].pc = "idle"
    <3>1. /\ request'[r].pc = "loaded" /\ ~request'[r].overtaken
          /\ request'[r].key = k /\ request'[r].snapshot = entries'[k]
      BY <2>1, <2>5 DEF RequestType
    <3>2. /\ entries'[k].present
          /\ entries'[k].revision \in 1..next_revision'
          /\ entries'[k].branch \in 1..next_branch'
      <4>1. entries'[k].present
        <5>1. entries'[k] = Entry(items, bump_revision, branch)
          BY DEF Stored
        <5>2. Entry(items, bump_revision, branch).present
          BY EntryPresent
        <5>3. QED
          BY <5>1, <5>2
      <4>2. QED
        BY <1>1, <4>1 DEF EntriesDated
    <3>3. items_prefix(entries'[k].items, entries'[k].items)
      BY PrefixOrder DEF Stored, EntryType
    <3>4. QED
      BY <3>1, <3>2, <3>3 DEF SoundNow, SoundNext, SnapshotSound
  <2>6. QED
    BY <2>2, <2>3, <2>4, <2>5
<1>5. QED
  BY <1>1, <1>2, <1>3, <1>4 DEF LedgerInv

\* A step that leaves the ledger as it is, or only drops and reorders entries,
\* and gives no request a snapshot that is not there, keeps the invariant.
LEMMA QuietKeepsInv ==
  ASSUME LedgerInv,
         OrderOK(order', expired'),
         entries' \in [Keys -> EntryType],
         \A k \in Keys : entries'[k] = entries[k] \/ entries'[k] = Absent,
         \A k \in Keys : entries'[k].present <=> k \in KeysIn(order'),
         next_revision' = next_revision, next_branch' = next_branch,
         request' \in [Requests -> RequestType],
         \A r \in Requests :
           \/ request'[r] = request[r]
           \/ request'[r] = Idle(request[r].key)
           \/ LET k == request[r].key IN
              /\ request[r].pc = "idle" /\ entries'[k].present
              /\ request'[r] = [request[r] EXCEPT !.pc = "loaded",
                                                  !.snapshot = entries'[k]]
  PROVE  LedgerInv'
<1>1. EntriesDated'
  <2> SUFFICES ASSUME NEW k \in Keys
               PROVE  IF entries'[k].present
                      THEN entries'[k].revision \in 1..next_revision
                             /\ entries'[k].branch \in 1..next_branch
                      ELSE entries'[k] = Absent
    BY DEF EntriesDated
  <2>1. CASE entries'[k] = entries[k]
    BY <2>1 DEF LedgerInv, EntriesDated
  <2>2. CASE entries'[k] = Absent
    BY <2>2, AbsentEntry
  <2>3. QED
    BY <2>1, <2>2
<1>2. TypeOK'
  <2>1. expired' \subseteq KeysIn(order')
    BY GoneInOrder DEF OrderOK
  <2>2. QED
    BY <2>1 DEF TypeOK, OrderOK, RequestType, LedgerInv
<1>3. RequestsSound'
  <2> SUFFICES ASSUME NEW r \in Requests
               PROVE  /\ request'[r].pc = "loaded" => SoundNext(request'[r])
                      /\ request'[r].pc = "idle" => ~request'[r].overtaken
    BY DEF RequestsSound, SoundNow, SoundNext
  <2>1. /\ request[r] \in RequestType
        /\ request[r].pc = "loaded" => SoundNow(request[r])
        /\ request[r].pc = "idle" => ~request[r].overtaken
    BY DEF LedgerInv, TypeOK, RequestsSound, RequestType
  <2> DEFINE k == request[r].key
  <2>2. k \in Keys
    BY <2>1 DEF RequestType
  <2>3. CASE request'[r] = request[r]
    <3>1. SoundNow(request[r]) => SoundNext(request[r])
      <4>1. CASE entries'[k] = entries[k]
        BY <4>1 DEF SoundNow, SoundNext, SnapshotSound
      <4>2. CASE entries'[k] = Absent
        BY <4>2, AbsentEntry DEF SoundNow, SoundNext, SnapshotSound
      <4>3. QED
        BY <2>2, <4>1, <4>2
    <3>2. QED
      BY <2>1, <2>3, <3>1
  <2>4. CASE request'[r] = Idle(k)
    BY <2>4, IdleHoldsNothing
  <2>5. CASE /\ request[r].pc = "idle" /\ entries'[k].present
             /\ request'[r] = [request[r] EXCEPT !.pc = "loaded",
                                                 !.snapshot = entries'[k]]
    <3>1. /\ request'[r].pc = "loaded" /\ ~request'[r].overtaken
          /\ request'[r].key = k /\ request'[r].snapshot = entries'[k]
      BY <2>1, <2>5 DEF RequestType
    <3>2. /\ entries'[k].present
          /\ entries'[k].revision \in 1..next_revision'
          /\ entries'[k].branch \in 1..next_branch'
      BY <1>1, <2>2, <2>5 DEF EntriesDated
    <3>3. items_prefix(entries'[k].items, entries'[k].items)
      BY <2>2, PrefixOrder DEF EntryType
    <3>4. QED
      BY <3>1, <3>2, <3>3 DEF SoundNow, SoundNext, SnapshotSound
  <2>6. QED
    BY <2>3, <2>4, <2>5
<1>4. QED
  BY <1>1, <1>2, <1>3 DEF LedgerInv
-----------------------------------------------------------------------------
(***************************************************************************)
(* Every action keeps the invariant.                                       *)
(***************************************************************************)
\* Types of the pieces the actions put together.
LEMMA TypesOfRequest ==
  ASSUME TypeOK, NEW r \in Requests
  PROVE  /\ request \in [Requests -> RequestType]
         /\ request[r] \in RequestType
         /\ request[r].key \in Keys
         /\ request[r].snapshot \in EntryType
         /\ Idle(request[r].key) \in RequestType
<1>1. Absent \in EntryType
  BY AbsentEntry
<1>2. QED
  BY <1>1 DEF TypeOK, RequestType, Idle

LEMMA LoadKeepsInv ==
  ASSUME LedgerInv, NEW r \in Requests, load(r)
  PROVE  LedgerInv'
<1> DEFINE k == request[r].key
           others == RemoveFirst(order, k)
<1>1. TypeOK /\ OrderOK(order, expired) /\ order \in Seq(Keys)
  BY DEF LedgerInv, OrderOK
<1>2. /\ request \in [Requests -> RequestType]
      /\ request[r] \in RequestType
      /\ k \in Keys
      /\ request[r].pc = "idle"
      /\ request' = [request EXCEPT ![r].pc = "loaded", ![r].snapshot = entries'[k]]
  BY <1>1, TypesOfRequest DEF load
<1>3. ASSUME entries' \in [Keys -> EntryType]
      PROVE  /\ request' \in [Requests -> RequestType]
             /\ request'[r] = [request[r] EXCEPT !.pc = "loaded",
                                                 !.snapshot = entries'[k]]
             /\ \A q \in Requests \ {r} : request'[q] = request[q]
  <2>1. [request[r] EXCEPT !.pc = "loaded", !.snapshot = entries'[k]] \in RequestType
    BY <1>2, <1>3 DEF RequestType
  <2>2. QED
    BY <1>2, <2>1
<1>4. CASE entries[k].present /\ k \notin expired
  <2>1. /\ order' = Append(others, k)
        /\ UNCHANGED <<entries, expired, next_revision, next_branch>>
    BY <1>4 DEF load
  <2>2. /\ others \in Seq(Keys)
        /\ Distinct(others)
        /\ KeysIn(others) = KeysIn(order) \ {k}
        /\ Len(others) = IF k \in KeysIn(order) THEN Len(order) - 1 ELSE Len(order)
        /\ OldestGone(expired \ {k}, others)
    BY <1>1, <1>2, RemoveKey DEF OrderOK
  <2> HIDE DEF others
  <2>3. expired \ {k} = expired
    BY <1>4
  <2>4. k \in KeysIn(order)
    BY <1>1, <1>2, <1>4 DEF TypeOK
  <2>5. /\ order' \in Seq(Keys)
        /\ Distinct(order')
        /\ KeysIn(order') = KeysIn(order)
        /\ Len(order') = Len(others) + 1
        /\ OldestGone(expired, order')
    <3>1. k \notin KeysIn(others) /\ OldestGone(expired, others)
      BY <2>2, <2>3
    <3>2. KeysIn(others) \cup {k} = KeysIn(order)
      BY <2>2, <2>4
    <3>3. QED
      BY <1>2, <2>1, <2>2, <3>1, <3>2, AppendKey
  <2>6. Len(order') = Len(order) /\ Len(order) <= Capacity
    BY <1>1, <2>2, <2>4, <2>5 DEF OrderOK
  <2>7. OrderOK(order', expired')
    BY <2>1, <2>5, <2>6 DEF OrderOK
  <2>8. entries' \in [Keys -> EntryType]
    BY <1>1, <2>1 DEF TypeOK
  <2>9. \A j \in Keys : entries'[j].present <=> j \in KeysIn(order')
    BY <1>1, <2>1, <2>5 DEF TypeOK
  <2>10. QED
    BY <1>2, <1>3, <1>4, <2>1, <2>7, <2>8, <2>9, QuietKeepsInv
<1>5. CASE ~(entries[k].present /\ k \notin expired)
  <2>1. reserve_absent(k, others)
    BY <1>5 DEF load
  <2>2. Stored(k, << >>, new_branch) /\ Fresh(new_branch)
    BY <1>1, <1>2, <2>1, ReserveStores DEF Fresh
  <2>3. << >> \in Chains /\ new_branch \in Nat
    BY <1>1, ChainIsSeq DEF new_branch, TypeOK
  <2>4. entries' \in [Keys -> EntryType]
    BY <2>2 DEF Stored
  <2>5. QED
    BY <1>2, <1>3, <2>2, <2>3, <2>4, StoredKeepsInv
<1>6. QED
  BY <1>4, <1>5

\* A deletion stores a tombstone on a branch of its own, and overtakes.
LEMMA TombstoneStores ==
  ASSUME LedgerInv, NEW k \in Keys, put_tombstone(k)
  PROVE  /\ Stored(k, << >>, new_branch)
         /\ Fresh(new_branch)
         /\ << >> \in Chains
         /\ new_branch \in Nat
         /\ Overtake(k) \in [Requests -> RequestType]
         /\ \A r \in Requests :
              \/ Overtake(k)[r] = request[r]
              \/ /\ request[r].key = k /\ request[r].pc = "loaded"
                 /\ Overtake(k)[r] = [request[r] EXCEPT !.overtaken = TRUE]
<1>1. TypeOK /\ OrderOK(order, expired) /\ << >> \in Chains /\ new_branch \in Nat
  BY ChainIsSeq DEF LedgerInv, TypeOK, new_branch
<1>2. put(k, << >>, new_branch) /\ next_branch' = new_branch
  BY DEF put_tombstone
<1>3. Stored(k, << >>, new_branch) /\ Fresh(new_branch)
  BY <1>1, <1>2, PutStores DEF Fresh
<1>4. ASSUME NEW r \in Requests
      PROVE  /\ Overtake(k)[r] \in RequestType
             /\ \/ Overtake(k)[r] = request[r]
                \/ /\ request[r].key = k /\ request[r].pc = "loaded"
                   /\ Overtake(k)[r] = [request[r] EXCEPT !.overtaken = TRUE]
  <2>1. request[r] \in RequestType
    BY <1>1, TypesOfRequest
  <2>2. [request[r] EXCEPT !.overtaken = TRUE] \in RequestType
    BY <2>1 DEF RequestType
  <2>3. QED
    BY <2>1, <2>2 DEF Overtake
<1>5. Overtake(k) \in [Requests -> RequestType]
  BY <1>4 DEF Overtake
<1>6. QED
  BY <1>1, <1>3, <1>4, <1>5

LEMMA RollBackKeepsInv ==
  ASSUME LedgerInv, NEW r \in Requests, RollBack(r)
  PROVE  LedgerInv'
<1> DEFINE k == request[r].key
<1>1. k \in Keys
  BY TypesOfRequest DEF LedgerInv
<1>2. put_tombstone(k) /\ request' = Overtake(k)
  BY DEF RollBack
<1> HIDE DEF k
<1>3. /\ Stored(k, << >>, new_branch)
      /\ Fresh(new_branch)
      /\ << >> \in Chains
      /\ new_branch \in Nat
      /\ request' \in [Requests -> RequestType]
      /\ \A q \in Requests :
           \/ request'[q] = request[q]
           \/ /\ request[q].key = k /\ request[q].pc = "loaded"
              /\ request'[q] = [request[q] EXCEPT !.overtaken = TRUE]
  BY <1>1, <1>2, TombstoneStores
<1>4. QED
  BY <1>1, <1>3, StoredKeepsInv

\* A request that ends leaves the others what they are.
LEMMA EndTypes ==
  ASSUME NEW held \in [Requests -> RequestType], NEW r \in Requests,
         NEW k \in Keys, Idle(k) \in RequestType
  PROVE  /\ [held EXCEPT ![r] = Idle(k)] \in [Requests -> RequestType]
         /\ [held EXCEPT ![r] = Idle(k)][r] = Idle(k)
         /\ \A q \in Requests \ {r} : [held EXCEPT ![r] = Idle(k)][q] = held[q]
OBVIOUS

\* A step in which a request ends and the ledger stays as it is.
LEMMA EndKeepsInv ==
  ASSUME LedgerInv, NEW r \in Requests,
         request' = [request EXCEPT ![r] = Idle(request[r].key)],
         UNCHANGED <<entries, order, expired, next_revision, next_branch>>
  PROVE  LedgerInv'
<1> DEFINE k == request[r].key
<1>1. TypeOK /\ OrderOK(order', expired')
  BY DEF LedgerInv
<1>2. /\ request \in [Requests -> RequestType]
      /\ k \in Keys /\ Idle(k) \in RequestType
  BY <1>1, TypesOfRequest
<1>3. /\ request' \in [Requests -> RequestType]
      /\ request'[r] = Idle(k)
      /\ \A q \in Requests \ {r} : request'[q] = request[q]
  BY <1>2, EndTypes
<1>4. /\ entries' \in [Keys -> EntryType]
      /\ \A j \in Keys : entries'[j].present <=> j \in KeysIn(order')
  BY <1>1 DEF TypeOK
<1>5. QED
  BY <1>1, <1>3, <1>4, QuietKeepsInv

LEMMA InvalidateKeepsInv ==
  ASSUME LedgerInv, NEW r \in Requests, invalidate_if_unchanged(r)
  PROVE  LedgerInv'
<1> DEFINE k == request[r].key
<1>1. k \in Keys /\ Idle(k) \in RequestType
  BY TypesOfRequest DEF LedgerInv
<1>2. CASE matches_snapshot(k, request[r].snapshot)
  <2>1. put_tombstone(k) /\ request' = [Overtake(k) EXCEPT ![r] = Idle(k)]
    BY <1>2 DEF invalidate_if_unchanged
  <2>2. /\ Stored(k, << >>, new_branch)
        /\ Fresh(new_branch)
        /\ << >> \in Chains
        /\ new_branch \in Nat
        /\ Overtake(k) \in [Requests -> RequestType]
        /\ \A q \in Requests :
             \/ Overtake(k)[q] = request[q]
             \/ /\ request[q].key = k /\ request[q].pc = "loaded"
                /\ Overtake(k)[q] = [request[q] EXCEPT !.overtaken = TRUE]
    BY <1>1, <2>1, TombstoneStores
  <2>3. /\ request' \in [Requests -> RequestType]
        /\ request'[r] = Idle(k)
        /\ \A q \in Requests \ {r} : request'[q] = Overtake(k)[q]
    BY <1>1, <2>1, <2>2, EndTypes
  <2>4. \A q \in Requests :
           \/ request'[q] = request[q]
           \/ request'[q] = Idle(request[q].key)
           \/ /\ Fresh(new_branch) /\ request[q].key = k /\ request[q].pc = "loaded"
              /\ request'[q] = [request[q] EXCEPT !.overtaken = TRUE]
    BY <2>2, <2>3
  <2> HIDE DEF k
  <2>5. QED
    BY <1>1, <2>2, <2>3, <2>4, StoredKeepsInv
<1>3. CASE ~matches_snapshot(k, request[r].snapshot)
  BY <1>3, EndKeepsInv DEF invalidate_if_unchanged
<1>4. QED
  BY <1>2, <1>3

\* What a request finds unchanged is what it loaded, and a chain that continues
\* it, or the one that is there, continues the entry on its branch.
LEMMA CommitContinues ==
  ASSUME LedgerInv, NEW r \in Requests, request[r].pc = "loaded",
         NEW chain \in Chains,
         LET k == request[r].key
             snapshot == request[r].snapshot
             matches == matches_snapshot(k, snapshot) IN
         \/ matches /\ items_prefix(snapshot.items, chain)
         \/ ~matches /\ is_descendant(k, snapshot, chain),
         UNCHANGED next_branch
  PROVE  Continues(request[r].key, chain, request[r].snapshot.branch)
<1> DEFINE k == request[r].key
           snapshot == request[r].snapshot
<1>1. k \in Keys
  BY TypesOfRequest DEF LedgerInv
<1>2. CASE matches_snapshot(k, snapshot) /\ items_prefix(snapshot.items, chain)
  <2>1. entries[k].present /\ entries[k] = snapshot
    BY <1>2 DEF LedgerInv, RequestsSound, SoundNow, SnapshotSound, matches_snapshot
  <2>2. QED
    BY <1>2, <2>1 DEF Continues
<1>3. CASE is_descendant(k, snapshot, chain)
  <2>1. entries[k].present
    <3>1. entries[k] # Absent
      BY <1>3 DEF is_descendant, Live, Absent
    <3>2. QED
      BY <1>1, <3>1 DEF LedgerInv, EntriesDated
  <2>2. QED
    BY <1>3, <2>1 DEF Continues, is_descendant
<1>4. QED
  BY <1>2, <1>3

LEMMA ReplaceKeepsInv ==
  ASSUME LedgerInv, NEW r \in Requests, NEW chain \in Chains,
         replace_if_unchanged(r, chain)
  PROVE  LedgerInv'
<1> DEFINE k == request[r].key
           snapshot == request[r].snapshot
           matches == matches_snapshot(k, snapshot)
<1>1. TypeOK /\ OrderOK(order, expired)
  BY DEF LedgerInv
<1>2. /\ request \in [Requests -> RequestType]
      /\ k \in Keys /\ Idle(k) \in RequestType /\ snapshot \in EntryType
  BY <1>1, TypesOfRequest
<1>3. /\ request[r].pc = "loaded"
      /\ request' = [request EXCEPT ![r] = Idle(k)]
  BY DEF replace_if_unchanged
<1>4. /\ request' \in [Requests -> RequestType]
      /\ request'[r] = Idle(k)
      /\ \A q \in Requests \ {r} : request'[q] = request[q]
  BY <1>2, <1>3, EndTypes
<1>5. CASE /\ put(k, chain, new_branch)
           /\ next_branch' = new_branch
  <2>1. new_branch \in Nat
    BY <1>1 DEF new_branch, TypeOK
  <2>2. Stored(k, chain, new_branch) /\ Fresh(new_branch)
    BY <1>1, <1>2, <1>5, <2>1, PutStores DEF Fresh
  <2>3. QED
    BY <1>2, <1>4, <2>1, <2>2, StoredKeepsInv
<1>6. CASE /\ \/ matches /\ items_prefix(snapshot.items, chain)
              \/ ~matches /\ is_descendant(k, snapshot, chain)
           /\ put(k, chain, snapshot.branch)
           /\ UNCHANGED next_branch
  <2>1. snapshot.branch \in Nat
    BY <1>2 DEF EntryType
  <2>2. Continues(k, chain, snapshot.branch)
    BY <1>3, <1>6, CommitContinues
  <2>3. Stored(k, chain, snapshot.branch)
    BY <1>1, <1>2, <1>6, <2>1, PutStores
  <2>4. QED
    BY <1>2, <1>4, <2>1, <2>2, <2>3, StoredKeepsInv
<1>7. CASE UNCHANGED <<entries, order, expired, next_revision, next_branch>>
  BY <1>3, <1>7, EndKeepsInv
<1>8. QED
  BY <1>5, <1>6, <1>7 DEF replace_if_unchanged

LEMMA AbandonKeepsInv ==
  ASSUME LedgerInv, NEW r \in Requests, Abandon(r)
  PROVE  LedgerInv'
BY EndKeepsInv DEF Abandon

\* The next key whose time is over is the one after those that are.
LEMMA ExpireKeepsInv ==
  ASSUME LedgerInv, Expire
  PROVE  LedgerInv'
<1>1. TypeOK /\ OrderOK(order, expired) /\ order \in Seq(Keys)
  BY DEF LedgerInv, OrderOK
<1>2. PICK i \in DOMAIN order : /\ order[i] \notin expired
                                /\ \A j \in 1..(i - 1) : order[j] \in expired
                                /\ expired' = expired \cup {order[i]}
  BY DEF Expire
<1>3. PICK n \in 0..Len(order) : OldestAre(n, expired, order)
  BY <1>1 DEF OrderOK, OldestGone
<1>4. DOMAIN order = 1..Len(order) /\ Len(order) \in Nat
  BY <1>1, KeysInSeq
<1>5. i = n + 1
  <2>1. i > n
    BY <1>2, <1>3, <1>4 DEF OldestAre
  <2>2. ~(i > n + 1)
    <3> SUFFICES ASSUME i > n + 1 PROVE FALSE
      OBVIOUS
    <3>1. n + 1 \in 1..(i - 1) /\ n + 1 \in DOMAIN order
      BY <1>2, <1>3, <1>4
    <3>2. PICK j \in 1..n : order[j] = order[n + 1]
      BY <1>2, <1>3, <3>1 DEF OldestAre
    <3>3. j \in DOMAIN order
      BY <1>3, <1>4
    <3>4. j = n + 1
      BY <1>1, <3>1, <3>2, <3>3 DEF OrderOK, Distinct
    <3>5. QED
      BY <1>3, <3>4
  <2>3. QED
    BY <1>3, <1>4, <2>1, <2>2
<1>6. OldestGone(expired', order)
  <2>1. expired' = {order[j] : j \in 1..i}
    BY <1>2, <1>3, <1>5 DEF OldestAre
  <2>2. QED
    BY <1>4, <2>1 DEF OldestGone, OldestAre
<1>7. UNCHANGED <<entries, order, next_revision, next_branch, request>>
  BY DEF Expire
<1>8. OrderOK(order', expired')
  BY <1>1, <1>6, <1>7 DEF OrderOK
<1>9. request \in [Requests -> RequestType]
  BY <1>1 DEF TypeOK, RequestType
<1>10. QED
  BY <1>1, <1>7, <1>8, <1>9, QuietKeepsInv DEF TypeOK

LEMMA PurgeKeepsInv ==
  ASSUME LedgerInv, purge_expired
  PROVE  LedgerInv'
<1>1. TypeOK /\ OrderOK(order, expired) /\ order \in Seq(Keys)
  BY DEF LedgerInv, OrderOK
<1>2. OrderOK(order', {}) /\ KeysIn(order') = KeysIn(order) \ expired
  BY <1>1, PurgeKeeps DEF purge_expired
<1>3. /\ entries' = [k \in Keys |-> IF k \in expired THEN Absent ELSE entries[k]]
      /\ expired' = {}
      /\ UNCHANGED <<next_revision, next_branch, request>>
  BY DEF purge_expired
<1>4. entries' \in [Keys -> EntryType]
  BY <1>1, <1>3, AbsentEntry DEF TypeOK
<1>5. \A k \in Keys : entries'[k].present <=> k \in KeysIn(order')
  BY <1>1, <1>2, <1>3, AbsentEntry DEF TypeOK
<1>6. request \in [Requests -> RequestType]
  BY <1>1 DEF TypeOK, RequestType
<1>7. QED
  BY <1>2, <1>3, <1>4, <1>5, <1>6, QuietKeepsInv

LEMMA NextKeepsInv == LedgerInv /\ [Next]_vars => LedgerInv'
<1> SUFFICES ASSUME LedgerInv, [Next]_vars
             PROVE  LedgerInv'
  OBVIOUS
<1>1. ASSUME NEW r \in Requests, load(r) PROVE LedgerInv'
  BY <1>1, LoadKeepsInv
<1>2. ASSUME NEW r \in Requests, RollBack(r) PROVE LedgerInv'
  BY <1>2, RollBackKeepsInv
<1>3. ASSUME NEW r \in Requests, invalidate_if_unchanged(r) PROVE LedgerInv'
  BY <1>3, InvalidateKeepsInv
<1>4. ASSUME NEW r \in Requests, NEW chain \in Chains, replace_if_unchanged(r, chain)
      PROVE  LedgerInv'
  BY <1>4, ReplaceKeepsInv
<1>5. ASSUME NEW r \in Requests, Abandon(r) PROVE LedgerInv'
  BY <1>5, AbandonKeepsInv
<1>6. ASSUME Expire PROVE LedgerInv'
  BY <1>6, ExpireKeepsInv
<1>7. ASSUME purge_expired PROVE LedgerInv'
  BY <1>7, PurgeKeepsInv
<1>8. CASE UNCHANGED vars
  BY <1>8 DEF vars, LedgerInv, TypeOK, EntriesDated, RequestsSound, SoundNow,
              matches_snapshot
<1>9. QED
  BY <1>1, <1>2, <1>3, <1>4, <1>5, <1>6, <1>7, <1>8 DEF Next
-----------------------------------------------------------------------------
(***************************************************************************)
(* The theorems.                                                           *)
(***************************************************************************)
\* The inductive invariant holds throughout.
THEOREM LedgerInvariant == Spec => []LedgerInv
<1>1. Init => LedgerInv
  BY InitInv
<1>2. LedgerInv /\ [Next]_vars => LedgerInv'
  BY NextKeepsInv
<1>3. QED
  BY <1>1, <1>2, PTL DEF Spec

\* Every variable holds a value the program can give it, and the entries that
\* are present are those the order of age has.
THEOREM TypesHold == Spec => []TypeOK
<1>1. LedgerInv => TypeOK
  BY DEF LedgerInv
<1>2. QED
  BY <1>1, LedgerInvariant, PTL

\* What overlapping requests rely on follows from the invariant.
LEMMA InvIsSound == LedgerInv => LedgerSound
<1> SUFFICES ASSUME LedgerInv PROVE LedgerSound
  OBVIOUS
<1>1. LedgerBounded
  <2>1. {k \in Keys : entries[k].present} = KeysIn(order)
    BY KeysInSeq DEF LedgerInv, TypeOK
  <2>2. Cardinality(KeysIn(order)) <= Capacity
    BY OrderBounds DEF LedgerInv, OrderOK
  <2>3. QED
    BY <2>1, <2>2 DEF LedgerBounded
<1>2. SameRevisionSameChain
  BY DEF SameRevisionSameChain, Holding, matches_snapshot, LedgerInv, RequestsSound,
         SoundNow, SnapshotSound
<1>3. BranchOnlyGrows
  <2> SUFFICES ASSUME NEW r \in Requests, NEW k \in Keys,
                      Holding(r, k), Live(k),
                      entries[k].branch = request[r].snapshot.branch
               PROVE  items_prefix(request[r].snapshot.items, entries[k].items)
    BY DEF BranchOnlyGrows
  <2>1. entries[k].present
    BY DEF Live, LedgerInv, EntriesDated, Absent
  <2>2. QED
    BY <2>1 DEF Holding, LedgerInv, RequestsSound, SoundNow, SnapshotSound
<1>4. QED
  BY <1>1, <1>2, <1>3 DEF LedgerSound

\* The ledger stays within its capacity whoever misses, a revision stands for
\* one chain, and on a branch chains only grow.
THEOREM LedgerIsSound == Spec => []LedgerSound
BY InvIsSound, LedgerInvariant, PTL

\* A request ends by an invalidation, a commit or giving up, and only then.
LEMMA EndsBy ==
  ASSUME LedgerInv, [Next]_vars, NEW r \in Requests,
         request[r].pc = "loaded", request'[r].pc = "idle"
  PROVE  \/ invalidate_if_unchanged(r)
         \/ \E chain \in Chains : replace_if_unchanged(r, chain)
         \/ Abandon(r)
<1>1. /\ request \in [Requests -> RequestType]
      /\ \A q \in Requests : request[q] \in RequestType
  BY TypesOfRequest DEF LedgerInv
<1>2. \A q \in Requests : Idle(request[q].key) \in RequestType
  BY TypesOfRequest DEF LedgerInv
<1>3. ASSUME NEW q \in Requests, load(q) PROVE FALSE
  BY <1>1, <1>3 DEF load
<1>4. ASSUME NEW k \in Keys PROVE Overtake(k)[r].pc = "loaded"
  BY <1>1 DEF Overtake, RequestType
<1>5. \A q \in Requests : request[q].key \in Keys
  BY <1>1 DEF RequestType
<1>6. ASSUME NEW q \in Requests, RollBack(q) PROVE FALSE
  BY <1>4, <1>5, <1>6 DEF RollBack
<1>7. ASSUME NEW q \in Requests, invalidate_if_unchanged(q) PROVE q = r
  <2>1. CASE request' = [request EXCEPT ![q] = Idle(request[q].key)]
    BY <1>1, <2>1
  <2>2. CASE request' = [Overtake(request[q].key) EXCEPT ![q] = Idle(request[q].key)]
    <3>1. q # r => request'[r] = Overtake(request[q].key)[r]
      BY <2>2 DEF Overtake
    <3>2. QED
      BY <1>4, <1>5, <3>1
  <2>3. QED
    BY <1>7, <2>1, <2>2 DEF invalidate_if_unchanged
<1>8. ASSUME NEW q \in Requests, NEW chain \in Chains, replace_if_unchanged(q, chain)
      PROVE  q = r
  BY <1>1, <1>8 DEF replace_if_unchanged
<1>9. ASSUME NEW q \in Requests, Abandon(q) PROVE q = r
  BY <1>1, <1>9 DEF Abandon
<1>10. ASSUME UNCHANGED request PROVE FALSE
  BY <1>10
<1>11. QED
  BY <1>3, <1>6, <1>7, <1>8, <1>9, <1>10 DEF Next, Expire, purge_expired, vars

\* What an overtaken request commits is turned down, and it deletes nothing.
LEMMA OvertakenChangesNothing ==
  ASSUME LedgerInv, [Next]_vars, NEW r \in Requests,
         request[r].pc = "loaded", request[r].overtaken, request'[r].pc = "idle"
  PROVE  entries' = entries
<1> DEFINE k == request[r].key
           snapshot == request[r].snapshot
<1>1. /\ entries[k].present => /\ entries[k].revision # snapshot.revision
                               /\ entries[k].branch # snapshot.branch
  BY DEF LedgerInv, RequestsSound, SoundNow, SnapshotSound
<1>2. ~matches_snapshot(k, snapshot)
  BY <1>1 DEF matches_snapshot
<1>3. ASSUME NEW chain \in Chains PROVE ~is_descendant(k, snapshot, chain)
  <2>1. k \in Keys
    BY TypesOfRequest DEF LedgerInv
  <2>2. Live(k) => entries[k].present
    BY <2>1 DEF LedgerInv, EntriesDated, Live, Absent
  <2>3. QED
    BY <1>1, <2>2 DEF is_descendant
<1>4. CASE invalidate_if_unchanged(r)
  BY <1>2, <1>4 DEF invalidate_if_unchanged
<1>5. ASSUME NEW chain \in Chains, replace_if_unchanged(r, chain)
      PROVE  entries' = entries
  BY <1>2, <1>3, <1>5 DEF replace_if_unchanged
<1>6. CASE Abandon(r)
  BY <1>6 DEF Abandon
<1>7. QED
  BY <1>4, <1>5, <1>6, EndsBy

\* A chain that was deleted because the upstream refused it is not brought back
\* by a request that had loaded it before.
THEOREM DeletionsStand == Spec => DeletedNotRestored
<1>1. LedgerInv /\ [Next]_vars
        => [\A r \in Requests :
              /\ request[r].pc = "loaded" /\ request[r].overtaken
              /\ request'[r].pc = "idle"
              => entries'[request[r].key].items = entries[request[r].key].items]_vars
  BY OvertakenChangesNothing
<1>2. QED
  BY <1>1, LedgerInvariant, PTL DEF Spec, DeletedNotRestored

\* What takes the place of a chain continues it, or is what a request made of
\* it that had loaded it.
LEMMA StoredOverChain ==
  ASSUME LedgerInv, [Next]_vars, NEW k \in Keys,
         Live(k), entries'[k].items # << >>, entries'[k].items # entries[k].items
  PROVE  \/ items_prefix(entries[k].items, entries'[k].items)
         \/ \E r \in Requests : /\ Holding(r, k)
                                /\ request'[r].pc = "idle"
                                /\ request[r].snapshot.items = entries[k].items
<1>1. TypeOK /\ OrderOK(order, expired)
  BY DEF LedgerInv
<1>2. entries'[k] # entries[k] /\ entries'[k] # Absent
  BY DEF Absent
<1>3. ASSUME NEW j \in Keys, NEW branch \in Nat, Stored(j, << >>, branch)
      PROVE  FALSE
  <2>1. entries'[j].items = << >>
    BY <1>3 DEF Stored, Entry
  <2>2. j # k
    BY <2>1
  <2>3. QED
    BY <1>2, <1>3, <2>2 DEF Stored
<1>4. new_branch \in Nat
  BY <1>1 DEF TypeOK, new_branch
<1>5. \A r \in Requests : request[r].key \in Keys
  BY <1>1, TypesOfRequest
<1>6. ASSUME NEW r \in Requests, load(r) PROVE FALSE
  <2>1. Stored(request[r].key, << >>, new_branch) \/ entries' = entries
    BY <1>1, <1>5, <1>6, ReserveStores DEF load
  <2>2. QED
    BY <1>2, <1>3, <1>4, <1>5, <2>1
<1>7. ASSUME NEW j \in Keys, put_tombstone(j) PROVE FALSE
  BY <1>3, <1>4, <1>7, TombstoneStores
<1>8. ASSUME NEW r \in Requests, RollBack(r) PROVE FALSE
  BY <1>5, <1>7, <1>8 DEF RollBack
<1>9. ASSUME NEW r \in Requests, invalidate_if_unchanged(r) PROVE FALSE
  BY <1>2, <1>5, <1>7, <1>9 DEF invalidate_if_unchanged
<1>10. ASSUME NEW r \in Requests, Abandon(r) PROVE FALSE
  BY <1>2, <1>10 DEF Abandon
<1>11. ASSUME Expire PROVE FALSE
  BY <1>2, <1>11 DEF Expire
<1>12. ASSUME purge_expired PROVE FALSE
  BY <1>2, <1>12 DEF purge_expired
<1>13. ASSUME UNCHANGED vars PROVE FALSE
  BY <1>2, <1>13 DEF vars
<1>14. ASSUME NEW r \in Requests, NEW chain \in Chains, replace_if_unchanged(r, chain)
       PROVE  \/ items_prefix(entries[k].items, entries'[k].items)
              \/ /\ Holding(r, k)
                 /\ request'[r].pc = "idle"
                 /\ request[r].snapshot.items = entries[k].items
  <2> DEFINE j == request[r].key
             snapshot == request[r].snapshot
  <2>1. PICK branch \in Nat : put(j, chain, branch)
    <3>1. snapshot.branch \in Nat
      BY <1>1, TypesOfRequest DEF EntryType
    <3>2. QED
      BY <1>2, <1>4, <1>14, <3>1 DEF replace_if_unchanged
  <2>2. Stored(j, chain, branch)
    BY <1>1, <1>5, <2>1, PutStores
  <2>3. j = k
    BY <1>2, <2>2 DEF Stored
  <2>4. entries'[k].items = chain
    BY <2>2, <2>3 DEF Stored, Entry
  <2>5. CASE matches_snapshot(j, snapshot)
    <3>1. request[r].pc = "loaded" /\ request' = [request EXCEPT ![r] = Idle(j)]
      BY <1>14 DEF replace_if_unchanged
    <3>2. entries[k] = snapshot
      BY <2>3, <2>5, <3>1 DEF LedgerInv, RequestsSound, SoundNow, SnapshotSound,
                              matches_snapshot
    <3>3. request'[r].pc = "idle"
      BY <1>1, <3>1, IdleHoldsNothing DEF TypeOK
    <3>4. QED
      BY <2>3, <3>1, <3>2, <3>3 DEF Holding
  <2>6. CASE ~matches_snapshot(j, snapshot)
    <3>1. is_descendant(j, snapshot, chain)
      BY <1>2, <1>14, <2>6 DEF replace_if_unchanged
    <3>2. QED
      BY <2>3, <2>4, <3>1 DEF is_descendant
  <2>7. QED
    BY <2>5, <2>6
<1>15. QED
  BY <1>6, <1>8, <1>9, <1>10, <1>11, <1>12, <1>13, <1>14 DEF Next

\* Two overlapping requests do not overwrite each other's turns.
THEOREM TurnsStay == Spec => NoTurnLost
<1>1. LedgerInv /\ [Next]_vars
        => [\A k \in Keys :
              Live(k) /\ entries'[k].items # << >> /\ entries'[k].items # entries[k].items
                => \/ items_prefix(entries[k].items, entries'[k].items)
                   \/ \E r \in Requests :
                        /\ Holding(r, k)
                        /\ request'[r].pc = "idle"
                        /\ request[r].snapshot.items = entries[k].items]_vars
  BY StoredOverChain
<1>2. QED
  BY <1>1, LedgerInvariant, PTL DEF Spec, NoTurnLost
=============================================================================
