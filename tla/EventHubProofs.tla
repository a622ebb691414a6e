--------------------------- MODULE EventHubProofs ---------------------------
(***************************************************************************)
(* Theorems about EventHub, for any number of subscribers, any size of the *)
(* ring, the channels and the connections, and any budget, and about       *)
(* WindowSession, for every set of windows, any number of loads and any    *)
(* room for show events.                                                   *)
(***************************************************************************)
EXTENDS EventHub, WindowSession, SequenceTheorems, TLAPS

-----------------------------------------------------------------------------
(* Queues                                                                  *)

\* A queue of entries none newer than n, in the order they were written and
\* newer than the entry l.
Sorted(q, l, n) == InOrder(q, l) /\ l <= n /\ \A e \in Entries(q) : e <= n

(* An element goes to the end of a queue, and the first one leaves it.     *)
LEMMA AppendNat ==
  ASSUME NEW q \in Seq(Nat), NEW e \in Nat
  PROVE  LET r == Append(q, e)
         IN  /\ r \in Seq(Nat) /\ r # << >> /\ Len(r) = Len(q) + 1 /\ Len(q) \in Nat
             /\ \A i \in 1..Len(q) : r[i] = q[i] /\ q[i] \in Nat
             /\ r[Len(q) + 1] = e
  BY AppendProperties, LenProperties

LEMMA Associate ==
  ASSUME NEW w \in Seq(Nat), NEW q \in Seq(Nat), NEW r \in Seq(Nat)
  PROVE  (w \o q) \o r = w \o (q \o r)
<1>1. /\ w \o q \in Seq(Nat) /\ q \o r \in Seq(Nat)
      /\ Len(w \o q) = Len(w) + Len(q) /\ Len(q \o r) = Len(q) + Len(r)
      /\ Len(w) \in Nat /\ Len(q) \in Nat /\ Len(r) \in Nat
  BY ConcatProperties, LenProperties
<1>2. /\ (w \o q) \o r \in Seq(Nat) /\ w \o (q \o r) \in Seq(Nat)
      /\ Len((w \o q) \o r) = Len(w) + Len(q) + Len(r)
      /\ Len(w \o (q \o r)) = Len(w) + Len(q) + Len(r)
  BY <1>1, ConcatProperties
<1>3. QED
  BY <1>1, <1>2, ConcatProperties, SeqEqual

LEMMA ConcatAppend ==
  ASSUME NEW w \in Seq(Nat), NEW q \in Seq(Nat), NEW e \in Nat
  PROVE  w \o Append(q, e) = Append(w \o q, e)
<1>1. /\ q \o <<e>> = Append(q, e) /\ <<e>> \in Seq(Nat) /\ w \o q \in Seq(Nat)
      /\ (w \o q) \o <<e>> = Append(w \o q, e)
  BY AppendIsConcat, ConcatProperties
<1>2. (w \o q) \o <<e>> = w \o (q \o <<e>>)
  BY <1>1, Associate
<1>3. QED
  BY <1>1, <1>2

(* Neither moving an element from one queue to the next nor reading it     *)
(* from the first changes the order of the whole.                          *)
LEMMA MoveHead ==
  ASSUME NEW w \in Seq(Nat), NEW q \in Seq(Nat), q # << >>
  PROVE  Append(w, Head(q)) \o Tail(q) = w \o q
<1> DEFINE first == <<Head(q)>>
           rest == Tail(q)
<1>1. Head(q) \in Nat /\ rest \in Seq(Nat) /\ first \in Seq(Nat)
  BY HeadTailProperties
<1>2. q = first \o rest
  BY <1>1, HeadTailProperties, ConcatProperties, SeqEqual
<1>3. Append(w, Head(q)) = w \o first
  BY <1>1, AppendIsConcat
<1> HIDE DEF first, rest
<1>4. (w \o first) \o rest = w \o (first \o rest)
  BY <1>1, Associate
<1>5. QED
  BY <1>2, <1>3, <1>4 DEF rest

LEMMA ReadHead ==
  ASSUME NEW w \in Seq(Nat), NEW q \in Seq(Nat), w # << >>
  PROVE  /\ w \o q # << >> /\ Head(w \o q) = Head(w) /\ Tail(w \o q) = Tail(w) \o q
<1>1. /\ w \o q \in Seq(Nat) /\ Len(w \o q) = Len(w) + Len(q) /\ Len(w) \in Nat \ {0}
      /\ Len(q) \in Nat
      /\ \A i \in 1..(Len(w) + Len(q)) : (w \o q)[i] = IF i <= Len(w) THEN w[i] ELSE q[i - Len(w)]
  BY ConcatProperties, EmptySeq, LenProperties
<1>2. /\ Tail(w) \in Seq(Nat) /\ Len(Tail(w)) = Len(w) - 1
      /\ \A i \in 1..(Len(w) - 1) : Tail(w)[i] = w[i + 1]
  BY HeadTailProperties
<1>3. w \o q # << >>
  BY <1>1, EmptySeq
<1>4. Head(w \o q) = Head(w)
  BY <1>1, <1>3
<1>5. /\ Tail(w \o q) \in Seq(Nat) /\ Len(Tail(w \o q)) = Len(w) + Len(q) - 1
      /\ \A i \in 1..(Len(w) + Len(q) - 1) : Tail(w \o q)[i] = (w \o q)[i + 1]
  BY <1>1, <1>3, HeadTailProperties
<1>6. /\ Tail(w) \o q \in Seq(Nat) /\ Len(Tail(w) \o q) = Len(w) + Len(q) - 1
      /\ \A i \in 1..(Len(w) + Len(q) - 1) :
            (Tail(w) \o q)[i] = IF i <= Len(w) - 1 THEN Tail(w)[i] ELSE q[i - (Len(w) - 1)]
  BY <1>1, <1>2, ConcatProperties
<1>7. ASSUME NEW i \in 1..(Len(w) + Len(q) - 1) PROVE Tail(w \o q)[i] = (Tail(w) \o q)[i]
  <2>1. i + 1 \in 1..(Len(w) + Len(q)) /\ Tail(w \o q)[i] = (w \o q)[i + 1]
    BY <1>1, <1>5
  <2>2. CASE i <= Len(w) - 1
    BY <1>1, <1>2, <1>6, <2>1, <2>2
  <2>3. CASE ~(i <= Len(w) - 1)
    <3>1. (w \o q)[i + 1] = q[(i + 1) - Len(w)] /\ (Tail(w) \o q)[i] = q[i - (Len(w) - 1)]
      BY <1>1, <1>6, <2>1, <2>3
    <3>2. (i + 1) - Len(w) = i - (Len(w) - 1)
      BY <1>1
    <3>3. QED
      BY <2>1, <3>1, <3>2
  <2>4. QED
    BY <2>2, <2>3
<1>8. QED
  BY <1>3, <1>4, <1>5, <1>6, <1>7, SeqEqual

LEMMA EntriesAppend ==
  ASSUME NEW q \in Seq(Nat), NEW e \in Nat
  PROVE  Entries(Append(q, e)) = (Entries(q) \cup {e}) \ {0}
<1>1. /\ DOMAIN q = 1..Len(q) /\ DOMAIN Append(q, e) = 1..(Len(q) + 1) /\ Len(q) \in Nat
      /\ \A i \in 1..Len(q) : Append(q, e)[i] = q[i]
      /\ Append(q, e)[Len(q) + 1] = e
  BY AppendProperties, LenProperties
<1>2. QED
  BY <1>1 DEF Entries

LEMMA EntriesTail ==
  ASSUME NEW q \in Seq(Nat), q # << >>
  PROVE  Entries(q) = (Entries(Tail(q)) \cup {Head(q)}) \ {0}
<1>1. /\ DOMAIN q = 1..Len(q) /\ DOMAIN Tail(q) = 1..(Len(q) - 1) /\ Len(q) \in Nat \ {0}
      /\ \A i \in 1..(Len(q) - 1) : Tail(q)[i] = q[i + 1]
      /\ Head(q) = q[1]
  BY HeadTailProperties, LenProperties, EmptySeq
<1>2. \A i \in 2..Len(q) : i - 1 \in 1..(Len(q) - 1) /\ Tail(q)[i - 1] = q[i]
  BY <1>1
<1>3. \A i \in 1..Len(q) : i = 1 \/ i \in 2..Len(q)
  BY <1>1
<1>4. ASSUME NEW x \in Entries(q) PROVE x \in (Entries(Tail(q)) \cup {Head(q)}) \ {0}
  <2>1. PICK i \in 1..Len(q) : x = q[i] /\ x # 0
    BY <1>1, <1>4 DEF Entries
  <2>2. CASE i = 1
    BY <1>1, <2>1, <2>2
  <2>3. CASE i \in 2..Len(q)
    BY <1>1, <1>2, <2>1, <2>3 DEF Entries
  <2>4. QED
    BY <1>3, <2>2, <2>3
<1>5. ASSUME NEW x \in (Entries(Tail(q)) \cup {Head(q)}) \ {0} PROVE x \in Entries(q)
  <2>1. CASE x = Head(q)
    BY <1>1, <2>1, 1 \in 1..Len(q) DEF Entries
  <2>2. CASE x # Head(q)
    <3>1. PICK i \in 1..(Len(q) - 1) : x = Tail(q)[i]
      BY <1>1, <2>2 DEF Entries
    <3>2. i + 1 \in 1..Len(q) /\ q[i + 1] = x
      BY <1>1, <3>1
    <3>3. QED
      BY <1>1, <3>2 DEF Entries
  <2>3. QED
    BY <2>1, <2>2
<1>6. QED
  BY <1>4, <1>5

(* What is published keeps a queue in order, whether there is room for it  *)
(* or not, and complete if there is.                                       *)
LEMMA AppendSorted ==
  ASSUME NEW q \in Seq(Nat), NEW l \in Nat, NEW n \in Nat, Sorted(q, l, n)
  PROVE  /\ Sorted(Append(q, 0), l, n) /\ Sorted(Append(q, n + 1), l, n + 1)
         /\ Sorted(q, l, n + 1)
<1>1. Entries(q) \subseteq Nat
  BY LenProperties DEF Entries
<1>2. ASSUME NEW e \in {0, n + 1} PROVE InOrder(Append(q, e), l)
  <2>1. /\ DOMAIN q = 1..Len(q) /\ DOMAIN Append(q, e) = 1..(Len(q) + 1) /\ Len(q) \in Nat
        /\ \A i \in 1..Len(q) : Append(q, e)[i] = q[i] /\ q[i] \in Nat
        /\ Append(q, e)[Len(q) + 1] = e
    BY AppendProperties, LenProperties
  <2>2. \A i \in 1..Len(q) : q[i] # 0 => q[i] <= n
    BY <2>1 DEF Sorted, Entries
  <2>3. ASSUME NEW i \in 1..(Len(q) + 1), NEW j \in 1..(Len(q) + 1), i < j,
               Append(q, e)[i] # 0, Append(q, e)[j] # 0
        PROVE  Append(q, e)[i] < Append(q, e)[j]
    <3>1. i \in 1..Len(q)
      BY <2>1, <2>3
    <3>2. CASE j \in 1..Len(q)
      BY <2>1, <2>3, <3>1, <3>2 DEF Sorted, InOrder
    <3>3. CASE j = Len(q) + 1
      BY <2>1, <2>2, <2>3, <3>1, <3>3
    <3>4. QED
      BY <2>1, <3>2, <3>3
  <2>4. \A x \in Entries(Append(q, e)) : l < x
    BY EntriesAppend, <1>1 DEF Sorted, InOrder
  <2>5. QED
    BY <2>1, <2>3, <2>4 DEF InOrder
<1>3. QED
  BY <1>1, <1>2, EntriesAppend DEF Sorted

LEMMA AppendComplete ==
  ASSUME NEW q \in Seq(Nat), NEW l \in Nat, NEW n \in Nat, Sorted(q, l, n), Complete(q, l, n)
  PROVE  Complete(Append(q, 0), l, n) /\ Complete(Append(q, n + 1), l, n + 1)
<1>1. Entries(q) \subseteq 1..n /\ l \in 0..n
  BY LenProperties DEF Entries, Sorted
<1>2. Entries(Append(q, 0)) = Entries(q) /\ Entries(Append(q, n + 1)) = Entries(q) \cup {n + 1}
  <2>1. Entries(Append(q, 0)) = (Entries(q) \cup {0}) \ {0}
    BY EntriesAppend
  <2>2. Entries(Append(q, n + 1)) = (Entries(q) \cup {n + 1}) \ {0}
    BY EntriesAppend
  <2>3. 0 \notin Entries(q) /\ n + 1 # 0
    BY DEF Entries
  <2>4. QED
    BY <2>1, <2>2, <2>3
<1>3. QED
  BY <1>1, <1>2 DEF Complete

(* So does reading from it.                                                *)
LEMMA ReadSorted ==
  ASSUME NEW q \in Seq(Nat), q # << >>, NEW l \in Nat, NEW n \in Nat, Sorted(q, l, n)
  PROVE  LET h == IF Head(q) = 0 THEN l ELSE Head(q)
         IN  /\ h \in Nat /\ Sorted(Tail(q), h, n)
             /\ Complete(q, l, n) => Complete(Tail(q), h, n)
<1> DEFINE h == IF Head(q) = 0 THEN l ELSE Head(q)
<1>1. /\ DOMAIN q = 1..Len(q) /\ DOMAIN Tail(q) = 1..(Len(q) - 1) /\ Len(q) \in Nat \ {0}
      /\ \A i \in 1..(Len(q) - 1) : Tail(q)[i] = q[i + 1] /\ i + 1 \in 1..Len(q)
      /\ \A i \in 1..Len(q) : q[i] \in Nat
      /\ Head(q) = q[1] /\ Head(q) \in Nat
  BY HeadTailProperties, LenProperties, EmptySeq
<1>2. /\ Entries(q) = (Entries(Tail(q)) \cup {Head(q)}) \ {0} /\ 0 \notin Entries(Tail(q))
      /\ Entries(q) \subseteq Nat
  <2>1. Entries(q) = (Entries(Tail(q)) \cup {Head(q)}) \ {0}
    BY EntriesTail
  <2>2. 0 \notin Entries(Tail(q))
    BY DEF Entries
  <2>3. Entries(q) \subseteq Nat
    BY <1>1 DEF Entries
  <2>4. QED
    BY <2>1, <2>2, <2>3
<1>3. h \in Nat /\ h <= n
  BY <1>1, <1>2 DEF Sorted
<1>4. \A i, j \in DOMAIN Tail(q) : (i < j /\ Tail(q)[i] # 0 /\ Tail(q)[j] # 0)
                                     => Tail(q)[i] < Tail(q)[j]
  <2> SUFFICES ASSUME NEW i \in 1..(Len(q) - 1), NEW j \in 1..(Len(q) - 1), i < j,
                      Tail(q)[i] # 0, Tail(q)[j] # 0
               PROVE  Tail(q)[i] < Tail(q)[j]
    BY <1>1
  <2>1. Tail(q)[i] = q[i + 1] /\ Tail(q)[j] = q[j + 1] /\ i + 1 < j + 1
        /\ i + 1 \in DOMAIN q /\ j + 1 \in DOMAIN q
    BY <1>1
  <2>2. QED
    BY <2>1 DEF Sorted, InOrder
<1>5. \A e \in Entries(Tail(q)) : h < e
  <2> SUFFICES ASSUME NEW e \in Entries(Tail(q)) PROVE h < e
    OBVIOUS
  <2>1. CASE Head(q) = 0
    BY <1>2, <2>1 DEF Sorted, InOrder
  <2>2. CASE Head(q) # 0
    <3>1. PICK i \in 1..(Len(q) - 1) : e = Tail(q)[i] /\ e # 0
      BY <1>1 DEF Entries
    <3>2. e = q[i + 1] /\ i + 1 \in 1..Len(q) /\ 1 \in 1..Len(q) /\ 1 < i + 1
      BY <1>1, <3>1
    <3>3. q[1] < q[i + 1]
      BY <1>1, <2>2, <3>1, <3>2 DEF Sorted, InOrder
    <3>4. QED
      BY <1>1, <2>2, <3>2, <3>3
  <2>3. QED
    BY <2>1, <2>2
<1>6. Sorted(Tail(q), h, n)
  BY <1>2, <1>3, <1>4, <1>5 DEF Sorted, InOrder
<1>7. ASSUME Complete(q, l, n) PROVE Complete(Tail(q), h, n)
  <2> DEFINE known == (Entries(q) \cup {l}) \ {0}
             left == (Entries(Tail(q)) \cup {h}) \ {0}
  <2>1. CASE Head(q) = 0
    BY <1>2, <1>7, <2>1 DEF Complete
  <2>2. CASE Head(q) # 0
    <3>1. left = Entries(q)
      BY <1>2, <2>2
    <3>2. Head(q) \in Entries(q) /\ l < Head(q) /\ Head(q) <= n
      BY <1>2, <2>2 DEF Sorted, InOrder
    <3>3. n \in Entries(q)
      BY <1>1, <1>7, <3>2 DEF Complete
    <3>4. ASSUME NEW e \in Entries(q), e < n PROVE e + 1 \in Entries(q)
      BY <1>2, <1>7, <3>4 DEF Complete, Sorted, InOrder
    <3>5. QED
      BY <3>1, <3>3, <3>4 DEF Complete
  <2>3. QED
    BY <2>1, <2>2
<1>8. QED
  BY <1>3, <1>6, <1>7

-----------------------------------------------------------------------------
(* The ring                                                                *)

USE HubAssumption

\* A ring q that holds the newest entries up to n, without a gap.
Newest(q, n) ==
  /\ n \in Nat /\ q \in Seq(Nat) /\ Len(q) <= n
  /\ n # 0 => q # << >>
  /\ \A i \in 1..Len(q) : q[i] = n - Len(q) + i

(* A replay of the ring is in order, and complete from its first entry on. *)
LEMMA ReplaySorted ==
  ASSUME NEW q, NEW n, Newest(q, n)
  PROVE  Sorted(q, 0, n) /\ Complete(q, 0, n)
<1>1. DOMAIN q = 1..Len(q) /\ Len(q) \in Nat /\ n \in Nat /\ Len(q) <= n
  BY LenProperties DEF Newest
<1> DEFINE first == n - Len(q) + 1
<1>2. Entries(q) = first..n /\ first \in Nat \ {0}
  <2>1. \A i \in 1..Len(q) : q[i] = first + i - 1 /\ q[i] # 0 /\ q[i] \in first..n
    BY <1>1 DEF Newest
  <2>2. \A e \in first..n : e - first + 1 \in 1..Len(q)
    BY <1>1 DEF Newest
  <2>3. \A e \in first..n : q[e - first + 1] = e
    BY <1>1, <2>1, <2>2 DEF Newest
  <2>4. \A e \in first..n : e # 0
    BY <1>1 DEF Newest
  <2>5. ASSUME NEW e \in Entries(q) PROVE e \in first..n
    <3>1. PICK i \in 1..Len(q) : e = q[i]
      BY <1>1, <2>5 DEF Entries
    <3>2. QED
      BY <2>1, <3>1
  <2>6. ASSUME NEW e \in first..n PROVE e \in Entries(q)
    BY <1>1, <2>2, <2>3, <2>4 DEF Entries
  <2>7. first \in Nat \ {0}
    <3>1. n - Len(q) + 1 \in Int /\ n - Len(q) + 1 > 0
      BY <1>1
    <3>2. QED
      BY <3>1
  <2> HIDE DEF first
  <2>8. Entries(q) = first..n
    BY <2>5, <2>6
  <2>9. QED
    BY <2>7, <2>8
<1>3. InOrder(q, 0)
  <2>1. \A i, j \in 1..Len(q) : i < j => q[i] < q[j]
    BY <1>1 DEF Newest
  <2>2. \A e \in first..n : 0 < e
    BY <1>2
  <2> HIDE DEF first
  <2>3. QED
    BY <1>1, <1>2, <2>1, <2>2 DEF InOrder
<1>4. n # 0 => Len(q) > 0
  BY <1>1, EmptySeq DEF Newest
<1>5. n \in Nat /\ (n # 0 => first <= n)
  BY <1>1, <1>4 DEF Newest
<1> HIDE DEF first
<1>6. Sorted(q, 0, n)
  BY <1>2, <1>3, <1>5 DEF Sorted
<1>7. Complete(q, 0, n)
  <2>1. (Entries(q) \cup {0}) \ {0} = Entries(q)
    BY DEF Entries
  <2>2. n # 0 => n \in Entries(q)
    BY <1>2, <1>5
  <2>3. \A e \in Entries(q) : e < n => e + 1 \in Entries(q)
    BY <1>2, <1>5
  <2>4. QED
    BY <2>1, <2>2, <2>3 DEF Complete
<1>8. QED
  BY <1>6, <1>7

(* Publishing an entry drops the oldest of a full ring.                    *)
LEMMA RingStep ==
  ASSUME NEW q, NEW n, Newest(q, n)
  PROVE  Newest(Ring(q, n + 1), n + 1)
<1> DEFINE r == Ring(q, n + 1)
<1>1. n \in Nat /\ n + 1 \in Nat /\ q \in Seq(Nat) /\ Len(q) \in Nat /\ Len(q) <= n
  BY LenProperties DEF Newest
<1>2. CASE Len(q) >= LogRingLimit
  <2> DEFINE kept == Tail(q)
  <2>1. q # << >> /\ Len(q) \in Nat \ {0}
    BY <1>1, <1>2, EmptySeq
  <2>2. kept \in Seq(Nat) /\ Len(kept) = Len(q) - 1 /\ \A i \in 1..Len(kept) : kept[i] = q[i + 1]
    BY <1>1, <2>1, HeadTailProperties
  <2>3. r = Append(kept, n + 1)
    BY <1>2 DEF Ring
  <2> HIDE DEF kept, r
  <2>4. /\ r \in Seq(Nat) /\ r # << >> /\ Len(r) = Len(kept) + 1
        /\ \A i \in 1..Len(kept) : r[i] = kept[i]
        /\ r[Len(kept) + 1] = n + 1
    <3>1. kept \in Seq(Nat) /\ n + 1 \in Nat
      BY <1>1, <2>2
    <3>2. QED
      BY <3>1, <2>3, AppendNat
  <2>5. ASSUME NEW i \in 1..Len(q) PROVE r[i] = (n + 1) - Len(q) + i
    <3>1. CASE i \in 1..Len(kept)
      <4>1. r[i] = q[i + 1] /\ i + 1 \in 1..Len(q)
        BY <1>1, <2>2, <2>4, <3>1
      <4>2. q[i + 1] = n - Len(q) + (i + 1)
        BY <4>1 DEF Newest
      <4>3. QED
        BY <1>1, <4>1, <4>2
    <3>2. CASE i = Len(q)
      BY <1>1, <2>2, <2>4, <3>2
    <3>3. QED
      BY <1>1, <2>2, <3>1, <3>2
  <2>6. Len(r) = Len(q)
    BY <1>1, <2>2, <2>4
  <2>7. \A i \in 1..Len(r) : r[i] = (n + 1) - Len(r) + i
    BY <2>5, <2>6
  <2>8. Newest(r, n + 1)
    BY <1>1, <2>4, <2>6, <2>7 DEF Newest
  <2>9. QED
    BY <2>8 DEF r
<1>3. CASE ~(Len(q) >= LogRingLimit)
  <2>1. r = Append(q, n + 1)
    BY <1>3 DEF Ring
  <2> HIDE DEF r
  <2>2. /\ r \in Seq(Nat) /\ r # << >> /\ Len(r) = Len(q) + 1
        /\ \A i \in 1..Len(q) : r[i] = q[i]
        /\ r[Len(q) + 1] = n + 1
    BY <1>1, <2>1, AppendNat
  <2>3. ASSUME NEW i \in 1..(Len(q) + 1) PROVE r[i] = (n + 1) - (Len(q) + 1) + i
    <3>1. CASE i \in 1..Len(q)
      <4>1. q[i] = n - Len(q) + i
        BY <3>1 DEF Newest
      <4>2. QED
        BY <1>1, <2>2, <3>1, <4>1
    <3>2. CASE i = Len(q) + 1
      BY <1>1, <2>2, <3>2
    <3>3. QED
      BY <1>1, <3>1, <3>2
  <2>4. QED
    BY <1>1, <2>2, <2>3 DEF Newest, r
<1>4. QED
  BY <1>2, <1>3

-----------------------------------------------------------------------------
(* The hub and its subscribers                                             *)

TypeOK ==
  /\ changes \in Nat \ {0} /\ lastStatus \in Nat \ {0}
  /\ caller \in [Caller -> {"none", "start", "owner", "stop", "end"}]
  /\ unpublished \in [Caller -> SUBSET (Nat \ {0})]
  /\ sub \in [Sub -> {"new", "open", "done", "left"}]
  /\ registered \subseteq Sub /\ lost \subseteq Sub
  /\ ch \in [Sub -> Seq(Nat)] /\ wire \in [Sub -> Seq(Nat)] /\ last \in [Sub -> Nat]
  /\ loop \in [StreamSub -> {"off", "send", "wait", "ended"}]

\* Who has subscribed to the hub hears from it until it has gone, and nothing
\* before.
Registration ==
  \A s \in LogSub \cup StatusSub :
    /\ sub[s] = "new" => s \notin registered /\ ch[s] = << >> /\ wire[s] = << >> /\ last[s] = 0
    /\ sub[s] = "open" => s \in registered

\* What a window of the logs has read and what is coming to it.
LogsFor(s) ==
  /\ Sorted(Coming(s), last[s], nextLogSeq)
  /\ s \notin lost => Complete(Coming(s), last[s], nextLogSeq)

\* What is coming to a window of the status ends with the last one.
StatusFor(s) ==
  /\ \A i \in 1..Len(Coming(s)) : Coming(s)[i] # 0
  /\ s \notin lost => Destined(s) = lastStatus

\* A caller that publishes has the last change, and no other beside it as long
\* as there is no shutdown.
CallerPublishes ==
  NoShutdown =>
    /\ unpublished["shutdown"] = {}
    /\ \/ unpublished["call"] = {changes}
       \/ unpublished["call"] = {} /\ lastStatus = changes

Inv ==
  /\ TypeOK /\ Newest(logs, nextLogSeq) /\ Registration
  /\ \A s \in LogSub : Connected(s) => LogsFor(s)
  /\ \A s \in StatusSub : Connected(s) => StatusFor(s)
  /\ CallerPublishes

(* An event broadcast to a window that has room comes after what was on    *)
(* its way before, and to one that has none or is not meant not at all.    *)
LEMMA BroadcastComing ==
  ASSUME TypeOK, NEW to \in SUBSET Sub, NEW e \in Nat, broadcast(to, e)
  PROVE  /\ UNCHANGED <<sub, registered, wire, last, loop>>
         /\ ch' \in [Sub -> Seq(Nat)] /\ lost' \subseteq Sub /\ lost \subseteq lost'
         /\ \A s \in Sub : s \notin to \cap registered =>
               ch'[s] = ch[s] /\ Coming(s)' = Coming(s) /\ (s \in lost' => s \in lost)
         /\ \A s \in to \cap registered :
               \/ Coming(s)' = Append(Coming(s), e)
               \/ Coming(s)' = Coming(s) /\ s \in lost'
<1>1. /\ ch' = [s \in Sub |-> IF s \in to \cap registered THEN send(ch[s], e) ELSE ch[s]]
      /\ lost' = lost \cup {s \in to \cap registered : Full(s)}
      /\ UNCHANGED <<sub, registered, wire, last, loop>>
  BY DEF broadcast
<1>2. \A s \in Sub : send(ch[s], e) \in Seq(Nat)
  BY AppendNat DEF TypeOK, send
<1>3. ASSUME NEW s \in to \cap registered
      PROVE  Coming(s)' = Append(Coming(s), e) \/ (Coming(s)' = Coming(s) /\ s \in lost')
  <2>1. CASE Full(s)
    BY <1>1, <1>3, <2>1 DEF Full, send, Coming
  <2>2. CASE ~Full(s)
    <3>1. ch'[s] = Append(ch[s], e) /\ wire'[s] = wire[s]
      BY <1>1, <1>3, <2>2 DEF Full, send
    <3>2. wire[s] \o Append(ch[s], e) = Append(wire[s] \o ch[s], e)
      BY <1>3, ConcatAppend DEF TypeOK
    <3>3. QED
      BY <3>1, <3>2 DEF Coming
  <2>3. QED
    BY <2>1, <2>2
<1>4. QED
  BY <1>1, <1>2, <1>3 DEF TypeOK, Coming

(* A window whose events and whose last one are the same has what it had.  *)
LEMMA SameLogs ==
  ASSUME NEW s, LogsFor(s), Coming(s)' = Coming(s), last'[s] = last[s],
         nextLogSeq' = nextLogSeq, s \in lost => s \in lost'
  PROVE  LogsFor(s)'
  BY DEF LogsFor

LEMMA SameStatus ==
  ASSUME NEW s, StatusFor(s), Coming(s)' = Coming(s), last'[s] = last[s],
         lastStatus' = lastStatus, s \in lost => s \in lost'
  PROVE  StatusFor(s)'
  BY DEF StatusFor, Destined

LEMMA Subs ==
  /\ LogSub \subseteq Sub /\ StatusSub \subseteq Sub /\ StreamSub \subseteq Sub
  /\ \A s \in LogSub \cup StatusSub : s \notin StreamSub
  /\ \A s \in LogSub : s \notin StatusSub
  BY DEF Sub

(* A broadcast changes nobody's registration.                              *)
LEMMA BroadcastRegistration ==
  ASSUME TypeOK, Registration, NEW to \in SUBSET Sub, NEW e \in Nat, broadcast(to, e)
  PROVE  Registration'
<1>1. /\ UNCHANGED <<sub, registered, wire, last>>
      /\ \A s \in Sub : s \notin registered => ch'[s] = ch[s]
  BY BroadcastComing
<1>2. QED
  BY <1>1, Subs DEF Registration

(* A log entry, or an error, is published.                                 *)
LEMMA PublishLogStep ==
  ASSUME Inv, NEW e \in {0, nextLogSeq + 1}, broadcast(LogSub, e),
         IF e = 0 THEN UNCHANGED <<nextLogSeq, logs>>
                  ELSE nextLogSeq' = e /\ logs' = Ring(logs, e),
         UNCHANGED <<engineVars, lastStatus>>
  PROVE  Inv'
<1>1. nextLogSeq \in Nat /\ e \in Nat
  BY DEF Inv, Newest
<1> DEFINE meant == LogSub \cap registered
<1>2. /\ UNCHANGED <<sub, registered, wire, last, loop>>
      /\ ch' \in [Sub -> Seq(Nat)] /\ lost' \subseteq Sub /\ lost \subseteq lost'
      /\ \A s \in Sub : s \notin meant =>
            ch'[s] = ch[s] /\ Coming(s)' = Coming(s) /\ (s \in lost' => s \in lost)
      /\ \A s \in meant :
            Coming(s)' = Append(Coming(s), e) \/ (Coming(s)' = Coming(s) /\ s \in lost')
  BY <1>1, Subs, BroadcastComing DEF Inv
<1>3. TypeOK'
  BY <1>2 DEF Inv, TypeOK, engineVars
<1>4. Newest(logs, nextLogSeq)'
  BY RingStep DEF Inv
<1>5. Registration'
  BY <1>1, Subs, BroadcastRegistration DEF Inv
<1>6. ASSUME NEW s \in LogSub, Connected(s)' PROVE LogsFor(s)'
  <2>1. Connected(s) /\ s \in meant /\ LogsFor(s) /\ last'[s] = last[s]
    BY <1>2, <1>6 DEF Connected, Inv, Registration
  <2>2. Coming(s) \in Seq(Nat) /\ last[s] \in Nat
    BY Subs, ConcatProperties DEF Coming, Inv, TypeOK
  <2>3. Sorted(Coming(s), last[s], nextLogSeq)
    BY <2>1 DEF LogsFor
  <2>4. /\ Sorted(Append(Coming(s), 0), last[s], nextLogSeq)
        /\ Sorted(Append(Coming(s), nextLogSeq + 1), last[s], nextLogSeq + 1)
        /\ Sorted(Coming(s), last[s], nextLogSeq + 1)
    BY <1>1, <2>2, <2>3, AppendSorted
  <2>5. Complete(Coming(s), last[s], nextLogSeq) =>
          /\ Complete(Append(Coming(s), 0), last[s], nextLogSeq)
          /\ Complete(Append(Coming(s), nextLogSeq + 1), last[s], nextLogSeq + 1)
    BY <1>1, <2>2, <2>3, AppendComplete
  <2>6. e = 0 => nextLogSeq' = nextLogSeq
    OBVIOUS
  <2>7. e # 0 => nextLogSeq' = nextLogSeq + 1 /\ e = nextLogSeq + 1
    OBVIOUS
  <2>8. CASE Coming(s)' = Append(Coming(s), e)
    BY <1>2, <2>1, <2>4, <2>5, <2>6, <2>7, <2>8 DEF LogsFor
  <2>9. CASE Coming(s)' = Coming(s) /\ s \in lost'
    BY <2>1, <2>3, <2>4, <2>6, <2>7, <2>9 DEF LogsFor
  <2>10. QED
    BY <1>2, <2>1, <2>8, <2>9
<1>7. ASSUME NEW s \in StatusSub, Connected(s)' PROVE StatusFor(s)'
  <2>1. Connected(s) /\ StatusFor(s) /\ Coming(s)' = Coming(s) /\ last'[s] = last[s]
    BY <1>2, <1>7, Subs DEF Connected, Inv
  <2>2. QED
    BY <1>2, <2>1, SameStatus
<1>8. CallerPublishes'
  BY DEF Inv, CallerPublishes, NoShutdown, engineVars
<1>9. QED
  BY <1>3, <1>4, <1>5, <1>6, <1>7, <1>8 DEF Inv

(* A status is published.                                                  *)
LEMMA PublishStatusStep ==
  ASSUME Inv, NEW a \in Caller, publishStatus(a)
  PROVE  Inv'
<1>1. PICK status \in unpublished[a] :
        /\ PublishStatus(status)
        /\ unpublished' = [unpublished EXCEPT ![a] = @ \ {status}]
  BY DEF publishStatus
<1>2. status \in Nat \ {0} /\ lastStatus' = status /\ broadcast(StatusSub, status)
  BY <1>1 DEF PublishStatus, KeepStatus, Inv, TypeOK
<1>3. UNCHANGED <<budget, engine, changes, caller, nextLogSeq, errors, logs>>
  BY <1>1 DEF publishStatus, PublishStatus
<1> DEFINE meant == StatusSub \cap registered
<1>4. /\ UNCHANGED <<sub, registered, wire, last, loop>>
      /\ ch' \in [Sub -> Seq(Nat)] /\ lost' \subseteq Sub /\ lost \subseteq lost'
      /\ \A s \in Sub : s \notin meant =>
            ch'[s] = ch[s] /\ Coming(s)' = Coming(s) /\ (s \in lost' => s \in lost)
      /\ \A s \in meant :
            Coming(s)' = Append(Coming(s), status) \/ (Coming(s)' = Coming(s) /\ s \in lost')
  BY <1>2, Subs, BroadcastComing DEF Inv
<1>5. TypeOK'
  BY <1>1, <1>2, <1>3, <1>4 DEF Inv, TypeOK
<1>6. Newest(logs, nextLogSeq)'
  BY <1>3 DEF Inv
<1>7. Registration'
  BY <1>2, Subs, BroadcastRegistration DEF Inv
<1>8. ASSUME NEW s \in LogSub, Connected(s)' PROVE LogsFor(s)'
  <2>1. Connected(s) /\ LogsFor(s) /\ Coming(s)' = Coming(s) /\ last'[s] = last[s]
    BY <1>4, <1>8, Subs DEF Connected, Inv
  <2>2. QED
    BY <1>3, <1>4, <2>1, SameLogs
<1>9. ASSUME NEW s \in StatusSub, Connected(s)' PROVE StatusFor(s)'
  <2>1. Connected(s) /\ s \in meant /\ StatusFor(s) /\ last'[s] = last[s]
    BY <1>4, <1>9 DEF Connected, Inv, Registration
  <2>2. Coming(s) \in Seq(Nat)
    BY Subs, ConcatProperties DEF Coming, Inv, TypeOK
  <2>3. CASE Coming(s)' = Append(Coming(s), status)
    BY <1>2, <2>1, <2>2, <2>3, AppendNat DEF StatusFor, Destined
  <2>4. CASE Coming(s)' = Coming(s) /\ s \in lost'
    BY <2>1, <2>4 DEF StatusFor
  <2>5. QED
    BY <1>4, <2>1, <2>3, <2>4
<1>10. CallerPublishes'
  BY <1>1, <1>2, <1>3 DEF Inv, TypeOK, CallerPublishes, NoShutdown, Caller
<1>11. QED
  BY <1>5, <1>6, <1>7, <1>8, <1>9, <1>10 DEF Inv

(* Steps that leave the hub's records and the windows' queues alone, but   *)
(* perhaps for a stream, and bring no new window to the hub.               *)
LEMMA FrameStep ==
  ASSUME Inv, TypeOK',
         UNCHANGED <<changes, caller, unpublished, lastStatus, nextLogSeq, logs, last, lost>>,
         \A s \in LogSub \cup StatusSub :
           /\ sub'[s] = sub[s] /\ (s \in registered <=> s \in registered')
           /\ ch'[s] = ch[s] /\ wire'[s] = wire[s]
  PROVE  Inv'
<1>1. Newest(logs, nextLogSeq)' /\ CallerPublishes'
  BY DEF Inv, CallerPublishes, NoShutdown
<1>2. Registration'
  BY DEF Inv, Registration
<1>3. ASSUME NEW s \in LogSub, Connected(s)' PROVE LogsFor(s)'
  BY <1>3, SameLogs DEF Inv, Connected, Coming
<1>4. ASSUME NEW s \in StatusSub, Connected(s)' PROVE StatusFor(s)'
  BY <1>4, SameStatus DEF Inv, Connected, Coming
<1>5. QED
  BY <1>1, <1>2, <1>3, <1>4 DEF Inv

(* Streams, and a window that has nothing to do with the hub any more.     *)
LEMMA StreamStep ==
  ASSUME Inv, NEW s \in StreamSub,
         subscribeSnapshots(s) \/ SendSnapshot(s) \/ Tick(s) \/ EndStream(s)
  PROVE  Inv'
<1> USE DEF Inv, TypeOK, unchangedHub, engineVars
<1>1. s \in Sub /\ \A t \in LogSub \cup StatusSub : t # s
  BY Subs
<1>2. CASE subscribeSnapshots(s)
  BY <1>1, <1>2, FrameStep DEF subscribeSnapshots
<1>3. CASE SendSnapshot(s)
  <2>1. Append(ch[s], 0) \in Seq(Nat)
    BY <1>1, AppendNat
  <2>2. QED
    BY <1>1, <1>3, <2>1, FrameStep DEF SendSnapshot
<1>4. CASE Tick(s)
  BY <1>1, <1>4, FrameStep DEF Tick
<1>5. CASE EndStream(s)
  BY <1>1, <1>5, FrameStep DEF EndStream
<1>6. QED
  BY <1>2, <1>3, <1>4, <1>5

(* Windows that are not connected are promised nothing.                    *)
LEMMA LeaveStep ==
  ASSUME Inv, NEW s \in Sub, removeSubscriberOnDone(s) \/ Disconnect(s)
  PROVE  Inv'
<1>1. /\ UNCHANGED <<engineVars, lastStatus, nextLogSeq, logs, ch, last, loop, lost>>
      /\ registered' \subseteq registered
      /\ \A t \in Sub \ {s} : t \in registered => t \in registered'
      /\ sub'[s] \in {"done", "left"}
      /\ sub' \in [Sub -> {"new", "open", "done", "left"}]
      /\ \A t \in Sub \ {s} : sub'[t] = sub[t] /\ wire'[t] = wire[t]
      /\ wire' \in [Sub -> Seq(Nat)]
  <2>1. CASE removeSubscriberOnDone(s)
    BY <2>1 DEF removeSubscriberOnDone, Removed, Inv, TypeOK
  <2>2. CASE Disconnect(s)
    <3>1. << >> \in Seq(Nat)
      OBVIOUS
    <3>2. QED
      BY <2>2, <3>1 DEF Disconnect, Inv, TypeOK
  <2>3. QED
    BY <2>1, <2>2
<1>2. TypeOK'
  BY <1>1 DEF Inv, TypeOK, engineVars
<1>3. Newest(logs, nextLogSeq)' /\ CallerPublishes'
  BY <1>1 DEF Inv, CallerPublishes, NoShutdown, engineVars
<1>4. Registration'
  BY <1>1, Subs DEF Inv, Registration
<1>5. ASSUME NEW t \in LogSub, Connected(t)' PROVE LogsFor(t)'
  <2>1. t # s /\ t \in Sub
    BY <1>1, <1>5, Subs DEF Connected
  <2>2. LogsFor(t) /\ Coming(t)' = Coming(t) /\ last'[t] = last[t]
    BY <1>1, <1>5, <2>1 DEF Connected, Inv, Coming
  <2>3. QED
    BY <1>1, <2>2, SameLogs
<1>6. ASSUME NEW t \in StatusSub, Connected(t)' PROVE StatusFor(t)'
  <2>1. t # s /\ t \in Sub
    BY <1>1, <1>6, Subs DEF Connected
  <2>2. StatusFor(t) /\ Coming(t)' = Coming(t) /\ last'[t] = last[t]
    BY <1>1, <1>6, <2>1 DEF Connected, Inv, Coming
  <2>3. QED
    BY <1>1, <2>2, SameStatus
<1>7. QED
  BY <1>2, <1>3, <1>4, <1>5, <1>6 DEF Inv

(* A window that subscribes begins with the ring, or the last status.      *)
LEMMA SubscribeStep ==
  ASSUME Inv, NEW s \in Sub, SubscribeStatus(s) \/ SubscribeLogs(s)
  PROVE  Inv'
<1> DEFINE replay == IF s \in LogSub THEN logs ELSE <<lastStatus>>
<1>1. s \in LogSub \cup StatusSub /\ Subscribed(s, replay)
  BY Subs DEF SubscribeStatus, SubscribeLogs, Replay
<1>2. logs \in Seq(Nat) /\ <<lastStatus>> \in Seq(Nat) /\ lastStatus \in Nat \ {0}
  BY DEF Inv, Newest, TypeOK
<1>3. /\ UNCHANGED <<engineVars, lastStatus, nextLogSeq, logs, wire, last, loop, lost>>
      /\ sub[s] = "new" /\ sub' = [sub EXCEPT ![s] = "open"] /\ registered' = registered \cup {s}
      /\ ch' = [ch EXCEPT ![s] = replay]
  BY <1>1 DEF Subscribed
<1>4. TypeOK'
  BY <1>2, <1>3 DEF Inv, TypeOK, engineVars
<1>5. Newest(logs, nextLogSeq)' /\ CallerPublishes'
  BY <1>3 DEF Inv, CallerPublishes, NoShutdown, engineVars
<1>6. Registration'
  BY <1>3, Subs DEF Inv, TypeOK, Registration
<1>7. Coming(s)' = replay /\ last'[s] = 0
  BY <1>1, <1>2, <1>3, ConcatEmptySeq DEF Coming, Inv, Registration, TypeOK
<1>8. ASSUME NEW t \in LogSub, Connected(t)' PROVE LogsFor(t)'
  <2>1. CASE t = s
    BY <1>3, <1>7, <2>1, ReplaySorted DEF Inv, LogsFor
  <2>2. CASE t # s
    <3>1. LogsFor(t) /\ Coming(t)' = Coming(t) /\ last'[t] = last[t]
      BY <1>3, <1>8, <2>2, Subs DEF Connected, Inv, TypeOK, Coming
    <3>2. QED
      BY <1>3, <3>1, SameLogs
  <2>3. QED
    BY <2>1, <2>2
<1>9. ASSUME NEW t \in StatusSub, Connected(t)' PROVE StatusFor(t)'
  <2>1. CASE t = s
    <3>1. Coming(t)' = <<lastStatus>>
      BY <1>7, <1>9, <2>1, Subs
    <3>2. QED
      BY <1>2, <1>3, <3>1 DEF StatusFor, Destined
  <2>2. CASE t # s
    <3>1. StatusFor(t) /\ Coming(t)' = Coming(t) /\ last'[t] = last[t]
      BY <1>3, <1>9, <2>2, Subs DEF Connected, Inv, TypeOK, Coming
    <3>2. QED
      BY <1>3, <3>1, SameStatus
  <2>3. QED
    BY <2>1, <2>2
<1>10. QED
  BY <1>4, <1>5, <1>6, <1>8, <1>9 DEF Inv

(* The server passes an event on, and the order of all stays what it was.  *)
LEMMA ServeStep ==
  ASSUME Inv, NEW s \in Sub, serveSubscription(s)
  PROVE  Inv'
<1>1. /\ UNCHANGED <<engineVars, lastStatus, nextLogSeq, logs, sub, registered, last, loop, lost>>
      /\ wire' = [wire EXCEPT ![s] = Append(@, Head(ch[s]))]
      /\ ch' = [ch EXCEPT ![s] = Tail(@)]
      /\ sub[s] = "open" /\ ch[s] # << >>
  BY DEF serveSubscription
<1>2. /\ ch[s] \in Seq(Nat) /\ wire[s] \in Seq(Nat)
      /\ Head(ch[s]) \in Nat /\ Tail(ch[s]) \in Seq(Nat)
      /\ Append(wire[s], Head(ch[s])) \in Seq(Nat)
  BY <1>1, HeadTailProperties, AppendNat DEF Inv, TypeOK
<1>3. TypeOK'
  BY <1>1, <1>2 DEF Inv, TypeOK, engineVars
<1>4. Newest(logs, nextLogSeq)' /\ CallerPublishes'
  BY <1>1 DEF Inv, CallerPublishes, NoShutdown, engineVars
<1>5. Registration'
  BY <1>1, Subs DEF Inv, TypeOK, Registration
<1>6. \A t \in Sub : Coming(t)' = Coming(t)
  <2> SUFFICES ASSUME NEW t \in Sub PROVE Coming(t)' = Coming(t)
    OBVIOUS
  <2>1. CASE t = s
    BY <1>1, <1>2, <2>1, MoveHead DEF Coming, Inv, TypeOK
  <2>2. CASE t # s
    BY <1>1, <2>2 DEF Coming, Inv, TypeOK
  <2>3. QED
    BY <2>1, <2>2
<1>7. ASSUME NEW t \in LogSub, Connected(t)' PROVE LogsFor(t)'
  BY <1>1, <1>6, <1>7, Subs, SameLogs DEF Connected, Inv
<1>8. ASSUME NEW t \in StatusSub, Connected(t)' PROVE StatusFor(t)'
  BY <1>1, <1>6, <1>8, Subs, SameStatus DEF Connected, Inv
<1>9. QED
  BY <1>3, <1>4, <1>5, <1>7, <1>8 DEF Inv

(* A window reads the next event.                                          *)
LEMMA ReadStep ==
  ASSUME Inv, NEW s \in Sub, ReadEvent(s)
  PROVE  Inv'
<1> DEFINE read == IF Head(wire[s]) = 0 THEN last[s] ELSE Head(wire[s])
<1>1. /\ UNCHANGED <<engineVars, lastStatus, nextLogSeq, logs, sub, registered, ch, loop, lost>>
      /\ wire' = [wire EXCEPT ![s] = Tail(@)] /\ last' = [last EXCEPT ![s] = read]
      /\ sub[s] = "open" /\ wire[s] # << >>
  BY DEF ReadEvent
<1>2. /\ ch[s] \in Seq(Nat) /\ wire[s] \in Seq(Nat) /\ last[s] \in Nat
      /\ Head(wire[s]) \in Nat /\ Tail(wire[s]) \in Seq(Nat)
  BY <1>1, HeadTailProperties DEF Inv, TypeOK
<1>3. TypeOK'
  BY <1>1, <1>2 DEF Inv, TypeOK, engineVars
<1>4. Newest(logs, nextLogSeq)' /\ CallerPublishes'
  BY <1>1 DEF Inv, CallerPublishes, NoShutdown, engineVars
<1>5. Registration'
  BY <1>1, Subs DEF Inv, TypeOK, Registration
<1>6. /\ Coming(s) \in Seq(Nat) /\ Coming(s) # << >> /\ Head(Coming(s)) = Head(wire[s])
      /\ Coming(s)' = Tail(Coming(s)) /\ last'[s] = read
  <2>1. wire'[s] = Tail(wire[s]) /\ ch'[s] = ch[s] /\ last'[s] = read
    BY <1>1 DEF Inv, TypeOK
  <2>2. QED
    BY <1>1, <1>2, <2>1, ReadHead, ConcatProperties DEF Coming
<1>7. \A t \in Sub \ {s} : Coming(t)' = Coming(t) /\ last'[t] = last[t]
  BY <1>1 DEF Coming, Inv, TypeOK
<1>8. ASSUME NEW t \in LogSub, Connected(t)' PROVE LogsFor(t)'
  <2>1. LogsFor(t)
    BY <1>1, <1>8 DEF Connected, Inv
  <2>2. CASE t = s
    <3>1. nextLogSeq \in Nat /\ Sorted(Coming(s), last[s], nextLogSeq)
      BY <2>1, <2>2 DEF LogsFor, Inv, Newest
    <3>2. /\ Sorted(Tail(Coming(s)), read, nextLogSeq)
          /\ Complete(Coming(s), last[s], nextLogSeq) => Complete(Tail(Coming(s)), read, nextLogSeq)
      BY <1>2, <1>6, <3>1, ReadSorted
    <3> HIDE DEF read
    <3>3. QED
      BY <1>1, <1>6, <2>1, <2>2, <3>2 DEF LogsFor
  <2>3. CASE t # s
    BY <1>1, <1>7, <2>1, <2>3, Subs, SameLogs
  <2>4. QED
    BY <2>2, <2>3
<1>9. ASSUME NEW t \in StatusSub, Connected(t)' PROVE StatusFor(t)'
  <2>1. StatusFor(t)
    BY <1>1, <1>9 DEF Connected, Inv
  <2>2. CASE t = s
    <3> DEFINE q == Coming(s)
    <3>1. /\ Len(q) \in Nat \ {0} /\ Len(Tail(q)) = Len(q) - 1 /\ Tail(q) \in Seq(Nat)
          /\ \A i \in 1..(Len(q) - 1) : Tail(q)[i] = q[i + 1]
          /\ Head(q) = q[1]
      BY <1>6, HeadTailProperties, EmptySeq
    <3>2. q[1] # 0 /\ read = q[1]
      BY <1>6, <2>1, <2>2, <3>1 DEF StatusFor
    <3>3. \A i \in 1..Len(Tail(q)) : Tail(q)[i] # 0
      BY <2>1, <2>2, <3>1 DEF StatusFor
    <3>4. (IF Tail(q) = << >> THEN read ELSE Tail(q)[Len(Tail(q))]) = Destined(s)
      <4>1. CASE Tail(q) = << >>
        <5>1. Len(Tail(q)) = 0
          BY <4>1, EmptySeq
        <5>2. Len(q) = 1
          <6>1. Len(Tail(q)) = Len(q) - 1 /\ Len(q) \in Nat
            BY <3>1
          <6>2. QED
            BY <5>1, <6>1
        <5>3. QED
          BY <1>6, <3>2, <4>1, <5>2 DEF Destined
      <4>2. CASE Tail(q) # << >>
        <5>1. Len(q) - 1 \in 1..(Len(q) - 1)
          BY <3>1, <4>2, EmptySeq
        <5>2. Tail(q)[Len(q) - 1] = q[(Len(q) - 1) + 1]
          BY <3>1, <5>1
        <5>3. QED
          BY <1>6, <3>1, <4>2, <5>2 DEF Destined
      <4>3. QED
        BY <4>1, <4>2
    <3>5. QED
      BY <1>1, <1>6, <2>1, <2>2, <3>3, <3>4 DEF StatusFor, Destined
  <2>3. CASE t # s
    BY <1>1, <1>7, <2>1, <2>3, Subs, SameStatus
  <2>4. QED
    BY <2>2, <2>3
<1>10. QED
  BY <1>3, <1>4, <1>5, <1>8, <1>9 DEF Inv

(* A caller changes the status once it has published the change before.    *)
LEMMA ChangeStep ==
  ASSUME Inv, NEW a \in Caller, NEW state, NEW owner,
         NEW next \in {"none", "start", "owner", "stop", "end"}, Change(a, state, owner, next),
         a = "shutdown" => next # "none"
  PROVE  Inv'
<1>1. /\ unpublished[a] = {} /\ changes' = changes + 1
      /\ caller' = [caller EXCEPT ![a] = next]
      /\ unpublished' = [unpublished EXCEPT ![a] = @ \cup {changes + 1}]
      /\ UNCHANGED <<lastStatus, nextLogSeq, logs, subVars>>
  BY DEF Change, Published
<1>2. TypeOK'
  BY <1>1 DEF Inv, TypeOK, subVars
<1>3. Newest(logs, nextLogSeq)' /\ Registration'
  BY <1>1 DEF Inv, Registration, subVars
<1>4. ASSUME NEW s \in LogSub, Connected(s)' PROVE LogsFor(s)'
  BY <1>1, <1>4, SameLogs DEF Inv, Connected, Coming, subVars
<1>5. ASSUME NEW s \in StatusSub, Connected(s)' PROVE StatusFor(s)'
  BY <1>1, <1>5, SameStatus DEF Inv, Connected, Coming, subVars
<1>6. CallerPublishes'
  BY <1>1 DEF Inv, TypeOK, CallerPublishes, NoShutdown, Caller
<1>7. QED
  BY <1>2, <1>3, <1>4, <1>5, <1>6 DEF Inv

LEMMA InvStep == Inv /\ [Next]_vars => Inv'
<1> SUFFICES ASSUME Inv, [Next]_vars PROVE Inv'
  OBVIOUS
<1>1. CASE BeginStart \/ MakeOwner \/ FinishStart
  <2>1. \E state, owner : \E next \in {"none", "start", "owner"} :
          Change("call", state, owner, next)
    BY <1>1 DEF BeginStart, MakeOwner, FinishStart
  <2>2. "call" \in Caller /\ "call" # "shutdown"
    BY DEF Caller
  <2>3. QED
    BY <2>1, <2>2, ChangeStep
<1>2. ASSUME NEW a \in Caller, BeginStop(a) \/ FinishStop(a) PROVE Inv'
  <2>1. \E state, owner : \E next \in {"none", "stop", "end"} :
          Change(a, state, owner, next) /\ (a = "shutdown" => next # "none")
    BY <1>2 DEF BeginStop, FinishStop
  <2>2. QED
    BY <2>1, ChangeStep
<1>3. ASSUME NEW a \in Caller, publishStatus(a) PROVE Inv'
  BY <1>3, PublishStatusStep
<1>4. CASE PublishRuntimeLog
  <2>1. nextLogSeq + 1 # 0
    BY DEF Inv, Newest
  <2>2. QED
    BY <1>4, <2>1, PublishLogStep DEF PublishRuntimeLog
<1>5. CASE PublishBridgeError
  BY <1>5, PublishLogStep DEF PublishBridgeError
<1>6. ASSUME NEW s \in Sub, SubscribeStatus(s) \/ SubscribeLogs(s) PROVE Inv'
  BY <1>6, SubscribeStep
<1>7. ASSUME NEW s \in Sub, removeSubscriberOnDone(s) \/ Disconnect(s) PROVE Inv'
  BY <1>7, LeaveStep
<1>8. ASSUME NEW s \in StreamSub,
             subscribeSnapshots(s) \/ SendSnapshot(s) \/ Tick(s) \/ EndStream(s)
      PROVE  Inv'
  BY <1>8, StreamStep
<1>9. ASSUME NEW s \in Sub, serveSubscription(s) PROVE Inv'
  BY <1>9, ServeStep
<1>10. ASSUME NEW s \in Sub, ReadEvent(s) PROVE Inv'
  BY <1>10, ReadStep
<1>11. CASE UNCHANGED vars
  <2>1. TypeOK'
    BY <1>11 DEF vars, engineVars, subVars, Inv, TypeOK
  <2>2. QED
    BY <1>11, <2>1, FrameStep DEF vars, engineVars, subVars
<1>12. QED
  BY <1>1, <1>2, <1>3, <1>4, <1>5, <1>6, <1>7, <1>8, <1>9, <1>10, <1>11 DEF Next, EngineStep

LEMMA InvHolds == Spec => []Inv
<1>1. Init => Inv
  <2> SUFFICES ASSUME Init PROVE Inv
    OBVIOUS
  <2>1. TypeOK
    BY DEF Init, TypeOK
  <2>2. Newest(logs, nextLogSeq)
    BY DEF Init, Newest
  <2>3. Registration
    BY Subs DEF Init, Registration
  <2>4. \A s \in Sub : ~Connected(s)
    BY DEF Init, Connected
  <2>5. CallerPublishes
    BY DEF Init, CallerPublishes, Caller
  <2>6. QED
    BY <2>1, <2>2, <2>3, <2>4, <2>5, Subs DEF Inv
<1>2. QED
  BY <1>1, InvStep, PTL DEF Spec

-----------------------------------------------------------------------------
(* What the windows see                                                    *)

(* Types, in the hub and on the way to the windows.                        *)
THEOREM TypeCorrect == Spec => []TypeOK
<1>1. Inv => TypeOK
  BY DEF Inv
<1>2. QED
  BY <1>1, InvHolds, PTL

(* However small the ring and the channels are, a window reads the log in  *)
(* order, and without a gap unless an event found its channel full.        *)
THEOREM WindowReadsLogsInOrder == Spec => []LogsInOrder
<1>1. Inv => LogsInOrder
  BY DEF Inv, LogsInOrder, LogsFor, Sorted
<1>2. QED
  BY <1>1, InvHolds, PTL

(* Whenever a window subscribes, the last status it is to read is the last *)
(* of the hub, which is the engine's once the caller has published.        *)
THEOREM WindowReachesStatus == Spec => []StatusReaches
<1>1. Inv => StatusReaches
  <2> SUFFICES ASSUME Inv, NEW s \in StatusSub, Connected(s), s \notin lost
               PROVE  Destined(s) = lastStatus /\ (Settled => lastStatus = changes)
    BY DEF StatusReaches
  <2>1. Destined(s) = lastStatus
    BY DEF Inv, StatusFor
  <2>2. ASSUME Settled PROVE lastStatus = changes
    BY <2>2 DEF Inv, CallerPublishes, Settled, Caller
  <2>3. QED
    BY <2>1, <2>2
<1>2. QED
  BY <1>1, InvHolds, PTL

-----------------------------------------------------------------------------
(* Windows, their sessions with the daemon, and the tray                   *)

LEMMA BridgeParts ==
  /\ \A w \in Window : \A n \in 1..MaxLoads[w] : <<w, n>> \in Bridge
  /\ \A b \in Bridge : b \in Session
  /\ NoSession \in Session
BY DEF Bridge, Session, NoSession

LEMMA WindowTypes ==
  ASSUME SessionTypeOK, NEW w \in Window,
         \/ StartRuntimeEventBridge(w) \/ HelloFails(w)
         \/ StopRuntimeEventBridge(w) \/ WindowExit(w)
  PROVE  SessionTypeOK'
<1> USE DEF SessionTypeOK
<1>1. MaxLoads[w] \in Nat /\ loads[w] \in Nat
  BY WindowAssumption
<1>2. loads[w] < MaxLoads[w] => <<w, loads[w] + 1>> \in Bridge
  BY <1>1, BridgeParts
<1>3. Previous(w) \subseteq Bridge
  BY DEF Previous
<1>4. CASE StartRuntimeEventBridge(w)
  <2>1. /\ loads' = [loads EXCEPT ![w] = loads[w] + 1]
        /\ eventCancel' = [eventCancel EXCEPT ![w] = loads[w] + 1]
        /\ bridge' = [bridge EXCEPT ![<<w, loads[w] + 1>>] = "subscribing"]
        /\ cancelled' = cancelled \cup Previous(w) /\ loads[w] < MaxLoads[w]
        /\ UNCHANGED <<window, request, session, windowSess, shows, click, pending, clearer>>
    BY <1>4 DEF StartRuntimeEventBridge, daemonVars, trayVars
  <2>2. \A v \in Window : eventCancel'[v] <= loads'[v] /\ loads'[v] <= MaxLoads[v]
    BY <1>1, <2>1
  <2>3. QED
    BY <1>2, <1>3, <2>1, <2>2
<1>5. CASE HelloFails(w)
  <2>1. /\ loads' = [loads EXCEPT ![w] = loads[w] + 1] /\ loads[w] < MaxLoads[w]
        /\ bridge' = [bridge EXCEPT ![<<w, loads[w] + 1>>] = "ended"]
        /\ UNCHANGED <<window, eventCancel, cancelled, request, session, windowSess, shows,
                       click, pending, clearer>>
    BY <1>5 DEF HelloFails, daemonVars, trayVars
  <2>2. \A v \in Window : eventCancel'[v] <= loads'[v] /\ loads'[v] <= MaxLoads[v]
    BY <1>1, <2>1
  <2>3. QED
    BY <1>2, <2>1, <2>2
<1>6. CASE StopRuntimeEventBridge(w)
  BY <1>1, <1>3, <1>6 DEF StopRuntimeEventBridge, daemonVars, trayVars
<1>7. CASE WindowExit(w)
  BY <1>1, <1>7 DEF WindowExit, daemonVars, trayVars
<1>8. QED
  BY <1>4, <1>5, <1>6, <1>7

LEMMA BridgeTypes ==
  ASSUME SessionTypeOK, NEW b \in Bridge,
         \/ Attach(b) \/ SubscriptionFails(b) \/ Attached(b)
         \/ AttachTimesOut(b) \/ CancelCloses(b) \/ StreamEnds(b)
  PROVE  SessionTypeOK'
BY DEF SessionTypeOK, Attach, SubscriptionFails, Attached, AttachTimesOut, CancelCloses, StreamEnds,
       Ended, daemonVars, trayVars

LEMMA DaemonTypes == SessionTypeOK /\ DaemonStep => SessionTypeOK'
<1> SUFFICES ASSUME SessionTypeOK, NEW b \in Bridge,
                    WindowAttach(b) \/ ConnectionEnds(b) \/ CleanUp(b) \/ ShowWindow(b)
             PROVE  SessionTypeOK'
  BY DEF DaemonStep
<1>1. CASE WindowAttach(b)
  BY <1>1, BridgeParts DEF SessionTypeOK, WindowAttach, trayVars
<1>2. CASE ConnectionEnds(b)
  BY <1>2 DEF SessionTypeOK, ConnectionEnds, windowVars, trayVars
<1>3. CASE CleanUp(b)
  BY <1>3, BridgeParts, WindowAssumption DEF SessionTypeOK, CleanUp, Without, windowVars, trayVars
<1>4. CASE ShowWindow(b)
  BY <1>4, WindowAssumption DEF SessionTypeOK, ShowWindow, windowVars, trayVars
<1>5. QED
  BY <1>1, <1>2, <1>3, <1>4

LEMMA TrayTypes == SessionTypeOK /\ TrayStep => SessionTypeOK'
<1> SUFFICES ASSUME SessionTypeOK, TrayStep PROVE SessionTypeOK'
  OBVIOUS
<1> USE DEF SessionTypeOK
<1>1. CASE openWindow
  <2>1. UNCHANGED <<window, loads, eventCancel, bridge, cancelled, request, session, windowSess,
                    pending, clearer>>
    BY <1>1 DEF openWindow, windowVars
  <2>2. shows' \in [Bridge -> 0..ShowLimit] /\ click' \in BOOLEAN
    <3>1. CASE windowSess = NoSession
      BY <1>1, <3>1 DEF openWindow
    <3>2. CASE windowSess # NoSession /\ ~HasRoom(windowSess)
      BY <1>1, <3>2 DEF openWindow
    <3>3. CASE windowSess # NoSession /\ HasRoom(windowSess)
      <4>1. windowSess \in Bridge /\ shows' = [shows EXCEPT ![windowSess] = shows[windowSess] + 1]
        BY <1>1, <3>3 DEF openWindow, Session, NoSession
      <4>2. shows[windowSess] \in 0..ShowLimit /\ shows[windowSess] < ShowLimit /\ ShowLimit \in Nat
        BY <3>3, <4>1, WindowAssumption DEF HasRoom
      <4>3. shows[windowSess] + 1 \in 0..ShowLimit
        BY <4>2
      <4>4. QED
        BY <1>1, <3>3, <4>1, <4>3 DEF openWindow
    <3>4. QED
      BY <3>1, <3>2, <3>3
  <2>3. QED
    BY <2>1, <2>2
<1>2. CASE LaunchPending \/ SpawnFails \/ LaunchAttached \/ LaunchTimesOut
  BY <1>2 DEF LaunchPending, SpawnFails, PendingAfterFailure, LaunchAttached, LaunchTimesOut,
              endWindowLaunch, windowVars, daemonVars
<1>3. ASSUME NEW w \in Window, spawnQKBoxWindow(w) PROVE SessionTypeOK'
  BY <1>3 DEF spawnQKBoxWindow, daemonVars
<1>4. QED
  BY <1>1, <1>2, <1>3 DEF TrayStep

LEMMA WindowTypeStep == SessionTypeOK /\ [SessionNext]_sessionVars => SessionTypeOK'
<1>1. SessionTypeOK /\ UNCHANGED sessionVars => SessionTypeOK'
  BY DEF SessionTypeOK, sessionVars, windowVars, daemonVars, trayVars
<1>2. QED
  BY <1>1, WindowTypes, BridgeTypes, DaemonTypes, TrayTypes DEF SessionNext

(* Every variable of windows, daemon and tray keeps its type.              *)
THEOREM WindowTypeCorrect == SessionSpec => []SessionTypeOK
<1>1. ASSUME SessionInit PROVE SessionTypeOK
  <2>1. ASSUME NEW w \in Window PROVE eventCancel[w] <= loads[w] /\ loads[w] <= MaxLoads[w]
    <3>1. eventCancel[w] = 0 /\ loads[w] = 0
      BY <1>1 DEF SessionInit
    <3>2. MaxLoads[w] \in Nat
      BY WindowAssumption
    <3>3. QED
      BY <3>1, <3>2
  <2>2. shows \in [Bridge -> 0..ShowLimit]
    BY <1>1, WindowAssumption DEF SessionInit
  <2>3. QED
    BY <1>1, <2>1, <2>2, BridgeParts DEF SessionInit, SessionTypeOK
<1>2. QED
  BY <1>1, WindowTypeStep, PTL DEF SessionSpec

LEMMA WindowSessionStep ==
  SessionTypeOK /\ OneSessionLives /\ [SessionNext]_sessionVars => OneSessionLives'
<1> SUFFICES ASSUME SessionTypeOK, OneSessionLives, [SessionNext]_sessionVars PROVE OneSessionLives'
  OBVIOUS
<1> USE DEF OneSessionLives
<1>1. CASE UNCHANGED <<session, windowSess>>
  BY <1>1
<1>2. ASSUME NEW b \in Bridge, WindowAttach(b) PROVE OneSessionLives'
  <2>1. windowSess' = b
    BY <1>2 DEF WindowAttach
  <2>2. ASSUME NEW s \in Bridge, s # b PROVE session'[s] # "live"
    BY <1>2, <2>2 DEF WindowAttach, EndedByAttach
  <2>3. QED
    BY <2>1, <2>2
<1>3. ASSUME NEW b \in Bridge, ConnectionEnds(b) PROVE OneSessionLives'
  BY <1>3 DEF ConnectionEnds, SessionTypeOK
<1>4. ASSUME NEW b \in Bridge, CleanUp(b) PROVE OneSessionLives'
  <2>1. \A s \in Bridge : session'[s] = "live" => session[s] = "live" /\ s # b
    BY <1>4 DEF CleanUp, SessionTypeOK
  <2>2. windowSess' = IF windowSess = b THEN NoSession ELSE windowSess
    BY <1>4 DEF CleanUp, Without
  <2>3. QED
    BY <2>1, <2>2
<1>5. ASSUME NEW b \in Bridge, ShowWindow(b) PROVE OneSessionLives'
  BY <1>1, <1>5 DEF ShowWindow
<1>6. CASE TrayStep
  BY <1>1, <1>6 DEF TrayStep, openWindow, LaunchPending, SpawnFails, LaunchAttached, LaunchTimesOut,
                    spawnQKBoxWindow, endWindowLaunch, daemonVars
<1>7. ASSUME NEW w \in Window, \/ StartRuntimeEventBridge(w) \/ HelloFails(w)
                               \/ StopRuntimeEventBridge(w) \/ WindowExit(w)
      PROVE  OneSessionLives'
  BY <1>1, <1>7 DEF StartRuntimeEventBridge, HelloFails, StopRuntimeEventBridge, WindowExit, daemonVars
<1>8. ASSUME NEW b \in Bridge, \/ Attach(b) \/ SubscriptionFails(b) \/ Attached(b)
                               \/ AttachTimesOut(b) \/ CancelCloses(b) \/ StreamEnds(b)
      PROVE  OneSessionLives'
  BY <1>1, <1>8 DEF Attach, SubscriptionFails, Attached, AttachTimesOut, CancelCloses, StreamEnds,
                    Ended, daemonVars
<1>9. CASE UNCHANGED sessionVars
  BY <1>1, <1>9 DEF sessionVars, daemonVars
<1>10. QED
  BY <1>2, <1>3, <1>4, <1>5, <1>6, <1>7, <1>8, <1>9 DEF SessionNext, DaemonStep

(* However many windows attach, reload and go, only the session the daemon *)
(* holds lives, and the late clean-up of one that was replaced spares it.  *)
THEOREM OneLives == SessionSpec => []OneSessionLives
<1>1. SessionInit => OneSessionLives
  BY DEF SessionInit, OneSessionLives
<1>2. QED
  BY <1>1, WindowTypeCorrect, WindowSessionStep, PTL DEF SessionSpec
=============================================================================
