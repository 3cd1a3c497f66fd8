------------------------ MODULE AgentDelivery_proofs ------------------------
(***************************************************************************)
(* A result is delivered once, for any number of results and faults and    *)
(* any size of the batch, the spool and the buffer.  What makes it so is   *)
(* an order: the agent holds results from old to new, from the spool over  *)
(* the batch under way to the memory, and always sends from the front, so  *)
(* the server's guard never passes a result that is still to come (Order,  *)
(* Closed, Guarded).  An update's flush in the middle of a check-in breaks *)
(* the order; what the agent holds at that time is older than what it      *)
(* measures later, so the order holds of the rest.                         *)
(***************************************************************************)
EXTENDS AgentDelivery, FiniteSetTheorems, SequenceTheorems, TLAPS

Line   == Results \cup {Torn, Garbled}
Held   == Lines(Range(spool)) \cup Range(InFlight) \cup Range(buf)
Queued == sampleBuf \cup UNION Range(writes)
Stored == Queued \cup {t \in Results : table[t] > 0}
Exempt == dropped \cup raced

\* What TypeOK leaves open: a check-in that is over leaves nothing behind, a live
\* batch is of results, and fits the spool; nothing is ahead of the sensor.
Shape ==
    /\ req = [state |-> req.state, origin |-> req.origin, batch |-> req.batch]
    /\ req.state = "none" => req = NoReq
    /\ req.origin = "live" => req.batch \in Seq(Results) /\ Len(req.batch) <= BatchMax
    /\ InFlight # <<>> => Len(spool) <= Cap
    /\ Len(buf) <= made
    /\ Held \cup Stored \cup Sent(req.batch) \cup UNION late \subseteq 1..made /\ last <= made
    /\ raced \subseteq 1..made

\* The server: no two copies of a result, and none newer than its guard.
Once ==
    /\ \A i, j \in DOMAIN writes : i # j => writes[i] \cap writes[j] = {}
    /\ sampleBuf \cap UNION Range(writes) = {}
    /\ \A t \in Results : table[t] <= 1 /\ (table[t] = 1 => t \notin Queued)
    /\ \A t \in Stored : t <= Seed
    /\ last = Unset => Queued = {}

\* What is at the agent is in the order in which it was measured, from the spool
\* over the batch to the memory, but for what an update's flush raced with.
Rising(s, out)    == \A i, j \in DOMAIN s :
                        i < j /\ {s[i], s[j]} \subseteq Results \ out => s[i] <= s[j]
Before(S, T, out) == \A s \in S, t \in T : {s, t} \subseteq Results \ out => s <= t
Order ==
    /\ Rising(spool, raced) /\ Rising(InFlight, raced) /\ Rising(buf, raced)
    /\ Before(Range(spool), Range(InFlight), raced) /\ Before(Range(spool), Range(buf), raced)
    /\ Before(Range(InFlight), Range(buf), raced)
    /\ \A t \in Held \ raced, r \in raced : r <= t

\* A batch that was read from the spool is still its head, unless an update's
\* flush came in between.
Ahead ==
    req.origin = "spool" =>
        \/ Len(req.batch) <= Len(spool) /\ req.batch = SubSeq(spool, 1, Len(req.batch))
        \/ Lines(Range(spool)) \cup Sent(req.batch) \subseteq raced

\* What the agent holds is newer than the guard, or it is stored ...
Guarded == \A t \in Held \ Exempt : t <= Seed => t \in Stored

\* ... and a batch that may still arrive has what is held up to its newest result.
Pending == late \cup (IF req.state = "sent" THEN {Sent(req.batch)} ELSE {})
Closed  == \A batch \in Pending :
              \A t \in Held \ (Exempt \cup Stored), b \in batch : t <= b => t \in batch
Arrived == req.state = "answered" => Sent(req.batch) \subseteq Stored \cup Exempt

\* NoLoss, by sets.
Account == 1..made \subseteq Held \cup Stored \cup Exempt

IInv == TypeOK /\ Shape /\ Once /\ Order /\ Ahead /\ Guarded /\ Closed /\ Arrived /\ Account
-----------------------------------------------------------------------------
(* Numbers and sequences.                                                  *)

LEMMA MaxFound ==
  ASSUME NEW S \in SUBSET Nat, S # {}, NEW n \in Nat, \A s \in S : s <= n
  PROVE  Max(S) \in S /\ \A s \in S : s <= Max(S)
<1> DEFINE Above == {u \in Nat : \A s \in S : s <= u}
<1>1. \E u \in Above : \A v \in Above : ~(<<v, u>> \in OpToRel(<, Nat))
    BY NatLessThanWellFounded, WFMin
<1>2. PICK u \in Above : \A v \in Above : ~(v < u)
    BY <1>1 DEF OpToRel
<1>3. u \in S
  <2>1. CASE u = 0
    <3>1. PICK s \in S : TRUE OBVIOUS
    <3>2. s \in Nat /\ s <= 0 BY <2>1, <1>2
    <3> QED BY <2>1, <3>2
  <2>2. CASE u # 0
    <3>1. u - 1 \in Nat /\ u - 1 \notin Above BY <1>2, <2>2
    <3>2. PICK s \in S : ~(s <= u - 1) BY <3>1
    <3> QED BY <1>2, <3>2
  <2> QED BY <2>1, <2>2
<1>4. \E x \in S : \A y \in S : x >= y BY <1>3
<1> HIDE DEF Above
<1>5. Max(S) \in S /\ \A y \in S : Max(S) >= y
    BY <1>4 DEF Max
<1> QED BY <1>5

LEMMA MinFound ==
  ASSUME NEW m \in Nat, NEW n \in Nat
  PROVE  Min({m, n}) = IF m <= n THEN m ELSE n
BY DEF Min

LEMMA BoundedIsSeq ==
  ASSUME NEW S, NEW n \in Nat, NEW s
  PROVE  s \in BoundedSeq(S, n) <=> s \in Seq(S) /\ Len(s) <= n
<1>1. ASSUME s \in BoundedSeq(S, n) PROVE s \in Seq(S) /\ Len(s) <= n
  <2>1. PICK m \in 0..n : s \in [1..m -> S] BY <1>1 DEF BoundedSeq, SeqOf
  <2> QED BY <2>1
<1>2. ASSUME s \in Seq(S), Len(s) <= n PROVE s \in BoundedSeq(S, n)
  <2>1. s \in [1..Len(s) -> S] /\ Len(s) \in 0..n BY <1>2
  <2> QED BY <2>1 DEF BoundedSeq, SeqOf
<1> QED BY <1>1, <1>2

LEMMA DropDoes ==
  ASSUME NEW S, NEW s \in Seq(S), NEW n \in Nat
  PROVE  /\ Drop(s, n) \in Seq(S) /\ Len(Drop(s, n)) = IF n <= Len(s) THEN Len(s) - n ELSE 0
         /\ \A i \in 1..Len(Drop(s, n)) : Drop(s, n)[i] = s[i + n]
         /\ Range(Drop(s, n)) \subseteq Range(s)
         /\ \A x \in Range(s) \ Range(Drop(s, n)) : \E i \in 1..Len(s) : i <= n /\ x = s[i]
<1>1. /\ Drop(s, n) \in Seq(S) /\ Len(Drop(s, n)) = IF n <= Len(s) THEN Len(s) - n ELSE 0
      /\ \A i \in 1..Len(Drop(s, n)) : Drop(s, n)[i] = s[i + n]
  <2>1. \A i \in n + 1 .. Len(s) : s[i] \in S OBVIOUS
  <2> QED BY <2>1, SubSeqProperties DEF Drop
<1>2. Range(Drop(s, n)) \subseteq Range(s) BY <1>1 DEF Range
<1>3. ASSUME NEW x \in Range(s) \ Range(Drop(s, n))
      PROVE  \E i \in 1..Len(s) : i <= n /\ x = s[i]
  <2>1. PICK i \in 1..Len(s) : x = s[i] BY DEF Range
  <2>2. ASSUME i > n PROVE FALSE
    <3>1. i - n \in 1..Len(Drop(s, n)) /\ Drop(s, n)[i - n] = x BY <1>1, <2>1, <2>2
    <3> QED BY <1>1, <3>1 DEF Range
  <2> QED BY <2>1, <2>2
<1> QED BY <1>1, <1>2, <1>3

LEMMA FirstDoes ==
  ASSUME NEW S, NEW s \in Seq(S), NEW n \in 0..Len(s)
  PROVE  /\ SubSeq(s, 1, n) \in Seq(S) /\ Len(SubSeq(s, 1, n)) = n
         /\ \A i \in 1..n : SubSeq(s, 1, n)[i] = s[i]
         /\ Range(SubSeq(s, 1, n)) = {s[i] : i \in 1..n}
         /\ Range(SubSeq(s, 1, n)) \subseteq Range(s)
         /\ Range(s) = Range(SubSeq(s, 1, n)) \cup Range(Drop(s, n))
<1>1. /\ SubSeq(s, 1, n) \in Seq(S) /\ Len(SubSeq(s, 1, n)) = n
      /\ \A i \in 1..n : SubSeq(s, 1, n)[i] = s[i]
  <2>1. \A i \in 1..n : s[i] \in S OBVIOUS
  <2> QED BY <2>1, SubSeqProperties
<1>2. Range(SubSeq(s, 1, n)) = {s[i] : i \in 1..n}
  <2> DEFINE first == SubSeq(s, 1, n)
  <2>1. first \in Seq(S) /\ Len(first) = n /\ \A i \in 1..n : first[i] = s[i] BY <1>1
  <2> HIDE DEF first
  <2>2. DOMAIN first = 1..n BY <2>1
  <2>3. Range(first) = {s[i] : i \in 1..n} BY <2>1, <2>2 DEF Range
  <2> QED BY <2>3 DEF first
<1>4. Range(SubSeq(s, 1, n)) \subseteq Range(s) BY <1>2 DEF Range
<1>5. Range(Drop(s, n)) \subseteq Range(s) BY DropDoes
<1>3. Range(s) \subseteq Range(SubSeq(s, 1, n)) \cup Range(Drop(s, n))
  <2> SUFFICES ASSUME NEW x \in Range(s) \ Range(Drop(s, n)) PROVE x \in Range(SubSeq(s, 1, n))
      OBVIOUS
  <2>1. PICK i \in 1..Len(s) : i <= n /\ x = s[i] BY DropDoes
  <2> QED BY <1>2, <2>1
<1> QED BY <1>1, <1>2, <1>3, <1>4, <1>5

LEMMA Joins ==
  ASSUME NEW S, NEW s \in Seq(S), NEW t \in Seq(S)
  PROVE  Range(s \o t) = Range(s) \cup Range(t)
BY RangeConcatenation

LEMMA RisingDrop ==
  ASSUME NEW S, NEW s \in Seq(S), NEW n \in Nat, NEW out, Rising(s, out)
  PROVE  Rising(Drop(s, n), out)
<1> DEFINE t == Drop(s, n)
<1>1. /\ t \in Seq(S) /\ Len(t) = IF n <= Len(s) THEN Len(s) - n ELSE 0
      /\ \A i \in 1..Len(t) : t[i] = s[i + n]
    BY DropDoes
<1> HIDE DEF t
<1>2. Rising(t, out)
  <2> SUFFICES ASSUME NEW i \in DOMAIN t, NEW j \in DOMAIN t, i < j,
                      {t[i], t[j]} \subseteq Results \ out
               PROVE  t[i] <= t[j]
      BY DEF Rising
  <2>1. i \in 1..Len(t) /\ j \in 1..Len(t) /\ Len(s) \in Nat /\ Len(t) \in Nat BY <1>1
  <2>2. i + n \in 1..Len(s) /\ j + n \in 1..Len(s) /\ i + n < j + n BY <1>1, <2>1
  <2>3. i + n \in DOMAIN s /\ j + n \in DOMAIN s BY <2>2
  <2>4. t[i] = s[i + n] /\ t[j] = s[j + n] BY <1>1, <2>1
  <2> QED BY <2>2, <2>3, <2>4 DEF Rising
<1> QED BY <1>2 DEF t

LEMMA RisingFirst ==
  ASSUME NEW S, NEW s \in Seq(S), NEW n \in 0..Len(s), NEW out, Rising(s, out)
  PROVE  /\ Rising(SubSeq(s, 1, n), out)
         /\ Before(Range(SubSeq(s, 1, n)), Range(Drop(s, n)), out)
<1> DEFINE t == SubSeq(s, 1, n)
           u == Drop(s, n)
<1>1. /\ t \in Seq(S) /\ Len(t) = n /\ (\A i \in 1..n : t[i] = s[i])
      /\ u \in Seq(S) /\ Len(u) = Len(s) - n /\ (\A i \in 1..Len(u) : u[i] = s[i + n])
    BY FirstDoes, DropDoes
<1> HIDE DEF t, u
<1>2. Rising(t, out) BY <1>1 DEF Rising
<1>3. Before(Range(t), Range(u), out)
  <2> SUFFICES ASSUME NEW i \in 1..n, NEW j \in 1..Len(u), {t[i], u[j]} \subseteq Results \ out
               PROVE  t[i] <= u[j]
      BY <1>1 DEF Before, Range
  <2>1. i \in DOMAIN s /\ j + n \in DOMAIN s /\ i < j + n BY <1>1
  <2> QED BY <1>1, <2>1 DEF Rising
<1> QED BY <1>2, <1>3 DEF t, u

LEMMA RisingJoined ==
  ASSUME NEW S, NEW s \in Seq(S), NEW t \in Seq(S), NEW out,
         Rising(s, out), Rising(t, out), Before(Range(s), Range(t), out)
  PROVE  Rising(s \o t, out)
<1> DEFINE u == s \o t
<1>1. /\ u \in Seq(S) /\ Len(u) = Len(s) + Len(t)
      /\ \A i \in 1..Len(u) : u[i] = IF i <= Len(s) THEN s[i] ELSE t[i - Len(s)]
    BY ConcatProperties
<1> HIDE DEF u
<1>2. SUFFICES ASSUME NEW i \in 1..Len(u), NEW j \in 1..Len(u), i < j,
                      {u[i], u[j]} \subseteq Results \ out
               PROVE  u[i] <= u[j]
    BY <1>1 DEF Rising, u
<1>3. CASE j <= Len(s)
  <2>1. i \in DOMAIN s /\ j \in DOMAIN s /\ u[i] = s[i] /\ u[j] = s[j] BY <1>1, <1>2, <1>3
  <2> QED BY <1>2, <2>1 DEF Rising
<1>4. CASE i > Len(s)
  <2>1. i - Len(s) \in DOMAIN t /\ j - Len(s) \in DOMAIN t /\ i - Len(s) < j - Len(s)
      BY <1>1, <1>2, <1>4
  <2>2. u[i] = t[i - Len(s)] /\ u[j] = t[j - Len(s)] BY <1>1, <1>2, <1>4
  <2> QED BY <1>2, <2>1, <2>2 DEF Rising
<1>5. CASE i <= Len(s) /\ j > Len(s)
  <2>1. u[i] \in Range(s) /\ u[j] \in Range(t)
    <3>1. j - Len(s) \in DOMAIN t /\ i \in DOMAIN s BY <1>1, <1>5
    <3> QED BY <1>1, <1>5, <3>1 DEF Range
  <2> QED BY <1>2, <2>1 DEF Before
<1> QED BY <1>3, <1>4, <1>5

\* What is out of order is so for good.
LEMMA RisingStays ==
  ASSUME NEW s, NEW out, NEW more, out \subseteq more, Rising(s, out)
  PROVE  Rising(s, more)
BY DEF Rising

LEMMA NoLines == ConstantsAssumption => Torn \notin Results /\ Garbled \notin Results
BY DEF ConstantsAssumption, Torn, Garbled, Results

LEMMA Counts ==
  /\ BatchMax \in Nat \ {0} /\ Cap \in Nat \ {0} /\ MaxResults \in Nat \ {0}
  /\ MaxFaults \in Nat /\ Overflow \in Nat
  /\ Results \subseteq Line /\ Torn \in Line \ Results /\ Garbled \in Line \ Results
  /\ Results \subseteq Nat
BY ConstantsAssumption DEF Line, Torn, Garbled, Results

\* The types of TypeOK as sequences.
LEMMA Plain ==
  ASSUME TypeOK, Shape
  PROVE  /\ spool \in Seq(Line) /\ Len(spool) <= Cap + BatchMax
         /\ count \in Nat /\ Len(spool) <= count /\ count <= Cap + BatchMax
         /\ buf \in Seq(Results) /\ Len(buf) <= MaxResults /\ Range(buf) \subseteq Results
         /\ req.batch \in Seq(Line) /\ Len(req.batch) <= Cap + BatchMax
         /\ InFlight \in Seq(Results) /\ Len(InFlight) <= BatchMax /\ Range(InFlight) \subseteq Results
         /\ made \in 0..MaxResults
<1>1. /\ spool \in Seq(Line) /\ Len(spool) <= Cap + BatchMax
      /\ req.batch \in Seq(Line) /\ Len(req.batch) <= Cap + BatchMax
      /\ buf \in Seq(Results) /\ Len(buf) <= MaxResults
    BY Counts, BoundedIsSeq DEF TypeOK, Line
<1>2. count \in Nat /\ Len(spool) <= count /\ count <= Cap + BatchMax /\ made \in 0..MaxResults
    BY <1>1, Counts DEF TypeOK
<1>3. InFlight \in Seq(Results) /\ Len(InFlight) <= BatchMax
    BY <1>1, Counts DEF InFlight, Shape
<1>4. Range(buf) \subseteq Results /\ Range(InFlight) \subseteq Results
    BY <1>1, <1>3 DEF Range
<1> QED BY <1>1, <1>2, <1>3, <1>4

LEMMA JoinedShape ==
  ASSUME TypeOK, Shape, NEW lines \in Seq(Line)
  PROVE  \E d \in {0, 1} :
            /\ d <= Len(spool) /\ d <= Len(lines)
            /\ Joined(lines) \in Seq(Line) /\ Len(Joined(lines)) = Len(spool) + Len(lines) - d
            /\ \A i \in 1..Len(spool) - d : Joined(lines)[i] = spool[i]
            /\ \A i \in 1..Len(lines) - d : Joined(lines)[Len(spool) + i] = lines[i + d]
            /\ d = 0 => CutOff(lines) = {}
            /\ d = 1 => /\ CutOff(lines) = {lines[1]} /\ spool[Len(spool)] \notin Results
                        /\ Joined(lines)[Len(spool)] \notin Results
<1>1. spool \in Seq(Line) /\ Len(spool) \in Nat /\ Len(lines) \in Nat BY Plain
<1>2. CASE CutOff(lines) = {}
  <2>1. Joined(lines) = spool \o lines BY <1>2 DEF Joined
  <2>2. /\ Joined(lines) \in Seq(Line) /\ Len(Joined(lines)) = Len(spool) + Len(lines)
        /\ \A i \in 1..Len(spool) + Len(lines) : Joined(lines)[i] =
                IF i <= Len(spool) THEN spool[i] ELSE lines[i - Len(spool)]
      BY <1>1, <2>1, ConcatProperties
  <2>3. \A i \in 1..Len(spool) : Joined(lines)[i] = spool[i] BY <1>1, <2>2
  <2>4. ASSUME NEW i \in 1..Len(lines) PROVE Joined(lines)[Len(spool) + i] = lines[i]
    <3>1. /\ Len(spool) + i \in 1..Len(spool) + Len(lines) /\ ~(Len(spool) + i <= Len(spool))
          /\ Len(spool) + i - Len(spool) = i
        BY <1>1
    <3> QED BY <2>2, <3>1
  <2>5. Len(spool) + Len(lines) - 0 = Len(spool) + Len(lines) /\ Len(spool) - 0 = Len(spool)
        /\ Len(lines) - 0 = Len(lines) /\ \A i \in 1..Len(lines) : i + 0 = i
      BY <1>1
  <2> QED BY <1>1, <1>2, <2>2, <2>3, <2>4, <2>5
<1>3. CASE CutOff(lines) # {}
  <2>1. /\ lines # <<>> /\ spool # <<>> /\ Last(spool) = Torn /\ CutOff(lines) = {Head(lines)}
      BY <1>3 DEF CutOff
  <2>2. Len(spool) >= 1 /\ Len(lines) >= 1 /\ spool[Len(spool)] = Torn /\ Head(lines) = lines[1]
      BY <1>1, <2>1 DEF Last
  <2> DEFINE x == IF Head(lines) = Torn THEN Torn ELSE Garbled
             f == Front(spool)
             t == Tail(lines)
  <2>3. Joined(lines) = f \o <<x>> \o t BY <1>3 DEF Joined
  <2>4. x \in Line \ Results BY Counts
  <2>5. f \in Seq(Line) /\ Len(f) = Len(spool) - 1 /\ \A i \in 1..Len(spool) - 1 : f[i] = spool[i]
    <3>1. Len(spool) - 1 \in 0..Len(spool) BY <1>1, <2>2
    <3> QED BY <1>1, <3>1, FirstDoes DEF Front
  <2>6. t \in Seq(Line) /\ Len(t) = Len(lines) - 1 /\ \A i \in 1..Len(lines) - 1 : t[i] = lines[i + 1]
      BY <2>1, HeadTailProperties
  <2> DEFINE g == f \o <<x>>
  <2> HIDE DEF x, f, t
  <2>7. /\ g \in Seq(Line) /\ Len(g) = Len(spool) /\ g[Len(spool)] = x
        /\ \A i \in 1..Len(spool) - 1 : g[i] = spool[i]
      BY <1>1, <2>2, <2>4, <2>5
  <2> DEFINE J == Joined(lines)
  <2>13. J = g \o t BY <2>3
  <2> HIDE DEF g, J
  <2>8. /\ J \in Seq(Line) /\ Len(J) = Len(spool) + Len(lines) - 1
        /\ \A i \in 1..Len(spool) + Len(lines) - 1 : J[i] =
               IF i <= Len(spool) THEN g[i] ELSE t[i - Len(spool)]
    <3>1. /\ g \o t \in Seq(Line) /\ Len(g \o t) = Len(g) + Len(t)
          /\ \A i \in 1..Len(g) + Len(t) : (g \o t)[i] = IF i <= Len(g) THEN g[i] ELSE t[i - Len(g)]
      <4>1. g \in Seq(Line) /\ t \in Seq(Line) BY <2>6, <2>7
      <4> QED BY <4>1, ConcatProperties, Zenon
    <3>2. Len(g) + Len(t) = Len(spool) + Len(lines) - 1 BY <1>1, <2>6, <2>7
    <3> QED BY <2>7, <2>13, <3>1, <3>2
  <2>9. ASSUME NEW i \in 1..Len(spool) - 1 PROVE J[i] = spool[i]
    <3>1. i \in 1..Len(spool) + Len(lines) - 1 /\ i <= Len(spool) BY <1>1, <2>2
    <3>2. J[i] = g[i] BY <2>8, <3>1
    <3> QED BY <2>7, <3>2
  <2>10. J[Len(spool)] = x
    <3>1. Len(spool) \in 1..Len(spool) + Len(lines) - 1 /\ Len(spool) <= Len(spool)
        BY <1>1, <2>2
    <3>2. J[Len(spool)] = g[Len(spool)] BY <2>8, <3>1
    <3> QED BY <2>7, <3>2
  <2>11. ASSUME NEW i \in 1..Len(lines) - 1 PROVE J[Len(spool) + i] = lines[i + 1]
    <3>1. /\ Len(spool) + i \in 1..Len(spool) + Len(lines) - 1 /\ ~(Len(spool) + i <= Len(spool))
          /\ Len(spool) + i - Len(spool) = i
        BY <1>1
    <3>2. J[Len(spool) + i] = t[Len(spool) + i - Len(spool)] BY <2>8, <3>1
    <3>3. J[Len(spool) + i] = t[i] BY <3>1, <3>2
    <3> HIDE DEF J
    <3>4. t[i] = lines[i + 1] BY <2>6
    <3> QED BY <3>3, <3>4
  <2>12. spool[Len(spool)] \notin Results BY <2>2, Counts
  <2>14. /\ J \in Seq(Line) /\ Len(J) = Len(spool) + Len(lines) - 1
         /\ \A i \in 1..Len(spool) - 1 : J[i] = spool[i]
         /\ \A i \in 1..Len(lines) - 1 : J[Len(spool) + i] = lines[i + 1]
         /\ CutOff(lines) = {lines[1]} /\ spool[Len(spool)] \notin Results /\ J[Len(spool)] \notin Results
      BY <2>1, <2>2, <2>4, <2>8, <2>9, <2>10, <2>11, <2>12
  <2> QED BY <1>1, <2>2, <2>14 DEF J
<1> QED BY <1>2, <1>3

LEMMA JoinedDoes ==
  ASSUME TypeOK, Shape, NEW lines \in Seq(Line)
  PROVE  /\ Joined(lines) \in Seq(Line) /\ Len(Joined(lines)) <= Len(spool) + Len(lines)
         /\ Range(Joined(lines)) \cap Results \subseteq Range(spool) \cup Range(lines)
         /\ Range(spool) \cap Results \subseteq Range(Joined(lines))
         /\ Range(lines) \cap Results \subseteq Range(Joined(lines)) \cup CutOff(lines)
         /\ CutOff(lines) \subseteq Range(lines)
         /\ \A out : /\ Rising(spool, out) /\ Rising(lines, out)
                     /\ Before(Range(spool), Range(lines), out)
                     => Rising(Joined(lines), out)
<1> DEFINE J == Joined(lines)
           m == Len(spool)
           n == Len(lines)
           C == CutOff(lines)
<1>1. spool \in Seq(Line) /\ m \in Nat /\ n \in Nat BY Plain
<1>2. PICK d \in {0, 1} :
            /\ d <= m /\ d <= n /\ J \in Seq(Line) /\ Len(J) = m + n - d
            /\ \A i \in 1..m - d : J[i] = spool[i]
            /\ \A i \in 1..n - d : J[m + i] = lines[i + d]
            /\ d = 0 => C = {}
            /\ d = 1 => C = {lines[1]} /\ spool[m] \notin Results /\ J[m] \notin Results
    BY JoinedShape
<1> HIDE DEF J, C
<1>3. /\ DOMAIN J = 1..m + n - d /\ DOMAIN spool = 1..m /\ DOMAIN lines = 1..n
    BY <1>1, <1>2
<1>4. ASSUME NEW i \in DOMAIN J, J[i] \in Results
      PROVE  \/ i \in 1..m - d /\ J[i] = spool[i]
             \/ i > m /\ i - m + d \in 1..n /\ J[i] = lines[i - m + d]
  <2>1. CASE i <= m - d BY <1>1, <1>2, <1>3, <2>1
  <2>2. CASE i > m
    <3>1. i - m \in 1..n - d /\ m + (i - m) = i
      <4>1. i \in 1..m + n - d BY <1>3
      <4> QED BY <1>1, <2>2, <4>1
    <3>2. J[i] = lines[i - m + d] BY <1>2, <3>1
    <3> QED BY <1>1, <2>2, <3>1, <3>2
  <2>3. CASE i = m /\ d = 1 BY <1>2, <1>4, <2>3
  <2>4. i <= m - d \/ i > m \/ (i = m /\ d = 1) BY <1>1, <1>3
  <2> QED BY <2>1, <2>2, <2>3, <2>4
<1>5. Range(J) \cap Results \subseteq Range(spool) \cup Range(lines)
  <2> SUFFICES ASSUME NEW i \in DOMAIN J, J[i] \in Results PROVE J[i] \in Range(spool) \cup Range(lines)
      BY DEF Range
  <2> QED BY <1>1, <1>3, <1>4 DEF Range
<1>6. Range(spool) \cap Results \subseteq Range(J)
  <2> SUFFICES ASSUME NEW i \in DOMAIN spool, spool[i] \in Results PROVE spool[i] \in Range(J)
      BY DEF Range
  <2>1. i \in 1..m - d
    <3>1. i \in 1..m /\ (d = 1 => i # m) BY <1>2, <1>3
    <3> QED BY <1>1, <3>1
  <2>2. J[i] = spool[i] BY <1>2, <2>1
  <2>3. i \in DOMAIN J
    <3>1. i \in 1..m + n - d
      <4>1. d <= n BY <1>2
      <4> QED BY <1>1, <2>1, <4>1
    <3> QED BY <1>3, <3>1
  <2> QED BY <2>2, <2>3 DEF Range
<1>7. Range(lines) \cap Results \subseteq Range(J) \cup C
  <2> SUFFICES ASSUME NEW i \in DOMAIN lines PROVE lines[i] \in Range(J) \cup C
      BY DEF Range
  <2>1. CASE d = 1 /\ i = 1 BY <1>2, <2>1
  <2>2. CASE ~(d = 1 /\ i = 1)
    <3>1. i - d \in 1..n - d /\ i - d + d = i /\ m + (i - d) \in DOMAIN J
        BY <1>1, <1>2, <1>3, <2>2
    <3>2. J[m + (i - d)] = lines[i] BY <1>2, <3>1
    <3> QED BY <3>1, <3>2 DEF Range
  <2> QED BY <2>1, <2>2
<1>8. C \subseteq Range(lines)
  <2>1. CASE d = 1
    <3>1. 1 \in DOMAIN lines BY <1>1, <1>2, <1>3, <2>1
    <3> QED BY <1>2, <2>1, <3>1 DEF Range
  <2> QED BY <1>2, <2>1
<1>9. ASSUME NEW out, Rising(spool, out), Rising(lines, out), Before(Range(spool), Range(lines), out)
      PROVE  Rising(J, out)
  <2> SUFFICES ASSUME NEW i \in DOMAIN J, NEW j \in DOMAIN J, i < j,
                      J[i] \in Results \ out, J[j] \in Results \ out
               PROVE  J[i] <= J[j]
      BY DEF Rising
  <2>1. CASE j \in 1..m - d /\ J[j] = spool[j]
    <3>1. i \in 1..m - d /\ J[i] = spool[i] BY <1>1, <1>2, <1>3, <2>1
    <3>2. i \in DOMAIN spool /\ j \in DOMAIN spool BY <1>1, <1>3, <2>1, <3>1
    <3> QED BY <1>9, <2>1, <3>1, <3>2 DEF Rising
  <2>2. CASE j > m /\ j - m + d \in 1..n /\ J[j] = lines[j - m + d]
    <3>1. CASE i \in 1..m - d /\ J[i] = spool[i]
      <4>1. J[i] \in Range(spool) /\ J[j] \in Range(lines)
          BY <1>1, <1>2, <1>3, <2>2, <3>1 DEF Range
      <4> QED BY <1>9, <4>1 DEF Before
    <3>2. CASE i > m /\ i - m + d \in 1..n /\ J[i] = lines[i - m + d]
      <4>1. i - m + d < j - m + d BY <1>1, <1>2, <1>3
      <4> QED BY <1>3, <1>9, <2>2, <3>2, <4>1 DEF Rising
    <3> QED BY <1>4, <3>1, <3>2
  <2> QED BY <1>4, <2>1, <2>2
<1>10. Len(J) <= m + n BY <1>1, <1>2
<1> QED BY <1>2, <1>5, <1>6, <1>7, <1>8, <1>9, <1>10 DEF J, C

LEMMA AppendDoes ==
  ASSUME TypeOK, Shape, NEW lines \in Seq(Results), AppendLines(lines)
  PROVE  /\ spool' \in Seq(Line) /\ count' \in Nat
         /\ Len(spool') <= count' /\ count' <= Cap + BatchMax
         /\ lines # <<>> => Len(spool') <= Cap
         /\ lines = <<>> => spool' = spool
         /\ Lines(Range(spool')) \subseteq Lines(Range(spool)) \cup Range(lines)
         /\ Lines(Range(spool)) \cup Range(lines) \subseteq Lines(Range(spool')) \cup dropped'
         /\ dropped \subseteq dropped' /\ dropped' \subseteq Results
         /\ \A out : /\ Rising(spool, out) /\ Rising(lines, out)
                     /\ Before(Range(spool), Range(lines), out)
                     => Rising(spool', out)
<1> DEFINE J == Joined(lines)
           n == count + Len(lines)
           C == CutOff(lines)
<1>1. /\ spool \in Seq(Line) /\ Len(spool) <= count /\ count \in Nat /\ count <= Cap + BatchMax
      /\ lines \in Seq(Line) /\ Len(lines) \in Nat /\ Range(lines) \subseteq Results
      /\ Cap \in Nat /\ BatchMax \in Nat
  <2>1. Range(lines) \subseteq Results BY DEF Range
  <2>2. lines \in Seq(Line)
    <3>1. Results \subseteq Line BY Counts
    <3> QED BY <3>1, SeqMonotonic, Zenon
  <2>3. Len(lines) \in Nat OBVIOUS
  <2> QED BY <2>1, <2>2, <2>3, Plain, Counts
<1>2. /\ J \in Seq(Line) /\ Len(J) <= Len(spool) + Len(lines)
      /\ Range(J) \cap Results \subseteq Range(spool) \cup Range(lines)
      /\ Range(spool) \cap Results \subseteq Range(J)
      /\ Range(lines) \cap Results \subseteq Range(J) \cup C
      /\ C \subseteq Range(lines)
      /\ \A out : /\ Rising(spool, out) /\ Rising(lines, out)
                  /\ Before(Range(spool), Range(lines), out)
                  => Rising(J, out)
    BY <1>1, JoinedDoes
<1>3. CASE lines = <<>>
  <2>1. spool' = spool /\ count' = count /\ dropped' = dropped \cup C \cup Lines(Range(J) \ Range(spool))
      BY <1>3 DEF AppendLines
  <2>2. Range(lines) = {} BY <1>1, <1>3 DEF Range
  <2>3. dropped \subseteq Results BY DEF TypeOK
  <2> HIDE DEF J, C
  <2> QED BY <1>1, <1>2, <1>3, <2>1, <2>2, <2>3 DEF Lines
<1>4. CASE lines # <<>>
  <2>1. /\ spool' = Trimmed(J, n).lines /\ count' = Trimmed(J, n).count
        /\ dropped' = dropped \cup C \cup Lines(Range(J) \ Range(spool'))
      BY <1>4 DEF AppendLines
  <2>2. n \in Nat /\ Len(J) <= n
    <3> HIDE DEF J
    <3> QED BY <1>1, <1>2
  <2> HIDE DEF J, C, n
  <2>3. /\ spool' \in Seq(Line) /\ count' \in Nat /\ Len(spool') <= count' /\ count' <= Cap
        /\ Range(spool') \subseteq Range(J) /\ \A out : Rising(J, out) => Rising(spool', out)
    <3>1. CASE n > Cap
      <4>1. n - Cap \in Nat BY <1>1, <2>2, <3>1
      <4>2. spool' = Drop(J, n - Cap) /\ count' = Len(spool') BY <2>1, <3>1 DEF Trimmed
      <4>3. /\ spool' \in Seq(Line) /\ Range(spool') \subseteq Range(J)
            /\ Len(spool') = IF n - Cap <= Len(J) THEN Len(J) - (n - Cap) ELSE 0
          BY <1>2, <4>1, <4>2, DropDoes
      <4>4. Len(spool') <= Cap BY <1>1, <1>2, <2>2, <4>1, <4>3
      <4>5. \A out : Rising(J, out) => Rising(spool', out) BY <1>2, <4>1, <4>2, RisingDrop
      <4> QED BY <4>2, <4>3, <4>4, <4>5
    <3>2. CASE ~(n > Cap)
      <4>1. spool' = J /\ count' = n BY <2>1, <3>2 DEF Trimmed
      <4> QED BY <1>1, <1>2, <2>2, <3>2, <4>1
    <3> QED BY <3>1, <3>2
  <2>4. dropped' \subseteq Results BY <1>1, <1>2, <2>1 DEF TypeOK, Lines
  <2>5. Len(spool') <= Cap /\ count' <= Cap + BatchMax BY <1>1, <2>3
  <2>6. Lines(Range(spool')) \subseteq Lines(Range(spool)) \cup Range(lines)
      BY <1>2, <2>3 DEF Lines
  <2>7. Lines(Range(spool)) \cup Range(lines) \subseteq Lines(Range(spool')) \cup dropped'
      BY <1>1, <1>2, <2>1 DEF Lines
  <2> QED BY <1>2, <1>4, <2>1, <2>3, <2>4, <2>5, <2>6, <2>7
<1> QED BY <1>3, <1>4

-----------------------------------------------------------------------------
(* What a step of the agent keeps if it only moves results.                *)

LEMMA AgentMoves ==
  ASSUME IInv, UNCHANGED <<serverVars, made>>,
         Held' \subseteq Held, Held \subseteq Held' \cup Exempt' \cup Stored,
         Exempt \subseteq Exempt', Pending' \subseteq Pending
  PROVE  Once' /\ Guarded' /\ Closed' /\ Account'
<1>1. Stored' = Stored /\ Seed' = Seed /\ Queued' = Queued
    BY DEF serverVars, Stored, Queued, Seed, Newest
<1>2. Once' BY <1>1 DEF IInv, Once, serverVars
<1>3. Guarded' BY <1>1 DEF IInv, Guarded
<1>4. Closed' BY <1>1 DEF IInv, Closed
<1>5. Account' BY <1>1 DEF IInv, Account
<1> QED BY <1>2, <1>3, <1>4, <1>5

LEMMA NewestIs ==
  ASSUME TypeOK
  PROVE  /\ Newest \in Nat /\ (Newest = 0 \/ (Newest \in Results /\ table[Newest] > 0))
         /\ \A t \in Results : table[t] > 0 => t <= Newest
<1> DEFINE S == {t \in Results : table[t] > 0} \cup {0}
<1>1. S \in SUBSET Nat /\ S # {} /\ MaxResults \in Nat /\ \A s \in S : s <= MaxResults
    BY Counts DEF Results
<1>2. Max(S) \in S /\ \A s \in S : s <= Max(S) BY <1>1, MaxFound
<1>3. Newest = Max(S) BY DEF Newest
<1> QED BY <1>1, <1>2, <1>3

LEMMA SeedMade == ASSUME TypeOK, Shape PROVE Seed \in Nat /\ Seed <= made
<1>1. made \in Nat BY Plain
<1>2. CASE last = Unset
  <2>1. Seed = Newest BY <1>2 DEF Seed
  <2>2. Newest \in Nat /\ (Newest = 0 \/ Newest \in Stored) BY NewestIs DEF Stored
  <2>3. Stored \subseteq 1..made BY DEF Shape
  <2> QED BY <1>1, <2>1, <2>2, <2>3
<1>3. CASE last # Unset
  <2>1. Seed = last /\ last \in 0..MaxResults BY <1>3 DEF Seed, TypeOK
  <2> QED BY <2>1, Counts DEF Shape
<1> QED BY <1>2, <1>3

\* The agent's side of TypeOK.
LEMMA AgentTypes ==
  ASSUME TypeOK, UNCHANGED serverVars,
         spool' \in Seq(Line), Len(spool') <= Cap + BatchMax,
         count' \in Nat, Len(spool') <= count', count' <= Cap + BatchMax,
         made' \in 0..MaxResults, buf' \in Seq(Results), Len(buf') <= made',
         req'.state \in {"none", "sent", "answered"}, req'.origin \in {"live", "spool"},
         req'.batch \in Seq(Line), Len(req'.batch) <= Cap + BatchMax,
         late' \subseteq SUBSET Results, stopping' \in BOOLEAN, faults' \in 0..MaxFaults,
         dropped' \subseteq Results, raced' \subseteq Results
  PROVE  TypeOK'
<1>1. Cap + BatchMax \in Nat /\ MaxResults \in Nat BY Counts
<1>2. /\ spool' \in BoundedSeq(Line, Cap + BatchMax) /\ req'.batch \in BoundedSeq(Line, Cap + BatchMax)
      /\ buf' \in BoundedSeq(Results, MaxResults)
    BY <1>1, BoundedIsSeq
<1>3. count' \in Len(spool')..(Cap + BatchMax) BY <1>1
<1> QED BY <1>2, <1>3 DEF TypeOK, serverVars, Line

\* A check-in that ends, or the run loop, or the process, moves results and
\* says what it drops.
LEMMA CheckinEnds ==
  ASSUME IInv, UNCHANGED <<serverVars, made, raced>>, req' = NoReq,
         spool' \in Seq(Line), Len(spool') <= Cap + BatchMax,
         count' \in Nat, Len(spool') <= count', count' <= Cap + BatchMax,
         buf' \in Seq(Results), Len(buf') <= Len(buf),
         late' \subseteq Pending, stopping' \in BOOLEAN, faults' \in 0..MaxFaults,
         dropped \subseteq dropped', dropped' \subseteq Results,
         Lines(Range(spool')) \cup Range(buf') \subseteq Held,
         Held \subseteq Lines(Range(spool')) \cup Range(buf') \cup dropped' \cup raced \cup Stored,
         Rising(spool', raced), Rising(buf', raced), Before(Range(spool'), Range(buf'), raced)
  PROVE  IInv'
<1>0. TypeOK /\ Shape /\ Order BY DEF IInv
<1>1. /\ InFlight' = <<>> /\ Range(<<>>) = {} /\ Sent(<<>>) = {} /\ req'.state = "none"
      /\ req'.origin = "live" /\ req'.batch = <<>> /\ <<>> \in Seq(Line) /\ <<>> \in Seq(Results)
      /\ Len(<<>>) = 0
    BY DEF InFlight, NoReq, Range, Sent, Lines
<1>2. Held' = Lines(Range(spool')) \cup Range(buf') BY <1>1 DEF Held
<1>3. Pending' = late' /\ Pending \subseteq SUBSET Results
    BY <1>0, <1>1 DEF Pending, TypeOK, Sent, Lines
<1>4. made \in 0..MaxResults /\ Len(buf) <= made /\ Len(buf) \in Nat /\ Len(buf') \in Nat
    BY <1>0, Plain DEF Shape
<1>5. TypeOK'
  <2>1. /\ late' \subseteq SUBSET Results /\ raced' \subseteq Results /\ made' \in 0..MaxResults
        /\ UNCHANGED serverVars /\ Len(buf') <= made'
      BY <1>0, <1>3, <1>4 DEF TypeOK
  <2>2. <<>> \in Seq(Line) /\ Len(<<>>) <= Cap + BatchMax BY <1>1, Counts
  <2>3. req'.batch \in Seq(Line) /\ Len(req'.batch) <= Cap + BatchMax BY <1>1, <2>2
  <2> QED BY <1>0, <1>1, <2>1, <2>3, AgentTypes
<1>6. Once' /\ Guarded' /\ Closed' /\ Account'
    BY <1>2, <1>3, AgentMoves DEF Exempt
<1>7. Shape'
  <2>1. UNION Pending \subseteq 1..made /\ Held \cup Stored \subseteq 1..made
      BY <1>0 DEF Shape, Pending
  <2>2. Stored' = Stored BY DEF Stored, Queued, serverVars
  <2>3. (Held \cup Stored \cup Sent(req.batch) \cup UNION late)' \subseteq 1..made'
      BY <1>1, <1>2, <2>1, <2>2
  <2>4. raced' \subseteq 1..made' /\ last' <= made' BY <1>0 DEF Shape, serverVars
  <2>5. req' = [state |-> req'.state, origin |-> req'.origin, batch |-> req'.batch]
      BY DEF NoReq
  <2> QED BY <1>1, <1>4, <2>3, <2>4, <2>5, Counts DEF Shape
<1>8. Order'
  <2>1. Before(Range(spool'), {}, raced) /\ Before({}, Range(buf'), raced) /\ Rising(<<>>, raced)
      BY DEF Before, Rising
  <2>2. \A t \in Held' \ raced, r \in raced : r <= t BY <1>0, <1>2 DEF Order
  <2> QED BY <1>1, <2>1, <2>2 DEF Order
<1>9. Ahead' /\ Arrived' BY <1>1 DEF Ahead, Arrived
<1> QED BY <1>5, <1>6, <1>7, <1>8, <1>9 DEF IInv

LEMMA FaultCounts == ASSUME TypeOK, Fault PROVE faults' \in 0..MaxFaults
BY Counts DEF TypeOK, Fault

LEMMA EndsEmpty ==
  /\ <<>> \in Seq(Results) /\ Len(<<>>) = 0 /\ Range(<<>>) = {}
  /\ \A out : Rising(<<>>, out) /\ \A S : Before(S, {}, out) /\ Before({}, S, out)
BY DEF Range, Rising, Before

LEMMA RejectedKeeps == ASSUME IInv, Rejected PROVE IInv'
<1>1. TypeOK /\ Shape /\ Order BY DEF IInv
<1>2. /\ InFlight \in Seq(Results) /\ buf \in Seq(Results) /\ Len(buf) \in Nat
      /\ AppendLines(InFlight) /\ req' = NoReq /\ buf' = buf
      /\ UNCHANGED <<serverVars, made, raced, late, stopping>>
      /\ faults' \in 0..MaxFaults
    BY <1>1, Plain, FaultCounts DEF Rejected
<1>3. /\ spool' \in Seq(Line) /\ count' \in Nat
      /\ Len(spool') <= count' /\ count' <= Cap + BatchMax
      /\ Lines(Range(spool')) \subseteq Lines(Range(spool)) \cup Range(InFlight)
      /\ Lines(Range(spool)) \cup Range(InFlight) \subseteq Lines(Range(spool')) \cup dropped'
      /\ dropped \subseteq dropped' /\ dropped' \subseteq Results
      /\ Rising(spool', raced)
    BY <1>1, <1>2, AppendDoes DEF Order
<1>4. Len(spool') <= Cap + BatchMax /\ Len(buf') <= Len(buf)
    BY <1>2, <1>3, Counts
<1>5. Before(Range(spool'), Range(buf'), raced)
    BY <1>1, <1>2, <1>3 DEF Order, Before, Lines
<1>6. /\ Lines(Range(spool')) \cup Range(buf') \subseteq Held
      /\ Held \subseteq Lines(Range(spool')) \cup Range(buf') \cup dropped' \cup raced \cup Stored
    BY <1>2, <1>3 DEF Held
<1>7. late' \subseteq Pending /\ stopping' \in BOOLEAN BY <1>1, <1>2 DEF Pending, TypeOK
<1>8. Rising(buf', raced) BY <1>1, <1>2 DEF Order
<1> QED BY <1>2, <1>3, <1>4, <1>5, <1>6, <1>7, <1>8, CheckinEnds

LEMMA TransportFailedKeeps == ASSUME IInv, TransportFailed PROVE IInv'
<1>1. TypeOK /\ Shape /\ Order BY DEF IInv
<1> DEFINE rest == IF Len(buf) >= Overflow THEN buf ELSE <<>>
<1>2. /\ InFlight \in Seq(Results) /\ buf \in Seq(Results) /\ Len(buf) \in Nat
      /\ AppendLines(InFlight \o rest) /\ req' = NoReq
      /\ buf' = IF Len(buf) >= Overflow THEN <<>> ELSE buf
      /\ UNCHANGED <<serverVars, made, raced, stopping>> /\ faults' \in 0..MaxFaults
      /\ late' \subseteq Pending
    BY <1>1, Plain, FaultCounts DEF TransportFailed, Pending
<1>3. /\ rest \in Seq(Results) /\ buf' \in Seq(Results) /\ Len(buf') <= Len(buf)
      /\ Range(rest) \cup Range(buf') = Range(buf) /\ Range(rest) \subseteq Range(buf)
      /\ Rising(rest, raced) /\ Rising(buf', raced) /\ Before(Range(rest), Range(buf'), raced)
  <2>1. CASE Len(buf) >= Overflow
    <3>1. rest = buf /\ buf' = <<>> BY <1>2, <2>1
    <3>2. Rising(buf, raced) BY <1>1 DEF Order
    <3>3. Before(Range(rest), Range(buf'), raced) /\ Rising(buf', raced) BY <3>1, EndsEmpty
    <3>4. buf' \in Seq(Results) /\ Len(buf') <= Len(buf) /\ Range(buf') = {}
        BY <1>2, <3>1, EndsEmpty
    <3> QED BY <1>2, <3>1, <3>2, <3>3, <3>4
  <2>2. CASE ~(Len(buf) >= Overflow)
    <3>1. rest = <<>> /\ buf' = buf BY <1>2, <2>2
    <3>2. Rising(buf, raced) BY <1>1 DEF Order
    <3>3. Before(Range(rest), Range(buf'), raced) /\ Rising(rest, raced) BY <3>1, EndsEmpty
    <3>4. rest \in Seq(Results) /\ Range(rest) = {} BY <3>1, EndsEmpty
    <3> QED BY <1>2, <3>1, <3>2, <3>3, <3>4
  <2> QED BY <2>1, <2>2
<1> HIDE DEF rest
<1> DEFINE lines == InFlight \o rest
<1>4. /\ lines \in Seq(Results) /\ Range(lines) = Range(InFlight) \cup Range(rest)
      /\ Rising(lines, raced) /\ Before(Range(spool), Range(lines), raced)
  <2>1. Before(Range(InFlight), Range(rest), raced) BY <1>1, <1>3 DEF Order, Before
  <2>2. Rising(lines, raced) BY <1>1, <1>2, <1>3, <2>1, RisingJoined DEF Order
  <2>3. Range(lines) = Range(InFlight) \cup Range(rest) BY <1>2, <1>3, Joins
  <2>4. Before(Range(spool), Range(lines), raced) BY <1>1, <1>3, <2>3 DEF Order, Before
  <2>5. lines \in Seq(Results) BY <1>2, <1>3
  <2> QED BY <2>2, <2>3, <2>4, <2>5
<1> HIDE DEF lines
<1>5. /\ spool' \in Seq(Line) /\ count' \in Nat
      /\ Len(spool') <= count' /\ count' <= Cap + BatchMax
      /\ Lines(Range(spool')) \subseteq Lines(Range(spool)) \cup Range(lines)
      /\ Lines(Range(spool)) \cup Range(lines) \subseteq Lines(Range(spool')) \cup dropped'
      /\ dropped \subseteq dropped' /\ dropped' \subseteq Results
      /\ Rising(spool', raced)
  <2>1. AppendLines(lines) BY <1>2 DEF lines
  <2>2. Rising(spool, raced) BY <1>1 DEF Order
  <2> QED BY <1>1, <1>4, <2>1, <2>2, AppendDoes
<1>6. Len(spool') <= Cap + BatchMax BY <1>5, Counts
<1>7. Before(Range(spool'), Range(buf'), raced)
  <2>1. Before(Range(spool), Range(buf'), raced) /\ Before(Range(InFlight), Range(buf'), raced)
      BY <1>1, <1>3 DEF Order, Before
  <2> QED BY <1>3, <1>4, <1>5, <2>1 DEF Before, Lines
<1>8. /\ Lines(Range(spool')) \cup Range(buf') \subseteq Held
      /\ Held \subseteq Lines(Range(spool')) \cup Range(buf') \cup dropped' \cup raced \cup Stored
    BY <1>3, <1>4, <1>5 DEF Held
<1>9. stopping' \in BOOLEAN BY <1>1, <1>2 DEF TypeOK
<1> QED BY <1>2, <1>3, <1>5, <1>6, <1>7, <1>8, <1>9, CheckinEnds

LEMMA ExitKeeps == ASSUME IInv, Exit PROVE IInv'
<1>1. TypeOK /\ Shape /\ Order BY DEF IInv
<1>2. /\ spool \in Seq(Line) /\ Len(spool) \in Nat /\ Len(spool) <= Cap + BatchMax
      /\ req = NoReq /\ buf \in Seq(Results) /\ Range(buf) \subseteq Results /\ Len(buf) \in Nat
    BY <1>1, Plain DEF Exit, Shape
<1>3. /\ spool' = spool /\ count' = Len(spool) /\ buf' = <<>> /\ dropped' = dropped \cup Range(buf)
      /\ req' = NoReq /\ UNCHANGED <<serverVars, made, raced, late, faults>> /\ stopping' \in BOOLEAN
    BY <1>2 DEF Exit
<1>4. InFlight = <<>> BY <1>2 DEF InFlight, NoReq
<1>5. /\ dropped' \subseteq Results /\ late' \subseteq Pending /\ faults' \in 0..MaxFaults
    BY <1>1, <1>2, <1>3 DEF TypeOK, Pending
<1>6. /\ Lines(Range(spool')) \cup Range(buf') \subseteq Held
      /\ Held \subseteq Lines(Range(spool')) \cup Range(buf') \cup dropped' \cup raced \cup Stored
    BY <1>3, <1>4, EndsEmpty DEF Held
<1>7. /\ Rising(spool', raced) /\ Rising(buf', raced) /\ Before(Range(spool'), Range(buf'), raced)
    BY <1>1, <1>3, EndsEmpty DEF Order
<1> QED BY <1>2, <1>3, <1>5, <1>6, <1>7, EndsEmpty, CheckinEnds

\* What an answered check-in takes off the spool was in the batch, unless a
\* flush came in between.
LEMMA AckedKeeps == ASSUME IInv, Acked PROVE IInv'
<1>1. TypeOK /\ Shape /\ Order /\ Ahead /\ Arrived BY DEF IInv
<1>2. /\ spool \in Seq(Line) /\ Len(spool) \in Nat /\ Len(spool) <= Cap + BatchMax
      /\ count \in Nat /\ Len(spool) <= count /\ count <= Cap + BatchMax
      /\ buf \in Seq(Results) /\ Range(buf) \subseteq Results /\ Len(buf) \in Nat
      /\ req.batch \in Seq(Line) /\ Len(req.batch) \in Nat
    BY <1>1, Plain
<1>3. /\ req' = NoReq /\ UNCHANGED <<serverVars, made, raced, late, faults, buf, dropped>>
      /\ stopping' \in BOOLEAN /\ req.state = "answered"
      /\ dropped' \subseteq Results /\ late' \subseteq Pending /\ faults' \in 0..MaxFaults
    BY <1>1 DEF Acked, observed, TypeOK, Pending
<1> DEFINE n == AckedLines(req.batch)
<1>4. n \in Nat /\ n <= Len(req.batch)
  <2>1. Parsed(req.batch) \in SUBSET (1..Len(req.batch)) BY <1>2 DEF Parsed
  <2>2. IsFiniteSet(1..Len(req.batch)) /\ Cardinality(1..Len(req.batch)) = Len(req.batch)
    <3> DEFINE m == Len(req.batch)
    <3>1. m \in Nat BY <1>2
    <3> HIDE DEF m
    <3>2. IsFiniteSet(1..m) /\ Cardinality(1..m) = IF 1 > m THEN 0 ELSE m - 1 + 1
        BY <3>1, FS_Interval
    <3> QED BY <3>1, <3>2 DEF m
  <2> QED BY <2>1, <2>2, FS_Subset, FS_CardinalityType DEF AckedLines
<1> HIDE DEF n
<1>5. CASE req.origin = "live" \/ n = 0
  <2>1. spool' = spool /\ count' = count BY <1>1, <1>5 DEF Acked, RemoveOldest, n, TypeOK
  <2>2. Range(InFlight) \subseteq Stored \cup Exempt
    <3>1. CASE req.origin = "live"
      <4>1. Range(req.batch) \subseteq Results BY <1>1, <3>1 DEF Shape, Range
      <4> QED BY <1>1, <1>3, <3>1, <4>1 DEF Arrived, Sent, Lines, InFlight
    <3>2. CASE req.origin # "live" BY <3>2, EndsEmpty DEF InFlight
    <3> QED BY <3>1, <3>2
  <2>3. /\ Lines(Range(spool')) \cup Range(buf') \subseteq Held
        /\ Held \subseteq Lines(Range(spool')) \cup Range(buf') \cup dropped' \cup raced \cup Stored
      BY <1>3, <2>1, <2>2 DEF Held, Exempt
  <2>4. /\ Rising(spool', raced) /\ Rising(buf', raced) /\ Before(Range(spool'), Range(buf'), raced)
      BY <1>1, <1>3, <2>1 DEF Order
  <2> QED BY <1>2, <1>3, <2>1, <2>3, <2>4, CheckinEnds
<1>6. CASE req.origin = "spool" /\ n # 0
  <2>1. spool' = Drop(spool, n) /\ count' = Len(spool')
      BY <1>6 DEF Acked, RemoveOldest, n
  <2>2. /\ spool' \in Seq(Line) /\ Len(spool') \in Nat /\ Len(spool') <= Len(spool)
        /\ Range(spool') \subseteq Range(spool) /\ Rising(spool', raced)
        /\ \A x \in Range(spool) \ Range(spool') : \E i \in 1..Len(spool) : i <= n /\ x = spool[i]
    <3>1. Rising(spool', raced) BY <1>1, <1>2, <1>4, <2>1, RisingDrop DEF Order
    <3>2. /\ spool' \in Seq(Line) /\ Len(spool') = IF n <= Len(spool) THEN Len(spool) - n ELSE 0
          /\ Range(spool') \subseteq Range(spool)
          /\ \A x \in Range(spool) \ Range(spool') : \E i \in 1..Len(spool) : i <= n /\ x = spool[i]
        BY <1>2, <1>4, <2>1, DropDoes
    <3> QED BY <1>2, <1>4, <3>1, <3>2
  <2>3. Lines(Range(spool)) \subseteq Lines(Range(spool')) \cup Stored \cup Exempt
    <3> SUFFICES ASSUME NEW x \in Lines(Range(spool)), x \notin Range(spool'), x \notin raced
                 PROVE  x \in Stored \cup Exempt
        BY DEF Lines, Exempt
    <3>1. PICK i \in 1..Len(spool) : i <= n /\ x = spool[i] BY <2>2 DEF Lines
    <3>2. Len(req.batch) <= Len(spool) /\ req.batch = SubSeq(spool, 1, Len(req.batch))
        BY <1>1, <1>6 DEF Ahead
    <3>3. x \in Range(req.batch)
      <4>1. Len(req.batch) \in 0..Len(spool) /\ i \in 1..Len(req.batch) BY <1>2, <1>4, <3>1, <3>2
      <4>2. Range(SubSeq(spool, 1, Len(req.batch))) = {spool[j] : j \in 1..Len(req.batch)}
          BY <1>2, <4>1, FirstDoes
      <4> QED BY <3>1, <3>2, <4>1, <4>2
    <3> QED BY <1>1, <1>3, <3>3 DEF Arrived, Sent, Lines
  <2>4. InFlight = <<>> BY <1>6 DEF InFlight
  <2>5. /\ Lines(Range(spool')) \cup Range(buf') \subseteq Held
        /\ Held \subseteq Lines(Range(spool')) \cup Range(buf') \cup dropped' \cup raced \cup Stored
      BY <1>3, <2>2, <2>3, <2>4, EndsEmpty DEF Held, Exempt, Lines
  <2>6. Rising(buf', raced) /\ Before(Range(spool'), Range(buf'), raced)
      BY <1>1, <1>3, <2>2 DEF Order, Before
  <2>7. /\ Len(spool') <= Cap + BatchMax /\ count' \in Nat /\ Len(spool') <= count'
        /\ count' <= Cap + BatchMax /\ Len(buf') <= Len(buf)
      BY <1>2, <1>3, <2>1, <2>2, Counts
  <2> QED BY <1>2, <1>3, <2>2, <2>5, <2>6, <2>7, CheckinEnds
<1> QED BY <1>1, <1>5, <1>6 DEF TypeOK

\* The lines of an append cut short by a crash.
LEMMA AgentCrashKeeps == ASSUME IInv, AgentCrash PROVE IInv'
<1>1. TypeOK /\ Shape /\ Order BY DEF IInv
<1>2. /\ spool \in Seq(Line) /\ Len(spool) \in Nat /\ Len(spool) <= Cap + BatchMax
      /\ InFlight \in Seq(Results) /\ Len(InFlight) \in Nat /\ Len(InFlight) <= BatchMax
      /\ buf \in Seq(Results) /\ Len(buf) \in Nat
      /\ Range(buf) \subseteq Results /\ Range(InFlight) \subseteq Results
    BY <1>1, Plain
<1>3. /\ UNCHANGED <<serverVars, made, raced>> /\ req' = NoReq /\ buf' = <<>> /\ stopping' = FALSE
      /\ late' \subseteq Pending /\ faults' \in 0..MaxFaults /\ count' = Len(spool')
      /\ dropped' = dropped \cup (Range(InFlight \o buf) \ Range(spool'))
    BY <1>1, FaultCounts DEF AgentCrash, Pending
<1>4. PICK k \in 0..Len(InFlight), tear \in BOOLEAN :
        /\ tear => k < Len(InFlight)
        /\ spool' = Joined(SubSeq(InFlight, 1, k) \o (IF tear THEN <<Torn>> ELSE <<>>))
    BY DEF AgentCrash
<1> DEFINE whole == SubSeq(InFlight, 1, k)
           end   == IF tear THEN <<Torn>> ELSE <<>>
           lines == whole \o end
<1>5. /\ whole \in Seq(Results) /\ Len(whole) = k /\ Range(whole) \subseteq Range(InFlight)
      /\ Rising(whole, raced)
    BY <1>1, <1>2, FirstDoes, RisingFirst DEF Order
<1>6. /\ end \in Seq(Line) /\ Range(end) \cap Results = {} /\ Len(end) \in Nat
      /\ Len(end) + k <= Len(InFlight) /\ Rising(end, raced)
  <2>1. CASE tear
    <3>1. <<Torn>> \in Seq(Line) /\ Len(<<Torn>>) = 1 /\ <<Torn>>[1] = Torn /\ Torn \notin Results
        BY Counts
    <3>2. Range(<<Torn>>) = {Torn} BY <3>1 DEF Range
    <3>3. Rising(<<Torn>>, raced) BY <3>1 DEF Rising
    <3> QED BY <1>2, <1>4, <2>1, <3>1, <3>2, <3>3
  <2>2. CASE ~tear
    <3>1. end = <<>> BY <2>2
    <3>2. <<>> \in Seq(Line) OBVIOUS
    <3> QED BY <1>2, <1>4, <3>1, <3>2, EndsEmpty
  <2> QED BY <2>1, <2>2
<1> HIDE DEF whole, end
<1>7. whole \in Seq(Line)
  <2>1. Results \subseteq Line BY Counts
  <2> QED BY <1>5, <2>1, SeqMonotonic, Zenon
<1>8. /\ lines \in Seq(Line) /\ Range(lines) = Range(whole) \cup Range(end)
      /\ Len(lines) = Len(whole) + Len(end)
    BY <1>6, <1>7, Joins
<1>9. Rising(lines, raced)
  <2>1. Before(Range(whole), Range(end), raced) BY <1>6 DEF Before
  <2> QED BY <1>5, <1>6, <1>7, <2>1, RisingJoined
<1>10. Before(Range(spool), Range(lines), raced)
    BY <1>1, <1>5, <1>6, <1>8 DEF Order, Before
<1>11. spool' = Joined(lines) BY <1>4 DEF whole, end
<1> HIDE DEF lines
<1>12. /\ spool' \in Seq(Line) /\ Len(spool') <= Len(spool) + Len(lines)
       /\ Range(spool') \cap Results \subseteq Range(spool) \cup Range(lines)
       /\ Range(spool) \cap Results \subseteq Range(spool')
       /\ Rising(spool', raced)
    BY <1>1, <1>8, <1>9, <1>10, <1>11, JoinedDoes DEF Order
<1>13. Len(spool') \in Nat /\ Len(spool') <= Cap + BatchMax
  <2>1. CASE InFlight = <<>> BY <1>2, <1>5, <1>6, <1>8, <1>12, <2>1, Counts
  <2>2. CASE InFlight # <<>>
    <3>1. Len(spool) <= Cap BY <1>1, <2>2 DEF Shape
    <3> QED BY <1>2, <1>5, <1>6, <1>8, <1>12, <3>1, Counts
  <2> QED BY <2>1, <2>2
<1>14. Range(InFlight \o buf) = Range(InFlight) \cup Range(buf) BY <1>2, Joins
<1>15. dropped \subseteq dropped' /\ dropped' \subseteq Results
    BY <1>1, <1>2, <1>3, <1>14 DEF TypeOK
<1>16. /\ Lines(Range(spool')) \cup Range(buf') \subseteq Held
       /\ Held \subseteq Lines(Range(spool')) \cup Range(buf') \cup dropped' \cup raced \cup Stored
  <2>1. Lines(Range(spool')) \subseteq Lines(Range(spool)) \cup Range(InFlight)
      BY <1>5, <1>6, <1>8, <1>12 DEF Lines
  <2>2. Lines(Range(spool)) \subseteq Lines(Range(spool')) BY <1>12 DEF Lines
  <2>3. Range(InFlight) \cup Range(buf) \subseteq Lines(Range(spool')) \cup dropped'
      BY <1>2, <1>3, <1>14 DEF Lines
  <2>4. Range(buf') = {} BY <1>3, EndsEmpty
  <2> QED BY <2>1, <2>2, <2>3, <2>4 DEF Held
<1>17. Rising(buf', raced) /\ Before(Range(spool'), Range(buf'), raced) BY <1>3, EndsEmpty
<1>18. /\ count' \in Nat /\ Len(spool') <= count' /\ count' <= Cap + BatchMax
       /\ buf' \in Seq(Results) /\ Len(buf') <= Len(buf) /\ stopping' \in BOOLEAN
  <2>1. buf' \in Seq(Results) /\ Len(buf') = 0 BY <1>3, EndsEmpty
  <2>2. count' \in Nat /\ Len(spool') <= count' /\ count' <= Cap + BatchMax BY <1>3, <1>13
  <2>3. stopping' \in BOOLEAN BY <1>3
  <2> QED BY <1>2, <2>1, <2>2, <2>3
<1> QED BY <1>3, <1>12, <1>13, <1>15, <1>16, <1>17, <1>18, CheckinEnds

\* A result is newer than all before it.
LEMMA ProbeKeeps == ASSUME IInv, Probe PROVE IInv'
<1>1. TypeOK /\ Shape /\ Order /\ Once BY DEF IInv
<1>2. /\ spool \in Seq(Line) /\ Len(spool) \in Nat /\ Len(spool) <= Cap + BatchMax
      /\ count \in Nat /\ Len(spool) <= count /\ count <= Cap + BatchMax
      /\ buf \in Seq(Results) /\ Len(buf) \in Nat /\ Range(buf) \subseteq Results
      /\ req.batch \in Seq(Line) /\ Len(req.batch) <= Cap + BatchMax
      /\ made \in 0..MaxResults
    BY <1>1, Plain
<1>3. /\ made < MaxResults /\ made' = made + 1 /\ buf' = Append(buf, made + 1)
      /\ UNCHANGED <<spool, count, stopping, req, late, faults, dropped, raced>>
      /\ UNCHANGED serverVars
    BY DEF Probe, observed
<1> DEFINE t == made + 1
<1>4. t \in Results /\ made' \in 0..MaxResults /\ t \in Nat BY <1>2, <1>3, Counts DEF Results
<1>5. /\ buf' \in Seq(Results) /\ Len(buf') = Len(buf) + 1
      /\ \A i \in 1..Len(buf) : buf'[i] = buf[i]
      /\ buf'[Len(buf) + 1] = t
    BY <1>2, <1>3, <1>4, AppendProperties
<1>6. Range(buf') = Range(buf) \cup {t}
  <2>1. DOMAIN buf' = 1..Len(buf) + 1 /\ DOMAIN buf = 1..Len(buf) BY <1>2, <1>5
  <2>2. Range(buf') \subseteq Range(buf) \cup {t} BY <1>2, <1>5, <2>1 DEF Range
  <2>3. Range(buf) \subseteq Range(buf') BY <1>2, <1>5, <2>1 DEF Range
  <2>4. t \in Range(buf') BY <1>2, <1>5, <2>1 DEF Range
  <2> QED BY <2>2, <2>3, <2>4
<1>7. InFlight' = InFlight /\ Held' = Held \cup {t}
    BY <1>3, <1>6 DEF InFlight, Held
<1>8. /\ Stored' = Stored /\ Seed' = Seed /\ Queued' = Queued /\ Exempt' = Exempt
      /\ Pending' = Pending
    BY <1>3 DEF serverVars, Stored, Queued, Seed, Newest, Exempt, Pending
<1>9. /\ \A x \in Held \cup Stored \cup Sent(req.batch) \cup UNION late : x <= made /\ x \in Nat
      /\ Held \cup Stored \cup Sent(req.batch) \cup UNION late \subseteq 1..made
    BY <1>1, <1>2 DEF Shape
<1>10. TypeOK'
  <2>1. /\ req'.state \in {"none", "sent", "answered"} /\ req'.origin \in {"live", "spool"}
        /\ late' \subseteq SUBSET Results /\ stopping' \in BOOLEAN /\ faults' \in 0..MaxFaults
        /\ dropped' \subseteq Results /\ raced' \subseteq Results
      BY <1>1, <1>3 DEF TypeOK
  <2>2. Len(buf') <= made' BY <1>1, <1>2, <1>3, <1>5 DEF Shape
  <2>3. /\ spool' \in Seq(Line) /\ Len(spool') <= Cap + BatchMax
        /\ count' \in Nat /\ Len(spool') <= count' /\ count' <= Cap + BatchMax
        /\ req'.batch \in Seq(Line) /\ Len(req'.batch) <= Cap + BatchMax
      BY <1>2, <1>3
  <2> QED BY <1>1, <1>3, <1>4, <1>5, <2>1, <2>2, <2>3, AgentTypes
<1>11. Shape'
  <2>1. (Held \cup Stored \cup Sent(req.batch) \cup UNION late)' \subseteq 1..made'
      BY <1>2, <1>3, <1>4, <1>7, <1>8, <1>9
  <2>2. last' <= made' /\ raced' \subseteq 1..made'
    <3>1. last \in Int BY <1>1, Counts DEF TypeOK, Unset
    <3> QED BY <1>1, <1>2, <1>3, <3>1 DEF Shape, serverVars
  <2>3. Len(buf') <= made' BY <1>1, <1>2, <1>3, <1>5 DEF Shape
  <2> QED BY <1>1, <1>3, <1>7, <2>1, <2>2, <2>3 DEF Shape
<1>12. Order'
  <2>1. Rising(buf', raced)
    <3> SUFFICES ASSUME NEW i \in 1..Len(buf) + 1, NEW j \in 1..Len(buf) + 1, i < j,
                        {buf'[i], buf'[j]} \subseteq Results \ raced
                 PROVE  buf'[i] <= buf'[j]
        BY <1>2, <1>5 DEF Rising
    <3>1. i \in 1..Len(buf) /\ buf'[i] = buf[i]
      <4>1. i \in 1..Len(buf) BY <1>2
      <4> QED BY <1>5, <4>1
    <3>2. CASE j = Len(buf) + 1
      <4>1. buf[i] \in Range(buf) BY <1>2, <3>1 DEF Range
      <4>2. buf[i] \in Nat /\ buf[i] <= made BY <1>9, <4>1 DEF Held
      <4> QED BY <1>2, <1>5, <3>1, <3>2, <4>2
    <3>3. CASE j # Len(buf) + 1
      <4>1. j \in 1..Len(buf) BY <1>2, <3>3
      <4>2. i \in DOMAIN buf /\ j \in DOMAIN buf BY <1>2, <3>1, <4>1
      <4>3. buf'[j] = buf[j] BY <1>5, <4>1
      <4> QED BY <1>1, <3>1, <4>2, <4>3 DEF Order, Rising
    <3> QED BY <3>2, <3>3
  <2>2. \A x \in Held : x \in Nat /\ x <= t BY <1>2, <1>9
  <2>3. Before(Range(spool), Range(buf'), raced)
    <3>1. \A x \in Range(spool) \cap Results : x \in Nat /\ x <= t BY <2>2 DEF Held, Lines
    <3> QED BY <1>1, <1>6, <3>1 DEF Order, Before
  <2>4. Before(Range(InFlight), Range(buf'), raced)
    <3>1. \A x \in Range(InFlight) : x \in Nat /\ x <= t BY <2>2 DEF Held
    <3> QED BY <1>1, <1>6, <3>1 DEF Order, Before
  <2>5. \A x \in Held' \ raced', r \in raced' : r <= x
    <3>1. \A r \in raced : r <= t BY <1>1, <1>2 DEF Shape
    <3> QED BY <1>1, <1>3, <1>7, <3>1 DEF Order
  <2> QED BY <1>1, <1>3, <1>7, <2>1, <2>3, <2>4, <2>5 DEF Order
<1>13. Once' BY <1>1, <1>3, <1>8 DEF Once, serverVars
<1>14. Ahead' /\ Arrived' BY <1>3, <1>8 DEF IInv, Ahead, Arrived
<1>15. Guarded'
  <2>1. ~(t <= Seed)
    <3>1. Seed \in Int /\ Seed <= made BY <1>1, SeedMade
    <3> QED BY <1>2, <3>1
  <2> QED BY <1>7, <1>8, <2>1 DEF IInv, Guarded
<1>16. Closed'
  <2>1. \A batch \in Pending : \A b \in batch : b \in Nat /\ b <= made
      BY <1>9 DEF Pending
  <2> QED BY <1>2, <1>7, <1>8, <2>1 DEF IInv, Closed
<1>17. Account' BY <1>2, <1>3, <1>7, <1>8 DEF IInv, Account
<1> QED BY <1>10, <1>11, <1>12, <1>13, <1>14, <1>15, <1>16, <1>17 DEF IInv

-----------------------------------------------------------------------------
(* What the agent sends.                                                   *)

\* A batch taken from what the agent holds leaves nothing older behind.
LEMMA BatchTaken ==
  ASSUME IInv, UNCHANGED <<serverVars, made, dropped, raced>>, Held' = Held, NEW B,
         Pending' \subseteq Pending \cup {B}, B \subseteq Held, Before(B, Held \ B, raced)
  PROVE  Once' /\ Guarded' /\ Closed' /\ Account'
<1>1. /\ Stored' = Stored /\ Seed' = Seed /\ Queued' = Queued /\ Exempt' = Exempt
      /\ made' = made
    BY DEF serverVars, Stored, Queued, Seed, Newest, Exempt
<1>2. Once' BY <1>1 DEF IInv, Once, serverVars
<1>3. Guarded' BY <1>1 DEF IInv, Guarded
<1>4. Closed'
  <2>1. Held \subseteq Results /\ Held \subseteq Nat
    <3>1. Held \subseteq 1..made /\ made \in 0..MaxResults BY Plain DEF IInv, Shape
    <3> QED BY <3>1, Counts DEF Results
  <2> SUFFICES ASSUME NEW t \in Held \ (Exempt \cup Stored), NEW b \in B, t <= b PROVE t \in B
      BY <1>1 DEF IInv, Closed
  <2>2. t \notin raced /\ t \in Nat /\ b \in Nat BY <2>1 DEF Exempt
  <2>3. CASE b \in raced
    <3>1. b <= t BY <2>2, <2>3 DEF IInv, Order
    <3> QED BY <2>2, <3>1
  <2>4. CASE b \notin raced
    <3>1. ASSUME t \notin B PROVE b <= t BY <2>1, <2>2, <2>4, <3>1 DEF Before
    <3> QED BY <2>2, <3>1
  <2> QED BY <2>3, <2>4
<1>5. Account' BY <1>1 DEF IInv, Account
<1> QED BY <1>2, <1>3, <1>4, <1>5

LEMMA DrainSpoolKeeps == ASSUME IInv, DrainSpool PROVE IInv'
<1>1. TypeOK /\ Shape /\ Order BY DEF IInv
<1>2. /\ spool \in Seq(Line) /\ Len(spool) \in Nat /\ Len(spool) <= Cap + BatchMax
      /\ count \in Nat /\ Len(spool) <= count /\ count <= Cap + BatchMax
      /\ buf \in Seq(Results) /\ Len(buf) \in Nat /\ made \in 0..MaxResults
    BY <1>1, Plain
<1>3. /\ req = NoReq /\ UNCHANGED <<serverVars, made, dropped, raced, faults, late>>
      /\ UNCHANGED <<spool, count, buf, stopping>>
    BY <1>1 DEF DrainSpool, Shape, agentVars, observed
<1>4. PICK m \in 0..Len(spool) :
         req' = [state |-> "sent", origin |-> "spool", batch |-> SubSeq(spool, 1, m)]
    BY DEF DrainSpool
<1> DEFINE first == SubSeq(spool, 1, m)
           after == Drop(spool, m)
           B     == Sent(first)
<1>5. /\ first \in Seq(Line) /\ Len(first) = m /\ Range(first) \subseteq Range(spool)
      /\ Range(spool) = Range(first) \cup Range(after)
      /\ Before(Range(first), Range(after), raced)
    BY <1>1, <1>2, FirstDoes, RisingFirst DEF Order
<1>6. first = SubSeq(spool, 1, Len(first)) BY <1>5
<1>7. /\ req' = [state |-> "sent", origin |-> "spool", batch |-> first]
      /\ req'.state = "sent" /\ req'.origin = "spool" /\ req'.batch = first
    BY <1>4
<1> HIDE DEF first, after
<1>8. InFlight = <<>> /\ InFlight' = <<>> BY <1>3, <1>7 DEF InFlight, NoReq
<1>9. Held' = Held /\ Pending' = Pending \cup {B}
    BY <1>3, <1>7, <1>8 DEF Held, Pending, NoReq
<1>10. B \subseteq Held BY <1>5 DEF Held, Sent, Lines
<1>11. Before(B, Held \ B, raced)
  <2>1. Held \ B \subseteq Range(after) \cup Range(buf)
      BY <1>5, <1>8, EndsEmpty DEF Held, Sent, Lines
  <2>2. B \subseteq Range(first) /\ B \subseteq Range(spool) BY <1>5 DEF Sent, Lines
  <2> QED BY <1>1, <1>5, <2>1, <2>2 DEF Order, Before
<1>12. Once' /\ Guarded' /\ Closed' /\ Account'
    BY <1>3, <1>9, <1>10, <1>11, BatchTaken
<1>13. TypeOK'
  <2>1. Len(first) <= Cap + BatchMax BY <1>2, <1>5, Counts
  <2>2. /\ late' \subseteq SUBSET Results /\ stopping' \in BOOLEAN /\ faults' \in 0..MaxFaults
        /\ dropped' \subseteq Results /\ raced' \subseteq Results
      BY <1>1, <1>3 DEF TypeOK
  <2>3. Len(buf') <= made' BY <1>1, <1>3 DEF Shape
  <2> QED BY <1>1, <1>2, <1>3, <1>5, <1>7, <2>1, <2>2, <2>3, AgentTypes
<1>14. Shape'
  <2>1. Stored' = Stored BY <1>3 DEF serverVars, Stored, Queued
  <2>2. (Held \cup Stored \cup Sent(req.batch) \cup UNION late)' \subseteq 1..made'
      BY <1>1, <1>3, <1>7, <1>9, <1>10, <2>1 DEF Shape
  <2>3. Len(buf') <= made' /\ last' <= made' /\ raced' \subseteq 1..made'
      BY <1>1, <1>3 DEF Shape, serverVars
  <2> QED BY <1>7, <1>8, <2>2, <2>3 DEF Shape
<1>15. Order' BY <1>1, <1>3, <1>8, <1>9 DEF Order
<1>16. Ahead' /\ Arrived' BY <1>2, <1>3, <1>5, <1>6, <1>7 DEF Ahead, Arrived
<1> QED BY <1>12, <1>13, <1>14, <1>15, <1>16 DEF IInv

LEMMA DrainLiveKeeps == ASSUME IInv, DrainLive PROVE IInv'
<1>1. TypeOK /\ Shape /\ Order BY DEF IInv
<1>2. /\ spool \in Seq(Line) /\ Len(spool) \in Nat /\ Len(spool) <= Cap + BatchMax
      /\ count \in Nat /\ Len(spool) <= count /\ count <= Cap + BatchMax
      /\ buf \in Seq(Results) /\ Len(buf) \in Nat /\ Range(buf) \subseteq Results
      /\ made \in 0..MaxResults
    BY <1>1, Plain
<1>3. /\ req = NoReq /\ UNCHANGED <<serverVars, made, dropped, raced, faults, late>>
      /\ UNCHANGED <<spool, count, stopping>> /\ count = 0
    BY <1>1 DEF DrainLive, Shape, observed
<1> DEFINE n == Min({BatchMax, Len(buf)})
           first == SubSeq(buf, 1, n)
           after == Drop(buf, n)
           B     == Range(first)
<1>4. n \in 0..Len(buf) /\ n <= BatchMax BY <1>2, MinFound, Counts
<1>5. /\ req' = [state |-> "sent", origin |-> "live", batch |-> first]
      /\ req'.state = "sent" /\ req'.origin = "live" /\ req'.batch = first /\ buf' = after
    BY DEF DrainLive
<1> HIDE DEF n
<1>6. /\ first \in Seq(Results) /\ Len(first) = n /\ Range(first) \subseteq Range(buf)
      /\ Range(buf) = Range(first) \cup Range(after)
      /\ Rising(first, raced) /\ Before(Range(first), Range(after), raced)
    BY <1>1, <1>2, <1>4, FirstDoes, RisingFirst DEF Order
<1>7. /\ after \in Seq(Results) /\ Len(after) \in Nat /\ Len(after) <= Len(buf)
      /\ Rising(after, raced)
  <2>1. Rising(after, raced) BY <1>1, <1>2, <1>4, RisingDrop DEF Order
  <2>2. after \in Seq(Results) /\ Len(after) = IF n <= Len(buf) THEN Len(buf) - n ELSE 0
      BY <1>2, <1>4, DropDoes
  <2> QED BY <1>2, <1>4, <2>1, <2>2
<1> HIDE DEF first, after
<1>8. InFlight = <<>> /\ InFlight' = first BY <1>3, <1>5 DEF InFlight, NoReq
<1>9. spool = <<>> /\ Range(spool) = {}
  <2>1. spool = <<>> BY <1>2, <1>3
  <2> QED BY <2>1, EndsEmpty
<1>10. Sent(first) = B BY <1>2, <1>6 DEF Sent, Lines
<1>11. Held' = Held /\ Pending' = Pending \cup {B}
    BY <1>3, <1>5, <1>6, <1>8, <1>10, EndsEmpty DEF Held, Pending, NoReq
<1>12. B \subseteq Held BY <1>6 DEF Held
<1>13. Before(B, Held \ B, raced)
  <2>1. Held \ B \subseteq Range(after) BY <1>6, <1>8, <1>9, EndsEmpty DEF Held, Lines
  <2> QED BY <1>6, <2>1 DEF Before
<1>14. Once' /\ Guarded' /\ Closed' /\ Account'
    BY <1>3, <1>11, <1>12, <1>13, BatchTaken
<1>15. first \in Seq(Line) /\ Len(first) <= Cap + BatchMax /\ Len(first) <= BatchMax
  <2>1. Results \subseteq Line BY Counts
  <2>2. first \in Seq(Line) BY <1>6, <2>1, SeqMonotonic, Zenon
  <2> QED BY <1>4, <1>6, <2>2, Counts
<1>16. Len(buf') <= made' BY <1>1, <1>2, <1>3, <1>5, <1>7 DEF Shape
<1>17. TypeOK'
  <2>1. /\ late' \subseteq SUBSET Results /\ stopping' \in BOOLEAN /\ faults' \in 0..MaxFaults
        /\ dropped' \subseteq Results /\ raced' \subseteq Results
      BY <1>1, <1>3 DEF TypeOK
  <2> QED BY <1>1, <1>2, <1>3, <1>5, <1>7, <1>15, <1>16, <2>1, AgentTypes
<1>18. Shape'
  <2>1. Stored' = Stored BY <1>3 DEF serverVars, Stored, Queued
  <2>2. (Held \cup Stored \cup Sent(req.batch) \cup UNION late)' \subseteq 1..made'
      BY <1>1, <1>3, <1>5, <1>10, <1>11, <1>12, <2>1 DEF Shape
  <2>3. last' <= made' /\ raced' \subseteq 1..made'
      BY <1>1, <1>3 DEF Shape, serverVars
  <2>4. Len(spool') <= Cap BY <1>3, <1>9, EndsEmpty, Counts
  <2> QED BY <1>5, <1>6, <1>15, <1>16, <2>2, <2>3, <2>4 DEF Shape
<1>19. Order'
  <2>1. Range(spool') = {} /\ Rising(spool', raced) BY <1>3, <1>9, EndsEmpty
  <2>2. Before(Range(spool'), Range(InFlight'), raced) /\ Before(Range(spool'), Range(buf'), raced)
      BY <2>1, EndsEmpty
  <2>3. Rising(InFlight', raced) /\ Rising(buf', raced) /\ Before(Range(InFlight'), Range(buf'), raced)
      BY <1>5, <1>6, <1>7, <1>8
  <2>4. \A t \in Held' \ raced', r \in raced' : r <= t BY <1>1, <1>3, <1>11 DEF Order
  <2> QED BY <1>3, <2>1, <2>2, <2>3, <2>4 DEF Order
<1>20. Ahead' /\ Arrived' BY <1>5 DEF Ahead, Arrived
<1> QED BY <1>14, <1>17, <1>18, <1>19, <1>20 DEF IInv

LEMMA HeldIsThere ==
  ASSUME TypeOK, Shape
  PROVE  Lines(Range(spool \o InFlight \o buf)) = Held
<1>1. spool \in Seq(Line) /\ InFlight \in Seq(Line) /\ buf \in Seq(Line)
  <2>1. Results \subseteq Line /\ spool \in Seq(Line) BY Counts, Plain
  <2>2. InFlight \in Seq(Results) /\ buf \in Seq(Results) BY Plain
  <2>3. Seq(Results) \subseteq Seq(Line) BY <2>1, SeqMonotonic, Zenon
  <2> QED BY <2>1, <2>2, <2>3
<1> DEFINE older == spool \o InFlight
<1>2. Range(older) = Range(spool) \cup Range(InFlight) BY <1>1, Joins
<1>3. older \in Seq(Line) BY <1>1
<1> HIDE DEF older
<1>6. Range(older \o buf) = Range(older) \cup Range(buf) BY <1>1, <1>3, Joins
<1>4. Range(spool \o InFlight \o buf) = Range(spool) \cup Range(InFlight) \cup Range(buf)
    BY <1>2, <1>6 DEF older
<1>5. Range(InFlight) \subseteq Results /\ Range(buf) \subseteq Results BY Plain
<1> QED BY <1>4, <1>5 DEF Held, Lines

\* An update's flush with a check-in under way puts what the agent holds out of
\* order: all of it has raced.
LEMMA UpdateKeeps == ASSUME IInv, Update PROVE IInv'
<1>1. TypeOK /\ Shape /\ Order BY DEF IInv
<1>2. /\ spool \in Seq(Line) /\ buf \in Seq(Results) /\ Len(buf) \in Nat
      /\ Range(buf) \subseteq Results /\ Range(InFlight) \subseteq Results
      /\ InFlight \in Seq(Results) /\ made \in 0..MaxResults
      /\ req.batch \in Seq(Line) /\ Len(req.batch) <= Cap + BatchMax
    BY <1>1, Plain
<1>3. /\ AppendLines(buf) /\ buf' = <<>> /\ stopping' = TRUE
      /\ UNCHANGED <<made, req, late, serverVars>> /\ faults' \in 0..MaxFaults
      /\ raced' = IF req = NoReq THEN raced
                  ELSE raced \cup Lines(Range(spool \o InFlight \o buf))
    BY <1>1, FaultCounts DEF Update
<1>4. /\ spool' \in Seq(Line) /\ count' \in Nat
      /\ Len(spool') <= count' /\ count' <= Cap + BatchMax
      /\ buf # <<>> => Len(spool') <= Cap
      /\ buf = <<>> => spool' = spool
      /\ Lines(Range(spool')) \subseteq Lines(Range(spool)) \cup Range(buf)
      /\ Lines(Range(spool)) \cup Range(buf) \subseteq Lines(Range(spool')) \cup dropped'
      /\ dropped \subseteq dropped' /\ dropped' \subseteq Results
      /\ \A out : /\ Rising(spool, out) /\ Rising(buf, out)
                  /\ Before(Range(spool), Range(buf), out)
                  => Rising(spool', out)
    BY <1>1, <1>2, <1>3, AppendDoes
<1>5. Len(spool') <= Cap + BatchMax /\ stopping' \in BOOLEAN /\ late' \subseteq Pending
    BY <1>3, <1>4, Counts DEF Pending
<1>6. /\ buf' \in Seq(Results) /\ Len(buf') = 0 /\ Len(buf') <= Len(buf) /\ Range(buf') = {}
      /\ Rising(buf', raced) /\ Before(Range(spool'), Range(buf'), raced)
  <2>1. buf' \in Seq(Results) /\ Len(buf') = 0 /\ Range(buf') = {} BY <1>3, EndsEmpty
  <2>2. Rising(buf', raced) BY <1>3, EndsEmpty
  <2>3. Before(Range(spool'), Range(buf'), raced) BY <2>1, EndsEmpty
  <2> QED BY <1>2, <2>1, <2>2, <2>3
<1>7. CASE req = NoReq
  <2>1. raced' = raced /\ req' = NoReq /\ InFlight = <<>>
      BY <1>3, <1>7 DEF InFlight, NoReq
  <2>2. Rising(spool', raced) BY <1>1, <1>4 DEF Order
  <2>3. /\ Lines(Range(spool')) \cup Range(buf') \subseteq Held
        /\ Held \subseteq Lines(Range(spool')) \cup Range(buf') \cup dropped' \cup raced \cup Stored
      BY <1>4, <1>6, <2>1, EndsEmpty DEF Held
  <2> QED BY <1>3, <1>4, <1>5, <1>6, <2>1, <2>2, <2>3, CheckinEnds
<1>8. CASE req # NoReq
  <2>1. raced' = raced \cup Held BY <1>1, <1>3, <1>8, HeldIsThere
  <2>2. InFlight' = InFlight BY <1>3 DEF InFlight
  <2>3. Held' \subseteq Held BY <1>4, <1>6, <2>2 DEF Held
  <2>4. Held \subseteq 1..made /\ raced' \subseteq 1..made /\ 1..made \subseteq Results
      BY <1>1, <1>2, <2>1, Counts DEF Shape, Results
  <2>5. TypeOK'
    <3>1. /\ late' \subseteq SUBSET Results /\ raced' \subseteq Results /\ made' \in 0..MaxResults
          /\ req'.state \in {"none", "sent", "answered"} /\ req'.origin \in {"live", "spool"}
        BY <1>1, <1>2, <1>3, <2>4 DEF TypeOK
    <3>2. Len(buf') <= made' BY <1>2, <1>3, <1>6
    <3> QED BY <1>1, <1>2, <1>3, <1>4, <1>5, <1>6, <3>1, <3>2, AgentTypes
  <2>6. Once' /\ Guarded' /\ Closed' /\ Account'
    <3>1. Pending' = Pending BY <1>3 DEF Pending
    <3>2. Exempt \subseteq Exempt' /\ Held \subseteq Exempt' BY <1>4, <2>1 DEF Exempt
    <3> QED BY <1>3, <2>3, <3>1, <3>2, AgentMoves
  <2>7. Shape'
    <3>1. Stored' = Stored BY <1>3 DEF serverVars, Stored, Queued
    <3>2. (Held \cup Stored \cup Sent(req.batch) \cup UNION late)' \subseteq 1..made'
        BY <1>1, <1>3, <2>3, <3>1 DEF Shape
    <3>3. last' <= made' /\ raced' \subseteq 1..made' /\ Len(buf') <= made'
        BY <1>1, <1>2, <1>3, <1>6, <2>4 DEF Shape, serverVars
    <3>4. InFlight' # <<>> => Len(spool') <= Cap BY <1>1, <1>4, <2>2 DEF Shape
    <3> QED BY <1>1, <1>3, <3>2, <3>3, <3>4 DEF Shape
  <2>8. Order'
    <3>1. Lines(Range(spool')) \subseteq raced' /\ Range(InFlight') \subseteq raced'
        BY <1>4, <2>1, <2>2 DEF Held
    <3>2. Rising(spool', raced')
      <4>1. \A i \in DOMAIN spool' : spool'[i] \in Range(spool') BY DEF Range
      <4> QED BY <3>1, <4>1 DEF Rising, Lines
    <3>3. Rising(InFlight', raced')
      <4>1. \A i \in DOMAIN InFlight' : InFlight'[i] \in Range(InFlight') BY DEF Range
      <4> QED BY <3>1, <4>1 DEF Rising
    <3>4. Rising(buf', raced') BY <1>3, EndsEmpty
    <3>5. /\ Before(Range(spool'), Range(InFlight'), raced')
          /\ Before(Range(spool'), Range(buf'), raced')
          /\ Before(Range(InFlight'), Range(buf'), raced')
        BY <1>6, <3>1 DEF Before
    <3>6. Held' \ raced' = {} BY <2>1, <2>3
    <3> QED BY <3>2, <3>3, <3>4, <3>5, <3>6 DEF Order
  <2>9. Ahead'
    <3> SUFFICES ASSUME req'.origin = "spool"
                 PROVE  Lines(Range(spool')) \cup Sent(req'.batch) \subseteq raced'
        BY DEF Ahead
    <3>1. Lines(Range(spool')) \subseteq raced' BY <1>4, <2>1 DEF Held
    <3>2. CASE Len(req.batch) <= Len(spool) /\ req.batch = SubSeq(spool, 1, Len(req.batch))
      <4>1. Len(req.batch) \in 0..Len(spool) BY <1>2, <3>2
      <4>2. Range(req.batch) \subseteq Range(spool) BY <1>2, <3>2, <4>1, FirstDoes
      <4> QED BY <1>3, <2>1, <3>1, <4>2 DEF Held, Sent, Lines
    <3>3. CASE Lines(Range(spool)) \cup Sent(req.batch) \subseteq raced
        BY <1>3, <2>1, <3>1, <3>3
    <3> QED BY <1>3, <3>2, <3>3 DEF IInv, Ahead
  <2>10. Arrived'
    <3>1. Exempt \subseteq Exempt' /\ Stored' = Stored
        BY <1>3, <1>4, <2>1 DEF Exempt, serverVars, Stored, Queued
    <3> QED BY <1>3, <3>1 DEF IInv, Arrived
  <2> QED BY <2>5, <2>6, <2>7, <2>8, <2>9, <2>10 DEF IInv
<1> QED BY <1>7, <1>8

-----------------------------------------------------------------------------
(* The server.                                                             *)

LEMMA AgentRests ==
  ASSUME IInv, UNCHANGED <<agentVars, raced>>, req'.origin = req.origin, req'.batch = req.batch
  PROVE  Order' /\ Ahead' /\ Held' = Held /\ InFlight' = InFlight
<1>1. InFlight' = InFlight BY DEF InFlight
<1>2. Held' = Held BY <1>1 DEF Held, agentVars
<1>3. Order' BY <1>1, <1>2 DEF IInv, Order, agentVars
<1>4. Ahead' BY DEF IInv, Ahead, agentVars
<1> QED BY <1>1, <1>2, <1>3, <1>4

LEMMA ServerTypes ==
  ASSUME TypeOK, UNCHANGED <<agentVars, raced>>, req'.origin = req.origin, req'.batch = req.batch,
         req'.state \in {"none", "sent", "answered"}, late' \subseteq late,
         faults' \in 0..MaxFaults, dropped' \subseteq Results,
         last' \in 0..MaxResults \cup {Unset}, sampleBuf' \subseteq Results,
         writes' \in Seq(SUBSET Results), table' \in [Results -> 0..2]
  PROVE  TypeOK'
BY DEF TypeOK, agentVars

\* What the guard takes.
LEMMA IngestDoes ==
  ASSUME TypeOK, Shape, NEW R \in SUBSET Results, Ingest(R)
  PROVE  /\ Stored' = Stored \cup {t \in R : t > Seed}
         /\ Queued' = Queued \cup {t \in R : t > Seed}
         /\ sampleBuf' = sampleBuf \cup {t \in R : t > Seed}
         /\ writes' = writes /\ table' = table
         /\ Seed' \in Nat /\ Seed <= Seed' /\ \A t \in R : t <= Seed'
         /\ Seed' = Seed \/ Seed' \in R
         /\ last' \in 0..MaxResults \cup {Unset}
         /\ last' = Unset => last = Unset /\ R = {}
         /\ last' = last \/ last' = Seed'
<1> DEFINE accepted == {t \in R : t > Seed}
<1>1. /\ sampleBuf' = sampleBuf \cup accepted /\ writes' = writes /\ table' = table
      /\ last' = IF R = {} THEN last ELSE Max(accepted \cup {Seed})
    BY DEF Ingest
<1>2. Stored' = Stored \cup accepted /\ Queued' = Queued \cup accepted
    BY <1>1 DEF Stored, Queued
<1>3. Seed \in Nat /\ Seed <= MaxResults /\ MaxResults \in Nat
  <2>1. Seed \in Nat /\ Seed <= made /\ made \in 0..MaxResults BY SeedMade, Plain
  <2> QED BY <2>1, Counts
<1>4. last \in 0..MaxResults \cup {Unset} BY DEF TypeOK
<1>5. CASE R = {}
  <2>1. last' = last /\ Seed' = Seed BY <1>1, <1>5 DEF Seed, Newest
  <2> QED BY <1>1, <1>2, <1>3, <1>4, <1>5, <2>1
<1>6. CASE R # {}
  <2> DEFINE S == accepted \cup {Seed}
  <2>1. S \in SUBSET Nat /\ S # {} /\ \A s \in S : s <= MaxResults
    <3>1. \A t \in R : t \in Nat /\ t <= MaxResults BY <1>3 DEF Results
    <3>2. \A s \in S : s \in Nat /\ s <= MaxResults BY <1>3, <3>1
    <3>3. Seed \in S OBVIOUS
    <3> QED BY <3>2, <3>3
  <2>2. Max(S) \in S /\ \A s \in S : s <= Max(S) BY <1>3, <2>1, MaxFound
  <2>3. last' = Max(S) BY <1>1, <1>6
  <2> DEFINE M == Max(S)
  <2> HIDE DEF M
  <2>4. M \in accepted \cup {Seed} /\ \A s \in accepted \cup {Seed} : s <= M /\ last' = M
      BY <2>2, <2>3 DEF M
  <2>5. M \in Nat /\ M <= MaxResults /\ M # Unset BY <2>1, <2>4 DEF Unset
  <2>6. Seed' = M BY <2>3, <2>5 DEF Seed, M
  <2>7. ASSUME NEW t \in R PROVE t <= M
    <3>1. t \in Nat BY Counts
    <3>2. CASE t > Seed BY <2>4, <3>2
    <3>3. CASE ~(t > Seed) BY <1>3, <2>4, <2>5, <3>1, <3>3
    <3> QED BY <3>2, <3>3
  <2>8. last' = M BY <2>3 DEF M
  <2>9. last' \in 0..MaxResults /\ last' # Unset BY <2>5, <2>8
  <2> QED BY <1>1, <1>2, <2>4, <2>5, <2>6, <2>7, <2>8, <2>9
<1> QED BY <1>5, <1>6

\* The guard takes nothing twice, and what it turns away is stored.
LEMMA IngestKeeps ==
  ASSUME IInv, NEW R \in Pending, Ingest(R), UNCHANGED <<agentVars, dropped, raced>>,
         Held' = Held, Pending' \subseteq Pending
  PROVE  /\ Once' /\ Guarded' /\ Closed' /\ Account'
         /\ last' <= made /\ Stored' \subseteq 1..made
<1>1. TypeOK /\ Shape /\ Once BY DEF IInv
<1>2. R \in SUBSET Results /\ R \subseteq 1..made /\ made \in 0..MaxResults
    BY <1>1, Plain DEF Pending, Shape, TypeOK, Sent, Lines
<1> DEFINE accepted == {t \in R : t > Seed}
<1>3. /\ Stored' = Stored \cup accepted /\ Queued' = Queued \cup accepted
      /\ sampleBuf' = sampleBuf \cup accepted /\ writes' = writes /\ table' = table
      /\ Seed' \in Nat /\ Seed <= Seed' /\ \A t \in R : t <= Seed'
      /\ Seed' = Seed \/ Seed' \in R
      /\ last' \in 0..MaxResults \cup {Unset}
      /\ last' = Unset => last = Unset /\ R = {}
      /\ last' = last \/ last' = Seed'
    BY <1>1, <1>2, IngestDoes
<1>4. Seed \in Nat /\ Seed <= made BY <1>1, SeedMade
<1>5. /\ Stored \subseteq 1..made /\ \A t \in Stored : t \in Nat /\ t <= Seed
      /\ Held \subseteq 1..made
    BY <1>1, <1>2 DEF Shape, Once
<1>6. accepted \cap Stored = {} /\ accepted \subseteq R
  <2>1. ASSUME NEW t \in accepted, t \in Stored PROVE FALSE
    <3>1. t > Seed /\ t <= Seed /\ t \in Nat BY <1>5, <2>1
    <3> QED BY <1>4, <3>1
  <2> QED BY <2>1
<1>7. made' = made /\ Exempt' = Exempt BY DEF agentVars, Exempt
<1> HIDE DEF accepted
<1>8. Once'
  <2>1. sampleBuf' \cap UNION Range(writes') = {}
      BY <1>1, <1>3, <1>6 DEF Once, Stored, Queued
  <2>2. \A t \in Results : table'[t] <= 1 /\ (table'[t] = 1 => t \notin Queued')
    <3> SUFFICES ASSUME NEW t \in Results PROVE table[t] <= 1 /\ (table[t] = 1 => t \notin Queued')
        BY <1>3
    <3>1. table[t] <= 1 /\ (table[t] = 1 => t \notin Queued) BY <1>1 DEF Once
    <3>2. table[t] = 1 => t \in Stored BY DEF Stored
    <3> QED BY <1>3, <1>6, <3>1, <3>2
  <2>3. \A t \in Stored' : t <= Seed'
    <3>1. ASSUME NEW t \in Stored PROVE t <= Seed' BY <1>3, <1>4, <1>5
    <3>2. ASSUME NEW t \in accepted PROVE t <= Seed' BY <1>3, <1>6
    <3> QED BY <1>3, <3>1, <3>2
  <2>4. last' = Unset => Queued' = {} BY <1>1, <1>3, <1>6 DEF Once
  <2>5. \A i, j \in DOMAIN writes' : i # j => writes'[i] \cap writes'[j] = {}
      BY <1>1, <1>3 DEF Once
  <2> QED BY <2>1, <2>2, <2>3, <2>4, <2>5 DEF Once
<1>9. Guarded'
  <2> SUFFICES ASSUME NEW t \in Held \ Exempt, t <= Seed', t \notin Stored PROVE t \in accepted
      BY <1>3, <1>7 DEF Guarded
  <2>1. t \in Nat /\ t > Seed BY <1>4, <1>5 DEF IInv, Guarded
  <2>2. Seed' \in R BY <1>3, <2>1
  <2>3. t \in R BY <2>2 DEF IInv, Closed
  <2> QED BY <2>1, <2>3 DEF accepted
<1>10. Closed' BY <1>3, <1>7 DEF IInv, Closed
<1>11. Account' BY <1>3, <1>7 DEF IInv, Account
<1>12. Stored' \subseteq 1..made BY <1>2, <1>3, <1>5, <1>6
<1>13. last' <= made
  <2>1. CASE last' = last BY <1>1, <2>1 DEF Shape
  <2>2. CASE last' = Seed' BY <1>2, <1>3, <1>4, <2>2
  <2> QED BY <1>3, <2>1, <2>2
<1> QED BY <1>8, <1>9, <1>10, <1>11, <1>12, <1>13

LEMMA AnswerKeeps == ASSUME IInv, Answer PROVE IInv'
<1>1. TypeOK /\ Shape /\ Order /\ Ahead /\ Guarded BY DEF IInv
<1> DEFINE R == Sent(req.batch)
<1>2. /\ req.state = "sent" /\ Ingest(R) /\ UNCHANGED <<agentVars, dropped, raced, late, faults>>
      /\ req' = [req EXCEPT !.state = "answered"]
    BY DEF Answer, observed
<1>3. /\ req'.state = "answered" /\ req'.origin = req.origin /\ req'.batch = req.batch
      /\ req' = [state |-> req'.state, origin |-> req'.origin, batch |-> req'.batch]
    BY <1>1, <1>2 DEF Shape
<1>4. R \in Pending /\ Pending' \subseteq Pending BY <1>2, <1>3 DEF Pending
<1>5. Order' /\ Ahead' /\ Held' = Held /\ InFlight' = InFlight
    BY <1>2, <1>3, AgentRests
<1>6. /\ Once' /\ Guarded' /\ Closed' /\ Account'
      /\ last' <= made /\ Stored' \subseteq 1..made
    BY <1>2, <1>4, <1>5, IngestKeeps
<1>7. R \in SUBSET Results BY DEF Sent, Lines
<1>8. /\ Stored' = Stored \cup {t \in R : t > Seed}
      /\ sampleBuf' = sampleBuf \cup {t \in R : t > Seed} /\ writes' = writes /\ table' = table
      /\ last' \in 0..MaxResults \cup {Unset}
    BY <1>1, <1>2, <1>7, IngestDoes
<1>9. TypeOK'
  <2>1. /\ sampleBuf' \subseteq Results /\ writes' \in Seq(SUBSET Results)
        /\ table' \in [Results -> 0..2] /\ late' \subseteq late /\ faults' \in 0..MaxFaults
        /\ dropped' \subseteq Results
      BY <1>1, <1>2, <1>7, <1>8 DEF TypeOK
  <2> QED BY <1>1, <1>2, <1>3, <1>8, <2>1, ServerTypes
<1>10. Shape'
  <2>1. made' = made /\ buf' = buf /\ spool' = spool BY <1>2 DEF agentVars
  <2>2. (Held \cup Stored \cup Sent(req.batch) \cup UNION late)' \subseteq 1..made'
      BY <1>1, <1>2, <1>3, <1>5, <1>6, <2>1 DEF Shape
  <2> QED BY <1>1, <1>2, <1>3, <1>5, <1>6, <2>1, <2>2 DEF Shape
<1>11. Arrived'
  <2> SUFFICES ASSUME NEW x \in R PROVE x \in Stored' \cup Exempt
      BY <1>2, <1>3 DEF Arrived, Exempt
  <2>1. CASE x > Seed BY <1>8, <2>1
  <2>2. CASE ~(x > Seed)
    <3>1. x \in Nat /\ Seed \in Nat BY <1>1, <1>7, Counts, SeedMade
    <3>2. x \in Held \cup raced
      <4>1. CASE req.origin = "live" BY <4>1 DEF Held, InFlight, Sent, Lines
      <4>2. CASE req.origin = "spool"
        <5>1. CASE Len(req.batch) <= Len(spool) /\ req.batch = SubSeq(spool, 1, Len(req.batch))
          <6>1. /\ spool \in Seq(Line) /\ Len(spool) \in Nat
                /\ req.batch \in Seq(Line) /\ Len(req.batch) \in Nat
              BY <1>1, Plain
          <6>2. Len(req.batch) \in 0..Len(spool) BY <5>1, <6>1
          <6>3. Range(req.batch) \subseteq Range(spool) BY <5>1, <6>1, <6>2, FirstDoes
          <6> QED BY <6>3 DEF Held, Sent, Lines
        <5>2. CASE Lines(Range(spool)) \cup Sent(req.batch) \subseteq raced BY <5>2
        <5> QED BY <1>1, <4>2, <5>1, <5>2 DEF Ahead
      <4> QED BY <1>1, <4>1, <4>2 DEF TypeOK
    <3>3. x <= Seed BY <2>2, <3>1
    <3> QED BY <1>1, <1>8, <3>2, <3>3 DEF Guarded, Exempt
  <2> QED BY <2>1, <2>2
<1> QED BY <1>5, <1>6, <1>9, <1>10, <1>11 DEF IInv

LEMMA LateArrivalKeeps == ASSUME IInv, LateArrival PROVE IInv'
<1>1. TypeOK /\ Shape BY DEF IInv
<1>2. PICK R \in late : Ingest(R) /\ late' = late \ {R}
    BY DEF LateArrival
<1>3. UNCHANGED <<agentVars, dropped, raced, req, faults>> BY DEF LateArrival, observed
<1>4. R \in Pending /\ Pending' \subseteq Pending BY <1>2, <1>3 DEF Pending
<1>5. Order' /\ Ahead' /\ Held' = Held /\ InFlight' = InFlight
    BY <1>3, AgentRests
<1>6. /\ Once' /\ Guarded' /\ Closed' /\ Account'
      /\ last' <= made /\ Stored' \subseteq 1..made
    BY <1>2, <1>3, <1>4, <1>5, IngestKeeps
<1>7. R \in SUBSET Results BY <1>1 DEF TypeOK
<1>8. /\ Stored' = Stored \cup {t \in R : t > Seed}
      /\ sampleBuf' = sampleBuf \cup {t \in R : t > Seed} /\ writes' = writes /\ table' = table
      /\ last' \in 0..MaxResults \cup {Unset}
    BY <1>1, <1>2, <1>7, IngestDoes
<1>9. TypeOK'
  <2>1. /\ sampleBuf' \subseteq Results /\ writes' \in Seq(SUBSET Results)
        /\ table' \in [Results -> 0..2] /\ late' \subseteq late /\ faults' \in 0..MaxFaults
        /\ dropped' \subseteq Results /\ req'.state \in {"none", "sent", "answered"}
      BY <1>1, <1>2, <1>3, <1>7, <1>8 DEF TypeOK
  <2> QED BY <1>1, <1>3, <1>8, <2>1, ServerTypes
<1>10. Shape'
  <2>1. made' = made /\ buf' = buf /\ spool' = spool BY <1>3 DEF agentVars
  <2>2. (Held \cup Stored \cup Sent(req.batch) \cup UNION late)' \subseteq 1..made'
      BY <1>1, <1>2, <1>3, <1>5, <1>6, <2>1 DEF Shape
  <2> QED BY <1>1, <1>3, <1>5, <1>6, <2>1, <2>2 DEF Shape
<1>11. Arrived' BY <1>3, <1>8 DEF IInv, Arrived, Exempt
<1> QED BY <1>5, <1>6, <1>9, <1>10, <1>11 DEF IInv

\* What a step of the flush loop or the writer keeps: it moves results on.
LEMMA ServerMoves ==
  ASSUME IInv, UNCHANGED <<agentVars, req, late, last, dropped, raced>>, faults' \in 0..MaxFaults,
         sampleBuf' \subseteq Results, writes' \in Seq(SUBSET Results),
         table' \in [Results -> 0..2], Stored' = Stored, Seed' = Seed, Queued' \subseteq Queued,
         \A i, j \in DOMAIN writes' : i # j => writes'[i] \cap writes'[j] = {},
         sampleBuf' \cap UNION Range(writes') = {},
         \A t \in Results : table'[t] <= 1 /\ (table'[t] = 1 => t \notin Queued')
  PROVE  IInv'
<1>1. TypeOK /\ Shape BY DEF IInv
<1>2. Order' /\ Ahead' /\ Held' = Held /\ InFlight' = InFlight BY AgentRests
<1>3. Exempt' = Exempt /\ Pending' = Pending BY DEF Exempt, Pending
<1>4. TypeOK'
  <2>1. /\ late' \subseteq late /\ dropped' \subseteq Results /\ last' \in 0..MaxResults \cup {Unset}
        /\ req'.state \in {"none", "sent", "answered"}
      BY <1>1 DEF TypeOK
  <2> QED BY <1>1, <2>1, ServerTypes
<1>5. Shape' BY <1>1, <1>2 DEF Shape, agentVars
<1>6. Once'
  <2>1. \A t \in Stored' : t <= Seed' BY DEF IInv, Once
  <2>2. last' = Unset => Queued' = {} BY DEF IInv, Once
  <2> QED BY <2>1, <2>2 DEF Once
<1>7. Guarded' /\ Closed' /\ Account'
    BY <1>2, <1>3 DEF IInv, Guarded, Closed, Account, agentVars
<1>8. Arrived' BY <1>3 DEF IInv, Arrived
<1> QED BY <1>2, <1>4, <1>5, <1>6, <1>7, <1>8 DEF IInv

LEMMA FlushSamplesKeeps == ASSUME IInv, FlushSamples PROVE IInv'
<1>1. TypeOK /\ Once BY DEF IInv
<1>2. /\ writes' = Append(writes, sampleBuf) /\ sampleBuf' = {}
      /\ UNCHANGED <<agentVars, req, late, last, table, faults, dropped, raced>>
      /\ writes \in Seq(SUBSET Results) /\ sampleBuf \in SUBSET Results
      /\ faults' \in 0..MaxFaults /\ table' \in [Results -> 0..2]
    BY <1>1 DEF FlushSamples, observed, TypeOK
<1>3. /\ writes' \in Seq(SUBSET Results) /\ Len(writes) \in Nat /\ DOMAIN writes = 1..Len(writes)
      /\ DOMAIN writes' = 1..Len(writes) + 1 /\ writes'[Len(writes) + 1] = sampleBuf
      /\ \A i \in 1..Len(writes) : writes'[i] = writes[i]
    BY <1>2, AppendProperties
<1>4. Range(writes') = Range(writes) \cup {sampleBuf}
  <2>1. Range(writes') \subseteq Range(writes) \cup {sampleBuf} BY <1>3 DEF Range
  <2>2. Range(writes) \subseteq Range(writes') BY <1>3 DEF Range
  <2>3. sampleBuf \in Range(writes') BY <1>3 DEF Range
  <2> QED BY <2>1, <2>2, <2>3
<1>5. Queued' = Queued BY <1>2, <1>4 DEF Queued
<1>6. Stored' = Stored /\ Seed' = Seed BY <1>2, <1>5 DEF Stored, Seed, Newest
<1>7. ASSUME NEW i \in DOMAIN writes', NEW j \in DOMAIN writes', i # j
      PROVE  writes'[i] \cap writes'[j] = {}
  <2>1. \A n \in 1..Len(writes) : writes[n] \cap sampleBuf = {}
      BY <1>1, <1>3 DEF Once, Range
  <2>2. CASE i \in 1..Len(writes) /\ j \in 1..Len(writes)
      BY <1>1, <1>3, <1>7, <2>2 DEF Once
  <2>3. CASE i = Len(writes) + 1
    <3>1. j \in 1..Len(writes) BY <1>3, <1>7, <2>3
    <3> QED BY <1>3, <2>1, <2>3, <3>1
  <2>4. CASE j = Len(writes) + 1
    <3>1. i \in 1..Len(writes) BY <1>3, <1>7, <2>4
    <3> QED BY <1>3, <2>1, <2>4, <3>1
  <2> QED BY <1>3, <2>2, <2>3, <2>4
<1>8. sampleBuf' \subseteq Results /\ sampleBuf' \cap UNION Range(writes') = {} BY <1>2
<1>9. \A t \in Results : table'[t] <= 1 /\ (table'[t] = 1 => t \notin Queued')
    BY <1>1, <1>2, <1>5 DEF Once
<1> QED BY <1>2, <1>3, <1>5, <1>6, <1>7, <1>8, <1>9, ServerMoves

\* The writer's next batch and those behind it.
LEMMA NextBatch ==
  ASSUME TypeOK, Once, writes # <<>>
  PROVE  /\ Tail(writes) \in Seq(SUBSET Results) /\ Head(writes) \subseteq Results
         /\ UNION Range(writes) = Head(writes) \cup UNION Range(Tail(writes))
         /\ Head(writes) \cap UNION Range(Tail(writes)) = {}
         /\ \A i, j \in DOMAIN Tail(writes) : i # j => Tail(writes)[i] \cap Tail(writes)[j] = {}
<1>1. writes \in Seq(SUBSET Results) BY DEF TypeOK
<1> DEFINE t == Tail(writes)
           n == Len(writes) - 1
<1>2. /\ t \in Seq(SUBSET Results) /\ n \in Nat /\ Len(t) = n /\ \A i \in 1..n : t[i] = writes[i + 1]
      /\ Head(writes) = writes[1] /\ DOMAIN writes = 1..n + 1 /\ writes[1] \in SUBSET Results
    BY <1>1, HeadTailProperties
<1> HIDE DEF t, n
<1>3. DOMAIN t = 1..n BY <1>2
<1>4. UNION Range(writes) = writes[1] \cup UNION Range(t)
  <2>1. ASSUME NEW i \in DOMAIN writes, NEW x \in writes[i] PROVE x \in writes[1] \cup UNION Range(t)
    <3>1. CASE i = 1 BY <2>1, <3>1
    <3>2. CASE i # 1
      <4>1. i - 1 \in 1..n /\ (i - 1) + 1 = i BY <1>2, <3>2
      <4>2. t[i - 1] = writes[i] BY <1>2, <4>1
      <4>3. t[i - 1] \in Range(t) BY <1>3, <4>1 DEF Range
      <4> QED BY <2>1, <4>2, <4>3
    <3> QED BY <3>1, <3>2
  <2>2. ASSUME NEW i \in 1..n PROVE t[i] \in Range(writes)
    <3>1. i + 1 \in DOMAIN writes BY <1>2
    <3> QED BY <1>2, <3>1 DEF Range
  <2>3. writes[1] \in Range(writes)
    <3>1. 1 \in DOMAIN writes BY <1>2
    <3> QED BY <3>1 DEF Range
  <2> QED BY <1>3, <2>1, <2>2, <2>3 DEF Range
<1>5. ASSUME NEW i \in 1..n PROVE writes[1] \cap t[i] = {}
  <2>1. 1 \in DOMAIN writes /\ i + 1 \in DOMAIN writes /\ 1 # i + 1 BY <1>2
  <2> QED BY <1>2, <2>1 DEF Once
<1>6. ASSUME NEW i \in 1..n, NEW j \in 1..n, i # j PROVE t[i] \cap t[j] = {}
  <2>1. i + 1 \in DOMAIN writes /\ j + 1 \in DOMAIN writes /\ i + 1 # j + 1 BY <1>2, <1>6
  <2> QED BY <1>2, <2>1 DEF Once
<1>7. writes[1] \cap UNION Range(t) = {} BY <1>3, <1>5 DEF Range
<1> QED BY <1>2, <1>3, <1>4, <1>6, <1>7 DEF t

LEMMA WriteSamplesKeeps == ASSUME IInv, WriteSamples PROVE IInv'
<1>1. TypeOK /\ Once BY DEF IInv
<1> DEFINE h == Head(writes)
<1>2. /\ writes' = Tail(writes) /\ writes # <<>>
      /\ table' = [t \in Results |-> IF t \in h /\ table[t] < 2 THEN table[t] + 1 ELSE table[t]]
      /\ UNCHANGED <<agentVars, req, late, last, sampleBuf, faults, dropped, raced>>
      /\ faults' \in 0..MaxFaults /\ sampleBuf' \subseteq Results
    BY <1>1 DEF WriteSamples, observed, TypeOK
<1>3. /\ writes' \in Seq(SUBSET Results) /\ h \subseteq Results
      /\ UNION Range(writes) = h \cup UNION Range(writes') /\ h \cap UNION Range(writes') = {}
      /\ \A i, j \in DOMAIN writes' : i # j => writes'[i] \cap writes'[j] = {}
    BY <1>1, <1>2, NextBatch
<1> HIDE DEF h
<1>4. Queued = Queued' \cup h /\ sampleBuf' \cap UNION Range(writes') = {} /\ h \cap Queued' = {}
    BY <1>1, <1>2, <1>3 DEF Queued, Once
<1>5. \A t \in Results : /\ table[t] \in 0..2 /\ table[t] <= 1 /\ (table[t] = 1 => t \notin Queued)
                         /\ table'[t] = IF t \in h /\ table[t] < 2 THEN table[t] + 1 ELSE table[t]
    BY <1>1, <1>2 DEF TypeOK, Once
<1>6. \A t \in Results : table'[t] = IF t \in h THEN 1 ELSE table[t]
  <2> TAKE t \in Results
  <2>1. t \in h => table[t] = 0 BY <1>4, <1>5
  <2> QED BY <1>5, <2>1
<1>7. \A t \in Results : table'[t] <= 1 /\ (table'[t] = 1 => t \notin Queued')
    BY <1>4, <1>5, <1>6
<1>8. table' \in [Results -> 0..2]
  <2>1. \A t \in Results : (IF t \in h /\ table[t] < 2 THEN table[t] + 1 ELSE table[t]) \in 0..2
      BY <1>5
  <2> QED BY <1>2, <2>1
<1>9. Stored' = Stored BY <1>3, <1>4, <1>5, <1>6 DEF Stored
<1>10. Seed' = Seed
  <2>1. CASE last = Unset
    <3>1. h = {} BY <1>1, <1>4, <2>1 DEF Once
    <3>2. {t \in Results : table'[t] > 0} = {t \in Results : table[t] > 0} BY <1>6, <3>1
    <3> QED BY <1>2, <3>2 DEF Seed, Newest
  <2>2. CASE last # Unset BY <1>2, <2>2 DEF Seed
  <2> QED BY <2>1, <2>2
<1> QED BY <1>2, <1>3, <1>4, <1>7, <1>8, <1>9, <1>10, ServerMoves

LEMMA WriteFailsKeeps == ASSUME IInv, WriteFails PROVE IInv'
<1>1. TypeOK /\ Once BY DEF IInv
<1>2. /\ writes' = Tail(writes) /\ writes # <<>> /\ sampleBuf' = sampleBuf \cup Head(writes)
      /\ UNCHANGED <<agentVars, req, late, last, table, dropped, raced>>
      /\ faults' \in 0..MaxFaults /\ sampleBuf \subseteq Results /\ table' \in [Results -> 0..2]
    BY <1>1, FaultCounts DEF WriteFails, observed, TypeOK
<1>3. /\ writes' \in Seq(SUBSET Results) /\ Head(writes) \subseteq Results
      /\ UNION Range(writes) = Head(writes) \cup UNION Range(writes')
      /\ Head(writes) \cap UNION Range(writes') = {}
      /\ \A i, j \in DOMAIN writes' : i # j => writes'[i] \cap writes'[j] = {}
    BY <1>1, <1>2, NextBatch
<1>4. Queued' = Queued /\ sampleBuf' \cap UNION Range(writes') = {} /\ sampleBuf' \subseteq Results
    BY <1>1, <1>2, <1>3 DEF Queued, Once
<1>5. Stored' = Stored /\ Seed' = Seed BY <1>2, <1>4 DEF Stored, Seed, Newest
<1>6. \A t \in Results : table'[t] <= 1 /\ (table'[t] = 1 => t \notin Queued')
    BY <1>1, <1>2, <1>4 DEF Once
<1> QED BY <1>2, <1>3, <1>4, <1>5, <1>6, ServerMoves

\* The guard starts again from the table: what was on its way is lost, so the
\* newest of the table is newer than nothing that is still held but stored.
LEMMA ServerRestartKeeps == ASSUME IInv, ServerRestart PROVE IInv'
<1>1. TypeOK /\ Shape /\ Once BY DEF IInv
<1>2. /\ last' = Unset /\ dropped' = dropped \cup Queued
      /\ sampleBuf' = {} /\ writes' = <<>> /\ late' = {}
      /\ UNCHANGED <<agentVars, req, table, raced>> /\ faults' \in 0..MaxFaults
    BY <1>1, FaultCounts DEF ServerRestart, Queued
<1>3. Range(<<>>) = {} /\ <<>> \in Seq(SUBSET Results) /\ DOMAIN <<>> = {} BY DEF Range
<1>4. Queued' = {} BY <1>2, <1>3 DEF Queued
<1>5. Stored' = {t \in Results : table[t] > 0} /\ Stored = Queued \cup Stored'
    BY <1>2, <1>4 DEF Stored
<1>6. /\ Seed' = Newest /\ Newest \in Nat /\ (Newest = 0 \/ Newest \in Stored)
      /\ \A t \in Stored' : t <= Newest
  <2>1. Seed' = Newest BY <1>2 DEF Seed, Newest
  <2> QED BY <1>1, <1>5, <2>1, NewestIs DEF Stored
<1>7. Seed \in Nat /\ Seed' <= Seed
  <2>1. Seed \in Nat BY <1>1, SeedMade
  <2> QED BY <1>1, <1>6, <2>1 DEF Once
<1>8. /\ Exempt' = Exempt \cup Queued /\ Exempt \cup Stored \subseteq Exempt' \cup Stored'
    BY <1>2, <1>5 DEF Exempt
<1>9. Order' /\ Ahead' /\ Held' = Held /\ InFlight' = InFlight BY <1>2, AgentRests
<1>10. Pending' \subseteq Pending BY <1>2 DEF Pending
<1>11. Held \subseteq Nat /\ made' = made
  <2>1. Held \subseteq 1..made BY <1>1 DEF Shape
  <2> QED BY <1>1, <1>2, <2>1, Plain DEF agentVars
<1>12. TypeOK'
  <2>1. /\ Queued \subseteq Results /\ dropped' \subseteq Results
        /\ table' \in [Results -> 0..2] /\ req'.state \in {"none", "sent", "answered"}
        /\ last' \in 0..MaxResults \cup {Unset}
    <3>1. UNION Range(writes) \subseteq Results
      <4>1. writes \in Seq(SUBSET Results) BY <1>1 DEF TypeOK
      <4>2. \A i \in DOMAIN writes : writes[i] \in SUBSET Results BY <4>1
      <4> QED BY <4>2 DEF Range
    <3> QED BY <1>1, <1>2, <3>1 DEF TypeOK, Queued
  <2> QED BY <1>1, <1>2, <1>3, <2>1, ServerTypes
<1>13. Shape'
  <2>1. Stored' \subseteq 1..made BY <1>1, <1>5 DEF Shape
  <2>2. (Held \cup Stored \cup Sent(req.batch) \cup UNION late)' \subseteq 1..made'
      BY <1>1, <1>2, <1>9, <1>11, <2>1 DEF Shape
  <2>3. last' <= made'
    <3>1. made \in 0..MaxResults BY <1>1, Plain
    <3> QED BY <1>2, <1>11, <3>1 DEF Unset
  <2> QED BY <1>1, <1>2, <1>9, <2>2, <2>3 DEF Shape, agentVars
<1>14. Once'
  <2>1. \A t \in Results : table[t] <= 1 BY <1>1 DEF Once
  <2> QED BY <1>2, <1>3, <1>4, <1>6, <2>1 DEF Once
<1>15. Guarded'
  <2> SUFFICES ASSUME NEW t \in Held, t \notin Exempt', t <= Seed' PROVE t \in Stored'
      BY <1>9 DEF Guarded
  <2>1. t <= Seed BY <1>6, <1>7, <1>11
  <2>2. t \notin Exempt /\ t \notin Queued BY <1>8
  <2> QED BY <1>5, <2>1, <2>2 DEF IInv, Guarded
<1>16. Closed' BY <1>8, <1>9, <1>10 DEF IInv, Closed
<1>17. Account' BY <1>8, <1>9, <1>11 DEF IInv, Account
<1>18. Arrived' BY <1>2, <1>8 DEF IInv, Arrived
<1> QED BY <1>9, <1>12, <1>13, <1>14, <1>15, <1>16, <1>17, <1>18 DEF IInv

-----------------------------------------------------------------------------
(* The specification.                                                      *)

LEMMA StartsWell == Init => IInv
<1> SUFFICES ASSUME Init PROVE IInv OBVIOUS
<1>1. /\ made = 0 /\ buf = <<>> /\ spool = <<>> /\ count = 0 /\ req = NoReq /\ late = {}
      /\ last = Unset /\ sampleBuf = {} /\ writes = <<>> /\ table = [t \in Results |-> 0]
      /\ stopping = FALSE /\ faults = 0 /\ dropped = {} /\ raced = {}
    BY DEF Init
<1>2. /\ req.state = "none" /\ req.origin = "live" /\ req.batch = <<>> /\ InFlight = <<>>
      /\ req = [state |-> req.state, origin |-> req.origin, batch |-> req.batch]
    BY <1>1 DEF NoReq, InFlight
<1>3. /\ Range(<<>>) = {} /\ Len(<<>>) = 0 /\ DOMAIN <<>> = {} /\ <<>> \in Seq(Results)
      /\ <<>> \in Seq(Line) /\ <<>> \in Seq(SUBSET Results)
    BY EndsEmpty
<1>4. Held = {} /\ Queued = {} /\ Stored = {} /\ Exempt = {} /\ Sent(req.batch) = {} /\ Pending = {}
  <2>1. Held = {} /\ Sent(req.batch) = {} BY <1>1, <1>2, <1>3 DEF Held, Sent, Lines
  <2>2. Queued = {} BY <1>1, <1>3 DEF Queued
  <2>3. Stored = {} BY <1>1, <2>2 DEF Stored
  <2> QED BY <1>1, <1>2, <2>1, <2>2, <2>3 DEF Exempt, Pending
<1>5. TypeOK
  <2>1. Cap + BatchMax \in Nat /\ MaxResults \in Nat /\ MaxFaults \in Nat BY Counts
  <2>2. /\ <<>> \in BoundedSeq(Line, Cap + BatchMax) /\ <<>> \in BoundedSeq(Results, MaxResults)
    <3>1. Len(<<>>) <= Cap + BatchMax /\ Len(<<>>) <= MaxResults BY <1>3, <2>1
    <3> QED BY <1>3, <2>1, <3>1, BoundedIsSeq
  <2>3. count \in Len(spool)..(Cap + BatchMax) BY <1>1, <1>3, <2>1
  <2>4. spool \in BoundedSeq(Line, Cap + BatchMax) /\ req.batch \in BoundedSeq(Line, Cap + BatchMax)
      BY <1>1, <1>2, <2>2
  <2>5. /\ made \in 0..MaxResults /\ last \in 0..MaxResults \cup {Unset} /\ faults \in 0..MaxFaults
        /\ table \in [Results -> 0..2]
      BY <1>1, <2>1
  <2>6. buf \in BoundedSeq(Results, MaxResults) /\ writes \in Seq(SUBSET Results)
      BY <1>1, <1>3, <2>2
  <2>7. sampleBuf \subseteq Results /\ late \subseteq SUBSET Results BY <1>1
  <2> QED BY <1>1, <1>2, <2>3, <2>4, <2>5, <2>6, <2>7 DEF TypeOK, Line
<1>6. Shape
  <2>1. 0 <= BatchMax /\ last <= made BY <1>1, Counts DEF Unset
  <2> QED BY <1>1, <1>2, <1>3, <1>4, <2>1 DEF Shape
<1>7. Once
  <2>1. \A t \in Results : table[t] = 0 BY <1>1
  <2> QED BY <1>1, <1>3, <1>4, <2>1 DEF Once
<1>8. Order
  <2>1. Rising(<<>>, raced) /\ Before(Range(<<>>), Range(<<>>), raced) BY EndsEmpty
  <2> QED BY <1>1, <1>2, <1>4, <2>1 DEF Order
<1>9. Ahead /\ Guarded /\ Closed /\ Arrived BY <1>2, <1>4 DEF Ahead, Guarded, Closed, Arrived
<1>10. Account BY <1>1 DEF Account
<1> QED BY <1>5, <1>6, <1>7, <1>8, <1>9, <1>10 DEF IInv

LEMMA StepKeeps == IInv /\ [Next]_vars => IInv'
<1> SUFFICES ASSUME IInv, [Next]_vars PROVE IInv' OBVIOUS
<1>1. CASE Probe BY <1>1, ProbeKeeps
<1>2. CASE DrainSpool BY <1>2, DrainSpoolKeeps
<1>3. CASE DrainLive BY <1>3, DrainLiveKeeps
<1>4. CASE Acked BY <1>4, AckedKeeps
<1>5. CASE TransportFailed BY <1>5, TransportFailedKeeps
<1>6. CASE Rejected BY <1>6, RejectedKeeps
<1>7. CASE AgentCrash BY <1>7, AgentCrashKeeps
<1>8. CASE Update BY <1>8, UpdateKeeps
<1>9. CASE Exit BY <1>9, ExitKeeps
<1>10. CASE Answer BY <1>10, AnswerKeeps
<1>11. CASE LateArrival BY <1>11, LateArrivalKeeps
<1>12. CASE FlushSamples BY <1>12, FlushSamplesKeeps
<1>13. CASE WriteSamples BY <1>13, WriteSamplesKeeps
<1>14. CASE WriteFails BY <1>14, WriteFailsKeeps
<1>15. CASE ServerRestart BY <1>15, ServerRestartKeeps
<1>16. CASE UNCHANGED vars
  <2>1. UNCHANGED <<agentVars, req, late, last, sampleBuf, writes, table, faults, dropped, raced>>
      BY <1>16 DEF vars, serverVars, observed
  <2>2. TypeOK /\ Once BY DEF IInv
  <2>3. Queued' = Queued /\ Stored' = Stored /\ Seed' = Seed
      BY <2>1 DEF Queued, Stored, Seed, Newest
  <2>4. /\ faults' \in 0..MaxFaults /\ sampleBuf' \subseteq Results
        /\ writes' \in Seq(SUBSET Results) /\ table' \in [Results -> 0..2]
      BY <2>1, <2>2 DEF TypeOK
  <2>5. /\ \A i, j \in DOMAIN writes' : i # j => writes'[i] \cap writes'[j] = {}
        /\ sampleBuf' \cap UNION Range(writes') = {}
        /\ \A t \in Results : table'[t] <= 1 /\ (table'[t] = 1 => t \notin Queued')
      BY <2>1, <2>2, <2>3 DEF Once
  <2> QED BY <2>1, <2>3, <2>4, <2>5, ServerMoves
<1> QED
  BY <1>1, <1>2, <1>3, <1>4, <1>5, <1>6, <1>7, <1>8, <1>9, <1>10, <1>11, <1>12, <1>13, <1>14,
     <1>15, <1>16 DEF Next

LEMMA AlwaysIInv == Spec => []IInv
BY StartsWell, StepKeeps, PTL DEF Spec

\* Every state of the way of a result has its type: the spool stays within its
\* cap and one batch, its count is never below its lines, and no result is
\* stored more often than the table can say.
THEOREM DeliveredTypes == Spec => []TypeOK
<1>1. IInv => TypeOK BY DEF IInv
<1> QED BY <1>1, AlwaysIInv, PTL

\* A result that is neither held nor exempt is at the server.
LEMMA NothingLost == IInv => NoLoss
<1> SUFFICES ASSUME IInv, NEW t \in 1..made
             PROVE  \/ t \in Range(spool \o InFlight \o buf)
                    \/ t \in sampleBuf \cup UNION Range(writes)
                    \/ table[t] > 0
                    \/ t \in dropped \cup raced
    BY DEF NoLoss
<1>1. t \in Held \cup Stored \cup Exempt BY DEF IInv, Account
<1>2. CASE t \in Held
  <2>1. Held \subseteq Range(spool \o InFlight \o buf) BY HeldIsThere DEF IInv, Lines
  <2> QED BY <1>2, <2>1
<1>3. CASE t \in Stored BY <1>3 DEF Stored, Queued
<1>4. CASE t \in Exempt BY <1>4 DEF Exempt
<1> QED BY <1>1, <1>2, <1>3, <1>4

LEMMA NothingTwice == IInv => NoDuplicate
<1> SUFFICES ASSUME IInv, NEW t \in Results
             PROVE  table[t] + Cardinality({i \in DOMAIN writes : t \in writes[i]})
                             + (IF t \in sampleBuf THEN 1 ELSE 0) <= 1
    BY DEF NoDuplicate
<1> DEFINE In == {i \in DOMAIN writes : t \in writes[i]}
<1>1. Once /\ table[t] \in 0..2 BY DEF IInv, TypeOK
<1>2. table[t] \in {0, 1} /\ (table[t] = 1 => t \notin Queued)
    BY <1>1 DEF Once
<1>3. \A i, j \in In : i = j BY <1>1 DEF Once
<1>4. In # {} => t \in UNION Range(writes) BY DEF Range
<1> HIDE DEF In
<1>5. CASE In = {}
  <2>1. Cardinality(In) = 0 BY <1>5, FS_EmptySet
  <2>2. t \in sampleBuf => table[t] = 0 BY <1>2 DEF Queued
  <2>3. table[t] + Cardinality(In) + (IF t \in sampleBuf THEN 1 ELSE 0) <= 1
      BY <1>2, <2>1, <2>2
  <2> QED BY <2>3 DEF In
<1>6. CASE In # {}
  <2>1. PICK i \in In : In = {i} BY <1>3, <1>6
  <2>2. Cardinality(In) = 1 BY <2>1, FS_Singleton
  <2>3. t \notin sampleBuf /\ table[t] = 0 BY <1>1, <1>2, <1>4, <1>6 DEF Once, Queued
  <2>4. table[t] + Cardinality(In) + (IF t \in sampleBuf THEN 1 ELSE 0) <= 1
      BY <2>2, <2>3
  <2> QED BY <2>4 DEF In
<1> QED BY <1>5, <1>6

\* A result is delivered once: it is at the agent, on its way through the
\* server or stored unless a crash, a full spool or an update's flush in the
\* middle of a check-in accounts for it, and it is never stored twice, whatever
\* requests and answers get lost or late, and however often the server or the
\* agent starts again (_checkin_once, Spool, the guard of _process_result).
THEOREM AlwaysExactlyOnce == Spec => []ExactlyOnce
<1>1. IInv => ExactlyOnce BY NothingLost, NothingTwice DEF ExactlyOnce
<1> QED BY <1>1, AlwaysIInv, PTL
=============================================================================
