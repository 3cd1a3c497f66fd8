--------------------------- MODULE Incident_proofs ---------------------------
(***************************************************************************)
(* The incidents of a sensor and their rows, for any debounce, queue and   *)
(* setting.  What is said of the rows is said of the table the pending     *)
(* writes will leave, so the first part is about such tables: what one     *)
(* more write does to them, and what it cannot change.                     *)
(***************************************************************************)
EXTENDS Incident, SequenceTheorems, WellFoundedInduction, TLAPS

\* Without operators and window, nothing is muted, parked or dismissed.
Plain ==
    /\ ~muted /\ ~cycle.muted /\ running
    /\ grace = "unarmed" /\ flush = "idle" /\ logsQ = <<>>
    /\ rows.dismissed = {}

\* An unresolved row, or one that was acknowledged after its recovery.
Shown(d) == OpenRow(d) \/ d \in rows.revived

\* At each place of the cycle, what the sensor knows of its outage and what
\* the rows say of it: a row is written first and the flag set after.
DownFits ==
    /\ cycle.at \notin {"parkDown", "parkThr"}
    /\ cycle.at = "markDown" => ~down /\ OpenRow("down")
    /\ cycle.at = "markUp" => down /\ ~OpenRow("down")
    /\ cycle.at \notin {"markDown", "markUp"} =>
          (down => Shown("down")) /\ (OpenRow("down") => down)

\* Of the threshold, the state moves first and the rows follow.
LevelFits ==
    /\ cycle.at = "raise" =>
          /\ thr = Level(cycle.res) /\ thr # "ok"
          /\ thr = "crit" => cycle.left \subseteq {"threshold_warn"}
          /\ thr = "warn" => /\ cycle.left \subseteq {"threshold_crit"}
                             /\ OpenRow("threshold_crit") => "threshold_crit" \in cycle.left
    /\ cycle.at = "clear" => thr = "ok"
    /\ cycle.at \notin {"raise", "clear"} =>
          /\ thr = "crit" => Shown("threshold_crit")
          /\ thr = "warn" => Shown("threshold_warn") \/ Shown("anomaly_warn")
          /\ OpenRow("threshold_crit") => thr = "crit"
          /\ OpenRow("threshold_warn") => thr # "ok"

\* A crash may come after any of the pending writes.
OneDownRow == \A n \in 0..Len(mainQ) : Open(After(rows, mainQ)[n], "down") <= 1

\* What the silence and the window rest on, whoever is in the way.
Quieted ==
    /\ cycle.at \in {"parkDown", "raise", "parkThr", "clear"} => ~cycle.muted
    /\ flush # "idle" => grace = "closed"
    /\ cycle.at = "markUp" /\ ~cycle.muted => ~parked.down
    /\ ~Queued => mainQ = <<>>

Fits == Plain /\ DownFits /\ LevelFits /\ OneDownRow

IInv == TypeOK /\ Quieted /\ (Undisturbed => Fits)
------------------------------------------------------------------------------
(* The tables that pending writes leave.                                   *)

LEMMA LeastOf ==
  ASSUME NEW S \in SUBSET Nat, S # {}
  PROVE  \E m \in S : \A k \in S : ~(k < m)
<1>1. \E m \in S : \A k \in S : ~(<<k, m>> \in OpToRel(<, Nat))
    BY NatLessThanWellFounded, WFMin
<1>. QED BY <1>1 DEF OpToRel

\* What holds at zero and passes on from n to n + 1 holds up to any bound.
LEMMA UpTo ==
  ASSUME NEW S, NEW L \in Nat, 0 \in S, \A n \in 1..L : n - 1 \in S => n \in S
  PROVE  \A n \in 0..L : n \in S
<1>1. SUFFICES ASSUME (0..L) \ S # {} PROVE FALSE
    OBVIOUS
<1> DEFINE B == (0..L) \ S
<1>a. B \in SUBSET Nat /\ B # {} BY <1>1
<1>2. PICK m \in B : \A k \in B : ~(k < m)
  <2> HIDE DEF B
  <2>. QED BY <1>a, LeastOf
<1>3. m # 0 BY <1>2
<1>4. m \in 1..L /\ m - 1 \in 0..L /\ m - 1 < m BY <1>2, <1>3
<1>5. m - 1 \in S BY <1>2, <1>4
<1>. QED BY <1>2, <1>4, <1>5

\* g tells the table after each of the first m writes.
Tells(g, t, ws, m) == g = [n \in 0..m |-> IF n = 0 THEN t ELSE Apply(g[n - 1], ws[n])]

LEMMA AfterExists ==
  ASSUME NEW t, NEW ws, NEW L \in Nat
  PROVE  \E g : Tells(g, t, ws, L)
<1> DEFINE S == {m \in 0..L : \E g : Tells(g, t, ws, m)}
<1>1. 0 \in S
  <2> DEFINE g == [n \in 0..0 |-> t]
  <2>1. g = [n \in 0..0 |-> IF n = 0 THEN t ELSE Apply(g[n - 1], ws[n])] OBVIOUS
  <2>2. Tells(g, t, ws, 0) BY <2>1 DEF Tells
  <2> HIDE DEF g
  <2>. QED BY <2>2
<1>2. ASSUME NEW m \in 1..L, m - 1 \in S PROVE m \in S
  <2>1. PICK g : Tells(g, t, ws, m - 1) BY <1>2
  <2>2. g = [n \in 0..(m - 1) |-> IF n = 0 THEN t ELSE Apply(g[n - 1], ws[n])]
      BY <2>1 DEF Tells
  <2> DEFINE h == [n \in 0..m |-> IF n = m THEN Apply(g[m - 1], ws[m]) ELSE g[n]]
  <2>3. ASSUME NEW n \in 0..m PROVE h[n] = IF n = 0 THEN t ELSE Apply(h[n - 1], ws[n])
    <3>1. CASE n = 0 BY <2>2, <3>1
    <3>2. CASE n # 0 /\ n # m
      <4>1. n \in 0..(m - 1) /\ n - 1 \in 0..m /\ n - 1 # m BY <3>2
      <4>2. h[n] = g[n] /\ h[n - 1] = g[n - 1] BY <3>2, <4>1
      <4>3. g[n] = Apply(g[n - 1], ws[n]) BY <2>2, <3>2, <4>1
      <4>. QED BY <3>2, <4>2, <4>3
    <3>3. CASE n = m
      <4>1. n # 0 /\ n - 1 \in 0..m /\ n - 1 # m BY <3>3
      <4>2. h[n] = Apply(g[m - 1], ws[m]) /\ h[n - 1] = g[m - 1] BY <3>3, <4>1
      <4>. QED BY <3>3, <4>1, <4>2
    <3>. QED BY <3>1, <3>2, <3>3
  <2>4. h = [n \in 0..m |-> h[n]] OBVIOUS
  <2> HIDE DEF h
  <2>5. Tells(h, t, ws, m) BY <2>3, <2>4 DEF Tells
  <2>. QED BY <2>5
<1> HIDE DEF S
<1>3. L \in S BY <1>1, <1>2, UpTo
<1>. QED BY <1>3 DEF S

LEMMA AfterIs ==
  ASSUME NEW t, NEW ws, Len(ws) \in Nat
  PROVE  /\ After(t, ws)[0] = t
         /\ \A n \in 1..Len(ws) : After(t, ws)[n] = Apply(After(t, ws)[n - 1], ws[n])
<1> DEFINE f == After(t, ws)
<1>1. \E g : g = [n \in 0..Len(ws) |-> IF n = 0 THEN t ELSE Apply(g[n - 1], ws[n])]
  <2>1. PICK g : Tells(g, t, ws, Len(ws)) BY AfterExists
  <2>2. g = [n \in 0..Len(ws) |-> IF n = 0 THEN t ELSE Apply(g[n - 1], ws[n])]
      BY <2>1 DEF Tells
  <2>. QED BY <2>2, Zenon
<1>2. f = [n \in 0..Len(ws) |-> IF n = 0 THEN t ELSE Apply(f[n - 1], ws[n])]
    BY <1>1 DEF After
<1> HIDE DEF f
<1>3. f[0] = t BY <1>2
<1>4. \A n \in 1..Len(ws) : f[n] = Apply(f[n - 1], ws[n]) BY <1>2
<1>. QED BY <1>3, <1>4 DEF f

\* The writes vs stand among the writes ws, behind the first k.
Stand(vs, ws, k) == /\ k + Len(vs) <= Len(ws)
                    /\ \A n \in 1..Len(vs) : ws[k + n] = vs[n]

\* There they do what they do alone.
LEMMA Within ==
  ASSUME NEW t, NEW ws \in Seq(Writes), NEW vs \in Seq(Writes), NEW k \in Nat,
         Stand(vs, ws, k)
  PROVE  \A n \in 0..Len(vs) : After(t, ws)[k + n] = After(After(t, ws)[k], vs)[n]
<1> DEFINE f == After(t, ws)
           g == After(f[k], vs)
           S == {n \in 0..Len(vs) : f[k + n] = g[n]}
<1>1. Len(vs) \in Nat /\ Len(ws) \in Nat OBVIOUS
<1>2. \A n \in 1..Len(ws) : f[n] = Apply(f[n - 1], ws[n]) BY <1>1, AfterIs
<1>3. g[0] = f[k] /\ \A n \in 1..Len(vs) : g[n] = Apply(g[n - 1], vs[n])
    BY <1>1, AfterIs
<1> HIDE DEF f, g
<1>4. 0 \in S BY <1>1, <1>3
<1>5. ASSUME NEW n \in 1..Len(vs), n - 1 \in S PROVE n \in S
  <2>1. k + n \in 1..Len(ws) /\ k + n - 1 = k + (n - 1) BY <1>1 DEF Stand
  <2>2. f[k + n] = Apply(f[k + (n - 1)], ws[k + n])
    <3>1. f[k + n] = Apply(f[k + n - 1], ws[k + n]) BY <1>2, <2>1
    <3>. QED BY <2>1, <3>1
  <2>3. f[k + (n - 1)] = g[n - 1] BY <1>5
  <2>4. f[k + n] = Apply(g[n - 1], vs[n]) BY <2>2, <2>3 DEF Stand
  <2>5. f[k + n] = g[n] BY <1>3, <2>4
  <2>. QED BY <1>1, <2>5
<1> HIDE DEF S
<1>6. \A n \in 0..Len(vs) : n \in S BY <1>1, <1>4, <1>5, UpTo
<1>. QED BY <1>6 DEF S, f, g

LEMMA AppliedNone == ASSUME NEW t PROVE Applied(t, <<>>) = t
<1>1. Len(<<>>) = 0 OBVIOUS
<1>2. After(t, <<>>)[0] = t BY <1>1, AfterIs
<1>. QED BY <1>1, <1>2 DEF Applied

LEMMA AppliedOne == ASSUME NEW t, NEW w PROVE Applied(t, <<w>>) = Apply(t, w)
<1>1. Len(<<w>>) = 1 /\ <<w>>[1] = w OBVIOUS
<1>2. After(t, <<w>>)[0] = t /\ After(t, <<w>>)[1] = Apply(After(t, <<w>>)[1 - 1], <<w>>[1])
    BY <1>1, AfterIs
<1>. QED BY <1>1, <1>2 DEF Applied

LEMMA AppliedTwo ==
  ASSUME NEW t, NEW v, NEW w PROVE Applied(t, <<v, w>>) = Apply(Apply(t, v), w)
<1>1. Len(<<v, w>>) = 2 /\ <<v, w>>[1] = v /\ <<v, w>>[2] = w OBVIOUS
<1> DEFINE q == <<v, w>>
           f == After(t, q)
<1> HIDE DEF q
<1>2. f[0] = t /\ \A n \in 1..Len(q) : f[n] = Apply(f[n - 1], q[n])
    BY <1>1, AfterIs DEF q
<1> HIDE DEF f
<1>3. f[1] = Apply(f[0], v)
  <2>1. f[1] = Apply(f[1 - 1], q[1]) BY <1>1, <1>2 DEF q
  <2>. QED BY <1>1, <2>1 DEF q
<1>4. f[2] = Apply(f[1], w)
  <2>1. f[2] = Apply(f[2 - 1], q[2]) BY <1>1, <1>2 DEF q
  <2>. QED BY <1>1, <2>1 DEF q
<1>5. Applied(t, <<v, w>>) = f[2] BY <1>1 DEF Applied, f, q
<1>. QED BY <1>2, <1>3, <1>4, <1>5

\* Writes behind others.
LEMMA AppliedConcat ==
  ASSUME NEW t, NEW ws \in Seq(Writes), NEW vs \in Seq(Writes)
  PROVE  /\ Len(ws \o vs) = Len(ws) + Len(vs)
         /\ \A n \in 0..Len(ws) : After(t, ws \o vs)[n] = After(t, ws)[n]
         /\ \A n \in 0..Len(vs) :
               After(t, ws \o vs)[Len(ws) + n] = After(Applied(t, ws), vs)[n]
         /\ Applied(t, ws \o vs) = Applied(Applied(t, ws), vs)
<1> DEFINE qs == ws \o vs
           m  == Len(ws)
           n  == Len(vs)
<1>a. m \in Nat /\ n \in Nat OBVIOUS
<1>b. qs \in Seq(Writes) OBVIOUS
<1>c. Len(qs) = m + n BY ConcatProperties, Zenon
<1>d. \A i \in 1..(m + n) : qs[i] = IF i <= m THEN ws[i] ELSE vs[i - m]
    BY ConcatProperties, Zenon
<1> HIDE DEF qs
<1>e. Stand(ws, qs, 0)
  <2>1. ASSUME NEW i \in 1..m PROVE qs[0 + i] = ws[i]
    <3>1. i \in 1..(m + n) /\ 0 + i = i BY <1>a
    <3>. QED BY <1>d, <3>1
  <2>. QED BY <1>a, <1>c, <2>1 DEF Stand
<1>f. Stand(vs, qs, m)
  <2>1. ASSUME NEW i \in 1..n PROVE qs[m + i] = vs[i]
    <3>1. m + i \in 1..(m + n) /\ ~(m + i <= m) /\ m + i - m = i BY <1>a
    <3>. QED BY <1>d, <3>1
  <2>. QED BY <1>a, <1>c, <2>1 DEF Stand
<1>1. qs \in Seq(Writes) /\ Len(qs) = m + n /\ m \in Nat /\ n \in Nat
    BY <1>a, <1>b, <1>c
<1>2. \A i \in 0..m : After(t, qs)[i] = After(t, ws)[i]
  <2>2. \A i \in 0..m : After(t, qs)[0 + i] = After(After(t, qs)[0], ws)[i]
      BY <1>1, <1>e, Within
  <2>3. After(t, qs)[0] = t BY <1>1, AfterIs
  <2>. QED BY <2>2, <2>3
<1>3. After(t, qs)[m] = Applied(t, ws) BY <1>1, <1>2 DEF Applied
<1>4. \A i \in 0..n : After(t, qs)[m + i] = After(Applied(t, ws), vs)[i]
    BY <1>1, <1>3, <1>f, Within
<1>5. Applied(t, qs) = Applied(Applied(t, ws), vs) BY <1>1, <1>4 DEF Applied
<1>. QED BY <1>1, <1>2, <1>4, <1>5 DEF qs

\* The writer takes the first write to the table: nothing else changes.
LEMMA AppliedTail ==
  ASSUME NEW t, NEW ws \in Seq(Writes), ws # <<>>
  PROVE  /\ Tail(ws) \in Seq(Writes) /\ Len(Tail(ws)) = Len(ws) - 1 /\ Len(ws) \in Nat \ {0}
         /\ Head(ws) \in Writes
         /\ \A n \in 0..Len(Tail(ws)) :
               After(Apply(t, Head(ws)), Tail(ws))[n] = After(t, ws)[n + 1]
         /\ Applied(Apply(t, Head(ws)), Tail(ws)) = Applied(t, ws)
<1> DEFINE vs == Tail(ws)
<1>1. /\ vs \in Seq(Writes) /\ Len(vs) = Len(ws) - 1 /\ Len(ws) \in Nat \ {0}
      /\ Head(ws) \in Writes /\ Head(ws) = ws[1]
    OBVIOUS
<1>2. \A n \in 1..Len(vs) : ws[1 + n] = vs[n] OBVIOUS
<1> HIDE DEF vs
<1>3. After(t, ws)[1] = Apply(t, Head(ws))
  <2>1. 1 \in 1..Len(ws) /\ Len(ws) \in Nat BY <1>1
  <2>2. After(t, ws)[0] = t /\ After(t, ws)[1] = Apply(After(t, ws)[1 - 1], ws[1])
      BY <2>1, AfterIs
  <2>. QED BY <1>1, <2>2
<1>4. \A n \in 0..Len(vs) : After(t, ws)[1 + n] = After(After(t, ws)[1], vs)[n]
  <2>1. Stand(vs, ws, 1) BY <1>1, <1>2 DEF Stand
  <2>. QED BY <1>1, <2>1, Within
<1>5. \A n \in 0..Len(vs) : After(Apply(t, Head(ws)), vs)[n] = After(t, ws)[n + 1]
    BY <1>1, <1>3, <1>4
<1>6. Applied(Apply(t, Head(ws)), vs) = Applied(t, ws)
  <2>1. Len(vs) \in 0..Len(vs) /\ Len(vs) + 1 = Len(ws) BY <1>1
  <2>. QED BY <1>5, <2>1 DEF Applied
<1>. QED BY <1>1, <1>5, <1>6 DEF vs

------------------------------------------------------------------------------
(* What one write does to the table, and some.                             *)

LEMMA RowCounts ==
  ASSUME NEW t \in Rows, NEW d \in Dirs
  PROVE  /\ t.active[d] \in Nat /\ t.active[d] <= MaxRows
         /\ t.acked[d] \in Nat /\ t.acked[d] <= MaxRows
         /\ Open(t, d) \in Nat /\ MaxRows \in Nat /\ MaxRows >= 2
<1>1. MaxRows \in Nat /\ MaxRows >= 2 BY ConstantsAssumption
<1>2. t.active \in [Dirs -> 0..MaxRows] /\ t.acked \in [Dirs -> 0..MaxRows] BY DEF Rows
<1>3. t.active[d] \in 0..MaxRows /\ t.acked[d] \in 0..MaxRows BY <1>2
<1>. QED BY <1>1, <1>3 DEF Open

LEMMA LogDoes ==
  ASSUME NEW t \in Rows, NEW d \in Dirs
  PROVE  LET u == Apply(t, Log(d))
         IN  /\ u \in Rows
             /\ \A e \in Dirs :
                  /\ u.active[e] = IF e = d THEN Cap(t.active[e] + 1, MaxRows) ELSE t.active[e]
                  /\ u.acked[e] = t.acked[e]
             /\ u.revived = t.revived /\ u.dismissed = t.dismissed
<1> DEFINE a == [e \in Dirs |-> IF e \in {d} THEN Cap(t.active[e] + 1, MaxRows)
                                            ELSE t.active[e]]
           u == [t EXCEPT !.active = a]
<1>1. Apply(t, Log(d)) = u BY DEF Apply, Log
<1>2. a \in [Dirs -> 0..MaxRows]
  <2>1. ASSUME NEW e \in Dirs PROVE a[e] \in 0..MaxRows
    <3>1. t.active[e] \in Nat /\ t.active[e] <= MaxRows /\ MaxRows \in Nat BY RowCounts
    <3>. QED BY <3>1 DEF Cap
  <2>. QED BY <2>1
<1>3. \A e \in Dirs : a[e] = IF e = d THEN Cap(t.active[e] + 1, MaxRows) ELSE t.active[e]
    OBVIOUS
<1> HIDE DEF a
<1>4. /\ u \in Rows /\ u.active = a /\ u.acked = t.acked
      /\ u.revived = t.revived /\ u.dismissed = t.dismissed
    BY <1>2 DEF Rows
<1> HIDE DEF u
<1>. QED BY <1>1, <1>3, <1>4

LEMMA ResolveDoes ==
  ASSUME NEW t \in Rows, NEW D \in SUBSET Dirs
  PROVE  LET u == Apply(t, Resolve(D))
         IN  /\ u \in Rows
             /\ \A e \in Dirs : /\ u.active[e] = IF e \in D THEN 0 ELSE t.active[e]
                                /\ u.acked[e] = IF e \in D THEN 0 ELSE t.acked[e]
             /\ u.revived = t.revived /\ u.dismissed = t.dismissed
<1> DEFINE a == Cleared(t.active, D)
           k == Cleared(t.acked, D)
           c == t.closed \cup {e \in D : Open(t, e) > 0}
           u == [t EXCEPT !.active = a, !.acked = k, !.closed = c]
<1>1. Apply(t, Resolve(D)) = u
  <2>1. Resolve(D).op # "log" /\ Resolve(D).dirs = D BY DEF Resolve
  <2>. QED BY <2>1 DEF Apply
<1>2. a \in [Dirs -> 0..MaxRows] /\ k \in [Dirs -> 0..MaxRows] /\ c \in SUBSET Dirs
  <2>1. MaxRows \in Nat BY ConstantsAssumption
  <2>. QED BY <2>1 DEF Cleared, Rows
<1>3. \A e \in Dirs : /\ a[e] = IF e \in D THEN 0 ELSE t.active[e]
                      /\ k[e] = IF e \in D THEN 0 ELSE t.acked[e]
    BY DEF Cleared
<1> HIDE DEF a, k, c
<1>4. /\ u \in Rows /\ u.active = a /\ u.acked = k
      /\ u.revived = t.revived /\ u.dismissed = t.dismissed
    BY <1>2 DEF Rows
<1> HIDE DEF u
<1>. QED BY <1>1, <1>3, <1>4

\* In terms of the unresolved rows: a log adds one, a resolve leaves none.
LEMMA LogOpens ==
  ASSUME NEW t \in Rows, NEW d \in Dirs
  PROVE  LET u == Apply(t, Log(d))
         IN  /\ \A e \in Dirs \ {d} : Open(u, e) = Open(t, e)
             /\ Open(u, d) > 0
             /\ Open(t, d) <= 1 => Open(u, d) = Open(t, d) + 1
<1> DEFINE u == Apply(t, Log(d))
<1>1. \A e \in Dirs : /\ u.active[e] = IF e = d THEN Cap(t.active[e] + 1, MaxRows) ELSE t.active[e]
                      /\ u.acked[e] = t.acked[e]
    BY LogDoes
<1> HIDE DEF u
<1>2. \A e \in Dirs \ {d} : Open(u, e) = Open(t, e) BY <1>1 DEF Open
<1>3. /\ t.active[d] \in Nat /\ t.active[d] <= MaxRows /\ t.acked[d] \in Nat
      /\ MaxRows \in Nat /\ MaxRows >= 2
    BY RowCounts
<1>4. Open(u, d) = Cap(t.active[d] + 1, MaxRows) + t.acked[d] BY <1>1 DEF Open
<1>5. Open(u, d) > 0 BY <1>3, <1>4 DEF Cap
<1>6. Open(t, d) <= 1 => Open(u, d) = Open(t, d) + 1 BY <1>3, <1>4 DEF Cap, Open
<1>. QED BY <1>2, <1>5, <1>6 DEF u

LEMMA ResolveCloses ==
  ASSUME NEW t \in Rows, NEW D \in SUBSET Dirs
  PROVE  \A e \in Dirs :
            Open(Apply(t, Resolve(D)), e) = IF e \in D THEN 0 ELSE Open(t, e)
<1>1. \A e \in Dirs : /\ Apply(t, Resolve(D)).active[e] = IF e \in D THEN 0 ELSE t.active[e]
                      /\ Apply(t, Resolve(D)).acked[e] = IF e \in D THEN 0 ELSE t.acked[e]
    BY ResolveDoes
<1>. QED BY <1>1 DEF Open

LEMMA WriteIs ==
  ASSUME NEW w \in Writes
  PROVE  (\E d \in Dirs : w = Log(d)) \/ (\E D \in SUBSET Dirs : w = Resolve(D))
BY DEF Writes

LEMMA DirsAre ==
  /\ "down" \in Dirs /\ "anomaly_warn" \in Dirs
  /\ "threshold_warn" \in Dirs /\ "threshold_crit" \in Dirs
  /\ ThresholdDirs \in SUBSET Dirs
BY DEF Dirs, ThresholdDirs

LEMMA ApplyTypes ==
  ASSUME NEW t \in Rows, NEW w \in Writes
  PROVE  /\ Apply(t, w) \in Rows
         /\ Apply(t, w).revived = t.revived /\ Apply(t, w).dismissed = t.dismissed
<1>1. CASE \E d \in Dirs : w = Log(d) BY <1>1, LogDoes
<1>2. CASE \E D \in SUBSET Dirs : w = Resolve(D) BY <1>2, ResolveDoes
<1>. QED BY <1>1, <1>2, WriteIs

LEMMA AfterTypes ==
  ASSUME NEW t \in Rows, NEW ws \in Seq(Writes)
  PROVE  \A n \in 0..Len(ws) : /\ After(t, ws)[n] \in Rows
                               /\ After(t, ws)[n].revived = t.revived
                               /\ After(t, ws)[n].dismissed = t.dismissed
<1> DEFINE f == After(t, ws)
           S == {n \in 0..Len(ws) : f[n] \in Rows /\ f[n].revived = t.revived
                                       /\ f[n].dismissed = t.dismissed}
<1>1. Len(ws) \in Nat /\ \A n \in 1..Len(ws) : ws[n] \in Writes OBVIOUS
<1>2. f[0] = t /\ \A n \in 1..Len(ws) : f[n] = Apply(f[n - 1], ws[n]) BY <1>1, AfterIs
<1> HIDE DEF f
<1>3. 0 \in S BY <1>1, <1>2
<1>4. ASSUME NEW n \in 1..Len(ws), n - 1 \in S PROVE n \in S
  <2>1. f[n - 1] \in Rows /\ f[n - 1].revived = t.revived /\ f[n - 1].dismissed = t.dismissed
      BY <1>4
  <2>2. f[n] = Apply(f[n - 1], ws[n]) /\ ws[n] \in Writes /\ n \in 0..Len(ws) BY <1>1, <1>2
  <2>. QED BY <2>1, <2>2, ApplyTypes
<1> HIDE DEF S
<1>5. \A n \in 0..Len(ws) : n \in S BY <1>1, <1>3, <1>4, UpTo
<1>. QED BY <1>5 DEF S, f

LEMMA AppliedTypes ==
  ASSUME NEW t \in Rows, NEW ws \in Seq(Writes)
  PROVE  /\ Applied(t, ws) \in Rows
         /\ Applied(t, ws).revived = t.revived /\ Applied(t, ws).dismissed = t.dismissed
<1>1. Len(ws) \in 0..Len(ws) OBVIOUS
<1>. QED BY <1>1, AfterTypes DEF Applied

\* No acknowledgement changes which rows are unresolved, nor will the pending
\* writes, as long as there is no second row to be capped.
SameOpen(t, u) == /\ \A d \in Dirs : Open(t, d) > 0 <=> Open(u, d) > 0
                  /\ Open(t, "down") = Open(u, "down")

LEMMA ApplySameOpen ==
  ASSUME NEW t \in Rows, NEW u \in Rows, NEW w \in Writes, SameOpen(t, u),
         Open(t, "down") <= 1
  PROVE  SameOpen(Apply(t, w), Apply(u, w))
<1>1. ASSUME NEW d \in Dirs, w = Log(d) PROVE SameOpen(Apply(t, w), Apply(u, w))
  <2>1. /\ \A e \in Dirs \ {d} : Open(Apply(t, w), e) = Open(t, e)
        /\ Open(Apply(t, w), d) > 0
        /\ Open(t, d) <= 1 => Open(Apply(t, w), d) = Open(t, d) + 1
      BY <1>1, LogOpens
  <2>2. /\ \A e \in Dirs \ {d} : Open(Apply(u, w), e) = Open(u, e)
        /\ Open(Apply(u, w), d) > 0
        /\ Open(u, d) <= 1 => Open(Apply(u, w), d) = Open(u, d) + 1
      BY <1>1, LogOpens
  <2>3. ASSUME NEW e \in Dirs PROVE Open(Apply(t, w), e) > 0 <=> Open(Apply(u, w), e) > 0
      BY <2>1, <2>2 DEF SameOpen
  <2>4. Open(Apply(t, w), "down") = Open(Apply(u, w), "down")
    <3>1. CASE d = "down" BY <2>1, <2>2, <3>1 DEF SameOpen
    <3>2. CASE d # "down"
      <4>1. "down" \in Dirs \ {d} BY <3>2, DirsAre
      <4>. QED BY <2>1, <2>2, <4>1 DEF SameOpen
    <3>. QED BY <3>1, <3>2
  <2>. QED BY <2>3, <2>4 DEF SameOpen
<1>2. ASSUME NEW D \in SUBSET Dirs, w = Resolve(D) PROVE SameOpen(Apply(t, w), Apply(u, w))
  <2>1. \A e \in Dirs : Open(Apply(t, w), e) = IF e \in D THEN 0 ELSE Open(t, e)
      BY <1>2, ResolveCloses
  <2>2. \A e \in Dirs : Open(Apply(u, w), e) = IF e \in D THEN 0 ELSE Open(u, e)
      BY <1>2, ResolveCloses
  <2>. QED BY <2>1, <2>2, DirsAre DEF SameOpen
<1>. QED BY <1>1, <1>2, WriteIs

LEMMA AfterSameOpen ==
  ASSUME NEW t \in Rows, NEW u \in Rows, NEW ws \in Seq(Writes), SameOpen(t, u),
         \A n \in 0..Len(ws) : Open(After(t, ws)[n], "down") <= 1
  PROVE  /\ \A n \in 0..Len(ws) : SameOpen(After(t, ws)[n], After(u, ws)[n])
         /\ SameOpen(Applied(t, ws), Applied(u, ws))
<1> DEFINE f == After(t, ws)
           g == After(u, ws)
           S == {n \in 0..Len(ws) : SameOpen(f[n], g[n])}
<1>1. Len(ws) \in Nat /\ \A n \in 1..Len(ws) : ws[n] \in Writes OBVIOUS
<1>2. f[0] = t /\ \A n \in 1..Len(ws) : f[n] = Apply(f[n - 1], ws[n]) BY <1>1, AfterIs
<1>3. g[0] = u /\ \A n \in 1..Len(ws) : g[n] = Apply(g[n - 1], ws[n]) BY <1>1, AfterIs
<1>4. \A n \in 0..Len(ws) : f[n] \in Rows /\ g[n] \in Rows BY AfterTypes
<1>5. \A n \in 0..Len(ws) : Open(f[n], "down") <= 1 OBVIOUS
<1> HIDE DEF f, g
<1>6. 0 \in S BY <1>1, <1>2, <1>3
<1>7. ASSUME NEW n \in 1..Len(ws), n - 1 \in S PROVE n \in S
  <2>1. n - 1 \in 0..Len(ws) /\ n \in 0..Len(ws) BY <1>1
  <2>2. f[n] = Apply(f[n - 1], ws[n]) /\ g[n] = Apply(g[n - 1], ws[n]) /\ ws[n] \in Writes
      BY <1>1, <1>2, <1>3
  <2>3. f[n - 1] \in Rows /\ g[n - 1] \in Rows /\ Open(f[n - 1], "down") <= 1
      BY <1>4, <1>5, <2>1
  <2>4. SameOpen(f[n - 1], g[n - 1]) BY <1>7
  <2>5. SameOpen(f[n], g[n]) BY <2>2, <2>3, <2>4, ApplySameOpen
  <2>. QED BY <2>1, <2>5
<1> HIDE DEF S
<1>8. \A n \in 0..Len(ws) : n \in S BY <1>1, <1>6, <1>7, UpTo
<1>9. \A n \in 0..Len(ws) : SameOpen(f[n], g[n]) BY <1>8 DEF S
<1>10. SameOpen(f[Len(ws)], g[Len(ws)]) BY <1>1, <1>9
<1>. QED BY <1>9, <1>10 DEF f, g, Applied

\* Rows taken from the table are not put back by the pending writes.
NoMore(t, u) == \A d \in Dirs : t.active[d] <= u.active[d]

LEMMA ApplyNoMore ==
  ASSUME NEW t \in Rows, NEW u \in Rows, NEW w \in Writes, NoMore(t, u)
  PROVE  NoMore(Apply(t, w), Apply(u, w))
<1>1. ASSUME NEW d \in Dirs, w = Log(d), NEW e \in Dirs
      PROVE  Apply(t, w).active[e] <= Apply(u, w).active[e]
  <2>1. /\ Apply(t, w).active[e] = IF e = d THEN Cap(t.active[e] + 1, MaxRows) ELSE t.active[e]
        /\ Apply(u, w).active[e] = IF e = d THEN Cap(u.active[e] + 1, MaxRows) ELSE u.active[e]
      BY <1>1, LogDoes
  <2>2. t.active[e] \in Nat /\ u.active[e] \in Nat /\ MaxRows \in Nat BY RowCounts
  <2>3. t.active[e] <= u.active[e] BY DEF NoMore
  <2>4. Cap(t.active[e] + 1, MaxRows) <= Cap(u.active[e] + 1, MaxRows)
      BY <2>2, <2>3 DEF Cap
  <2>. QED BY <2>1, <2>3, <2>4
<1>2. ASSUME NEW D \in SUBSET Dirs, w = Resolve(D), NEW e \in Dirs
      PROVE  Apply(t, w).active[e] <= Apply(u, w).active[e]
  <2>1. /\ Apply(t, w).active[e] = IF e \in D THEN 0 ELSE t.active[e]
        /\ Apply(u, w).active[e] = IF e \in D THEN 0 ELSE u.active[e]
      BY <1>2, ResolveDoes
  <2>. QED BY <2>1 DEF NoMore
<1>. QED BY <1>1, <1>2, WriteIs DEF NoMore

LEMMA AppliedNoMore ==
  ASSUME NEW t \in Rows, NEW u \in Rows, NEW ws \in Seq(Writes), NoMore(t, u)
  PROVE  NoMore(Applied(t, ws), Applied(u, ws))
<1> DEFINE f == After(t, ws)
           g == After(u, ws)
           S == {n \in 0..Len(ws) : NoMore(f[n], g[n])}
<1>1. Len(ws) \in Nat /\ \A n \in 1..Len(ws) : ws[n] \in Writes OBVIOUS
<1>2. f[0] = t /\ \A n \in 1..Len(ws) : f[n] = Apply(f[n - 1], ws[n]) BY <1>1, AfterIs
<1>3. g[0] = u /\ \A n \in 1..Len(ws) : g[n] = Apply(g[n - 1], ws[n]) BY <1>1, AfterIs
<1>4. \A n \in 0..Len(ws) : f[n] \in Rows /\ g[n] \in Rows BY AfterTypes
<1> HIDE DEF f, g
<1>5. 0 \in S BY <1>1, <1>2, <1>3
<1>6. ASSUME NEW n \in 1..Len(ws), n - 1 \in S PROVE n \in S
  <2>1. n - 1 \in 0..Len(ws) /\ n \in 0..Len(ws) BY <1>1
  <2>2. f[n] = Apply(f[n - 1], ws[n]) /\ g[n] = Apply(g[n - 1], ws[n]) /\ ws[n] \in Writes
      BY <1>1, <1>2, <1>3
  <2>3. f[n - 1] \in Rows /\ g[n - 1] \in Rows BY <1>4, <2>1
  <2>4. NoMore(f[n - 1], g[n - 1]) BY <1>6
  <2>5. NoMore(f[n], g[n]) BY <2>2, <2>3, <2>4, ApplyNoMore
  <2>. QED BY <2>1, <2>5
<1> HIDE DEF S
<1>7. \A n \in 0..Len(ws) : n \in S BY <1>1, <1>5, <1>6, UpTo
<1>8. Len(ws) \in S BY <1>1, <1>7
<1>. QED BY <1>8 DEF S, f, g, Applied

------------------------------------------------------------------------------
(* Writes, queued or not, as the settled table sees them.                  *)

LEMMA SettledTypes ==
  ASSUME TypeOK PROVE Settled \in Rows /\ Settled.revived = rows.revived
BY AppliedTypes DEF TypeOK, Settled

LEMMA WriteSettles ==
  ASSUME TypeOK, Quieted, NEW ws \in Seq(Writes), Write(ws)
  PROVE  /\ Settled' = Applied(Settled, ws)
         /\ rows' \in Rows /\ mainQ' \in Seq(Writes)
         /\ rows'.revived = rows.revived /\ rows'.dismissed = rows.dismissed
         /\ ~Queued => mainQ' = <<>>
<1>1. rows \in Rows /\ mainQ \in Seq(Writes) BY DEF TypeOK
<1>2. CASE Queued
  <2>1. mainQ' = mainQ \o ws /\ rows' = rows BY <1>2 DEF Write
  <2>2. mainQ \o ws \in Seq(Writes) BY <1>1
  <2>3. Applied(rows, mainQ \o ws) = Applied(Applied(rows, mainQ), ws) BY <1>1, AppliedConcat
  <2>. QED BY <1>1, <1>2, <2>1, <2>2, <2>3 DEF Settled
<1>3. CASE ~Queued
  <2>1. rows' = Applied(rows, ws) /\ mainQ' = mainQ BY <1>3 DEF Write
  <2>2. mainQ = <<>> BY <1>3 DEF Quieted
  <2>3. \A t : Applied(t, <<>>) = t BY AppliedNone
  <2>. QED BY <1>1, <2>1, <2>2, <2>3, AppliedTypes DEF Settled
<1>. QED BY <1>2, <1>3

LEMMA WriteOneDown ==
  ASSUME TypeOK, Quieted, OneDownRow, NEW ws \in Seq(Writes), Write(ws),
         \A n \in 0..Len(ws) : Open(After(Settled, ws)[n], "down") <= 1
  PROVE  OneDownRow'
<1>1. rows \in Rows /\ mainQ \in Seq(Writes) /\ Len(mainQ) \in Nat /\ Len(ws) \in Nat
    BY DEF TypeOK
<1>2. CASE Queued
  <2>1. mainQ' = mainQ \o ws /\ rows' = rows BY <1>2 DEF Write
  <2>2. /\ Len(mainQ \o ws) = Len(mainQ) + Len(ws)
        /\ \A n \in 0..Len(mainQ) : After(rows, mainQ \o ws)[n] = After(rows, mainQ)[n]
        /\ \A n \in 0..Len(ws) :
              After(rows, mainQ \o ws)[Len(mainQ) + n] = After(Settled, ws)[n]
      BY <1>1, AppliedConcat DEF Settled
  <2>3. ASSUME NEW n \in 0..Len(mainQ \o ws)
        PROVE  Open(After(rows, mainQ \o ws)[n], "down") <= 1
    <3>1. CASE n <= Len(mainQ)
      <4>1. n \in 0..Len(mainQ) BY <1>1, <2>2, <3>1
      <4>. QED BY <2>2, <4>1 DEF OneDownRow
    <3>2. CASE ~(n <= Len(mainQ))
      <4>1. n - Len(mainQ) \in 0..Len(ws) /\ Len(mainQ) + (n - Len(mainQ)) = n
          BY <1>1, <2>2, <3>2
      <4>2. After(rows, mainQ \o ws)[Len(mainQ) + (n - Len(mainQ))]
              = After(Settled, ws)[n - Len(mainQ)]
          BY <2>2, <4>1
      <4>3. After(rows, mainQ \o ws)[n] = After(Settled, ws)[n - Len(mainQ)] BY <4>1, <4>2
      <4>. QED BY <4>1, <4>3
    <3>. QED BY <3>1, <3>2
  <2>. QED BY <2>1, <2>3 DEF OneDownRow
<1>3. CASE ~Queued
  <2>1. rows' = Applied(rows, ws) /\ mainQ' = <<>> BY <1>3 DEF Write, Quieted
  <2>2. Settled = rows BY <1>3, AppliedNone DEF Quieted, Settled
  <2>3. Len(ws) \in 0..Len(ws) BY <1>1
  <2>4. Open(Applied(rows, ws), "down") <= 1 BY <2>2, <2>3 DEF Applied
  <2>5. Len(<<>>) = 0 /\ \A t : After(t, <<>>)[0] = t BY AfterIs
  <2>. QED BY <2>1, <2>4, <2>5 DEF OneDownRow
<1>. QED BY <1>2, <1>3

LEMMA SettledOneDown ==
  ASSUME TypeOK, OneDownRow PROVE Open(Settled, "down") <= 1
<1>1. Len(mainQ) \in 0..Len(mainQ) BY DEF TypeOK
<1>. QED BY <1>1 DEF OneDownRow, Settled, Applied

LEMMA WriteOne ==
  ASSUME TypeOK, Quieted, NEW w \in Writes, Write(<<w>>)
  PROVE  /\ Settled' = Apply(Settled, w)
         /\ OneDownRow /\ Open(Apply(Settled, w), "down") <= 1 => OneDownRow'
<1>1. <<w>> \in Seq(Writes) /\ Len(<<w>>) = 1 /\ <<w>>[1] = w OBVIOUS
<1>2. Settled' = Apply(Settled, w) BY <1>1, WriteSettles, AppliedOne
<1>3. ASSUME OneDownRow, Open(Apply(Settled, w), "down") <= 1 PROVE OneDownRow'
  <2>1. /\ After(Settled, <<w>>)[0] = Settled
        /\ After(Settled, <<w>>)[1] = Apply(After(Settled, <<w>>)[1 - 1], <<w>>[1])
      BY <1>1, AfterIs
  <2>2. \A n \in 0..Len(<<w>>) : n = 0 \/ n = 1 BY <1>1
  <2>3. \A n \in 0..Len(<<w>>) : Open(After(Settled, <<w>>)[n], "down") <= 1
      BY <1>1, <1>3, <2>1, <2>2, SettledOneDown
  <2>. QED BY <1>1, <1>3, <2>3, WriteOneDown
<1>. QED BY <1>2, <1>3

LEMMA WriteTwo ==
  ASSUME TypeOK, Quieted, NEW v \in Writes, NEW w \in Writes, Write(<<v, w>>)
  PROVE  /\ Settled' = Apply(Apply(Settled, v), w)
         /\ OneDownRow /\ Open(Apply(Settled, v), "down") <= 1
               /\ Open(Apply(Apply(Settled, v), w), "down") <= 1 => OneDownRow'
<1> DEFINE q == <<v, w>>
<1>1. q \in Seq(Writes) /\ Len(q) = 2 /\ q[1] = v /\ q[2] = w OBVIOUS
<1>2. Applied(Settled, q) = Apply(Apply(Settled, v), w) BY AppliedTwo
<1>3. Write(q) OBVIOUS
<1> HIDE DEF q
<1>4. Settled' = Apply(Apply(Settled, v), w) BY <1>1, <1>2, <1>3, WriteSettles
<1>5. ASSUME OneDownRow, Open(Apply(Settled, v), "down") <= 1,
             Open(Apply(Apply(Settled, v), w), "down") <= 1
      PROVE  OneDownRow'
  <2>1. \A n \in 1..Len(q) : After(Settled, q)[n] = Apply(After(Settled, q)[n - 1], q[n])
      BY <1>1, AfterIs
  <2>2. After(Settled, q)[0] = Settled BY <1>1, AfterIs
  <2>3. After(Settled, q)[1] = Apply(Settled, v)
    <3>1. After(Settled, q)[1] = Apply(After(Settled, q)[1 - 1], q[1]) BY <1>1, <2>1
    <3>. QED BY <1>1, <2>2, <3>1
  <2>4. After(Settled, q)[2] = Apply(Apply(Settled, v), w)
    <3>1. After(Settled, q)[2] = Apply(After(Settled, q)[2 - 1], q[2]) BY <1>1, <2>1
    <3>. QED BY <1>1, <2>3, <3>1
  <2>5. \A n \in 0..Len(q) : n = 0 \/ n = 1 \/ n = 2 BY <1>1
  <2>6. \A n \in 0..Len(q) : Open(After(Settled, q)[n], "down") <= 1
      BY <1>5, <2>2, <2>3, <2>4, <2>5, SettledOneDown
  <2>. QED BY <1>1, <1>3, <1>5, <2>6, WriteOneDown
<1>. QED BY <1>4, <1>5

\* The writer thread moves a write from the queue to the table.
LEMMA MainWriterSettles ==
  ASSUME TypeOK, MainWriter
  PROVE  /\ Settled' = Settled
         /\ rows' \in Rows /\ mainQ' \in Seq(Writes)
         /\ rows'.revived = rows.revived /\ rows'.dismissed = rows.dismissed
         /\ OneDownRow => OneDownRow'
<1>1. rows \in Rows /\ mainQ \in Seq(Writes) /\ mainQ # <<>> BY DEF TypeOK, MainWriter
<1>2. rows' = Apply(rows, Head(mainQ)) /\ mainQ' = Tail(mainQ) BY DEF MainWriter
<1>3. /\ Tail(mainQ) \in Seq(Writes) /\ Len(Tail(mainQ)) = Len(mainQ) - 1
      /\ Len(mainQ) \in Nat \ {0} /\ Head(mainQ) \in Writes
      /\ \A n \in 0..Len(Tail(mainQ)) :
            After(Apply(rows, Head(mainQ)), Tail(mainQ))[n] = After(rows, mainQ)[n + 1]
      /\ Applied(Apply(rows, Head(mainQ)), Tail(mainQ)) = Applied(rows, mainQ)
    BY <1>1, AppliedTail
<1>4. Settled' = Settled BY <1>2, <1>3 DEF Settled
<1>5. /\ rows' \in Rows
      /\ rows'.revived = rows.revived /\ rows'.dismissed = rows.dismissed
    BY <1>1, <1>2, <1>3, ApplyTypes
<1>6. ASSUME OneDownRow PROVE OneDownRow'
  <2>1. ASSUME NEW n \in 0..Len(Tail(mainQ))
        PROVE  Open(After(Apply(rows, Head(mainQ)), Tail(mainQ))[n], "down") <= 1
    <3>1. n + 1 \in 0..Len(mainQ) BY <1>3
    <3>2. Open(After(rows, mainQ)[n + 1], "down") <= 1 BY <1>6, <3>1 DEF OneDownRow
    <3>. QED BY <1>3, <3>2
  <2>. QED BY <1>2, <2>1 DEF OneDownRow
<1>. QED BY <1>2, <1>3, <1>4, <1>5, <1>6

------------------------------------------------------------------------------
(* Types, and what the silence rests on: one step per action.              *)

Cycles == [at : CycleSteps, res : AllResults, muted : BOOLEAN, left : SUBSET Dirs]

LEMMA Numbers ==
  /\ FailAfter \in Nat \ {0} /\ RecoverAfter \in Nat \ {0} /\ MaxRows \in Nat /\ MaxRows >= 2
  /\ \A s \in Settings : s.ops \in SUBSET AllOps /\ s.results \in SUBSET AllResults
BY ConstantsAssumption

LEMMA ToDoes ==
  ASSUME TypeOK, NEW step \in CycleSteps, To(step)
  PROVE  /\ cycle' \in Cycles /\ cycle'.at = step /\ cycle'.res = cycle.res
         /\ cycle'.muted = cycle.muted /\ cycle'.left = cycle.left
BY DEF TypeOK, To, Cycles

LEMMA DoneDoes ==
  ASSUME Done
  PROVE  /\ cycle' \in Cycles /\ cycle'.at = "idle" /\ cycle'.res = "ok"
         /\ cycle'.muted = FALSE /\ cycle'.left = {}
BY DEF Done, Idle, Cycles, CycleSteps, AllResults

LEMMA LogIsWrite ==
  /\ \A d \in Dirs : Log(d) \in Writes /\ <<Log(d)>> \in Seq(Writes)
  /\ \A D \in SUBSET Dirs : Resolve(D) \in Writes /\ <<Resolve(D)>> \in Seq(Writes)
  /\ \A d \in Dirs, D \in SUBSET Dirs : <<Log(d), Resolve(D)>> \in Seq(Writes)
BY DEF Writes

LEMMA RaisedDirIs == \A r \in AllResults : RaisedDir(r) \in Dirs \ {"down"}
BY DEF RaisedDir, AllResults, Dirs, ThresholdDirs

LEMMA TwoWrites ==
  ASSUME NEW v \in Writes, NEW w \in Writes PROVE <<v>> \o <<w>> = <<v, w>>
<1> DEFINE q == <<v>> \o <<w>>
<1>1. <<v>> \in Seq(Writes) /\ <<w>> \in Seq(Writes) /\ <<v, w>> \in Seq(Writes)
      /\ Len(<<v>>) = 1 /\ Len(<<w>>) = 1 /\ <<v>>[1] = v /\ <<w>>[1] = w
      /\ Len(<<v, w>>) = 2 /\ <<v, w>>[1] = v /\ <<v, w>>[2] = w
    OBVIOUS
<1>2. q \in Seq(Writes) BY <1>1
<1>3. /\ Len(q) = Len(<<v>>) + Len(<<w>>)
      /\ \A i \in 1..(Len(<<v>>) + Len(<<w>>)) :
            q[i] = IF i <= Len(<<v>>) THEN <<v>>[i] ELSE <<w>>[i - Len(<<v>>)]
    BY <1>1, ConcatProperties, Zenon
<1> HIDE DEF q
<1>4. q[1] = <<v>>[1] BY <1>1, <1>3
<1>5. q[2] = <<w>>[2 - 1] BY <1>1, <1>3
<1>6. Len(q) = 2 /\ q[1] = v /\ q[2] = w BY <1>1, <1>3, <1>4, <1>5
<1>7. q = <<v, w>> BY <1>1, <1>2, <1>6, SeqEqual
<1>. QED BY <1>7 DEF q

LEMMA RaiseWritesAre ==
  ASSUME TypeOK
  PROVE  /\ RaisedDir(cycle.res) \in Dirs \ {"down"} /\ cycle.left \in SUBSET Dirs
         /\ cycle.left = {} => RaiseWrites = <<Log(RaisedDir(cycle.res))>>
         /\ cycle.left # {} =>
               RaiseWrites = <<Log(RaisedDir(cycle.res)), Resolve(cycle.left)>>
         /\ RaiseWrites \in Seq(Writes)
<1>1. RaisedDir(cycle.res) \in Dirs \ {"down"} /\ cycle.left \in SUBSET Dirs
    BY RaisedDirIs DEF TypeOK
<1>2. cycle.left = {} => RaiseWrites = <<Log(RaisedDir(cycle.res))>>
    BY DEF RaiseWrites
<1>3. cycle.left # {} => RaiseWrites = <<Log(RaisedDir(cycle.res)), Resolve(cycle.left)>>
  <2>1. Log(RaisedDir(cycle.res)) \in Writes /\ Resolve(cycle.left) \in Writes
      BY <1>1, LogIsWrite
  <2>. QED BY <2>1, TwoWrites DEF RaiseWrites
<1>. QED BY <1>1, <1>2, <1>3, LogIsWrite

LEMMA StoppedTypes == ASSUME rows \in Rows PROVE ApplyStop(rows) \in Rows
<1> DEFINE a == Cleared(rows.active, Dirs)
           k == Cleared(rows.acked, Dirs)
           x == rows.dismissed \cup {d \in Dirs : Open(rows, d) > 0}
           c == rows.closed \cup rows.revived
<1>1. a \in [Dirs -> 0..MaxRows] /\ k \in [Dirs -> 0..MaxRows] BY Numbers DEF Cleared
<1>2. x \in SUBSET Dirs /\ c \in SUBSET Dirs BY DEF Rows
<1> HIDE DEF a, k, x, c
<1>3. ApplyStop(rows) = [rows EXCEPT !.active = a, !.acked = k, !.dismissed = x,
                                     !.closed = c, !.revived = {}]
    BY DEF ApplyStop, a, k, x, c
<1>. QED BY <1>1, <1>2, <1>3 DEF Rows

LEMMA InitTypes == Init => TypeOK /\ Quieted
<1>. SUFFICES ASSUME Init PROVE TypeOK /\ Quieted OBVIOUS
<1>1. rows \in Rows BY Numbers DEF Init, Rows
<1>2. cycle \in Cycles /\ cycle.at = "idle"
    BY DEF Init, Cycles, Idle, CycleSteps, AllResults
<1>3. parked \in ParkedEntries /\ taken \in ParkedEntries
    BY DirsAre DEF Init, ParkedEntries, NoParked, NoThr, Levels
<1>4. mainQ \in Seq(Writes) /\ logsQ \in Seq(Writes) BY DEF Init
<1>5. TypeOK
  <2>1. /\ setting \in Settings /\ running \in BOOLEAN /\ muted \in BOOLEAN
        /\ down \in BOOLEAN /\ thr \in Levels /\ ack \in BOOLEAN
        /\ grace \in {"unarmed", "open", "closed"} /\ flush \in FlushSteps
        /\ acking \in {"idle", "check", "set"}
      BY DEF Init, Levels, FlushSteps
  <2>2. fails \in 0..FailAfter /\ oks \in 0..RecoverAfter BY Numbers DEF Init
  <2>. QED BY <1>1, <1>2, <1>3, <1>4, <2>1, <2>2 DEF TypeOK, Cycles
<1>6. Quieted BY <1>2 DEF Init, Quieted
<1>. QED BY <1>5, <1>6

LEMMA BeginCycleTypes ==
  ASSUME TypeOK, Quieted, NEW r \in setting.results, BeginCycle(r) PROVE TypeOK' /\ Quieted'
<1>1. r \in AllResults BY Numbers DEF TypeOK
<1>2. cycle' \in Cycles /\ cycle'.at = "conn"
    BY <1>1 DEF BeginCycle, TypeOK, Cycles, CycleSteps
<1>3. fails' \in 0..FailAfter /\ oks' \in 0..RecoverAfter
    BY Numbers DEF BeginCycle, TypeOK, Cap
<1>4. TypeOK' BY <1>2, <1>3 DEF TypeOK, Cycles, BeginCycle, graceVars, dbVars
<1>5. Quieted' BY <1>2 DEF BeginCycle, Quieted, graceVars, dbVars
<1>. QED BY <1>4, <1>5

\* The steps of the connection stage.
LEMMA ConnTypes ==
  ASSUME TypeOK, Quieted,
         StayConn \/ GoDown \/ GoDownInGrace \/ ParkDown \/ MarkDown \/ Recover \/ MarkUp
  PROVE  TypeOK' /\ Quieted'
<1>. {"threshold", "markDown", "markUp", "parkDown"} \subseteq CycleSteps BY DEF CycleSteps
<1>. USE DirsAre, LogIsWrite
<1>1. CASE StayConn
  <2>1. cycle' \in Cycles /\ cycle'.at = "threshold" BY <1>1, ToDoes DEF StayConn
  <2>2. TypeOK' BY <1>1, <2>1 DEF TypeOK, Cycles, StayConn, NoWrite, sensorVars, graceVars
  <2>. QED BY <1>1, <2>1, <2>2 DEF StayConn, NoWrite, Quieted, graceVars
<1>2. CASE GoDown
  <2>1. cycle' \in Cycles /\ cycle'.at = "markDown" BY <1>2, ToDoes DEF GoDown
  <2>2. rows' \in Rows /\ mainQ' \in Seq(Writes) /\ (~Queued => mainQ' = <<>>)
    <3>1. CASE DownLogged BY <1>2, <3>1, WriteSettles DEF GoDown
    <3>2. CASE ~DownLogged BY <1>2, <3>2 DEF GoDown, NoWrite, TypeOK, Quieted
    <3>. QED BY <3>1, <3>2
  <2>3. TypeOK' BY <1>2, <2>1, <2>2 DEF TypeOK, Cycles, GoDown, sensorVars, graceVars
  <2>. QED BY <1>2, <2>1, <2>2, <2>3 DEF GoDown, Quieted, graceVars
<1>3. CASE GoDownInGrace
  <2>1. cycle' \in Cycles /\ cycle'.at = "parkDown" /\ ~cycle'.muted
      BY <1>3, ToDoes DEF GoDownInGrace
  <2>2. TypeOK' BY <1>3, <2>1 DEF TypeOK, Cycles, GoDownInGrace, sensorVars, graceVars, dbVars
  <2>. QED BY <1>3, <2>1, <2>2 DEF GoDownInGrace, Quieted, graceVars, dbVars
<1>4. CASE ParkDown
  <2>1. cycle' \in Cycles /\ cycle'.at = "markDown" BY <1>4, ToDoes DEF ParkDown
  <2>2. parked' \in ParkedEntries BY <1>4 DEF ParkDown, TypeOK, ParkedEntries
  <2>3. TypeOK' BY <1>4, <2>1, <2>2 DEF TypeOK, Cycles, ParkDown, sensorVars, dbVars
  <2>. QED BY <1>4, <2>1, <2>3 DEF ParkDown, Quieted, dbVars
<1>5. CASE MarkDown
  <2>1. cycle' \in Cycles /\ cycle'.at = "threshold" BY <1>5, ToDoes DEF MarkDown
  <2>2. TypeOK' BY <1>5, <2>1 DEF TypeOK, Cycles, MarkDown, graceVars, dbVars
  <2>. QED BY <1>5, <2>1, <2>2 DEF MarkDown, Quieted, graceVars, dbVars
<1>6. CASE Recover
  <2>1. cycle' \in Cycles /\ cycle'.at = "markUp" /\ cycle'.muted = cycle.muted
      BY <1>6, ToDoes DEF Recover
  <2>2. parked' \in ParkedEntries /\ (~cycle.muted => ~parked'.down)
      BY <1>6 DEF Recover, TypeOK, ParkedEntries
  <2>3. rows' \in Rows /\ mainQ' \in Seq(Writes) /\ (~Queued => mainQ' = <<>>)
    <3>1. CASE cycle.muted BY <1>6, <3>1 DEF Recover, NoWrite, TypeOK, Quieted
    <3>2. CASE ~cycle.muted
      <4>1. {"down"} \in SUBSET Dirs OBVIOUS
      <4>2. Write(<<Resolve({"down"})>>) BY <1>6, <3>2 DEF Recover
      <4>. QED BY <4>1, <4>2, WriteSettles
    <3>. QED BY <3>1, <3>2
  <2>4. TypeOK' BY <1>6, <2>1, <2>2, <2>3 DEF TypeOK, Cycles, Recover, sensorVars
  <2>. QED BY <1>6, <2>1, <2>2, <2>3, <2>4 DEF Recover, Quieted
<1>7. CASE MarkUp
  <2>1. cycle' \in Cycles /\ cycle'.at = "threshold" BY <1>7, ToDoes DEF MarkUp
  <2>2. oks' \in 0..RecoverAfter /\ ack' \in BOOLEAN BY <1>7, Numbers DEF MarkUp
  <2>3. TypeOK' BY <1>7, <2>1, <2>2 DEF TypeOK, Cycles, MarkUp, graceVars, dbVars
  <2>. QED BY <1>7, <2>1, <2>3 DEF MarkUp, Quieted, graceVars, dbVars
<1>. QED BY <1>1, <1>2, <1>3, <1>4, <1>5, <1>6, <1>7

\* The steps of the threshold stage.
LEMMA ThresholdTypes ==
  ASSUME TypeOK, Quieted,
         SameThreshold \/ NewThreshold \/ Raise \/ RaisePark \/ ParkThr \/ Clear
  PROVE  TypeOK' /\ Quieted'
<1>1. CASE SameThreshold
  <2>1. cycle' \in Cycles /\ cycle'.at = "idle" BY <1>1, DoneDoes DEF SameThreshold
  <2>2. TypeOK' BY <1>1, <2>1 DEF TypeOK, Cycles, SameThreshold, sensorVars, graceVars, dbVars
  <2>. QED BY <1>1, <2>1, <2>2 DEF SameThreshold, Quieted, graceVars, dbVars
<1>2. CASE NewThreshold
  <2>1. thr' \in Levels BY <1>2 DEF NewThreshold, Level, Levels
  <2>2. cycle' \in Cycles /\ cycle'.at \in {"idle", "clear", "raise"}
        /\ (cycle'.at # "idle" => ~cycle'.muted)
    <3>1. CASE cycle.muted BY <1>2, <3>1, DoneDoes DEF NewThreshold
    <3>2. CASE ~cycle.muted
      <4>1. LeftDirs(thr) \in SUBSET Dirs BY DirsAre DEF LeftDirs
      <4>2. cycle' = [cycle EXCEPT !.at = IF thr' = "ok" THEN "clear" ELSE "raise",
                                   !.left = LeftDirs(thr)]
          BY <1>2, <3>2 DEF NewThreshold
      <4>. QED BY <3>2, <4>1, <4>2 DEF TypeOK, Cycles, CycleSteps
    <3>. QED BY <3>1, <3>2
  <2>3. TypeOK' BY <1>2, <2>1, <2>2 DEF TypeOK, Cycles, NewThreshold, graceVars, dbVars
  <2>. QED BY <1>2, <2>2, <2>3 DEF NewThreshold, Quieted, graceVars, dbVars
<1>3. CASE Raise
  <2>1. cycle' \in Cycles /\ cycle'.at = "idle" BY <1>3, DoneDoes DEF Raise
  <2>2. rows' \in Rows /\ mainQ' \in Seq(Writes) /\ (~Queued => mainQ' = <<>>)
      BY <1>3, RaiseWritesAre, WriteSettles DEF Raise
  <2>3. TypeOK' BY <1>3, <2>1, <2>2 DEF TypeOK, Cycles, Raise, sensorVars, graceVars
  <2>. QED BY <1>3, <2>1, <2>2, <2>3 DEF Raise, Quieted, graceVars
<1>4. CASE RaisePark
  <2>1. cycle' \in Cycles /\ cycle'.at = "parkThr" /\ cycle'.muted = cycle.muted
      BY <1>4, ToDoes DEF RaisePark, CycleSteps
  <2>2. TypeOK' BY <1>4, <2>1 DEF TypeOK, Cycles, RaisePark, sensorVars, graceVars, dbVars
  <2>. QED BY <1>4, <2>1, <2>2 DEF RaisePark, Quieted, graceVars, dbVars
<1>5. CASE ParkThr
  <2>1. cycle' \in Cycles /\ cycle'.at = "idle" BY <1>5, DoneDoes DEF ParkThr
  <2>2. [state |-> thr, dir |-> RaisedDir(cycle.res), left |-> cycle.left]
           \in [state : Levels, dir : Dirs, left : SUBSET Dirs]
      BY RaiseWritesAre DEF TypeOK
  <2>3. parked' \in ParkedEntries BY <1>5, <2>2 DEF ParkThr, TypeOK, ParkedEntries
  <2>4. TypeOK' BY <1>5, <2>1, <2>3 DEF TypeOK, Cycles, ParkThr, sensorVars, dbVars
  <2>. QED BY <1>5, <2>1, <2>4 DEF ParkThr, Quieted, dbVars
<1>6. CASE Clear
  <2>1. cycle' \in Cycles /\ cycle'.at = "idle" BY <1>6, DoneDoes DEF Clear
  <2>2. parked' \in ParkedEntries
    <3>1. NoThr \in [state : Levels, dir : Dirs, left : SUBSET Dirs]
        BY DirsAre DEF NoThr, Levels
    <3>. QED BY <1>6, <3>1 DEF Clear, TypeOK, ParkedEntries
  <2>3. rows' \in Rows /\ mainQ' \in Seq(Writes) /\ (~Queued => mainQ' = <<>>)
      BY <1>6, DirsAre, LogIsWrite, WriteSettles DEF Clear
  <2>4. ack' \in BOOLEAN BY <1>6 DEF Clear, TypeOK
  <2>5. TypeOK' BY <1>6, <2>1, <2>2, <2>3, <2>4 DEF TypeOK, Cycles, Clear
  <2>. QED BY <1>6, <2>1, <2>3, <2>5 DEF Clear, Quieted
<1>. QED BY <1>1, <1>2, <1>3, <1>4, <1>5, <1>6

EmitWrites == <<Log(taken.thr.dir)>>
                 \o (IF taken.thr.left = {} THEN <<>> ELSE <<Resolve(taken.thr.left)>>)

LEMMA EmitWritesAre ==
  ASSUME TypeOK
  PROVE  taken.thr.dir \in Dirs /\ taken.thr.left \in SUBSET Dirs
         /\ EmitWrites \in Seq(Writes)
<1>1. taken.thr.dir \in Dirs /\ taken.thr.left \in SUBSET Dirs
    BY DEF TypeOK, ParkedEntries
<1>2. CASE taken.thr.left = {}
  <2>1. EmitWrites = <<Log(taken.thr.dir)>> BY <1>2 DEF EmitWrites
  <2>. QED BY <1>1, <2>1, LogIsWrite
<1>3. CASE taken.thr.left # {}
  <2>1. Log(taken.thr.dir) \in Writes /\ Resolve(taken.thr.left) \in Writes
      BY <1>1, LogIsWrite
  <2>2. EmitWrites = <<Log(taken.thr.dir), Resolve(taken.thr.left)>>
      BY <1>3, <2>1, TwoWrites DEF EmitWrites
  <2>. QED BY <1>1, <2>2, LogIsWrite
<1>. QED BY <1>1, <1>2, <1>3

LEMMA NoParkedType == NoParked \in ParkedEntries
BY DirsAre DEF ParkedEntries, NoParked, NoThr, Levels

\* The window and the flush thread.
LEMMA GraceTypes == ASSUME TypeOK, Quieted, GraceStep PROVE TypeOK' /\ Quieted'
<1>1. CASE ArmGrace
  <2>1. TypeOK' BY <1>1 DEF ArmGrace, TypeOK, sensorVars, dbVars
  <2>. QED BY <1>1, <2>1 DEF ArmGrace, Quieted, sensorVars, dbVars
<1>2. CASE CloseGrace
  <2>1. TypeOK' BY <1>2 DEF CloseGrace, TypeOK, FlushSteps, sensorVars, dbVars
  <2>. QED BY <1>2, <2>1 DEF CloseGrace, Quieted, sensorVars, dbVars
<1>3. CASE TakeParked
  <2>1. TypeOK' BY <1>3, NoParkedType DEF TakeParked, TypeOK, FlushSteps, sensorVars, dbVars
  <2>2. parked'.down = FALSE BY <1>3 DEF TakeParked, NoParked
  <2>. QED BY <1>3, <2>1, <2>2 DEF TakeParked, Quieted, sensorVars, dbVars
<1>4. CASE FlushDown
  <2>1. TypeOK' BY <1>4 DEF FlushDown, TypeOK, FlushSteps, sensorVars, dbVars
  <2>. QED BY <1>4, <2>1 DEF FlushDown, Quieted, sensorVars, dbVars
<1>5. CASE EmitDown
  <2>1. rows' \in Rows /\ mainQ' \in Seq(Writes) /\ (~Queued => mainQ' = <<>>)
      BY <1>5, DirsAre, LogIsWrite, WriteSettles DEF EmitDown
  <2>2. TypeOK' BY <1>5, <2>1 DEF EmitDown, TypeOK, FlushSteps, sensorVars
  <2>. QED BY <1>5, <2>1, <2>2 DEF EmitDown, Quieted, sensorVars
<1>6. CASE FlushThr
  <2>1. TypeOK' BY <1>6, NoParkedType DEF FlushThr, TypeOK, FlushSteps, sensorVars, dbVars
  <2>. QED BY <1>6, <2>1 DEF FlushThr, Quieted, sensorVars, dbVars
<1>7. CASE EmitThr
  <2>1. Write(EmitWrites) BY <1>7 DEF EmitThr, EmitWrites
  <2>2. rows' \in Rows /\ mainQ' \in Seq(Writes) /\ (~Queued => mainQ' = <<>>)
      BY <2>1, EmitWritesAre, WriteSettles
  <2>3. TypeOK' BY <1>7, <2>2, NoParkedType DEF EmitThr, TypeOK, FlushSteps, sensorVars
  <2>. QED BY <1>7, <2>2, <2>3 DEF EmitThr, Quieted, sensorVars
<1>. QED BY <1>1, <1>2, <1>3, <1>4, <1>5, <1>6, <1>7 DEF GraceStep

LEMMA WritersTypes ==
  ASSUME TypeOK, Quieted, MainWriter \/ LogsWriter PROVE TypeOK' /\ Quieted'
<1>1. CASE MainWriter
  <2>1. rows' \in Rows /\ mainQ' \in Seq(Writes) BY <1>1, MainWriterSettles
  <2>2. TypeOK' BY <1>1, <2>1 DEF MainWriter, TypeOK, sensorVars, graceVars
  <2>. QED BY <1>1, <2>2 DEF MainWriter, Quieted, sensorVars, graceVars
<1>2. CASE LogsWriter
  <2>1. rows' \in Rows BY <1>2, StoppedTypes DEF LogsWriter, TypeOK
  <2>2. logsQ' \in Seq(Writes) BY <1>2 DEF LogsWriter, TypeOK
  <2>3. TypeOK' BY <1>2, <2>1, <2>2 DEF LogsWriter, TypeOK, sensorVars, graceVars
  <2>. QED BY <1>2, <2>3 DEF LogsWriter, Quieted, sensorVars, graceVars
<1>. QED BY <1>1, <1>2

\* What an acknowledgement and a dismissal do to the table.
LEMMA AckRowDoes ==
  ASSUME TypeOK, NEW d \in Dirs, AckRow(d)
  PROVE  /\ rows' \in Rows /\ rows.revived \subseteq rows'.revived
         /\ rows'.dismissed \subseteq rows.dismissed
         /\ \A e \in Dirs : rows'.active[e] <= rows.active[e]
         /\ rows.dismissed = {} /\ Open(rows, "down") <= 1 => SameOpen(rows, rows')
<1>1. /\ rows \in Rows /\ rows.active \in [Dirs -> 0..MaxRows] /\ rows.acked \in [Dirs -> 0..MaxRows]
      /\ rows.closed \in SUBSET Dirs /\ rows.dismissed \in SUBSET Dirs
      /\ rows.revived \in SUBSET Dirs
    BY DEF TypeOK, Rows
<1>2. \A e \in Dirs : /\ rows.active[e] \in Nat /\ rows.active[e] <= MaxRows
                      /\ rows.acked[e] \in Nat /\ rows.acked[e] <= MaxRows
                      /\ Open(rows, e) = rows.active[e] + rows.acked[e]
    BY <1>1, RowCounts DEF Open
<1>3. CASE rows' = rows BY <1>1, <1>2, <1>3 DEF SameOpen
<1>4. CASE /\ rows.active[d] # 0
           /\ rows' = [rows EXCEPT !.active[d] = @ - 1, !.acked[d] = Cap(@ + 1, MaxRows)]
  <2>1. rows.active[d] - 1 \in 0..MaxRows /\ Cap(rows.acked[d] + 1, MaxRows) \in 0..MaxRows
      BY <1>2, <1>4, Numbers DEF Cap
  <2>2. /\ rows'.active = [rows.active EXCEPT ![d] = @ - 1]
        /\ rows'.acked = [rows.acked EXCEPT ![d] = Cap(@ + 1, MaxRows)]
        /\ rows'.closed = rows.closed /\ rows'.dismissed = rows.dismissed
        /\ rows'.revived = rows.revived
      BY <1>1, <1>4 DEF Rows
  <2>3. rows' \in Rows BY <1>1, <1>4, <2>1 DEF Rows
  <2>4. \A e \in Dirs : rows'.active[e] <= rows.active[e] BY <1>1, <1>2, <2>2
  <2>5. \A e \in Dirs \ {d} : Open(rows', e) = Open(rows, e) BY <1>1, <2>2 DEF Open
  <2>6. Open(rows', d) = (rows.active[d] - 1) + Cap(rows.acked[d] + 1, MaxRows)
      BY <1>1, <2>2 DEF Open
  <2>7. Open(rows, d) > 0 /\ Open(rows', d) > 0 BY <1>2, <1>4, <2>6, Numbers DEF Cap
  <2>8. Open(rows, d) <= 1 => Open(rows', d) = Open(rows, d)
      BY <1>2, <1>4, <2>6, Numbers DEF Cap
  <2>9. ASSUME Open(rows, "down") <= 1 PROVE SameOpen(rows, rows')
    <3>1. Open(rows, "down") = Open(rows', "down")
      <4>1. CASE d = "down" BY <2>8, <2>9, <4>1
      <4>2. CASE d # "down" BY <2>5, <4>2, DirsAre
      <4>. QED BY <4>1, <4>2
    <3>2. ASSUME NEW e \in Dirs PROVE Open(rows, e) > 0 <=> Open(rows', e) > 0
      <4>1. CASE e = d BY <2>7, <4>1
      <4>2. CASE e # d BY <2>5, <4>2
      <4>. QED BY <4>1, <4>2
    <3>. QED BY <3>1, <3>2 DEF SameOpen
  <2>. QED BY <2>2, <2>3, <2>4, <2>9
<1>5. CASE /\ d \in rows.closed
           /\ rows' = [rows EXCEPT !.closed = @ \ {d}, !.revived = @ \cup {d}]
  <2>1. /\ rows'.active = rows.active /\ rows'.acked = rows.acked
        /\ rows'.closed = rows.closed \ {d} /\ rows'.dismissed = rows.dismissed
        /\ rows'.revived = rows.revived \cup {d} /\ rows' \in Rows
      BY <1>1, <1>5 DEF Rows
  <2>. QED BY <1>2, <2>1 DEF SameOpen, Open
<1>6. CASE /\ d \in rows.dismissed
           /\ rows' = [rows EXCEPT !.dismissed = @ \ {d}, !.acked[d] = Cap(@ + 1, MaxRows)]
  <2>1. Cap(rows.acked[d] + 1, MaxRows) \in 0..MaxRows BY <1>2, Numbers DEF Cap
  <2>2. /\ rows'.active = rows.active /\ rows'.dismissed = rows.dismissed \ {d}
        /\ rows'.revived = rows.revived /\ rows' \in Rows
      BY <1>1, <1>6, <2>1 DEF Rows
  <2>. QED BY <1>2, <1>6, <2>2
<1>. QED BY <1>3, <1>4, <1>5, <1>6 DEF AckRow

LEMMA DismissRowDoes ==
  ASSUME TypeOK, NEW d \in Dirs, DismissRow(d)
  PROVE  /\ rows' \in Rows
         /\ \A e \in Dirs : rows'.active[e] <= rows.active[e]
<1>1. /\ rows \in Rows /\ rows.active \in [Dirs -> 0..MaxRows] /\ rows.acked \in [Dirs -> 0..MaxRows]
      /\ rows.closed \in SUBSET Dirs /\ rows.dismissed \in SUBSET Dirs
      /\ rows.revived \in SUBSET Dirs
    BY DEF TypeOK, Rows
<1>2. \A e \in Dirs : /\ rows.active[e] \in Nat /\ rows.active[e] <= MaxRows
                      /\ rows.acked[e] \in Nat /\ rows.acked[e] <= MaxRows
    BY <1>1, RowCounts
<1>3. CASE /\ rows.active[d] > 0
           /\ rows' = [rows EXCEPT !.active[d] = @ - 1, !.dismissed = @ \cup {d}]
  <2>1. rows.active[d] - 1 \in 0..MaxRows BY <1>2, <1>3, Numbers
  <2>2. rows'.active = [rows.active EXCEPT ![d] = @ - 1] /\ rows' \in Rows
      BY <1>1, <1>3, <2>1 DEF Rows
  <2>. QED BY <1>1, <1>2, <2>2
<1>4. CASE /\ rows.acked[d] > 0
           /\ rows' = [rows EXCEPT !.acked[d] = @ - 1, !.dismissed = @ \cup {d}]
  <2>1. rows.acked[d] - 1 \in 0..MaxRows BY <1>2, <1>4, Numbers
  <2>2. rows'.active = rows.active /\ rows' \in Rows BY <1>1, <1>4, <2>1 DEF Rows
  <2>. QED BY <1>2, <2>2
<1>5. CASE rows' = [rows EXCEPT !.revived = @ \ {d}, !.closed = @ \cup {d}]
  <2>1. rows'.active = rows.active /\ rows' \in Rows BY <1>1, <1>5 DEF Rows
  <2>. QED BY <1>2, <2>1
<1>. QED BY <1>3, <1>4, <1>5 DEF DismissRow

LEMMA RequestTypes == ASSUME TypeOK, Quieted, Request PROVE TypeOK' /\ Quieted'
<1>1. ASSUME NEW d \in Dirs, AckRow(d) PROVE TypeOK' /\ Quieted'
  <2>1. rows' \in Rows BY <1>1, AckRowDoes
  <2>2. TypeOK' BY <1>1, <2>1 DEF AckRow, TypeOK, sensorVars, graceVars
  <2>. QED BY <1>1, <2>2 DEF AckRow, Quieted, sensorVars, graceVars
<1>2. ASSUME NEW d \in Dirs, DismissRow(d) PROVE TypeOK' /\ Quieted'
  <2>1. rows' \in Rows BY <1>2, DismissRowDoes
  <2>2. TypeOK' BY <1>2, <2>1 DEF DismissRow, TypeOK, sensorVars, graceVars
  <2>. QED BY <1>2, <2>2 DEF DismissRow, Quieted, sensorVars, graceVars
<1>3. CASE AckCheck
  <2>1. TypeOK' BY <1>3 DEF AckCheck, TypeOK, sensorVars, graceVars, dbVars
  <2>. QED BY <1>3, <2>1 DEF AckCheck, Quieted, sensorVars, graceVars, dbVars
<1>4. CASE AckSet
  <2>1. TypeOK' BY <1>4 DEF AckSet, TypeOK, graceVars, dbVars
  <2>. QED BY <1>4, <2>1 DEF AckSet, Quieted, graceVars, dbVars
<1>5. CASE ToggleMute
  <2>1. TypeOK' BY <1>5 DEF ToggleMute, TypeOK, graceVars, dbVars
  <2>. QED BY <1>5, <2>1 DEF ToggleMute, Quieted, graceVars, dbVars
<1>6. CASE StopDevice
  <2>1. rows' \in Rows BY <1>6, StoppedTypes DEF StopDevice, TypeOK
  <2>2. logsQ' \in Seq(Writes)
    <3>1. Resolve(Dirs) \in Writes BY LogIsWrite
    <3>2. logsQ \in Seq(Writes) BY DEF TypeOK
    <3>3. Append(logsQ, Resolve(Dirs)) \in Seq(Writes) BY <3>1, <3>2
    <3>. QED BY <1>6, <3>2, <3>3 DEF StopDevice
  <2>3. TypeOK' BY <1>6, <2>1, <2>2 DEF StopDevice, TypeOK, graceVars
  <2>. QED BY <1>6, <2>3 DEF StopDevice, Quieted, graceVars
<1>7. CASE StartDevice
  <2>1. TypeOK' BY <1>7 DEF StartDevice, TypeOK, graceVars, dbVars
  <2>. QED BY <1>7, <2>1 DEF StartDevice, Quieted, graceVars, dbVars
<1>8. CASE Restart
  <2>1. down' \in BOOLEAN /\ ack' \in BOOLEAN BY <1>8 DEF Restart, Unresolved
  <2>2. thr' \in Levels BY <1>8 DEF Restart, Levels
  <2>3. fails' \in 0..FailAfter /\ oks' \in 0..RecoverAfter BY <1>8, Numbers DEF Restart
  <2>4. cycle' \in Cycles /\ cycle'.at = "idle"
      BY <1>8 DEF Restart, Cycles, Idle, CycleSteps, AllResults
  <2>5. mainQ' = <<>> /\ logsQ' = <<>> /\ <<>> \in Seq(Writes) BY <1>8 DEF Restart
  <2>6. TypeOK'
      BY <1>8, <2>1, <2>2, <2>3, <2>4, <2>5, NoParkedType
      DEF Restart, TypeOK, Cycles, FlushSteps
  <2>. QED BY <1>8, <2>4, <2>5, <2>6 DEF Restart, Quieted
<1>. QED BY <1>1, <1>2, <1>3, <1>4, <1>5, <1>6, <1>7, <1>8 DEF Request

LEMMA NextTypes == ASSUME TypeOK, Quieted, [Next]_vars PROVE TypeOK' /\ Quieted'
<1>1. ASSUME NEW r \in setting.results, BeginCycle(r) PROVE TypeOK' /\ Quieted'
    BY <1>1, BeginCycleTypes
<1>2. CASE UNCHANGED vars
    BY <1>2 DEF TypeOK, Quieted, vars, sensorVars, graceVars, dbVars
<1>. QED
    BY <1>1, <1>2, ConnTypes, ThresholdTypes, GraceTypes, WritersTypes, RequestTypes
    DEF Next, CycleStep

------------------------------------------------------------------------------
(* Without operators and window: the rows fit the sensor's incidents.      *)

LEMMA UndisturbedIs ==
  Undisturbed => /\ "grace" \notin setting.ops /\ "mute" \notin setting.ops
                 /\ "pause" \notin setting.ops /\ "dismiss" \notin setting.ops
BY DEF Undisturbed

LEMMA OpenRowIs ==
  ASSUME TypeOK
  PROVE  \A d \in Dirs : Open(Settled, d) \in Nat /\ (~OpenRow(d) => Open(Settled, d) = 0)
<1>1. \A d \in Dirs : Open(Settled, d) \in Nat BY SettledTypes, RowCounts
<1>. QED BY <1>1 DEF OpenRow

\* No row is opened or closed.
Still == /\ \A d \in Dirs : OpenRow(d)' <=> OpenRow(d)
         /\ OneDownRow'
         /\ rows.revived \subseteq rows'.revived /\ rows'.dismissed = {}

LEMMA UnwrittenStill ==
  ASSUME Fits, UNCHANGED <<mainQ, rows>> PROVE Still
BY DEF Fits, Plain, OneDownRow, Still, OpenRow, Settled

LEMMA MainWriterStill ==
  ASSUME TypeOK, Fits, MainWriter PROVE Still
<1>1. /\ Settled' = Settled /\ rows'.revived = rows.revived
      /\ rows'.dismissed = rows.dismissed /\ OneDownRow'
    BY MainWriterSettles DEF Fits
<1>. QED BY <1>1 DEF Fits, Plain, Still, OpenRow

LEMMA AckRowStill ==
  ASSUME TypeOK, Fits, NEW d \in Dirs, AckRow(d) PROVE Still
<1>1. rows \in Rows /\ mainQ \in Seq(Writes) /\ Len(mainQ) \in Nat BY DEF TypeOK
<1>2. Open(rows, "down") <= 1
  <2>1. After(rows, mainQ)[0] = rows BY <1>1, AfterIs
  <2>2. 0 \in 0..Len(mainQ) BY <1>1
  <2>. QED BY <2>1, <2>2 DEF Fits, OneDownRow
<1>3. /\ rows' \in Rows /\ rows.revived \subseteq rows'.revived
      /\ rows'.dismissed = {} /\ SameOpen(rows, rows')
    BY <1>2, AckRowDoes DEF Fits, Plain
<1>4. mainQ' = mainQ BY DEF AckRow
<1>5. \A n \in 0..Len(mainQ) : Open(After(rows, mainQ)[n], "down") <= 1
    BY DEF Fits, OneDownRow
<1>6. /\ \A n \in 0..Len(mainQ) : SameOpen(After(rows, mainQ)[n], After(rows', mainQ)[n])
      /\ SameOpen(Applied(rows, mainQ), Applied(rows', mainQ))
    BY <1>1, <1>3, <1>5, AfterSameOpen
<1>7. \A n \in 0..Len(mainQ) : Open(After(rows', mainQ)[n], "down") <= 1
    BY <1>5, <1>6 DEF SameOpen
<1>8. OneDownRow' BY <1>4, <1>7 DEF OneDownRow
<1>9. Settled = Applied(rows, mainQ) /\ Settled' = Applied(rows', mainQ)
    BY <1>4 DEF Settled
<1>10. \A e \in Dirs : OpenRow(e)' <=> OpenRow(e)
    BY <1>6, <1>9 DEF SameOpen, OpenRow
<1>. QED BY <1>3, <1>8, <1>10 DEF Still

\* Then nothing moves but the place of the cycle, between places that say the same.
LEMMA StillFits ==
  ASSUME Fits, Still, Plain', UNCHANGED <<down, thr>>,
         \/ cycle' = cycle
         \/ /\ cycle.at \notin {"markDown", "markUp", "raise", "clear"}
            /\ cycle'.at \in {"idle", "conn", "threshold"}
  PROVE  Fits'
<1>. USE DirsAre
<1>1. DownFits' BY DEF Fits, Still, DownFits, Shown
<1>2. LevelFits' BY DEF Fits, Still, LevelFits, Shown
<1>. QED BY <1>1, <1>2 DEF Fits, Still

\* What a cycle's write does, when nothing is muted.
LEMMA LogFits ==
  ASSUME TypeOK, Quieted, Fits, NEW d \in Dirs, Write(<<Log(d)>>), d = "down" => ~OpenRow(d)
  PROVE  /\ \A e \in Dirs : OpenRow(e)' <=> OpenRow(e) \/ e = d
         /\ OneDownRow' /\ rows'.revived = rows.revived /\ rows'.dismissed = {}
<1>1. Settled \in Rows /\ Open(Settled, "down") <= 1 BY SettledTypes, SettledOneDown DEF Fits
<1>2. /\ \A e \in Dirs \ {d} : Open(Apply(Settled, Log(d)), e) = Open(Settled, e)
      /\ Open(Apply(Settled, Log(d)), d) > 0
      /\ Open(Settled, d) <= 1 => Open(Apply(Settled, Log(d)), d) = Open(Settled, d) + 1
    BY <1>1, LogOpens
<1>3. Settled' = Apply(Settled, Log(d)) BY LogIsWrite, WriteOne
<1>4. Open(Apply(Settled, Log(d)), "down") <= 1
  <2>1. CASE d = "down"
    <3>1. Open(Settled, "down") = 0 BY <2>1, OpenRowIs
    <3>. QED BY <1>2, <2>1, <3>1
  <2>2. CASE d # "down" BY <1>1, <1>2, <2>2, DirsAre
  <2>. QED BY <2>1, <2>2
<1>5. OneDownRow' BY <1>4, LogIsWrite, WriteOne DEF Fits
<1>6. \A e \in Dirs : OpenRow(e)' <=> OpenRow(e) \/ e = d BY <1>2, <1>3 DEF OpenRow
<1>7. rows'.revived = rows.revived /\ rows'.dismissed = {}
    BY LogIsWrite, WriteSettles DEF Fits, Plain
<1>. QED BY <1>5, <1>6, <1>7

LEMMA ResolveFits ==
  ASSUME TypeOK, Quieted, Fits, NEW D \in SUBSET Dirs, Write(<<Resolve(D)>>)
  PROVE  /\ \A e \in Dirs : OpenRow(e)' <=> OpenRow(e) /\ e \notin D
         /\ OneDownRow' /\ rows'.revived = rows.revived /\ rows'.dismissed = {}
<1>1. Settled \in Rows /\ Open(Settled, "down") <= 1 BY SettledTypes, SettledOneDown DEF Fits
<1>2. \A e \in Dirs : Open(Apply(Settled, Resolve(D)), e) = IF e \in D THEN 0 ELSE Open(Settled, e)
    BY <1>1, ResolveCloses
<1>3. Settled' = Apply(Settled, Resolve(D)) BY LogIsWrite, WriteOne
<1>4. Open(Apply(Settled, Resolve(D)), "down") <= 1 BY <1>1, <1>2, DirsAre
<1>5. OneDownRow' BY <1>4, LogIsWrite, WriteOne DEF Fits
<1>6. \A e \in Dirs : OpenRow(e)' <=> OpenRow(e) /\ e \notin D BY <1>2, <1>3 DEF OpenRow
<1>7. rows'.revived = rows.revived /\ rows'.dismissed = {}
    BY LogIsWrite, WriteSettles DEF Fits, Plain
<1>. QED BY <1>5, <1>6, <1>7

\* The row of the new level, and the resolution of the level left.
LEMMA RaiseFits ==
  ASSUME TypeOK, Quieted, Fits, Write(RaiseWrites)
  PROVE  /\ \A e \in Dirs : OpenRow(e)' <=>
               (OpenRow(e) \/ e = RaisedDir(cycle.res)) /\ e \notin cycle.left
         /\ OneDownRow' /\ rows'.revived = rows.revived /\ rows'.dismissed = {}
<1> DEFINE d == RaisedDir(cycle.res)
           D == cycle.left
           v == Apply(Settled, Log(d))
           w == Apply(v, Resolve(D))
<1>1. d \in Dirs \ {"down"} /\ D \in SUBSET Dirs BY RaiseWritesAre
<1>2. CASE D = {}
  <2>1. Write(<<Log(d)>>) BY <1>2, RaiseWritesAre
  <2>2. d # "down" BY <1>1
  <2> HIDE DEF d
  <2>3. /\ \A e \in Dirs : OpenRow(e)' <=> OpenRow(e) \/ e = d
        /\ OneDownRow' /\ rows'.revived = rows.revived /\ rows'.dismissed = {}
      BY <1>1, <2>1, <2>2, LogFits
  <2>. QED BY <1>2, <2>3 DEF d
<1>3. CASE D # {}
  <2>1. Write(<<Log(d), Resolve(D)>>) BY <1>3, RaiseWritesAre
  <2>2. Settled \in Rows /\ Open(Settled, "down") <= 1
      BY SettledTypes, SettledOneDown DEF Fits
  <2> HIDE DEF d, D
  <2>3. v \in Rows BY <1>1, <2>2, LogDoes
  <2>4. (\A e \in Dirs \ {d} : Open(v, e) = Open(Settled, e)) /\ Open(v, d) > 0
      BY <1>1, <2>2, LogOpens
  <2>5. \A e \in Dirs : Open(w, e) = IF e \in D THEN 0 ELSE Open(v, e)
      BY <1>1, <2>3, ResolveCloses
  <2>6. Log(d) \in Writes /\ Resolve(D) \in Writes /\ <<Log(d), Resolve(D)>> \in Seq(Writes)
      BY <1>1, LogIsWrite
  <2>7. Settled' = w BY <2>1, <2>6, WriteTwo
  <2>8. Open(v, "down") <= 1 BY <1>1, <2>2, <2>4, DirsAre
  <2>9. Open(w, "down") <= 1 BY <2>5, <2>8, DirsAre
  <2>10. OneDownRow' BY <2>1, <2>6, <2>8, <2>9, WriteTwo DEF Fits
  <2>11. rows'.revived = rows.revived /\ rows'.dismissed = {}
      BY <2>1, <2>6, WriteSettles DEF Fits, Plain
  <2> HIDE DEF v, w
  <2>12. \A e \in Dirs : OpenRow(e)' <=> (OpenRow(e) \/ e = d) /\ e \notin D
      BY <2>4, <2>5, <2>7 DEF OpenRow
  <2>. QED BY <2>10, <2>11, <2>12 DEF d, D
<1>. QED BY <1>2, <1>3

\* The cycle that begins, or goes on with nothing to say, or ends.
LEMMA PassingFits ==
  ASSUME TypeOK, Quieted, Undisturbed, Fits,
         (\E r \in setting.results : BeginCycle(r)) \/ StayConn \/ SameThreshold
  PROVE  Fits'
<1>1. CASE \E r \in setting.results : BeginCycle(r)
  <2>1. PICK r \in setting.results : BeginCycle(r) BY <1>1
  <2>2. cycle.at = "idle" /\ cycle'.at = "conn" /\ cycle'.muted = muted
      /\ UNCHANGED <<running, muted, down, thr, grace, flush, logsQ, mainQ, rows>>
      BY <2>1 DEF BeginCycle, graceVars, dbVars
  <2>3. Still BY <2>2, UnwrittenStill
  <2>4. Plain' BY <2>2, <2>3 DEF Fits, Plain
  <2>. QED BY <2>2, <2>3, <2>4, StillFits
<1>2. CASE StayConn
  <2>1. cycle.at = "conn" /\ cycle'.at = "threshold" /\ cycle'.muted = cycle.muted
      BY <1>2, ToDoes DEF StayConn, CycleSteps
  <2>2. UNCHANGED <<running, muted, down, thr, grace, flush, logsQ, mainQ, rows>>
      BY <1>2 DEF StayConn, NoWrite, sensorVars, graceVars
  <2>3. Still BY <2>2, UnwrittenStill
  <2>4. Plain' BY <2>1, <2>2, <2>3 DEF Fits, Plain
  <2>. QED BY <2>1, <2>2, <2>3, <2>4, StillFits
<1>3. CASE SameThreshold
  <2>1. cycle.at = "threshold" /\ cycle'.at = "idle" /\ cycle'.muted = FALSE
      BY <1>3, DoneDoes DEF SameThreshold
  <2>2. UNCHANGED <<running, muted, down, thr, grace, flush, logsQ, mainQ, rows>>
      BY <1>3 DEF SameThreshold, sensorVars, graceVars, dbVars
  <2>3. Still BY <2>2, UnwrittenStill
  <2>4. Plain' BY <2>1, <2>2, <2>3 DEF Fits, Plain
  <2>. QED BY <2>1, <2>2, <2>3, <2>4, StillFits
<1>. QED BY <1>1, <1>2, <1>3

\* The row is logged while the sensor still counts as up ...
LEMMA GoDownFits ==
  ASSUME TypeOK, Quieted, Undisturbed, Fits, GoDown PROVE Fits'
<1>. USE DirsAre
<1>1. cycle.at = "conn" /\ cycle'.at = "markDown" /\ cycle'.muted = cycle.muted
    BY ToDoes DEF GoDown, CycleSteps
<1>2. ~down /\ ~OpenRow("down") BY <1>1 DEF GoDown, GoesDown, Fits, DownFits
<1>3. DownLogged BY DEF DownLogged, Fits, Plain
<1>4. Write(<<Log("down")>>) BY <1>3 DEF GoDown
<1>5. /\ \A e \in Dirs : OpenRow(e)' <=> OpenRow(e) \/ e = "down"
      /\ OneDownRow' /\ rows'.revived = rows.revived /\ rows'.dismissed = {}
    BY <1>2, <1>4, LogFits
<1>6. UNCHANGED <<running, muted, down, thr, grace, flush, logsQ>>
    BY DEF GoDown, sensorVars, graceVars
<1>7. Plain' BY <1>1, <1>5, <1>6 DEF Fits, Plain
<1>8. DownFits' BY <1>1, <1>2, <1>5, <1>6 DEF DownFits
<1>9. LevelFits' BY <1>1, <1>5, <1>6 DEF Fits, LevelFits, Shown
<1>. QED BY <1>5, <1>7, <1>8, <1>9 DEF Fits

\* ... and marked after.
LEMMA MarkFits ==
  ASSUME TypeOK, Quieted, Undisturbed, Fits, MarkDown \/ MarkUp PROVE Fits'
<1>. USE DirsAre
<1>1. /\ cycle'.at = "threshold" /\ cycle'.muted = cycle.muted
      /\ UNCHANGED <<running, muted, thr, grace, flush, logsQ, mainQ, rows>>
      /\ \/ cycle.at = "markDown" /\ down' = TRUE
         \/ cycle.at = "markUp" /\ down' = FALSE
    BY ToDoes DEF MarkDown, MarkUp, CycleSteps, graceVars, dbVars
<1>2. Still BY <1>1, UnwrittenStill
<1>3. Plain' BY <1>1, <1>2 DEF Fits, Plain
<1>4. DownFits' BY <1>1, <1>2 DEF Fits, Still, DownFits, Shown
<1>5. LevelFits' BY <1>1, <1>2 DEF Fits, Still, LevelFits, Shown
<1>. QED BY <1>2, <1>3, <1>4, <1>5 DEF Fits, Still

LEMMA RecoverFits ==
  ASSUME TypeOK, Quieted, Undisturbed, Fits, Recover PROVE Fits'
<1>. USE DirsAre
<1>1. cycle.at = "conn" /\ cycle'.at = "markUp" /\ cycle'.muted = cycle.muted
    BY ToDoes DEF Recover, CycleSteps
<1>2. down /\ ~cycle.muted BY DEF Recover, Recovers, Fits, Plain
<1>3. Write(<<Resolve({"down"})>>) BY <1>2 DEF Recover
<1>4. /\ \A e \in Dirs : OpenRow(e)' <=> OpenRow(e) /\ e \notin {"down"}
      /\ OneDownRow' /\ rows'.revived = rows.revived /\ rows'.dismissed = {}
  <2>1. {"down"} \in SUBSET Dirs OBVIOUS
  <2>. QED BY <1>3, <2>1, ResolveFits
<1>5. UNCHANGED <<running, muted, down, thr, grace, flush, logsQ>>
    BY DEF Recover, sensorVars
<1>6. Plain' BY <1>1, <1>4, <1>5 DEF Fits, Plain
<1>7. DownFits' BY <1>1, <1>2, <1>4, <1>5 DEF DownFits
<1>8. LevelFits' BY <1>1, <1>4, <1>5 DEF Fits, LevelFits, Shown
<1>. QED BY <1>4, <1>6, <1>7, <1>8 DEF Fits

LEMMA NewThresholdFits ==
  ASSUME TypeOK, Quieted, Undisturbed, Fits, NewThreshold PROVE Fits'
<1>. USE DirsAre
<1>1. ~cycle.muted /\ cycle.at = "threshold" /\ thr' = Level(cycle.res) /\ thr' # thr
    BY DEF NewThreshold, Fits, Plain
<1>2. /\ cycle'.at = (IF thr' = "ok" THEN "clear" ELSE "raise") /\ cycle'.res = cycle.res
      /\ cycle'.muted = cycle.muted /\ cycle'.left = LeftDirs(thr)
  <2>1. cycle' = [cycle EXCEPT !.at = IF thr' = "ok" THEN "clear" ELSE "raise",
                               !.left = LeftDirs(thr)]
      BY <1>1 DEF NewThreshold
  <2>. QED BY <2>1 DEF TypeOK
<1>3. UNCHANGED <<running, muted, down, grace, flush, logsQ, mainQ, rows>>
    BY DEF NewThreshold, graceVars, dbVars
<1>4. Still BY <1>3, UnwrittenStill
<1>5. Plain' BY <1>2, <1>3, <1>4 DEF Fits, Plain
<1>6. DownFits' BY <1>1, <1>2, <1>3, <1>4 DEF Fits, Still, DownFits, Shown
<1>7. LevelFits'
  <2>1. CASE thr' = "ok" BY <1>2, <2>1 DEF LevelFits
  <2>2. CASE thr' # "ok"
    <3>1. cycle'.at = "raise" /\ thr' = Level(cycle'.res) BY <1>1, <1>2, <2>2
    <3>2. thr' = "crit" => LeftDirs(thr) \subseteq {"threshold_warn"}
        BY <1>1 DEF LeftDirs, TypeOK, Levels
    <3>3. thr' = "warn" => LeftDirs(thr) \subseteq {"threshold_crit"}
        BY <1>1 DEF LeftDirs, TypeOK, Levels
    <3>4. OpenRow("threshold_crit")' => "threshold_crit" \in LeftDirs(thr)
      <4>1. OpenRow("threshold_crit") => thr = "crit" BY <1>1 DEF Fits, LevelFits
      <4>. QED BY <1>4, <4>1 DEF Still, LeftDirs
    <3>. QED BY <1>2, <2>2, <3>1, <3>2, <3>3, <3>4 DEF LevelFits
  <2>. QED BY <2>1, <2>2
<1>. QED BY <1>4, <1>5, <1>6, <1>7 DEF Fits, Still

LEMMA RaiseLevels ==
  ASSUME NEW r \in AllResults
  PROVE  /\ Level(r) \in Levels
         /\ Level(r) = "crit" => RaisedDir(r) = "threshold_crit"
         /\ Level(r) = "warn" => RaisedDir(r) \in {"threshold_warn", "anomaly_warn"}
BY DEF Level, RaisedDir, Levels, AllResults

LEMMA RaiseStepFits ==
  ASSUME TypeOK, Quieted, Undisturbed, Fits, Raise PROVE Fits'
<1>. USE DirsAre
<1>1. cycle.at = "raise" /\ Write(RaiseWrites) BY DEF Raise
<1>2. cycle'.at = "idle" /\ cycle'.muted = FALSE BY DoneDoes DEF Raise
<1>3. /\ \A e \in Dirs : OpenRow(e)' <=>
            (OpenRow(e) \/ e = RaisedDir(cycle.res)) /\ e \notin cycle.left
      /\ OneDownRow' /\ rows'.revived = rows.revived /\ rows'.dismissed = {}
    BY <1>1, RaiseFits
<1>4. UNCHANGED <<running, muted, down, thr, grace, flush, logsQ>>
    BY DEF Raise, sensorVars, graceVars
<1>5. Plain' BY <1>2, <1>3, <1>4 DEF Fits, Plain
<1>6. /\ thr = Level(cycle.res) /\ thr # "ok" /\ cycle.res \in AllResults
      /\ thr = "crit" => cycle.left \subseteq {"threshold_warn"}
      /\ thr = "warn" => /\ cycle.left \subseteq {"threshold_crit"}
                         /\ OpenRow("threshold_crit") => "threshold_crit" \in cycle.left
    BY <1>1 DEF Fits, LevelFits, TypeOK
<1>7. RaisedDir(cycle.res) # "down" /\ "down" \notin cycle.left /\ thr \in {"warn", "crit"}
    BY <1>6, RaiseLevels DEF Levels
<1>8. DownFits' BY <1>1, <1>2, <1>3, <1>4, <1>7 DEF Fits, DownFits, Shown
<1>9. LevelFits'
  <2>1. CASE thr = "crit"
    <3>1. RaisedDir(cycle.res) = "threshold_crit" BY <1>6, <2>1, RaiseLevels
    <3>2. "threshold_crit" \notin cycle.left BY <1>6, <2>1
    <3>3. OpenRow("threshold_crit")' BY <1>3, <3>1, <3>2
    <3>. QED BY <1>2, <1>4, <2>1, <3>3 DEF LevelFits, Shown
  <2>2. CASE thr = "warn"
    <3>1. RaisedDir(cycle.res) \in {"threshold_warn", "anomaly_warn"}
        BY <1>6, <2>2, RaiseLevels
    <3>2. "threshold_warn" \notin cycle.left /\ "anomaly_warn" \notin cycle.left
        BY <1>6, <2>2
    <3>3. OpenRow("threshold_warn")' \/ OpenRow("anomaly_warn")' BY <1>3, <3>1, <3>2
    <3>4. ~OpenRow("threshold_crit")' BY <1>3, <1>6, <2>2, <3>1
    <3>. QED BY <1>2, <1>4, <2>2, <3>3, <3>4 DEF LevelFits, Shown
  <2>. QED BY <1>7, <2>1, <2>2
<1>. QED BY <1>3, <1>5, <1>8, <1>9 DEF Fits

LEMMA ClearFits ==
  ASSUME TypeOK, Quieted, Undisturbed, Fits, Clear PROVE Fits'
<1>. USE DirsAre
<1>1. cycle.at = "clear" /\ Write(<<Resolve(ThresholdDirs)>>) BY DEF Clear
<1>2. cycle'.at = "idle" /\ cycle'.muted = FALSE BY DoneDoes DEF Clear
<1>3. /\ \A e \in Dirs : OpenRow(e)' <=> OpenRow(e) /\ e \notin ThresholdDirs
      /\ OneDownRow' /\ rows'.revived = rows.revived /\ rows'.dismissed = {}
    BY <1>1, ResolveFits
<1>4. UNCHANGED <<running, muted, down, thr, grace, flush, logsQ>> BY DEF Clear
<1>5. Plain' BY <1>2, <1>3, <1>4 DEF Fits, Plain
<1>6. thr = "ok" BY <1>1 DEF Fits, LevelFits
<1>7. DownFits' BY <1>1, <1>2, <1>3, <1>4 DEF Fits, DownFits, Shown, ThresholdDirs
<1>8. LevelFits' BY <1>2, <1>3, <1>4, <1>6 DEF LevelFits, ThresholdDirs
<1>. QED BY <1>3, <1>5, <1>7, <1>8 DEF Fits

\* The writer, the acknowledgements and the stutter leave the cycle alone.
LEMMA AsideFits ==
  ASSUME TypeOK, Quieted, Undisturbed, Fits,
         MainWriter \/ (\E d \in Dirs : AckRow(d)) \/ AckCheck \/ AckSet \/ UNCHANGED vars
  PROVE  Fits'
<1>1. UNCHANGED <<running, muted, down, thr, cycle, grace, flush, logsQ>>
    BY DEF MainWriter, AckRow, AckCheck, AckSet, vars, sensorVars, graceVars, dbVars
<1>2. Still
  <2>1. CASE MainWriter BY <2>1, MainWriterStill
  <2>2. CASE \E d \in Dirs : AckRow(d) BY <2>2, AckRowStill
  <2>3. CASE AckCheck BY <2>3, UnwrittenStill DEF AckCheck, dbVars
  <2>4. CASE AckSet BY <2>4, UnwrittenStill DEF AckSet, dbVars
  <2>5. CASE UNCHANGED vars BY <2>5, UnwrittenStill DEF vars, dbVars
  <2>. QED BY <2>1, <2>2, <2>3, <2>4, <2>5
<1>3. Plain' BY <1>1, <1>2 DEF Fits, Plain, Still
<1>. QED BY <1>1, <1>2, <1>3, StillFits

\* The new process sees the table as it is, the queue lost.
LEMMA RestartFits ==
  ASSUME TypeOK, Quieted, Undisturbed, Fits, Restart PROVE Fits'
<1>. USE DirsAre
<1>1. rows \in Rows /\ rows' = rows /\ mainQ' = <<>> /\ mainQ \in Seq(Writes)
    BY DEF TypeOK, Restart
<1>2. Settled' = rows
  <2>1. \A t : Applied(t, <<>>) = t BY AppliedNone
  <2>. QED BY <1>1, <2>1 DEF Settled
<1>3. \A d \in Dirs : OpenRow(d)' <=> Open(rows, d) > 0 BY <1>2 DEF OpenRow
<1>4. OneDownRow'
  <2>1. Open(rows, "down") <= 1
    <3>1. After(rows, mainQ)[0] = rows /\ 0 \in 0..Len(mainQ) BY <1>1, AfterIs
    <3>. QED BY <3>1 DEF Fits, OneDownRow
  <2>2. Len(<<>>) = 0 /\ \A t : After(t, <<>>)[0] = t BY AfterIs
  <2>. QED BY <1>1, <2>1, <2>2 DEF OneDownRow
<1>5. cycle'.at = "idle" /\ cycle'.muted = FALSE BY DEF Restart, Idle
<1>6. Plain' BY <1>1, <1>5 DEF Restart, Fits, Plain
<1>7. \A d \in Dirs : Shown(d)' <=> Unresolved(d)
    BY <1>1, <1>3 DEF Shown, Unresolved
<1>8. DownFits'
  <2>1. down' <=> Unresolved("down") BY DEF Restart, Unresolved
  <2>. QED BY <1>3, <1>5, <1>7, <2>1 DEF DownFits, Unresolved
<1>9. LevelFits'
  <2>1. /\ thr' = "crit" <=> Unresolved("threshold_crit")
        /\ thr' = "warn" => Unresolved("threshold_warn") \/ Unresolved("anomaly_warn")
        /\ Unresolved("threshold_warn") => thr' # "ok"
      BY DEF Restart
  <2>. QED BY <1>3, <1>5, <1>7, <2>1 DEF LevelFits, Unresolved
<1>. QED BY <1>4, <1>6, <1>8, <1>9 DEF Fits

LEMMA NextFits ==
  ASSUME TypeOK, Quieted, Undisturbed, Fits, [Next]_vars PROVE Fits'
<1>1. cycle.at \notin {"parkDown", "parkThr"} /\ grace = "unarmed" /\ flush = "idle"
      /\ logsQ = <<>> /\ running
    BY DEF Fits, Plain, DownFits
<1>2. ~GoDownInGrace /\ ~ParkDown /\ ~RaisePark /\ ~ParkThr
    BY <1>1 DEF GoDownInGrace, ParkDown, RaisePark, ParkThr
<1>3. ~GraceStep
    BY <1>1, UndisturbedIs
    DEF GraceStep, ArmGrace, CloseGrace, TakeParked, FlushDown, EmitDown, FlushThr, EmitThr
<1>4. ~LogsWriter /\ ~ToggleMute /\ ~StopDevice /\ ~StartDevice
      /\ \A d \in Dirs : ~DismissRow(d)
    BY <1>1, UndisturbedIs DEF LogsWriter, ToggleMute, StopDevice, StartDevice, DismissRow
<1>5. CASE CycleStep
    BY <1>2, <1>5, PassingFits, GoDownFits, MarkFits, RecoverFits, NewThresholdFits,
       RaiseStepFits, ClearFits
    DEF CycleStep
<1>6. CASE MainWriter \/ UNCHANGED vars BY <1>6, AsideFits
<1>7. CASE Request BY <1>4, <1>7, AsideFits, RestartFits DEF Request
<1>. QED BY <1>3, <1>4, <1>5, <1>6, <1>7 DEF Next

LEMMA SettingStays == ASSUME [Next]_vars PROVE setting' = setting
<1>1. CASE UNCHANGED vars BY <1>1 DEF vars
<1>2. CASE CycleStep
    BY <1>2 DEF CycleStep, BeginCycle, StayConn, GoDown, GoDownInGrace, ParkDown, MarkDown,
                Recover, MarkUp, SameThreshold, NewThreshold, Raise, RaisePark, ParkThr, Clear
<1>3. CASE GraceStep
    BY <1>3 DEF GraceStep, ArmGrace, CloseGrace, TakeParked, FlushDown, EmitDown, FlushThr,
                EmitThr
<1>4. CASE MainWriter \/ LogsWriter BY <1>4 DEF MainWriter, LogsWriter
<1>5. CASE Request
    BY <1>5 DEF Request, AckRow, DismissRow, AckCheck, AckSet, ToggleMute, StopDevice,
                StartDevice, Restart
<1>. QED BY <1>1, <1>2, <1>3, <1>4, <1>5 DEF Next

LEMMA InitIInv == Init => IInv
<1>. SUFFICES ASSUME Init PROVE IInv OBVIOUS
<1>1. TypeOK /\ Quieted BY InitTypes
<1>2. /\ Settled = rows /\ cycle = Idle /\ mainQ = <<>> /\ After(rows, <<>>)[0] = rows
      /\ \A d \in Dirs : Open(rows, d) = 0
  <2>1. Len(<<>>) = 0 OBVIOUS
  <2>2. Applied(rows, <<>>) = rows /\ After(rows, <<>>)[0] = rows
      BY <2>1, AppliedNone, AfterIs
  <2>. QED BY <2>2 DEF Init, Settled, Open
<1>3. OneDownRow BY <1>2, DirsAre DEF OneDownRow
<1>4. \A d \in Dirs : ~OpenRow(d) BY <1>2 DEF OpenRow
<1>5. Plain BY <1>2 DEF Init, Plain, Idle
<1>6. DownFits /\ LevelFits BY <1>2, <1>4, DirsAre DEF Init, Idle, DownFits, LevelFits
<1>. QED BY <1>1, <1>3, <1>5, <1>6 DEF IInv, Fits

LEMMA NextIInv == ASSUME IInv, [Next]_vars PROVE IInv'
<1>1. TypeOK' /\ Quieted' BY NextTypes DEF IInv
<1>2. Undisturbed' <=> Undisturbed BY SettingStays DEF Undisturbed
<1>3. Undisturbed' => Fits' BY <1>2, NextFits DEF IInv
<1>. QED BY <1>1, <1>3 DEF IInv

LEMMA AlwaysIInv == Spec => []IInv
<1>1. Init => IInv BY InitIInv
<1>2. IInv /\ [Next]_vars => IInv' BY NextIInv
<1>. QED BY <1>1, <1>2, PTL DEF Spec

------------------------------------------------------------------------------
(* What follows.                                                           *)

\* Every reachable state is well typed, whatever the setting, the debounce and
\* the queue: each step of the cycle, the window, the writers and the requests
\* (core/state.py, db/events.py).
THEOREM IncidentTypes == Spec => []TypeOK
<1>1. IInv => TypeOK BY DEF IInv
<1>. QED BY <1>1, AlwaysIInv, PTL

\* Without an operator or a window in the way, the rows of flap_log and the
\* incidents the sensor knows of fit each other between cycles, and one outage
\* has one row, across any crashes and acknowledgements (_process_result,
\* db_load_unresolved_flap_state).
THEOREM RowsAlwaysMatch == Spec => []RowsMatch
<1>1. ASSUME IInv PROVE RowsMatch
  <2>1. CASE ~Undisturbed
      BY <2>1 DEF RowsMatch, BadHasRow, GoodHasNoRow, AtMostOneDownRow
  <2>2. CASE Undisturbed
    <3>1. TypeOK /\ DownFits /\ LevelFits /\ OneDownRow BY <1>1, <2>2 DEF IInv, Fits
    <3>2. \A d \in Dirs : Shown(d) <=> OpenRow(d) \/ d \in Settled.revived
        BY <3>1, SettledTypes DEF Shown
    <3>3. BadHasRow BY <3>1, <3>2, DirsAre DEF BadHasRow, Quiet, DownFits, LevelFits
    <3>4. GoodHasNoRow BY <3>1 DEF GoodHasNoRow, Quiet, DownFits, LevelFits
    <3>5. AtMostOneDownRow BY <3>1, SettledOneDown DEF AtMostOneDownRow
    <3>. QED BY <3>3, <3>4, <3>5 DEF RowsMatch
  <2>. QED BY <2>1, <2>2
<1>. QED BY <1>1, AlwaysIInv, PTL

\* A sensor that is up when the process dies is not down in the next one
\* (db_load_unresolved_flap_state): its last row was resolved first.
THEOREM HealthyAlwaysAfterRestart == Spec => HealthyAfterRestart
<1>1. ASSUME IInv, Undisturbed, Restart, cycle.at = "idle", mainQ = <<>>, ~down,
             "down" \notin rows.revived
      PROVE  ~down'
  <2>1. TypeOK /\ ~OpenRow("down") BY <1>1 DEF IInv, Fits, DownFits
  <2>2. Settled = rows BY <1>1, AppliedNone DEF Settled
  <2>3. ~(Open(rows, "down") > 0) BY <2>1, <2>2 DEF OpenRow
  <2>. QED BY <1>1, <2>3 DEF Restart, Unresolved
<1>2. IInv /\ [Next]_vars =>
         [(Undisturbed /\ Restart /\ cycle.at = "idle" /\ mainQ = <<>> /\ ~down
             /\ "down" \notin rows.revived) => ~down']_vars
    BY <1>1
<1>. QED BY <1>2, AlwaysIInv, PTL DEF Spec, HealthyAfterRestart

\* What takes rows from the table, or adds nothing, logs no row.
LEMMA NoMoreSettled ==
  ASSUME TypeOK, rows' \in Rows, NoMore(rows', rows), mainQ' = mainQ
  PROVE  NoMore(Settled', Settled)
<1>1. rows \in Rows /\ mainQ \in Seq(Writes) BY DEF TypeOK
<1>2. NoMore(Applied(rows', mainQ), Applied(rows, mainQ)) BY <1>1, AppliedNoMore
<1>. QED BY <1>2 DEF Settled

LEMMA ResolveNoMore ==
  ASSUME TypeOK, Quieted, NEW D \in SUBSET Dirs, Write(<<Resolve(D)>>)
  PROVE  NoMore(Settled', Settled)
<1>1. Settled \in Rows BY SettledTypes
<1>2. Settled' = Apply(Settled, Resolve(D)) BY LogIsWrite, WriteOne
<1>3. \A e \in Dirs : Apply(Settled, Resolve(D)).active[e] = IF e \in D THEN 0 ELSE Settled.active[e]
    BY <1>1, ResolveDoes
<1>4. \A e \in Dirs : Settled.active[e] \in Nat BY <1>1, RowCounts
<1>. QED BY <1>2, <1>3, <1>4 DEF NoMore

LEMMA UnwrittenNoMore ==
  ASSUME TypeOK, Settled' = Settled PROVE NoMore(Settled', Settled)
<1>1. \A e \in Dirs : Settled.active[e] \in Nat BY SettledTypes, RowCounts
<1>. QED BY <1>1 DEF NoMore

LEMMA StoppedNoMore ==
  ASSUME TypeOK, rows' = ApplyStop(rows) PROVE rows' \in Rows /\ NoMore(rows', rows)
<1>1. rows \in Rows BY DEF TypeOK
<1>2. rows' \in Rows BY <1>1, StoppedTypes
<1>3. \A e \in Dirs : rows'.active[e] = 0
  <2>1. rows'.active = Cleared(rows.active, Dirs) BY <1>1 DEF ApplyStop, Rows
  <2>. QED BY <2>1 DEF Cleared
<1>4. \A e \in Dirs : rows.active[e] \in Nat BY <1>1, RowCounts
<1>. QED BY <1>2, <1>3, <1>4 DEF NoMore

LEMMA SilentStep ==
  ASSUME IInv, Next, Silenced, ~Restart PROVE NoMore(Settled', Settled)
<1>. USE DEF IInv
<1>1. CASE UNCHANGED <<mainQ, rows>>
  <2>1. Settled' = Settled BY <1>1 DEF Settled
  <2>. QED BY <2>1, UnwrittenNoMore
<1>2. CASE GoDown
  <2>1. cycle.muted BY <1>2 DEF GoDown, DownLogged, Silenced
  <2>2. UNCHANGED <<mainQ, rows>> BY <1>2, <2>1 DEF GoDown, DownLogged, NoWrite
  <2>. QED BY <1>1, <2>2
<1>3. CASE Recover
  <2>1. CASE cycle.muted BY <1>1, <1>3, <2>1 DEF Recover, NoWrite
  <2>2. CASE ~cycle.muted
    <3>1. Write(<<Resolve({"down"})>>) /\ {"down"} \in SUBSET Dirs
        BY <1>3, <2>2, DirsAre DEF Recover
    <3>. QED BY <3>1, ResolveNoMore
  <2>. QED BY <2>1, <2>2
<1>4. CASE Raise
  <2>1. grace # "open" /\ ~cycle.muted /\ cycle.at # "idle" BY <1>4 DEF Raise, Quieted
  <2>. QED BY <2>1 DEF Silenced
<1>5. CASE Clear BY <1>5, DirsAre, ResolveNoMore DEF Clear
<1>6. CASE EmitDown \/ EmitThr
  <2>1. grace = "closed" BY <1>6 DEF EmitDown, EmitThr, Quieted
  <2>. QED BY <1>6, <2>1 DEF Silenced
<1>7. CASE MainWriter BY <1>7, MainWriterSettles, UnwrittenNoMore
<1>8. CASE LogsWriter BY <1>8, StoppedNoMore, NoMoreSettled DEF LogsWriter
<1>9. CASE StopDevice
  <2>1. CASE Queued BY <1>1, <1>9, <2>1 DEF StopDevice
  <2>2. CASE ~Queued BY <1>9, <2>2, StoppedNoMore, NoMoreSettled DEF StopDevice
  <2>. QED BY <2>1, <2>2
<1>10. ASSUME NEW d \in Dirs, AckRow(d) PROVE NoMore(Settled', Settled)
  <2>1. rows' \in Rows /\ NoMore(rows', rows) BY <1>10, AckRowDoes DEF NoMore
  <2>. QED BY <1>10, <2>1, NoMoreSettled DEF AckRow
<1>11. ASSUME NEW d \in Dirs, DismissRow(d) PROVE NoMore(Settled', Settled)
  <2>1. rows' \in Rows /\ NoMore(rows', rows) BY <1>11, DismissRowDoes DEF NoMore
  <2>. QED BY <1>11, <2>1, NoMoreSettled DEF DismissRow
<1>12. CASE CycleStep
  <2>1. ASSUME NEW r \in setting.results, BeginCycle(r) PROVE NoMore(Settled', Settled)
      BY <1>1, <2>1 DEF BeginCycle, dbVars
  <2>2. CASE StayConn BY <1>1, <2>2 DEF StayConn, NoWrite
  <2>3. CASE GoDownInGrace \/ ParkDown \/ MarkDown \/ MarkUp
      BY <1>1, <2>3 DEF GoDownInGrace, ParkDown, MarkDown, MarkUp, dbVars
  <2>4. CASE SameThreshold \/ NewThreshold \/ RaisePark \/ ParkThr
      BY <1>1, <2>4 DEF SameThreshold, NewThreshold, RaisePark, ParkThr, dbVars
  <2>. QED BY <1>2, <1>3, <1>4, <1>5, <1>12, <2>1, <2>2, <2>3, <2>4 DEF CycleStep
<1>13. CASE GraceStep
  <2>1. CASE ArmGrace \/ CloseGrace \/ TakeParked \/ FlushDown \/ FlushThr
      BY <1>1, <2>1 DEF ArmGrace, CloseGrace, TakeParked, FlushDown, FlushThr, dbVars
  <2>. QED BY <1>6, <1>13, <2>1 DEF GraceStep
<1>14. CASE Request
  <2>1. CASE AckCheck \/ AckSet \/ ToggleMute \/ StartDevice
      BY <1>1, <2>1 DEF AckCheck, AckSet, ToggleMute, StartDevice, dbVars
  <2>. QED BY <1>9, <1>10, <1>11, <1>14, <2>1 DEF Request
<1>. QED BY <1>7, <1>8, <1>12, <1>13, <1>14 DEF Next

\* Whoever mutes, parks or crashes: no cycle that found the sensor muted logs a
\* row, nor does anything inside the startup-grace window (_process_result,
\* _grace_window_open, _maybe_flush_grace).
THEOREM SilenceIsKept == Spec => SilentWhileSilenced
<1>1. ASSUME IInv, Next PROVE Silenced => ~RowLogged
  <2>. SUFFICES ASSUME Silenced, ~Restart, NEW d \in Dirs,
                       Settled'.active[d] > Settled.active[d]
                PROVE  FALSE
      BY DEF RowLogged
  <2>1. Settled'.active[d] <= Settled.active[d] BY <1>1, SilentStep DEF NoMore
  <2>2. Settled \in Rows BY <1>1, SettledTypes DEF IInv
  <2>3. Settled' \in Rows
    <3>1. rows' \in Rows /\ mainQ' \in Seq(Writes) BY <1>1, NextTypes DEF IInv, TypeOK
    <3>. QED BY <3>1, AppliedTypes DEF Settled
  <2>4. Settled.active[d] \in Nat /\ Settled'.active[d] \in Nat BY <2>2, <2>3, RowCounts
  <2>. QED BY <2>1, <2>4
<1>2. IInv /\ [Next]_vars => [Silenced => ~RowLogged]_vars BY <1>1
<1>. QED BY <1>2, AlwaysIInv, PTL DEF Spec, SilentWhileSilenced

\* A blip inside the window leaves no parked entry behind, whatever else happens
\* (_process_result drops the entry before it marks the sensor up).
THEOREM BlipsVanish == Spec => BlipVanishes
<1>1. ASSUME IInv, Next, cycle.at = "markUp", ~cycle.muted PROVE ~parked'.down
  <2>1. ~parked.down BY <1>1 DEF IInv, Quieted
  <2>2. parked' = parked \/ parked' = NoParked
    <3>1. CASE CycleStep
        BY <1>1, <3>1
        DEF CycleStep, BeginCycle, StayConn, GoDown, GoDownInGrace, ParkDown, MarkDown,
            Recover, MarkUp, SameThreshold, NewThreshold, Raise, RaisePark, ParkThr, Clear,
            graceVars
    <3>2. CASE GraceStep
        BY <3>2 DEF GraceStep, ArmGrace, CloseGrace, TakeParked, FlushDown, EmitDown, FlushThr,
                    EmitThr
    <3>3. CASE MainWriter \/ LogsWriter BY <3>3 DEF MainWriter, LogsWriter, graceVars
    <3>4. CASE Request
        BY <3>4 DEF Request, AckRow, DismissRow, AckCheck, AckSet, ToggleMute, StopDevice,
                    StartDevice, Restart, graceVars
    <3>. QED BY <1>1, <3>1, <3>2, <3>3, <3>4 DEF Next
  <2>. QED BY <2>1, <2>2 DEF NoParked
<1>2. IInv /\ [Next]_vars =>
         [(grace = "open" /\ cycle.at = "markUp" /\ ~cycle.muted /\ ~down')
            => ~parked'.down]_vars
    BY <1>1
<1>. QED BY <1>2, AlwaysIInv, PTL DEF Spec, BlipVanishes
=============================================================================
