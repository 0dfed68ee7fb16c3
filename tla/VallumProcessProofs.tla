------------------------ MODULE VallumProcessProofs -------------------------
(***************************************************************************)
(* Proofs about the Vallum process, for any observed streams, senders,     *)
(* timestamps, limits and batch sizes: what its audit trail shows of the   *)
(* streams, and what the verdicts in it mean.                              *)
(***************************************************************************)
EXTENDS VallumProcess, VectorProofs

-----------------------------------------------------------------------------
(* Entries in the order of their streams: what a read delivers.            *)

Entries == Streams \X Nat
InOrder(s) ==
  \A i, j \in DOMAIN s : i < j /\ s[i][1] = s[j][1] => s[i][2] < s[j][2]

\* entries of other streams may follow
LEMMA InOrderConcat ==
  ASSUME NEW T, NEW a \in Seq(T), NEW b \in Seq(T), InOrder(a), InOrder(b),
         \A i \in DOMAIN a : \A j \in DOMAIN b : a[i][1] # b[j][1]
  PROVE  InOrder(a \o b) /\ Range(a \o b) = Range(a) \cup Range(b)
<1> DEFINE n == Len(a)
           m == Len(b)
           s == a \o b
<1>1. /\ n \in Nat /\ m \in Nat /\ DOMAIN a = 1 .. n /\ DOMAIN b = 1 .. m
      /\ s \in Seq(T) /\ Len(s) = n + m /\ DOMAIN s = 1 .. n + m
      /\ \A i \in 1 .. n + m : s[i] = IF i <= n THEN a[i] ELSE b[i - n]
  BY LenProperties, ConcatProperties
<1> HIDE DEF n, m, s
<1>2. \A i \in 1 .. n : i \in 1 .. n + m /\ s[i] = a[i]
  BY <1>1
<1>3. \A i \in 1 .. m : n + i \in 1 .. n + m /\ s[n + i] = b[i]
  <2> TAKE i \in 1 .. m
  <2>1. n + i \in 1 .. n + m /\ ~ (n + i <= n) /\ (n + i) - n = i
    BY <1>1
  <2>2. QED BY <1>1, <2>1
<1>4. \A i \in 1 .. n + m : i \in 1 .. n \/ (i > n /\ i - n \in 1 .. m /\ s[i] = b[i - n])
  BY <1>1
<1>5. InOrder(s)
  <2> SUFFICES ASSUME NEW i \in 1 .. n + m, NEW j \in 1 .. n + m, i < j, s[i][1] = s[j][1]
               PROVE  s[i][2] < s[j][2]
    BY <1>1 DEF InOrder
  <2>1. CASE j \in 1 .. n
    <3>1. i \in 1 .. n /\ s[i] = a[i] /\ s[j] = a[j]
      BY <1>1, <1>2, <2>1
    <3>2. QED BY <1>1, <2>1, <3>1 DEF InOrder
  <2>2. CASE i \in 1 .. n /\ j > n
    <3>1. j - n \in 1 .. m /\ s[j] = b[j - n] /\ s[i] = a[i]
      BY <1>1, <1>2, <1>4, <2>2
    <3>2. QED BY ZenonT(60), <1>1, <2>2, <3>1
  <2>3. CASE i > n /\ j > n
    <3>1. i - n \in 1 .. m /\ j - n \in 1 .. m /\ s[i] = b[i - n] /\ s[j] = b[j - n]
          /\ i - n < j - n
      BY <1>1, <1>4, <2>3
    <3>2. QED BY <1>1, <3>1 DEF InOrder
  <2>4. QED BY <1>1, <1>4, <2>1, <2>2, <2>3
<1>6. Range(s) = Range(a) \cup Range(b)
  <2>1. \A x : x \in Range(s) <=> \E i \in 1 .. n + m : x = s[i]
    BY <1>1 DEF Range
  <2>2. \A x : x \in Range(a) <=> \E i \in 1 .. n : x = a[i]
    BY <1>1 DEF Range
  <2>3. \A x : x \in Range(b) <=> \E i \in 1 .. m : x = b[i]
    BY <1>1 DEF Range
  <2>4. \A x : x \in Range(s) => x \in Range(a) \/ x \in Range(b)
    BY <1>2, <1>4, <2>1, <2>2, <2>3
  <2>5. \A x : x \in Range(a) \/ x \in Range(b) => x \in Range(s)
    BY <1>2, <1>3, <2>1, <2>2, <2>3
  <2>6. QED BY <2>4, <2>5
<1>7. QED BY <1>5, <1>6 DEF s

\* sequences of entries of different streams, each in order, one after the other
LEMMA FlattenInOrder ==
  ASSUME NEW T, NEW q \in Seq(Seq(T)), q # << >>,
         \A k \in DOMAIN q : InOrder(q[k]),
         \A k, l \in DOMAIN q : k # l =>
           \A i \in DOMAIN q[k] : \A j \in DOMAIN q[l] : q[k][i][1] # q[l][j][1]
  PROVE  /\ FlattenSeq(q) \in Seq(T) /\ InOrder(FlattenSeq(q))
         /\ \A x : x \in Range(FlattenSeq(q)) <=> \E k \in DOMAIN q : x \in Range(q[k])
<1> DEFINE n == Len(q)
<1>1. PICK f \in [1 .. n -> Seq(T)] : Flattens(q, n, f) /\ FlattenSeq(q) = f[n]
  BY FlattenBuilds
<1>2. /\ n \in Nat /\ n # 0 /\ n \in 1 .. n /\ DOMAIN q = 1 .. n
      /\ \A k \in 1 .. n : q[k] \in Seq(T) /\ InOrder(q[k])
  BY LenProperties, EmptySeq, ElementOfSeq
<1>3. \A i \in 1 .. n : f[i] = IF i = 1 THEN q[i] ELSE f[i - 1] \o q[i]
  BY <1>1 DEF Flattens
<1> DEFINE Holds(j, x) == \E k \in 1 .. j : x \in Range(q[k])
           Good(j) == InOrder(f[j]) /\ \A x : x \in Range(f[j]) <=> Holds(j, x)
           S == {j \in 1 .. n : ~ Good(j)}
<1> HIDE DEF n
<1>4. S = {}
  <2>1. SUFFICES ASSUME S # {} PROVE FALSE
    OBVIOUS
  <2>2. PICK j \in S : \A i \in S : j <= i
    <3>1. S \in SUBSET Nat
      BY <1>2
    <3>2. QED BY <2>1, <3>1, LeastOf
  <2>3. j \in 1 .. n /\ ~ Good(j)
    OBVIOUS
  <2>4. CASE j = 1
    <3>1. f[1] = q[1] /\ InOrder(f[1])
      BY <1>2, <1>3, <2>3, <2>4
    <3>2. \A x : Holds(1, x) <=> x \in Range(q[1])
      OBVIOUS
    <3>3. QED BY <2>3, <2>4, <3>1, <3>2
  <2>5. CASE j # 1
    <3>1. j - 1 \in 1 .. n /\ Good(j - 1)
      <4>1. j - 1 \in 1 .. n /\ ~ (j <= j - 1)
        BY <1>2, <2>3, <2>5
      <4>2. j - 1 \notin S
        <5> HIDE DEF S
        <5>1. QED BY <2>2, <4>1
      <4>3. QED BY <4>1, <4>2
    <3> DEFINE a == f[j - 1]
               b == q[j]
    <3>2. a \in Seq(T) /\ b \in Seq(T) /\ f[j] = a \o b /\ InOrder(a) /\ InOrder(b)
      BY <1>2, <1>3, <2>3, <2>5, <3>1
    <3>3. \A i \in DOMAIN a : \A m \in DOMAIN b : a[i][1] # b[m][1]
      <4> TAKE i \in DOMAIN a
      <4> TAKE m \in DOMAIN b
      <4>1. a[i] \in Range(a)
        BY DEF Range
      <4>2. PICK k \in 1 .. j - 1 : a[i] \in Range(q[k])
        BY <3>1, <4>1
      <4>3. k \in DOMAIN q /\ j \in DOMAIN q /\ k # j
        BY <1>2, <2>3, <4>2
      <4>4. PICK p \in DOMAIN q[k] : a[i] = q[k][p]
        BY <4>2 DEF Range
      <4>5. q[k][p][1] # q[j][m][1]
        BY <4>3, <4>4
      <4>6. QED BY <4>4, <4>5
    <3>4. InOrder(f[j]) /\ Range(f[j]) = Range(a) \cup Range(b)
      <4> HIDE DEF a, b
      <4>1. InOrder(a \o b) /\ Range(a \o b) = Range(a) \cup Range(b)
        BY ONLY <3>2, <3>3, InOrderConcat
      <4>2. QED BY <3>2, <4>1
    <3>5. \A x : Holds(j, x) <=> Holds(j - 1, x) \/ x \in Range(q[j])
      <4>1. \A k : k \in 1 .. j <=> k \in 1 .. j - 1 \/ k = j
        BY <2>3, <1>2
      <4>2. QED BY <4>1
    <3>6. Good(j)
      BY <3>1, <3>4, <3>5
    <3>7. QED BY <2>3, <3>6
  <2>6. QED BY <2>4, <2>5
<1>5. Good(n) /\ f[n] \in Seq(T)
  BY <1>1, <1>2, <1>4
<1>6. QED BY <1>1, <1>2, <1>5

\* the smaller of two numbers
LEMMA MinOfTwo ==
  ASSUME NEW a \in Int, NEW b \in Int
  PROVE  Min({a, b}) = IF a <= b THEN a ELSE b
<1> DEFINE m == IF a <= b THEN a ELSE b
           S == {a, b}
<1>1. m \in S /\ \A y \in S : m <= y
  OBVIOUS
<1>2. \A x \in S : (\A y \in S : x <= y) => x = m
  OBVIOUS
<1>3. Min(S) = m
  <2> HIDE DEF S, m
  <2>1. QED BY <1>1, <1>2 DEF Min
<1>4. QED BY <1>3

\* the streams observed: each once, the alerts last
LEMMA ObservedIs ==
  ASSUME ProcessAssumption
  PROVE  /\ Observed \in Seq(Streams) /\ Observed # << >> /\ Streams # {}
         /\ \A s : s \in Streams <=> \E k \in DOMAIN Observed : Observed[k] = s
         /\ \A k, l \in DOMAIN Observed : k # l => Observed[k] # Observed[l]
         /\ Alerts \in Streams /\ Range(TaskStreams) \subseteq Streams
<1> DEFINE n == Len(TaskStreams)
<1>1. /\ TaskStreams \in Seq(Range(TaskStreams)) /\ IsInjective(TaskStreams)
      /\ Alerts \notin Range(TaskStreams)
  BY DEF ProcessAssumption, Alerts
<1>2. TaskStreams \in Seq(Streams) /\ Alerts \in Streams /\ Range(TaskStreams) \subseteq Streams
  <2>1. Range(TaskStreams) \subseteq Streams /\ Alerts \in Streams
    BY DEF Streams
  <2>2. n \in Nat /\ TaskStreams \in [1 .. n -> Range(TaskStreams)]
    BY <1>1, LenProperties
  <2> HIDE DEF n
  <2>3. TaskStreams \in [1 .. n -> Streams]
    BY <2>1, <2>2
  <2>4. QED BY <2>1, <2>2, <2>3, SeqDef
<1>3. /\ n \in Nat /\ DOMAIN TaskStreams = 1 .. n
      /\ Observed \in Seq(Streams) /\ Len(Observed) = n + 1
      /\ Observed[n + 1] = Alerts
      /\ \A k \in 1 .. n : Observed[k] = TaskStreams[k]
  BY <1>2, LenProperties, AppendProperties DEF Observed
<1> HIDE DEF n
<1>4. DOMAIN Observed = 1 .. n + 1 /\ Observed # << >>
  BY <1>3, LenProperties, EmptySeq
<1>5. \A k \in 1 .. n + 1 : k \in 1 .. n \/ k = n + 1
  BY <1>3
<1>6. \A s : s \in Range(TaskStreams) <=> \E k \in 1 .. n : Observed[k] = s
  BY <1>3 DEF Range
<1>7. ASSUME NEW s PROVE s \in Streams <=> \E k \in DOMAIN Observed : Observed[k] = s
  <2>1. s \in Streams <=> s \in Range(TaskStreams) \/ s = Alerts
    BY DEF Streams
  <2>2. n + 1 \in DOMAIN Observed /\ \A k \in 1 .. n : k \in DOMAIN Observed
    BY <1>3, <1>4
  <2>3. QED BY <1>3, <1>4, <1>5, <1>6, <2>1, <2>2
<1>8. ASSUME NEW k \in DOMAIN Observed, NEW l \in DOMAIN Observed, k # l
      PROVE  Observed[k] # Observed[l]
  <2>1. ASSUME k \in 1 .. n, l \in 1 .. n PROVE Observed[k] # Observed[l]
    BY <1>1, <1>3, <1>8, <2>1 DEF IsInjective
  <2>2. \A i \in 1 .. n : Observed[i] # Alerts
    BY <1>1, <1>6
  <2>3. QED BY <1>3, <1>4, <1>5, <1>8, <2>1, <2>2
<1>9. QED BY <1>2, <1>3, <1>4, <1>7, <1>8

\* what a stream has for the next read
LEMMA FreshIs ==
  ASSUME ProcessAssumption, NEW s \in Streams, given[s] \in Nat, Len(log[s]) \in Nat,
         given[s] <= Len(log[s])
  PROVE  /\ Fresh(s) \in Seq(Entries) /\ Len(Fresh(s)) \in Nat
         /\ given[s] + Len(Fresh(s)) <= Len(log[s])
         /\ \A i \in DOMAIN Fresh(s) : Fresh(s)[i][1] = s
         /\ InOrder(Fresh(s))
         /\ \A x : x \in Range(Fresh(s)) <=>
              \E i \in given[s] + 1 .. given[s] + Len(Fresh(s)) : x = <<s, i>>
<1> DEFINE g == given[s]
           n == Len(log[s])
           m == Min({Count, n - g})
           f == Fresh(s)
<1>1. m \in Nat /\ g + m <= n /\ g \in Nat /\ n \in Nat
  <2>1. Count \in Nat /\ g \in Nat /\ n \in Nat /\ g <= n /\ Count \in Int /\ n - g \in Int
    BY DEF ProcessAssumption
  <2>2. m = IF Count <= n - g THEN Count ELSE n - g
    BY <2>1, MinOfTwo
  <2> HIDE DEF m, g, n
  <2>3. QED BY <2>1, <2>2
<1>2. f = [i \in 1 .. m |-> <<s, g + i>>]
  BY DEF Fresh
<1> HIDE DEF m, n, f
<1>3. f \in [1 .. m -> Entries] /\ \A i \in 1 .. m : f[i] = <<s, g + i>>
  <2>1. \A i \in 1 .. m : <<s, g + i>> \in Entries
    BY <1>1 DEF Entries
  <2> HIDE DEF g
  <2>2. QED BY <1>2, <2>1
<1>4. f \in Seq(Entries) /\ Len(f) = m /\ DOMAIN f = 1 .. m
  BY <1>1, <1>3, SeqDef, LenProperties
<1> HIDE DEF g
<1>5. InOrder(f)
  <2>1. \A i, j \in 1 .. m : i < j => g + i < g + j
    BY <1>1
  <2>2. \A i \in 1 .. m : f[i][2] = g + i
    BY <1>3
  <2>3. QED BY <1>4, <2>1, <2>2 DEF InOrder
<1>6. ASSUME NEW x
      PROVE  x \in Range(f) <=> \E i \in g + 1 .. g + m : x = <<s, i>>
  <2>1. x \in Range(f) <=> \E i \in 1 .. m : x = <<s, g + i>>
    BY <1>3, <1>4 DEF Range
  <2>2. \A i \in 1 .. m : g + i \in g + 1 .. g + m
    BY <1>1
  <2>3. \A i \in g + 1 .. g + m : i - g \in 1 .. m /\ g + (i - g) = i
    BY <1>1
  <2>4. QED BY <2>1, <2>2, <2>3
<1>7. QED BY <1>1, <1>3, <1>4, <1>5, <1>6 DEF f, g, n

\* what a read delivers: every stream's next entries, in their order
LEMMA DeliveredIs ==
  ASSUME ProcessAssumption,
         \A s \in Streams : given[s] \in Nat /\ Len(log[s]) \in Nat /\ given[s] <= Len(log[s])
  PROVE  /\ Delivered \in Seq(Entries) /\ InOrder(Delivered)
         /\ \A s \in Streams : \A i :
              <<s, i>> \in Range(Delivered) <=>
                i \in given[s] + 1 .. given[s] + Len(Fresh(s))
<1> DEFINE q == [k \in DOMAIN Observed |-> Fresh(Observed[k])]
           n == Len(Observed)
<1>1. /\ Observed \in Seq(Streams) /\ n \in Nat /\ n # 0 /\ DOMAIN Observed = 1 .. n
      /\ \A k \in 1 .. n : Observed[k] \in Streams
  BY ObservedIs, LenProperties, EmptySeq, ElementOfSeq
<1>2. /\ \A s : s \in Streams <=> \E k \in 1 .. n : Observed[k] = s
      /\ \A k, l \in 1 .. n : k # l => Observed[k] # Observed[l]
  BY <1>1, ObservedIs
<1>3. q \in [1 .. n -> Seq(Entries)] /\ \A k \in 1 .. n : q[k] = Fresh(Observed[k])
  <2>1. \A k \in 1 .. n : Fresh(Observed[k]) \in Seq(Entries)
    BY <1>1, FreshIs
  <2> HIDE DEF n
  <2>2. QED BY <1>1, <2>1
<1> HIDE DEF q, n
<1>4. q \in Seq(Seq(Entries)) /\ DOMAIN q = 1 .. n /\ q # << >>
  <2>1. q \in Seq(Seq(Entries)) /\ DOMAIN q = 1 .. n
    BY <1>1, <1>3, SeqDef
  <2>2. Len(q) = n
    BY <1>1, <2>1, LenProperties
  <2>3. Len(<< >>) = 0
    BY EmptySeq
  <2>4. QED BY <1>1, <2>1, <2>2, <2>3
<1>5. \A k \in DOMAIN q : InOrder(q[k]) /\ \A i \in DOMAIN q[k] : q[k][i][1] = Observed[k]
  BY <1>1, <1>3, <1>4, FreshIs
<1>6. \A k, l \in DOMAIN q : k # l =>
        \A i \in DOMAIN q[k] : \A j \in DOMAIN q[l] : q[k][i][1] # q[l][j][1]
  <2> TAKE k, l \in DOMAIN q
  <2> HAVE k # l
  <2> TAKE i \in DOMAIN q[k]
  <2> TAKE j \in DOMAIN q[l]
  <2>1. q[k][i][1] = Observed[k] /\ q[l][j][1] = Observed[l]
    BY <1>5
  <2>2. Observed[k] # Observed[l]
    BY <1>2, <1>4
  <2>3. QED BY <2>1, <2>2
<1>7. Delivered = FlattenSeq(q)
  BY DEF Delivered, q
<1>8. /\ Delivered \in Seq(Entries) /\ InOrder(Delivered)
      /\ \A x : x \in Range(Delivered) <=> \E k \in 1 .. n : x \in Range(Fresh(Observed[k]))
  <2>1. \A k \in DOMAIN q : InOrder(q[k])
    BY <1>5
  <2>2. /\ FlattenSeq(q) \in Seq(Entries) /\ InOrder(FlattenSeq(q))
        /\ \A x : x \in Range(FlattenSeq(q)) <=> \E k \in DOMAIN q : x \in Range(q[k])
    BY ONLY <1>4, <1>6, <2>1, FlattenInOrder
  <2>3. QED BY <1>3, <1>4, <1>7, <2>2
<1>9. ASSUME NEW s \in Streams, NEW i
      PROVE  <<s, i>> \in Range(Delivered) <=> i \in given[s] + 1 .. given[s] + Len(Fresh(s))
  <2>1. \A t \in Streams : <<s, i>> \in Range(Fresh(t))
          <=> t = s /\ i \in given[s] + 1 .. given[s] + Len(Fresh(s))
    <3> TAKE t \in Streams
    <3>1. <<s, i>> \in Range(Fresh(t))
            <=> \E j \in given[t] + 1 .. given[t] + Len(Fresh(t)) : <<s, i>> = <<t, j>>
      BY FreshIs
    <3>2. QED BY <3>1
  <2>2. QED BY <1>1, <1>2, <1>8, <2>1
<1>10. QED BY <1>8, <1>9

-----------------------------------------------------------------------------
(* What the trail tr and the batch b in hand show of the streams, with g   *)
(* delivered to the group, p pending, au recorded ever and fa faults.      *)

Shown == [entry : Entries, violation : BOOLEAN]
OrderOK(g, p, b, st, tr, au, fa) ==
  /\ g \in [Streams -> Nat] /\ fa \in Nat /\ b \in Seq(Entries) /\ tr \in Seq(Shown)
  /\ \A i \in DOMAIN b : b[i][2] \in 1 .. g[b[i][1]]
  /\ \A i \in DOMAIN tr : tr[i].entry[2] \in 1 .. g[tr[i].entry[1]]
  /\ InOrder(b)
  /\ \A i, j \in DOMAIN tr :
       (i < j /\ tr[i].entry[1] = tr[j].entry[1]) => tr[i].entry[2] < tr[j].entry[2]
  /\ \A i \in DOMAIN tr : \A j \in DOMAIN b : tr[i].entry[1] = b[j][1] =>
       tr[i].entry[2] < b[j][2] \/ (st = "ack" /\ j = 1)
  /\ st # "observe" => b # << >>
  /\ st = "ack" => b[1] \in au
  /\ \A s \in Streams : \A i \in 1 .. g[s] : <<s, i>> \in p \cup au
  /\ fa = 0 => p = Range(b)

\* a read takes up what follows, and so does one whose reply is lost
LEMMA OrderRead ==
  ASSUME NEW g, NEW p, NEW tr, NEW au, NEW fa,
         OrderOK(g, p, << >>, "observe", tr, au, fa),
         NEW h \in [Streams -> Nat], \A s \in Streams : g[s] <= h[s],
         NEW d \in Seq(Entries), InOrder(d),
         \A s \in Streams : \A i : <<s, i>> \in Range(d) <=> i \in g[s] + 1 .. h[s]
  PROVE  /\ OrderOK(h, p \cup Range(d), d, "observe", tr, au, fa)
         /\ OrderOK(h, p \cup Range(d), << >>, "observe", tr, au, fa + 1)
<1>1. /\ g \in [Streams -> Nat] /\ fa \in Nat /\ tr \in Seq(Shown)
      /\ \A i \in DOMAIN tr : tr[i].entry[2] \in 1 .. g[tr[i].entry[1]]
      /\ \A i, j \in DOMAIN tr :
           (i < j /\ tr[i].entry[1] = tr[j].entry[1]) => tr[i].entry[2] < tr[j].entry[2]
      /\ \A s \in Streams : \A i \in 1 .. g[s] : <<s, i>> \in p \cup au
      /\ fa = 0 => p = Range(<< >>)
  BY DEF OrderOK
<1>2. Range(<< >>) = {} /\ << >> \in Seq(Entries) /\ DOMAIN << >> = {}
  BY EmptySeq DEF Range
<1>3. \A i \in DOMAIN tr : tr[i].entry \in Entries /\ tr[i].entry[1] \in Streams
        /\ tr[i].entry[2] \in 1 .. h[tr[i].entry[1]]
  <2> TAKE i \in DOMAIN tr
  <2>1. tr[i] \in Shown
    BY <1>1, ElementOfSeq, LenProperties
  <2>2. tr[i].entry \in Entries /\ tr[i].entry[1] \in Streams
    BY <2>1 DEF Shown, Entries
  <2>3. tr[i].entry[2] \in 1 .. g[tr[i].entry[1]]
    BY <1>1
  <2> DEFINE s == tr[i].entry[1]
  <2>4. g[s] \in Nat /\ h[s] \in Nat /\ g[s] <= h[s]
    BY <1>1, <2>2
  <2>5. tr[i].entry[2] \in 1 .. h[s]
    BY <2>3, <2>4
  <2>6. QED BY <2>2, <2>5
<1>4. \A j \in DOMAIN d : d[j][1] \in Streams /\ d[j][2] \in g[d[j][1]] + 1 .. h[d[j][1]]
  <2> TAKE j \in DOMAIN d
  <2>1. d[j] \in Entries /\ d[j] \in Range(d)
    BY ElementOfSeq, LenProperties DEF Range
  <2>2. PICK s \in Streams, i \in Nat : d[j] = <<s, i>>
    BY <2>1 DEF Entries
  <2>3. QED BY <2>1, <2>2
<1>5. \A j \in DOMAIN d : d[j][2] \in 1 .. h[d[j][1]]
  <2> TAKE j \in DOMAIN d
  <2> DEFINE s == d[j][1]
             x == d[j][2]
  <2>1. g[s] \in Nat /\ h[s] \in Nat /\ x \in g[s] + 1 .. h[s]
    BY <1>1, <1>4
  <2> HIDE DEF s, x
  <2>2. x \in 1 .. h[s]
    BY <2>1
  <2>3. QED BY <2>2 DEF s, x
<1>6. \A i \in DOMAIN tr : \A j \in DOMAIN d : tr[i].entry[1] = d[j][1] =>
        tr[i].entry[2] < d[j][2]
  <2> TAKE i \in DOMAIN tr
  <2> TAKE j \in DOMAIN d
  <2> HAVE tr[i].entry[1] = d[j][1]
  <2> DEFINE s == d[j][1]
             x == d[j][2]
             y == tr[i].entry[2]
  <2>1. s \in Streams /\ g[s] \in Nat /\ h[s] \in Nat /\ x \in g[s] + 1 .. h[s] /\ y \in 1 .. g[s]
    BY <1>1, <1>4
  <2> HIDE DEF s, x, y
  <2>2. y < x
    BY <2>1
  <2>3. QED BY <2>2 DEF x, y
<1>7. \A s \in Streams : \A i \in 1 .. h[s] : <<s, i>> \in (p \cup Range(d)) \cup au
  <2> TAKE s \in Streams
  <2> TAKE i \in 1 .. h[s]
  <2>1. g[s] \in Nat /\ h[s] \in Nat
    BY <1>1
  <2>2. i \in 1 .. g[s] \/ i \in g[s] + 1 .. h[s]
    BY <2>1
  <2>3. QED BY <1>1, <2>2
<1>8. fa + 1 \in Nat /\ fa + 1 # 0
  BY <1>1
<1>9. InOrder(<< >>)
  BY <1>2 DEF InOrder
<1>10. OrderOK(h, p \cup Range(d), d, "observe", tr, au, fa)
  BY <1>1, <1>2, <1>3, <1>5, <1>6, <1>7 DEF OrderOK
<1>11. OrderOK(h, p \cup Range(d), << >>, "observe", tr, au, fa + 1)
  BY <1>1, <1>2, <1>3, <1>7, <1>8, <1>9 DEF OrderOK
<1>12. QED BY <1>10, <1>11

\* the entry in hand is observed, and its alert published or not
LEMMA OrderObserve ==
  ASSUME NEW g, NEW p, NEW b, NEW st, NEW tr, NEW au, NEW fa,
         OrderOK(g, p, b, st, tr, au, fa), b # << >>, st # "ack",
         NEW su \in {"publish", "record"}, NEW fb \in Nat, fb = 0 => fa = 0
  PROVE  OrderOK(g, p, b, su, tr, au, fb)
BY DEF OrderOK

\* the first entry in hand is recorded
LEMMA OrderRecord ==
  ASSUME NEW g, NEW p, NEW b, NEW tr, NEW au, NEW fa,
         OrderOK(g, p, b, "record", tr, au, fa), NEW v \in BOOLEAN
  PROVE  OrderOK(g, p, b, "ack", Append(tr, [entry |-> b[1], violation |-> v]),
                 au \cup {b[1]}, fa)
<1> DEFINE n == Len(tr)
           r == [entry |-> b[1], violation |-> v]
           u == Append(tr, r)
<1>1. /\ g \in [Streams -> Nat] /\ fa \in Nat /\ b \in Seq(Entries) /\ tr \in Seq(Shown)
      /\ \A i \in DOMAIN b : b[i][2] \in 1 .. g[b[i][1]]
      /\ \A i \in DOMAIN tr : tr[i].entry[2] \in 1 .. g[tr[i].entry[1]]
      /\ InOrder(b)
      /\ \A i, j \in DOMAIN tr :
           (i < j /\ tr[i].entry[1] = tr[j].entry[1]) => tr[i].entry[2] < tr[j].entry[2]
      /\ \A i \in DOMAIN tr : \A j \in DOMAIN b : tr[i].entry[1] = b[j][1] =>
           tr[i].entry[2] < b[j][2]
      /\ b # << >>
      /\ \A s \in Streams : \A i \in 1 .. g[s] : <<s, i>> \in p \cup au
      /\ fa = 0 => p = Range(b)
  BY DEF OrderOK
<1>2. DOMAIN b = 1 .. Len(b) /\ Len(b) \in Nat /\ 1 \in DOMAIN b /\ b[1] \in Entries
  BY <1>1, LenProperties, EmptySeq, ElementOfSeq
<1>3. r \in Shown /\ r.entry = b[1]
  BY <1>2 DEF Shown
<1> HIDE DEF r
<1>4. /\ n \in Nat /\ DOMAIN tr = 1 .. n /\ u \in Seq(Shown) /\ DOMAIN u = 1 .. n + 1
      /\ u[n + 1] = r /\ \A i \in 1 .. n : u[i] = tr[i]
  BY <1>1, <1>3, AppendProperties, LenProperties
<1> HIDE DEF n, u
<1>5. \A i \in 1 .. n + 1 : (i \in 1 .. n /\ i < n + 1) \/ i = n + 1
  BY <1>4
<1>6. \A i \in DOMAIN u : u[i].entry[2] \in 1 .. g[u[i].entry[1]]
  BY <1>1, <1>2, <1>3, <1>4, <1>5
<1>7. ASSUME NEW i \in DOMAIN u, NEW j \in DOMAIN u, i < j, u[i].entry[1] = u[j].entry[1]
      PROVE  u[i].entry[2] < u[j].entry[2]
  <2>1. i \in 1 .. n
    BY <1>4, <1>7
  <2>2. CASE j \in 1 .. n
    BY <1>1, <1>4, <1>7, <2>1, <2>2
  <2>3. CASE j = n + 1
    <3>1. u[i] = tr[i] /\ u[j].entry = b[1] /\ tr[i].entry[1] = b[1][1] /\ i \in DOMAIN tr
      BY <1>3, <1>4, <1>7, <2>1, <2>3
    <3>2. tr[i].entry[2] < b[1][2]
      BY <1>1, <1>2, <3>1
    <3>3. QED BY <3>1, <3>2
  <2>4. QED BY <1>4, <1>5, <2>2, <2>3
<1>8. ASSUME NEW i \in DOMAIN u, NEW j \in DOMAIN b, u[i].entry[1] = b[j][1], j # 1
      PROVE  u[i].entry[2] < b[j][2]
  <2>1. CASE i \in 1 .. n
    BY <1>1, <1>4, <1>8, <2>1
  <2>2. CASE i = n + 1
    <3>1. u[i].entry = b[1] /\ b[1][1] = b[j][1] /\ 1 < j
      BY <1>2, <1>3, <1>4, <1>8, <2>2
    <3>2. QED BY <1>1, <1>2, <3>1 DEF InOrder
  <2>3. QED BY <1>4, <1>5, <2>1, <2>2
<1>9. \A s \in Streams : \A i \in 1 .. g[s] : <<s, i>> \in p \cup (au \cup {b[1]})
  BY <1>1
<1>10. OrderOK(g, p, b, "ack", u, au \cup {b[1]}, fa)
  BY <1>1, <1>4, <1>6, <1>7, <1>8, <1>9 DEF OrderOK
<1>11. QED BY <1>10 DEF u, r

\* the first entry in hand is acknowledged, or an error keeps it pending
LEMMA OrderAck ==
  ASSUME NEW g, NEW p, NEW b, NEW tr, NEW au, NEW fa, OrderOK(g, p, b, "ack", tr, au, fa)
  PROVE  /\ OrderOK(g, p \ {b[1]}, Tail(b), "observe", tr, au, fa)
         /\ OrderOK(g, p, Tail(b), "observe", tr, au, fa + 1)
<1> DEFINE n == Len(b)
           c == Tail(b)
<1>1. /\ g \in [Streams -> Nat] /\ fa \in Nat /\ b \in Seq(Entries) /\ tr \in Seq(Shown)
      /\ \A i \in DOMAIN b : b[i][2] \in 1 .. g[b[i][1]]
      /\ \A i \in DOMAIN tr : tr[i].entry[2] \in 1 .. g[tr[i].entry[1]]
      /\ InOrder(b)
      /\ \A i, j \in DOMAIN tr :
           (i < j /\ tr[i].entry[1] = tr[j].entry[1]) => tr[i].entry[2] < tr[j].entry[2]
      /\ \A i \in DOMAIN tr : \A j \in DOMAIN b : tr[i].entry[1] = b[j][1] =>
           tr[i].entry[2] < b[j][2] \/ j = 1
      /\ b # << >> /\ b[1] \in au
      /\ \A s \in Streams : \A i \in 1 .. g[s] : <<s, i>> \in p \cup au
      /\ fa = 0 => p = Range(b)
  BY DEF OrderOK
<1>2. /\ n \in Nat /\ n # 0 /\ DOMAIN b = 1 .. n
      /\ c \in Seq(Entries) /\ Len(c) = n - 1 /\ DOMAIN c = 1 .. n - 1
      /\ \A i \in 1 .. n - 1 : c[i] = b[i + 1]
  BY <1>1, LenProperties, EmptySeq, HeadTailProperties
<1> HIDE DEF n, c
<1>3. \A i \in 1 .. n - 1 : i + 1 \in 1 .. n /\ i + 1 # 1
  BY <1>2
<1>4. \A i \in DOMAIN c : c[i][2] \in 1 .. g[c[i][1]]
  BY <1>1, <1>2, <1>3
<1>5. InOrder(c)
  <2> SUFFICES ASSUME NEW i \in 1 .. n - 1, NEW j \in 1 .. n - 1, i < j, c[i][1] = c[j][1]
               PROVE  c[i][2] < c[j][2]
    BY <1>2 DEF InOrder
  <2>1. i + 1 < j + 1 /\ c[i] = b[i + 1] /\ c[j] = b[j + 1]
    BY <1>2
  <2>2. QED BY ZenonT(60), <1>1, <1>2, <1>3, <2>1 DEF InOrder
<1>6. \A i \in DOMAIN tr : \A j \in DOMAIN c : tr[i].entry[1] = c[j][1] =>
        tr[i].entry[2] < c[j][2]
  BY ZenonT(60), <1>1, <1>2, <1>3
<1>7. Range(c) = Range(b) \ {b[1]}
  <2>1. ASSUME NEW i \in 1 .. n, i # 1 PROVE b[i] # b[1] /\ \E j \in 1 .. n - 1 : c[j] = b[i]
    <3>1. 1 \in 1 .. n /\ 1 < i /\ i - 1 \in 1 .. n - 1 /\ (i - 1) + 1 = i
      BY <1>2, <2>1
    <3>2. b[i] \in Entries /\ b[1] \in Entries
      BY <1>1, <1>2, <3>1, ElementOfSeq
    <3>3. b[1][1] = b[i][1] => b[1][2] < b[i][2]
      BY <1>1, <1>2, <3>1 DEF InOrder
    <3>4. b[i] # b[1]
      <4>1. b[i][2] \in Nat
        BY <3>2 DEF Entries
      <4>2. QED BY <3>3, <4>1
    <3>5. QED BY <1>2, <3>1, <3>4
  <2>2. \A x : x \in Range(b) <=> \E i \in 1 .. n : x = b[i]
    BY <1>2 DEF Range
  <2>3. \A x : x \in Range(c) <=> \E i \in 1 .. n - 1 : x = c[i]
    BY <1>2 DEF Range
  <2>4. \A x : x \in Range(c) => x \in Range(b) \ {b[1]}
    BY <1>2, <1>3, <2>1, <2>2, <2>3
  <2>5. \A x : x \in Range(b) \ {b[1]} => x \in Range(c)
    BY <2>1, <2>2, <2>3
  <2>6. QED BY <2>4, <2>5
<1>8. \A s \in Streams : \A i \in 1 .. g[s] : <<s, i>> \in (p \ {b[1]}) \cup au
  BY <1>1
<1>9. fa + 1 \in Nat /\ fa + 1 # 0
  BY <1>1
<1>10. OrderOK(g, p \ {b[1]}, c, "observe", tr, au, fa)
  BY <1>1, <1>2, <1>4, <1>5, <1>6, <1>7, <1>8 DEF OrderOK
<1>11. OrderOK(g, p, c, "observe", tr, au, fa + 1)
  BY <1>1, <1>2, <1>4, <1>5, <1>6, <1>9 DEF OrderOK
<1>12. QED BY <1>10, <1>11 DEF c

\* a crash forgets the trail and the batch
LEMMA OrderCrash ==
  ASSUME NEW g, NEW p, NEW b, NEW st, NEW tr, NEW au, NEW fa, OrderOK(g, p, b, st, tr, au, fa)
  PROVE  OrderOK(g, p, << >>, "observe", << >>, au, fa + 1)
<1>1. /\ << >> \in Seq(Entries) /\ << >> \in Seq(Shown) /\ DOMAIN << >> = {}
      /\ InOrder(<< >>)
  BY EmptySeq DEF InOrder
<1>2. fa + 1 \in Nat /\ fa + 1 # 0 /\ g \in [Streams -> Nat]
      /\ \A s \in Streams : \A i \in 1 .. g[s] : <<s, i>> \in p \cup au
  BY DEF OrderOK
<1>3. QED BY <1>1, <1>2 DEF OrderOK

-----------------------------------------------------------------------------
(* RateCounter: what record_action keeps, and what is counted later.       *)

\* a sequence over a set is one over a larger set
LEMMA SeqOfMore ==
  ASSUME NEW S, NEW T, S \subseteq T, NEW s \in Seq(S)
  PROVE  s \in Seq(T)
<1> DEFINE n == Len(s)
<1>1. n \in Nat /\ s \in [1 .. n -> S]
  BY LenProperties
<1> HIDE DEF n
<1>2. s \in [1 .. n -> T]
  BY <1>1
<1>3. QED BY <1>1, <1>2, SeqDef

\* a later cutoff cuts off as much, and what is after it is in the window
LEMMA CutoffIs ==
  ASSUME ProcessAssumption, NEW t \in Nat
  PROVE  /\ Cutoff(t) \in Nat
         /\ \A u \in Nat : t <= u => Cutoff(t) <= Cutoff(u)
         /\ \A x \in Nat : x > Cutoff(t) <=> x + RateWindow > t /\ x > 0
<1>1. RateWindow \in Nat /\ RateWindow > 0
  BY DEF ProcessAssumption
<1> DEFINE w == RateWindow
<1> HIDE DEF w
<1>2. w \in Nat /\ w > 0
  BY <1>1 DEF w
<1>3. \A x \in Nat : Cutoff(x) = IF x > w THEN x - w ELSE 0
  BY DEF Cutoff, w
<1>4. \A x \in Nat : Cutoff(x) \in Nat
  BY <1>2, <1>3
<1>5. \A u \in Nat : t <= u => Cutoff(t) <= Cutoff(u)
  BY <1>2, <1>3
<1>6. \A x \in Nat : x > Cutoff(t) <=> x + w > t /\ x > 0
  BY <1>2, <1>3
<1>7. QED BY <1>4, <1>5, <1>6 DEF w

\* what is counted of a list of timestamps
LEMMA CountIsNat ==
  ASSUME NEW c \in Seq(Nat), NEW t
  PROVE  /\ Len(c) \in Nat /\ DOMAIN c = 1 .. Len(c)
         /\ IsFiniteSet({i \in DOMAIN c : c[i] > Cutoff(t)}) /\ CountAt(c, t) \in Nat
<1>1. Len(c) \in Nat /\ DOMAIN c = 1 .. Len(c)
  BY LenProperties
<1>2. IsFiniteSet(1 .. Len(c))
  BY <1>1, FS_Interval
<1>3. IsFiniteSet({i \in DOMAIN c : c[i] > Cutoff(t)})
  BY <1>1, <1>2, FS_Subset
<1>4. QED BY <1>1, <1>3, FS_CardinalityType DEF CountAt

\* record_action drops nothing that a later count would see, and adds its own
LEMMA RecordActionCounts ==
  ASSUME ProcessAssumption, NEW T, T \subseteq Nat, NEW c \in Seq(T), NEW t \in T
  PROVE  /\ RecordAction(c, t) \in Seq(T)
         /\ \A u \in Nat : t <= u =>
              CountAt(RecordAction(c, t), u)
                = CountAt(c, u) + (IF t > Cutoff(u) THEN 1 ELSE 0)
<1> DEFINE n == Len(c)
           S == {i \in DOMAIN c : c[i] > Cutoff(t)} \cup {n + 1}
           f == Min(S)
           k == SubSeq(c, f, n)
           r == Append(k, t)
<1>1. n \in Nat /\ DOMAIN c = 1 .. n /\ \A i \in 1 .. n : c[i] \in T /\ c[i] \in Nat
  BY LenProperties, ElementOfSeq
<1>2. f \in S /\ \A i \in S : f <= i
  <2>1. S \in SUBSET Nat /\ S # {}
    BY <1>1
  <2> HIDE DEF S
  <2>2. \E i \in S : \A j \in S : i <= j
    BY <2>1, LeastOf
  <2>3. QED BY <2>2 DEF Min
<1>3. f \in 1 .. n + 1
  BY <1>1, <1>2
<1> HIDE DEF f, n
<1>4. /\ k \in Seq(T) /\ Len(k) = n - f + 1
      /\ \A i \in 1 .. n - f + 1 : k[i] = c[f + i - 1]
  <2>1. f \in Int /\ n \in Int /\ f <= n + 1 /\ \A i \in f .. n : c[i] \in T
    BY <1>1, <1>3
  <2>2. /\ k \in Seq(T) /\ Len(k) = IF f <= n THEN n - f + 1 ELSE 0
        /\ \A i \in 1 .. n - f + 1 : k[i] = c[f + i - 1]
    BY <2>1, SubSeqProperties
  <2>3. (IF f <= n THEN n - f + 1 ELSE 0) = n - f + 1
    BY <2>1
  <2>4. QED BY <2>2, <2>3
<1> HIDE DEF k
<1>5. DOMAIN k = 1 .. Len(k) /\ Len(k) \in Nat /\ Len(k) = n - f + 1
  BY <1>4, LenProperties
<1>6. /\ r \in Seq(T) /\ DOMAIN r = 1 .. Len(k) + 1 /\ r[Len(k) + 1] = t
      /\ \A i \in 1 .. Len(k) : r[i] = k[i]
  BY <1>4, <1>5, AppendProperties, LenProperties
<1> HIDE DEF r
<1>7. ASSUME NEW u \in Nat, t <= u
      PROVE  CountAt(r, u) = CountAt(c, u) + (IF t > Cutoff(u) THEN 1 ELSE 0)
  <2> DEFINE A == {i \in DOMAIN c : c[i] > Cutoff(u)}
             B == {i \in DOMAIN k : k[i] > Cutoff(u)}
             D == {i \in DOMAIN r : r[i] > Cutoff(u)}
             m == Len(k)
  <2>1. Cutoff(t) \in Nat /\ Cutoff(u) \in Nat /\ Cutoff(t) <= Cutoff(u)
    BY <1>7, CutoffIs
  <2>2. c \in Seq(Nat) /\ k \in Seq(Nat)
    BY <1>4, SeqOfMore
  <2>3. IsFiniteSet(A) /\ IsFiniteSet(B) /\ CountAt(c, u) = Cardinality(A)
        /\ CountAt(r, u) = Cardinality(D)
    BY <2>2, CountIsNat DEF CountAt
  <2>4. \A i \in A : f <= i /\ i \in f .. n
    <3>1. A \subseteq S
      BY <1>1, <2>1
    <3>2. QED BY <1>1, <1>2, <1>3, <3>1
  <2> DEFINE h == [i \in B |-> f + i - 1]
  <2>5. h \in Bijection(B, A)
    <3>1. \A i \in B : f + i - 1 \in A
      <4> TAKE i \in B
      <4>1. i \in 1 .. m /\ k[i] > Cutoff(u) /\ k[i] = c[f + i - 1]
        BY <1>4, <1>5
      <4>2. f + i - 1 \in 1 .. n
        BY <1>1, <1>3, <1>5, <4>1
      <4>3. QED BY <1>1, <4>1, <4>2
    <3>2. \A i, j \in B : f + i - 1 = f + j - 1 => i = j
      BY <1>3, <1>5
    <3>3. \A j \in A : \E i \in B : j = f + i - 1
      <4> TAKE j \in A
      <4> DEFINE i == j - f + 1
      <4>1. j \in f .. n /\ c[j] > Cutoff(u)
        BY <2>4
      <4>2. i \in 1 .. m /\ f + i - 1 = j
        BY <1>1, <1>3, <1>5, <4>1
      <4>3. k[i] = c[j]
        BY <1>4, <1>5, <4>2
      <4>4. i \in B
        BY <1>5, <4>1, <4>2, <4>3
      <4>5. QED BY <4>2, <4>4
    <3> HIDE DEF A, B
    <3>4. QED BY <3>1, <3>2, <3>3 DEF Bijection, Injection, Surjection, IsInjective
  <2>6. Cardinality(B) = Cardinality(A) /\ Cardinality(A) \in Nat
    <3> HIDE DEF A, B, h
    <3>1. ExistsBijection(B, A)
      BY <2>5 DEF ExistsBijection
    <3>2. Cardinality(A) \in Nat
      BY <2>3, FS_CardinalityType
    <3>3. Cardinality(B) = Cardinality(A)
      BY <2>3, <3>1, FS_Bijection
    <3>4. QED BY <3>2, <3>3
  <2>7. \A i \in DOMAIN r : i \in DOMAIN k \/ i = m + 1
    BY <1>5, <1>6
  <2>8. m + 1 \notin DOMAIN k /\ m + 1 \in DOMAIN r /\ \A i \in DOMAIN k : i \in DOMAIN r
    BY <1>5, <1>6
  <2>9. CASE t > Cutoff(u)
    <3>1. D = B \cup {m + 1}
      BY <1>5, <1>6, <2>7, <2>8, <2>9
    <3>2. m + 1 \notin B
      BY <2>8
    <3>3. Cardinality(D) = Cardinality(B) + 1
      BY ZenonT(60), <2>3, <3>1, <3>2, FS_AddElement
    <3>4. QED BY <2>3, <2>6, <2>9, <3>3
  <2>10. CASE ~ (t > Cutoff(u))
    <3>1. D = B
      BY <1>5, <1>6, <2>7, <2>8, <2>10
    <3>2. CountAt(r, u) = CountAt(c, u) /\ CountAt(c, u) \in Nat
      BY <2>3, <2>6, <3>1
    <3>3. CountAt(r, u) = CountAt(c, u) + 0
      BY ONLY <3>2
    <3>4. QED BY <2>10, <3>3
  <2>11. QED BY <2>9, <2>10
<1>8. RecordAction(c, t) = r
  BY DEF RecordAction, r, k, f, n
<1>9. QED BY <1>6, <1>7, <1>8

-----------------------------------------------------------------------------
(* The types.                                                              *)

\* the log m has what the log l has, and perhaps more
Grows(l, m) ==
  /\ m \in [Streams -> Seq(Message)]
  /\ \A s \in Streams :
       /\ Len(l[s]) <= Len(m[s])
       /\ \A i \in 1 .. Len(l[s]) : m[s][i] = l[s][i]

\* adding a message to a stream
LEMMA LogGrows ==
  ASSUME NEW l \in [Streams -> Seq(Message)], NEW s \in Streams, NEW m \in Message
  PROVE  Grows(l, [l EXCEPT ![s] = Append(@, m)])
<1> DEFINE k == [l EXCEPT ![s] = Append(@, m)]
<1>1. /\ Append(l[s], m) \in Seq(Message) /\ Len(Append(l[s], m)) = Len(l[s]) + 1
      /\ Len(l[s]) \in Nat
      /\ \A i \in 1 .. Len(l[s]) : Append(l[s], m)[i] = l[s][i]
  BY AppendProperties, LenProperties
<1>2. k \in [Streams -> Seq(Message)] /\ k[s] = Append(l[s], m)
      /\ \A r \in Streams : r # s => k[r] = l[r]
  BY <1>1
<1> HIDE DEF k
<1>3. ASSUME NEW r \in Streams
      PROVE  Len(l[r]) <= Len(k[r]) /\ \A i \in 1 .. Len(l[r]) : k[r][i] = l[r][i]
  <2>1. CASE r = s
    BY <1>1, <1>2, <2>1
  <2>2. CASE r # s
    <3>1. Len(l[r]) \in Nat /\ k[r] = l[r]
      BY <1>2, <2>2, LenProperties
    <3>2. QED BY <3>1
  <2>3. QED BY <2>1, <2>2
<1>4. QED BY <1>2, <1>3 DEF Grows, k

\* the same log
LEMMA LogStays ==
  ASSUME NEW l \in [Streams -> Seq(Message)]
  PROVE  Grows(l, l)
BY LenProperties DEF Grows

OrderInv == OrderOK(given, pending, batch, stage, trail, audited, faults)

\* an entry delivered is in the log
LEMMA InLog ==
  ASSUME TypeOK, NEW e \in Entries, e[2] \in 1 .. given[e[1]]
  PROVE  At(e) \in Message /\ e[1] \in Streams /\ e[2] \in 1 .. Len(log[e[1]])
<1>1. e[1] \in Streams /\ log[e[1]] \in Seq(Message) /\ given[e[1]] \in 0 .. Len(log[e[1]])
  BY DEF TypeOK, Entries
<1>2. Len(log[e[1]]) \in Nat /\ given[e[1]] <= Len(log[e[1]]) /\ given[e[1]] \in Nat
  BY <1>1, LenProperties
<1>3. e[2] \in 1 .. Len(log[e[1]])
  BY <1>2
<1>4. QED BY <1>1, <1>3, ElementOfSeq DEF At

\* the first entry in hand
LEMMA InHand ==
  ASSUME TypeOK, OrderInv, batch # << >>
  PROVE  /\ batch[1] \in Entries /\ batch[1][2] \in 1 .. given[batch[1][1]]
         /\ At(batch[1]) \in Message /\ AlertOn(batch[1]) \in Message
<1>1. batch \in Seq(Entries) /\ \A i \in DOMAIN batch : batch[i][2] \in 1 .. given[batch[i][1]]
  BY DEF OrderInv, OrderOK
<1>2. 1 \in DOMAIN batch /\ batch[1] \in Entries
  <2>1. Len(batch) \in Nat /\ Len(batch) # 0 /\ DOMAIN batch = 1 .. Len(batch)
    BY <1>1, LenProperties, EmptySeq
  <2>2. QED BY <1>1, <2>1, ElementOfSeq
<1>3. At(batch[1]) \in Message
  BY <1>1, <1>2, InLog
<1>4. AlertOn(batch[1]) \in Message
  BY <1>2, <1>3 DEF AlertOn, Message, Entries
<1>5. QED BY <1>1, <1>2, <1>3, <1>4

\* given and heard stay within a log that grows
LEMMA Within ==
  ASSUME NEW l \in [Streams -> Seq(Message)], NEW k, Grows(l, k), NEW s \in Streams,
         NEW n \in 0 .. Len(l[s])
  PROVE  n \in 0 .. Len(k[s])
<1>1. Len(l[s]) \in Nat /\ Len(k[s]) \in Nat /\ Len(l[s]) <= Len(k[s])
  BY LenProperties DEF Grows
<1>2. QED BY <1>1

\* the process starts with nothing sent, delivered or recorded
LEMMA TypeInit ==
  ASSUME ProcessAssumption, Init PROVE TypeOK /\ OrderInv
<1>1. Alerts \in Streams
  BY DEF Streams
<1>2. << >> \in Seq(Message) /\ << >> \in Seq(Streams \X Nat) /\ << >> \in Seq(Times)
      /\ << >> \in Seq([entry: Streams \X Nat, violation: BOOLEAN]) /\ Len(<< >>) = 0
      /\ DOMAIN << >> = {} /\ Range(<< >>) = {}
  BY EmptySeq DEF Range
<1>3. MaxFaults \in Nat
  BY DEF ProcessAssumption
<1>4. log \in [Streams -> Seq(Message)] /\ \A s \in Streams : log[s] = << >> /\ given[s] = 0
  BY <1>2 DEF Init
<1>5. counters \in [Senders \cup {Unknown} -> Seq(Times)]
  BY <1>2 DEF Init
<1>6. TypeOK
  <2>1. heard \in 0 .. Len(log[Alerts]) /\ \A s \in Streams : given[s] \in 0 .. Len(log[s])
    BY <1>1, <1>2, <1>4 DEF Init
  <2>2. faults \in 0 .. MaxFaults
    BY <1>3 DEF Init
  <2>3. QED BY <1>2, <1>4, <1>5, <2>1, <2>2 DEF Init, TypeOK
<1>7. OrderInv
  BY <1>2 DEF Init, OrderInv, OrderOK, InOrder, Entries, Shown
<1>8. QED BY <1>6, <1>7

-----------------------------------------------------------------------------
(* Each action keeps the types and the order of the streams.               *)

\* a task is added
LEMMA AddTaskKeeps ==
  ASSUME ProcessAssumption, TypeOK, OrderInv, NEW s \in Range(TaskStreams), NEW a \in Senders,
         NEW p \in Payloads, NEW t \in Times, NEW e \in Encodings, AddTask(s, a, p, t, e)
  PROVE  TypeOK' /\ OrderInv' /\ Grows(log, log')
<1> DEFINE m == [sender |-> a, at |-> t, about |-> << >>,
                 payload |-> IF e THEN Base64(p) ELSE p]
<1>1. m \in Message
  BY DEF Message, Base64, ProcessAssumption
<1>2. s \in Streams /\ log \in [Streams -> Seq(Message)] /\ Alerts \in Streams
  BY DEF Streams, TypeOK
<1>3. log' = [log EXCEPT ![s] = Append(@, m)]
  BY DEF AddTask
<1> HIDE DEF m
<1>4. Grows(log, log')
  BY <1>1, <1>2, <1>3, LogGrows
<1>5. /\ UNCHANGED <<groups, given, pending, batch, stage, alerted, counters, trail,
                     healerGroup, heard, audited, faults>>
  BY DEF AddTask, consumer, listener
<1>6. \A r \in Streams : given[r] \in 0 .. Len(log'[r])
  BY <1>2, <1>4, Within DEF TypeOK
<1>7. heard \in 0 .. Len(log'[Alerts])
  BY <1>2, <1>4, Within DEF TypeOK
<1>8. TypeOK'
  BY <1>4, <1>5, <1>6, <1>7 DEF TypeOK, Grows
<1>9. OrderInv'
  BY <1>5 DEF OrderInv
<1>10. QED BY <1>4, <1>8, <1>9

\* what a read takes, its reply lost or not
LEMMA DeliverTakes ==
  ASSUME ProcessAssumption, TypeOK, OrderInv, Deliver, stage = "observe"
  PROVE  /\ OrderOK(given', pending', Delivered, "observe", trail, audited, faults)
         /\ OrderOK(given', pending', << >>, "observe", trail, audited, faults + 1)
         /\ \A s \in Streams : given'[s] \in 0 .. Len(log[s])
         /\ Delivered \in Seq(Entries) /\ pending' \subseteq Entries
<1>1. \A s \in Streams : given[s] \in Nat /\ Len(log[s]) \in Nat /\ given[s] <= Len(log[s])
  <2> TAKE s \in Streams
  <2>1. log[s] \in Seq(Message) /\ given[s] \in 0 .. Len(log[s])
    BY DEF TypeOK
  <2>2. Len(log[s]) \in Nat
    BY <2>1, LenProperties
  <2>3. QED BY <2>1, <2>2
<1>2. /\ Delivered \in Seq(Entries) /\ InOrder(Delivered)
      /\ \A s \in Streams : \A i :
           <<s, i>> \in Range(Delivered) <=> i \in given[s] + 1 .. given[s] + Len(Fresh(s))
  BY <1>1, DeliveredIs
<1>3. \A s \in Streams : Len(Fresh(s)) \in Nat /\ given[s] + Len(Fresh(s)) <= Len(log[s])
  BY <1>1, FreshIs
<1>4. /\ given' = [s \in Streams |-> given[s] + Len(Fresh(s))] /\ batch = << >>
      /\ pending' = pending \cup Range(Delivered)
  BY DEF Deliver
<1>5. /\ given' \in [Streams -> Nat] /\ \A s \in Streams : given[s] <= given'[s]
      /\ \A s \in Streams : given'[s] = given[s] + Len(Fresh(s))
      /\ \A s \in Streams : given'[s] \in 0 .. Len(log[s])
  BY <1>1, <1>3, <1>4
<1>6. \A s \in Streams : \A i :
        <<s, i>> \in Range(Delivered) <=> i \in given[s] + 1 .. given'[s]
  BY <1>2, <1>5
<1>7. OrderOK(given, pending, << >>, "observe", trail, audited, faults)
  BY <1>4 DEF OrderInv
<1>8. /\ OrderOK(given', pending \cup Range(Delivered), Delivered, "observe", trail, audited, faults)
      /\ OrderOK(given', pending \cup Range(Delivered), << >>, "observe", trail, audited, faults + 1)
  BY ONLY <1>2, <1>5, <1>6, <1>7, OrderRead
<1>9. pending' \subseteq Entries
  <2>1. Range(Delivered) \subseteq Entries
    BY <1>2, LenProperties, ElementOfSeq DEF Range
  <2>2. QED BY <1>4, <2>1 DEF TypeOK, Entries
<1>10. QED BY <1>2, <1>4, <1>5, <1>8, <1>9

\* the consumer reads
LEMMA ReadKeeps ==
  ASSUME ProcessAssumption, TypeOK, OrderInv, Read
  PROVE  TypeOK' /\ OrderInv'
<1>1. batch = << >> /\ Deliver /\ batch' = Delivered /\ UNCHANGED <<stage, alerted, faults>>
  BY DEF Read, Deliver
<1>2. stage = "observe"
  BY <1>1 DEF OrderInv, OrderOK, TypeOK
<1>3. /\ OrderOK(given', pending', Delivered, "observe", trail, audited, faults)
      /\ \A s \in Streams : given'[s] \in 0 .. Len(log[s])
      /\ Delivered \in Seq(Entries) /\ pending' \subseteq Entries
  BY <1>1, <1>2, DeliverTakes
<1>4. UNCHANGED <<log, groups, counters, trail, healerGroup, heard, audited>>
  BY <1>1 DEF Deliver, listener
<1>5. OrderInv'
  BY <1>1, <1>2, <1>3, <1>4 DEF OrderInv
<1>6. TypeOK'
  BY <1>1, <1>2, <1>3, <1>4 DEF TypeOK, Entries
<1>7. QED BY <1>5, <1>6

\* one fault more
LEMMA FaultIs ==
  ASSUME ProcessAssumption, TypeOK, Fault
  PROVE  faults' = faults + 1 /\ faults' \in 0 .. MaxFaults
BY DEF Fault, TypeOK, ProcessAssumption

\* the reply of a read is lost
LEMMA ReadLostKeeps ==
  ASSUME ProcessAssumption, TypeOK, OrderInv, ReadLost
  PROVE  TypeOK' /\ OrderInv'
<1>1. /\ batch = << >> /\ Deliver /\ batch' = batch /\ UNCHANGED <<stage, alerted>> /\ Fault
      /\ faults' = faults + 1 /\ faults' \in 0 .. MaxFaults
  BY FaultIs DEF ReadLost, Deliver, consumer
<1>2. stage = "observe"
  BY <1>1 DEF OrderInv, OrderOK, TypeOK
<1>3. /\ OrderOK(given', pending', << >>, "observe", trail, audited, faults + 1)
      /\ \A s \in Streams : given'[s] \in 0 .. Len(log[s])
      /\ pending' \subseteq Entries
  BY <1>1, <1>2, DeliverTakes
<1>4. UNCHANGED <<log, groups, counters, trail, healerGroup, heard, audited>>
  BY <1>1 DEF Deliver, listener
<1>5. OrderInv'
  BY <1>1, <1>2, <1>3, <1>4 DEF OrderInv
<1>6. TypeOK'
  BY <1>1, <1>2, <1>3, <1>4 DEF TypeOK, Entries
<1>7. QED BY <1>5, <1>6

\* SHIELD observes the first entry in hand
LEMMA ObserveKeeps ==
  ASSUME ProcessAssumption, TypeOK, OrderInv, Observe
  PROVE  TypeOK' /\ OrderInv'
<1> DEFINE m == At(batch[1])
           c == RecordAction(counters[m.sender], m.at)
<1>1. /\ batch # << >> /\ stage = "observe"
      /\ stage' = IF alerted' THEN "publish" ELSE "record"
      /\ UNCHANGED <<log, groups, given, pending, batch, trail, healerGroup, heard, audited,
                     faults>>
  BY DEF Observe, redis, listener
<1>2. m \in Message
  BY <1>1, InHand
<1>3. /\ IF Exposes(m) THEN alerted' = TRUE /\ UNCHANGED counters
         ELSE /\ counters' = [counters EXCEPT ![m.sender] = c]
              /\ alerted' = OverLimit(c, m.at)
  BY DEF Observe
<1> HIDE DEF m
<1>4. m.sender \in Senders \cup {Unknown} /\ m.at \in Times /\ Times \subseteq Nat
      /\ counters[m.sender] \in Seq(Times) /\ counters \in [Senders \cup {Unknown} -> Seq(Times)]
  BY <1>2 DEF Message, ProcessAssumption, TypeOK
<1>5. c \in Seq(Times)
  BY <1>4, RecordActionCounts
<1> HIDE DEF c
<1>6. counters' \in [Senders \cup {Unknown} -> Seq(Times)]
  BY <1>3, <1>4, <1>5
<1>7. alerted' \in BOOLEAN
  <2>1. OverLimit(c, m.at) \in BOOLEAN
    BY DEF OverLimit
  <2>2. QED BY <1>3, <2>1, Zenon
<1>8. stage' \in {"publish", "record"}
  BY <1>1
<1>9. TypeOK'
  BY <1>1, <1>6, <1>7, <1>8 DEF TypeOK
<1>10. faults \in Nat
  BY DEF TypeOK, ProcessAssumption
<1>11. OrderOK(given, pending, batch, stage', trail, audited, faults)
  BY <1>1, <1>8, <1>10, OrderObserve DEF OrderInv
<1>12. OrderInv'
  BY <1>1, <1>11 DEF OrderInv
<1>13. QED BY <1>9, <1>12

\* the alert is published, or its error ignored
LEMMA PublishKeeps ==
  ASSUME ProcessAssumption, TypeOK, OrderInv, Publish
  PROVE  TypeOK' /\ OrderInv' /\ Grows(log, log')
<1>1. /\ stage = "publish" /\ stage' = "record"
      /\ UNCHANGED <<groups, given, pending, batch, alerted, counters, trail, healerGroup,
                     heard, audited>>
      /\ \/ /\ log' = [log EXCEPT ![Alerts] = Append(@, AlertOn(batch[1]))]
            /\ UNCHANGED faults
         \/ Fault /\ UNCHANGED log
  BY DEF Publish, listener
<1>2. batch # << >> /\ AlertOn(batch[1]) \in Message
  <2>1. batch # << >>
    BY <1>1 DEF OrderInv, OrderOK
  <2>2. QED BY <2>1, InHand
<1>3. log \in [Streams -> Seq(Message)] /\ Alerts \in Streams
  BY DEF TypeOK, Streams
<1>4. Grows(log, log')
  BY SMTT(30), <1>1, <1>2, <1>3, LogGrows, LogStays
<1>5. faults' \in 0 .. MaxFaults /\ (faults' = faults \/ faults' = faults + 1)
  BY <1>1, FaultIs DEF TypeOK
<1>6. \A s \in Streams : given[s] \in 0 .. Len(log'[s])
  BY <1>3, <1>4, Within DEF TypeOK
<1>7. heard \in 0 .. Len(log'[Alerts])
  BY <1>3, <1>4, Within DEF TypeOK
<1>8. TypeOK'
  BY <1>1, <1>4, <1>5, <1>6, <1>7 DEF TypeOK, Grows
<1>9. faults \in Nat /\ faults' \in Nat /\ (faults' = 0 => faults = 0)
  <2>1. faults \in Nat
    BY DEF OrderInv, OrderOK
  <2>2. QED BY <1>5, <2>1
<1>10. OrderOK(given, pending, batch, "record", trail, audited, faults')
  <2>1. OrderOK(given, pending, batch, "publish", trail, audited, faults)
    BY <1>1 DEF OrderInv
  <2>2. "publish" # "ack" /\ "record" \in {"publish", "record"}
    OBVIOUS
  <2>3. QED BY ONLY <1>2, <1>9, <2>1, <2>2, OrderObserve
<1>11. OrderInv'
  BY <1>1, <1>10 DEF OrderInv
<1>12. QED BY <1>4, <1>8, <1>11

\* the chain records the first entry in hand
LEMMA RecordKeeps ==
  ASSUME ProcessAssumption, TypeOK, OrderInv, Record
  PROVE  TypeOK' /\ OrderInv'
<1>1. /\ stage = "record" /\ stage' = "ack"
      /\ trail' = Append(trail, [entry |-> batch[1], violation |-> alerted])
      /\ audited' = audited \cup {batch[1]}
      /\ UNCHANGED <<log, groups, given, pending, batch, alerted, counters, healerGroup,
                     heard, faults>>
  BY DEF Record, redis, listener
<1>2. batch[1] \in Entries
  <2>1. batch # << >>
    BY <1>1 DEF OrderInv, OrderOK
  <2>2. QED BY <2>1, InHand
<1>3. trail \in Seq(Shown) /\ [entry |-> batch[1], violation |-> alerted] \in Shown
  BY <1>2 DEF TypeOK, Shown, Entries
<1>4. trail' \in Seq(Shown)
  BY <1>1, <1>3, AppendProperties
<1>5. TypeOK'
  BY <1>1, <1>2, <1>4 DEF TypeOK, Shown, Entries
<1>6. alerted \in BOOLEAN /\ OrderOK(given, pending, batch, "record", trail, audited, faults)
  BY <1>1 DEF TypeOK, OrderInv
<1>7. OrderOK(given, pending, batch, "ack",
              Append(trail, [entry |-> batch[1], violation |-> alerted]),
              audited \cup {batch[1]}, faults)
  BY <1>6, OrderRecord
<1>8. OrderInv'
  BY <1>1, <1>7 DEF OrderInv
<1>9. QED BY <1>5, <1>8

\* the first entry in hand is acknowledged, or the error ignored
LEMMA AckKeeps ==
  ASSUME ProcessAssumption, TypeOK, OrderInv, Ack
  PROVE  TypeOK' /\ OrderInv'
<1>1. /\ stage = "ack" /\ stage' = "observe" /\ batch' = Tail(batch) /\ alerted' = FALSE
      /\ UNCHANGED <<log, groups, given, counters, trail, healerGroup, heard, audited>>
      /\ \/ pending' = pending \ {batch[1]} /\ UNCHANGED faults
         \/ Fault /\ UNCHANGED pending
  BY DEF Ack, listener
<1>2. batch # << >> /\ batch \in Seq(Entries)
  BY <1>1 DEF OrderInv, OrderOK
<1>3. batch' \in Seq(Entries)
  BY <1>1, <1>2, HeadTailProperties
<1>4. faults' \in 0 .. MaxFaults /\ pending' \subseteq Entries
  BY <1>1, FaultIs DEF TypeOK, Entries
<1>5. TypeOK'
  BY <1>1, <1>3, <1>4 DEF TypeOK, Entries
<1>6. OrderOK(given, pending, batch, "ack", trail, audited, faults)
  BY <1>1 DEF OrderInv
<1>7. OrderOK(given, pending', batch', "observe", trail, audited, faults')
  <2>1. /\ OrderOK(given, pending \ {batch[1]}, Tail(batch), "observe", trail, audited, faults)
        /\ OrderOK(given, pending, Tail(batch), "observe", trail, audited, faults + 1)
    BY ONLY <1>6, OrderAck
  <2>2. CASE pending' = pending \ {batch[1]} /\ UNCHANGED faults
    BY <1>1, <2>1, <2>2
  <2>3. CASE Fault /\ UNCHANGED pending
    BY <1>1, <2>1, <2>3, FaultIs
  <2>4. QED BY <1>1, <2>2, <2>3
<1>8. OrderInv'
  BY <1>1, <1>7 DEF OrderInv
<1>9. QED BY <1>5, <1>8

\* a crash and the start after it
LEMMA CrashKeeps ==
  ASSUME ProcessAssumption, TypeOK, OrderInv, Crash
  PROVE  TypeOK' /\ OrderInv'
<1>1. /\ batch' = << >> /\ stage' = "observe" /\ alerted' = FALSE /\ trail' = << >>
      /\ counters' = [a \in DOMAIN counters |-> << >>]
      /\ UNCHANGED <<log, groups, given, pending, healerGroup, heard, audited>>
      /\ faults' = faults + 1 /\ faults' \in 0 .. MaxFaults
  BY FaultIs DEF Crash, redis, listener
<1>2. counters' \in [Senders \cup {Unknown} -> Seq(Times)]
  <2>1. << >> \in Seq(Times) /\ DOMAIN counters = Senders \cup {Unknown}
    BY EmptySeq DEF TypeOK
  <2>2. QED BY <1>1, <2>1
<1>3. TypeOK'
  <2>1. /\ << >> \in Seq(Streams \X Nat)
        /\ << >> \in Seq([entry: Streams \X Nat, violation: BOOLEAN])
    BY EmptySeq
  <2>2. QED BY <1>1, <1>2, <2>1 DEF TypeOK
<1>4. OrderOK(given, pending, << >>, "observe", << >>, audited, faults + 1)
  BY OrderCrash DEF OrderInv
<1>5. OrderInv'
  BY <1>1, <1>4 DEF OrderInv
<1>6. QED BY <1>3, <1>5

\* the groups are created, HEALER hears an alert
LEMMA ListenerKeeps ==
  ASSUME ProcessAssumption, TypeOK, OrderInv, EnsureGroups \/ CreateHealerGroup \/ Hear
  PROVE  TypeOK' /\ OrderInv'
<1>1. UNCHANGED <<log, given, pending, batch, stage, alerted, counters, trail, audited, faults>>
  BY DEF EnsureGroups, CreateHealerGroup, Hear, redis, consumer
<1>2. groups' \subseteq Streams /\ healerGroup' \in BOOLEAN
  BY DEF EnsureGroups, CreateHealerGroup, Hear, redis, listener, TypeOK
<1>3. heard' \in 0 .. Len(log[Alerts])
  <2>1. Alerts \in Streams
    BY DEF Streams
  <2>2. heard \in 0 .. Len(log[Alerts]) /\ Len(log[Alerts]) \in Nat
    BY <2>1, LenProperties DEF TypeOK
  <2>3. heard' = heard \/ (heard' = heard + 1 /\ heard < Len(log[Alerts]))
    BY DEF EnsureGroups, CreateHealerGroup, Hear, listener
  <2>4. QED BY <2>2, <2>3
<1>4. TypeOK'
  BY <1>1, <1>2, <1>3 DEF TypeOK
<1>5. OrderInv'
  BY <1>1 DEF OrderInv
<1>6. QED BY <1>4, <1>5

\* every step
LEMMA ProcessKeeps ==
  ASSUME ProcessAssumption, TypeOK, OrderInv, [Next]_vars
  PROVE  TypeOK' /\ OrderInv'
<1>1. CASE \E s \in Range(TaskStreams), a \in Senders, p \in Payloads, t \in Times,
              e \in Encodings : AddTask(s, a, p, t, e)
  BY <1>1, AddTaskKeeps
<1>2. CASE EnsureGroups \/ CreateHealerGroup \/ Hear
  BY <1>2, ListenerKeeps
<1>3. CASE Read
  BY <1>3, ReadKeeps
<1>4. CASE Observe
  BY <1>4, ObserveKeeps
<1>5. CASE Publish
  BY <1>5, PublishKeeps
<1>6. CASE Record
  BY <1>6, RecordKeeps
<1>7. CASE Ack
  BY <1>7, AckKeeps
<1>8. CASE ReadLost
  BY <1>8, ReadLostKeeps
<1>9. CASE Crash
  BY <1>9, CrashKeeps
<1>10. CASE UNCHANGED vars
  BY <1>10 DEF vars, redis, consumer, listener, TypeOK, OrderInv
<1>11. QED BY <1>1, <1>2, <1>3, <1>4, <1>5, <1>6, <1>7, <1>8, <1>9, <1>10 DEF Next, Consume

\* in every behaviour the variables have their types and the streams their order
LEMMA ProcessSound ==
  ASSUME ProcessAssumption PROVE Spec => [](TypeOK /\ OrderInv)
<1>1. Init => TypeOK /\ OrderInv
  BY TypeInit
<1>2. (TypeOK /\ OrderInv) /\ [Next]_vars => (TypeOK /\ OrderInv)'
  BY ProcessKeeps
<1>3. QED BY <1>1, <1>2, PTL DEF Spec

\* The trail shows each stream in its order and without a repetition; what was
\* delivered is pending or was recorded; and until the first fault the pending
\* entries are the ones in hand (main.rs, run_shield_loop).
THEOREM TrailFollowsTheStreams ==
  ASSUME ProcessAssumption PROVE Spec => []TrailIsTheStream
<1>1. OrderInv => TrailIsTheStream
  BY DEF OrderInv, OrderOK, TrailIsTheStream
<1>2. QED BY <1>1, ProcessSound, PTL

-----------------------------------------------------------------------------
(* What a verdict of SHIELD means: ms are the messages judged in this      *)
(* life, J the entries and verdicts, c the counters.                       *)

AllSenders == Senders \cup {Unknown}

\* those of a's first j messages, without a credential, that a count at t sees
CountTo(ms, j, a, t) ==
  Cardinality({i \in 1 .. j : ms[i].sender = a /\ ~Exposes(ms[i]) /\ ms[i].at > Cutoff(t)})
Steady(ms, j) ==
  \A i, k \in 1 .. j : i < k /\ ms[i].sender = ms[k].sender => ms[i].at <= ms[k].at
Verdict(ms, j) ==
  Exposes(ms[j]) \/ CountTo(ms, j, ms[j].sender, ms[j].at) > RateLimit

\* at a time that no message of a is after, a's counter holds what it should
Kept(ms, c) ==
  \A a \in AllSenders, t \in Nat :
    (\A i \in DOMAIN ms : ms[i].sender = a => ms[i].at <= t)
      => CountAt(c[a], t) = CountTo(ms, Len(ms), a, t)

JudgedOK(ms, J, c) ==
  /\ ms \in Seq(Message) /\ J \in Seq(Shown) /\ Len(ms) = Len(J)
  /\ Kept(ms, c)
  /\ \A j \in DOMAIN J : Steady(ms, j) => (J[j].violation <=> Verdict(ms, j))

\* counts and verdicts look at a beginning of the messages only
LEMMA BeginningCounts ==
  ASSUME NEW ms \in Seq(Message), NEW m \in Message, NEW j \in 1 .. Len(ms)
  PROVE  /\ Append(ms, m)[j] = ms[j]
         /\ \A a, t : CountTo(Append(ms, m), j, a, t) = CountTo(ms, j, a, t)
         /\ Steady(Append(ms, m), j) <=> Steady(ms, j)
         /\ Verdict(Append(ms, m), j) <=> Verdict(ms, j)
<1> DEFINE u == Append(ms, m)
<1>1. Len(ms) \in Nat /\ \A i \in 1 .. Len(ms) : u[i] = ms[i]
  BY AppendProperties, LenProperties
<1> HIDE DEF u
<1>2. \A i \in 1 .. j : u[i] = ms[i]
  BY <1>1
<1>3. \A a, t : CountTo(u, j, a, t) = CountTo(ms, j, a, t)
  <2> SUFFICES ASSUME NEW a, NEW t PROVE CountTo(u, j, a, t) = CountTo(ms, j, a, t)
    OBVIOUS
  <2>1. {i \in 1 .. j : u[i].sender = a /\ ~Exposes(u[i]) /\ u[i].at > Cutoff(t)}
          = {i \in 1 .. j : ms[i].sender = a /\ ~Exposes(ms[i]) /\ ms[i].at > Cutoff(t)}
    BY <1>2
  <2>2. QED BY <2>1 DEF CountTo
<1>4. Steady(u, j) <=> Steady(ms, j)
  BY <1>2 DEF Steady
<1>5. u[j] = ms[j]
  BY <1>1
<1>6. Verdict(u, j) <=> Verdict(ms, j)
  BY <1>3, <1>5 DEF Verdict
<1>7. QED BY <1>3, <1>4, <1>5, <1>6 DEF u

\* one more message is one more to count, or is not
LEMMA OneMoreCounts ==
  ASSUME NEW ms \in Seq(Message), NEW m \in Message, NEW a, NEW t
  PROVE  LET n == CountTo(ms, Len(ms), a, t) IN
         /\ n \in Nat
         /\ CountTo(Append(ms, m), Len(ms) + 1, a, t)
              = IF m.sender = a /\ ~Exposes(m) /\ m.at > Cutoff(t) THEN n + 1 ELSE n
<1> DEFINE k == Len(ms)
           u == Append(ms, m)
           A == {i \in 1 .. k : ms[i].sender = a /\ ~Exposes(ms[i]) /\ ms[i].at > Cutoff(t)}
           B == {i \in 1 .. k + 1 : u[i].sender = a /\ ~Exposes(u[i]) /\ u[i].at > Cutoff(t)}
           C == m.sender = a /\ ~Exposes(m) /\ m.at > Cutoff(t)
<1>1. k \in Nat /\ u[k + 1] = m /\ \A i \in 1 .. k : u[i] = ms[i]
  BY AppendProperties, LenProperties
<1> HIDE DEF u
<1>2. IsFiniteSet(A) /\ Cardinality(A) \in Nat
  <2>1. IsFiniteSet(1 .. k) /\ A \subseteq 1 .. k
    BY <1>1, FS_Interval
  <2>2. QED BY <2>1, FS_Subset, FS_CardinalityType
<1>3. \A i \in 1 .. k + 1 : i \in 1 .. k \/ i = k + 1
  BY <1>1
<1>4. k + 1 \notin 1 .. k /\ k + 1 \in 1 .. k + 1 /\ \A i \in 1 .. k : i \in 1 .. k + 1
  BY <1>1
<1> HIDE DEF k
<1>5. ASSUME C PROVE B = A \cup {k + 1}
  <2>1. \A i \in B : i \in A \/ i = k + 1
    BY <1>1, <1>3
  <2>2. \A i \in A : i \in B
    BY <1>1, <1>4
  <2>3. k + 1 \in B
    BY <1>1, <1>4, <1>5
  <2>4. QED BY <2>1, <2>2, <2>3
<1>6. ASSUME ~C PROVE B = A
  <2>1. \A i \in B : i \in A
    BY <1>1, <1>3, <1>6
  <2>2. \A i \in A : i \in B
    BY <1>1, <1>4
  <2>3. QED BY <2>1, <2>2
<1>7. k + 1 \notin A
  BY <1>4
<1>8. CountTo(ms, k, a, t) = Cardinality(A) /\ CountTo(u, k + 1, a, t) = Cardinality(B)
  BY DEF CountTo
<1> HIDE DEF A, B, C
<1>9. Cardinality(B) = IF C THEN Cardinality(A) + 1 ELSE Cardinality(A)
  BY <1>2, <1>5, <1>6, <1>7, FS_AddElement
<1>10. QED BY <1>2, <1>8, <1>9 DEF C, k, u

\* observing a message keeps what the counters hold: of the sender of a message
\* without a credential there is one more, of the others and otherwise the same
LEMMA KeptObserving ==
  ASSUME ProcessAssumption, NEW ms \in Seq(Message), NEW m \in Message,
         NEW c \in [AllSenders -> Seq(Times)], Kept(ms, c),
         NEW d, d = IF Exposes(m) THEN c
                    ELSE [c EXCEPT ![m.sender] = RecordAction(c[m.sender], m.at)]
  PROVE  Kept(Append(ms, m), d) /\ d \in [AllSenders -> Seq(Times)]
<1> DEFINE u == Append(ms, m)
           k == Len(ms)
           r == RecordAction(c[m.sender], m.at)
<1>1. /\ k \in Nat /\ DOMAIN ms = 1 .. k /\ u \in Seq(Message) /\ Len(u) = k + 1
      /\ DOMAIN u = 1 .. k + 1 /\ u[k + 1] = m /\ \A i \in 1 .. k : u[i] = ms[i]
  BY AppendProperties, LenProperties
<1> HIDE DEF u, k
<1>2. m.sender \in AllSenders /\ m.at \in Times /\ Times \subseteq Nat /\ m.at \in Nat
      /\ c[m.sender] \in Seq(Times)
  BY DEF Message, AllSenders, ProcessAssumption
<1>3. /\ r \in Seq(Times)
      /\ \A t \in Nat : m.at <= t =>
           CountAt(r, t) = CountAt(c[m.sender], t) + (IF m.at > Cutoff(t) THEN 1 ELSE 0)
  BY <1>2, RecordActionCounts
<1> HIDE DEF r
<1>4. d = IF Exposes(m) THEN c ELSE [c EXCEPT ![m.sender] = r]
  BY DEF r
<1>5. d \in [AllSenders -> Seq(Times)]
  BY <1>3, <1>4
<1>6. ASSUME NEW a \in AllSenders, NEW t \in Nat, \A i \in DOMAIN u : u[i].sender = a => u[i].at <= t
      PROVE  CountAt(d[a], t) = CountTo(u, Len(u), a, t)
  <2>1. \A i \in DOMAIN ms : ms[i].sender = a => ms[i].at <= t
    <3> TAKE i \in DOMAIN ms
    <3>1. i \in DOMAIN u /\ u[i] = ms[i]
      BY <1>1
    <3>2. QED BY <1>6, <3>1
  <2>2. CountAt(c[a], t) = CountTo(ms, k, a, t)
    BY <2>1 DEF Kept, k
  <2> DEFINE n == CountTo(ms, k, a, t)
  <2>3. n \in Nat /\ CountTo(u, k + 1, a, t)
          = IF m.sender = a /\ ~Exposes(m) /\ m.at > Cutoff(t) THEN n + 1 ELSE n
    BY OneMoreCounts DEF u, k
  <2>4. m.sender = a => m.at <= t
    <3>1. k + 1 \in DOMAIN u
      BY <1>1
    <3>2. QED BY <1>1, <1>6, <3>1
  <2> HIDE DEF n
  <2>5. CASE m.sender = a /\ ~Exposes(m)
    <3>1. d[a] = r
      BY <1>2, <1>4, <2>5
    <3>2. CountAt(r, t) = CountAt(c[a], t) + (IF m.at > Cutoff(t) THEN 1 ELSE 0)
      BY <1>3, <2>4, <2>5
    <3>3. CountAt(r, t) = n + (IF m.at > Cutoff(t) THEN 1 ELSE 0)
      BY <2>2, <3>2 DEF n
    <3>4. n + (IF m.at > Cutoff(t) THEN 1 ELSE 0) = IF m.at > Cutoff(t) THEN n + 1 ELSE n
      BY ONLY <2>3
    <3>5. QED BY <1>1, <2>3, <2>5, <3>1, <3>3, <3>4
  <2>6. CASE ~ (m.sender = a /\ ~Exposes(m))
    <3>1. d[a] = c[a]
      BY <1>2, <1>4, <2>6
    <3>2. CountTo(u, k + 1, a, t) = n
      BY <2>3, <2>6
    <3>3. QED BY <1>1, <2>2, <3>1, <3>2 DEF n
  <2>7. QED BY <2>5, <2>6
<1>7. QED BY <1>5, <1>6 DEF Kept, u

\* and gives the verdict that it should
LEMMA JudgedObserving ==
  ASSUME ProcessAssumption, NEW ms, NEW J, NEW c \in [AllSenders -> Seq(Times)],
         JudgedOK(ms, J, c), NEW m \in Message, NEW x \in Shown,
         NEW d, d = IF Exposes(m) THEN c
                    ELSE [c EXCEPT ![m.sender] = RecordAction(c[m.sender], m.at)],
         x.violation <=> Exposes(m) \/ OverLimit(d[m.sender], m.at)
  PROVE  JudgedOK(Append(ms, m), Append(J, x), d)
<1> DEFINE u == Append(ms, m)
           v == Append(J, x)
           k == Len(ms)
<1>1. /\ ms \in Seq(Message) /\ J \in Seq(Shown) /\ Len(J) = k /\ Kept(ms, c)
      /\ \A j \in DOMAIN J : Steady(ms, j) => (J[j].violation <=> Verdict(ms, j))
  BY DEF JudgedOK
<1>2. /\ k \in Nat /\ DOMAIN ms = 1 .. k /\ u \in Seq(Message) /\ Len(u) = k + 1
      /\ DOMAIN u = 1 .. k + 1 /\ u[k + 1] = m /\ \A i \in 1 .. k : u[i] = ms[i]
  BY <1>1, AppendProperties, LenProperties
<1>3. /\ v \in Seq(Shown) /\ Len(v) = k + 1 /\ DOMAIN J = 1 .. k
      /\ DOMAIN v = 1 .. k + 1 /\ v[k + 1] = x /\ \A i \in 1 .. k : v[i] = J[i]
  BY <1>1, AppendProperties, LenProperties
<1>4. Kept(u, d)
  BY <1>1, KeptObserving
<1>5. \A j \in 1 .. k : (Steady(u, j) <=> Steady(ms, j)) /\ (Verdict(u, j) <=> Verdict(ms, j))
  BY <1>1, BeginningCounts
<1> HIDE DEF u, v, k
<1>6. ASSUME Steady(u, k + 1) PROVE x.violation <=> Verdict(u, k + 1)
  <2>1. \A i \in 1 .. k + 1 : u[i].sender = m.sender => u[i].at <= m.at
    <3> TAKE i \in 1 .. k + 1
    <3>1. CASE i = k + 1
      <4>1. m.at \in Nat
        BY DEF Message, ProcessAssumption
      <4>2. QED BY <1>2, <3>1, <4>1
    <3>2. CASE i # k + 1
      <4>1. k + 1 \in 1 .. k + 1 /\ i < k + 1
        BY <1>2, <3>2
      <4>2. QED BY <1>2, <1>6, <4>1 DEF Steady
    <3>3. QED BY <3>1, <3>2
  <2>2. m.sender \in AllSenders /\ m.at \in Nat
    BY DEF Message, AllSenders, ProcessAssumption
  <2>3. CountAt(d[m.sender], m.at) = CountTo(u, k + 1, m.sender, m.at)
    BY <1>2, <1>4, <2>1, <2>2 DEF Kept
  <2>4. QED BY <1>2, <2>3 DEF Verdict, OverLimit
<1>7. ASSUME NEW j \in DOMAIN v, Steady(u, j) PROVE v[j].violation <=> Verdict(u, j)
  <2>1. CASE j = k + 1
    BY <1>3, <1>6, <1>7, <2>1
  <2>2. CASE j # k + 1
    <3>1. j \in 1 .. k /\ v[j] = J[j] /\ j \in DOMAIN J
      BY <1>2, <1>3, <2>2
    <3>2. QED BY <1>1, <1>5, <1>7, <3>1
  <2>3. QED BY <2>1, <2>2
<1>8. QED BY <1>2, <1>3, <1>4, <1>7 DEF JudgedOK, u, v

-----------------------------------------------------------------------------
(* The verdicts of the trail, and of the message that is being handled.    *)

Judged ==
  IF stage \in {"publish", "record"}
  THEN Append(trail, [entry |-> batch[1], violation |-> alerted]) ELSE trail
MessagesOf(l, J) == [i \in DOMAIN J |-> l[J[i].entry[1]][J[i].entry[2]]]
VerdictInv == JudgedOK(MessagesOf(log, Judged), Judged, counters)

\* what is judged was delivered
LEMMA JudgedIs ==
  ASSUME TypeOK, OrderInv
  PROVE  /\ Judged \in Seq(Shown)
         /\ \A i \in DOMAIN Judged : Judged[i].entry[2] \in 1 .. given[Judged[i].entry[1]]
<1> DEFINE x == [entry |-> batch[1], violation |-> alerted]
<1>1. /\ trail \in Seq(Shown)
      /\ \A i \in DOMAIN trail : trail[i].entry[2] \in 1 .. given[trail[i].entry[1]]
  BY DEF OrderInv, OrderOK
<1>2. CASE stage \in {"publish", "record"}
  <2>1. batch # << >>
    BY <1>2 DEF OrderInv, OrderOK
  <2>2. x \in Shown /\ x.entry = batch[1] /\ batch[1][2] \in 1 .. given[batch[1][1]]
    BY <2>1, InHand DEF Shown, TypeOK
  <2> HIDE DEF x
  <2>3. /\ Append(trail, x) \in Seq(Shown) /\ DOMAIN Append(trail, x) = 1 .. Len(trail) + 1
        /\ DOMAIN trail = 1 .. Len(trail) /\ Len(trail) \in Nat
        /\ Append(trail, x)[Len(trail) + 1] = x
        /\ \A i \in 1 .. Len(trail) : Append(trail, x)[i] = trail[i]
    BY <1>1, <2>2, AppendProperties, LenProperties
  <2> DEFINE u == Append(trail, x)
             n == Len(trail)
  <2>4. Judged = u
    BY <1>2 DEF Judged, x
  <2> HIDE DEF u, n
  <2>5. \A i \in DOMAIN u : i \in 1 .. n \/ i = n + 1
    BY <2>3 DEF u, n
  <2>6. \A i \in 1 .. n : u[i] = trail[i] /\ i \in DOMAIN trail
    BY <2>3 DEF u, n
  <2>7. u[n + 1] = x /\ u \in Seq(Shown)
    BY <2>3 DEF u, n
  <2>8. \A i \in DOMAIN u : u[i].entry[2] \in 1 .. given[u[i].entry[1]]
    BY <1>1, <2>2, <2>5, <2>6, <2>7
  <2>9. QED BY <2>4, <2>7, <2>8
<1>3. CASE stage \notin {"publish", "record"}
  BY <1>1, <1>3 DEF Judged
<1>4. QED BY <1>2, <1>3

\* the messages of entries delivered stay what they are while the log grows
LEMMA MessagesStay ==
  ASSUME TypeOK, NEW J \in Seq(Shown), NEW k, Grows(log, k),
         \A i \in DOMAIN J : J[i].entry[2] \in 1 .. given[J[i].entry[1]]
  PROVE  /\ MessagesOf(log, J) \in Seq(Message) /\ Len(MessagesOf(log, J)) = Len(J)
         /\ \A i \in DOMAIN J : MessagesOf(log, J)[i] = At(J[i].entry)
         /\ MessagesOf(k, J) = MessagesOf(log, J)
<1> DEFINE n == Len(J)
<1>1. n \in Nat /\ DOMAIN J = 1 .. n /\ \A i \in 1 .. n : J[i].entry \in Entries
  <2>1. n \in Nat /\ DOMAIN J = 1 .. n /\ \A i \in 1 .. n : J[i] \in Shown
    BY LenProperties, ElementOfSeq
  <2>2. \A x \in Shown : x.entry \in Entries
    BY DEF Shown
  <2> HIDE DEF n
  <2>3. QED BY <2>1, <2>2
<1> HIDE DEF n
<1>2. \A i \in 1 .. n : At(J[i].entry) \in Message /\ J[i].entry[1] \in Streams
        /\ J[i].entry[2] \in 1 .. Len(log[J[i].entry[1]])
  BY <1>1, InLog
<1>3. MessagesOf(log, J) = [i \in 1 .. n |-> At(J[i].entry)]
  BY <1>1 DEF MessagesOf, At
<1>4. MessagesOf(log, J) \in [1 .. n -> Message]
  BY <1>2, <1>3
<1>5. MessagesOf(log, J) \in Seq(Message) /\ Len(MessagesOf(log, J)) = n
  BY <1>1, <1>3, <1>4, SeqDef, LenProperties
<1>6. \A i \in 1 .. n : k[J[i].entry[1]][J[i].entry[2]] = log[J[i].entry[1]][J[i].entry[2]]
  BY <1>2 DEF Grows
<1>7. MessagesOf(k, J) = MessagesOf(log, J)
  BY <1>1, <1>6 DEF MessagesOf
<1>8. QED BY <1>1, <1>3, <1>5, <1>7 DEF n

\* one entry more
LEMMA MessagesAppend ==
  ASSUME TypeOK, NEW J \in Seq(Shown), NEW x \in Shown,
         \A i \in DOMAIN J : J[i].entry[2] \in 1 .. given[J[i].entry[1]]
  PROVE  MessagesOf(log, Append(J, x)) = Append(MessagesOf(log, J), At(x.entry))
<1> DEFINE n == Len(J)
           u == Append(J, x)
           ms == MessagesOf(log, J)
<1>1. /\ n \in Nat /\ DOMAIN J = 1 .. n /\ DOMAIN u = 1 .. n + 1
      /\ u[n + 1] = x /\ \A i \in 1 .. n : u[i] = J[i]
  BY AppendProperties, LenProperties
<1>2. /\ ms \in Seq(Message) /\ Len(ms) = n
      /\ \A i \in DOMAIN J : ms[i] = At(J[i].entry)
  BY MessagesStay, LogStays DEF TypeOK
<1> HIDE DEF n, u, ms
<1>3. Append(ms, At(x.entry)) = [i \in 1 .. n + 1 |-> IF i = n + 1 THEN At(x.entry) ELSE ms[i]]
  BY <1>1, <1>2
<1>4. MessagesOf(log, u) = [i \in 1 .. n + 1 |-> At(u[i].entry)]
  BY <1>1 DEF MessagesOf, At
<1>5. \A i \in 1 .. n + 1 : At(u[i].entry) = IF i = n + 1 THEN At(x.entry) ELSE ms[i]
  BY <1>1, <1>2
<1>6. QED BY <1>3, <1>4, <1>5 DEF u, ms

\* nothing judged yet, nothing counted
LEMMA NothingJudged ==
  ASSUME NEW l, NEW c, c = [a \in AllSenders |-> << >>]
  PROVE  JudgedOK(MessagesOf(l, << >>), << >>, c)
<1>1. /\ MessagesOf(l, << >>) = << >> /\ << >> \in Seq(Message) /\ << >> \in Seq(Shown)
      /\ Len(<< >>) = 0 /\ DOMAIN << >> = {}
  BY EmptySeq DEF MessagesOf
<1>2. \A a \in AllSenders, t \in Nat : CountAt(c[a], t) = 0
  <2> TAKE a \in AllSenders, t \in Nat
  <2>1. {i \in DOMAIN c[a] : c[a][i] > Cutoff(t)} = {}
    BY <1>1
  <2>2. QED BY <2>1, FS_EmptySet DEF CountAt
<1>3. \A a, t : CountTo(<< >>, 0, a, t) = 0
  <2> SUFFICES ASSUME NEW a, NEW t PROVE CountTo(<< >>, 0, a, t) = 0
    OBVIOUS
  <2> DEFINE ms == << >>
  <2>1. {i \in 1 .. 0 : ms[i].sender = a /\ ~Exposes(ms[i]) /\ ms[i].at > Cutoff(t)} = {}
    OBVIOUS
  <2>2. QED BY <2>1, FS_EmptySet DEF CountTo
<1>4. QED BY <1>1, <1>2, <1>3 DEF JudgedOK, Kept

\* a step that neither observes nor crashes judges nothing
LEMMA VerdictStays ==
  ASSUME TypeOK, OrderInv, VerdictInv, Judged' = Judged, counters' = counters, Grows(log, log')
  PROVE  VerdictInv'
<1>1. /\ Judged \in Seq(Shown)
      /\ \A i \in DOMAIN Judged : Judged[i].entry[2] \in 1 .. given[Judged[i].entry[1]]
  BY JudgedIs
<1>2. MessagesOf(log', Judged) = MessagesOf(log, Judged)
  BY <1>1, MessagesStay
<1>3. QED BY <1>2 DEF VerdictInv

\* SHIELD's verdict
LEMMA VerdictObserve ==
  ASSUME ProcessAssumption, TypeOK, OrderInv, VerdictInv, Observe
  PROVE  VerdictInv'
<1> DEFINE m == At(batch[1])
           x == [entry |-> batch[1], violation |-> alerted']
           ms == MessagesOf(log, trail)
<1>1. /\ batch # << >> /\ stage = "observe"
      /\ stage' \in {"publish", "record"}
      /\ log' = log /\ batch' = batch /\ trail' = trail
  BY DEF Observe, redis
<1>2. /\ m \in Message /\ batch[1] \in Entries
  BY <1>1, InHand
<1>3. alerted' \in BOOLEAN /\ TypeOK' /\ OrderInv'
  BY ObserveKeeps DEF TypeOK
<1>4. x \in Shown /\ x.entry = batch[1] /\ x.violation = alerted'
  BY <1>2, <1>3 DEF Shown
<1>5. Judged = trail /\ Judged' = Append(trail, x)
  BY <1>1 DEF Judged
<1>6. /\ trail \in Seq(Shown)
      /\ \A i \in DOMAIN trail : trail[i].entry[2] \in 1 .. given[trail[i].entry[1]]
  BY DEF OrderInv, OrderOK
<1>7. MessagesOf(log, Append(trail, x)) = Append(ms, m)
  BY <1>4, <1>6, MessagesAppend
<1>8. JudgedOK(ms, trail, counters) /\ counters \in [AllSenders -> Seq(Times)]
  BY <1>5 DEF VerdictInv, TypeOK, AllSenders
<1>9. /\ counters' = IF Exposes(m) THEN counters
                     ELSE [counters EXCEPT ![m.sender] =
                             RecordAction(counters[m.sender], m.at)]
      /\ IF Exposes(m) THEN alerted' = TRUE
         ELSE alerted' = OverLimit(RecordAction(counters[m.sender], m.at), m.at)
  BY DEF Observe
<1>10. alerted' <=> Exposes(m) \/ OverLimit(counters'[m.sender], m.at)
  <2>1. m.sender \in AllSenders
    BY <1>2 DEF Message, AllSenders
  <2>2. CASE Exposes(m)
    BY <1>9, <2>2
  <2>3. CASE ~Exposes(m)
    <3>1. counters'[m.sender] = RecordAction(counters[m.sender], m.at)
      <4> HIDE DEF m
      <4>1. QED BY <1>8, <1>9, <2>1, <2>3
    <3>2. QED BY <1>9, <2>3, <3>1
  <2>4. QED BY <2>2, <2>3
<1> HIDE DEF x, m, ms
<1>11. x.violation <=> Exposes(m) \/ OverLimit(counters'[m.sender], m.at)
  BY <1>4, <1>10
<1>12. counters' = IF Exposes(m) THEN counters
                   ELSE [counters EXCEPT ![m.sender] = RecordAction(counters[m.sender], m.at)]
  BY <1>9
<1>13. JudgedOK(Append(ms, m), Append(trail, x), counters')
  BY ONLY ProcessAssumption, <1>2, <1>4, <1>8, <1>11, <1>12, JudgedObserving
<1>14. QED BY <1>1, <1>5, <1>7, <1>13 DEF VerdictInv

\* every step
LEMMA VerdictKeeps ==
  ASSUME ProcessAssumption, TypeOK, OrderInv, VerdictInv, [Next]_vars
  PROVE  VerdictInv'
<1>1. Grows(log, log)
  BY LogStays DEF TypeOK
<1>2. batch = << >> => stage \notin {"publish", "record"}
  BY DEF OrderInv, OrderOK
<1>3. CASE \E s \in Range(TaskStreams), a \in Senders, p \in Payloads, t \in Times,
              e \in Encodings : AddTask(s, a, p, t, e)
  <2>1. PICK s \in Range(TaskStreams), a \in Senders, p \in Payloads, t \in Times,
              e \in Encodings : AddTask(s, a, p, t, e)
    BY <1>3
  <2>2. Grows(log, log')
    BY <2>1, AddTaskKeeps
  <2>3. UNCHANGED <<batch, stage, alerted, trail, counters>>
    BY <2>1 DEF AddTask, consumer
  <2>4. QED BY <2>2, <2>3, VerdictStays DEF Judged
<1>4. CASE EnsureGroups \/ CreateHealerGroup \/ Hear
  <2>1. UNCHANGED <<log, batch, stage, alerted, trail, counters>>
    BY <1>4 DEF EnsureGroups, CreateHealerGroup, Hear, redis, consumer
  <2>2. QED BY <1>1, <2>1, VerdictStays DEF Judged
<1>5. CASE Read \/ ReadLost
  <2>1. UNCHANGED <<log, stage, alerted, trail, counters>> /\ batch = << >>
    BY <1>5 DEF Read, ReadLost, Deliver, consumer
  <2>2. QED BY <1>1, <1>2, <2>1, VerdictStays DEF Judged
<1>6. CASE Observe
  BY <1>6, VerdictObserve
<1>7. CASE Publish
  <2>1. /\ stage = "publish" /\ stage' = "record"
        /\ UNCHANGED <<batch, alerted, trail, counters>>
    BY <1>7 DEF Publish
  <2>2. Judged' = Judged
    BY <2>1 DEF Judged
  <2>3. Grows(log, log')
    BY <1>7, PublishKeeps
  <2>4. QED BY <2>1, <2>2, <2>3, VerdictStays
<1>8. CASE Record
  <2>1. /\ stage = "record" /\ stage' = "ack" /\ UNCHANGED <<log, counters>>
        /\ trail' = Append(trail, [entry |-> batch[1], violation |-> alerted])
    BY <1>8 DEF Record, redis
  <2>2. Judged' = Judged
    BY <2>1 DEF Judged
  <2>3. QED BY <1>1, <2>1, <2>2, VerdictStays
<1>9. CASE Ack
  <2>1. /\ stage = "ack" /\ stage' = "observe" /\ UNCHANGED <<log, counters, trail>>
    BY <1>9 DEF Ack
  <2>2. Judged' = Judged
    BY <2>1 DEF Judged
  <2>3. QED BY <1>1, <2>1, <2>2, VerdictStays
<1>10. CASE Crash
  <2>1. /\ stage' = "observe" /\ trail' = << >>
        /\ counters' = [a \in AllSenders |-> << >>]
    BY <1>10 DEF Crash, TypeOK, AllSenders
  <2>2. Judged' = << >>
    BY <2>1 DEF Judged
  <2>3. QED BY <2>1, <2>2, NothingJudged DEF VerdictInv
<1>11. CASE UNCHANGED vars
  <2>1. UNCHANGED <<log, batch, stage, alerted, trail, counters>>
    BY <1>11 DEF vars, redis, consumer
  <2>2. QED BY <1>1, <2>1, VerdictStays DEF Judged
<1>12. QED BY <1>3, <1>4, <1>5, <1>6, <1>7, <1>8, <1>9, <1>10, <1>11 DEF Next, Consume

\* what the trail says of a message is what the messages before it make of it
LEMMA VerdictInvSuffices ==
  ASSUME ProcessAssumption, TypeOK, OrderInv, VerdictInv
  PROVE  VerdictsAreExact
<1> DEFINE ms == MessagesOf(log, Judged)
<1>1. /\ Judged \in Seq(Shown)
      /\ \A i \in DOMAIN Judged : Judged[i].entry[2] \in 1 .. given[Judged[i].entry[1]]
  BY JudgedIs
<1>2. /\ ms \in Seq(Message) /\ Len(ms) = Len(Judged)
      /\ \A i \in DOMAIN Judged : ms[i] = At(Judged[i].entry)
  BY <1>1, MessagesStay, LogStays DEF TypeOK
<1>3. \A j \in DOMAIN Judged : Steady(ms, j) => (Judged[j].violation <=> Verdict(ms, j))
  BY DEF VerdictInv, JudgedOK
<1>4. \A i \in DOMAIN trail : i \in DOMAIN Judged /\ Judged[i] = trail[i] /\ ms[i] = At(trail[i].entry)
  <2>1. trail \in Seq(Shown) /\ Len(trail) \in Nat /\ DOMAIN trail = 1 .. Len(trail)
    BY LenProperties DEF OrderInv, OrderOK
  <2>2. \A i \in DOMAIN trail : i \in DOMAIN Judged /\ Judged[i] = trail[i]
    <3>1. CASE stage \in {"publish", "record"}
      <4>1. Judged = Append(trail, [entry |-> batch[1], violation |-> alerted])
        BY <3>1 DEF Judged
      <4>2. batch[1] \in Entries /\ alerted \in BOOLEAN
        <5>1. batch # << >>
          BY <3>1 DEF OrderInv, OrderOK
        <5>2. QED BY <5>1, InHand DEF TypeOK
      <4> DEFINE x == [entry |-> batch[1], violation |-> alerted]
                 n == Len(trail)
      <4>3. x \in Shown
        BY <4>2 DEF Shown
      <4> HIDE DEF x
      <4>4. /\ DOMAIN Append(trail, x) = 1 .. n + 1
            /\ \A i \in 1 .. n : Append(trail, x)[i] = trail[i]
        BY <2>1, <4>3, AppendProperties, LenProperties
      <4>5. \A i \in 1 .. n : i \in 1 .. n + 1
        BY <2>1
      <4>6. QED BY <2>1, <4>1, <4>4, <4>5 DEF x
    <3>2. CASE stage \notin {"publish", "record"}
      BY <3>2 DEF Judged
    <3>3. QED BY <3>1, <3>2
  <2>3. QED BY <1>2, <2>2
<1> HIDE DEF ms
<1>5. ASSUME NEW j \in DOMAIN trail,
             \A i, k \in 1 .. j : i < k /\ At(trail[i].entry).sender = At(trail[k].entry).sender
               => At(trail[i].entry).at <= At(trail[k].entry).at
      PROVE  trail[j].violation <=>
               \/ Exposes(At(trail[j].entry))
               \/ Quantify(1 .. j, LAMBDA i : Counted(i, j)) > RateLimit
  <2>1. j \in Nat /\ \A i \in 1 .. j : i \in DOMAIN trail
    <3>1. Len(trail) \in Nat /\ DOMAIN trail = 1 .. Len(trail)
      BY LenProperties DEF OrderInv, OrderOK
    <3>2. QED BY <3>1
  <2>2. \A i \in 1 .. j : ms[i] = At(trail[i].entry)
    BY <1>4, <2>1
  <2>3. Steady(ms, j)
    BY <1>5, <2>2 DEF Steady
  <2>4. trail[j].violation <=> Verdict(ms, j)
    BY <1>3, <1>4, <2>3
  <2>5. ms[j] = At(trail[j].entry) /\ ms[j].at \in Nat
    <3>1. ms[j] \in Message
      BY <1>2, <1>4, ElementOfSeq, LenProperties
    <3>2. QED BY <1>4, <3>1 DEF Message, ProcessAssumption
  <2>6. \A i \in 1 .. j : Counted(i, j) <=>
          ms[i].sender = ms[j].sender /\ ~Exposes(ms[i]) /\ ms[i].at > Cutoff(ms[j].at)
    <3> TAKE i \in 1 .. j
    <3>1. ms[i].at \in Nat
      <4>1. ms[i] \in Message
        BY <1>2, <1>4, <2>1, ElementOfSeq, LenProperties
      <4>2. QED BY <4>1 DEF Message, ProcessAssumption
    <3>2. ms[i].at > Cutoff(ms[j].at) <=> ms[i].at + RateWindow > ms[j].at /\ ms[i].at > 0
      BY <2>5, <3>1, CutoffIs
    <3>3. ms[i] = At(trail[i].entry)
      BY <2>2
    <3>4. QED BY <2>5, <3>2, <3>3 DEF Counted
  <2>7. Quantify(1 .. j, LAMBDA i : Counted(i, j)) = CountTo(ms, j, ms[j].sender, ms[j].at)
    <3>1. {i \in 1 .. j : Counted(i, j)}
            = {i \in 1 .. j : ms[i].sender = ms[j].sender /\ ~Exposes(ms[i])
                                /\ ms[i].at > Cutoff(ms[j].at)}
      BY <2>6
    <3>2. QED BY <3>1 DEF Quantify, CountTo
  <2>8. QED BY <2>4, <2>5, <2>7 DEF Verdict
<1>6. QED BY <1>5 DEF VerdictsAreExact

\* A recorded verdict is a violation exactly if the message shows a credential
\* or its sender has more than the limit in the window, for a sender whose
\* timestamps never went back (shield.rs, observe_message, RateCounter).
THEOREM VerdictsAreMeant ==
  ASSUME ProcessAssumption PROVE Spec => []VerdictsAreExact
<1>1. Init => VerdictInv
  <2>1. Init => Judged = << >> /\ counters = [a \in AllSenders |-> << >>]
    BY DEF Init, Judged, AllSenders
  <2>2. QED BY <2>1, NothingJudged DEF VerdictInv
<1>2. (TypeOK /\ OrderInv) /\ VerdictInv /\ [Next]_vars => VerdictInv'
  BY VerdictKeeps
<1>3. TypeOK /\ OrderInv /\ VerdictInv => VerdictsAreExact
  BY VerdictInvSuffices
<1>4. QED BY <1>1, <1>2, <1>3, ProcessSound, PTL DEF Spec
=============================================================================
