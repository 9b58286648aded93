--------------------------- MODULE DeliveryProofs ---------------------------
(***************************************************************************)
(* Proofs that http_codec and http_request deliver each request whole, for *)
(* every stream of requests, every buffer size and every split into reads. *)
(***************************************************************************)
EXTENDS DispatchProofs

-----------------------------------------------------------------------------
(* Sequences that are joined from parts *)

\* s is the first k of the parts ss, joined: part i lies behind place off[i - 1].
Joined(ss, k, off, s) ==
  /\ off \in [0 .. k -> Nat] /\ off[0] = 0
  /\ \A i \in 1 .. k : off[i] = off[i - 1] + Len(ss[i])
  /\ Len(s) = off[k]
  /\ \A i \in 1 .. k : \A j \in 1 .. Len(ss[i]) : s[off[i - 1] + j] = ss[i][j]

Recursion(ss, n, f) ==
  f = [i \in 1 .. n |-> IF i = 1 THEN ss[i] ELSE f[i - 1] \o ss[i]]

LEMMA FlattenDef ==
  ASSUME NEW ss, Len(ss) \in Nat \ {0}, \E f : Recursion(ss, Len(ss), f)
  PROVE  \E f : Recursion(ss, Len(ss), f) /\ FlattenSeq(ss) = f[Len(ss)]
<1>. DEFINE n == Len(ss)
            G == CHOOSE g : g = [i \in 1 .. n |-> IF i = 1 THEN ss[i] ELSE g[i - 1] \o ss[i]]
<1>1. G = [i \in 1 .. n |-> IF i = 1 THEN ss[i] ELSE G[i - 1] \o ss[i]]
  BY DEF Recursion
<1>2. FlattenSeq(ss) = G[n]
  BY DEF FlattenSeq
<1>. QED BY <1>1, <1>2 DEF Recursion

LEMMA RecursionExists ==
  ASSUME NEW ss, NEW n \in Nat
  PROVE  \E f : Recursion(ss, n, f)
<1>. DEFINE G == {k \in Nat : \E f : Recursion(ss, k, f)}
<1>1. 0 \in G
  <2>1. Recursion(ss, 0, [i \in 1 .. 0 |-> ss[i]])  BY DEF Recursion
  <2>. QED  BY <2>1
<1>2. ASSUME NEW k \in 0 .. n - 1, k \in G  PROVE k + 1 \in G
  <2>1. PICK f : Recursion(ss, k, f)  BY <1>2
  <2>. DEFINE last == IF k + 1 = 1 THEN ss[k + 1] ELSE f[k] \o ss[k + 1]
              g == [i \in 1 .. k + 1 |-> IF i = k + 1 THEN last ELSE f[i]]
  <2>2. f = [i \in 1 .. k |-> IF i = 1 THEN ss[i] ELSE f[i - 1] \o ss[i]]  BY <2>1 DEF Recursion
  <2>3. \A i \in 1 .. k : g[i] = f[i]  OBVIOUS
  <2>4. g[k + 1] = last  OBVIOUS
  <2>5. ASSUME NEW i \in 1 .. k + 1
        PROVE  g[i] = IF i = 1 THEN ss[i] ELSE g[i - 1] \o ss[i]
    <3>1. CASE i = k + 1
      <4>1. i # 1 => i - 1 \in 1 .. k /\ i - 1 = k  BY <3>1
      <4>. HIDE DEF g
      <4>. QED  BY <2>3, <2>4, <3>1, <4>1
    <3>2. CASE i # k + 1
      <4>1. i \in 1 .. k /\ (i # 1 => i - 1 \in 1 .. k)  BY <3>2
      <4>. HIDE DEF g
      <4>2. g[i] = f[i] /\ (i # 1 => g[i - 1] = f[i - 1])  BY <2>3, <4>1
      <4>3. f[i] = IF i = 1 THEN ss[i] ELSE f[i - 1] \o ss[i]  BY <2>2, <4>1
      <4>. QED  BY <4>2, <4>3
    <3>. QED  BY <3>1, <3>2
  <2>6. g = [i \in 1 .. k + 1 |-> g[i]]  OBVIOUS
  <2>. HIDE DEF g
  <2>7. Recursion(ss, k + 1, g)  BY <2>5, <2>6 DEF Recursion
  <2>. QED  BY <2>7
<1>. HIDE DEF G
<1>3. n \in G  
  <2>1. G \in SUBSET Nat  BY DEF G
  <2>2. \A k \in 0 .. n : k \in G  BY <1>1, <1>2, <2>1, Steps
  <2>. QED  BY <2>2
<1>. QED  BY <1>3 DEF G

LEMMA Concat ==
  ASSUME NEW S, NEW s \in Seq(S), NEW t \in Seq(S)
  PROVE  /\ s \o t \in Seq(S) /\ Len(s \o t) = Len(s) + Len(t)
         /\ Len(s) \in Nat /\ Len(t) \in Nat
         /\ \A i \in 1 .. Len(s) : (s \o t)[i] = s[i]
         /\ \A i \in 1 .. Len(t) : (s \o t)[Len(s) + i] = t[i]
         /\ s = <<>> => s \o t = t
OBVIOUS

LEMMA JoinedEmpty ==
  ASSUME NEW ss
  PROVE  \E off : Joined(ss, 0, off, <<>>)
<1>1. PICK off : off = [i \in 0 .. 0 |-> 0]  OBVIOUS
<1>2. off \in [0 .. 0 -> Nat] /\ off[0] = 0 /\ Len(<<>>) = 0  BY <1>1
<1>3. 1 .. 0 = {}  OBVIOUS
<1>. QED  BY <1>2, <1>3 DEF Joined

\* Offsets that grow at every step grow.
LEMMA OffsetsGrow ==
  ASSUME NEW k \in Nat, NEW off \in [0 .. k -> Nat], \A i \in 1 .. k : off[i - 1] <= off[i],
         NEW a \in 0 .. k, NEW b \in 0 .. k, a <= b
  PROVE  off[a] <= off[b]
<1>. DEFINE G == {e \in Nat : a + e <= k => off[a] <= off[a + e]}
<1>1. 0 \in G
  <2>1. a + 0 = a /\ off[a] \in Nat  OBVIOUS
  <2>. QED  BY <2>1
<1>2. ASSUME NEW e \in 0 .. b - a - 1, e \in G  PROVE e + 1 \in G
  <2>1. a + e \in 0 .. k /\ a + e + 1 \in 1 .. k /\ a + e + 1 - 1 = a + e  OBVIOUS
  <2>2. off[a + e] <= off[a + e + 1]  BY <2>1
  <2>3. a + e + 1 \in 0 .. k  BY <2>1
  <2>4. off[a + e] \in Nat /\ off[a] \in Nat /\ off[a + e + 1] \in Nat  BY <2>1, <2>3
  <2>5. off[a] <= off[a + e]  BY <1>2, <2>1
  <2>6. off[a] <= off[a + e + 1]  BY <2>2, <2>4, <2>5
  <2>. QED  BY <2>6
<1>3. b - a \in Nat /\ b - a \in 0 .. b - a /\ a + (b - a) = b  OBVIOUS
<1>4. b - a \in G
  <2>1. G \in SUBSET Nat  OBVIOUS
  <2>. HIDE DEF G
  <2>2. \A e \in 0 .. b - a : e \in G  BY <1>1, <1>2, <1>3, <2>1, Steps
  <2>. QED  BY <1>3, <2>2
<1>. QED  BY <1>3, <1>4

LEMMA JoinedMore ==
  ASSUME NEW S, NEW ss, NEW k \in Nat, \A i \in 1 .. k + 1 : ss[i] \in Seq(S),
         NEW s \in Seq(S), NEW off, Joined(ss, k, off, s)
  PROVE  \E o : Joined(ss, k + 1, o, s \o ss[k + 1])
<1>. DEFINE len == [i \in 1 .. k + 1 |-> Len(ss[i])]
<1>0. /\ len \in [1 .. k + 1 -> Nat] /\ \A i \in 1 .. k + 1 : Len(ss[i]) = len[i]
  <2>1. \A i \in 1 .. k + 1 : Len(ss[i]) \in Nat
    <3>1. ASSUME NEW i \in 1 .. k + 1  PROVE Len(ss[i]) \in Nat
      <4>1. ss[i] \in Seq(S)  OBVIOUS
      <4>. QED  BY <4>1
    <3>. QED  BY <3>1
  <2>. QED  BY <2>1
<1>. HIDE DEF len
<1>1. /\ off \in [0 .. k -> Nat] /\ off[0] = 0 /\ Len(s) = off[k]
      /\ \A i \in 1 .. k : off[i] = off[i - 1] + len[i]
      /\ \A i \in 1 .. k : \A j \in 1 .. len[i] : s[off[i - 1] + j] = ss[i][j]
  <2>1. \A i \in 1 .. k : i \in 1 .. k + 1  OBVIOUS
  <2>2. off \in [0 .. k -> Nat] /\ off[0] = 0 /\ Len(s) = off[k]  BY DEF Joined
  <2>3. \A i \in 1 .. k : off[i] = off[i - 1] + len[i]
    <3>1. \A i \in 1 .. k : off[i] = off[i - 1] + Len(ss[i])  BY DEF Joined
    <3>. QED  BY <1>0, <2>1, <3>1
  <2>4. \A i \in 1 .. k : \A j \in 1 .. len[i] : s[off[i - 1] + j] = ss[i][j]
    <3>1. \A i \in 1 .. k : \A j \in 1 .. Len(ss[i]) : s[off[i - 1] + j] = ss[i][j]
      BY DEF Joined
    <3>. QED  BY <1>0, <2>1, <3>1
  <2>. QED  BY <2>2, <2>3, <2>4
<1>2. PICK t \in Seq(S) : t = ss[k + 1]  OBVIOUS
<1>3. PICK u : u = s \o t  OBVIOUS
<1>4. PICK l \in Nat : l = len[k + 1] /\ Len(t) = l  BY <1>0, <1>2
<1>5. PICK e \in Nat : e = off[k] /\ Len(s) = e  BY <1>1
<1>6. /\ u \in Seq(S) /\ Len(u) = e + l
      /\ \A i \in 1 .. e : u[i] = s[i]
      /\ \A i \in 1 .. l : u[e + i] = t[i]
  <2>1. u \in Seq(S) /\ Len(u) = Len(s) + Len(t)  BY <1>3
  <2>2. \A i \in 1 .. Len(s) : u[i] = s[i]  BY <1>3
  <2>3. \A i \in 1 .. Len(t) : u[Len(s) + i] = t[i]  BY <1>3, Concat
  <2>. QED  BY <1>4, <1>5, <2>1, <2>2, <2>3
<1>7. PICK o : o = [i \in 0 .. k + 1 |-> IF i = k + 1 THEN e + l ELSE off[i]]  OBVIOUS
<1>8. /\ o \in [0 .. k + 1 -> Nat] /\ \A i \in 0 .. k : o[i] = off[i]
      /\ o[k + 1] = e + l /\ o[0] = 0
  BY <1>1, <1>7
<1>9. ASSUME NEW i \in 1 .. k + 1
      PROVE  /\ o[i] = o[i - 1] + Len(ss[i])
             /\ \A j \in 1 .. Len(ss[i]) : u[o[i - 1] + j] = ss[i][j]
  <2>1. CASE i = k + 1
    <3>1. i - 1 = k /\ k \in 0 .. k /\ o[i - 1] = e  BY <1>5, <1>8, <2>1
    <3>2. Len(ss[i]) = l /\ ss[i] = t  BY <1>2, <1>4, <2>1
    <3>. QED  BY <1>6, <1>8, <2>1, <3>1, <3>2
  <2>2. CASE i # k + 1
    <3>1. i \in 1 .. k /\ i \in 0 .. k /\ i - 1 \in 0 .. k /\ k \in 0 .. k /\ i <= k  BY <2>2
    <3>2. PICK a \in Nat : a = off[i - 1]  BY <1>1, <3>1
    <3>3. PICK n \in Nat : n = len[i] /\ n = Len(ss[i])  BY <1>0
    <3>4. off[i] = a + n /\ o[i] = a + n /\ o[i - 1] = a  BY <1>1, <1>8, <3>1, <3>2, <3>3
    <3>5. a + n <= e
      <4>1. \A z \in 1 .. k : off[z - 1] <= off[z]
        <5>1. ASSUME NEW z \in 1 .. k  PROVE off[z - 1] <= off[z]
          <6>1. z - 1 \in 0 .. k /\ z \in 1 .. k + 1  OBVIOUS
          <6>2. off[z - 1] \in Nat /\ len[z] \in Nat /\ off[z] = off[z - 1] + len[z]
            BY <1>0, <1>1, <6>1
          <6>. QED  BY <6>2
        <5>. QED  BY <5>1
      <4>2. off[i] <= off[k]  BY <1>1, <3>1, <4>1, OffsetsGrow
      <4>. QED  BY <1>5, <3>4, <4>2
    <3>6. ASSUME NEW j \in 1 .. n  PROVE u[a + j] = ss[i][j]
      <4>1. a + j \in 1 .. e  BY <3>5
      <4>2. s[a + j] = ss[i][j]  BY <1>1, <3>1, <3>2, <3>3
      <4>. QED  BY <1>6, <4>1, <4>2
    <3>. QED  BY <3>3, <3>4, <3>6
  <2>. QED  BY <2>1, <2>2
<1>10. Joined(ss, k + 1, o, u)
  BY <1>6, <1>8, <1>9 DEF Joined
<1>. QED  BY <1>2, <1>3, <1>10

\* FlattenSeq joins the parts.
LEMMA FlattenJoins ==
  ASSUME NEW S, NEW ss \in Seq(Seq(S))
  PROVE  FlattenSeq(ss) \in Seq(S) /\ \E off : Joined(ss, Len(ss), off, FlattenSeq(ss))
<1>. DEFINE n == Len(ss)
<1>0. n \in Nat  OBVIOUS
<1>1. CASE n = 0
  <2>1. ss = <<>> /\ FlattenSeq(ss) = <<>>  BY <1>1 DEF FlattenSeq
  <2>2. \E off : Joined(ss, 0, off, <<>>)  BY JoinedEmpty
  <2>3. <<>> \in Seq(S)  OBVIOUS
  <2>. QED  BY <1>1, <2>1, <2>2, <2>3
<1>2. CASE n # 0
  <2>1. PICK f : Recursion(ss, n, f) /\ FlattenSeq(ss) = f[n]
    BY <1>0, <1>2, RecursionExists, FlattenDef
  <2>2. \A i \in 1 .. n : f[i] = IF i = 1 THEN ss[i] ELSE f[i - 1] \o ss[i]
    BY <2>1 DEF Recursion
  <2>. DEFINE s(k) == IF k = 0 THEN <<>> ELSE f[k]
              G == {k \in Nat : k <= n => s(k) \in Seq(S) /\ \E off : Joined(ss, k, off, s(k))}
  <2>3. 0 \in G
    <3>1. s(0) = <<>> /\ <<>> \in Seq(S)  OBVIOUS
    <3>2. \E off : Joined(ss, 0, off, s(0))  BY <3>1, JoinedEmpty
    <3>. HIDE DEF s
    <3>. QED  BY <3>1, <3>2
  <2>4. ASSUME NEW k \in 0 .. n - 1, k \in G  PROVE k + 1 \in G
    <3>1. s(k) \in Seq(S) /\ k \in Nat /\ k < Len(ss) /\ ss[k + 1] \in Seq(S)  BY <1>0, <2>4
    <3>2. PICK off : Joined(ss, k, off, s(k))  BY <1>0, <2>4
    <3>3. s(k + 1) = s(k) \o ss[k + 1]
      <4>1. k + 1 \in 1 .. n /\ k + 1 # 0 /\ k + 1 - 1 = k  BY <1>0
      <4>2. CASE k = 0  BY <2>2, <3>1, <4>1, <4>2, Concat
      <4>3. CASE k # 0
        <5>0. k + 1 # 1  BY <4>3
        <5>1. PICK z \in 1 .. n : z = k + 1 /\ z # 1 /\ z - 1 = k  BY <4>1, <5>0
        <5>2. f[z] = f[z - 1] \o ss[z]  BY <2>2, <5>1
        <5>3. f[k + 1] = f[k] \o ss[k + 1]  BY <5>1, <5>2
        <5>. QED  BY <4>1, <4>3, <5>3
      <4>. QED  BY <4>2, <4>3
    <3>. HIDE DEF s
    <3>4. s(k + 1) \in Seq(S)  BY <3>1, <3>3, Concat
    <3>5. \E o : Joined(ss, k + 1, o, s(k + 1))
      <4>1. \A i \in 1 .. k + 1 : ss[i] \in Seq(S)  BY <1>0
      <4>. QED  BY <3>1, <3>2, <3>3, <4>1, JoinedMore
    <3>. QED  BY <3>4, <3>5
  <2>5. n \in G
    <3>1. G \in SUBSET Nat  OBVIOUS
    <3>. HIDE DEF G
    <3>2. \A k \in 0 .. n : k \in G  BY <1>0, <2>3, <2>4, <3>1, Steps
    <3>. QED  BY <1>0, <3>2
  <2>6. s(n) \in Seq(S) /\ \E off : Joined(ss, n, off, s(n))
    <3>. HIDE DEF s
    <3>. QED  BY <1>0, <2>5
  <2>. QED  BY <1>2, <2>1, <2>6
<1>. QED  BY <1>1, <1>2

LEMMA JoinedOffsets ==
  ASSUME NEW ss, NEW n \in Nat, \A i \in 1 .. n : Len(ss[i]) \in Nat,
         NEW off, NEW s, Joined(ss, n, off, s)
  PROVE  /\ off \in [0 .. n -> Nat]
         /\ \A a, b \in 0 .. n : a <= b => off[a] <= off[b]
         /\ \A i \in 1 .. n : off[i - 1] \in Nat /\ off[i] = off[i - 1] + Len(ss[i])
                              /\ off[i] <= Len(s)
         /\ Len(s) \in Nat
<1>1. off \in [0 .. n -> Nat] /\ \A i \in 1 .. n : off[i] = off[i - 1] + Len(ss[i])
  BY DEF Joined
<1>2. \A i \in 1 .. n : off[i - 1] \in Nat /\ off[i - 1] <= off[i]
  <2>1. ASSUME NEW i \in 1 .. n  PROVE off[i - 1] \in Nat /\ off[i - 1] <= off[i]
    <3>1. i - 1 \in 0 .. n /\ Len(ss[i]) \in Nat  OBVIOUS
    <3>2. off[i - 1] \in Nat /\ off[i] = off[i - 1] + Len(ss[i])  BY <1>1, <3>1
    <3>. QED  BY <3>1, <3>2
  <2>. QED  BY <2>1
<1>3. \A a, b \in 0 .. n : a <= b => off[a] <= off[b]
  BY <1>1, <1>2, OffsetsGrow
<1>4. Len(s) = off[n] /\ n \in 0 .. n /\ Len(s) \in Nat  BY <1>1 DEF Joined
<1>5. \A i \in 1 .. n : off[i] <= Len(s)
  <2>1. ASSUME NEW i \in 1 .. n  PROVE off[i] <= off[n]
    <3>1. i \in 0 .. n /\ i <= n  OBVIOUS
    <3>. QED  BY <1>3, <1>4, <3>1
  <2>. QED  BY <1>4, <2>1
<1>. QED  BY <1>1, <1>2, <1>3, <1>4, <1>5

\* There is only one way to join them.
LEMMA JoinedOnce ==
  ASSUME NEW S, NEW ss, NEW n \in Nat, \A i \in 1 .. n : Len(ss[i]) \in Nat,
         NEW s \in Seq(S), NEW t \in Seq(S), NEW off, NEW o,
         Joined(ss, n, off, s), Joined(ss, n, o, t)
  PROVE  s = t
<1>1. /\ off \in [0 .. n -> Nat] /\ off[0] = 0 /\ Len(s) = off[n] /\ n \in 0 .. n
      /\ o \in [0 .. n -> Nat] /\ o[0] = 0 /\ Len(t) = o[n]
      /\ \A i \in 1 .. n : off[i] = off[i - 1] + Len(ss[i])
      /\ \A i \in 1 .. n : o[i] = o[i - 1] + Len(ss[i])
      /\ \A i \in 1 .. n : off[i - 1] \in Nat /\ o[i - 1] \in Nat
  BY JoinedOffsets DEF Joined
<1>. DEFINE Same(k) == /\ off[k] = o[k]
                       /\ \A p \in 1 .. off[k] : s[p] = t[p]
            G == {k \in Nat : k <= n => Same(k)}
<1>2. 0 \in G
  <2>1. Same(0)  BY <1>1
  <2>. QED  BY <2>1
<1>3. ASSUME NEW k \in 0 .. n - 1, k \in G  PROVE k + 1 \in G
  <2>1. PICK i \in 1 .. n : i = k + 1 /\ i - 1 = k  OBVIOUS
  <2>2. PICK a \in Nat : a = off[i - 1]  BY <1>1
  <2>3. PICK l \in Nat : l = Len(ss[i])  OBVIOUS
  <2>4. Same(k)  BY <1>3
  <2>5. o[i - 1] = a /\ \A p \in 1 .. a : s[p] = t[p]  BY <2>1, <2>2, <2>4
  <2>6. off[i] = a + l /\ o[i] = a + l  BY <1>1, <2>2, <2>3, <2>5
  <2>7. ASSUME NEW p \in 1 .. a + l, ~(p <= a)  PROVE s[p] = t[p]
    <3>1. PICK j \in 1 .. l : p = a + j
      <4>1. p - a \in 1 .. l /\ p = a + (p - a)  BY <2>7
      <4>. QED  BY <4>1
    <3>2. s[a + j] = ss[i][j]  BY <2>2, <2>3 DEF Joined
    <3>3. t[a + j] = ss[i][j]  BY <2>3, <2>5 DEF Joined
    <3>. QED  BY <3>1, <3>2, <3>3
  <2>8. ASSUME NEW p \in 1 .. a + l  PROVE s[p] = t[p]
    <3>1. p <= a => p \in 1 .. a  OBVIOUS
    <3>. QED  BY <2>5, <2>7, <3>1
  <2>9. Same(i)  BY <2>6, <2>8
  <2>. HIDE DEF Same
  <2>. QED  BY <2>1, <2>9
<1>4. n \in G
  <2>1. G \in SUBSET Nat  OBVIOUS
  <2>. HIDE DEF G
  <2>2. \A k \in 0 .. n : k \in G  BY <1>2, <1>3, <2>1, Steps
  <2>. QED  BY <2>2
<1>5. Len(s) = Len(t) /\ \A p \in 1 .. Len(s) : s[p] = t[p]  BY <1>1, <1>4
<1>. QED  BY <1>5
-----------------------------------------------------------------------------
(* What the bytes of the stream are *)

Marks == {"skip", "colon", "eol", "head"}
Byte == [k : {"url"}, x : STRING] \cup [k : {"name", "value", "body"} \cup Marks, x : Nat]

\* The text s lies behind place b of w, as bytes of that kind.
IsAt(w, b, kind, s) == \A i \in 1 .. Len(s) : w[b + i].k = kind /\ w[b + i].x = s[i]

\* w lies behind place b of v.
Inside(w, b, v) == \A i \in 1 .. Len(w) : v[b + i] = w[i]

\* The line of field f lies behind place b of w.
IsLine(w, b, f) ==
  /\ IsAt(w, b, "name", f.name)
  /\ w[b + Len(f.name) + 1].k = "colon"
  /\ IsAt(w, b + Len(f.name) + 1, "value", f.value)
  /\ w[b + Len(f.name) + Len(f.value) + 2].k = "eol"

Width(f) == Len(f.name) + Len(f.value) + 2

\* Where the line of each field ends.
LineEnd(fs) ==
  LET end[j \in 0 .. Len(fs)] == IF j = 0 THEN 0 ELSE end[j - 1] + Width(fs[j])
  IN  end

Line(f) == Bytes("name", f.name) \o Mark("colon") \o Bytes("value", f.value) \o Mark("eol")

\* The lines of the fields fs lie behind place b of w.
AreLines(w, b, fs) == \A j \in 1 .. Len(fs) : IsLine(w, b + LineEnd(fs)[j - 1], fs[j])

LEMMA Tabulated ==
  ASSUME NEW S, NEW n \in Nat, NEW b \in [1 .. n -> S]
  PROVE  b \in Seq(S) /\ Len(b) = n /\ \A i \in 1 .. n : b[i] \in S
OBVIOUS

LEMMA BytesFacts ==
  ASSUME NEW kind \in {"name", "value", "body"}, NEW s \in Text
  PROVE  /\ Bytes(kind, s) \in Seq(Byte) /\ Len(Bytes(kind, s)) = Len(s)
         /\ \A i \in 1 .. Len(s) : Bytes(kind, s)[i] = [k |-> kind, x |-> s[i]]
         /\ Len(s) \in Nat
<1>1. Len(s) \in Nat /\ DOMAIN s = 1 .. Len(s) /\ \A i \in 1 .. Len(s) : s[i] \in Nat
  BY DEF Text
<1>2. \A i \in 1 .. Len(s) : [k |-> kind, x |-> s[i]] \in Byte
  BY <1>1 DEF Byte
<1>. DEFINE b == [i \in 1 .. Len(s) |-> [k |-> kind, x |-> s[i]]]
<1>3. b \in [1 .. Len(s) -> Byte]  BY <1>2
<1>4. b \in Seq(Byte) /\ Len(b) = Len(s)
  <2>. HIDE DEF b
  <2>. QED  BY <1>1, <1>3, Tabulated
<1>5. Bytes(kind, s) = b  BY <1>1 DEF Bytes
<1>. QED  BY <1>1, <1>4, <1>5

LEMMA UrlFacts ==
  ASSUME NEW s \in Seq(STRING)
  PROVE  /\ Bytes("url", s) \in Seq(Byte) /\ Len(Bytes("url", s)) = Len(s)
         /\ \A i \in 1 .. Len(s) : Bytes("url", s)[i] = [k |-> "url", x |-> s[i]]
         /\ Len(s) \in Nat
<1>1. Len(s) \in Nat /\ DOMAIN s = 1 .. Len(s) /\ \A i \in 1 .. Len(s) : s[i] \in STRING
  OBVIOUS
<1>2. \A i \in 1 .. Len(s) : [k |-> "url", x |-> s[i]] \in Byte
  BY <1>1 DEF Byte
<1>. DEFINE b == [i \in 1 .. Len(s) |-> [k |-> "url", x |-> s[i]]]
<1>3. b \in [1 .. Len(s) -> Byte]  BY <1>2
<1>4. b \in Seq(Byte) /\ Len(b) = Len(s)
  <2>. HIDE DEF b
  <2>. QED  BY <1>1, <1>3, Tabulated
<1>5. Bytes("url", s) = b  BY <1>1 DEF Bytes
<1>. QED  BY <1>1, <1>4, <1>5

LEMMA MarkFacts ==
  ASSUME NEW kind \in Marks
  PROVE  Mark(kind) \in Seq(Byte) /\ Len(Mark(kind)) = 1 /\ Mark(kind)[1].k = kind
<1>1. [k |-> kind, x |-> 0] \in Byte  BY DEF Byte
<1>. QED  BY <1>1 DEF Mark

\* u is s and then t.
Followed(u, s, n, t, m) ==
  /\ u \in Seq(Byte) /\ Len(u) = n + m
  /\ \A i \in 1 .. n : u[i] = s[i]
  /\ \A i \in 1 .. m : u[n + i] = t[i]

LEMMA Both ==
  ASSUME NEW s \in Seq(Byte), NEW t \in Seq(Byte)
  PROVE  Followed(s \o t, s, Len(s), t, Len(t)) /\ Len(s) \in Nat /\ Len(t) \in Nat
<1>1. s \o t \in Seq(Byte) /\ Len(s \o t) = Len(s) + Len(t)  OBVIOUS
<1>2. \A i \in 1 .. Len(s) : (s \o t)[i] = s[i]  OBVIOUS
<1>3. \A i \in 1 .. Len(t) : (s \o t)[Len(s) + i] = t[i]  BY Concat
<1>. QED  BY <1>1, <1>2, <1>3 DEF Followed

\* Where the parts of a line lie.
LEMMA LineFacts ==
  ASSUME NEW f \in Field
  PROVE  /\ Line(f) \in Seq(Byte) /\ Len(Line(f)) = Width(f) /\ IsLine(Line(f), 0, f)
         /\ Len(f.name) \in Nat /\ Len(f.value) \in Nat /\ Len(f.name) > 0
<1>1. f.name \in Text /\ f.value \in Text /\ f.name # <<>>  BY DEF Field
<1>2. PICK N \in Nat : N = Len(f.name) /\ N > 0  BY <1>1 DEF Text
<1>3. PICK V \in Nat : V = Len(f.value)  BY <1>1 DEF Text
<1>4. PICK n \in Seq(Byte) : /\ n = Bytes("name", f.name) /\ Len(n) = N
                             /\ \A i \in 1 .. N : n[i] = [k |-> "name", x |-> f.name[i]]
  BY <1>1, <1>2, BytesFacts
<1>5. PICK v \in Seq(Byte) : /\ v = Bytes("value", f.value) /\ Len(v) = V
                             /\ \A i \in 1 .. V : v[i] = [k |-> "value", x |-> f.value[i]]
  BY <1>1, <1>3, BytesFacts
<1>6. PICK c \in Seq(Byte) : c = Mark("colon") /\ Len(c) = 1 /\ c[1].k = "colon"
  BY MarkFacts DEF Marks
<1>7. PICK e \in Seq(Byte) : e = Mark("eol") /\ Len(e) = 1 /\ e[1].k = "eol"
  BY MarkFacts DEF Marks
<1>8. PICK a \in Seq(Byte) : a = n \o c /\ Followed(a, n, N, c, 1)
  <2>1. Followed(n \o c, n, N, c, 1)  BY <1>4, <1>6, Both
  <2>. QED  BY <2>1 DEF Followed
<1>9. PICK b \in Seq(Byte) : b = a \o v /\ Followed(b, a, N + 1, v, V)
  <2>1. Len(a) = N + 1  BY <1>8 DEF Followed
  <2>2. Followed(a \o v, a, N + 1, v, V)  BY <1>5, <2>1, Both
  <2>. QED  BY <2>2 DEF Followed
<1>10. PICK l \in Seq(Byte) : l = b \o e /\ Followed(l, b, N + 1 + V, e, 1)
  <2>1. Len(b) = N + 1 + V  BY <1>9 DEF Followed
  <2>2. Followed(b \o e, b, N + 1 + V, e, 1)  BY <1>7, <2>1, Both
  <2>. QED  BY <2>2 DEF Followed
<1>11. Line(f) = l  BY <1>4, <1>5, <1>6, <1>7, <1>8, <1>9, <1>10 DEF Line
<1>12. IsAt(l, 0, "name", f.name)
  <2>1. ASSUME NEW i \in 1 .. N  PROVE l[i] = [k |-> "name", x |-> f.name[i]]
    <3>1. i \in 1 .. N + 1 /\ i \in 1 .. N + 1 + V  OBVIOUS
    <3>2. a[i] = n[i]  BY <1>8 DEF Followed
    <3>3. b[i] = a[i]  BY <1>9, <3>1 DEF Followed
    <3>4. l[i] = b[i]  BY <1>10, <3>1 DEF Followed
    <3>5. n[i] = [k |-> "name", x |-> f.name[i]]  BY <1>4
    <3>. QED  BY <3>2, <3>3, <3>4, <3>5
  <2>2. \A i \in 1 .. N : l[0 + i].k = "name" /\ l[0 + i].x = f.name[i]
    <3>1. ASSUME NEW i \in 1 .. N  PROVE l[0 + i].k = "name" /\ l[0 + i].x = f.name[i]
      <4>1. 0 + i = i  OBVIOUS
      <4>2. l[0 + i] = [k |-> "name", x |-> f.name[i]]  BY <2>1, <4>1
      <4>. QED  BY <4>2
    <3>. QED  BY <3>1
  <2>. QED  BY <1>2, <2>2 DEF IsAt
<1>13. IsAt(l, N + 1, "value", f.value)
  <2>1. ASSUME NEW i \in 1 .. V  PROVE l[N + 1 + i] = [k |-> "value", x |-> f.value[i]]
    <3>1. N + 1 + i \in 1 .. N + 1 + V  OBVIOUS
    <3>2. b[N + 1 + i] = v[i]  BY <1>9 DEF Followed
    <3>3. l[N + 1 + i] = b[N + 1 + i]  BY <1>10, <3>1 DEF Followed
    <3>4. v[i] = [k |-> "value", x |-> f.value[i]]  BY <1>5
    <3>. QED  BY <3>2, <3>3, <3>4
  <2>2. \A i \in 1 .. V : l[N + 1 + i].k = "value" /\ l[N + 1 + i].x = f.value[i]
    <3>1. ASSUME NEW i \in 1 .. V
          PROVE  l[N + 1 + i].k = "value" /\ l[N + 1 + i].x = f.value[i]
      <4>1. l[N + 1 + i] = [k |-> "value", x |-> f.value[i]]  BY <2>1
      <4>. QED  BY <4>1
    <3>. QED  BY <3>1
  <2>. QED  BY <1>3, <2>2 DEF IsAt
<1>14. l[N + 1].k = "colon"
  <2>1. N + 1 \in 1 .. N + 1 /\ N + 1 \in 1 .. N + 1 + V  OBVIOUS
  <2>3. a[N + 1] = c[1]  BY <1>8 DEF Followed
  <2>4. b[N + 1] = a[N + 1]  BY <1>9, <2>1 DEF Followed
  <2>5. l[N + 1] = b[N + 1]  BY <1>10, <2>1 DEF Followed
  <2>2. l[N + 1] = c[1]  BY <2>3, <2>4, <2>5
  <2>. QED  BY <1>6, <2>2
<1>16. Len(l) = N + 1 + V + 1 /\ l[N + 1 + V + 1].k = "eol"
  <2>1. Len(l) = N + 1 + V + 1 /\ l[N + 1 + V + 1] = e[1]  BY <1>10 DEF Followed
  <2>. QED  BY <1>7, <2>1
<1>15. 0 + N + 1 = N + 1 /\ 0 + N + V + 2 = N + 1 + V + 1 /\ N + V + 2 = N + 1 + V + 1
  OBVIOUS
<1>. QED  BY <1>2, <1>3, <1>10, <1>11, <1>12, <1>13, <1>14, <1>15, <1>16 DEF IsLine, Width

\* A line lies wherever the sequence lies that it is part of.
LEMMA IsAtInside ==
  ASSUME NEW w, NEW v, NEW a \in Nat, NEW b \in Nat, NEW kind, NEW s,
         Len(s) \in Nat, Len(w) \in Nat, a + Len(s) <= Len(w), Inside(w, b, v), IsAt(w, a, kind, s)
  PROVE  IsAt(v, b + a, kind, s)
<1>. SUFFICES ASSUME NEW i \in 1 .. Len(s)
              PROVE  v[b + a + i].k = kind /\ v[b + a + i].x = s[i]
  BY DEF IsAt
<1>1. a + i \in 1 .. Len(w) /\ b + (a + i) = b + a + i  OBVIOUS
<1>2. v[b + (a + i)] = w[a + i]  BY <1>1 DEF Inside
<1>. QED  BY <1>1, <1>2 DEF IsAt

LEMMA LineInside ==
  ASSUME NEW w, NEW v, NEW a \in Nat, NEW b \in Nat, NEW f \in Field,
         Len(w) \in Nat, a + Width(f) <= Len(w), Inside(w, b, v), IsLine(w, a, f)
  PROVE  IsLine(v, b + a, f)
<1>1. PICK N \in Nat : N = Len(f.name)  BY LineFacts
<1>2. PICK V \in Nat : V = Len(f.value)  BY LineFacts
<1>3. a + N + V + 2 <= Len(w)
  <2>1. Width(f) = N + V + 2  BY <1>1, <1>2 DEF Width
  <2>. QED  BY <2>1
<1>4. IsAt(v, b + a, "name", f.name)  BY <1>1, <1>3, IsAtInside DEF IsLine
<1>5. IsAt(v, b + (a + N + 1), "value", f.value)
  <2>1. IsAt(w, a + N + 1, "value", f.value) /\ a + N + 1 \in Nat /\ a + N + 1 + V <= Len(w)
    BY <1>1, <1>3 DEF IsLine
  <2>. QED  BY <1>2, <2>1, IsAtInside
<1>6. v[b + (a + N + 1)] = w[a + N + 1] /\ v[b + (a + N + V + 2)] = w[a + N + V + 2]
  <2>1. a + N + 1 \in 1 .. Len(w) /\ a + N + V + 2 \in 1 .. Len(w)  BY <1>3
  <2>. QED  BY <2>1 DEF Inside
<1>7. b + (a + N + 1) = b + a + N + 1 /\ b + (a + N + V + 2) = b + a + N + V + 2  OBVIOUS
<1>. QED  BY <1>1, <1>2, <1>4, <1>5, <1>6, <1>7 DEF IsLine

\* e[j] is the sum of the first j of the numbers w.
Summed(w, n, e) ==
  /\ e \in [0 .. n -> Nat] /\ e[0] = 0
  /\ \A j \in 1 .. n : e[j] = e[j - 1] + w[j]

LEMMA SumExists ==
  ASSUME NEW n \in Nat, NEW w \in [1 .. n -> Nat]
  PROVE  \E e : Summed(w, n, e)
<1>. DEFINE G == {k \in Nat : k <= n => \E e : Summed(w, k, e)}
<1>1. 0 \in G
  <2>1. PICK e : e = [j \in 0 .. 0 |-> 0]  OBVIOUS
  <2>2. Summed(w, 0, e)  BY <2>1 DEF Summed
  <2>. QED  BY <2>2
<1>2. ASSUME NEW k \in 0 .. n - 1, k \in G  PROVE k + 1 \in G
  <2>1. PICK e : Summed(w, k, e)  BY <1>2
  <2>2. PICK d \in Nat : d = w[k + 1]
    <3>1. k + 1 \in 1 .. n  OBVIOUS
    <3>. QED  BY <3>1
  <2>3. PICK c \in Nat : c = e[k]  BY <2>1 DEF Summed
  <2>4. PICK g : g = [j \in 0 .. k + 1 |-> IF j = k + 1 THEN c + d ELSE e[j]]  OBVIOUS
  <2>5. /\ g \in [0 .. k + 1 -> Nat] /\ g[0] = 0 /\ g[k + 1] = c + d
        /\ \A j \in 0 .. k : g[j] = e[j]
    BY <2>1, <2>4 DEF Summed
  <2>6. ASSUME NEW j \in 1 .. k + 1  PROVE g[j] = g[j - 1] + w[j]
    <3>1. CASE j = k + 1
      <4>1. j - 1 = k /\ k \in 0 .. k  BY <3>1
      <4>. QED  BY <2>2, <2>3, <2>5, <3>1, <4>1
    <3>2. CASE j # k + 1
      <4>1. j \in 1 .. k /\ j \in 0 .. k /\ j - 1 \in 0 .. k  BY <3>2
      <4>2. e[j] = e[j - 1] + w[j]  BY <2>1, <4>1 DEF Summed
      <4>. QED  BY <2>5, <4>1, <4>2
    <3>. QED  BY <3>1, <3>2
  <2>7. Summed(w, k + 1, g)  BY <2>5, <2>6 DEF Summed
  <2>. QED  BY <2>7
<1>3. n \in G
  <2>1. G \in SUBSET Nat  OBVIOUS
  <2>. HIDE DEF G
  <2>2. \A k \in 0 .. n : k \in G  BY <1>1, <1>2, <2>1, Steps
  <2>. QED  BY <2>2
<1>. QED  BY <1>3

LEMMA WidthNat ==
  ASSUME NEW f \in Field
  PROVE  Width(f) \in Nat /\ Width(f) >= 3
<1>1. PICK N \in Nat : N = Len(f.name) /\ N > 0  BY LineFacts
<1>2. PICK V \in Nat : V = Len(f.value)  BY LineFacts
<1>3. Width(f) = N + V + 2  BY <1>1, <1>2 DEF Width
<1>. QED  BY <1>1, <1>3

\* LineEnd adds up the widths of the lines.
LEMMA LineEndFacts ==
  ASSUME NEW fs \in Seq(Field)
  PROVE  /\ Len(fs) \in Nat
         /\ LineEnd(fs) \in [0 .. Len(fs) -> Nat] /\ LineEnd(fs)[0] = 0
         /\ \A j \in 1 .. Len(fs) : LineEnd(fs)[j] = LineEnd(fs)[j - 1] + Width(fs[j])
<1>. DEFINE n == Len(fs)
            w == [j \in 1 .. n |-> Width(fs[j])]
            Is(e) == e = [j \in 0 .. n |-> IF j = 0 THEN 0 ELSE e[j - 1] + Width(fs[j])]
            c == CHOOSE e : Is(e)
<1>1. n \in Nat /\ \A j \in 1 .. n : fs[j] \in Field  OBVIOUS
<1>2. w \in [1 .. n -> Nat]  BY <1>1, WidthNat
<1>3. PICK e : Summed(w, n, e)
  <2>. HIDE DEF w
  <2>. QED  BY <1>1, <1>2, SumExists
<1>4. e \in [0 .. n -> Nat] /\ e[0] = 0 /\ \A j \in 1 .. n : e[j] = e[j - 1] + Width(fs[j])
  BY <1>3 DEF Summed
<1>5. Is(e)
  <2>1. \A j \in 0 .. n : e[j] = IF j = 0 THEN 0 ELSE e[j - 1] + Width(fs[j])
    <3>1. \A j \in 0 .. n : j # 0 => j \in 1 .. n  BY <1>1
    <3>. QED  BY <1>4, <3>1
  <2>2. e = [j \in 0 .. n |-> e[j]]  BY <1>4
  <2>. QED  BY <2>1, <2>2
<1>6. Is(c)  BY <1>5
<1>7. LineEnd(fs) = c  BY DEF LineEnd
<1>. HIDE DEF c
<1>8. /\ DOMAIN c = 0 .. n /\ c = [j \in 0 .. n |-> c[j]] /\ c[0] = 0
      /\ \A j \in 1 .. n : c[j] = c[j - 1] + Width(fs[j])
  <2>1. c = [j \in 0 .. n |-> IF j = 0 THEN 0 ELSE c[j - 1] + Width(fs[j])]  BY <1>6
  <2>2. DOMAIN c = 0 .. n /\ c[0] = 0  BY <1>1, <2>1
  <2>3. \A j \in 1 .. n : j \in 0 .. n /\ j # 0  BY <1>1
  <2>4. \A j \in 1 .. n : c[j] = c[j - 1] + Width(fs[j])  BY <2>1, <2>3
  <2>5. c = [j \in 0 .. n |-> c[j]]  BY <2>1
  <2>. QED  BY <2>2, <2>4, <2>5
<1>9. \A j \in 0 .. n : c[j] \in Nat
  <2>. DEFINE G == {j \in Nat : j <= n => c[j] \in Nat}
  <2>1. 0 \in G  BY <1>8
  <2>2. ASSUME NEW j \in 0 .. n - 1, j \in G  PROVE j + 1 \in G
    <3>1. PICK z \in 1 .. n : z = j + 1 /\ z - 1 = j  BY <1>1
    <3>2. c[z] = c[j] + Width(fs[z])  BY <1>8, <3>1
    <3>3. c[j] \in Nat /\ Width(fs[z]) \in Nat  BY <1>1, <2>2, WidthNat
    <3>4. c[z] \in Nat  BY <3>2, <3>3
    <3>. QED  BY <3>1, <3>4
  <2>3. G \in SUBSET Nat  OBVIOUS
  <2>4. \A j \in 0 .. n : j \in G
    <3>. HIDE DEF G
    <3>. QED  BY <1>1, <2>1, <2>2, <2>3, Steps
  <2>. QED  BY <2>4
<1>. QED  BY <1>1, <1>7, <1>8, <1>9

LEMMA SumOnce ==
  ASSUME NEW n \in Nat, NEW w \in [1 .. n -> Nat], NEW d, NEW e, Summed(w, n, d), Summed(w, n, e)
  PROVE  d = e
<1>. DEFINE G == {j \in Nat : j <= n => d[j] = e[j]}
<1>1. 0 \in G  BY DEF Summed
<1>2. ASSUME NEW j \in 0 .. n - 1, j \in G  PROVE j + 1 \in G
  <2>1. PICK z \in 1 .. n : z = j + 1 /\ z - 1 = j  OBVIOUS
  <2>2. d[z] = d[j] + w[z] /\ e[z] = e[j] + w[z]  BY <2>1 DEF Summed
  <2>3. d[j] = e[j]  BY <1>2
  <2>4. d[z] = e[z]  BY <2>2, <2>3
  <2>. QED  BY <2>1, <2>4
<1>3. G \in SUBSET Nat  OBVIOUS
<1>4. \A j \in 0 .. n : j \in G
  <2>. HIDE DEF G
  <2>. QED  BY <1>1, <1>2, <1>3, Steps
<1>5. \A j \in 0 .. n : d[j] = e[j]  BY <1>4
<1>. QED  BY <1>5 DEF Summed

\* Lines end in the order of the fields.
LEMMA LineEndOrder ==
  ASSUME NEW fs \in Seq(Field)
  PROVE  /\ \A i, j \in 0 .. Len(fs) : i <= j => LineEnd(fs)[i] <= LineEnd(fs)[j]
         /\ \A i, j \in 0 .. Len(fs) : i < j => LineEnd(fs)[i] < LineEnd(fs)[j]
<1>. DEFINE e == LineEnd(fs)  n == Len(fs)
<1>1. n \in Nat /\ e \in [0 .. n -> Nat] /\ \A j \in 1 .. n : e[j] = e[j - 1] + Width(fs[j])
  BY LineEndFacts
<1>. HIDE DEF e
<1>2. \A j \in 1 .. n : e[j - 1] < e[j] /\ e[j - 1] \in Nat /\ e[j] \in Nat /\ e[j - 1] <= e[j]
  <2>1. ASSUME NEW j \in 1 .. n  PROVE e[j - 1] < e[j] /\ e[j - 1] \in Nat /\ e[j] \in Nat
    <3>1. fs[j] \in Field /\ j - 1 \in 0 .. n  BY <1>1
    <3>2. Width(fs[j]) \in Nat /\ Width(fs[j]) >= 3 /\ e[j - 1] \in Nat  BY <1>1, <3>1, WidthNat
    <3>3. e[j] = e[j - 1] + Width(fs[j])  BY <1>1
    <3>. QED  BY <3>2, <3>3
  <2>. QED  BY <2>1
<1>3. \A i, j \in 0 .. n : i <= j => e[i] <= e[j]
  BY <1>1, <1>2, OffsetsGrow
<1>4. ASSUME NEW i \in 0 .. n, NEW j \in 0 .. n, i < j  PROVE e[i] < e[j]
  <2>1. i + 1 \in 1 .. n /\ i + 1 - 1 = i /\ i + 1 \in 0 .. n /\ i + 1 <= j  BY <1>1, <1>4
  <2>2. e[i] < e[i + 1] /\ e[i + 1] <= e[j]  BY <1>2, <1>3, <2>1
  <2>3. e[i] \in Nat /\ e[i + 1] \in Nat /\ e[j] \in Nat  BY <1>1, <2>1
  <2>. QED  BY <2>2, <2>3
<1>. QED  BY <1>3, <1>4 DEF e

LEMMA LinesFacts ==
  ASSUME NEW fs \in Seq(Field)
  PROVE  /\ Lines(fs) \in Seq(Byte) /\ Len(Lines(fs)) = LineEnd(fs)[Len(fs)]
         /\ AreLines(Lines(fs), 0, fs)
<1>1. PICK n \in Nat : n = Len(fs) /\ DOMAIN fs = 1 .. n /\ \A j \in 1 .. n : fs[j] \in Field
  OBVIOUS
<1>2. PICK ss : ss = [i \in 1 .. n |-> Line(fs[i])]  OBVIOUS
<1>3. Lines(fs) = FlattenSeq(ss)  BY <1>1, <1>2 DEF Lines, Line
<1>4. \A j \in 1 .. n : ss[j] = Line(fs[j]) /\ ss[j] \in Seq(Byte) /\ Len(ss[j]) = Width(fs[j])
  BY <1>1, <1>2, LineFacts
<1>5. ss \in Seq(Seq(Byte)) /\ Len(ss) = n
  <2>1. ss \in [1 .. n -> Seq(Byte)]  BY <1>2, <1>4
  <2>. QED  BY <2>1, Tabulated
<1>6. PICK w : w = Lines(fs)  OBVIOUS
<1>7. w \in Seq(Byte) /\ \E off : Joined(ss, n, off, w)
  BY <1>3, <1>5, <1>6, FlattenJoins
<1>8. PICK off : Joined(ss, n, off, w)  BY <1>7
<1>9. PICK e : e = LineEnd(fs)  OBVIOUS
<1>10. e \in [0 .. n -> Nat] /\ e[0] = 0 /\ \A j \in 1 .. n : e[j] = e[j - 1] + Width(fs[j])
  BY <1>1, <1>9, LineEndFacts
<1>11. off = e
  <2>1. PICK d : d = [j \in 1 .. n |-> Width(fs[j])]  OBVIOUS
  <2>2. d \in [1 .. n -> Nat] /\ \A j \in 1 .. n : d[j] = Width(fs[j])  BY <1>1, <2>1, WidthNat
  <2>3. Summed(d, n, e)  BY <1>10, <2>2 DEF Summed
  <2>4. /\ off \in [0 .. n -> Nat] /\ off[0] = 0
        /\ \A j \in 1 .. n : off[j] = off[j - 1] + Len(ss[j])
    BY <1>8 DEF Joined
  <2>5. Summed(d, n, off)  BY <1>4, <2>2, <2>4 DEF Summed
  <2>. QED  BY <2>2, <2>3, <2>5, SumOnce
<1>12. Len(w) = e[n] /\ e[n] \in Nat  BY <1>8, <1>10, <1>11 DEF Joined
<1>13. ASSUME NEW j \in 1 .. n  PROVE IsLine(w, 0 + e[j - 1], fs[j])
  <2>1. PICK l : l = Line(fs[j])  OBVIOUS
  <2>2. /\ l \in Seq(Byte) /\ Len(l) = Width(fs[j]) /\ IsLine(l, 0, fs[j])
        /\ Width(fs[j]) \in Nat /\ fs[j] \in Field
    BY <1>1, <2>1, LineFacts, WidthNat
  <2>3. PICK b \in Nat : b = e[j - 1]
    <3>1. j - 1 \in 0 .. n  OBVIOUS
    <3>. QED  BY <1>10, <3>1
  <2>4. Inside(l, b, w)
    <3>1. \A i \in 1 .. Len(ss[j]) : w[off[j - 1] + i] = ss[j][i]  BY <1>8 DEF Joined
    <3>2. ss[j] = l /\ off[j - 1] = b  BY <1>4, <1>11, <2>1, <2>3
    <3>. QED  BY <3>1, <3>2 DEF Inside
  <2>5. IsLine(w, b + 0, fs[j])
    <3>1. 0 + Width(fs[j]) <= Len(l) /\ Len(l) \in Nat  BY <2>2
    <3>. QED  BY <2>2, <2>4, <3>1, LineInside
  <2>6. b + 0 = 0 + e[j - 1]  BY <2>3
  <2>. QED  BY <2>5, <2>6
<1>. QED  BY <1>1, <1>6, <1>7, <1>9, <1>12, <1>13 DEF AreLines

LEMMA LinesInside ==
  ASSUME NEW fs \in Seq(Field), NEW b \in Nat, NEW v, Inside(Lines(fs), b, v)
  PROVE  AreLines(v, b, fs)
<1>1. PICK w : w = Lines(fs)  OBVIOUS
<1>2. PICK n \in Nat : n = Len(fs) /\ \A j \in 1 .. n : fs[j] \in Field  OBVIOUS
<1>3. PICK e : e = LineEnd(fs)  OBVIOUS
<1>4. /\ e \in [0 .. n -> Nat] /\ Len(w) = e[n]
      /\ \A j \in 1 .. n : e[j] = e[j - 1] + Width(fs[j])
      /\ \A j \in 1 .. n : IsLine(w, 0 + e[j - 1], fs[j])
      /\ \A i, j \in 0 .. n : i <= j => e[i] <= e[j]
  BY <1>1, <1>2, <1>3, LinesFacts, LineEndFacts, LineEndOrder DEF AreLines
<1>5. ASSUME NEW j \in 1 .. n  PROVE IsLine(v, b + e[j - 1], fs[j])
  <2>1. j - 1 \in 0 .. n /\ j \in 0 .. n /\ n \in 0 .. n /\ j <= n  OBVIOUS
  <2>2. PICK a \in Nat : a = e[j - 1]  BY <1>4, <2>1
  <2>3. a + Width(fs[j]) <= Len(w) /\ Len(w) \in Nat
    <3>1. e[j] = a + Width(fs[j]) /\ e[j] <= e[n] /\ e[n] \in Nat  BY <1>4, <2>1, <2>2
    <3>. QED  BY <1>4, <3>1
  <2>4. IsLine(w, a, fs[j])
    <3>1. 0 + a = a  OBVIOUS
    <3>. QED  BY <1>4, <2>2, <3>1
  <2>5. Inside(w, b, v) /\ fs[j] \in Field  BY <1>1, <1>2
  <2>6. IsLine(v, b + a, fs[j])  BY <2>3, <2>4, <2>5, LineInside
  <2>. QED  BY <2>2, <2>6
<1>. QED  BY <1>2, <1>3, <1>5 DEF AreLines

\* The header of m lies behind place b of w.
IsHead(w, b, m) ==
  /\ IsAt(w, b, "url", m.url)
  /\ w[b + Len(m.url) + 1].k = "skip"
  /\ AreLines(w, b + Len(m.url) + 1, m.fields)
  /\ w[b + Len(m.url) + 2 + LineEnd(m.fields)[Len(m.fields)]].k = "head"

\* The body of m, with the trailers, lies behind place b of w.
IsBody(w, b, m) ==
  IF m.chunked
  THEN /\ \A i \in 1 .. Len(m.body) : /\ w[b + 2 * i - 1].k = "skip"
                                      /\ w[b + 2 * i].k = "body" /\ w[b + 2 * i].x = m.body[i]
       /\ w[b + 2 * Len(m.body) + 1].k = "skip"
       /\ AreLines(w, b + 2 * Len(m.body) + 1, m.trailers)
       /\ w[b + 2 * Len(m.body) + 2 + LineEnd(m.trailers)[Len(m.trailers)]].k = "skip"
  ELSE IsAt(w, b, "body", m.body)

HeadLen(m) == Len(m.url) + 2 + LineEnd(m.fields)[Len(m.fields)]
BodyLen(m) ==
  IF m.chunked THEN 2 * Len(m.body) + 2 + LineEnd(m.trailers)[Len(m.trailers)] ELSE Len(m.body)

LEMMA RequestTypes ==
  ASSUME NEW m \in Request
  PROVE  /\ m.url \in Seq(STRING) /\ m.fields \in Seq(Field) /\ m.trailers \in Seq(Field)
         /\ m.body \in Text /\ m.chunked \in BOOLEAN
         /\ Len(m.url) \in Nat /\ Len(m.body) \in Nat /\ Len(m.fields) \in Nat
         /\ Len(m.trailers) \in Nat
         /\ LineEnd(m.fields)[Len(m.fields)] \in Nat
         /\ LineEnd(m.trailers)[Len(m.trailers)] \in Nat
<1>1. /\ m.url \in Seq(STRING) /\ m.fields \in Seq(Field) /\ m.trailers \in Seq(Field)
      /\ m.body \in Text /\ m.chunked \in BOOLEAN
  BY DEF Request
<1>2. Len(m.url) \in Nat /\ Len(m.body) \in Nat  BY <1>1 DEF Text
<1>3. ASSUME NEW fs \in Seq(Field)  PROVE Len(fs) \in Nat /\ LineEnd(fs)[Len(fs)] \in Nat
  BY LineEndFacts
<1>. QED  BY <1>1, <1>2, <1>3

LEMMA HeadFacts ==
  ASSUME NEW m \in Request
  PROVE  /\ HeadBytes(m) \in Seq(Byte) /\ Len(HeadBytes(m)) = HeadLen(m)
         /\ HeadLen(m) \in Nat
         /\ \A b \in Nat : \A v : Inside(HeadBytes(m), b, v) => IsHead(v, b, m)
<1>1. PICK U \in Nat : U = Len(m.url)  BY RequestTypes
<1>2. PICK E \in Nat : E = LineEnd(m.fields)[Len(m.fields)]  BY RequestTypes
<1>3. PICK u \in Seq(Byte) : /\ u = Bytes("url", m.url) /\ Len(u) = U
                             /\ \A i \in 1 .. U : u[i] = [k |-> "url", x |-> m.url[i]]
  BY <1>1, RequestTypes, UrlFacts
<1>4. PICK c \in Seq(Byte) : c = Mark("skip") /\ Len(c) = 1 /\ c[1].k = "skip"
  BY MarkFacts DEF Marks
<1>5. PICK l \in Seq(Byte) : l = Lines(m.fields) /\ Len(l) = E
  BY <1>2, RequestTypes, LinesFacts
<1>6. PICK h \in Seq(Byte) : h = Mark("head") /\ Len(h) = 1 /\ h[1].k = "head"
  BY MarkFacts DEF Marks
<1>7. PICK p \in Seq(Byte) : p = u \o c /\ Followed(p, u, U, c, 1)
  <2>1. Followed(u \o c, u, U, c, 1)  BY <1>3, <1>4, Both
  <2>. QED  BY <2>1 DEF Followed
<1>8. PICK q \in Seq(Byte) : q = p \o l /\ Followed(q, p, U + 1, l, E)
  <2>1. Len(p) = U + 1  BY <1>7 DEF Followed
  <2>2. Followed(p \o l, p, U + 1, l, E)  BY <1>5, <2>1, Both
  <2>. QED  BY <2>2 DEF Followed
<1>9. PICK r \in Seq(Byte) : r = q \o h /\ Followed(r, q, U + 1 + E, h, 1)
  <2>1. Len(q) = U + 1 + E  BY <1>8 DEF Followed
  <2>2. Followed(q \o h, q, U + 1 + E, h, 1)  BY <1>6, <2>1, Both
  <2>. QED  BY <2>2 DEF Followed
<1>10. HeadBytes(m) = r  BY <1>3, <1>4, <1>5, <1>6, <1>7, <1>8, <1>9 DEF HeadBytes
<1>11. Len(r) = U + 1 + E + 1 /\ HeadLen(m) = U + 2 + E /\ U + 2 + E = U + 1 + E + 1
  <2>1. Len(r) = U + 1 + E + 1  BY <1>9 DEF Followed
  <2>2. HeadLen(m) = U + 2 + E  BY <1>1, <1>2 DEF HeadLen
  <2>3. U \in Nat /\ E \in Nat  BY <1>1, <1>2
  <2>4. \A x, y \in Nat : x + 2 + y = x + 1 + y + 1  OBVIOUS
  <2>. QED  BY <2>1, <2>2, <2>3, <2>4
<1>12. \A i \in 1 .. U : r[i] = [k |-> "url", x |-> m.url[i]]
  <2>1. ASSUME NEW i \in 1 .. U  PROVE r[i] = u[i]
    <3>1. i \in 1 .. U + 1 /\ i \in 1 .. U + 1 + E  OBVIOUS
    <3>2. p[i] = u[i]  BY <1>7 DEF Followed
    <3>3. q[i] = p[i]  BY <1>8, <3>1 DEF Followed
    <3>4. r[i] = q[i]  BY <1>9, <3>1 DEF Followed
    <3>. QED  BY <3>2, <3>3, <3>4
  <2>. QED  BY <1>3, <2>1
<1>13. r[U + 1].k = "skip"
  <2>1. U + 1 \in 1 .. U + 1 /\ U + 1 \in 1 .. U + 1 + E  OBVIOUS
  <2>2. p[U + 1] = c[1]  BY <1>7 DEF Followed
  <2>3. q[U + 1] = p[U + 1]  BY <1>8, <2>1 DEF Followed
  <2>4. r[U + 1] = q[U + 1]  BY <1>9, <2>1 DEF Followed
  <2>. QED  BY <1>4, <2>2, <2>3, <2>4
<1>14. \A i \in 1 .. E : r[U + 1 + i] = l[i]
  <2>1. ASSUME NEW i \in 1 .. E  PROVE r[U + 1 + i] = l[i]
    <3>1. U + 1 + i \in 1 .. U + 1 + E  OBVIOUS
    <3>2. q[U + 1 + i] = l[i]  BY <1>8 DEF Followed
    <3>3. r[U + 1 + i] = q[U + 1 + i]  BY <1>9, <3>1 DEF Followed
    <3>. QED  BY <3>2, <3>3
  <2>. QED  BY <2>1
<1>15. r[U + 2 + E].k = "head"
  <2>1. r[U + 1 + E + 1] = h[1]  BY <1>9 DEF Followed
  <2>. QED  BY <1>6, <1>11, <2>1
<1>16. ASSUME NEW b \in Nat, NEW v, Inside(r, b, v)  PROVE IsHead(v, b, m)
  <2>1. \A i \in 1 .. U + 2 + E : v[b + i] = r[i]  BY <1>11, <1>16 DEF Inside
  <2>2. IsAt(v, b, "url", m.url)
    <3>1. ASSUME NEW i \in 1 .. U  PROVE v[b + i].k = "url" /\ v[b + i].x = m.url[i]
      <4>1. i \in 1 .. U + 2 + E  OBVIOUS
      <4>2. v[b + i] = [k |-> "url", x |-> m.url[i]]  BY <1>12, <2>1, <4>1
      <4>. QED  BY <4>2
    <3>. QED  BY <1>1, <3>1 DEF IsAt
  <2>3. v[b + U + 1].k = "skip"
    <3>1. U + 1 \in 1 .. U + 2 + E /\ b + (U + 1) = b + U + 1  OBVIOUS
    <3>2. v[b + (U + 1)] = r[U + 1]  BY <2>1, <3>1
    <3>. QED  BY <1>13, <3>1, <3>2
  <2>4. AreLines(v, b + U + 1, m.fields)
    <3>1. ASSUME NEW i \in 1 .. E  PROVE v[b + U + 1 + i] = l[i]
      <4>1. U + 1 + i \in 1 .. U + 2 + E /\ b + (U + 1 + i) = b + U + 1 + i  OBVIOUS
      <4>2. v[b + (U + 1 + i)] = r[U + 1 + i]  BY <2>1, <4>1
      <4>. QED  BY <1>14, <4>1, <4>2
    <3>2. Inside(Lines(m.fields), b + U + 1, v)  BY <1>5, <3>1 DEF Inside
    <3>3. b + U + 1 \in Nat  OBVIOUS
    <3>. QED  BY <3>2, <3>3, LinesInside, RequestTypes
  <2>5. v[b + U + 2 + E].k = "head"
    <3>1. U + 2 + E \in 1 .. U + 2 + E /\ b + (U + 2 + E) = b + U + 2 + E  OBVIOUS
    <3>2. v[b + (U + 2 + E)] = r[U + 2 + E]  BY <2>1, <3>1
    <3>. QED  BY <1>15, <3>1, <3>2
  <2>. QED  BY <1>1, <1>2, <2>2, <2>3, <2>4, <2>5 DEF IsHead
<1>. QED  BY <1>10, <1>11, <1>16

\* A body in chunks of a byte.
Chunk(x) == Mark("skip") \o Bytes("body", <<x>>)
Chunks(body) == FlattenSeq([i \in DOMAIN body |-> Chunk(body[i])])

LEMMA ChunksFacts ==
  ASSUME NEW body \in Text
  PROVE  /\ Chunks(body) \in Seq(Byte) /\ Len(Chunks(body)) = 2 * Len(body)
         /\ \A i \in 1 .. Len(body) : /\ Chunks(body)[2 * i - 1].k = "skip"
                                      /\ Chunks(body)[2 * i] = [k |-> "body", x |-> body[i]]
<1>1. PICK n \in Nat : n = Len(body) /\ DOMAIN body = 1 .. n /\ \A i \in 1 .. n : body[i] \in Nat
  BY DEF Text
<1>2. ASSUME NEW x \in Nat
      PROVE  /\ Chunk(x) \in Seq(Byte) /\ Len(Chunk(x)) = 2
             /\ Chunk(x)[1].k = "skip" /\ Chunk(x)[2] = [k |-> "body", x |-> x]
  <2>1. PICK c \in Seq(Byte) : c = Mark("skip") /\ Len(c) = 1 /\ c[1].k = "skip"
    BY MarkFacts DEF Marks
  <2>2. PICK t : t = <<x>>  OBVIOUS
  <2>3. t \in Text /\ Len(t) = 1 /\ t[1] = x  BY <2>2 DEF Text
  <2>4. PICK b \in Seq(Byte) : b = Bytes("body", t) /\ Len(b) = 1
                               /\ \A i \in 1 .. 1 : b[i] = [k |-> "body", x |-> t[i]]
    BY <2>3, BytesFacts
  <2>5. Followed(c \o b, c, 1, b, 1)  BY <2>1, <2>4, Both
  <2>6. PICK u : u = c \o b /\ u = Chunk(x)  BY <2>1, <2>2, <2>4 DEF Chunk
  <2>7. u \in Seq(Byte) /\ Len(u) = 2 /\ u[1] = c[1] /\ u[1 + 1] = b[1]
    BY <2>5, <2>6 DEF Followed
  <2>8. b[1] = [k |-> "body", x |-> x]  BY <2>3, <2>4
  <2>9. 1 + 1 = 2  OBVIOUS
  <2>. QED  BY <2>1, <2>6, <2>7, <2>8, <2>9
<1>3. PICK ss : ss = [i \in 1 .. n |-> Chunk(body[i])]  OBVIOUS
<1>4. \A i \in 1 .. n : ss[i] = Chunk(body[i]) /\ ss[i] \in Seq(Byte) /\ Len(ss[i]) = 2
  BY <1>1, <1>2, <1>3
<1>5. ss \in Seq(Seq(Byte)) /\ Len(ss) = n
  <2>1. ss \in [1 .. n -> Seq(Byte)]  BY <1>3, <1>4
  <2>. QED  BY <2>1, Tabulated
<1>6. PICK w : w = Chunks(body)  OBVIOUS
<1>7. w \in Seq(Byte) /\ \E off : Joined(ss, n, off, w)
  BY <1>1, <1>3, <1>5, <1>6, FlattenJoins DEF Chunks
<1>8. PICK off : Joined(ss, n, off, w)  BY <1>7
<1>9. \A j \in 0 .. n : off[j] = 2 * j
  <2>1. PICK d : d = [j \in 1 .. n |-> 2]  OBVIOUS
  <2>2. d \in [1 .. n -> Nat] /\ \A j \in 1 .. n : d[j] = 2  BY <2>1
  <2>3. PICK e : e = [j \in 0 .. n |-> 2 * j]  OBVIOUS
  <2>4. e \in [0 .. n -> Nat] /\ \A j \in 0 .. n : e[j] = 2 * j  BY <2>3
  <2>5. Summed(d, n, e)
    <3>1. ASSUME NEW j \in 1 .. n  PROVE e[j] = e[j - 1] + d[j]
      <4>1. j \in 0 .. n /\ j - 1 \in 0 .. n  OBVIOUS
      <4>2. e[j] = 2 * j /\ e[j - 1] = 2 * (j - 1) /\ d[j] = 2  BY <2>2, <2>4, <4>1
      <4>. QED  BY <4>2
    <3>. QED  BY <2>4, <3>1 DEF Summed
  <2>6. /\ off \in [0 .. n -> Nat] /\ off[0] = 0
        /\ \A j \in 1 .. n : off[j] = off[j - 1] + Len(ss[j])
    BY <1>8 DEF Joined
  <2>7. Summed(d, n, off)  BY <1>4, <2>2, <2>6 DEF Summed
  <2>8. off = e  BY <2>2, <2>5, <2>7, SumOnce
  <2>. QED  BY <2>4, <2>8
<1>10. Len(w) = 2 * n  BY <1>8, <1>9 DEF Joined
<1>11. ASSUME NEW i \in 1 .. n
       PROVE  w[2 * i - 1].k = "skip" /\ w[2 * i] = [k |-> "body", x |-> body[i]]
  <2>1. off[i - 1] = 2 * (i - 1)
    <3>1. i - 1 \in 0 .. n  OBVIOUS
    <3>. QED  BY <1>9, <3>1
  <2>2. \A j \in 1 .. 2 : w[2 * (i - 1) + j] = ss[i][j]  BY <1>4, <1>8, <2>1 DEF Joined
  <2>3. w[2 * (i - 1) + 1] = ss[i][1] /\ w[2 * (i - 1) + 2] = ss[i][2]  BY <2>2
  <2>4. 2 * (i - 1) + 1 = 2 * i - 1 /\ 2 * (i - 1) + 2 = 2 * i  OBVIOUS
  <2>5. w[2 * i - 1] = ss[i][1] /\ w[2 * i] = ss[i][2]  BY <2>3, <2>4
  <2>6. ss[i][1].k = "skip" /\ ss[i][2] = [k |-> "body", x |-> body[i]]
    <3>1. body[i] \in Nat  BY <1>1
    <3>. QED  BY <1>2, <1>4, <3>1
  <2>. QED  BY <2>5, <2>6
<1>. QED  BY <1>1, <1>6, <1>7, <1>10, <1>11

LEMMA BodyFacts ==
  ASSUME NEW m \in Request
  PROVE  /\ BodyBytes(m) \in Seq(Byte) /\ Len(BodyBytes(m)) = BodyLen(m)
         /\ BodyLen(m) \in Nat
         /\ \A b \in Nat : \A v : Inside(BodyBytes(m), b, v) => IsBody(v, b, m)
<1>1. CASE ~m.chunked
  <2>1. PICK n \in Nat : n = Len(m.body)  BY RequestTypes
  <2>2. PICK w \in Seq(Byte) : /\ w = Bytes("body", m.body) /\ Len(w) = n
                               /\ \A i \in 1 .. n : w[i] = [k |-> "body", x |-> m.body[i]]
    BY <2>1, RequestTypes, BytesFacts
  <2>3. BodyBytes(m) = w /\ BodyLen(m) = n  BY <1>1, <2>1, <2>2 DEF BodyBytes, BodyLen
  <2>4. ASSUME NEW b \in Nat, NEW v, Inside(w, b, v)  PROVE IsBody(v, b, m)
    <3>1. ASSUME NEW i \in 1 .. n  PROVE v[b + i].k = "body" /\ v[b + i].x = m.body[i]
      <4>1. v[b + i] = [k |-> "body", x |-> m.body[i]]  BY <2>2, <2>4 DEF Inside
      <4>. QED  BY <4>1
    <3>. QED  BY <1>1, <2>1, <3>1 DEF IsBody, IsAt
  <2>. QED  BY <2>2, <2>3, <2>4
<1>2. CASE m.chunked
  <2>1. PICK n \in Nat : n = Len(m.body)  BY RequestTypes
  <2>2. PICK E \in Nat : E = LineEnd(m.trailers)[Len(m.trailers)]  BY RequestTypes
  <2>3. PICK u \in Seq(Byte) : u = Chunks(m.body) /\ Len(u) = 2 * n
    BY <2>1, ChunksFacts, RequestTypes
  <2>4. \A i \in 1 .. n : u[2 * i - 1].k = "skip" /\ u[2 * i] = [k |-> "body", x |-> m.body[i]]
    BY <2>1, <2>3, ChunksFacts, RequestTypes
  <2>5. PICK c \in Seq(Byte) : c = Mark("skip") /\ Len(c) = 1 /\ c[1].k = "skip"
    BY MarkFacts DEF Marks
  <2>6. PICK l \in Seq(Byte) : l = Lines(m.trailers) /\ Len(l) = E
    BY <2>2, RequestTypes, LinesFacts
  <2>7. PICK D \in Nat : D = 2 * n  OBVIOUS
  <2>8. PICK p \in Seq(Byte) : p = u \o c /\ Followed(p, u, D, c, 1)
    <3>1. Followed(u \o c, u, D, c, 1)  BY <2>3, <2>5, <2>7, Both
    <3>. QED  BY <3>1 DEF Followed
  <2>9. PICK q \in Seq(Byte) : q = p \o l /\ Followed(q, p, D + 1, l, E)
    <3>1. Len(p) = D + 1  BY <2>8 DEF Followed
    <3>2. Followed(p \o l, p, D + 1, l, E)  BY <2>6, <3>1, Both
    <3>. QED  BY <3>2 DEF Followed
  <2>10. PICK r \in Seq(Byte) : r = q \o c /\ Followed(r, q, D + 1 + E, c, 1)
    <3>1. Len(q) = D + 1 + E  BY <2>9 DEF Followed
    <3>2. Followed(q \o c, q, D + 1 + E, c, 1)  BY <2>5, <3>1, Both
    <3>. QED  BY <3>2 DEF Followed
  <2>11. BodyBytes(m) = r
    BY <1>2, <2>3, <2>5, <2>6, <2>8, <2>9, <2>10 DEF BodyBytes, Chunks, Chunk
  <2>12. Len(r) = D + 1 + E + 1 /\ BodyLen(m) = D + 2 + E /\ D + 2 + E = D + 1 + E + 1
    <3>1. Len(r) = D + 1 + E + 1  BY <2>10 DEF Followed
    <3>2. BodyLen(m) = D + 2 + E  BY <1>2, <2>1, <2>2, <2>7 DEF BodyLen
    <3>. QED  BY <3>1, <3>2
  <2>13. ASSUME NEW i \in 1 .. D  PROVE r[i] = u[i]
    <3>1. i \in 1 .. D + 1 /\ i \in 1 .. D + 1 + E  OBVIOUS
    <3>2. p[i] = u[i]  BY <2>8 DEF Followed
    <3>3. q[i] = p[i]  BY <2>9, <3>1 DEF Followed
    <3>4. r[i] = q[i]  BY <2>10, <3>1 DEF Followed
    <3>. QED  BY <3>2, <3>3, <3>4
  <2>14. r[D + 1].k = "skip"
    <3>1. D + 1 \in 1 .. D + 1 /\ D + 1 \in 1 .. D + 1 + E  OBVIOUS
    <3>2. p[D + 1] = c[1]  BY <2>8 DEF Followed
    <3>3. q[D + 1] = p[D + 1]  BY <2>9, <3>1 DEF Followed
    <3>4. r[D + 1] = q[D + 1]  BY <2>10, <3>1 DEF Followed
    <3>. QED  BY <2>5, <3>2, <3>3, <3>4
  <2>15. \A i \in 1 .. E : r[D + 1 + i] = l[i]
    <3>1. ASSUME NEW i \in 1 .. E  PROVE r[D + 1 + i] = l[i]
      <4>1. D + 1 + i \in 1 .. D + 1 + E  OBVIOUS
      <4>2. q[D + 1 + i] = l[i]  BY <2>9 DEF Followed
      <4>3. r[D + 1 + i] = q[D + 1 + i]  BY <2>10, <4>1 DEF Followed
      <4>. QED  BY <4>2, <4>3
    <3>. QED  BY <3>1
  <2>16. r[D + 2 + E].k = "skip"
    <3>1. 1 \in 1 .. 1 /\ \A i \in 1 .. 1 : r[D + 1 + E + i] = c[i]  BY <2>10 DEF Followed
    <3>2. r[D + 1 + E + 1] = c[1]  BY <3>1
    <3>. QED  BY <2>5, <2>12, <3>2
  <2>17. ASSUME NEW b \in Nat, NEW v, Inside(r, b, v)  PROVE IsBody(v, b, m)
    <3>1. \A i \in 1 .. D + 2 + E : v[b + i] = r[i]  BY <2>12, <2>17 DEF Inside
    <3>2. ASSUME NEW i \in 1 .. n
          PROVE  /\ v[b + 2 * i - 1].k = "skip"
                 /\ v[b + 2 * i].k = "body" /\ v[b + 2 * i].x = m.body[i]
      <4>1. PICK j \in Nat : j = 2 * i /\ j \in 1 .. D /\ j - 1 \in 1 .. D  BY <2>7
      <4>2. j \in 1 .. D + 2 + E /\ j - 1 \in 1 .. D + 2 + E /\ b + (j - 1) = b + j - 1  BY <4>1
      <4>3. v[b + j] = u[j] /\ v[b + (j - 1)] = u[j - 1]  BY <2>13, <3>1, <4>1, <4>2
      <4>4. u[j - 1].k = "skip" /\ u[j] = [k |-> "body", x |-> m.body[i]]  BY <2>4, <4>1
      <4>5. v[b + j - 1].k = "skip" /\ v[b + j].k = "body" /\ v[b + j].x = m.body[i]
        BY <4>2, <4>3, <4>4
      <4>. QED  BY <4>1, <4>5
    <3>3. v[b + D + 1].k = "skip"
      <4>1. D + 1 \in 1 .. D + 2 + E /\ b + (D + 1) = b + D + 1  OBVIOUS
      <4>2. v[b + (D + 1)] = r[D + 1]  BY <3>1, <4>1
      <4>. QED  BY <2>14, <4>1, <4>2
    <3>4. AreLines(v, b + D + 1, m.trailers)
      <4>1. ASSUME NEW i \in 1 .. E  PROVE v[b + D + 1 + i] = l[i]
        <5>1. D + 1 + i \in 1 .. D + 2 + E /\ b + (D + 1 + i) = b + D + 1 + i  OBVIOUS
        <5>2. v[b + (D + 1 + i)] = r[D + 1 + i]  BY <3>1, <5>1
        <5>. QED  BY <2>15, <5>1, <5>2
      <4>2. Inside(Lines(m.trailers), b + D + 1, v)  BY <2>6, <4>1 DEF Inside
      <4>3. b + D + 1 \in Nat  OBVIOUS
      <4>. QED  BY <4>2, <4>3, LinesInside, RequestTypes
    <3>5. v[b + D + 2 + E].k = "skip"
      <4>1. D + 2 + E \in 1 .. D + 2 + E /\ b + (D + 2 + E) = b + D + 2 + E  OBVIOUS
      <4>2. v[b + (D + 2 + E)] = r[D + 2 + E]  BY <3>1, <4>1
      <4>. QED  BY <2>16, <4>1, <4>2
    <3>. QED  BY <1>2, <2>1, <2>2, <2>7, <3>2, <3>3, <3>4, <3>5 DEF IsBody
  <2>. QED  BY <2>11, <2>12, <2>17
<1>. QED  BY <1>1, <1>2, RequestTypes

\* Where the requests lie in the stream.
LEMMA StreamTypes ==
  /\ Len(Stream) \in Nat /\ DOMAIN Stream = 1 .. Len(Stream) /\ Len(Stream) # 0
  /\ \A t \in 1 .. Len(Stream) : Stream[t] \in Request
<1>1. Stream \in Seq(Request) /\ Stream # <<>>  BY StreamAssumption
<1>. QED  BY <1>1

LEMMA MsgEndFacts ==
  /\ MsgEnd \in [0 .. Len(Stream) -> Nat] /\ MsgEnd[0] = 0
  /\ \A t \in 1 .. Len(Stream) : /\ HeadEnd(t) = MsgEnd[t - 1] + HeadLen(Stream[t])
                                 /\ MsgEnd[t] = HeadEnd(t) + BodyLen(Stream[t])
<1>1. PICK n \in Nat : n = Len(Stream) /\ \A t \in 1 .. n : Stream[t] \in Request  BY StreamTypes
<1>2. PICK h : h = [t \in 1 .. n |-> HeadLen(Stream[t])]  OBVIOUS
<1>3. PICK b : b = [t \in 1 .. n |-> BodyLen(Stream[t])]  OBVIOUS
<1>4. \A t \in 1 .. n : /\ h[t] = HeadLen(Stream[t]) /\ h[t] \in Nat
                        /\ Len(HeadBytes(Stream[t])) = h[t]
  BY <1>1, <1>2, HeadFacts
<1>5. \A t \in 1 .. n : /\ b[t] = BodyLen(Stream[t]) /\ b[t] \in Nat
                        /\ Len(BodyBytes(Stream[t])) = b[t]
  BY <1>1, <1>3, BodyFacts
<1>6. PICK w : w = [t \in 1 .. n |-> h[t] + b[t]]  OBVIOUS
<1>7. w \in [1 .. n -> Nat] /\ \A t \in 1 .. n : w[t] = h[t] + b[t]  BY <1>4, <1>5, <1>6
<1>8. PICK e : Summed(w, n, e)  BY <1>7, SumExists
<1>. DEFINE Is(f) == f = [t \in 0 .. n |-> IF t = 0 THEN 0
                            ELSE f[t - 1] + Len(HeadBytes(Stream[t])) + Len(BodyBytes(Stream[t]))]
            c == CHOOSE f : Is(f)
<1>9. Is(e)
  <2>1. e \in [0 .. n -> Nat] /\ e[0] = 0 /\ \A t \in 1 .. n : e[t] = e[t - 1] + w[t]
    BY <1>8 DEF Summed
  <2>2. ASSUME NEW t \in 0 .. n
        PROVE  e[t] = IF t = 0 THEN 0
                      ELSE e[t - 1] + Len(HeadBytes(Stream[t])) + Len(BodyBytes(Stream[t]))
    <3>1. CASE t = 0  BY <2>1, <3>1
    <3>2. CASE t # 0
      <4>1. t \in 1 .. n /\ t - 1 \in 0 .. n  BY <3>2
      <4>2. e[t - 1] \in Nat /\ h[t] \in Nat /\ b[t] \in Nat /\ e[t] = e[t - 1] + (h[t] + b[t])
        BY <1>4, <1>5, <1>7, <2>1, <4>1
      <4>3. e[t] = e[t - 1] + h[t] + b[t]  BY <4>2
      <4>. QED  BY <1>4, <1>5, <3>2, <4>1, <4>3
    <3>. QED  BY <3>1, <3>2
  <2>3. e = [t \in 0 .. n |-> e[t]]  BY <2>1
  <2>. QED  BY <2>2, <2>3
<1>10. Is(c)  BY <1>9
<1>11. MsgEnd = c  BY <1>1 DEF MsgEnd
<1>. HIDE DEF c
<1>12. /\ DOMAIN c = 0 .. n /\ c = [t \in 0 .. n |-> c[t]] /\ c[0] = 0
       /\ \A t \in 1 .. n : c[t] = c[t - 1] + h[t] + b[t]
  <2>1. c = [t \in 0 .. n |-> IF t = 0 THEN 0
               ELSE c[t - 1] + Len(HeadBytes(Stream[t])) + Len(BodyBytes(Stream[t]))]
    BY <1>10
  <2>2. DOMAIN c = 0 .. n /\ c[0] = 0  BY <2>1
  <2>3. \A t \in 1 .. n : t \in 0 .. n /\ t # 0  OBVIOUS
  <2>4. \A t \in 1 .. n : c[t] = c[t - 1] + h[t] + b[t]  BY <1>4, <1>5, <2>1, <2>3
  <2>5. c = [t \in 0 .. n |-> c[t]]  BY <2>1
  <2>. QED  BY <2>2, <2>4, <2>5
<1>13. \A t \in 0 .. n : c[t] \in Nat
  <2>. DEFINE G == {t \in Nat : t <= n => c[t] \in Nat}
  <2>1. 0 \in G  BY <1>12
  <2>2. ASSUME NEW t \in 0 .. n - 1, t \in G  PROVE t + 1 \in G
    <3>1. PICK z \in 1 .. n : z = t + 1 /\ z - 1 = t  OBVIOUS
    <3>2. c[z] = c[t] + h[z] + b[z]  BY <1>12, <3>1
    <3>3. c[t] \in Nat /\ h[z] \in Nat /\ b[z] \in Nat  BY <1>4, <1>5, <2>2
    <3>4. c[z] \in Nat  BY <3>2, <3>3
    <3>. QED  BY <3>1, <3>4
  <2>3. G \in SUBSET Nat  OBVIOUS
  <2>4. \A t \in 0 .. n : t \in G
    <3>. HIDE DEF G
    <3>. QED  BY <2>1, <2>2, <2>3, Steps
  <2>. QED  BY <2>4
<1>14. ASSUME NEW t \in 1 .. n
       PROVE  /\ HeadEnd(t) = MsgEnd[t - 1] + HeadLen(Stream[t])
              /\ MsgEnd[t] = HeadEnd(t) + BodyLen(Stream[t])
  <2>1. HeadEnd(t) = c[t - 1] + h[t]  BY <1>4, <1>11 DEF HeadEnd
  <2>2. c[t] = c[t - 1] + h[t] + b[t]  BY <1>12
  <2>. QED  BY <1>4, <1>5, <1>11, <2>1, <2>2
<1>. QED  BY <1>1, <1>11, <1>12, <1>13, <1>14

LEMMA WireFacts ==
  /\ Wire \in Seq(Byte) /\ Len(Wire) = MsgEnd[Len(Stream)]
  /\ \A t \in 1 .. Len(Stream) : /\ IsHead(Wire, MsgEnd[t - 1], Stream[t])
                                 /\ IsBody(Wire, HeadEnd(t), Stream[t])
<1>1. PICK n \in Nat : /\ n = Len(Stream) /\ DOMAIN Stream = 1 .. n
                       /\ \A t \in 1 .. n : Stream[t] \in Request
  BY StreamTypes
<1>2. PICK ss : ss = [t \in 1 .. n |-> HeadBytes(Stream[t]) \o BodyBytes(Stream[t])]  OBVIOUS
<1>3. PICK w : w = Wire  OBVIOUS
<1>4. w = FlattenSeq(ss)  BY <1>1, <1>2, <1>3 DEF Wire
<1>5. \A t \in 1 .. n :
        /\ ss[t] = HeadBytes(Stream[t]) \o BodyBytes(Stream[t]) /\ ss[t] \in Seq(Byte)
        /\ Followed(ss[t], HeadBytes(Stream[t]), HeadLen(Stream[t]), BodyBytes(Stream[t]), BodyLen(Stream[t]))
        /\ HeadLen(Stream[t]) \in Nat /\ BodyLen(Stream[t]) \in Nat
  <2>1. ASSUME NEW m \in Request
        PROVE  /\ Followed(HeadBytes(m) \o BodyBytes(m), HeadBytes(m), HeadLen(m), BodyBytes(m), BodyLen(m))
               /\ HeadLen(m) \in Nat /\ BodyLen(m) \in Nat
    <3>1. HeadBytes(m) \in Seq(Byte) /\ BodyBytes(m) \in Seq(Byte)  BY HeadFacts, BodyFacts
    <3>2. Len(HeadBytes(m)) = HeadLen(m) /\ Len(BodyBytes(m)) = BodyLen(m)  BY HeadFacts, BodyFacts
    <3>3. HeadLen(m) \in Nat /\ BodyLen(m) \in Nat  BY HeadFacts, BodyFacts
    <3>. QED  BY <3>1, <3>2, <3>3, Both
  <2>2. ASSUME NEW t \in 1 .. n
        PROVE  ss[t] = HeadBytes(Stream[t]) \o BodyBytes(Stream[t]) /\ Stream[t] \in Request
    BY <1>1, <1>2
  <2>3. ASSUME NEW u, NEW h, NEW x, NEW y, NEW z, Followed(u, h, x, y, z)  PROVE u \in Seq(Byte)
    BY <2>3 DEF Followed
  <2>. QED  BY <2>1, <2>2, <2>3
<1>6. ss \in Seq(Seq(Byte)) /\ Len(ss) = n
  <2>1. ss \in [1 .. n -> Seq(Byte)]  BY <1>2, <1>5
  <2>. QED  BY <2>1, Tabulated
<1>7. w \in Seq(Byte) /\ \E off : Joined(ss, n, off, w)  BY <1>4, <1>6, FlattenJoins
<1>8. PICK off : Joined(ss, n, off, w)  BY <1>7
<1>9. /\ MsgEnd \in [0 .. n -> Nat] /\ MsgEnd[0] = 0
      /\ \A t \in 1 .. n : /\ HeadEnd(t) = MsgEnd[t - 1] + HeadLen(Stream[t])
                           /\ MsgEnd[t] = HeadEnd(t) + BodyLen(Stream[t])
  BY <1>1, MsgEndFacts
<1>10. \A t \in 1 .. n : /\ MsgEnd[t - 1] \in Nat /\ HeadEnd(t) \in Nat
                         /\ MsgEnd[t] = MsgEnd[t - 1] + (HeadLen(Stream[t]) + BodyLen(Stream[t]))
  <2>1. ASSUME NEW t \in 1 .. n
        PROVE  /\ MsgEnd[t - 1] \in Nat /\ HeadEnd(t) \in Nat
               /\ MsgEnd[t] = MsgEnd[t - 1] + (HeadLen(Stream[t]) + BodyLen(Stream[t]))
    <3>1. t - 1 \in 0 .. n  OBVIOUS
    <3>2. MsgEnd[t - 1] \in Nat /\ HeadLen(Stream[t]) \in Nat /\ BodyLen(Stream[t]) \in Nat
      BY <1>5, <1>9, <3>1
    <3>. QED  BY <1>9, <3>2
  <2>. QED  BY <2>1
<1>11. off = MsgEnd
  <2>1. PICK d : d = [t \in 1 .. n |-> HeadLen(Stream[t]) + BodyLen(Stream[t])]  OBVIOUS
  <2>2. /\ d \in [1 .. n -> Nat]
        /\ \A t \in 1 .. n : d[t] = HeadLen(Stream[t]) + BodyLen(Stream[t])
    BY <1>5, <2>1
  <2>3. Summed(d, n, MsgEnd)  BY <1>9, <1>10, <2>2 DEF Summed
  <2>4. /\ off \in [0 .. n -> Nat] /\ off[0] = 0
        /\ \A t \in 1 .. n : off[t] = off[t - 1] + Len(ss[t])
    BY <1>8 DEF Joined
  <2>5. \A t \in 1 .. n : Len(ss[t]) = d[t]  BY <1>5, <2>2 DEF Followed
  <2>6. Summed(d, n, off)  BY <2>4, <2>5 DEF Summed
  <2>. QED  BY <2>2, <2>3, <2>6, SumOnce
<1>12. ASSUME NEW t \in 1 .. n
       PROVE  IsHead(w, MsgEnd[t - 1], Stream[t]) /\ IsBody(w, HeadEnd(t), Stream[t])
  <2>1. PICK b \in Nat : b = MsgEnd[t - 1]  BY <1>10
  <2>2. PICK h \in Nat : h = HeadLen(Stream[t])  BY <1>5
  <2>3. PICK d \in Nat : d = BodyLen(Stream[t])  BY <1>5
  <2>4. HeadEnd(t) = b + h  BY <1>9, <2>1, <2>2
  <2>5. PICK p : p = ss[t] /\ Followed(p, HeadBytes(Stream[t]), h, BodyBytes(Stream[t]), d)
    BY <1>5, <2>2, <2>3
  <2>6. \A i \in 1 .. h + d : w[b + i] = p[i]
    <3>1. \A i \in 1 .. Len(ss[t]) : w[off[t - 1] + i] = ss[t][i]  BY <1>8 DEF Joined
    <3>2. Len(p) = h + d  BY <2>5 DEF Followed
    <3>. QED  BY <1>11, <2>1, <2>5, <3>1, <3>2
  <2>7. Len(HeadBytes(Stream[t])) = h /\ Len(BodyBytes(Stream[t])) = d
    BY <1>1, <2>2, <2>3, HeadFacts, BodyFacts
  <2>8. Inside(HeadBytes(Stream[t]), b, w)
    <3>1. ASSUME NEW i \in 1 .. h  PROVE w[b + i] = HeadBytes(Stream[t])[i]
      <4>1. i \in 1 .. h + d  OBVIOUS
      <4>. QED  BY <2>5, <2>6, <4>1 DEF Followed
    <3>. QED  BY <2>7, <3>1 DEF Inside
  <2>9. Inside(BodyBytes(Stream[t]), b + h, w)
    <3>1. ASSUME NEW i \in 1 .. d  PROVE w[b + h + i] = BodyBytes(Stream[t])[i]
      <4>1. h + i \in 1 .. h + d /\ b + (h + i) = b + h + i  OBVIOUS
      <4>2. w[b + (h + i)] = p[h + i]  BY <2>6, <4>1
      <4>. QED  BY <2>5, <4>1, <4>2 DEF Followed
    <3>. QED  BY <2>7, <3>1 DEF Inside
  <2>10. IsHead(w, b, Stream[t])  BY <1>1, <2>8, HeadFacts
  <2>11. b + h \in Nat  OBVIOUS
  <2>12. IsBody(w, b + h, Stream[t])  BY <1>1, <2>9, <2>11, BodyFacts
  <2>. QED  BY <2>1, <2>4, <2>10, <2>12
<1>13. Len(w) = MsgEnd[n]  BY <1>8, <1>11 DEF Joined
<1>. QED  BY <1>1, <1>3, <1>7, <1>12, <1>13
-----------------------------------------------------------------------------
(* The callbacks *)

Parse == parse_header \/ parse_body

\* The next byte says which callback is called.
LEMMA Acts ==
  ASSUME Parse, ~of_message_complete
  PROVE  /\ pos < got /\ Parsing
         /\ Wire[pos + 1].k = "url" => of_url
         /\ Wire[pos + 1].k = "name" => of_header_field
         /\ Wire[pos + 1].k = "value" => of_header_value
         /\ Wire[pos + 1].k = "eol" => IF Wire[pos].k = "colon" THEN of_header_value ELSE skip
         /\ Wire[pos + 1].k \in {"colon", "skip"} => skip
         /\ Wire[pos + 1].k = "head" => IF headers_completed_ THEN skip ELSE of_headers_complete
         /\ Wire[pos + 1].k = "body" => of_body
BY DEF Parse, parse_header, parse_body, of_url, of_header_field, of_header_value,
       of_headers_complete, of_body, skip, At

\* The part of the text s that a callback gets.
IsRun(s, y, r) ==
  /\ r \in Nat /\ r > 0 /\ y + r <= Len(s) /\ RunEnd = pos + r /\ pos + r <= got
  /\ Len(Run) = r /\ \A i \in 1 .. r : Run[i] = s[y + i]

LEMMA RunFacts ==
  ASSUME pos \in Nat, got \in Nat, pos < got, got <= Len(Wire), Len(Wire) \in Nat,
         NEW b \in Nat, NEW kind, NEW s, Len(s) \in Nat, IsAt(Wire, b, kind, s),
         NEW y \in Nat, y < Len(s), pos = b + y,
         b + Len(s) < Len(Wire) => Wire[b + Len(s) + 1].k # kind
  PROVE  \E r : IsRun(s, y, r)
<1>1. PICK n \in Nat : n = Len(s)  OBVIOUS
<1>2. PICK p \in Nat : p = pos /\ p = b + y  OBVIOUS
<1>3. PICK g \in Nat : g = got /\ p < g /\ g <= Len(Wire)  BY <1>2
<1>4. Wire[p + 1].k = kind
  <2>1. y + 1 \in 1 .. n /\ p + 1 = b + (y + 1)  BY <1>1, <1>2
  <2>. QED  BY <1>1, <2>1 DEF IsAt
<1>. DEFINE T == {j \in p + 1 .. g : \A i \in p + 1 .. j : Wire[i].k = Wire[p + 1].k}
<1>5. p + 1 \in T  BY <1>3
<1>6. T \in SUBSET (1 .. g)  OBVIOUS
<1>7. PICK e \in T : e = Max(T)
  <2>. HIDE DEF T
  <2>. QED  BY <1>3, <1>5, <1>6, MaxExists
<1>8. RunEnd = e  BY <1>2, <1>3, <1>7 DEF RunEnd
<1>9. e \in p + 1 .. g /\ \A i \in p + 1 .. e : Wire[i].k = kind  BY <1>4, <1>7
<1>10. e <= b + n
  <2>. SUFFICES ASSUME ~(e <= b + n)  PROVE FALSE
    OBVIOUS
  <2>1. b + n + 1 \in p + 1 .. e /\ b + n < Len(Wire)  BY <1>1, <1>2, <1>3, <1>9
  <2>2. Wire[b + n + 1].k = kind  BY <1>9, <2>1
  <2>. QED  BY <1>1, <2>1, <2>2
<1>11. PICK r \in Nat : r = e - p /\ r > 0 /\ y + r <= n /\ e = p + r
  <2>1. e - p \in Nat /\ e - p > 0 /\ y + (e - p) <= n /\ e = p + (e - p)  BY <1>2, <1>9, <1>10
  <2>. QED  BY <2>1
<1>12. Run = [i \in 1 .. r |-> Wire[p + i].x]  BY <1>2, <1>8, <1>11 DEF Run
<1>13. Len(Run) = r  BY <1>12
<1>14. ASSUME NEW i \in 1 .. r  PROVE Run[i] = s[y + i]
  <2>1. y + i \in 1 .. n /\ p + i = b + (y + i)  BY <1>2, <1>11
  <2>2. Wire[b + (y + i)].x = s[y + i]  BY <1>1, <2>1 DEF IsAt
  <2>. QED  BY <1>12, <2>1, <2>2
<1>15. pos + r <= got  BY <1>2, <1>3, <1>9, <1>11
<1>. QED  BY <1>1, <1>2, <1>8, <1>11, <1>13, <1>14, <1>15 DEF IsRun

LEMMA RunTyped ==
  ASSUME NEW S, NEW s \in Seq(S), NEW y \in Nat, NEW r, IsRun(s, y, r), pos \in Nat
  PROVE  Run \in Seq(S) /\ Run # <<>>
<1>1. r \in Nat /\ r > 0 /\ y + r <= Len(s) /\ Len(Run) = r /\ Len(s) \in Nat
      /\ \A i \in 1 .. r : Run[i] = s[y + i]
  BY DEF IsRun
<1>2. \A i \in 1 .. r : Run[i] \in S
  <2>1. ASSUME NEW i \in 1 .. r  PROVE Run[i] \in S
    <3>1. y + i \in 1 .. Len(s)  BY <1>1
    <3>. QED  BY <1>1, <3>1
  <2>. QED  BY <2>1
<1>3. RunEnd - pos = r
  <2>1. PICK e : e = RunEnd  OBVIOUS
  <2>2. e = pos + r  BY <2>1 DEF IsRun
  <2>3. e - pos = r  BY <1>1, <2>2
  <2>. QED  BY <2>1, <2>3
<1>4. Run = [i \in 1 .. r |-> Run[i]]
  <2>1. Run = [i \in 1 .. r |-> Wire[pos + i].x]  BY <1>3 DEF Run
  <2>. QED  BY <2>1
<1>5. Run \in [1 .. r -> S]  BY <1>2, <1>4
<1>6. Run \in Seq(S)  BY <1>1, <1>5, Tabulated
<1>. QED  BY <1>1, <1>6

LEMMA FirstPart ==
  ASSUME NEW S, NEW s \in Seq(S), NEW y \in Nat, y <= Len(s)
  PROVE  /\ SubSeq(s, 1, y) \in Seq(S) /\ Len(SubSeq(s, 1, y)) = y
         /\ \A i \in 1 .. y : SubSeq(s, 1, y)[i] = s[i]
OBVIOUS

\* A text and its next part.
NextPart(s, y, r, run) ==
  r \in Nat /\ y + r <= Len(s) /\ Len(run) = r /\ \A i \in 1 .. r : run[i] = s[y + i]

Extended(s, y, r, run) ==
  SubSeq(s, 1, y) \o run = SubSeq(s, 1, y + r) /\ (y = 0 => run = SubSeq(s, 1, r))

LEMMA PrefixMore ==
  ASSUME NEW S, NEW s \in Seq(S), NEW y \in Nat, NEW run \in Seq(S), NEW r, NextPart(s, y, r, run)
  PROVE  Extended(s, y, r, run)
<1>. r \in Nat /\ y + r <= Len(s) /\ Len(run) = r /\ \A i \in 1 .. r : run[i] = s[y + i]
  BY DEF NextPart
<1>0. y + r \in Nat /\ y <= Len(s)  OBVIOUS
<1>a. PICK p : p = SubSeq(s, 1, y)  OBVIOUS
<1>b. PICK q : q = SubSeq(s, 1, y + r)  OBVIOUS
<1>1. p \in Seq(S) /\ p = SubSeq(s, 1, y) /\ Len(p) = y /\ \A i \in 1 .. y : p[i] = s[i]
  BY <1>0, <1>a, FirstPart
<1>2. /\ q \in Seq(S) /\ q = SubSeq(s, 1, y + r) /\ Len(q) = y + r
      /\ \A i \in 1 .. y + r : q[i] = s[i]
  BY <1>0, <1>b, FirstPart
<1>3. PICK u : u = p \o run  OBVIOUS
<1>4. u \in Seq(S) /\ Len(u) = y + r
  <2>1. u \in Seq(S) /\ Len(u) = Len(p) + Len(run)  BY <1>1, <1>3, Concat
  <2>. QED  BY <1>1, <2>1
<1>5. ASSUME NEW i \in 1 .. y + r  PROVE u[i] = s[i]
  <2>1. CASE i <= y
    <3>1. i \in 1 .. Len(p)  BY <1>1, <2>1
    <3>2. u[i] = p[i]  BY <1>3, <3>1
    <3>. QED  BY <1>1, <2>1, <3>2
  <2>2. CASE ~(i <= y)
    <3>1. PICK j \in 1 .. r : i = y + j
      <4>1. i - y \in 1 .. r /\ i = y + (i - y)  BY <2>2
      <4>. QED  BY <4>1
    <3>2. u[Len(p) + j] = run[j]  BY <1>3, <3>1, Concat
    <3>. QED  BY <1>1, <3>1, <3>2
  <2>. QED  BY <2>1, <2>2
<1>6. u = q  BY <1>2, <1>4, <1>5
<1>7. y = 0 => run = q
  <2>. SUFFICES ASSUME y = 0  PROVE run = q
    OBVIOUS
  <2>1. p = <<>>  BY <1>1
  <2>2. u = run  BY <1>3, <2>1
  <2>. QED  BY <1>6, <2>2
<1>8. y = 0 => y + r = r  OBVIOUS
<1>. QED  BY <1>a, <1>b, <1>3, <1>6, <1>7, <1>8 DEF Extended

LEMMA PrefixEnds ==
  ASSUME NEW S, NEW s \in Seq(S)
  PROVE  SubSeq(s, 1, Len(s)) = s /\ SubSeq(s, 1, 0) = <<>>
OBVIOUS
-----------------------------------------------------------------------------
(* The lines of fields *)

\* out has the first j of the fields fs behind its first P, and no more; or the
\* first j - 1 of them, and then f.
Whole(fs, j, P, out) == Len(out) = P + j /\ \A i \in 1 .. j : out[P + i] = fs[i]
Partly(fs, j, P, out, f) ==
  Len(out) = P + j /\ (\A i \in 1 .. j - 1 : out[P + i] = fs[i]) /\ out[P + j] = f

\* x bytes of the lines of fs are parsed: up to the end of line j, a part of its
\* name, its colon, or a part of its value.
Between(fs, j, x, P, out, sv) == x = LineEnd(fs)[j] /\ sv = TRUE /\ Whole(fs, j, P, out)
InName(fs, j, y, x, P, out, sv) ==
  /\ x = LineEnd(fs)[j - 1] + y /\ sv = FALSE
  /\ Partly(fs, j, P, out, [name |-> SubSeq(fs[j].name, 1, y), value |-> <<>>])
AtValue(fs, j, x, P, out, sv) ==
  /\ x = LineEnd(fs)[j - 1] + Len(fs[j].name) + 1 /\ sv = FALSE
  /\ Partly(fs, j, P, out, [name |-> fs[j].name, value |-> <<>>])
InValue(fs, j, y, x, P, out, sv) ==
  /\ x = LineEnd(fs)[j - 1] + Len(fs[j].name) + 1 + y /\ sv = TRUE
  /\ Partly(fs, j, P, out, [name |-> fs[j].name, value |-> SubSeq(fs[j].value, 1, y)])

FieldsAt(fs, x, P, out, sv) ==
  \/ \E j \in 0 .. Len(fs) : Between(fs, j, x, P, out, sv)
  \/ \E j \in 1 .. Len(fs) : \/ \E y \in 1 .. Len(fs[j].name) : InName(fs, j, y, x, P, out, sv)
                             \/ AtValue(fs, j, x, P, out, sv)
                             \/ \E y \in 1 .. Len(fs[j].value) : InValue(fs, j, y, x, P, out, sv)

LEMMA FieldParts ==
  ASSUME NEW f \in Field
  PROVE  f = [name |-> f.name, value |-> f.value] /\ f.name \in Text /\ f.value \in Text
         /\ f.name # <<>>
BY DEF Field

LEMMA FieldTyped ==
  ASSUME NEW a \in Text, a # <<>>, NEW v \in Text
  PROVE  [name |-> a, value |-> v] \in Field
BY DEF Field

LEMMA OneAppended ==
  ASSUME NEW S, NEW s \in Seq(S), NEW f \in S
  PROVE  /\ Append(s, f) \in Seq(S) /\ Len(Append(s, f)) = Len(s) + 1
         /\ Append(s, f)[Len(s) + 1] = f /\ \A k \in 1 .. Len(s) : Append(s, f)[k] = s[k]
OBVIOUS

LEMMA OneReplaced ==
  ASSUME NEW S, NEW s \in Seq(S), NEW f \in S, NEW n \in 1 .. Len(s)
  PROVE  /\ [s EXCEPT ![n] = f] \in Seq(S) /\ Len([s EXCEPT ![n] = f]) = Len(s)
         /\ [s EXCEPT ![n] = f][n] = f
         /\ \A k \in 1 .. Len(s) : k # n => [s EXCEPT ![n] = f][k] = s[k]
OBVIOUS

\* u is out, changed behind its first P only.
Kept(P, out, u) == u \in Seq(Field) /\ \A k \in 1 .. P : u[k] = out[k]

LEMMA Appended ==
  ASSUME NEW fs, NEW i, NEW j \in Nat, NEW P \in Nat, NEW out \in Seq(Field), Whole(fs, j, P, out),
         i = j + 1, NEW f \in Field, NEW u, u = Append(out, f)
  PROVE  Partly(fs, i, P, u, f) /\ Kept(P, out, u)
<1>1. PICK n \in Nat : n = Len(out) /\ n = P + j  BY DEF Whole
<1>3. u \in Seq(Field) /\ Len(u) = n + 1 /\ u[n + 1] = f /\ \A k \in 1 .. n : u[k] = out[k]
  <2>1. /\ u \in Seq(Field) /\ Len(u) = Len(out) + 1 /\ u[Len(out) + 1] = f
        /\ \A k \in 1 .. Len(out) : u[k] = out[k]
    BY OneAppended
  <2>. QED  BY <1>1, <2>1
<1>4. P + i = n + 1 /\ i - 1 = j  BY <1>1
<1>5. ASSUME NEW k \in 1 .. j  PROVE u[P + k] = fs[k]
  <2>1. P + k \in 1 .. n  BY <1>1
  <2>2. out[P + k] = fs[k]  BY DEF Whole
  <2>. QED  BY <1>3, <2>1, <2>2
<1>6. ASSUME NEW k \in 1 .. P  PROVE u[k] = out[k]
  <2>1. k \in 1 .. n  BY <1>1
  <2>. QED  BY <1>3, <2>1
<1>7. Partly(fs, i, P, u, f)  BY <1>3, <1>4, <1>5 DEF Partly
<1>. QED  BY <1>3, <1>6, <1>7 DEF Kept

LEMMA PartlyLast ==
  ASSUME NEW fs, NEW j \in Nat \ {0}, NEW P \in Nat, NEW out \in Seq(Field), NEW g,
         Partly(fs, j, P, out, g)
  PROVE  out # <<>> /\ out[Len(out)] = g
<1>1. PICK n \in Nat : n = Len(out) /\ n = P + j  BY DEF Partly
<1>. QED  BY <1>1 DEF Partly

LEMMA Replaced ==
  ASSUME NEW fs, NEW j \in Nat \ {0}, NEW P \in Nat, NEW out \in Seq(Field), NEW g,
         Partly(fs, j, P, out, g), NEW f \in Field, NEW u, u = [out EXCEPT ![Len(out)] = f]
  PROVE  Partly(fs, j, P, u, f) /\ Kept(P, out, u)
<1>1. PICK n \in Nat : n = Len(out) /\ n = P + j  BY DEF Partly
<1>3. u \in Seq(Field) /\ Len(u) = n /\ u[n] = f /\ \A k \in 1 .. n - 1 : u[k] = out[k]
  <2>1. n \in 1 .. Len(out) /\ \A k \in 1 .. n - 1 : k \in 1 .. Len(out) /\ k # n  BY <1>1
  <2>2. u = [out EXCEPT ![n] = f]  BY <1>1
  <2>3. /\ u \in Seq(Field) /\ Len(u) = Len(out) /\ u[n] = f
        /\ \A k \in 1 .. Len(out) : k # n => u[k] = out[k]
    BY <2>1, <2>2, OneReplaced
  <2>. QED  BY <1>1, <2>1, <2>3
<1>5. ASSUME NEW k \in 1 .. j - 1  PROVE u[P + k] = fs[k]
  <2>1. P + k \in 1 .. n - 1  BY <1>1
  <2>2. out[P + k] = fs[k]  BY DEF Partly
  <2>. QED  BY <1>3, <2>1, <2>2
<1>6. ASSUME NEW k \in 1 .. P  PROVE u[k] = out[k]
  <2>1. k \in 1 .. n - 1  BY <1>1
  <2>. QED  BY <1>3, <2>1
<1>7. Partly(fs, j, P, u, f)  BY <1>1, <1>3, <1>5 DEF Partly
<1>. QED  BY <1>3, <1>6, <1>7 DEF Kept

\* Field n with a longer name, with a longer value, and another field in its place.
NameMore(out, n, run) == [out EXCEPT ![n].name = @ \o run]
ValueMore(out, n, run) == [out EXCEPT ![n].value = @ \o run]
With(out, n, f) == [out EXCEPT ![n] = f]
FieldOf(a, v) == [name |-> a, value |-> v]

LEMMA NameReplaced ==
  ASSUME NEW out, NEW n, NEW a, NEW v, NEW run, out[n] = FieldOf(a, v)
  PROVE  NameMore(out, n, run) = With(out, n, FieldOf(a \o run, v))
<1>1. PICK x : x = a \o run  OBVIOUS
<1>2. out[n].name = a  BY DEF FieldOf
<1>3. [out EXCEPT ![n].name = @ \o run] = [out EXCEPT ![n] = [out[n] EXCEPT !.name = x]]
  BY <1>1, <1>2
<1>4. [out[n] EXCEPT !.name = x] = [name |-> x, value |-> v]  BY DEF FieldOf
<1>. QED  BY <1>1, <1>3, <1>4 DEF NameMore, ValueMore, With, FieldOf

LEMMA ValueReplaced ==
  ASSUME NEW out, NEW n, NEW a, NEW v, NEW run, out[n] = FieldOf(a, v)
  PROVE  ValueMore(out, n, run) = With(out, n, FieldOf(a, v \o run))
<1>1. PICK x : x = v \o run  OBVIOUS
<1>2. out[n].value = v  BY DEF FieldOf
<1>3. [out EXCEPT ![n].value = @ \o run] = [out EXCEPT ![n] = [out[n] EXCEPT !.value = x]]
  BY <1>1, <1>2
<1>4. [out[n] EXCEPT !.value = x] = [name |-> a, value |-> x]  BY DEF FieldOf
<1>. QED  BY <1>1, <1>3, <1>4 DEF NameMore, ValueMore, With, FieldOf

LEMMA Completed ==
  ASSUME NEW fs, NEW j \in Nat \ {0}, NEW P \in Nat, NEW out, Partly(fs, j, P, out, fs[j])
  PROVE  Whole(fs, j, P, out)
<1>1. \A i \in 1 .. j : i \in 1 .. j - 1 \/ i = j  OBVIOUS
<1>. QED  BY <1>1 DEF Partly, Whole

\* Line j of the lines fs, which lie behind place b, lies behind place a of them
\* and has a name of N and a value of V bytes.
LineAt(b, fs, j, a, N, V) ==
  /\ a = LineEnd(fs)[j - 1] /\ N = Len(fs[j].name) /\ N > 0 /\ V = Len(fs[j].value)
  /\ LineEnd(fs)[j] = a + N + V + 2 /\ LineEnd(fs)[Len(fs)] \in Nat
  /\ a + N + V + 2 <= LineEnd(fs)[Len(fs)]
  /\ IsAt(Wire, b + a, "name", fs[j].name) /\ Wire[b + a + N + 1].k = "colon"
  /\ IsAt(Wire, b + a + N + 1, "value", fs[j].value)
  /\ Wire[b + a + N + V + 2].k = "eol"
  /\ fs[j].name \in Text \ {<<>>} /\ fs[j].value \in Text /\ fs[j] \in Field

\* Sums of the places in a line.
LEMMA LineSums ==
  ASSUME NEW b \in Nat, NEW a \in Nat, NEW N \in Nat
  PROVE  /\ b + (a + N + 2) = b + a + N + 2
         /\ \A V \in Nat : b + a + N + 1 + V + 1 = b + a + N + V + 2
<1>1. b + (a + N + 2) = b + a + N + 2  OBVIOUS
<1>2. ASSUME NEW V \in Nat  PROVE b + a + N + 1 + V + 1 = b + a + N + V + 2
  <2>1. PICK c \in Nat : c = b + a + N  OBVIOUS
  <2>2. c + 1 + V + 1 = c + V + 2  BY <2>1
  <2>. QED  BY <2>1, <2>2
<1>. QED  BY <1>1, <1>2

\* Sums of the places in the value of a field.
LEMMA ValueSums ==
  ASSUME NEW b \in Nat, NEW a \in Nat, NEW N \in Nat, NEW y \in Nat
  PROVE  /\ b + a + N + 1 \in Nat /\ b + (a + N + 1 + y) = b + a + N + 1 + y
         /\ \A r \in Nat : b + (a + N + 1 + y) + r = b + (a + N + 1 + (y + r))
<1>1. PICK c \in Nat : c = a + N + 1  OBVIOUS
<1>2. b + (c + y) = b + c + y /\ b + c \in Nat  BY <1>1
<1>3. b + c = b + a + N + 1  BY <1>1
<1>4. \A r \in Nat : b + (c + y) + r = b + (c + (y + r))  BY <1>1
<1>. QED  BY <1>1, <1>2, <1>3, <1>4

LEMMA LinePlaced ==
  ASSUME NEW b \in Nat, NEW fs \in Seq(Field), AreLines(Wire, b, fs), NEW j \in 1 .. Len(fs)
  PROVE  \E a, N, V \in Nat : LineAt(b, fs, j, a, N, V)
<1>1. PICK n \in Nat : n = Len(fs)  OBVIOUS
<1>2. PICK e : e = LineEnd(fs)  OBVIOUS
<1>3. e \in [0 .. n -> Nat] /\ e[j] = e[j - 1] + Width(fs[j])  BY <1>1, <1>2, LineEndFacts
<1>4. e[j] <= e[n] /\ e[n] \in Nat
  <2>1. j \in 0 .. n /\ n \in 0 .. n /\ j <= n  BY <1>1
  <2>. QED  BY <1>1, <1>2, <1>3, <2>1, LineEndOrder
<1>5. PICK a \in Nat : a = e[j - 1]
  <2>1. j - 1 \in 0 .. n  BY <1>1
  <2>. QED  BY <1>3, <2>1
<1>6. fs[j] \in Field /\ fs[j].name \in Text \ {<<>>} /\ fs[j].value \in Text
  <2>1. fs[j] \in Field  OBVIOUS
  <2>. QED  BY <2>1, FieldParts
<1>7. PICK N \in Nat : N = Len(fs[j].name) /\ N > 0  BY <1>6, LineFacts
<1>8. PICK V \in Nat : V = Len(fs[j].value)  BY <1>6, LineFacts
<1>9. Width(fs[j]) = N + V + 2  BY <1>7, <1>8 DEF Width
<1>10. e[j] = a + N + V + 2
  <2>1. e[j] = a + (N + V + 2)  BY <1>3, <1>5, <1>9
  <2>2. a \in Nat /\ N \in Nat /\ V \in Nat  BY <1>5, <1>7, <1>8
  <2>. QED  BY <2>1, <2>2, LineSums
<1>11. IsLine(Wire, b + a, fs[j])  BY <1>2, <1>5 DEF AreLines
<1>12. LineAt(b, fs, j, a, N, V)
  BY <1>1, <1>2, <1>4, <1>5, <1>6, <1>7, <1>8, <1>10, <1>11 DEF IsLine, LineAt
<1>. QED  BY <1>12

\* What a callback adds to a text.
TextRun(s, y, r) ==
  /\ Run \in Text
  /\ SubSeq(s, 1, y) \o Run = SubSeq(s, 1, y + r) /\ (y = 0 => Run = SubSeq(s, 1, y + r))
  /\ SubSeq(s, 1, y + r) \in Text /\ SubSeq(s, 1, y + r) # <<>>

LEMMA RunText ==
  ASSUME NEW s \in Text, NEW y \in Nat, NEW r, IsRun(s, y, r), pos \in Nat
  PROVE  TextRun(s, y, r)
<1>1. s \in Seq(Nat) /\ Len(s) \in Nat  BY DEF Text
<1>2. Run \in Seq(Nat)  BY <1>1, RunTyped
<1>3. PICK run \in Seq(Nat) : run = Run  BY <1>2
<1>4. /\ r \in Nat /\ r > 0 /\ y + r <= Len(s) /\ Len(run) = r
      /\ \A i \in 1 .. r : run[i] = s[y + i]
  BY <1>3 DEF IsRun
<1>5. SubSeq(s, 1, y) \o run = SubSeq(s, 1, y + r) /\ (y = 0 => run = SubSeq(s, 1, r))
  <2>1. NextPart(s, y, r, run)  BY <1>4 DEF NextPart
  <2>2. Extended(s, y, r, run)  BY <1>1, <1>3, <2>1, PrefixMore
  <2>. QED  BY <2>2 DEF Extended
<1>6. PICK q : q = SubSeq(s, 1, y + r)  OBVIOUS
<1>7. y + r \in Nat  BY <1>4
<1>8. q \in Seq(Nat) /\ Len(q) = y + r  BY <1>1, <1>4, <1>6, <1>7, FirstPart
<1>9. q # <<>>  BY <1>4, <1>8
<1>10. y = 0 => y + r = r  BY <1>4
<1>. QED  BY <1>3, <1>5, <1>6, <1>8, <1>9, <1>10 DEF Text, TextRun

\* There are bytes to parse.
Ahead == /\ pos \in Nat /\ got \in Nat /\ pos < got /\ got <= Len(Wire) /\ Len(Wire) \in Nat
         /\ state_field_value_ \in BOOLEAN /\ fields_ \in Seq(Field)

\* A callback has moved on within the lines of fs, which lie behind place b, from
\* the place x in them.
Moved(b, fs, P, x) ==
  /\ Kept(P, fields_, fields_') /\ error' = FALSE /\ state_field_value_' \in BOOLEAN
  /\ \E z \in Nat : /\ x < z /\ z <= LineEnd(fs)[Len(fs)] /\ pos' = b + z /\ b + z <= got
                    /\ FieldsAt(fs, z, P, fields_', state_field_value_')

LEMMA NameStep ==
  ASSUME Ahead, of_header_field, NEW b \in Nat, NEW fs \in Seq(Field), NEW j \in 1 .. Len(fs),
         NEW a \in Nat, NEW N \in Nat, NEW V \in Nat, LineAt(b, fs, j, a, N, V),
         NEW y \in Nat, y < N, NEW P \in Nat, pos = b + (a + y),
         \/ y = 0 /\ state_field_value_ = TRUE /\ Whole(fs, j - 1, P, fields_)
         \/ /\ y # 0 /\ state_field_value_ = FALSE
            /\ Partly(fs, j, P, fields_, [name |-> SubSeq(fs[j].name, 1, y), value |-> <<>>])
  PROVE  Moved(b, fs, P, a + y)
<1>1. PICK s \in Text : s = fs[j].name /\ Len(s) = N  BY DEF LineAt
<1>2. PICK c \in Nat : c = b + a /\ pos = c + y
  <2>1. b + a \in Nat /\ pos = b + a + y  OBVIOUS
  <2>. QED  BY <2>1
<1>3. PICK r : IsRun(s, y, r)
  <2>1. y < Len(s) /\ Len(s) \in Nat  BY <1>1
  <2>2. IsAt(Wire, c, "name", s)  BY <1>1, <1>2 DEF LineAt
  <2>3. Wire[c + Len(s) + 1].k # "name"  BY <1>1, <1>2 DEF LineAt
  <2>. QED  BY <1>2, <2>1, <2>2, <2>3, RunFacts DEF Ahead
<1>4. PICK run : run = Run  OBVIOUS
<1>5. PICK t : t = SubSeq(s, 1, y + r)  OBVIOUS
<1>6. /\ SubSeq(s, 1, y) \o run = t /\ (y = 0 => run = t) /\ t \in Text /\ t # <<>>
  <2>1. TextRun(s, y, r)  BY <1>1, <1>3, RunText DEF Ahead
  <2>. QED  BY <1>4, <1>5, <2>1 DEF TextRun
<1>7. r \in Nat /\ r > 0 /\ y + r <= N /\ RunEnd = pos + r /\ pos + r <= got
  BY <1>1, <1>3 DEF IsRun
<1>8. PICK f \in Field : f = [name |-> t, value |-> <<>>]
  <2>2. <<>> \in Text  BY DEF Text
  <2>. QED  BY <1>6, <2>2, FieldTyped
<1>9. fields_ \in Seq(Field)  BY DEF Ahead
<1>10. Partly(fs, j, P, fields_', f) /\ Kept(P, fields_, fields_') /\ error' = FALSE
  <2>1. CASE y = 0
    <3>1. state_field_value_ = TRUE /\ Whole(fs, j - 1, P, fields_)  BY <2>1
    <3>2. fields_' = Append(fields_, [name |-> run, value |-> <<>>]) /\ error' = FALSE
      BY <1>4, <3>1 DEF of_header_field
    <3>3. fields_' = Append(fields_, f)  BY <1>6, <1>8, <2>1, <3>2
    <3>4. j - 1 \in Nat /\ j = j - 1 + 1  OBVIOUS
    <3>. QED  BY <1>8, <1>9, <3>1, <3>2, <3>3, <3>4, Appended
  <2>2. CASE y # 0
    <3>1. PICK p : p = SubSeq(s, 1, y)  OBVIOUS
    <3>2. PICK g : g = [name |-> p, value |-> <<>>]  OBVIOUS
    <3>3. state_field_value_ = FALSE /\ Partly(fs, j, P, fields_, g)  BY <1>1, <2>2, <3>1, <3>2
    <3>4. j \in Nat \ {0}  OBVIOUS
    <3>5. fields_ # <<>> /\ fields_[Len(fields_)] = g  BY <1>9, <3>3, <3>4, PartlyLast
    <3>6. error' = FALSE  BY <3>3, <3>5 DEF of_header_field
    <3>7. fields_' = NameMore(fields_, Len(fields_), run)
      BY <1>4, <3>3, <3>6 DEF of_header_field, NameMore
    <3>8. NameMore(fields_, Len(fields_), run)
             = With(fields_, Len(fields_), FieldOf(p \o run, <<>>))
      <4>1. fields_[Len(fields_)] = FieldOf(p, <<>>)  BY <3>2, <3>5 DEF FieldOf
      <4>. QED  BY <4>1, NameReplaced
    <3>9. p \o run = t  BY <1>6, <3>1
    <3>10. fields_' = [fields_ EXCEPT ![Len(fields_)] = f]  BY <1>8, <3>7, <3>8, <3>9 DEF With, FieldOf
    <3>. QED  BY <1>8, <1>9, <3>3, <3>4, <3>6, <3>10, Replaced
  <2>. QED  BY <2>1, <2>2
<1>11. state_field_value_' = FALSE /\ pos' = RunEnd  BY DEF of_header_field
<1>12. PICK z \in Nat : z = a + (y + r)  BY <1>7
<1>13. a + y < z /\ pos' = b + z /\ b + z <= got
  <2>1. pos + r = b + z  BY <1>7, <1>12
  <2>2. a + y < z  BY <1>7, <1>12
  <2>. QED  BY <1>7, <1>11, <2>1, <2>2
<1>14. z <= LineEnd(fs)[Len(fs)]
  <2>1. PICK E \in Nat : E = LineEnd(fs)[Len(fs)] /\ a + N + V + 2 <= E  BY DEF LineAt
  <2>. QED  BY <1>7, <1>12, <2>1
<1>15. FieldsAt(fs, z, P, fields_', state_field_value_')
  <2>1. y + r \in 1 .. Len(fs[j].name)  BY <1>7 DEF LineAt
  <2>2. z = LineEnd(fs)[j - 1] + (y + r)  BY <1>12 DEF LineAt
  <2>3. InName(fs, j, y + r, z, P, fields_', state_field_value_')
    BY <1>1, <1>5, <1>8, <1>10, <1>11, <2>2 DEF InName
  <2>. QED  BY <2>1, <2>3 DEF FieldsAt
<1>. QED  BY <1>10, <1>11, <1>12, <1>13, <1>14, <1>15 DEF Moved

LEMMA ValueStep ==
  ASSUME Ahead, of_header_value, Wire[pos + 1].k = "value",
         NEW b \in Nat, NEW fs \in Seq(Field), NEW j \in 1 .. Len(fs),
         NEW a \in Nat, NEW N \in Nat, NEW V \in Nat, LineAt(b, fs, j, a, N, V),
         NEW y \in Nat, y < V, NEW P \in Nat, pos = b + (a + N + 1 + y),
         Partly(fs, j, P, fields_, [name |-> fs[j].name, value |-> SubSeq(fs[j].value, 1, y)])
  PROVE  Moved(b, fs, P, a + N + 1 + y)
<1>1. PICK s \in Text : s = fs[j].value /\ Len(s) = V  BY DEF LineAt
<1>2. PICK c \in Nat : c = b + a + N + 1 /\ pos = c + y
  <2>1. b + a + N + 1 \in Nat /\ pos = b + a + N + 1 + y  BY ValueSums
  <2>. QED  BY <2>1
<1>3. PICK r : IsRun(s, y, r)
  <2>1. y < Len(s) /\ Len(s) \in Nat  BY <1>1
  <2>2. IsAt(Wire, c, "value", s)  BY <1>1, <1>2 DEF LineAt
  <2>3. Wire[c + Len(s) + 1].k # "value"
    <3>1. c + V + 1 = b + a + N + V + 2
      <4>1. b + a + N + 1 + V + 1 = b + a + N + V + 2  BY LineSums
      <4>. QED  BY <1>2, <4>1
    <3>. QED  BY <1>1, <3>1 DEF LineAt
  <2>4. pos \in Nat /\ got \in Nat /\ pos < got /\ got <= Len(Wire) /\ Len(Wire) \in Nat
    BY DEF Ahead
  <2>5. c \in Nat /\ pos = c + y  BY <1>2
  <2>. QED  BY <2>1, <2>2, <2>3, <2>4, <2>5, RunFacts
<1>4. PICK run : run = Run  OBVIOUS
<1>5. PICK t : t = SubSeq(s, 1, y + r)  OBVIOUS
<1>6. SubSeq(s, 1, y) \o run = t /\ t \in Text
  <2>1. TextRun(s, y, r)  BY <1>1, <1>3, RunText DEF Ahead
  <2>. QED  BY <1>4, <1>5, <2>1 DEF TextRun
<1>7. r \in Nat /\ r > 0 /\ y + r <= V /\ RunEnd = pos + r /\ pos + r <= got
  BY <1>1, <1>3 DEF IsRun
<1>8. PICK f \in Field : f = [name |-> fs[j].name, value |-> t]
  <2>1. fs[j].name \in Text /\ fs[j].name # <<>>  BY DEF LineAt
  <2>. QED  BY <1>6, <2>1, FieldTyped
<1>9. fields_ \in Seq(Field) /\ j \in Nat \ {0}  BY DEF Ahead
<1>10. Partly(fs, j, P, fields_', f) /\ Kept(P, fields_, fields_') /\ error' = FALSE
       /\ state_field_value_' = TRUE /\ pos' = RunEnd
  <2>1. PICK p : p = SubSeq(s, 1, y)  OBVIOUS
  <2>2. PICK g : g = [name |-> fs[j].name, value |-> p]  OBVIOUS
  <2>3. Partly(fs, j, P, fields_, g)  BY <1>1, <2>1, <2>2
  <2>5. fields_ # <<>> /\ fields_[Len(fields_)] = g  BY <1>9, <2>3, PartlyLast
  <2>6. error' = FALSE /\ state_field_value_' = TRUE /\ pos' = RunEnd
    BY <2>5 DEF of_header_value, At
  <2>7. fields_' = ValueMore(fields_, Len(fields_), run)
    BY <1>4, <2>6 DEF of_header_value, ValueMore
  <2>8. ValueMore(fields_, Len(fields_), run)
           = With(fields_, Len(fields_), FieldOf(fs[j].name, p \o run))
    <3>1. fields_[Len(fields_)] = FieldOf(fs[j].name, p)  BY <2>2, <2>5 DEF FieldOf
    <3>. QED  BY <3>1, ValueReplaced
  <2>9. p \o run = t  BY <1>6, <2>1
  <2>10. fields_' = [fields_ EXCEPT ![Len(fields_)] = f]  BY <1>8, <2>7, <2>8, <2>9 DEF With, FieldOf
  <2>. QED  BY <1>8, <1>9, <2>3, <2>6, <2>10, Replaced
<1>12. PICK z \in Nat : z = a + N + 1 + (y + r)  BY <1>7
<1>13. a + N + 1 + y < z /\ pos' = b + z /\ b + z <= got
  <2>1. pos + r = b + z
    <3>1. r \in Nat  BY <1>7
    <3>. QED  BY <1>12, <3>1, ValueSums
  <2>2. a + N + 1 + y < z  BY <1>7, <1>12
  <2>. QED  BY <1>7, <1>10, <2>1, <2>2
<1>14. z <= LineEnd(fs)[Len(fs)]
  <2>1. PICK E \in Nat : E = LineEnd(fs)[Len(fs)] /\ a + N + V + 2 <= E  BY DEF LineAt
  <2>. QED  BY <1>7, <1>12, <2>1
<1>15. FieldsAt(fs, z, P, fields_', state_field_value_')
  <2>1. y + r \in 1 .. Len(fs[j].value)  BY <1>7 DEF LineAt
  <2>2. z = LineEnd(fs)[j - 1] + Len(fs[j].name) + 1 + (y + r)  BY <1>12 DEF LineAt
  <2>3. InValue(fs, j, y + r, z, P, fields_', state_field_value_')
    BY <1>1, <1>5, <1>8, <1>10, <2>2 DEF InValue
  <2>. QED  BY <2>1, <2>3 DEF FieldsAt
<1>. QED  BY <1>10, <1>12, <1>13, <1>14, <1>15 DEF Moved

\* What the callbacks for fields leave alone.
RestKept == UNCHANGED <<connVars, txn, strurl_, bodybf_, bodysz_, headers_completed_,
                        message_completed_>>

LEMMA FieldCallbacks ==
  /\ of_header_field => RestKept
  /\ of_header_value => RestKept
  /\ skip => /\ RestKept /\ pos' = pos + 1 /\ fields_' = fields_ /\ error' = error
             /\ state_field_value_' = state_field_value_
BY DEF of_header_field, of_header_value, skip, RestKept, requestVars

\* The kinds of the bytes of a line.
Kinds(b, a, N, V) ==
  \A x \in Nat : /\ a <= x /\ x < a + N => Wire[b + x + 1].k = "name"
                 /\ x = a + N => Wire[b + x + 1].k = "colon"
                 /\ a + N + 1 <= x /\ x < a + N + 1 + V => Wire[b + x + 1].k = "value"
                 /\ x = a + N + 1 + V => Wire[b + x + 1].k = "eol"

LEMMA LineKinds ==
  ASSUME NEW b \in Nat, NEW fs, NEW j, NEW a \in Nat, NEW N \in Nat, NEW V \in Nat,
         LineAt(b, fs, j, a, N, V)
  PROVE  Kinds(b, a, N, V)
<1>. SUFFICES ASSUME NEW x \in Nat
              PROVE  /\ a <= x /\ x < a + N => Wire[b + x + 1].k = "name"
                     /\ x = a + N => Wire[b + x + 1].k = "colon"
                     /\ a + N + 1 <= x /\ x < a + N + 1 + V => Wire[b + x + 1].k = "value"
                     /\ x = a + N + 1 + V => Wire[b + x + 1].k = "eol"
  BY DEF Kinds
<1>1. ASSUME a <= x, x < a + N  PROVE Wire[b + x + 1].k = "name"
  <2>1. PICK y \in 1 .. N : b + a + y = b + x + 1
    <3>1. x - a + 1 \in 1 .. N /\ b + a + (x - a + 1) = b + x + 1  BY <1>1
    <3>. QED  BY <3>1
  <2>2. y \in 1 .. Len(fs[j].name)  BY <2>1 DEF LineAt
  <2>3. Wire[b + a + y].k = "name"  BY <2>2 DEF LineAt, IsAt
  <2>. QED  BY <2>1, <2>3
<1>2. ASSUME a + N + 1 <= x, x < a + N + 1 + V  PROVE Wire[b + x + 1].k = "value"
  <2>1. PICK y \in 1 .. V : b + a + N + 1 + y = b + x + 1
    <3>1. PICK c \in Nat : c = a + N + 1  OBVIOUS
    <3>2. x - c + 1 \in 1 .. V /\ b + c + (x - c + 1) = b + x + 1  BY <1>2, <3>1
    <3>3. b + c = b + a + N + 1  BY <3>1
    <3>. QED  BY <3>2, <3>3
  <2>2. y \in 1 .. Len(fs[j].value)  BY <2>1 DEF LineAt
  <2>3. Wire[b + a + N + 1 + y].k = "value"  BY <2>2 DEF LineAt, IsAt
  <2>. QED  BY <2>1, <2>3
<1>3. /\ x = a + N => b + x + 1 = b + a + N + 1
      /\ x = a + N + 1 + V => b + x + 1 = b + a + N + V + 2
  OBVIOUS
<1>4. Wire[b + a + N + 1].k = "colon" /\ Wire[b + a + N + V + 2].k = "eol"  BY DEF LineAt
<1>. QED  BY <1>1, <1>2, <1>3, <1>4

LEMMA LinesStep ==
  ASSUME Ahead, Parse, ~of_message_complete, NEW b \in Nat, NEW fs \in Seq(Field),
         AreLines(Wire, b, fs), NEW P \in Nat, NEW x \in Nat, x < LineEnd(fs)[Len(fs)],
         pos = b + x, FieldsAt(fs, x, P, fields_, state_field_value_), error = FALSE
  PROVE  Moved(b, fs, P, x) /\ RestKept
<1>0. Kept(P, fields_, fields_)  BY DEF Ahead, Kept
<1>1. ASSUME NEW j \in 0 .. Len(fs), Between(fs, j, x, P, fields_, state_field_value_)
      PROVE  Moved(b, fs, P, x) /\ RestKept
  <2>1. x = LineEnd(fs)[j] /\ state_field_value_ = TRUE /\ Whole(fs, j, P, fields_)
    BY <1>1 DEF Between
  <2>2. j # Len(fs)  BY <2>1
  <2>3. PICK i \in 1 .. Len(fs) : i = j + 1 /\ i - 1 = j
    <3>1. j + 1 \in 1 .. Len(fs) /\ j + 1 - 1 = j  BY <2>2
    <3>. QED  BY <3>1
  <2>4. PICK a \in Nat, N \in Nat, V \in Nat : LineAt(b, fs, i, a, N, V)  BY LinePlaced
  <2>5. a = x /\ N > 0  BY <2>1, <2>3, <2>4 DEF LineAt
  <2>6. a + 0 = x /\ 0 \in Nat /\ 0 < N /\ pos = b + (a + 0)  BY <2>4, <2>5
  <2>7. Wire[pos + 1].k = "name"
    <3>1. Kinds(b, a, N, V)  BY <2>4, LineKinds
    <3>2. a <= x /\ x < a + N  BY <2>4, <2>5
    <3>. QED  BY <3>1, <3>2 DEF Kinds
  <2>8. of_header_field  BY <2>7, Acts
  <2>9. Whole(fs, i - 1, P, fields_)  BY <2>1, <2>3
  <2>10. Moved(b, fs, P, a + 0)  BY <2>1, <2>4, <2>6, <2>8, <2>9, NameStep
  <2>. QED  BY <2>6, <2>8, <2>10, FieldCallbacks
<1>2. ASSUME NEW j \in 1 .. Len(fs), NEW y \in 1 .. Len(fs[j].name),
             InName(fs, j, y, x, P, fields_, state_field_value_)
      PROVE  Moved(b, fs, P, x) /\ RestKept
  <2>1. PICK a \in Nat, N \in Nat, V \in Nat : LineAt(b, fs, j, a, N, V)  BY LinePlaced
  <2>2. a = LineEnd(fs)[j - 1] /\ N = Len(fs[j].name) /\ fs[j].name \in Text  BY <2>1 DEF LineAt
  <2>3. /\ x = a + y /\ state_field_value_ = FALSE
        /\ Partly(fs, j, P, fields_, [name |-> SubSeq(fs[j].name, 1, y), value |-> <<>>])
    BY <1>2, <2>2 DEF InName
  <2>k. Kinds(b, a, N, V)  BY <2>1, LineKinds
  <2>4. y \in Nat /\ y # 0 /\ y <= N /\ pos = b + (a + y)  BY <2>2, <2>3
  <2>5. CASE y < N
    <3>1. Wire[pos + 1].k = "name"
      <4>1. a <= x /\ x < a + N  BY <2>1, <2>3, <2>4, <2>5
      <4>. QED  BY <2>k, <4>1 DEF Kinds
    <3>2. of_header_field  BY <3>1, Acts
    <3>3. Moved(b, fs, P, a + y)  BY <2>1, <2>3, <2>4, <2>5, <3>2, NameStep
    <3>. QED  BY <2>3, <3>2, <3>3, FieldCallbacks
  <2>6. CASE ~(y < N)
    <3>1. y = N  BY <2>1, <2>4, <2>6
    <3>2. Wire[pos + 1].k = "colon"
      <4>1. x = a + N  BY <2>3, <3>1
      <4>. QED  BY <2>k, <4>1 DEF Kinds
    <3>3. skip  BY <3>2, Acts
    <3>4. /\ RestKept /\ pos' = pos + 1 /\ fields_' = fields_ /\ error' = FALSE
          /\ state_field_value_' = FALSE
      BY <2>3, <3>3, FieldCallbacks
    <3>5. SubSeq(fs[j].name, 1, y) = fs[j].name
      BY <2>2, <3>1, PrefixEnds DEF Text
    <3>6. PICK z \in Nat : z = x + 1 /\ z = a + N + 1 /\ pos' = b + z /\ b + z <= got /\ x < z
      <4>1. x + 1 = a + N + 1 /\ pos + 1 = b + (x + 1) /\ x + 1 \in Nat /\ x < x + 1
        BY <2>1, <2>3, <3>1
      <4>2. pos + 1 <= got  BY DEF Ahead
      <4>. QED  BY <3>4, <4>1, <4>2
    <3>7. z <= LineEnd(fs)[Len(fs)]
      <4>1. PICK E \in Nat : E = LineEnd(fs)[Len(fs)] /\ a + N + V + 2 <= E  BY <2>1 DEF LineAt
      <4>. QED  BY <2>1, <3>6, <4>1
    <3>8. AtValue(fs, j, z, P, fields_', state_field_value_')
      <4>1. z = LineEnd(fs)[j - 1] + Len(fs[j].name) + 1  BY <2>2, <3>6
      <4>2. Partly(fs, j, P, fields_, [name |-> fs[j].name, value |-> <<>>])  BY <2>3, <3>5
      <4>. QED  BY <3>4, <4>1, <4>2 DEF AtValue
    <3>9. FieldsAt(fs, z, P, fields_', state_field_value_')  BY <3>8 DEF FieldsAt
    <3>. QED  BY <1>0, <3>4, <3>6, <3>7, <3>9 DEF Moved
  <2>. QED  BY <2>5, <2>6
<1>3. ASSUME NEW j \in 1 .. Len(fs), AtValue(fs, j, x, P, fields_, state_field_value_)
      PROVE  Moved(b, fs, P, x) /\ RestKept
  <2>1. PICK a \in Nat, N \in Nat, V \in Nat : LineAt(b, fs, j, a, N, V)  BY LinePlaced
  <2>2. /\ a = LineEnd(fs)[j - 1] /\ N = Len(fs[j].name) /\ V = Len(fs[j].value)
        /\ LineEnd(fs)[j] = a + N + V + 2 /\ fs[j].value \in Text /\ fs[j] \in Field
    BY <2>1 DEF LineAt
  <2>3. /\ x = a + N + 1 /\ state_field_value_ = FALSE
        /\ Partly(fs, j, P, fields_, [name |-> fs[j].name, value |-> <<>>])
    BY <1>3, <2>2 DEF AtValue
  <2>k. Kinds(b, a, N, V)  BY <2>1, LineKinds
  <2>4. 0 \in Nat /\ x = a + N + 1 + 0 /\ pos = b + (a + N + 1 + 0)  BY <2>1, <2>3
  <2>5. CASE 0 < V
    <3>1. Wire[pos + 1].k = "value"
      <4>1. a + N + 1 <= x /\ x < a + N + 1 + V  BY <2>1, <2>3, <2>4, <2>5
      <4>. QED  BY <2>k, <4>1 DEF Kinds
    <3>2. of_header_value  BY <3>1, Acts
    <3>3. SubSeq(fs[j].value, 1, 0) = <<>>  BY <2>2, PrefixEnds DEF Text
    <3>4. Partly(fs, j, P, fields_, [name |-> fs[j].name, value |-> SubSeq(fs[j].value, 1, 0)])
      BY <2>3, <3>3
    <3>5. Moved(b, fs, P, a + N + 1 + 0)  BY <2>1, <2>4, <2>5, <3>1, <3>2, <3>4, ValueStep
    <3>. QED  BY <2>4, <3>2, <3>5, FieldCallbacks
  <2>6. CASE ~(0 < V)
    <3>1. V = 0  BY <2>1, <2>6
    <3>2. Wire[pos + 1].k = "eol"
      <4>1. x = a + N + 1 + V  BY <2>1, <2>3, <2>4, <3>1
      <4>. QED  BY <2>k, <4>1 DEF Kinds
    <3>3. Wire[pos].k = "colon"
      <4>1. PICK w \in Nat : w = a + N /\ pos = b + w + 1
        <5>1. a + N \in Nat /\ pos = b + (a + N) + 1  BY <2>1, <2>3
        <5>. QED  BY <5>1
      <4>2. Wire[b + w + 1].k = "colon"  BY <2>k, <4>1 DEF Kinds
      <4>. QED  BY <4>1, <4>2
    <3>4. of_header_value  BY <3>2, <3>3, Acts
    <3>5. fields_ \in Seq(Field) /\ j \in Nat \ {0}  BY DEF Ahead
    <3>6. PICK g : g = FieldOf(fs[j].name, <<>>) /\ Partly(fs, j, P, fields_, g)
      BY <2>3 DEF FieldOf
    <3>7. fields_ # <<>> /\ fields_[Len(fields_)] = g  BY <3>5, <3>6, PartlyLast
    <3>8. error' = FALSE /\ state_field_value_' = TRUE /\ pos' = pos + 1
      BY <3>2, <3>4, <3>7 DEF of_header_value, At
    <3>9. fields_' = ValueMore(fields_, Len(fields_), <<>>)
      BY <3>2, <3>4, <3>8 DEF of_header_value, ValueMore
    <3>10. ValueMore(fields_, Len(fields_), <<>>)
             = With(fields_, Len(fields_), FieldOf(fs[j].name, <<>> \o <<>>))
      <4>1. PICK e : e = <<>>  OBVIOUS
      <4>2. fields_[Len(fields_)] = FieldOf(fs[j].name, e)  BY <3>6, <3>7, <4>1
      <4>3. ValueMore(fields_, Len(fields_), e)
              = With(fields_, Len(fields_), FieldOf(fs[j].name, e \o e))
        BY <4>2, ValueReplaced
      <4>. QED  BY <4>1, <4>3
    <3>11. FieldOf(fs[j].name, <<>> \o <<>>) = fs[j]
      <4>1. fs[j].value = <<>>
        <5>1. PICK v \in Seq(Nat) : v = fs[j].value  BY <2>2 DEF Text
        <5>2. Len(v) = 0  BY <2>2, <3>1, <5>1
        <5>. QED  BY <5>1, <5>2
      <4>2. <<>> \o <<>> = <<>>  OBVIOUS
      <4>3. fs[j] = [name |-> fs[j].name, value |-> fs[j].value]  BY <2>2, FieldParts
      <4>. QED  BY <4>1, <4>2, <4>3 DEF FieldOf
    <3>12. fields_' = [fields_ EXCEPT ![Len(fields_)] = fs[j]]  BY <3>9, <3>10, <3>11 DEF With
    <3>13. Partly(fs, j, P, fields_', fs[j]) /\ Kept(P, fields_, fields_')
      BY <2>2, <3>5, <3>6, <3>12, Replaced
    <3>14. Whole(fs, j, P, fields_')  BY <3>5, <3>13, Completed
    <3>15. PICK z \in Nat : z = x + 1 /\ z = LineEnd(fs)[j] /\ pos' = b + z /\ b + z <= got /\ x < z
      <4>1. x + 1 = a + N + V + 2 /\ pos + 1 = b + (x + 1) /\ x + 1 \in Nat /\ x < x + 1
        BY <2>1, <2>3, <3>1
      <4>2. pos + 1 <= got  BY DEF Ahead
      <4>. QED  BY <2>2, <3>8, <4>1, <4>2
    <3>16. z <= LineEnd(fs)[Len(fs)]  BY <2>1, <2>2, <3>15 DEF LineAt
    <3>17. j \in 0 .. Len(fs) /\ Between(fs, j, z, P, fields_', state_field_value_')
      BY <3>8, <3>14, <3>15 DEF Between
    <3>18. FieldsAt(fs, z, P, fields_', state_field_value_')  BY <3>17 DEF FieldsAt
    <3>19. RestKept  BY <3>4, FieldCallbacks
    <3>. QED  BY <3>8, <3>13, <3>15, <3>16, <3>18, <3>19 DEF Moved
  <2>. QED  BY <2>5, <2>6
<1>4. ASSUME NEW j \in 1 .. Len(fs), NEW y \in 1 .. Len(fs[j].value),
             InValue(fs, j, y, x, P, fields_, state_field_value_)
      PROVE  Moved(b, fs, P, x) /\ RestKept
  <2>1. PICK a \in Nat, N \in Nat, V \in Nat : LineAt(b, fs, j, a, N, V)  BY LinePlaced
  <2>2. /\ a = LineEnd(fs)[j - 1] /\ N = Len(fs[j].name) /\ V = Len(fs[j].value)
        /\ LineEnd(fs)[j] = a + N + V + 2 /\ fs[j].value \in Text /\ fs[j] \in Field
    BY <2>1 DEF LineAt
  <2>3. /\ x = a + N + 1 + y /\ state_field_value_ = TRUE
        /\ Partly(fs, j, P, fields_, [name |-> fs[j].name, value |-> SubSeq(fs[j].value, 1, y)])
    BY <1>4, <2>2 DEF InValue
  <2>k. Kinds(b, a, N, V)  BY <2>1, LineKinds
  <2>4. y \in Nat /\ y <= V /\ y > 0 /\ pos = b + (a + N + 1 + y)  BY <2>2, <2>3
  <2>5. CASE y < V
    <3>1. Wire[pos + 1].k = "value"
      <4>1. a + N + 1 <= x /\ x < a + N + 1 + V  BY <2>1, <2>3, <2>4, <2>5
      <4>. QED  BY <2>k, <4>1 DEF Kinds
    <3>2. of_header_value  BY <3>1, Acts
    <3>3. Moved(b, fs, P, a + N + 1 + y)  BY <2>1, <2>3, <2>4, <2>5, <3>1, <3>2, ValueStep
    <3>. QED  BY <2>3, <3>2, <3>3, FieldCallbacks
  <2>6. CASE ~(y < V)
    <3>1. y = V  BY <2>1, <2>4, <2>6
    <3>2. Wire[pos + 1].k = "eol"
      <4>1. x = a + N + 1 + V  BY <2>1, <2>3, <2>4, <3>1
      <4>. QED  BY <2>k, <4>1 DEF Kinds
    <3>3. Wire[pos].k # "colon"
      <4>1. PICK w \in Nat : /\ a + N + 1 <= w /\ w < a + N + 1 + V /\ pos = b + w + 1
        <5>1. /\ x - 1 \in Nat /\ a + N + 1 <= x - 1 /\ x - 1 < a + N + 1 + V
              /\ pos = b + (x - 1) + 1
          BY <2>1, <2>3, <2>4, <3>1
        <5>. QED  BY <5>1
      <4>2. Wire[b + w + 1].k = "value"  BY <2>k, <4>1 DEF Kinds
      <4>3. Wire[pos].k = "value"  BY <4>1, <4>2
      <4>. QED  BY <4>3
    <3>4. skip  BY <3>2, <3>3, Acts
    <3>5. /\ RestKept /\ pos' = pos + 1 /\ fields_' = fields_ /\ error' = FALSE
          /\ state_field_value_' = TRUE
      BY <2>3, <3>4, FieldCallbacks
    <3>6. SubSeq(fs[j].value, 1, y) = fs[j].value  BY <2>2, <3>1, PrefixEnds DEF Text
    <3>7. fs[j] = [name |-> fs[j].name, value |-> fs[j].value]  BY <2>2, FieldParts
    <3>8. Partly(fs, j, P, fields_, fs[j])  BY <2>3, <3>6, <3>7
    <3>9. j \in Nat \ {0}  OBVIOUS
    <3>10. Whole(fs, j, P, fields_')  BY <3>5, <3>8, <3>9, Completed
    <3>11. PICK z \in Nat : z = x + 1 /\ z = LineEnd(fs)[j] /\ pos' = b + z /\ b + z <= got /\ x < z
      <4>1. x + 1 = a + N + V + 2 /\ pos + 1 = b + (x + 1) /\ x + 1 \in Nat /\ x < x + 1
        BY <2>1, <2>3, <3>1
      <4>2. pos + 1 <= got  BY DEF Ahead
      <4>. QED  BY <2>2, <3>5, <4>1, <4>2
    <3>12. z <= LineEnd(fs)[Len(fs)]  BY <2>1, <2>2, <3>11 DEF LineAt
    <3>13. j \in 0 .. Len(fs) /\ Between(fs, j, z, P, fields_', state_field_value_')
      BY <3>5, <3>10, <3>11 DEF Between
    <3>14. FieldsAt(fs, z, P, fields_', state_field_value_')  BY <3>13 DEF FieldsAt
    <3>. QED  BY <1>0, <3>5, <3>11, <3>12, <3>14 DEF Moved
  <2>. QED  BY <2>5, <2>6
<1>. QED  BY <1>1, <1>2, <1>3, <1>4 DEF FieldsAt
-----------------------------------------------------------------------------
(* Where the bytes lie *)

Place == Nat \X (0 .. iobuf_size - 1)
PlaceLess(p, q) == p[1] < q[1] \/ (p[1] = q[1] /\ p[2] < q[2])

\* Later bytes lie at later places, and those that are not parsed yet in one buffer,
\* without a gap.
WhereInv ==
  /\ got \in Nat /\ pos \in Nat /\ pos <= got /\ got <= Len(Wire)
  /\ where \in Seq(Place) /\ Len(where) = got
  /\ \A a, b \in 1 .. got : a < b => PlaceLess(where[a], where[b])
  /\ \A i \in pos + 1 .. got - 1 : where[i + 1] = Behind(where[i], 1)

\* u is s and then t.
Appends(S, s, t, u) ==
  /\ u \in Seq(S) /\ Len(u) = Len(s) + Len(t)
  /\ \A i \in 1 .. Len(s) : u[i] = s[i]
  /\ \A i \in 1 .. Len(t) : u[Len(s) + i] = t[i]

LEMMA ConcatAppends ==
  ASSUME NEW S, NEW s \in Seq(S), NEW t \in Seq(S), NEW u, u = s \o t
  PROVE  Appends(S, s, t, u)
BY Concat DEF Appends

LEMMA NextPlaceFacts ==
  ASSUME WhereInv
  PROVE  /\ NextPlace \in Place
         /\ \A a \in 1 .. got : PlaceLess(where[a], NextPlace)
<1>0. iobuf_size \in Nat \ {0}  BY BufferAssumption
<1>1. CASE where = <<>>
  <2>1. NextPlace = <<1, 0>> /\ got = 0  BY <1>1 DEF NextPlace, WhereInv
  <2>2. <<1, 0>> \in Place  BY <1>0 DEF Place
  <2>. QED  BY <2>1, <2>2
<1>2. CASE where # <<>>
  <2>1. PICK g \in Nat : g = got /\ Len(where) = g /\ g # 0 /\ g \in 1 .. g
    BY <1>2 DEF WhereInv
  <2>2. where[g] \in Place  BY <2>1 DEF WhereInv
  <2>3. PICK c \in Nat, d \in 0 .. iobuf_size - 1 : where[g] = <<c, d>>  BY <2>2 DEF Place
  <2>4. \/ NextPlace = <<c + 1, 0>>
        \/ d + 1 # iobuf_size /\ NextPlace = <<c, d + 1>>
    BY <1>2, <2>1, <2>3 DEF NextPlace, Behind
  <2>5. PICK e \in Nat, f \in 0 .. iobuf_size - 1 :
          NextPlace = <<e, f>> /\ (c < e \/ (c = e /\ d < f))
    <3>1. CASE NextPlace = <<c + 1, 0>>
      <4>1. c + 1 \in Nat /\ 0 \in 0 .. iobuf_size - 1 /\ c < c + 1  BY <1>0, <2>3
      <4>. QED  BY <3>1, <4>1
    <3>2. CASE d + 1 # iobuf_size /\ NextPlace = <<c, d + 1>>
      <4>1. d + 1 \in 0 .. iobuf_size - 1 /\ d < d + 1  BY <1>0, <2>3, <3>2
      <4>. QED  BY <2>3, <3>2, <4>1
    <3>. QED  BY <2>4, <3>1, <3>2
  <2>6. NextPlace \in Place  BY <2>5 DEF Place
  <2>7. ASSUME NEW a \in 1 .. got  PROVE PlaceLess(where[a], NextPlace)
    <3>1. PICK u \in Nat, v \in 0 .. iobuf_size - 1 : where[a] = <<u, v>>
      <4>1. where[a] \in Place  BY <2>1 DEF WhereInv
      <4>. QED  BY <4>1 DEF Place
    <3>2. u < c \/ (u = c /\ v <= d)
      <4>1. CASE a = g  BY <2>3, <3>1, <4>1
      <4>2. CASE a # g
        <5>1. a < g /\ g \in 1 .. got  BY <2>1, <4>2
        <5>2. PlaceLess(where[a], where[g])  BY <5>1 DEF WhereInv
        <5>. QED  BY <2>3, <3>1, <5>2 DEF PlaceLess
      <4>. QED  BY <4>1, <4>2
    <3>3. u < e \/ (u = e /\ v < f)  BY <1>0, <2>3, <2>5, <3>1, <3>2
    <3>. QED  BY <2>5, <3>1, <3>3 DEF PlaceLess
  <2>. QED  BY <2>6, <2>7
<1>. QED  BY <1>1, <1>2

LEMMA ReadWhere ==
  ASSUME WhereInv, NEW n \in 1 .. iobuf_size, read_some(n)
  PROVE  WhereInv'
<1>0. iobuf_size \in Nat \ {0}  BY BufferAssumption
<1>1. PICK g \in Nat : g = got /\ pos = g /\ Len(where) = g  BY DEF WhereInv, read_some, Reading
<1>2. PICK c \in Nat, d \in 0 .. iobuf_size - 1 : NextPlace = <<c, d>>
  BY NextPlaceFacts DEF Place
<1>3. n \in Nat /\ n <= iobuf_size - d /\ got' = g + n /\ pos' = g /\ g + n <= Len(Wire)
  BY <1>0, <1>1, <1>2 DEF read_some
<1>4. PICK new : new = [i \in 1 .. n |-> <<c, d + (i - 1)>>]  OBVIOUS
<1>5. where' = where \o new
  <2>1. \A i \in 1 .. n : Behind(NextPlace, i - 1) = <<c, d + (i - 1)>>  BY <1>2 DEF Behind
  <2>2. [i \in 1 .. n |-> Behind(NextPlace, i - 1)] = new  BY <1>4, <2>1
  <2>. QED  BY <2>2 DEF read_some
<1>6. new \in Seq(Place) /\ Len(new) = n
  <2>1. \A i \in 1 .. n : d + (i - 1) \in 0 .. iobuf_size - 1  BY <1>0, <1>2, <1>3
  <2>2. new \in [1 .. n -> Place]  BY <1>2, <1>4, <2>1 DEF Place
  <2>. QED  BY <1>3, <2>2, Tabulated
<1>7. /\ where' \in Seq(Place) /\ Len(where') = g + n
      /\ \A i \in 1 .. g : where'[i] = where[i]
      /\ \A i \in 1 .. n : where'[g + i] = <<c, d + (i - 1)>>
  <2>0. where \in Seq(Place)  BY DEF WhereInv
  <2>1. Appends(Place, where, new, where')  BY <1>5, <1>6, <2>0, ConcatAppends
  <2>2. /\ where' \in Seq(Place) /\ Len(where') = g + n
        /\ \A i \in 1 .. g : where'[i] = where[i]
        /\ \A i \in 1 .. n : where'[g + i] = new[i]
    BY <1>1, <1>6, <2>1 DEF Appends
  <2>. QED  BY <1>4, <2>2
<1>8. ASSUME NEW a \in 1 .. g + n, NEW b \in 1 .. g + n, a < b
      PROVE  PlaceLess(where'[a], where'[b])
  <2>1. CASE b <= g
    <3>1. a \in 1 .. g /\ b \in 1 .. g  BY <1>8, <2>1
    <3>2. PlaceLess(where[a], where[b])  BY <1>1, <1>8, <3>1 DEF WhereInv
    <3>. QED  BY <1>7, <3>1, <3>2
  <2>2. CASE ~(b <= g)
    <3>1. PICK j \in 1 .. n : b = g + j
      <4>1. b - g \in 1 .. n /\ b = g + (b - g)  BY <1>3, <2>2
      <4>. QED  BY <4>1
    <3>2. where'[b] = <<c, d + (j - 1)>>  BY <1>7, <3>1
    <3>3. CASE a <= g
      <4>1. a \in 1 .. g /\ where'[a] = where[a]  BY <1>7, <3>3
      <4>2. PICK u \in Nat, v \in 0 .. iobuf_size - 1 : where[a] = <<u, v>>
        <5>1. where[a] \in Place  BY <1>1, <4>1 DEF WhereInv
        <5>. QED  BY <5>1 DEF Place
      <4>3. u < c \/ (u = c /\ v < d)
        <5>1. PlaceLess(where[a], NextPlace)  BY <1>1, <4>1, NextPlaceFacts
        <5>. QED  BY <1>2, <4>2, <5>1 DEF PlaceLess
      <4>4. u < c \/ (u = c /\ v < d + (j - 1))  BY <1>0, <1>2, <3>1, <4>2, <4>3
      <4>. QED  BY <3>2, <4>1, <4>2, <4>4 DEF PlaceLess
    <3>4. CASE ~(a <= g)
      <4>1. PICK i \in 1 .. n : a = g + i
        <5>1. a - g \in 1 .. n /\ a = g + (a - g)  BY <1>3, <3>4
        <5>. QED  BY <5>1
      <4>2. where'[a] = <<c, d + (i - 1)>>  BY <1>7, <4>1
      <4>3. d + (i - 1) < d + (j - 1)  BY <1>8, <1>2, <3>1, <4>1
      <4>. QED  BY <3>2, <4>2, <4>3 DEF PlaceLess
    <3>. QED  BY <3>3, <3>4
  <2>. QED  BY <2>1, <2>2
<1>9. ASSUME NEW i \in g + 1 .. g + n - 1  PROVE where'[i + 1] = Behind(where'[i], 1)
  <2>1. PICK j \in 1 .. n : i = g + j /\ j + 1 \in 1 .. n /\ i + 1 = g + (j + 1)
    <3>1. /\ i - g \in 1 .. n /\ i = g + (i - g) /\ i - g + 1 \in 1 .. n
          /\ i + 1 = g + (i - g + 1)
      BY <1>3
    <3>. QED  BY <3>1
  <2>2. where'[i] = <<c, d + (j - 1)>> /\ where'[i + 1] = <<c, d + (j + 1 - 1)>>
    <3>1. PICK k \in 1 .. n : k = j + 1 /\ i + 1 = g + k  BY <2>1
    <3>2. where'[g + k] = <<c, d + (k - 1)>>  BY <1>7, <3>1
    <3>3. where'[g + j] = <<c, d + (j - 1)>>  BY <1>7, <2>1
    <3>. QED  BY <2>1, <3>1, <3>2, <3>3
  <2>3. d + (j + 1 - 1) = d + (j - 1) + 1  BY <1>2
  <2>. QED  BY <2>2, <2>3 DEF Behind
<1>10. g + n \in Nat /\ g <= g + n  BY <1>3
<1>. QED  BY <1>3, <1>7, <1>8, <1>9, <1>10 DEF WhereInv

LEMMA ParseWhere ==
  ASSUME WhereInv, got' = got, where' = where, pos' \in Nat, pos <= pos', pos' <= got
  PROVE  WhereInv'
<1>0. \A p, q, g \in Nat : p <= q => \A i \in q + 1 .. g - 1 : i \in p + 1 .. g - 1  OBVIOUS
<1>2. \A i \in pos' + 1 .. got - 1 : i \in pos + 1 .. got - 1
  <2>1. PICK p \in Nat, q \in Nat, g \in Nat : p = pos /\ q = pos' /\ g = got /\ p <= q
    BY DEF WhereInv
  <2>2. \A i \in q + 1 .. g - 1 : i \in p + 1 .. g - 1  BY <1>0, <2>1
  <2>. QED  BY <2>1, <2>2
<1>. QED  BY <1>2 DEF WhereInv

\* The place of each byte that is not parsed yet.
LEMMA Unparsed ==
  ASSUME WhereInv, NEW r \in Nat, r > 0, pos + r <= got
  PROVE  \A i \in 1 .. r : where[pos + i] = Behind(where[pos + 1], i - 1)
<1>1. PICK p \in Nat : p = pos /\ p + r <= got /\ got \in Nat  BY DEF WhereInv
<1>2. PICK c \in Nat, d \in Nat : where[p + 1] = <<c, d>>
  <2>1. p + 1 \in 1 .. got  BY <1>1
  <2>2. where[p + 1] \in Place  BY <1>1, <2>1 DEF WhereInv
  <2>3. PICK c \in Nat, d \in 0 .. iobuf_size - 1 : where[p + 1] = <<c, d>>  BY <2>2 DEF Place
  <2>4. d \in Nat  BY <2>3, BufferAssumption
  <2>. QED  BY <2>3, <2>4
<1>. DEFINE G == {i \in Nat : i < r => where[p + 1 + i] = <<c, d + i>>}
<1>3. 0 \in G
  <2>1. p + 1 + 0 = p + 1 /\ d + 0 = d  BY <1>1, <1>2
  <2>. QED  BY <1>2, <2>1
<1>4. ASSUME NEW i \in 0 .. r - 1 - 1, i \in G  PROVE i + 1 \in G
  <2>1. where[p + 1 + i] = <<c, d + i>>  BY <1>4
  <2>2. PICK q \in p + 1 .. got - 1 : q = p + 1 + i /\ q + 1 = p + 1 + (i + 1)
    <3>1. p + 1 + i \in p + 1 .. got - 1 /\ p + 1 + i + 1 = p + 1 + (i + 1)  BY <1>1
    <3>. QED  BY <3>1
  <2>3. where[q + 1] = Behind(where[q], 1)  BY <1>1 DEF WhereInv
  <2>4. where[q + 1] = <<c, d + i + 1>>  BY <2>1, <2>2, <2>3 DEF Behind
  <2>5. d + i + 1 = d + (i + 1)  BY <1>2
  <2>6. where[p + 1 + (i + 1)] = <<c, d + (i + 1)>>  BY <2>2, <2>4, <2>5
  <2>. QED  BY <2>6
<1>5. \A i \in 0 .. r - 1 : i \in G
  <2>1. G \in SUBSET Nat /\ r - 1 \in Nat  OBVIOUS
  <2>. HIDE DEF G
  <2>. QED  BY <1>3, <1>4, <2>1, Steps
<1>6. ASSUME NEW i \in 1 .. r  PROVE where[pos + i] = Behind(where[pos + 1], i - 1)
  <2>1. i - 1 \in 0 .. r - 1 /\ i - 1 < r /\ p + 1 + (i - 1) = p + i  BY <1>1
  <2>2. where[p + 1 + (i - 1)] = <<c, d + (i - 1)>>  BY <1>5, <2>1
  <2>. QED  BY <1>1, <1>2, <2>1, <2>2 DEF Behind
<1>. QED  BY <1>6
-----------------------------------------------------------------------------
(* The slices of the body *)

Slice == [at : Nat \X Nat, len : Nat]

\* The byte x of the stream lies at a place.
Lies(wh, place, x) == \E q \in 1 .. Len(wh) : wh[q] = place /\ Wire[q].x = x

\* The slices bf hold the first n bytes of the body, slice s those behind off[s - 1].
Held(wh, bf, body, n, off) ==
  /\ off \in [0 .. Len(bf) -> Nat] /\ off[0] = 0 /\ off[Len(bf)] = n
  /\ \A s \in 1 .. Len(bf) :
       /\ off[s] = off[s - 1] + bf[s].len
       /\ \A i \in 1 .. bf[s].len : Lies(wh, Behind(bf[s].at, i - 1), body[off[s - 1] + i])

HeldBy(wh, bf, body, n) == bf \in Seq(Slice) /\ \E off : Held(wh, bf, body, n, off)

LEMMA HeldFirst ==
  ASSUME NEW wh, NEW body
  PROVE  HeldBy(wh, <<>>, body, 0)
<1>1. PICK off : off = [i \in 0 .. 0 |-> 0]  OBVIOUS
<1>2. off \in [0 .. 0 -> Nat] /\ off[0] = 0 /\ Len(<<>>) = 0 /\ 1 .. 0 = {}  BY <1>1
<1>3. Held(wh, <<>>, body, 0, off)  BY <1>2 DEF Held
<1>4. <<>> \in Seq(Slice)  OBVIOUS
<1>. QED  BY <1>3, <1>4 DEF HeldBy

\* Places are not moved.
LEMMA HeldLonger ==
  ASSUME NEW wh, NEW new, NEW bf, NEW body, NEW n, HeldBy(wh, bf, body, n),
         Len(wh) \in Nat, Len(new) \in Nat, Len(wh) <= Len(new),
         \A q \in 1 .. Len(wh) : new[q] = wh[q]
  PROVE  HeldBy(new, bf, body, n)
<1>1. \A q \in 1 .. Len(wh) : q \in 1 .. Len(new)  OBVIOUS
<1>2. \A place, x : Lies(wh, place, x) => Lies(new, place, x)  BY <1>1 DEF Lies
<1>3. PICK off : Held(wh, bf, body, n, off)  BY DEF HeldBy
<1>4. Held(new, bf, body, n, off)  BY <1>2, <1>3 DEF Held
<1>. QED  BY <1>4 DEF HeldBy

\* The r bytes behind the first n of the body begin at a place and lie together.
Part(wh, place, body, n, r) == \A i \in 1 .. r : Lies(wh, Behind(place, i - 1), body[n + i])

LEMMA HeldApart ==
  ASSUME NEW wh, NEW bf, NEW body, NEW n \in Nat, HeldBy(wh, bf, body, n), NEW r \in Nat,
         NEW place \in Nat \X Nat, Part(wh, place, body, n, r),
         NEW new, new = Append(bf, [at |-> place, len |-> r])
  PROVE  HeldBy(wh, new, body, n + r)
<1>1. bf \in Seq(Slice)  BY DEF HeldBy
<1>2. PICK off : Held(wh, bf, body, n, off)  BY DEF HeldBy
<1>3. PICK K \in Nat : K = Len(bf)  BY <1>1
<1>4. PICK sl \in Slice : sl = [at |-> place, len |-> r]  BY DEF Slice
<1>5. sl.at = place /\ sl.len = r  BY <1>4
<1>6. /\ new \in Seq(Slice) /\ Len(new) = K + 1 /\ new[K + 1] = sl
      /\ \A s \in 1 .. K : new[s] = bf[s]
  <2>1. /\ new \in Seq(Slice) /\ Len(new) = Len(bf) + 1 /\ new[Len(bf) + 1] = sl
        /\ \A s \in 1 .. Len(bf) : new[s] = bf[s]
    BY <1>1, <1>4, OneAppended
  <2>. QED  BY <1>3, <2>1
<1>7. PICK o : o = [s \in 0 .. K + 1 |-> IF s = K + 1 THEN n + r ELSE off[s]]  OBVIOUS
<1>8. /\ off \in [0 .. K -> Nat] /\ off[0] = 0 /\ off[K] = n  BY <1>2, <1>3 DEF Held
<1>9. /\ o \in [0 .. K + 1 -> Nat] /\ o[0] = 0 /\ o[K + 1] = n + r
      /\ \A s \in 0 .. K : o[s] = off[s]
  BY <1>3, <1>7, <1>8
<1>10. ASSUME NEW s \in 1 .. K + 1
       PROVE  /\ o[s] = o[s - 1] + new[s].len
              /\ \A i \in 1 .. new[s].len : Lies(wh, Behind(new[s].at, i - 1), body[o[s - 1] + i])
  <2>1. CASE s = K + 1
    <3>1. s - 1 = K /\ K \in 0 .. K  BY <1>3, <2>1
    <3>2. o[s - 1] = n /\ new[s] = sl /\ o[s] = n + r  BY <1>6, <1>8, <1>9, <2>1, <3>1
    <3>. QED  BY <1>5, <3>2 DEF Part
  <2>2. CASE s # K + 1
    <3>1. s \in 1 .. K /\ s \in 0 .. K /\ s - 1 \in 0 .. K  BY <1>3, <2>2
    <3>2. o[s] = off[s] /\ o[s - 1] = off[s - 1] /\ new[s] = bf[s]  BY <1>6, <1>9, <3>1
    <3>3. /\ off[s] = off[s - 1] + bf[s].len
          /\ \A i \in 1 .. bf[s].len : Lies(wh, Behind(bf[s].at, i - 1), body[off[s - 1] + i])
      BY <1>2, <1>3, <3>1 DEF Held
    <3>. QED  BY <3>2, <3>3
  <2>. QED  BY <2>1, <2>2
<1>11. Held(wh, new, body, n + r, o)  BY <1>6, <1>9, <1>10 DEF Held
<1>. QED  BY <1>6, <1>11 DEF HeldBy

LEMMA HeldTogether ==
  ASSUME NEW wh, NEW bf, bf # <<>>, NEW body, NEW n \in Nat, HeldBy(wh, bf, body, n), NEW r \in Nat,
         NEW place, place = Behind(bf[Len(bf)].at, bf[Len(bf)].len), Part(wh, place, body, n, r),
         NEW new, new = [bf EXCEPT ![Len(bf)].len = @ + r]
  PROVE  HeldBy(wh, new, body, n + r)
<1>1. bf \in Seq(Slice)  BY DEF HeldBy
<1>2. PICK off : Held(wh, bf, body, n, off)  BY DEF HeldBy
<1>3. PICK K \in Nat : K = Len(bf) /\ K # 0 /\ K \in 1 .. K  BY <1>1
<1>4. PICK last \in Slice : last = bf[K]  BY <1>1, <1>3
<1>5. PICK c \in Nat, d \in Nat, l \in Nat :
        last.at = <<c, d>> /\ last.len = l /\ last = [at |-> <<c, d>>, len |-> l]
  <2>1. /\ last.at \in Nat \X Nat /\ last.len \in Nat
        /\ last = [at |-> last.at, len |-> last.len]
    BY <1>4 DEF Slice
  <2>2. PICK c \in Nat, d \in Nat : last.at = <<c, d>>  BY <2>1
  <2>. QED  BY <2>1, <2>2
<1>n. c \in Nat /\ d \in Nat /\ l \in Nat  BY <1>5
<1>6. PICK sl \in Slice : sl = [at |-> <<c, d>>, len |-> l + r] /\ sl.at = <<c, d>> /\ sl.len = l + r
  <2>1. <<c, d>> \in Nat \X Nat /\ l + r \in Nat  BY <1>n
  <2>2. PICK sl : sl = [at |-> <<c, d>>, len |-> l + r]  OBVIOUS
  <2>3. sl.at = <<c, d>> /\ sl.len = l + r  BY <2>2
  <2>4. sl \in Slice  BY <2>1, <2>2 DEF Slice
  <2>. QED  BY <2>2, <2>3, <2>4
<1>7. new = [bf EXCEPT ![K] = sl]
  <2>1. new = [bf EXCEPT ![K] = [bf[K] EXCEPT !.len = l + r]]  BY <1>3, <1>4, <1>5
  <2>2. [bf[K] EXCEPT !.len = l + r] = sl  BY <1>4, <1>5, <1>6
  <2>. QED  BY <2>1, <2>2
<1>8. /\ new \in Seq(Slice) /\ Len(new) = K /\ new[K] = sl
      /\ \A s \in 1 .. K : s # K => new[s] = bf[s]
  <2>1. K \in 1 .. Len(bf)  BY <1>3
  <2>2. /\ new \in Seq(Slice) /\ Len(new) = Len(bf) /\ new[K] = sl
        /\ \A s \in 1 .. Len(bf) : s # K => new[s] = bf[s]
    <3>1. sl \in Slice  BY <1>6
    <3>. QED  BY <1>1, <1>7, <2>1, <3>1, OneReplaced
  <2>. QED  BY <1>3, <2>2
<1>9. PICK o : o = [s \in 0 .. K |-> IF s = K THEN n + r ELSE off[s]]  OBVIOUS
<1>10. /\ off \in [0 .. K -> Nat] /\ off[0] = 0 /\ off[K] = n  BY <1>2, <1>3 DEF Held
<1>11. /\ o \in [0 .. K -> Nat] /\ o[0] = 0 /\ o[K] = n + r
       /\ \A s \in 0 .. K - 1 : o[s] = off[s]
  BY <1>3, <1>9, <1>10
<1>12. PICK a \in Nat : a = off[K - 1] /\ n = a + l
  <2>1. K - 1 \in 0 .. K  BY <1>3
  <2>2. off[K] = off[K - 1] + bf[K].len  BY <1>2, <1>3 DEF Held
  <2>. QED  BY <1>4, <1>5, <1>10, <2>1, <2>2
<1>13. ASSUME NEW s \in 1 .. K
       PROVE  /\ o[s] = o[s - 1] + new[s].len
              /\ \A i \in 1 .. new[s].len : Lies(wh, Behind(new[s].at, i - 1), body[o[s - 1] + i])
  <2>1. CASE s = K
    <3>1. s - 1 = K - 1 /\ K - 1 \in 0 .. K - 1  BY <1>3, <2>1
    <3>2. o[s - 1] = a /\ new[s] = sl /\ o[s] = n + r  BY <1>8, <1>11, <1>12, <2>1, <3>1
    <3>3. n + r = a + (l + r)  BY <1>5, <1>12
    <3>4. ASSUME NEW i \in 1 .. l + r  PROVE Lies(wh, Behind(<<c, d>>, i - 1), body[a + i])
      <4>1. CASE i <= l
        <5>1. i \in 1 .. bf[K].len  BY <1>4, <1>5, <4>1
        <5>2. Lies(wh, Behind(bf[K].at, i - 1), body[off[K - 1] + i])
          BY <1>2, <1>3, <5>1 DEF Held
        <5>. QED  BY <1>4, <1>5, <1>12, <5>2
      <4>2. CASE ~(i <= l)
        <5>1. PICK k \in 1 .. r : i = l + k
          <6>1. i - l \in 1 .. r /\ i = l + (i - l)  BY <1>5, <4>2
          <6>. QED  BY <6>1
        <5>2. Lies(wh, Behind(place, k - 1), body[n + k])  BY <5>1 DEF Part
        <5>3. n + k = a + i /\ d + l + (k - 1) = d + (i - 1)
          <6>1. k \in Int /\ i = l + k /\ n = a + l /\ a \in Nat  BY <1>12, <5>1
          <6>. QED  BY <1>n, <6>1
        <5>4. place = <<c, d + l>>  BY <1>3, <1>4, <1>5 DEF Behind
        <5>5. Behind(place, k - 1) = <<c, d + (i - 1)>>
          <6>1. place[1] = c /\ place[2] = d + l  BY <5>4
          <6>. QED  BY <5>3, <6>1 DEF Behind
        <5>6. Behind(<<c, d>>, i - 1) = <<c, d + (i - 1)>>  BY DEF Behind
        <5>. QED  BY <5>2, <5>3, <5>5, <5>6
      <4>. QED  BY <4>1, <4>2
    <3>. QED  BY <1>6, <3>2, <3>3, <3>4
  <2>2. CASE s # K
    <3>1. s \in 0 .. K - 1 /\ s - 1 \in 0 .. K - 1  BY <1>3, <2>2
    <3>2. o[s] = off[s] /\ o[s - 1] = off[s - 1] /\ new[s] = bf[s]  BY <1>8, <1>11, <2>2, <3>1
    <3>3. /\ off[s] = off[s - 1] + bf[s].len
          /\ \A i \in 1 .. bf[s].len : Lies(wh, Behind(bf[s].at, i - 1), body[off[s - 1] + i])
      BY <1>2, <1>3 DEF Held
    <3>. QED  BY <3>2, <3>3
  <2>. QED  BY <2>1, <2>2
<1>14. Held(wh, new, body, n + r, o)  BY <1>8, <1>11, <1>13 DEF Held
<1>. QED  BY <1>8, <1>14 DEF HeldBy

LEMMA BodyStep ==
  ASSUME WhereInv, of_body, NEW body, NEW n \in Nat, HeldBy(where, bodybf_, body, n), bodysz_ = n,
         NEW r \in Nat, r > 0, pos + r <= got, Len(Run) = r,
         \A i \in 1 .. r : Wire[pos + i].x = body[n + i]
  PROVE  HeldBy(where, bodybf_', body, n + r) /\ bodysz_' = n + r
<1>1. PICK p \in Nat : p = pos /\ p + r <= got /\ got \in Nat /\ Len(where) = got  BY DEF WhereInv
<1>2. PICK place \in Nat \X Nat : place = where[p + 1]
  <2>1. p + 1 \in 1 .. Len(where)  BY <1>1
  <2>2. where[p + 1] \in Place  BY <2>1 DEF WhereInv
  <2>. QED  BY <2>2, BufferAssumption DEF Place
<1>3. Part(where, place, body, n, r)
  <2>1. ASSUME NEW i \in 1 .. r  PROVE Lies(where, Behind(place, i - 1), body[n + i])
    <3>1. p + i \in 1 .. Len(where)  BY <1>1
    <3>2. where[p + i] = Behind(place, i - 1)  BY <1>1, <1>2, Unparsed
    <3>3. Wire[p + i].x = body[n + i]  BY <1>1
    <3>. QED  BY <3>1, <3>2, <3>3 DEF Lies
  <2>. QED  BY <2>1 DEF Part
<1>4. bodysz_' = n + r  BY DEF of_body
<1>5. \/ /\ bodybf_ # <<>> /\ place = Behind(bodybf_[Len(bodybf_)].at, bodybf_[Len(bodybf_)].len)
         /\ bodybf_' = [bodybf_ EXCEPT ![Len(bodybf_)].len = @ + r]
      \/ bodybf_' = Append(bodybf_, [at |-> place, len |-> r])
  BY <1>1, <1>2 DEF of_body
<1>6. HeldBy(where, bodybf_', body, n + r)
  BY <1>2, <1>3, <1>5, HeldTogether, HeldApart
<1>. QED  BY <1>4, <1>6

\* No two bytes lie at one place.
LEMMA MemoryIs ==
  ASSUME WhereInv, NEW place, NEW x, Lies(where, place, x)
  PROVE  Memory(place) = x
<1>1. PICK q \in 1 .. Len(where) : where[q] = place /\ Wire[q].x = x  BY DEF Lies
<1>2. PICK g \in Nat : g = got /\ Len(where) = g /\ DOMAIN where = 1 .. g  BY DEF WhereInv
<1>. DEFINE at == {i \in DOMAIN where : where[i] = place}
<1>3. ASSUME NEW i \in at  PROVE i = q
  <2>1. i \in 1 .. g /\ where[i] = place /\ q \in 1 .. g  BY <1>1, <1>2
  <2>2. PICK c \in Nat, d \in 0 .. iobuf_size - 1 : place = <<c, d>>
    <3>1. where[q] \in Place  BY <1>1, <1>2 DEF WhereInv
    <3>. QED  BY <1>1, <3>1 DEF Place
  <2>3. ~PlaceLess(place, place)  BY <2>2, BufferAssumption DEF PlaceLess
  <2>4. ~(i < q) /\ ~(q < i)
    <3>1. \A a, b \in 1 .. g : a < b => PlaceLess(where[a], where[b])  BY <1>2 DEF WhereInv
    <3>. QED  BY <1>1, <2>1, <2>3, <3>1
  <2>. QED  BY <1>2, <2>1, <2>4
<1>4. q \in at  BY <1>1, <1>2
<1>5. at = {q}  BY <1>3, <1>4
<1>6. Memory(place) = Wire[q].x
  <2>1. (CHOOSE i \in at : TRUE) = q  BY <1>5
  <2>. QED  BY <1>5, <2>1 DEF Memory
<1>. QED  BY <1>1, <1>6

LEMMA BodyInMemory ==
  ASSUME WhereInv, NEW bf, NEW body \in Text, HeldBy(where, bf, body, Len(body))
  PROVE  FlattenSeq([s \in DOMAIN bf |-> InMemory(bf[s])]) = body
<1>1. bf \in Seq(Slice)  BY DEF HeldBy
<1>2. PICK off : Held(where, bf, body, Len(body), off)  BY DEF HeldBy
<1>3. PICK K \in Nat : K = Len(bf) /\ DOMAIN bf = 1 .. K /\ \A s \in 1 .. K : bf[s] \in Slice
  BY <1>1
<1>4. PICK n \in Nat : n = Len(body) /\ body \in Seq(Nat)  BY DEF Text
<1>5. PICK len : len = [s \in 1 .. K |-> bf[s].len]  OBVIOUS
<1>6. len \in [1 .. K -> Nat] /\ \A s \in 1 .. K : bf[s].len = len[s]
  <2>1. \A s \in 1 .. K : bf[s].len \in Nat  BY <1>3 DEF Slice
  <2>. QED  BY <1>5, <2>1
<1>7. /\ off \in [0 .. K -> Nat] /\ off[0] = 0 /\ off[K] = n
      /\ \A s \in 1 .. K : off[s] = off[s - 1] + len[s]
      /\ \A s \in 1 .. K : \A i \in 1 .. len[s] :
           Lies(where, Behind(bf[s].at, i - 1), body[off[s - 1] + i])
  BY <1>2, <1>3, <1>4, <1>6 DEF Held
<1>8. PICK ss : ss = [s \in 1 .. K |-> InMemory(bf[s])]  OBVIOUS
<1>9. ASSUME NEW s \in 1 .. K
      PROVE  /\ ss[s] \in Seq(Nat) /\ Len(ss[s]) = len[s]
             /\ \A i \in 1 .. len[s] : body[off[s - 1] + i] = ss[s][i]
  <2>1. PICK l \in Nat : l = len[s]  BY <1>6
  <2>2. PICK a \in Nat : a = off[s - 1] /\ a + l <= n
    <3>1. s - 1 \in 0 .. K /\ s \in 0 .. K /\ K \in 0 .. K /\ s <= K  BY <1>3
    <3>2. off[s - 1] \in Nat /\ off[s] = off[s - 1] + l /\ off[s] \in Nat  BY <1>7, <2>1, <3>1
    <3>3. off[s] <= off[K]
      <4>1. \A z \in 1 .. K : off[z - 1] <= off[z]
        <5>1. ASSUME NEW z \in 1 .. K  PROVE off[z - 1] <= off[z]
          <6>1. z - 1 \in 0 .. K  BY <1>3
          <6>2. off[z - 1] \in Nat /\ len[z] \in Nat /\ off[z] = off[z - 1] + len[z]
            BY <1>6, <1>7, <6>1
          <6>. QED  BY <6>2
        <5>. QED  BY <5>1
      <4>. QED  BY <1>3, <1>7, <3>1, <4>1, OffsetsGrow
    <3>. QED  BY <1>7, <3>2, <3>3
  <2>3. PICK t : t = [i \in 1 .. l |-> Memory(Behind(bf[s].at, i - 1))]  OBVIOUS
  <2>4. ss[s] = t  BY <1>6, <1>8, <2>1, <2>3 DEF InMemory
  <2>5. ASSUME NEW i \in 1 .. l  PROVE t[i] = body[a + i] /\ body[a + i] \in Nat
    <3>1. Lies(where, Behind(bf[s].at, i - 1), body[a + i])  BY <1>7, <2>1, <2>2
    <3>2. Memory(Behind(bf[s].at, i - 1)) = body[a + i]  BY <3>1, MemoryIs
    <3>3. a \in Nat /\ l \in Nat /\ n \in Nat /\ a + l <= n /\ i \in 1 .. l
      BY <1>4, <2>1, <2>2
    <3>4. \A x, y, z, k \in Nat : x + y <= z /\ k \in 1 .. y => x + k \in 1 .. z  OBVIOUS
    <3>5. a + i \in 1 .. n  BY <3>3, <3>4
    <3>. QED  BY <1>4, <2>3, <3>2, <3>5
  <2>6. t \in [1 .. l -> Nat]  BY <2>3, <2>5
  <2>7. t \in Seq(Nat) /\ Len(t) = l  BY <2>1, <2>6, Tabulated
  <2>. QED  BY <2>1, <2>2, <2>4, <2>5, <2>7
<1>10. ss \in Seq(Seq(Nat)) /\ Len(ss) = K
  <2>1. ss \in [1 .. K -> Seq(Nat)]  BY <1>8, <1>9
  <2>. QED  BY <1>3, <2>1, Tabulated
<1>11. Joined(ss, K, off, body)
  BY <1>4, <1>7, <1>9 DEF Joined
<1>12. PICK fl : fl = FlattenSeq(ss)  OBVIOUS
<1>13. fl \in Seq(Nat) /\ \E o : Joined(ss, K, o, fl)  BY <1>10, <1>12, FlattenJoins
<1>14. PICK o : Joined(ss, K, o, fl)  BY <1>13
<1>15. \A i \in 1 .. K : Len(ss[i]) \in Nat  BY <1>6, <1>9
<1>16. fl = body  BY <1>3, <1>4, <1>11, <1>13, <1>14, <1>15, JoinedOnce
<1>. QED  BY <1>3, <1>8, <1>12, <1>16
-----------------------------------------------------------------------------
(* What the parser has made of a request *)

\* Request t lies behind place b, its body behind place e.
LaidOut(t, b, e, U, E, B, T) ==
  /\ b = MsgEnd[t - 1] /\ e = HeadEnd(t) /\ e = b + U + E + 2
  /\ U = Len(Stream[t].url) /\ U > 0
  /\ E = LineEnd(Stream[t].fields)[Len(Stream[t].fields)]
  /\ B = Len(Stream[t].body)
  /\ T = LineEnd(Stream[t].trailers)[Len(Stream[t].trailers)]
  /\ MsgEnd[t] = IF Stream[t].chunked THEN e + 2 * B + 2 + T ELSE e + B
  /\ IsAt(Wire, b, "url", Stream[t].url) /\ Wire[b + U + 1].k = "skip"
  /\ AreLines(Wire, b + U + 1, Stream[t].fields) /\ Wire[b + U + E + 2].k = "head"
  /\ IsBody(Wire, e, Stream[t])
  /\ MsgEnd[t] < Len(Wire) => Wire[MsgEnd[t] + 1].k = "url"

LEMMA UrlLen ==
  ASSUME NEW m \in Request
  PROVE  Len(m.url) \in Nat /\ Len(m.url) > 0
<1>1. PICK u \in Seq(STRING) : u = m.url /\ u # <<>>  BY DEF Request
<1>. QED  BY <1>1

LEMMA RequestAt ==
  ASSUME NEW t \in 1 .. Len(Stream)
  PROVE  \E b, e, U, E, B, T \in Nat : LaidOut(t, b, e, U, E, B, T)
<1>1. PICK n \in Nat : n = Len(Stream) /\ \A i \in 1 .. n : Stream[i] \in Request  BY StreamTypes
<1>2. PICK m \in Request : m = Stream[t]  BY <1>1
<1>3. PICK U \in Nat : U = Len(m.url) /\ U > 0  BY <1>2, UrlLen
<1>4. PICK E \in Nat : E = LineEnd(m.fields)[Len(m.fields)]  BY <1>2, RequestTypes
<1>5. PICK B \in Nat : B = Len(m.body)  BY <1>2, RequestTypes
<1>6. PICK T \in Nat : T = LineEnd(m.trailers)[Len(m.trailers)]  BY <1>2, RequestTypes
<1>7. /\ MsgEnd \in [0 .. n -> Nat] /\ Len(Wire) = MsgEnd[n]
      /\ HeadEnd(t) = MsgEnd[t - 1] + HeadLen(m) /\ MsgEnd[t] = HeadEnd(t) + BodyLen(m)
  BY <1>1, <1>2, MsgEndFacts, WireFacts
<1>8. PICK b \in Nat : b = MsgEnd[t - 1]
  <2>1. t - 1 \in 0 .. n  BY <1>1
  <2>. QED  BY <1>7, <2>1
<1>9. PICK e \in Nat : e = HeadEnd(t) /\ e = b + U + E + 2
  <2>1. HeadLen(m) = U + 2 + E  BY <1>3, <1>4 DEF HeadLen
  <2>2. HeadEnd(t) = b + (U + 2 + E)  BY <1>7, <1>8, <2>1
  <2>3. b \in Nat /\ U \in Nat /\ E \in Nat  BY <1>3, <1>4, <1>8
  <2>4. \A x, y, z \in Nat : x + (y + 2 + z) = x + y + z + 2 /\ x + y + z + 2 \in Nat  OBVIOUS
  <2>. QED  BY <2>2, <2>3, <2>4
<1>10. MsgEnd[t] = IF m.chunked THEN e + 2 * B + 2 + T ELSE e + B
  <2>1. BodyLen(m) = IF m.chunked THEN 2 * B + 2 + T ELSE B  BY <1>5, <1>6 DEF BodyLen
  <2>2. MsgEnd[t] = e + IF m.chunked THEN 2 * B + 2 + T ELSE B  BY <1>7, <1>9, <2>1
  <2>3. e \in Nat /\ B \in Nat /\ T \in Nat  BY <1>5, <1>6, <1>9
  <2>4. \A x, y, z \in Nat : x + (2 * y + 2 + z) = x + 2 * y + 2 + z  OBVIOUS
  <2>. QED  BY <2>2, <2>3, <2>4
<1>11. IsHead(Wire, b, m) /\ IsBody(Wire, e, m)  BY <1>2, <1>8, <1>9, WireFacts
<1>12. /\ IsAt(Wire, b, "url", m.url) /\ Wire[b + U + 1].k = "skip"
       /\ AreLines(Wire, b + U + 1, m.fields) /\ Wire[b + U + E + 2].k = "head"
  <2>1. b \in Nat /\ U \in Nat /\ E \in Nat  BY <1>3, <1>4, <1>8
  <2>2. \A x, y, z \in Nat : x + y + 2 + z = x + y + z + 2  OBVIOUS
  <2>3. b + U + 2 + E = b + U + E + 2  BY <2>1, <2>2
  <2>4. Wire[b + U + 2 + E].k = "head"  BY <1>3, <1>4, <1>11 DEF IsHead
  <2>5. Wire[b + U + 1].k = "skip" /\ AreLines(Wire, b + U + 1, m.fields)
    BY <1>3, <1>11 DEF IsHead
  <2>6. IsAt(Wire, b, "url", m.url)  BY <1>11 DEF IsHead
  <2>. QED  BY <2>3, <2>4, <2>5, <2>6
<1>13. ASSUME MsgEnd[t] < Len(Wire)  PROVE Wire[MsgEnd[t] + 1].k = "url"
  <2>1. t # n  BY <1>7, <1>13
  <2>2. PICK i \in 1 .. n : i = t + 1 /\ i - 1 = t  BY <1>1, <2>1
  <2>3. IsHead(Wire, MsgEnd[i - 1], Stream[i]) /\ Stream[i] \in Request  BY <1>1, <2>2, WireFacts
  <2>4. 1 \in 1 .. Len(Stream[i].url)  BY <2>3, UrlLen
  <2>. QED  BY <2>2, <2>3, <2>4 DEF IsHead, IsAt
<1>14. LaidOut(t, b, e, U, E, B, T)
  BY <1>2, <1>3, <1>4, <1>5, <1>6, <1>8, <1>9, <1>10, <1>11, <1>12, <1>13 DEF LaidOut
<1>. QED  BY <1>3, <1>4, <1>5, <1>6, <1>8, <1>9, <1>14

\* The fields of the header come first in out, sorted.
HeadSorted(m, out) ==
  /\ Len(m.fields) <= Len(out)
  /\ \E p \in Bijection(1 .. Len(m.fields), 1 .. Len(m.fields)) :
       \A i \in 1 .. Len(m.fields) : out[i] = m.fields[p[i]]
  /\ \A i \in 1 .. Len(m.fields) - 1 : ~Less(out[i + 1].name, out[i].name)

BodyAt(m, n) == bodysz_ = n /\ HeldBy(where, bodybf_, m.body, n)
NoTrailer(m) == Len(fields_) = Len(m.fields) /\ state_field_value_ = TRUE

\* Before headers_completed_: in the url, or in the lines of the fields.
InUrl(m, b, U) ==
  \E q \in 0 .. U : /\ pos = b + q /\ strurl_ = SubSeq(m.url, 1, q)
                    /\ fields_ = <<>> /\ state_field_value_ = TRUE
InFields(m, b, U, E) ==
  \E x \in 0 .. E : /\ pos = b + U + 1 + x /\ strurl_ = m.url
                    /\ FieldsAt(m.fields, x, 0, fields_, state_field_value_)

\* After it: in front of the last byte of the header, in a plain body, in front of a
\* chunk or behind its first byte, in the lines of the trailers, at the end.
AtHead(m, e) == pos + 1 = e /\ NoTrailer(m) /\ BodyAt(m, 0)
InPlain(m, e, B) ==
  ~m.chunked /\ NoTrailer(m) /\ \E y \in 0 .. B : pos = e + y /\ BodyAt(m, y)
InChunks(m, e, B) ==
  /\ m.chunked /\ NoTrailer(m)
  /\ \E i \in 0 .. B : BodyAt(m, i) /\ (pos = e + 2 * i \/ (i < B /\ pos = e + 2 * i + 1))
InTrailers(m, e, B, T) ==
  /\ m.chunked /\ BodyAt(m, B)
  /\ \E x \in 0 .. T : /\ pos = e + 2 * B + 1 + x
                       /\ FieldsAt(m.trailers, x, Len(m.fields), fields_, state_field_value_)
AtEnd(m, e, B, T) ==
  /\ m.chunked /\ BodyAt(m, B) /\ pos = e + 2 * B + 2 + T
  /\ Whole(m.trailers, Len(m.trailers), Len(m.fields), fields_)

HeadersOpen(m, b, U, E) ==
  /\ bodybf_ = <<>> /\ bodysz_ = 0 /\ message_completed_ = FALSE
  /\ InUrl(m, b, U) \/ InFields(m, b, U, E)
HeadersDone(m, e, B, T) ==
  /\ strurl_ = m.url /\ HeadSorted(m, fields_)
  /\ \/ AtHead(m, e) \/ InPlain(m, e, B) \/ InChunks(m, e, B) \/ InTrailers(m, e, B, T)
     \/ AtEnd(m, e, B, T)
  /\ message_completed_ = TRUE => pos = MsgEnd[txn]

\* No callback has refused its text, and the url, the fields and the body are those
\* of the request up to the place the parser has come to.
RequestInv ==
  \A b, e, U, E, B, T \in Nat : LaidOut(txn, b, e, U, E, B, T) =>
    /\ headers_completed_ = FALSE => HeadersOpen(Stream[txn], b, U, E)
    /\ headers_completed_ = TRUE => HeadersDone(Stream[txn], e, B, T)

CodecInv ==
  /\ WhereInv /\ txn \in 1 .. Len(Stream) /\ fields_ \in Seq(Field) /\ error = FALSE
  /\ headers_completed_ \in BOOLEAN /\ message_completed_ \in BOOLEAN
  /\ state_field_value_ \in BOOLEAN
  /\ RequestInv

\* Behind the last line all fields are there.
AllThere(fs, P, out, sv) == Whole(fs, Len(fs), P, out) /\ sv = TRUE

LEMMA AllLines ==
  ASSUME NEW fs \in Seq(Field), NEW P \in Nat, NEW out, NEW sv, NEW x,
         FieldsAt(fs, x, P, out, sv), x = LineEnd(fs)[Len(fs)]
  PROVE  AllThere(fs, P, out, sv)
<1>1. PICK n \in Nat : n = Len(fs)  BY LineEndFacts
<1>2. PICK en : en = LineEnd(fs)  OBVIOUS
<1>3. en \in [0 .. n -> Nat] /\ \A j \in 1 .. n : en[j] = en[j - 1] + Width(fs[j])
  BY <1>1, <1>2, LineEndFacts
<1>4. /\ \A i, j \in 0 .. n : i <= j => en[i] <= en[j]
      /\ \A i, j \in 0 .. n : i < j => en[i] < en[j]
  BY <1>1, <1>2, LineEndOrder
<1>5. PICK z \in Nat : z = en[n] /\ n \in 0 .. n  BY <1>1, <1>3
<1>6. ASSUME NEW j \in 0 .. n, Between(fs, j, z, P, out, sv)
      PROVE  Whole(fs, n, P, out) /\ sv = TRUE
  <2>1. en[j] = z /\ sv = TRUE /\ Whole(fs, j, P, out)  BY <1>2, <1>6 DEF Between
  <2>2. ~(j < n)
    <3>. SUFFICES ASSUME j < n  PROVE FALSE
      OBVIOUS
    <3>1. en[j] < en[n]  BY <1>4, <1>5
    <3>. QED  BY <1>5, <2>1, <3>1
  <2>3. j = n  BY <1>1, <2>2
  <2>. QED  BY <2>1, <2>3
<1>7. ASSUME NEW j \in 1 .. n, NEW N \in Nat, NEW V \in Nat, NEW k \in Nat,
             N = Len(fs[j].name), V = Len(fs[j].value), k < N + V + 2
      PROVE  z # en[j - 1] + k
  <2>1. PICK a \in Nat : a = en[j - 1]
    <3>1. j - 1 \in 0 .. n  BY <1>1
    <3>. QED  BY <1>3, <3>1
  <2>2. en[j] = a + (N + V + 2)  BY <1>3, <1>7, <2>1 DEF Width
  <2>3. en[j] <= z
    <3>1. j \in 0 .. n /\ j <= n  BY <1>1
    <3>. QED  BY <1>4, <1>5, <3>1
  <2>4. \A p, q, g, h \in Nat : g < q /\ p + q <= h => h # p + g  OBVIOUS
  <2>5. N + V + 2 \in Nat  OBVIOUS
  <2>6. a \in Nat /\ z \in Nat  BY <1>5, <2>1
  <2>7. a + (N + V + 2) <= z  BY <2>2, <2>3
  <2>8. z # a + k  BY <1>7, <2>4, <2>5, <2>6, <2>7
  <2>. QED  BY <2>1, <2>8
<1>8. ASSUME NEW j \in 1 .. n
      PROVE  /\ \A y \in 1 .. Len(fs[j].name) : ~InName(fs, j, y, z, P, out, sv)
             /\ ~AtValue(fs, j, z, P, out, sv)
             /\ \A y \in 1 .. Len(fs[j].value) : ~InValue(fs, j, y, z, P, out, sv)
  <2>0. fs[j] \in Field  BY <1>1
  <2>1. PICK N \in Nat : N = Len(fs[j].name)  BY <2>0, LineFacts
  <2>2. PICK V \in Nat : V = Len(fs[j].value)  BY <2>0, LineFacts
  <2>3. \A k \in Nat : k < N + V + 2 => z # en[j - 1] + k  BY <1>7, <2>1, <2>2
  <2>4. PICK a \in Nat : a = en[j - 1]
    <3>1. j - 1 \in 0 .. n  BY <1>1
    <3>. QED  BY <1>3, <3>1
  <2>. N \in Nat /\ V \in Nat /\ a \in Nat  BY <2>1, <2>2, <2>4
  <2>5. ASSUME NEW y \in 1 .. N  PROVE z # a + y
    <3>1. y \in Nat /\ y < N + V + 2  OBVIOUS
    <3>. QED  BY <2>3, <2>4, <3>1
  <2>6. z # a + N + 1
    <3>1. N + 1 \in Nat /\ N + 1 < N + V + 2 /\ a + (N + 1) = a + N + 1  OBVIOUS
    <3>2. z # a + (N + 1)  BY <2>3, <2>4, <3>1
    <3>. QED  BY <3>1, <3>2
  <2>7. ASSUME NEW y \in 1 .. V  PROVE z # a + N + 1 + y
    <3>1. N + 1 + y \in Nat /\ N + 1 + y < N + V + 2 /\ a + (N + 1 + y) = a + N + 1 + y
      OBVIOUS
    <3>2. z # a + (N + 1 + y)  BY <2>3, <2>4, <3>1
    <3>. QED  BY <3>1, <3>2
  <2>. QED  BY <1>2, <2>1, <2>2, <2>4, <2>5, <2>6, <2>7 DEF InName, AtValue, InValue
<1>9. FieldsAt(fs, z, P, out, sv)  BY <1>1, <1>2, <1>5
<1>10. \E j \in 0 .. n : Between(fs, j, z, P, out, sv)  BY <1>1, <1>8, <1>9 DEF FieldsAt
<1>. QED  BY <1>1, <1>6, <1>10 DEF AllThere

LEMMA NoLines ==
  ASSUME NEW fs \in Seq(Field), NEW P \in Nat, NEW out, Len(out) = P
  PROVE  FieldsAt(fs, 0, P, out, TRUE)
<1>1. 0 \in 0 .. Len(fs) /\ LineEnd(fs)[0] = 0  BY LineEndFacts
<1>2. Whole(fs, 0, P, out)
  <2>1. P = P + 0 /\ 1 .. 0 = {}  OBVIOUS
  <2>. QED  BY <2>1 DEF Whole
<1>3. Between(fs, 0, 0, P, out, TRUE)  BY <1>1, <1>2 DEF Between
<1>. QED  BY <1>1, <1>3 DEF FieldsAt

\* sorthdr() leaves the fields of the header, sorted.
LEMMA SortedFacts ==
  ASSUME NEW m \in Request, NEW new \in Sorted(m.fields)
  PROVE  HeadSorted(m, new) /\ new \in Seq(Field) /\ Len(new) = Len(m.fields)
<1>1. PICK fs \in Seq(Field) : fs = m.fields  BY RequestTypes
<1>2. PICK n \in Nat : n = Len(fs) /\ DOMAIN fs = 1 .. n /\ \A i \in 1 .. n : fs[i] \in Field
  BY <1>1
<1>3. PICK p \in Bijection(1 .. n, 1 .. n) : new = [i \in 1 .. n |-> fs[p[i]]]
  BY <1>1, <1>2 DEF Sorted
<1>4. \A i \in 1 .. n - 1 : ~Less(new[i + 1].name, new[i].name)  BY <1>1, <1>2 DEF Sorted
<1>5. \A i \in 1 .. n : p[i] \in 1 .. n  BY <1>3 DEF Bijection, Injection
<1>6. \A i \in 1 .. n : new[i] = fs[p[i]] /\ new[i] \in Field  BY <1>2, <1>3, <1>5
<1>7. new \in [1 .. n -> Field]  BY <1>3, <1>6
<1>8. new \in Seq(Field) /\ Len(new) = n  BY <1>2, <1>7, Tabulated
<1>9. Len(m.fields) = n /\ n <= Len(new)  BY <1>1, <1>2, <1>8
<1>10. \A i \in 1 .. n : new[i] = m.fields[p[i]]  BY <1>1, <1>6
<1>11. HeadSorted(m, new)  BY <1>3, <1>4, <1>9, <1>10 DEF HeadSorted
<1>. QED  BY <1>8, <1>9, <1>11

\* What a step of the parser keeps.
ParserKeeps ==
  /\ txn' = txn /\ got' = got /\ where' = where /\ pos' \in Nat /\ pos <= pos' /\ pos' <= got
  /\ fields_' \in Seq(Field) /\ error' = FALSE /\ state_field_value_' \in BOOLEAN
  /\ message_completed_' = message_completed_

LEMMA UrlStep ==
  ASSUME CodecInv, headers_completed_ = FALSE, parse_header, pos < got,
         NEW m \in Request, m = Stream[txn],
         NEW b \in Nat, NEW e \in Nat, NEW U \in Nat, NEW E \in Nat, NEW B \in Nat, NEW T \in Nat,
         LaidOut(txn, b, e, U, E, B, T), HeadersOpen(m, b, U, E), InUrl(m, b, U)
  PROVE  ParserKeeps /\ headers_completed_' = FALSE /\ HeadersOpen(m, b, U, E)'
<1>1. PICK q \in 0 .. U : /\ pos = b + q /\ strurl_ = SubSeq(m.url, 1, q)
                          /\ fields_ = <<>> /\ state_field_value_ = TRUE
  BY DEF InUrl
<1>2. /\ m.url \in Seq(STRING) /\ U = Len(m.url) /\ IsAt(Wire, b, "url", m.url)
      /\ Wire[b + U + 1].k = "skip"
  BY RequestTypes DEF LaidOut
<1>3. /\ pos \in Nat /\ got \in Nat /\ got <= Len(Wire) /\ Len(Wire) \in Nat
  BY WireFacts DEF CodecInv, WhereInv
<1>4. Parse /\ ~of_message_complete  BY DEF Parse, of_message_complete
<1>5. /\ bodybf_ = <<>> /\ bodysz_ = 0 /\ message_completed_ = FALSE /\ error = FALSE
      /\ fields_ \in Seq(Field)
  BY DEF HeadersOpen, CodecInv
<1>6. CASE q < U
  <2>1. Wire[pos + 1].k = "url"
    <3>1. PICK k \in 1 .. Len(m.url) : k = q + 1 /\ b + k = pos + 1
      <4>1. q \in 0 .. U /\ q < U /\ b \in Nat /\ U \in Nat  BY <1>1, <1>6
      <4>2. q + 1 \in 1 .. U /\ b + (q + 1) = b + q + 1  BY <4>1
      <4>3. U = Len(m.url) /\ pos = b + q  BY <1>1, <1>2
      <4>. QED  BY <4>2, <4>3
    <3>. QED  BY <1>2, <3>1 DEF IsAt
  <2>2. of_url  BY <1>4, <2>1, Acts
  <2>3. PICK r : IsRun(m.url, q, r)
    <3>1. b + Len(m.url) < Len(Wire) => Wire[b + Len(m.url) + 1].k # "url"  BY <1>2
    <3>2. q \in Nat /\ q < Len(m.url) /\ Len(m.url) \in Nat  BY <1>1, <1>2, <1>6
    <3>. QED  BY <1>1, <1>2, <1>3, <3>1, <3>2, RunFacts
  <2>4. q \in Nat  BY <1>1
  <2>5. PICK run \in Seq(STRING) : run = Run  BY <1>2, <1>3, <2>3, <2>4, RunTyped
  <2>6. /\ r \in Nat /\ r > 0 /\ q + r <= U /\ RunEnd = pos + r /\ pos + r <= got
        /\ NextPart(m.url, q, r, run)
    BY <1>2, <2>3, <2>5 DEF IsRun, NextPart
  <2>7. Extended(m.url, q, r, run)  BY <1>2, <2>4, <2>5, <2>6, PrefixMore
  <2>8. /\ pos' = RunEnd /\ strurl_' = strurl_ \o run /\ got' = got /\ where' = where /\ txn' = txn
        /\ fields_' = fields_ /\ bodybf_' = bodybf_ /\ bodysz_' = bodysz_
        /\ headers_completed_' = headers_completed_ /\ message_completed_' = message_completed_
        /\ state_field_value_' = state_field_value_ /\ error' = error
    BY <2>2, <2>5 DEF of_url, connVars
  <2>9. PICK k \in 0 .. U : k = q + r /\ pos' = b + k /\ pos' \in Nat /\ pos <= pos' /\ pos' <= got
    <3>1. /\ q + r \in 0 .. U /\ pos + r = b + (q + r) /\ pos + r \in Nat /\ pos <= pos + r
      BY <1>1, <1>3, <2>4, <2>6
    <3>. QED  BY <2>6, <2>8, <3>1
  <2>10. strurl_' = SubSeq(m.url, 1, k)  BY <1>1, <2>7, <2>8, <2>9 DEF Extended
  <2>11. InUrl(m, b, U)'  BY <1>1, <2>8, <2>9, <2>10 DEF InUrl
  <2>12. ParserKeeps  BY <1>1, <1>5, <2>8, <2>9 DEF ParserKeeps
  <2>. QED  BY <1>5, <2>8, <2>11, <2>12 DEF HeadersOpen
<1>7. CASE ~(q < U)
  <2>1. q = U  BY <1>1, <1>7
  <2>2. Wire[pos + 1].k = "skip"  BY <1>1, <1>2, <2>1
  <2>3. skip  BY <1>4, <2>2, Acts
  <2>4. /\ pos' = pos + 1 /\ strurl_' = strurl_ /\ got' = got /\ where' = where /\ txn' = txn
        /\ fields_' = fields_ /\ bodybf_' = bodybf_ /\ bodysz_' = bodysz_
        /\ headers_completed_' = headers_completed_ /\ message_completed_' = message_completed_
        /\ state_field_value_' = state_field_value_ /\ error' = error
    BY <2>3 DEF skip, connVars, requestVars
  <2>5. strurl_ = m.url  BY <1>1, <1>2, <2>1, PrefixEnds
  <2>6. pos' = b + U + 1 + 0 /\ 0 \in 0 .. E  BY <1>1, <2>1, <2>4
  <2>7. m.fields \in Seq(Field) /\ Len(<<>>) = 0  BY RequestTypes
  <2>8. FieldsAt(m.fields, 0, 0, fields_', state_field_value_')
    BY <1>1, <2>4, <2>7, NoLines
  <2>9. InFields(m, b, U, E)'  BY <2>4, <2>5, <2>6, <2>8 DEF InFields
  <2>10. pos' \in Nat /\ pos <= pos' /\ pos' <= got  BY <1>3, <2>4
  <2>11. ParserKeeps  BY <1>1, <1>5, <2>4, <2>10 DEF ParserKeeps
  <2>. QED  BY <1>5, <2>4, <2>9, <2>11 DEF HeadersOpen
<1>. QED  BY <1>6, <1>7

LEMMA FieldsStep ==
  ASSUME CodecInv, headers_completed_ = FALSE, parse_header, pos < got,
         NEW m \in Request, m = Stream[txn],
         NEW b \in Nat, NEW e \in Nat, NEW U \in Nat, NEW E \in Nat, NEW B \in Nat, NEW T \in Nat,
         LaidOut(txn, b, e, U, E, B, T), HeadersOpen(m, b, U, E), InFields(m, b, U, E)
  PROVE  /\ ParserKeeps
         /\ \/ headers_completed_' = FALSE /\ HeadersOpen(m, b, U, E)'
            \/ headers_completed_' = TRUE /\ HeadersDone(m, e, B, T)'
<1>1. PICK x \in 0 .. E : /\ pos = b + U + 1 + x /\ strurl_ = m.url
                          /\ FieldsAt(m.fields, x, 0, fields_, state_field_value_)
  BY DEF InFields
<1>2. PICK fs \in Seq(Field) : fs = m.fields  BY RequestTypes
<1>3. PICK c \in Nat : c = b + U + 1 /\ pos = c + x
  <2>1. b + U + 1 \in Nat  OBVIOUS
  <2>. QED  BY <1>1, <2>1
<1>4. /\ E = LineEnd(fs)[Len(fs)] /\ AreLines(Wire, c, fs) /\ Wire[b + U + E + 2].k = "head"
      /\ e = b + U + E + 2
  BY <1>2, <1>3 DEF LaidOut
<1>5. Ahead  BY WireFacts DEF Ahead, CodecInv, WhereInv
<1>6. Parse /\ ~of_message_complete  BY DEF Parse, of_message_complete
<1>7. /\ bodybf_ = <<>> /\ bodysz_ = 0 /\ message_completed_ = FALSE /\ error = FALSE
      /\ fields_ \in Seq(Field) /\ state_field_value_ \in BOOLEAN
  BY DEF HeadersOpen, CodecInv
<1>8. x \in Nat  BY <1>1
<1>9. CASE x < E
  <2>1. Moved(c, fs, 0, x) /\ RestKept
    BY <1>1, <1>2, <1>3, <1>4, <1>5, <1>6, <1>7, <1>8, <1>9, LinesStep
  <2>2. /\ strurl_' = strurl_ /\ got' = got /\ where' = where /\ txn' = txn
        /\ bodybf_' = bodybf_ /\ bodysz_' = bodysz_
        /\ headers_completed_' = headers_completed_ /\ message_completed_' = message_completed_
    BY <2>1 DEF RestKept, connVars
  <2>3. PICK z \in Nat : /\ x < z /\ z <= E /\ pos' = c + z /\ c + z <= got
                         /\ FieldsAt(fs, z, 0, fields_', state_field_value_')
    BY <1>4, <2>1 DEF Moved
  <2>4. fields_' \in Seq(Field) /\ error' = FALSE /\ state_field_value_' \in BOOLEAN
    BY <2>1 DEF Moved, Kept
  <2>5. z \in 0 .. E /\ c + z \in Nat /\ c + x <= c + z  BY <1>8, <2>3
  <2>6. InFields(m, b, U, E)'  BY <1>1, <1>2, <1>3, <2>2, <2>3, <2>5 DEF InFields
  <2>7. ParserKeeps  BY <1>3, <2>2, <2>3, <2>4, <2>5 DEF ParserKeeps
  <2>. QED  BY <1>7, <2>2, <2>6, <2>7 DEF HeadersOpen
<1>10. CASE ~(x < E)
  <2>1. x = E  BY <1>1, <1>10
  <2>2. pos + 1 = e
    <3>1. \A p, q, g \in Nat : p + q + 1 + g + 1 = p + q + g + 2  OBVIOUS
    <3>. QED  BY <1>1, <1>4, <2>1, <3>1
  <2>3. of_headers_complete  BY <1>4, <1>6, <2>2, Acts
  <2>4. /\ pos' = pos /\ strurl_' = strurl_ /\ got' = got /\ where' = where /\ txn' = txn
        /\ fields_' \in Sorted(fields_) /\ bodybf_' = bodybf_ /\ bodysz_' = bodysz_
        /\ headers_completed_' = TRUE /\ message_completed_' = message_completed_
        /\ state_field_value_' = state_field_value_ /\ error' = error
    BY <2>3 DEF of_headers_complete, connVars
  <2>5. Whole(fs, Len(fs), 0, fields_) /\ state_field_value_ = TRUE
    <3>0. PICK P \in Nat : P = 0  OBVIOUS
    <3>1. FieldsAt(fs, E, P, fields_, state_field_value_) /\ E = LineEnd(fs)[Len(fs)]
      BY <1>1, <1>2, <1>4, <2>1, <3>0
    <3>2. fs \in Seq(Field) /\ P \in Nat  BY <1>2, <3>0
    <3>3. AllThere(fs, P, fields_, state_field_value_)  BY <3>1, <3>2, AllLines
    <3>. QED  BY <3>0, <3>3 DEF AllThere
  <2>6. fields_ = fs
    <3>1. PICK n \in Nat : n = Len(fs)  OBVIOUS
    <3>2. Len(fields_) = n  BY <2>5, <3>1 DEF Whole
    <3>3. ASSUME NEW i \in 1 .. n  PROVE fields_[i] = fs[i]
      <4>1. 0 + i = i  OBVIOUS
      <4>. QED  BY <2>5, <3>1, <4>1 DEF Whole
    <3>. QED  BY <1>7, <3>1, <3>2, <3>3
  <2>7. PICK new \in Sorted(m.fields) : fields_' = new  BY <1>2, <2>4, <2>6
  <2>8. HeadSorted(m, new) /\ new \in Seq(Field) /\ Len(new) = Len(m.fields)  BY SortedFacts
  <2>9. HeadSorted(m, fields_)'
    BY <2>7, <2>8 DEF HeadSorted
  <2>10. AtHead(m, e)'
    <3>1. HeldBy(where', bodybf_', m.body, 0)  BY <1>7, <2>4, HeldFirst
    <3>. QED  BY <1>7, <2>2, <2>4, <2>5, <2>7, <2>8, <3>1 DEF AtHead, NoTrailer, BodyAt
  <2>11. HeadersDone(m, e, B, T)'  BY <1>1, <1>7, <2>4, <2>9, <2>10 DEF HeadersDone
  <2>12. pos' \in Nat /\ pos <= pos' /\ pos' <= got
    <3>1. pos \in Nat /\ got \in Nat  BY <1>5 DEF Ahead
    <3>. QED  BY <2>4, <3>1
  <2>13. ParserKeeps  BY <1>7, <2>4, <2>7, <2>8, <2>12 DEF ParserKeeps
  <2>. QED  BY <2>4, <2>11, <2>13
<1>. QED  BY <1>9, <1>10

LEMMA OpenStep ==
  ASSUME CodecInv, headers_completed_ = FALSE, parse_header
  PROVE  ParserKeeps /\ RequestInv'
<1>1. PICK m \in Request : m = Stream[txn]  BY StreamTypes DEF CodecInv
<1>2. Parse /\ ~of_message_complete  BY DEF Parse, of_message_complete
<1>3. pos < got  BY <1>2, Acts
<1>4. ASSUME NEW b \in Nat, NEW e \in Nat, NEW U \in Nat, NEW E \in Nat, NEW B \in Nat,
             NEW T \in Nat, LaidOut(txn, b, e, U, E, B, T)
      PROVE  /\ ParserKeeps
             /\ \/ headers_completed_' = FALSE /\ HeadersOpen(m, b, U, E)'
                \/ headers_completed_' = TRUE /\ HeadersDone(m, e, B, T)'
  <2>1. HeadersOpen(m, b, U, E)  BY <1>1, <1>4 DEF CodecInv, RequestInv
  <2>2. CASE InUrl(m, b, U)  BY <1>1, <1>3, <1>4, <2>1, <2>2, UrlStep
  <2>3. CASE InFields(m, b, U, E)  BY <1>1, <1>3, <1>4, <2>1, <2>3, FieldsStep
  <2>. QED  BY <2>1, <2>2, <2>3 DEF HeadersOpen
<1>5. ParserKeeps
  <2>1. \E b, e, U, E, B, T \in Nat : LaidOut(txn, b, e, U, E, B, T)  BY RequestAt DEF CodecInv
  <2>. QED  BY <1>4, <2>1
<1>6. txn' = txn  BY <1>5 DEF ParserKeeps
<1>. QED  BY <1>1, <1>4, <1>5, <1>6 DEF RequestInv

LEMMA Skipped ==
  ASSUME CodecInv, skip, pos < got
  PROVE  /\ ParserKeeps /\ pos' = pos + 1 /\ pos \in Nat
         /\ strurl_' = strurl_ /\ fields_' = fields_ /\ bodybf_' = bodybf_ /\ bodysz_' = bodysz_
         /\ headers_completed_' = headers_completed_ /\ state_field_value_' = state_field_value_
         /\ message_completed_' = message_completed_ /\ where' = where /\ txn' = txn
<1>1. /\ pos' = pos + 1 /\ strurl_' = strurl_ /\ got' = got /\ where' = where /\ txn' = txn
      /\ fields_' = fields_ /\ bodybf_' = bodybf_ /\ bodysz_' = bodysz_
      /\ headers_completed_' = headers_completed_ /\ message_completed_' = message_completed_
      /\ state_field_value_' = state_field_value_ /\ error' = error
  BY DEF skip, connVars, requestVars
<1>2. pos \in Nat /\ got \in Nat  BY DEF CodecInv, WhereInv
<1>3. pos' \in Nat /\ pos <= pos' /\ pos' <= got  BY <1>1, <1>2
<1>4. fields_ \in Seq(Field) /\ error = FALSE /\ state_field_value_ \in BOOLEAN
  BY DEF CodecInv
<1>. QED  BY <1>1, <1>2, <1>3, <1>4 DEF ParserKeeps

LEMMA BodyActs ==
  ASSUME parse_body, ~of_message_complete
  PROVE  pos < got /\ Wire[pos + 1].k # "url"
BY DEF parse_body, of_header_field, of_header_value, of_body, skip, At

\* The body of a request is being parsed.
BehindHead(m, b, e, U, E, B, T) ==
  /\ CodecInv /\ headers_completed_ = TRUE /\ message_completed_ = FALSE
  /\ Parse /\ ~of_message_complete /\ pos < got /\ Wire[pos + 1].k # "url"
  /\ m \in Request /\ m = Stream[txn]
  /\ b \in Nat /\ e \in Nat /\ U \in Nat /\ E \in Nat /\ B \in Nat /\ T \in Nat
  /\ LaidOut(txn, b, e, U, E, B, T) /\ strurl_ = m.url /\ HeadSorted(m, fields_)

\* And it is so after the step.
Still(m, e, B, T) ==
  /\ ParserKeeps /\ headers_completed_' = TRUE /\ Kept(Len(m.fields), fields_, fields_')
  /\ strurl_' = m.url /\ HeadSorted(m, fields_')
  /\ \/ AtHead(m, e)' \/ InPlain(m, e, B)' \/ InChunks(m, e, B)' \/ InTrailers(m, e, B, T)'
     \/ AtEnd(m, e, B, T)'

LEMMA SkipStep ==
  ASSUME NEW m, NEW b, NEW e, NEW U, NEW E, NEW B, NEW T, BehindHead(m, b, e, U, E, B, T), skip
  PROVE  /\ ParserKeeps /\ pos' = pos + 1 /\ headers_completed_' = TRUE
         /\ strurl_' = m.url /\ HeadSorted(m, fields_')
         /\ fields_' = fields_ /\ state_field_value_' = state_field_value_
         /\ Kept(Len(m.fields), fields_, fields_')
         /\ NoTrailer(m) => NoTrailer(m)'
         /\ \A n : BodyAt(m, n) => BodyAt(m, n)'
<1>1. /\ ParserKeeps /\ pos' = pos + 1 /\ pos \in Nat
      /\ strurl_' = strurl_ /\ fields_' = fields_ /\ bodybf_' = bodybf_ /\ bodysz_' = bodysz_
      /\ headers_completed_' = headers_completed_ /\ state_field_value_' = state_field_value_
      /\ where' = where
  BY Skipped DEF BehindHead
<1>2. headers_completed_ = TRUE /\ strurl_ = m.url /\ HeadSorted(m, fields_)
  BY DEF BehindHead
<1>3. Kept(Len(m.fields), fields_, fields_')  BY <1>1 DEF Kept, ParserKeeps
<1>. QED  BY <1>1, <1>2, <1>3 DEF NoTrailer, BodyAt

LEMMA HeadStep ==
  ASSUME NEW m, NEW b, NEW e, NEW U, NEW E, NEW B, NEW T, BehindHead(m, b, e, U, E, B, T),
         AtHead(m, e)
  PROVE  Still(m, e, B, T)
<1>1. Wire[pos + 1].k = "head"  BY DEF BehindHead, AtHead, LaidOut
<1>2. skip  BY <1>1, Acts DEF BehindHead
<1>3. /\ ParserKeeps /\ pos' = pos + 1 /\ headers_completed_' = TRUE
      /\ strurl_' = m.url /\ HeadSorted(m, fields_')
      /\ NoTrailer(m)' /\ BodyAt(m, 0)' /\ pos + 1 = e /\ Kept(Len(m.fields), fields_, fields_')
  BY <1>2, SkipStep DEF AtHead
<1>4. e \in Nat /\ B \in Nat /\ m.chunked \in BOOLEAN  BY RequestTypes DEF BehindHead
<1>5. 0 \in 0 .. B /\ pos' = e + 0 /\ pos' = e + 2 * 0  BY <1>3, <1>4
<1>6. CASE m.chunked
  <2>1. InChunks(m, e, B)'  BY <1>3, <1>5, <1>6 DEF InChunks
  <2>. QED  BY <1>3, <2>1 DEF Still
<1>7. CASE ~m.chunked
  <2>1. InPlain(m, e, B)'  BY <1>3, <1>5, <1>7 DEF InPlain
  <2>. QED  BY <1>3, <2>1 DEF Still
<1>. QED  BY <1>6, <1>7

\* A callback for the body.
LEMMA BodyKept ==
  ASSUME CodecInv, of_body, NEW r \in Nat, RunEnd = pos + r, pos + r <= got
  PROVE  /\ ParserKeeps /\ pos' = pos + r /\ strurl_' = strurl_ /\ fields_' = fields_
         /\ headers_completed_' = headers_completed_ /\ state_field_value_' = state_field_value_
         /\ where' = where
<1>1. /\ pos' = RunEnd /\ strurl_' = strurl_ /\ got' = got /\ where' = where /\ txn' = txn
      /\ fields_' = fields_ /\ headers_completed_' = headers_completed_
      /\ message_completed_' = message_completed_
      /\ state_field_value_' = state_field_value_ /\ error' = error
  BY DEF of_body, connVars
<1>2. pos \in Nat /\ got \in Nat  BY DEF CodecInv, WhereInv
<1>3. pos' \in Nat /\ pos <= pos' /\ pos' <= got  BY <1>1, <1>2
<1>4. fields_ \in Seq(Field) /\ error = FALSE /\ state_field_value_ \in BOOLEAN
  BY DEF CodecInv
<1>. QED  BY <1>1, <1>3, <1>4 DEF ParserKeeps

\* The callback is for the r bytes behind the first n of the body; after it k bytes
\* are there.
BodyRun(body, n, r) ==
  /\ r \in Nat /\ r > 0 /\ RunEnd = pos + r /\ pos + r <= got /\ Len(Run) = r
  /\ \A i \in 1 .. r : Wire[pos + i].x = body[n + i]
BodyGrown(m, r, k) ==
  /\ ParserKeeps /\ pos' = pos + r /\ headers_completed_' = TRUE
  /\ strurl_' = m.url /\ HeadSorted(m, fields_')
  /\ NoTrailer(m)' /\ BodyAt(m, k)' /\ Kept(Len(m.fields), fields_, fields_')

LEMMA BodyMore ==
  ASSUME NEW m, NEW b, NEW e, NEW U, NEW E, NEW B, NEW T, BehindHead(m, b, e, U, E, B, T),
         of_body, NEW n \in Nat, BodyAt(m, n), NoTrailer(m), NEW r, BodyRun(m.body, n, r),
         NEW k, k = n + r
  PROVE  BodyGrown(m, r, k)
<1>0. /\ r \in Nat /\ r > 0 /\ RunEnd = pos + r /\ pos + r <= got /\ Len(Run) = r
      /\ \A i \in 1 .. r : Wire[pos + i].x = m.body[n + i]
  BY DEF BodyRun
<1>1. CodecInv /\ WhereInv  BY DEF BehindHead, CodecInv
<1>2. /\ ParserKeeps /\ pos' = pos + r /\ strurl_' = strurl_ /\ fields_' = fields_
      /\ headers_completed_' = headers_completed_ /\ state_field_value_' = state_field_value_
      /\ where' = where
  BY <1>0, <1>1, BodyKept
<1>3. headers_completed_ = TRUE /\ strurl_ = m.url /\ HeadSorted(m, fields_)
  BY DEF BehindHead
<1>4. HeldBy(where, bodybf_, m.body, n) /\ bodysz_ = n  BY DEF BodyAt
<1>5. HeldBy(where, bodybf_', m.body, n + r) /\ bodysz_' = n + r  BY <1>0, <1>1, <1>4, BodyStep
<1>6. BodyAt(m, k)'  BY <1>2, <1>5 DEF BodyAt
<1>7. NoTrailer(m)'  BY <1>2 DEF NoTrailer
<1>8. Kept(Len(m.fields), fields_, fields_')  BY <1>2 DEF Kept, ParserKeeps
<1>. QED  BY <1>2, <1>3, <1>6, <1>7, <1>8 DEF BodyGrown

\* Behind the end of a message comes a url, for which parse_body has no callback.
LEMMA NotAtEnd ==
  ASSUME NEW m, NEW b, NEW e, NEW U, NEW E, NEW B, NEW T, BehindHead(m, b, e, U, E, B, T)
  PROVE  pos # MsgEnd[txn]
<1>1. pos < Len(Wire)
  <2>1. pos \in Nat /\ got \in Nat /\ got <= Len(Wire) /\ pos < got /\ Len(Wire) \in Nat
    BY WireFacts DEF BehindHead, CodecInv, WhereInv
  <2>. QED  BY <2>1
<1>. QED  BY <1>1 DEF BehindHead, LaidOut

LEMMA PlainStep ==
  ASSUME NEW m, NEW b, NEW e, NEW U, NEW E, NEW B, NEW T, BehindHead(m, b, e, U, E, B, T),
         InPlain(m, e, B)
  PROVE  Still(m, e, B, T)
<1>1. PICK y \in 0 .. B : pos = e + y /\ BodyAt(m, y)  BY DEF InPlain
<1>2. e \in Nat /\ B \in Nat /\ ~m.chunked /\ NoTrailer(m)  BY DEF BehindHead, InPlain
<1>3. B = Len(m.body) /\ MsgEnd[txn] = e + B /\ IsBody(Wire, e, m) /\ m \in Request
      /\ (MsgEnd[txn] < Len(Wire) => Wire[MsgEnd[txn] + 1].k = "url")
  BY <1>2 DEF BehindHead, LaidOut
<1>4. IsAt(Wire, e, "body", m.body)  BY <1>2, <1>3 DEF IsBody
<1>5. y # B  BY <1>1, <1>3, NotAtEnd
<1>6. y \in Nat /\ y < Len(m.body) /\ Len(m.body) \in Nat  BY <1>1, <1>2, <1>3, <1>5
<1>7. pos \in Nat /\ got \in Nat /\ got <= Len(Wire) /\ pos < got /\ Len(Wire) \in Nat
  BY WireFacts DEF BehindHead, CodecInv, WhereInv
<1>8. Wire[pos + 1].k = "body"
  <2>1. PICK k \in 1 .. Len(m.body) : k = y + 1 /\ e + k = pos + 1
    <3>1. y + 1 \in 1 .. Len(m.body) /\ e + (y + 1) = e + y + 1  BY <1>2, <1>6
    <3>. QED  BY <1>1, <3>1
  <2>. QED  BY <1>4, <2>1 DEF IsAt
<1>9. of_body  BY <1>8, Acts DEF BehindHead
<1>10. PICK r : IsRun(m.body, y, r)
  <2>1. e + Len(m.body) < Len(Wire) => Wire[e + Len(m.body) + 1].k # "body"  BY <1>3
  <2>. QED  BY <1>1, <1>2, <1>4, <1>6, <1>7, <2>1, RunFacts
<1>11. /\ r \in Nat /\ r > 0 /\ y + r <= Len(m.body) /\ RunEnd = pos + r /\ pos + r <= got
       /\ Len(Run) = r
  BY <1>10 DEF IsRun
<1>12. ASSUME NEW i \in 1 .. r  PROVE Wire[pos + i].x = m.body[y + i]
  <2>1. PICK k \in 1 .. Len(m.body) : k = y + i /\ e + k = pos + i
    <3>1. y + i \in 1 .. Len(m.body) /\ e + (y + i) = e + y + i  BY <1>2, <1>6, <1>11
    <3>. QED  BY <1>1, <3>1
  <2>. QED  BY <1>4, <2>1 DEF IsAt
<1>13. PICK k \in 0 .. B : k = y + r /\ pos + r = e + k
  <2>1. y + r \in 0 .. B /\ e + y + r = e + (y + r)  BY <1>2, <1>3, <1>6, <1>11
  <2>. QED  BY <1>1, <2>1
<1>14. BodyRun(m.body, y, r)  BY <1>11, <1>12 DEF BodyRun
<1>15. BodyGrown(m, r, k)  BY <1>1, <1>2, <1>6, <1>9, <1>13, <1>14, BodyMore
<1>16. InPlain(m, e, B)'  BY <1>2, <1>13, <1>15 DEF InPlain, BodyGrown
<1>. QED  BY <1>15, <1>16 DEF Still, BodyGrown

LEMMA ChunkStep ==
  ASSUME NEW m, NEW b, NEW e, NEW U, NEW E, NEW B, NEW T, BehindHead(m, b, e, U, E, B, T),
         InChunks(m, e, B)
  PROVE  Still(m, e, B, T)
<1>1. PICK i \in 0 .. B : BodyAt(m, i) /\ (pos = e + 2 * i \/ (i < B /\ pos = e + 2 * i + 1))
  BY DEF InChunks
<1>2. /\ e \in Nat /\ B \in Nat /\ T \in Nat /\ m.chunked /\ NoTrailer(m) /\ B = Len(m.body)
      /\ m \in Request /\ IsBody(Wire, e, m)
  BY DEF BehindHead, InChunks, LaidOut
<1>3. /\ \A j \in 1 .. B : /\ Wire[e + 2 * j - 1].k = "skip"
                           /\ Wire[e + 2 * j].k = "body" /\ Wire[e + 2 * j].x = m.body[j]
      /\ Wire[e + 2 * B + 1].k = "skip"
  BY <1>2 DEF IsBody
<1>4. i \in Nat /\ i <= B  BY <1>1, <1>2
<1>5. CASE pos = e + 2 * i /\ i < B
  <2>1. PICK j \in 1 .. B : pos + 1 = e + 2 * j - 1
    <3>1. i + 1 \in 1 .. B /\ e + 2 * i + 1 = e + 2 * (i + 1) - 1  BY <1>2, <1>4, <1>5
    <3>. QED  BY <1>5, <3>1
  <2>2. skip  BY <1>3, <2>1, Acts DEF BehindHead
  <2>3. /\ ParserKeeps /\ pos' = pos + 1 /\ headers_completed_' = TRUE
        /\ strurl_' = m.url /\ HeadSorted(m, fields_') /\ NoTrailer(m)' /\ BodyAt(m, i)'
        /\ Kept(Len(m.fields), fields_, fields_')
    BY <1>1, <1>2, <2>2, SkipStep
  <2>4. pos' = e + 2 * i + 1  BY <1>5, <2>3
  <2>5. InChunks(m, e, B)'  BY <1>1, <1>2, <1>5, <2>3, <2>4 DEF InChunks
  <2>. QED  BY <2>3, <2>5 DEF Still
<1>6. CASE pos = e + 2 * i /\ ~(i < B)
  <2>1. i = B  BY <1>2, <1>4, <1>6
  <2>2. skip  BY <1>3, <1>6, <2>1, Acts DEF BehindHead
  <2>3. /\ ParserKeeps /\ pos' = pos + 1 /\ headers_completed_' = TRUE
        /\ strurl_' = m.url /\ HeadSorted(m, fields_') /\ NoTrailer(m)' /\ BodyAt(m, B)'
        /\ Kept(Len(m.fields), fields_, fields_')
    BY <1>1, <1>2, <2>1, <2>2, SkipStep
  <2>4. pos' = e + 2 * B + 1 + 0 /\ 0 \in 0 .. T  BY <1>2, <1>6, <2>1, <2>3
  <2>5. m.trailers \in Seq(Field) /\ Len(m.fields) \in Nat  BY <1>2, RequestTypes
  <2>6. Len(fields_') = Len(m.fields) /\ state_field_value_' = TRUE  BY <2>3 DEF NoTrailer
  <2>7. FieldsAt(m.trailers, 0, Len(m.fields), fields_', state_field_value_')
    BY <2>5, <2>6, NoLines
  <2>8. InTrailers(m, e, B, T)'  BY <1>2, <2>3, <2>4, <2>7 DEF InTrailers
  <2>. QED  BY <2>3, <2>8 DEF Still
<1>7. CASE i < B /\ pos = e + 2 * i + 1
  <2>1. PICK j \in 1 .. B : j = i + 1 /\ pos + 1 = e + 2 * j
    <3>1. i + 1 \in 1 .. B /\ e + 2 * i + 1 + 1 = e + 2 * (i + 1)  BY <1>2, <1>4, <1>7
    <3>. QED  BY <1>7, <3>1
  <2>2. of_body  BY <1>3, <2>1, Acts DEF BehindHead
  <2>3. PICK p \in Nat : p = pos /\ p < got /\ got \in Nat /\ got <= Len(Wire) /\ Len(Wire) \in Nat
    BY WireFacts DEF BehindHead, CodecInv, WhereInv
  <2>4. Wire[p + 2].k = "skip"
    <3>1. CASE j < B
      <4>1. j + 1 \in 1 .. B /\ p + 2 = e + 2 * (j + 1) - 1
        <5>1. j + 1 \in 1 .. B  BY <1>2, <2>1, <3>1
        <5>2. \A g, h, l \in Nat : g + 1 = h + 2 * l => g + 2 = h + 2 * (l + 1) - 1  OBVIOUS
        <5>3. p \in Nat /\ e \in Nat /\ j \in Nat /\ p + 1 = e + 2 * j  BY <1>2, <2>1, <2>3
        <5>. QED  BY <5>1, <5>2, <5>3
      <4>. QED  BY <1>3, <4>1
    <3>2. CASE ~(j < B)
      <4>1. j = B  BY <1>2, <2>1, <3>2
      <4>2. \A g, h, l \in Nat : g + 1 = h + 2 * l => g + 2 = h + 2 * l + 1  OBVIOUS
      <4>3. p \in Nat /\ e \in Nat /\ B \in Nat /\ p + 1 = e + 2 * B  BY <1>2, <2>1, <2>3, <4>1
      <4>4. p + 2 = e + 2 * B + 1  BY <4>2, <4>3
      <4>. QED  BY <1>3, <4>4
    <3>. QED  BY <3>1, <3>2
  <2>5. PICK s : s = <<m.body[j]>>  OBVIOUS
  <2>6. Len(s) = 1 /\ s[1] = m.body[j]  BY <2>5
  <2>7. PICK r : IsRun(s, 0, r)
    <3>1. IsAt(Wire, p, "body", s)
      <4>1. Wire[p + 1].k = "body" /\ Wire[p + 1].x = s[1]  BY <1>3, <2>1, <2>3, <2>6
      <4>. QED  BY <2>6, <4>1 DEF IsAt
    <3>2. Len(s) \in Nat /\ 0 < Len(s) /\ p = p + 0 /\ p + Len(s) + 1 = p + 2  BY <2>3, <2>6
    <3>3. p + Len(s) < Len(Wire) => Wire[p + Len(s) + 1].k # "body"  BY <2>4, <3>2
    <3>4. PICK y \in Nat : y = 0  OBVIOUS
    <3>5. \E r : IsRun(s, y, r)  BY <2>3, <3>1, <3>2, <3>3, <3>4, RunFacts
    <3>. QED  BY <3>4, <3>5
  <2>8. r \in Nat /\ r > 0 /\ 0 + r <= 1 /\ RunEnd = pos + r /\ pos + r <= got /\ Len(Run) = r
    BY <2>6, <2>7 DEF IsRun
  <2>9. r = 1  BY <2>8
  <2>10. ASSUME NEW k \in 1 .. 1  PROVE Wire[pos + k].x = m.body[i + k]
    <3>1. k = 1  OBVIOUS
    <3>. QED  BY <1>3, <2>1, <3>1
  <2>11. BodyRun(m.body, i, 1)  BY <2>8, <2>9, <2>10 DEF BodyRun
  <2>12. BodyGrown(m, 1, j)  BY <1>1, <1>2, <1>4, <2>1, <2>2, <2>11, BodyMore
  <2>13. pos' = e + 2 * j /\ j \in 0 .. B  BY <1>2, <2>1, <2>12 DEF BodyGrown
  <2>14. InChunks(m, e, B)'  BY <1>2, <2>12, <2>13 DEF InChunks, BodyGrown
  <2>. QED  BY <2>12, <2>14 DEF Still, BodyGrown
<1>. QED  BY <1>1, <1>5, <1>6, <1>7

LEMMA FieldsLen ==
  ASSUME NEW fs \in Seq(Field), NEW x, NEW P \in Nat, NEW out, NEW sv, FieldsAt(fs, x, P, out, sv)
  PROVE  Len(out) \in Nat /\ P <= Len(out)
<1>1. PICK n \in Nat : n = Len(fs)  OBVIOUS
<1>2. ASSUME NEW j \in 0 .. n, Len(out) = P + j  PROVE Len(out) \in Nat /\ P <= Len(out)
  BY <1>2
<1>3. \A j \in 1 .. n : j \in 0 .. n  OBVIOUS
<1>4. CASE \E j \in 0 .. Len(fs) : Between(fs, j, x, P, out, sv)
  BY <1>1, <1>2, <1>4 DEF Between, Whole
<1>5. CASE \E j \in 1 .. Len(fs) : \/ \E y \in 1 .. Len(fs[j].name) : InName(fs, j, y, x, P, out, sv)
                                  \/ AtValue(fs, j, x, P, out, sv)
                                  \/ \E y \in 1 .. Len(fs[j].value) : InValue(fs, j, y, x, P, out, sv)
  <2>1. PICK j \in 1 .. n : Len(out) = P + j
    BY <1>1, <1>5 DEF InName, AtValue, InValue, Partly
  <2>. QED  BY <1>2, <1>3, <2>1
<1>. QED  BY <1>4, <1>5 DEF FieldsAt

\* What comes behind the fields of the header does not matter.
LEMMA SortedKept ==
  ASSUME NEW m \in Request, NEW out, NEW u, HeadSorted(m, out), Kept(Len(m.fields), out, u),
         Len(m.fields) <= Len(u)
  PROVE  HeadSorted(m, u)
<1>1. PICK n \in Nat : n = Len(m.fields)  BY RequestTypes
<1>2. \A i \in 1 .. n : u[i] = out[i]  BY <1>1 DEF Kept
<1>3. PICK p \in Bijection(1 .. n, 1 .. n) : \A i \in 1 .. n : out[i] = m.fields[p[i]]
  BY <1>1 DEF HeadSorted
<1>4. \A i \in 1 .. n : u[i] = m.fields[p[i]]  BY <1>2, <1>3
<1>5. ASSUME NEW i \in 1 .. n - 1  PROVE ~Less(u[i + 1].name, u[i].name)
  <2>1. i \in 1 .. n /\ i + 1 \in 1 .. n  OBVIOUS
  <2>2. ~Less(out[i + 1].name, out[i].name)  BY <1>1 DEF HeadSorted
  <2>. QED  BY <1>2, <2>1, <2>2
<1>. QED  BY <1>1, <1>3, <1>4, <1>5 DEF HeadSorted

LEMMA TrailerStep ==
  ASSUME NEW m, NEW b, NEW e, NEW U, NEW E, NEW B, NEW T, BehindHead(m, b, e, U, E, B, T),
         InTrailers(m, e, B, T)
  PROVE  Still(m, e, B, T)
<1>1. PICK x \in 0 .. T :
        /\ pos = e + 2 * B + 1 + x
        /\ FieldsAt(m.trailers, x, Len(m.fields), fields_, state_field_value_)
  BY DEF InTrailers
<1>2. /\ e \in Nat /\ B \in Nat /\ T \in Nat /\ m.chunked /\ B = Len(m.body) /\ m \in Request
      /\ BodyAt(m, B) /\ T = LineEnd(m.trailers)[Len(m.trailers)] /\ IsBody(Wire, e, m)
      /\ CodecInv /\ pos < got /\ Parse /\ ~of_message_complete
      /\ headers_completed_ = TRUE /\ strurl_ = m.url /\ HeadSorted(m, fields_)
  BY DEF BehindHead, InTrailers, LaidOut
<1>3. PICK fs \in Seq(Field) : fs = m.trailers  BY <1>2, RequestTypes
<1>4. PICK P \in Nat : P = Len(m.fields)  BY <1>2, RequestTypes
<1>5. PICK c \in Nat : c = e + 2 * B + 1 /\ pos = c + x
  <2>1. e + 2 * B + 1 \in Nat  BY <1>2
  <2>. QED  BY <1>1, <2>1
<1>6. AreLines(Wire, c, fs) /\ Wire[e + 2 * B + 2 + T].k = "skip"
  BY <1>2, <1>3, <1>5 DEF IsBody
<1>7. x \in Nat /\ x <= T  BY <1>1, <1>2
<1>8. CASE x < T
  <2>1. Ahead  BY <1>2, WireFacts DEF Ahead, CodecInv, WhereInv
  <2>2. Moved(c, fs, P, x) /\ RestKept
    <3>1. error = FALSE  BY <1>2 DEF CodecInv
    <3>2. FieldsAt(fs, x, P, fields_, state_field_value_)  BY <1>1, <1>3, <1>4
    <3>3. x < LineEnd(fs)[Len(fs)]  BY <1>2, <1>3, <1>8
    <3>. QED  BY <1>2, <1>3, <1>4, <1>5, <1>6, <1>7, <2>1, <3>1, <3>2, <3>3, LinesStep
  <2>3. /\ strurl_' = strurl_ /\ got' = got /\ where' = where /\ txn' = txn
        /\ bodybf_' = bodybf_ /\ bodysz_' = bodysz_
        /\ headers_completed_' = headers_completed_ /\ message_completed_' = message_completed_
    BY <2>2 DEF RestKept, connVars
  <2>4. PICK z \in Nat : /\ x < z /\ z <= LineEnd(fs)[Len(fs)] /\ pos' = c + z /\ c + z <= got
                         /\ FieldsAt(fs, z, P, fields_', state_field_value_')
    BY <2>2 DEF Moved
  <2>5. /\ fields_' \in Seq(Field) /\ error' = FALSE /\ state_field_value_' \in BOOLEAN
        /\ Kept(P, fields_, fields_')
    BY <2>2 DEF Moved, Kept
  <2>6. z \in Nat /\ x < z /\ z <= T /\ T \in Nat  BY <1>2, <1>3, <2>4
  <2>7. z \in 0 .. T /\ c + z \in Nat /\ c + x <= c + z  BY <1>5, <1>7, <2>6
  <2>8. InTrailers(m, e, B, T)'
    <3>1. BodyAt(m, B)'  BY <1>2, <2>3 DEF BodyAt
    <3>2. pos' = e + 2 * B + 1 + z  BY <1>5, <2>4
    <3>3. FieldsAt(m.trailers, z, Len(m.fields), fields_', state_field_value_')
      BY <1>3, <1>4, <2>4
    <3>. QED  BY <1>2, <2>7, <3>1, <3>2, <3>3 DEF InTrailers
  <2>9. HeadSorted(m, fields_')
    <3>1. P <= Len(fields_')  BY <1>3, <1>4, <2>4, FieldsLen
    <3>. QED  BY <1>2, <1>4, <2>5, <3>1, SortedKept
  <2>10. ParserKeeps  BY <1>5, <2>3, <2>4, <2>5, <2>7 DEF ParserKeeps
  <2>. QED  BY <1>2, <1>4, <2>3, <2>5, <2>8, <2>9, <2>10 DEF Still
<1>9. CASE ~(x < T)
  <2>1. x = T  BY <1>2, <1>7, <1>9
  <2>2. pos + 1 = e + 2 * B + 2 + T
    <3>1. \A p, q, g \in Nat : p + 2 * q + 1 + g + 1 = p + 2 * q + 2 + g  OBVIOUS
    <3>. QED  BY <1>1, <1>2, <2>1, <3>1
  <2>3. skip  BY <1>2, <1>6, <2>2, Acts
  <2>4. /\ ParserKeeps /\ pos' = pos + 1 /\ headers_completed_' = TRUE
        /\ strurl_' = m.url /\ HeadSorted(m, fields_')
        /\ fields_' = fields_ /\ BodyAt(m, B)' /\ Kept(Len(m.fields), fields_, fields_')
    BY <1>2, <2>3, SkipStep
  <2>5. AllThere(fs, P, fields_, state_field_value_)
    <3>1. FieldsAt(fs, T, P, fields_, state_field_value_) /\ T = LineEnd(fs)[Len(fs)]
      BY <1>1, <1>2, <1>3, <1>4, <2>1
    <3>2. fs \in Seq(Field) /\ P \in Nat  BY <1>3, <1>4
    <3>. QED  BY <3>1, <3>2, AllLines
  <2>6. Whole(m.trailers, Len(m.trailers), Len(m.fields), fields_')
    BY <1>3, <1>4, <2>4, <2>5 DEF AllThere
  <2>7. AtEnd(m, e, B, T)'  BY <1>2, <2>2, <2>4, <2>6 DEF AtEnd
  <2>. QED  BY <2>4, <2>7 DEF Still
<1>. QED  BY <1>8, <1>9

LEMMA DoneStep ==
  ASSUME CodecInv, headers_completed_ = TRUE, message_completed_ = FALSE, parse_body,
         ~of_message_complete
  PROVE  /\ ParserKeeps /\ RequestInv' /\ headers_completed_' = TRUE /\ strurl_' = strurl_
         /\ Kept(Len(Stream[txn].fields), fields_, fields_')
<1>1. PICK m \in Request : m = Stream[txn]  BY StreamTypes DEF CodecInv
<1>2. Parse /\ pos < got /\ Wire[pos + 1].k # "url"  BY BodyActs DEF Parse
<1>4. ASSUME NEW b \in Nat, NEW e \in Nat, NEW U \in Nat, NEW E \in Nat, NEW B \in Nat,
             NEW T \in Nat, LaidOut(txn, b, e, U, E, B, T)
      PROVE  Still(m, e, B, T)
  <2>1. HeadersDone(m, e, B, T)  BY <1>1, <1>4 DEF CodecInv, RequestInv
  <2>2. BehindHead(m, b, e, U, E, B, T)
    BY <1>1, <1>2, <1>4, <2>1 DEF HeadersDone, BehindHead
  <2>3. ~AtEnd(m, e, B, T)
    <3>1. ASSUME m.chunked  PROVE MsgEnd[txn] = e + 2 * B + 2 + T
      BY <1>1, <1>4, <3>1 DEF LaidOut
    <3>. QED  BY <2>2, <3>1, NotAtEnd DEF AtEnd
  <2>4. \/ AtHead(m, e) \/ InPlain(m, e, B) \/ InChunks(m, e, B) \/ InTrailers(m, e, B, T)
    BY <2>1, <2>3 DEF HeadersDone
  <2>. QED  BY <2>2, <2>4, HeadStep, PlainStep, ChunkStep, TrailerStep
<1>5. \E b, e, U, E, B, T \in Nat : LaidOut(txn, b, e, U, E, B, T)  BY RequestAt DEF CodecInv
<1>6. /\ ParserKeeps /\ headers_completed_' = TRUE /\ strurl_' = m.url
      /\ Kept(Len(m.fields), fields_, fields_')
  BY <1>4, <1>5 DEF Still
<1>9. strurl_ = m.url  BY <1>1, <1>5 DEF CodecInv, RequestInv, HeadersDone
<1>7. txn' = txn /\ message_completed_' = FALSE  BY <1>6 DEF ParserKeeps
<1>8. ASSUME NEW b \in Nat, NEW e \in Nat, NEW U \in Nat, NEW E \in Nat, NEW B \in Nat,
             NEW T \in Nat, LaidOut(txn, b, e, U, E, B, T)
      PROVE  HeadersDone(m, e, B, T)'
  <2>1. Still(m, e, B, T)  BY <1>4, <1>8
  <2>2. HeadSorted(m, fields_)'  BY <2>1 DEF Still, HeadSorted
  <2>. QED  BY <1>7, <2>1, <2>2 DEF Still, HeadersDone
<1>. QED  BY <1>1, <1>6, <1>7, <1>8, <1>9 DEF RequestInv

LEMMA ParserInv ==
  ASSUME CodecInv, ParserKeeps, RequestInv', headers_completed_' \in BOOLEAN
  PROVE  CodecInv'
<1>1. WhereInv'  BY ParseWhere DEF CodecInv, ParserKeeps
<1>. QED  BY <1>1 DEF CodecInv, ParserKeeps

LEMMA OpenBoolean ==
  ASSUME parse_header, headers_completed_ = FALSE
  PROVE  headers_completed_' \in BOOLEAN
BY DEF parse_header, of_url, of_header_field, of_header_value, of_headers_complete, skip, requestVars

LEMMA CompleteStep ==
  ASSUME CodecInv, of_message_complete
  PROVE  CodecInv'
<1>1. /\ pos' = pos /\ strurl_' = strurl_ /\ got' = got /\ where' = where /\ txn' = txn
      /\ fields_' = fields_ /\ bodybf_' = bodybf_ /\ bodysz_' = bodysz_
      /\ headers_completed_' = headers_completed_ /\ message_completed_' = TRUE
      /\ state_field_value_' = state_field_value_ /\ error' = error
      /\ headers_completed_ /\ pos = MsgEnd[txn]
  BY DEF of_message_complete, connVars
<1>2. WhereInv'  BY <1>1 DEF CodecInv, WhereInv
<1>3. headers_completed_ = TRUE  BY <1>1 DEF CodecInv
<1>4. ASSUME NEW m, NEW e, NEW B, NEW T, HeadersDone(m, e, B, T)  PROVE HeadersDone(m, e, B, T)'
  BY <1>1, <1>4 DEF HeadersDone, HeadSorted, AtHead, InPlain, InChunks, InTrailers, AtEnd, NoTrailer,
                    BodyAt
<1>5. RequestInv'  BY <1>1, <1>3, <1>4 DEF CodecInv, RequestInv
<1>. QED  BY <1>1, <1>2, <1>5 DEF CodecInv

LEMMA ReadKeeps ==
  ASSUME WhereInv, NEW n \in 1 .. iobuf_size, read_some(n)
  PROVE  /\ Len(where) \in Nat /\ Len(where') \in Nat /\ Len(where) <= Len(where')
         /\ \A q \in 1 .. Len(where) : where'[q] = where[q]
<1>1. PICK new : where' = where \o new /\ new = [i \in 1 .. n |-> Behind(NextPlace, i - 1)]
  BY DEF read_some
<1>2. n \in Nat /\ where \in Seq(Place)  BY BufferAssumption DEF WhereInv
<1>3. PICK S : \A i \in 1 .. n : Behind(NextPlace, i - 1) \in S
  <2>1. \A i \in 1 .. n : Behind(NextPlace, i - 1) \in {Behind(NextPlace, j - 1) : j \in 1 .. n}
    OBVIOUS
  <2>. QED  BY <2>1
<1>4. new \in [1 .. n -> S]  BY <1>1, <1>3
<1>5. new \in Seq(S) /\ Len(new) = n  BY <1>2, <1>4, Tabulated
<1>6. PICK R : where \in Seq(R) /\ new \in Seq(R)
  <2>1. where \in Seq(Place \cup S) /\ new \in Seq(Place \cup S)  BY <1>2, <1>5
  <2>. QED  BY <2>1
<1>7. Appends(R, where, new, where')  BY <1>1, <1>6, ConcatAppends
<1>8. Len(where) \in Nat  BY <1>2
<1>. QED  BY <1>2, <1>5, <1>7, <1>8 DEF Appends

\* Nothing but the bytes received and their places changes.
SameRequest ==
  /\ pos' = pos /\ strurl_' = strurl_ /\ txn' = txn
  /\ fields_' = fields_ /\ bodybf_' = bodybf_ /\ bodysz_' = bodysz_
  /\ headers_completed_' = headers_completed_ /\ message_completed_' = message_completed_
  /\ state_field_value_' = state_field_value_ /\ error' = error
WhereGrows ==
  /\ Len(where) \in Nat /\ Len(where') \in Nat /\ Len(where) <= Len(where')
  /\ \A q \in 1 .. Len(where) : where'[q] = where[q]

LEMMA RequestKept ==
  ASSUME CodecInv, WhereInv', SameRequest, WhereGrows
  PROVE  CodecInv'
<1>1. /\ pos' = pos /\ strurl_' = strurl_ /\ txn' = txn
      /\ fields_' = fields_ /\ bodybf_' = bodybf_ /\ bodysz_' = bodysz_
      /\ headers_completed_' = headers_completed_ /\ message_completed_' = message_completed_
      /\ state_field_value_' = state_field_value_ /\ error' = error
  BY DEF SameRequest
<1>4. /\ Len(where) \in Nat /\ Len(where') \in Nat /\ Len(where) <= Len(where')
      /\ \A q \in 1 .. Len(where) : where'[q] = where[q]
  BY DEF WhereGrows
<1>5. ASSUME NEW m, NEW k, BodyAt(m, k)  PROVE BodyAt(m, k)'
  BY <1>1, <1>4, <1>5, HeldLonger DEF BodyAt
<1>6. ASSUME NEW m, NEW b, NEW U, NEW E, HeadersOpen(m, b, U, E)  PROVE HeadersOpen(m, b, U, E)'
  BY <1>1, <1>6 DEF HeadersOpen, InUrl, InFields
<1>7. ASSUME NEW m, NEW e, NEW B, NEW T, HeadersDone(m, e, B, T)  PROVE HeadersDone(m, e, B, T)'
  <2>1. NoTrailer(m) => NoTrailer(m)'  BY <1>1 DEF NoTrailer
  <2>2. AtHead(m, e) => AtHead(m, e)'  BY <1>1, <1>5, <2>1 DEF AtHead
  <2>3. InPlain(m, e, B) => InPlain(m, e, B)'  BY <1>1, <1>5, <2>1 DEF InPlain
  <2>4. InChunks(m, e, B) => InChunks(m, e, B)'  BY <1>1, <1>5, <2>1 DEF InChunks
  <2>5. InTrailers(m, e, B, T) => InTrailers(m, e, B, T)'  BY <1>1, <1>5 DEF InTrailers
  <2>6. AtEnd(m, e, B, T) => AtEnd(m, e, B, T)'  BY <1>1, <1>5 DEF AtEnd
  <2>7. HeadSorted(m, fields_) => HeadSorted(m, fields_)'  BY <1>1 DEF HeadSorted
  <2>. QED  BY <1>1, <1>7, <2>2, <2>3, <2>4, <2>5, <2>6, <2>7 DEF HeadersDone
<1>8. RequestInv'  BY <1>1, <1>6, <1>7 DEF CodecInv, RequestInv
<1>. QED  BY <1>1, <1>8 DEF CodecInv

LEMMA ReadStep ==
  ASSUME CodecInv, NEW n \in 1 .. iobuf_size, read_some(n)
  PROVE  CodecInv'
<1>1. /\ pos' = pos /\ strurl_' = strurl_ /\ txn' = txn
      /\ fields_' = fields_ /\ bodybf_' = bodybf_ /\ bodysz_' = bodysz_
      /\ headers_completed_' = headers_completed_ /\ message_completed_' = message_completed_
      /\ state_field_value_' = state_field_value_ /\ error' = error
  BY DEF read_some, requestVars
<1>2. WhereInv'  BY ReadWhere DEF CodecInv
<1>4. /\ Len(where) \in Nat /\ Len(where') \in Nat /\ Len(where) <= Len(where')
      /\ \A q \in 1 .. Len(where) : where'[q] = where[q]
  BY ReadKeeps DEF CodecInv
<1>. QED  BY <1>1, <1>2, <1>4, RequestKept DEF SameRequest, WhereGrows

\* A new request at the place where the parser is.
LEMMA NewRequestInv ==
  ASSUME WhereInv', txn' \in 1 .. Len(Stream), pos' = MsgEnd[txn' - 1],
         NewRequest(strurl_', fields_', bodybf_', bodysz_', headers_completed_',
                    message_completed_', state_field_value_', error')
  PROVE  CodecInv'
<1>1. /\ strurl_' = <<>> /\ fields_' = <<>> /\ bodybf_' = <<>> /\ bodysz_' = 0
      /\ headers_completed_' = FALSE /\ message_completed_' = FALSE
      /\ state_field_value_' = TRUE /\ error' = FALSE
  BY DEF NewRequest
<1>2. PICK m \in Request : m = Stream[txn']  BY StreamTypes
<1>3. ASSUME NEW b \in Nat, NEW e \in Nat, NEW U \in Nat, NEW E \in Nat, NEW B \in Nat,
             NEW T \in Nat, LaidOut(txn', b, e, U, E, B, T)
      PROVE  HeadersOpen(m, b, U, E)'
  <2>1. b = MsgEnd[txn' - 1]  BY <1>3 DEF LaidOut
  <2>2. 0 \in 0 .. U /\ pos' = b + 0  BY <2>1
  <2>3. SubSeq(m.url, 1, 0) = <<>>  BY <1>2, RequestTypes, PrefixEnds
  <2>4. InUrl(m, b, U)'  BY <1>1, <2>2, <2>3 DEF InUrl
  <2>. QED  BY <1>1, <2>4 DEF HeadersOpen
<1>4. RequestInv'  BY <1>1, <1>2, <1>3 DEF RequestInv
<1>5. <<>> \in Seq(Field)  OBVIOUS
<1>. QED  BY <1>1, <1>4, <1>5 DEF CodecInv

LEMMA NextStep ==
  ASSUME CodecInv, headers_completed_ = TRUE, next_request
  PROVE  CodecInv'
<1>1. /\ message_completed_ /\ txn < Len(Stream) /\ txn' = txn + 1
      /\ got' = got /\ where' = where /\ pos' = pos
      /\ NewRequest(strurl_', fields_', bodybf_', bodysz_', headers_completed_',
                    message_completed_', state_field_value_', error')
  BY DEF next_request, connVars
<1>2. PICK n \in Nat : n = Len(Stream)  BY StreamTypes
<1>3. txn \in 1 .. n  BY <1>2 DEF CodecInv
<1>4. txn' \in 1 .. n /\ txn' - 1 = txn  BY <1>1, <1>2, <1>3
<1>5. WhereInv'  BY <1>1 DEF CodecInv, WhereInv
<1>6. pos = MsgEnd[txn]
  <2>1. \E b, e, U, E, B, T \in Nat : LaidOut(txn, b, e, U, E, B, T)  BY <1>2, <1>3, RequestAt
  <2>. QED  BY <1>1, <2>1 DEF CodecInv, RequestInv, HeadersDone
<1>. QED  BY <1>1, <1>2, <1>4, <1>5, <1>6, NewRequestInv

LEMMA CodecStarts ==
  ASSUME CodecInit
  PROVE  CodecInv
<1>1. /\ strurl_ = <<>> /\ fields_ = <<>> /\ bodybf_ = <<>> /\ bodysz_ = 0
      /\ headers_completed_ = FALSE /\ message_completed_ = FALSE
      /\ state_field_value_ = TRUE /\ error = FALSE
      /\ got = 0 /\ where = <<>> /\ pos = 0 /\ txn = 1
  BY DEF CodecInit, NewRequest
<1>2. PICK n \in Nat : n = Len(Stream) /\ n # 0  BY StreamTypes
<1>3. txn \in 1 .. n /\ txn - 1 = 0  BY <1>1, <1>2
<1>4. PICK m \in Request : m = Stream[txn]  BY <1>2, <1>3, StreamTypes
<1>5. WhereInv
  <2>1. Len(Wire) \in Nat  BY WireFacts
  <2>2. where \in Seq(Place) /\ Len(where) = 0  BY <1>1
  <2>. QED  BY <1>1, <2>1, <2>2 DEF WhereInv
<1>6. ASSUME NEW b \in Nat, NEW e \in Nat, NEW U \in Nat, NEW E \in Nat, NEW B \in Nat,
             NEW T \in Nat, LaidOut(txn, b, e, U, E, B, T)
      PROVE  HeadersOpen(m, b, U, E)
  <2>1. b = MsgEnd[0]  BY <1>3, <1>6 DEF LaidOut
  <2>2. 0 \in 0 .. U /\ pos = b + 0  BY <1>1, <2>1, MsgEndFacts
  <2>3. SubSeq(m.url, 1, 0) = <<>>  BY <1>4, RequestTypes, PrefixEnds
  <2>4. InUrl(m, b, U)  BY <1>1, <2>2, <2>3 DEF InUrl
  <2>. QED  BY <1>1, <2>4 DEF HeadersOpen
<1>7. RequestInv  BY <1>1, <1>4, <1>6 DEF RequestInv
<1>8. <<>> \in Seq(Field)  OBVIOUS
<1>. QED  BY <1>1, <1>2, <1>3, <1>5, <1>7, <1>8 DEF CodecInv
-----------------------------------------------------------------------------
(* What a handler sees *)

\* The header with the first n of the fields out.
HeaderOf(url, out, n) == <<[url |-> url, fields |-> [i \in 1 .. n |-> out[i]]]>>

LEMMA LeastOf ==
  ASSUME NEW a \in Nat, NEW b \in Nat, a <= b
  PROVE  Min({a, b}) = a
<1>1. PICK x : x = Min({a, b})  OBVIOUS
<1>2. x \in {a, b} /\ \A j \in {a, b} : x <= j  BY <1>1, MinIsLeast
<1>3. x = a  BY <1>2
<1>. QED  BY <1>1, <1>3

IsSeen == /\ SeenHeader = HeaderOf(Stream[txn].url, fields_, Len(Stream[txn].fields))
          /\ HeadSorted(Stream[txn], fields_) /\ strurl_ = Stream[txn].url

LEMMA HeaderSeen ==
  CodecInv /\ headers_completed_ = TRUE => IsSeen
<1>. SUFFICES ASSUME CodecInv, headers_completed_ = TRUE  PROVE IsSeen
  OBVIOUS
<1>1. PICK m \in Request : m = Stream[txn]  BY StreamTypes DEF CodecInv
<1>2. \E b, e, U, E, B, T \in Nat : LaidOut(txn, b, e, U, E, B, T)  BY RequestAt DEF CodecInv
<1>3. HeadSorted(m, fields_) /\ strurl_ = m.url
  BY <1>1, <1>2 DEF CodecInv, RequestInv, HeadersDone
<1>4. Len(m.fields) \in Nat /\ Len(fields_) \in Nat /\ Len(m.fields) <= Len(fields_)
  BY <1>1, <1>3, RequestTypes DEF CodecInv, HeadSorted
<1>5. Min({Sent, Received}) = Len(m.fields)  BY <1>1, <1>4, LeastOf DEF Sent, Received
<1>. QED  BY <1>1, <1>3, <1>5 DEF SeenHeader, HeaderOf, IsSeen

\* The header is seen as before while its fields are kept.
LEMMA HeaderKept ==
  ASSUME CodecInv, CodecInv', headers_completed_ = TRUE, headers_completed_' = TRUE, txn' = txn,
         \A i \in 1 .. Len(Stream[txn].fields) : fields_'[i] = fields_[i]
  PROVE  SeenHeader' = SeenHeader
<1>1. PICK m : m = Stream[txn]  OBVIOUS
<1>2. SeenHeader = HeaderOf(m.url, fields_, Len(m.fields))  BY <1>1, HeaderSeen DEF IsSeen
<1>3. SeenHeader' = HeaderOf(m.url, fields_', Len(m.fields))
  <2>0. (headers_completed_ = TRUE)'  OBVIOUS
  <2>1. IsSeen'  BY <2>0, HeaderSeen, PTL
  <2>2. SeenHeader' = HeaderOf(Stream[txn'].url, fields_', Len(Stream[txn'].fields))
    BY <2>1 DEF IsSeen, HeaderOf
  <2>. QED  BY <1>1, <2>2
<1>4. [i \in 1 .. Len(m.fields) |-> fields_'[i]] = [i \in 1 .. Len(m.fields) |-> fields_[i]]
  BY <1>1
<1>. QED  BY <1>2, <1>3, <1>4 DEF HeaderOf

\* The fields of the header are those sent, each as often.
LEMMA SortedSame ==
  ASSUME NEW m \in Request, NEW out, HeadSorted(m, out),
         NEW fs, fs = [i \in 1 .. Len(m.fields) |-> out[i]]
  PROVE  Delivery!SameFields(fs, m.fields)
<1>1. PICK gs : gs = m.fields  OBVIOUS
<1>2. PICK n \in Nat : n = Len(gs) /\ DOMAIN gs = 1 .. n
  <2>1. gs \in Seq(Field)  BY <1>1, RequestTypes
  <2>. QED  BY <2>1
<1>3. PICK p \in Bijection(1 .. n, 1 .. n) : \A i \in 1 .. n : out[i] = gs[p[i]]
  BY <1>1, <1>2 DEF HeadSorted
<1>4. DOMAIN fs = 1 .. n /\ \A i \in 1 .. n : fs[i] = gs[p[i]]  BY <1>1, <1>2, <1>3
<1>5. ASSUME NEW f
      PROVE  Cardinality({i \in DOMAIN fs : fs[i] = f}) = Cardinality({i \in DOMAIN gs : gs[i] = f})
  <2>1. PICK S : S = {i \in 1 .. n : fs[i] = f}  OBVIOUS
  <2>2. PICK R : R = {i \in 1 .. n : gs[i] = f}  OBVIOUS
  <2>3. PICK q : q = [i \in S |-> p[i]]  OBVIOUS
  <2>4. /\ p \in [1 .. n -> 1 .. n]
        /\ \A i, j \in 1 .. n : p[i] = p[j] => i = j
        /\ \A j \in 1 .. n : \E i \in 1 .. n : p[i] = j
    BY <1>3 DEF Bijection, Injection, Surjection, IsInjective
  <2>5. q \in [S -> R]  BY <1>4, <2>1, <2>2, <2>3, <2>4
  <2>6. \A i, j \in S : q[i] = q[j] => i = j  BY <2>1, <2>3, <2>4
  <2>7. \A j \in R : \E i \in S : q[i] = j
    <3>. SUFFICES ASSUME NEW j \in R  PROVE \E i \in S : q[i] = j
      OBVIOUS
    <3>1. j \in 1 .. n /\ gs[j] = f  BY <2>2
    <3>2. PICK i \in 1 .. n : p[i] = j  BY <2>4, <3>1
    <3>3. i \in S  BY <1>4, <2>1, <3>1, <3>2
    <3>. QED  BY <2>3, <3>2, <3>3
  <2>8. q \in Bijection(S, R)  BY <2>5, <2>6, <2>7 DEF Bijection, Injection, Surjection, IsInjective
  <2>9. IsFiniteSet(S)
    <3>1. IsFiniteSet(1 .. n)  BY FS_Interval
    <3>2. S \subseteq 1 .. n  BY <2>1
    <3>. QED  BY <3>1, <3>2, FS_Subset
  <2>10. Cardinality(R) = Cardinality(S)  BY <2>8, <2>9, FS_Bijection DEF ExistsBijection
  <2>. QED  BY <1>2, <1>4, <2>1, <2>2, <2>10
<1>6. \A f : Cardinality({i \in DOMAIN fs : fs[i] = f}) = Cardinality({i \in DOMAIN gs : gs[i] = f})
  BY <1>5
<1>7. \A S : Delivery!Cardinality(S) = Cardinality(S)  BY DEF Delivery!Cardinality, Cardinality
<1>8. Delivery!SameFields(fs, gs)  BY ONLY <1>6, <1>7 DEF Delivery!SameFields
<1>. QED  BY <1>1, <1>8

\* At the end of the message all of its body and trailers is there.
AllOf(m) ==
  /\ HeldBy(where, bodybf_, m.body, Len(m.body)) /\ bodysz_ = Len(m.body)
  /\ Whole(m.trailers, Len(m.trailers), Len(m.fields), fields_)

LEMMA AtMessageEnd ==
  ASSUME CodecInv, headers_completed_ = TRUE, pos = MsgEnd[txn]
  PROVE  AllOf(Stream[txn])
<1>1. PICK m \in Request : m = Stream[txn]  BY StreamTypes DEF CodecInv
<1>2. PICK b \in Nat, e \in Nat, U \in Nat, E \in Nat, B \in Nat, T \in Nat :
        LaidOut(txn, b, e, U, E, B, T)
  BY RequestAt DEF CodecInv
<1>3. HeadersDone(m, e, B, T)  BY <1>1, <1>2 DEF CodecInv, RequestInv
<1>4. /\ B = Len(m.body) /\ (m.chunked => pos = e + 2 * B + 2 + T) /\ (~m.chunked => pos = e + B)
      /\ m.chunked \in BOOLEAN
  BY <1>1, <1>2, RequestTypes DEF LaidOut
<1>5. e \in Nat /\ B \in Nat /\ T \in Nat  BY <1>2
<1>6. ~AtHead(m, e)
  <2>1. \A p, q, g \in Nat : p + q + 1 # p /\ p + 2 * q + 2 + g + 1 # p  OBVIOUS
  <2>. QED  BY <1>4, <1>5, <2>1 DEF AtHead
<1>7. ~InChunks(m, e, B)
  <2>1. \A p, q, g \in Nat : \A i \in 0 .. q : /\ p + 2 * q + 2 + g # p + 2 * i
                                              /\ p + 2 * q + 2 + g # p + 2 * i + 1
    OBVIOUS
  <2>. QED  BY <1>4, <1>5, <2>1 DEF InChunks
<1>8. ~InTrailers(m, e, B, T)
  <2>1. \A p, q, g \in Nat : \A x \in 0 .. g : p + 2 * q + 2 + g # p + 2 * q + 1 + x
    OBVIOUS
  <2>. QED  BY <1>4, <1>5, <2>1 DEF InTrailers
<1>9. CASE AtEnd(m, e, B, T)
  BY <1>1, <1>4, <1>9 DEF AtEnd, BodyAt, AllOf
<1>10. CASE InPlain(m, e, B)
  <2>1. PICK y \in 0 .. B : pos = e + y /\ BodyAt(m, y)  BY <1>10 DEF InPlain
  <2>2. ~m.chunked /\ NoTrailer(m)  BY <1>10 DEF InPlain
  <2>3. y = B
    <3>1. \A p, q \in Nat : \A i \in 0 .. q : p + q = p + i => i = q  OBVIOUS
    <3>2. e + B = e + y  BY <1>4, <2>1, <2>2
    <3>. QED  BY <1>5, <2>1, <3>1, <3>2
  <2>4. m.trailers = <<>>
    <3>1. txn \in DOMAIN Stream  BY StreamTypes DEF CodecInv
    <3>. QED  BY <1>1, <2>2, <3>1, StreamAssumption
  <2>5. Len(fields_) = Len(m.fields) /\ Len(m.fields) \in Nat  BY <1>1, <2>2, RequestTypes DEF NoTrailer
  <2>6. Whole(m.trailers, Len(m.trailers), Len(m.fields), fields_)
    <3>1. PICK n \in Nat : n = Len(m.fields)  BY <2>5
    <3>2. Len(m.trailers) = 0 /\ n + 0 = n /\ 1 .. 0 = {}  BY <2>4, <3>1
    <3>. QED  BY <2>5, <3>1, <3>2 DEF Whole
  <2>. QED  BY <1>1, <1>4, <2>1, <2>3, <2>6 DEF BodyAt, AllOf
<1>. QED  BY <1>3, <1>6, <1>7, <1>8, <1>9, <1>10 DEF HeadersDone

BodyOf(m) == <<[bytes |-> m.body, size |-> Len(m.body), trailers |-> m.trailers]>>

LEMMA BodySeen ==
  CodecInv /\ AllOf(Stream[txn]) /\ message_completed_ = TRUE => SeenBody = BodyOf(Stream[txn])
<1>. SUFFICES ASSUME CodecInv, AllOf(Stream[txn]), message_completed_ = TRUE
              PROVE  SeenBody = BodyOf(Stream[txn])
  OBVIOUS
<1>1. PICK m \in Request : m = Stream[txn]  BY StreamTypes DEF CodecInv
<1>2. FlattenSeq([s \in DOMAIN bodybf_ |-> InMemory(bodybf_[s])]) = m.body
  <2>1. HeldBy(where, bodybf_, m.body, Len(m.body)) /\ WhereInv /\ m.body \in Text
    BY <1>1, RequestTypes DEF AllOf, CodecInv
  <2>. QED  BY <2>1, BodyInMemory
<1>3. bodysz_ = Len(m.body)  BY <1>1 DEF AllOf
<1>4. [i \in 1 .. Received - Sent |-> fields_[Sent + i]] = m.trailers
  <2>1. PICK ts \in Seq(Field) : ts = m.trailers  BY <1>1, RequestTypes
  <2>2. PICK P \in Nat : P = Len(m.fields)  BY <1>1, RequestTypes
  <2>3. PICK n \in Nat : n = Len(ts)  BY <2>1
  <2>4. Len(fields_) = P + n /\ \A i \in 1 .. n : fields_[P + i] = ts[i]
    BY <1>1, <2>1, <2>2, <2>3 DEF AllOf, Whole
  <2>5. Sent = P /\ Received = P + n  BY <1>1, <2>2, <2>4 DEF Sent, Received
  <2>6. P + n - P = n  BY <2>2, <2>3
  <2>7. [i \in 1 .. n |-> fields_[P + i]] = ts
    <3>1. ts = [i \in 1 .. n |-> ts[i]]  BY <2>1, <2>3
    <3>2. [i \in 1 .. n |-> fields_[P + i]] = [i \in 1 .. n |-> ts[i]]  BY <2>4
    <3>. QED  BY <3>1, <3>2
  <2>. QED  BY <2>1, <2>5, <2>6, <2>7
<1>. QED  BY <1>1, <1>2, <1>3, <1>4 DEF SeenBody, BodyOf

DeliveryInv == CodecInv /\ (stage = "body" => headers_completed_ = TRUE)

\* What a step of the connection is for the codec.
CodecStep ==
  \/ UNCHANGED codecVars
  \/ headers_completed_ = FALSE /\ parse_header
  \/ \E n \in 1 .. iobuf_size : read_some(n)
  \/ headers_completed_ = TRUE /\ message_completed_ = FALSE /\ parse_body /\ ~of_message_complete
  \/ of_message_complete
  \/ headers_completed_ = TRUE /\ next_request

LEMMA CodecSteps ==
  ASSUME DeliveryInv, [Next]_vars
  PROVE  CodecStep
<1>1. CASE load \/ start \/ http_connection \/ on_request_header \/ close \/ UNCHANGED vars
  BY <1>1 DEF load, start, http_connection, on_request_header, close, vars, CodecStep
<1>2. CASE receive_header
  <2>1. headers_completed_ = FALSE  BY <1>2 DEF receive_header, DeliveryInv, CodecInv
  <2>. QED  BY <1>2, <2>1 DEF receive_header, CodecStep
<1>3. CASE receive_body
  <2>1. headers_completed_ = TRUE /\ message_completed_ = FALSE
    BY <1>3 DEF receive_body, DeliveryInv, CodecInv
  <2>. QED  BY <1>3, <2>1 DEF receive_body, CodecStep
<1>4. CASE on_request_body
  BY <1>4 DEF on_request_body, DeliveryInv, CodecStep
<1>. QED  BY <1>1, <1>2, <1>3, <1>4 DEF Next

LEMMA CodecInvStep ==
  ASSUME CodecInv, CodecStep
  PROVE  CodecInv'
<1>1. CASE UNCHANGED codecVars
  <2>1. /\ pos' = pos /\ strurl_' = strurl_ /\ got' = got /\ where' = where /\ txn' = txn
        /\ fields_' = fields_ /\ bodybf_' = bodybf_ /\ bodysz_' = bodysz_
        /\ headers_completed_' = headers_completed_ /\ message_completed_' = message_completed_
        /\ state_field_value_' = state_field_value_ /\ error' = error
    BY <1>1 DEF codecVars, connVars, requestVars
  <2>2. WhereInv'  BY <2>1 DEF CodecInv, WhereInv
  <2>3. Len(where) \in Nat  BY DEF CodecInv, WhereInv
  <2>. QED  BY <2>1, <2>2, <2>3, RequestKept DEF SameRequest, WhereGrows
<1>2. CASE headers_completed_ = FALSE /\ parse_header
  BY <1>2, OpenStep, OpenBoolean, ParserInv
<1>3. CASE \E n \in 1 .. iobuf_size : read_some(n)
  BY <1>3, ReadStep
<1>4. CASE /\ headers_completed_ = TRUE /\ message_completed_ = FALSE /\ parse_body
           /\ ~of_message_complete
  BY <1>4, DoneStep, ParserInv
<1>5. CASE of_message_complete  BY <1>5, CompleteStep
<1>6. CASE headers_completed_ = TRUE /\ next_request  BY <1>6, NextStep
<1>. QED  BY <1>1, <1>2, <1>3, <1>4, <1>5, <1>6 DEF CodecStep

LEMMA DeliveryInvStep ==
  ASSUME DeliveryInv, [Next]_vars
  PROVE  DeliveryInv'
<1>1. CodecStep  BY CodecSteps
<1>2. CodecInv'  BY <1>1, CodecInvStep DEF DeliveryInv
<1>3. stage' = "body" => headers_completed_' = TRUE
  <2>. SUFFICES ASSUME stage' = "body"  PROVE headers_completed_' = TRUE
    OBVIOUS
  <2>1. CASE UNCHANGED vars
    BY <2>1 DEF vars, codecVars, requestVars, DeliveryInv
  <2>2. CASE Next
    <3>1. CASE receive_body
      <4>1. headers_completed_ = TRUE  BY <3>1 DEF receive_body, DeliveryInv
      <4>2. parse_body => headers_completed_' = headers_completed_
        BY DEF parse_body, of_header_field, of_header_value, of_body, of_message_complete, skip,
               requestVars
      <4>3. \A n \in 1 .. iobuf_size : read_some(n) => headers_completed_' = headers_completed_
        BY DEF read_some, requestVars
      <4>. QED  BY <3>1, <4>1, <4>2, <4>3 DEF receive_body
    <3>2. CASE on_request_header
      BY <3>2 DEF on_request_header, codecVars, requestVars, DeliveryInv, CodecInv
    <3>3. CASE load
      BY <3>3 DEF load
    <3>4. CASE receive_header
      BY <3>4 DEF receive_header
    <3>. QED  BY <2>2, <3>1, <3>2, <3>3, <3>4
         DEF Next, start, http_connection, on_request_body, close
  <2>. QED  BY <2>1, <2>2
<1>. QED  BY <1>2, <1>3 DEF DeliveryInv

LEMMA DeliveryInvariant == Spec => []DeliveryInv
<1>1. Init => DeliveryInv  BY CodecStarts DEF Init, DeliveryInv
<1>2. DeliveryInv /\ [Next]_vars => DeliveryInv'  BY DeliveryInvStep
<1>. QED  BY <1>1, <1>2, PTL DEF Spec

\* No callback refuses a text of a well-formed request: of_header_field() and
\* of_header_value() always have a field to add to.
THEOREM NothingRefused == Spec => []NoneRefused
<1>1. DeliveryInv => NoneRefused  BY DEF DeliveryInv, CodecInv, NoneRefused
<1>. QED  BY <1>1, DeliveryInvariant, PTL

Seen == <<txn, SeenHeader, SeenBody>>
DeliveryNext == Delivery!Header \/ Delivery!Body \/ Delivery!NextRequest

LEMMA OpenUnseen ==
  CodecInv /\ headers_completed_ = FALSE => /\ SeenHeader = <<>> /\ SeenBody = <<>>
                                            /\ message_completed_ = FALSE
<1>. SUFFICES ASSUME CodecInv, headers_completed_ = FALSE
              PROVE  SeenHeader = <<>> /\ SeenBody = <<>> /\ message_completed_ = FALSE
  OBVIOUS
<1>1. \E b, e, U, E, B, T \in Nat : LaidOut(txn, b, e, U, E, B, T)  BY RequestAt DEF CodecInv
<1>2. message_completed_ = FALSE  BY <1>1 DEF CodecInv, RequestInv, HeadersOpen
<1>. QED  BY <1>2 DEF SeenHeader, SeenBody

LEMMA HeaderDelivered ==
  ASSUME CodecInv, CodecInv', headers_completed_ = FALSE, parse_header
  PROVE  [DeliveryNext]_Seen
<1>1. ParserKeeps  BY OpenStep
<1>2. txn' = txn /\ message_completed_' = message_completed_  BY <1>1 DEF ParserKeeps
<1>3. SeenHeader = <<>> /\ SeenBody = <<>> /\ message_completed_ = FALSE  BY OpenUnseen
<1>4. SeenBody' = <<>>  BY <1>2, <1>3 DEF SeenBody
<1>5. CASE headers_completed_' = FALSE
  <2>1. SeenHeader' = <<>>  BY <1>5 DEF SeenHeader
  <2>. QED  BY <1>2, <1>3, <1>4, <2>1 DEF Seen
<1>6. CASE headers_completed_' = TRUE
  <2>0. (headers_completed_ = TRUE)'  BY <1>6
  <2>1. IsSeen'  BY <2>0, HeaderSeen, PTL
  <2>2. PICK m \in Request : m = Stream[txn]  BY StreamTypes DEF CodecInv
  <2>3. PICK fs : fs = [i \in 1 .. Len(m.fields) |-> fields_'[i]]  OBVIOUS
  <2>4. SeenHeader' = <<[url |-> m.url, fields |-> fs]>> /\ HeadSorted(m, fields_')
    BY <1>2, <2>1, <2>2, <2>3 DEF IsSeen, HeaderOf, HeadSorted
  <2>5. Delivery!SameFields(fs, m.fields)  BY <2>3, <2>4, SortedSame
  <2>6. /\ Len(SeenHeader') = 1 /\ SeenHeader'[1].url = m.url /\ SeenHeader'[1].fields = fs
    BY <2>4
  <2>7. txn <= Len(Stream)
    <3>1. Len(Stream) \in Nat /\ txn \in 1 .. Len(Stream)  BY StreamTypes DEF CodecInv
    <3>. QED  BY <3>1
  <2>8. Delivery!Header
    BY <1>2, <1>3, <1>4, <2>2, <2>5, <2>6, <2>7 DEF Delivery!Header
  <2>. QED  BY <2>8 DEF DeliveryNext
<1>7. headers_completed_' \in BOOLEAN  BY OpenBoolean
<1>. QED  BY <1>5, <1>6, <1>7

LEMMA ReadUnseen ==
  ASSUME CodecInv, CodecInv', NEW n \in 1 .. iobuf_size, read_some(n)
  PROVE  [DeliveryNext]_Seen
<1>1. /\ txn' = txn /\ fields_' = fields_ /\ strurl_' = strurl_
      /\ headers_completed_' = headers_completed_ /\ message_completed_' = message_completed_
      /\ ~message_completed_
  BY DEF read_some, requestVars, Reading, Parsing
<1>2. SeenBody' = SeenBody  BY <1>1 DEF SeenBody
<1>3. SeenHeader' = SeenHeader  BY <1>1 DEF SeenHeader, Sent, Received
<1>. QED  BY <1>1, <1>2, <1>3 DEF Seen

LEMMA RestUnseen ==
  ASSUME CodecInv, CodecInv', headers_completed_ = TRUE, message_completed_ = FALSE, parse_body,
         ~of_message_complete
  PROVE  [DeliveryNext]_Seen
<1>1. /\ ParserKeeps /\ headers_completed_' = TRUE /\ strurl_' = strurl_
      /\ Kept(Len(Stream[txn].fields), fields_, fields_')
  BY DoneStep
<1>2. txn' = txn /\ message_completed_' = message_completed_  BY <1>1 DEF ParserKeeps
<1>3. SeenBody' = SeenBody  BY <1>2 DEF SeenBody
<1>4. SeenHeader' = SeenHeader  BY <1>1, <1>2, HeaderKept DEF Kept
<1>. QED  BY <1>2, <1>3, <1>4 DEF Seen

LEMMA BodyDelivered ==
  ASSUME CodecInv, CodecInv', of_message_complete
  PROVE  [DeliveryNext]_Seen
<1>1. /\ pos' = pos /\ strurl_' = strurl_ /\ got' = got /\ where' = where /\ txn' = txn
      /\ fields_' = fields_ /\ bodybf_' = bodybf_ /\ bodysz_' = bodysz_
      /\ headers_completed_' = headers_completed_ /\ message_completed_' = TRUE
      /\ headers_completed_ /\ pos = MsgEnd[txn] /\ ~message_completed_
  BY DEF of_message_complete, connVars, Parsing
<1>2. headers_completed_ = TRUE  BY <1>1 DEF CodecInv
<1>3. AllOf(Stream[txn])  BY <1>1, <1>2, AtMessageEnd
<1>4. (CodecInv /\ AllOf(Stream[txn]) /\ message_completed_ = TRUE)'
  BY <1>1, <1>3 DEF AllOf
<1>5. (SeenBody = BodyOf(Stream[txn]))'  BY <1>4, BodySeen, PTL
<1>6. SeenBody' = BodyOf(Stream[txn])  BY <1>1, <1>5 DEF BodyOf
<1>7. SeenBody = <<>>  BY <1>1 DEF SeenBody
<1>8. SeenHeader' = SeenHeader  BY <1>1 DEF SeenHeader, Sent, Received
<1>9. SeenHeader # <<>>  BY <1>2, HeaderSeen DEF IsSeen, HeaderOf
<1>10. Delivery!Body  BY <1>1, <1>6, <1>7, <1>8, <1>9 DEF Delivery!Body, BodyOf
<1>. QED  BY <1>10 DEF DeliveryNext

LEMMA NextDelivered ==
  ASSUME CodecInv, CodecInv', headers_completed_ = TRUE, next_request
  PROVE  [DeliveryNext]_Seen
<1>1. /\ message_completed_ /\ txn' = txn + 1
      /\ headers_completed_' = FALSE /\ message_completed_' = FALSE
  BY DEF next_request, NewRequest
<1>2. SeenBody # <<>>  BY <1>1 DEF SeenBody
<1>3. SeenHeader' = <<>> /\ SeenBody' = <<>>  BY <1>1 DEF SeenHeader, SeenBody
<1>4. Delivery!NextRequest  BY <1>1, <1>2, <1>3 DEF Delivery!NextRequest
<1>. QED  BY <1>4 DEF DeliveryNext

\* http_codec and http_request deliver each request whole: whatever the reads and
\* the buffers, a handler sees the url, the fields of the header, each as often as it
\* was sent, then the bytes of the body where the slices point to and the trailers.
THEOREM DeliveryRefined == Spec => ImplementsDelivery
<1>1. Init => Delivery!Init
  BY DEF Init, CodecInit, NewRequest, Delivery!Init, SeenHeader, SeenBody
<1>2. DeliveryInv /\ DeliveryInv' /\ [Next]_vars =>
        [Delivery!Header \/ Delivery!Body \/ Delivery!NextRequest]_<<txn, SeenHeader, SeenBody>>
  <2>. SUFFICES ASSUME DeliveryInv, DeliveryInv', [Next]_vars  PROVE [DeliveryNext]_Seen
    BY DEF DeliveryNext, Seen
  <2>1. CodecInv /\ CodecInv' /\ CodecStep  BY CodecSteps DEF DeliveryInv
  <2>2. CASE UNCHANGED codecVars
    BY <2>2 DEF codecVars, connVars, requestVars, Seen, SeenHeader, SeenBody, Sent, Received,
                InMemory, Memory
  <2>3. CASE headers_completed_ = FALSE /\ parse_header  BY <2>1, <2>3, HeaderDelivered
  <2>4. CASE \E n \in 1 .. iobuf_size : read_some(n)  BY <2>1, <2>4, ReadUnseen
  <2>5. CASE /\ headers_completed_ = TRUE /\ message_completed_ = FALSE /\ parse_body
             /\ ~of_message_complete
    BY <2>1, <2>5, RestUnseen
  <2>6. CASE of_message_complete  BY <2>1, <2>6, BodyDelivered
  <2>7. CASE headers_completed_ = TRUE /\ next_request  BY <2>1, <2>7, NextDelivered
  <2>. QED  BY <2>1, <2>2, <2>3, <2>4, <2>5, <2>6, <2>7 DEF CodecStep
<1>. QED  BY <1>1, <1>2, DeliveryInvariant, PTL DEF Spec, ImplementsDelivery, Delivery!Spec
-----------------------------------------------------------------------------
(* The order of the names *)

LEMMA TextFacts ==
  ASSUME NEW a \in Text
  PROVE  Len(a) \in Nat /\ \A i \in 1 .. Len(a) : a[i] \in Nat
BY DEF Text

\* y agrees with x up to place l.
Agree(x, y, l) == l <= Len(y) /\ \A i \in 1 .. l : y[i] = x[i]

\* The first place up to l where y is not x.
Differ(x, y, d) == \/ d = Len(y) + 1
                   \/ d <= Len(y) /\ y[d] # x[d]

LEMMA FirstPlace ==
  ASSUME NEW x \in Text, NEW y \in Text, NEW l \in Nat, l <= Len(x), ~Agree(x, y, l)
  PROVE  \E d \in 1 .. l : Differ(x, y, d) /\ Agree(x, y, d - 1)
<1>1. PICK n \in Nat : n = Len(y)  BY TextFacts
<1>. DEFINE S == {i \in 1 .. l : i > n \/ y[i] # x[i]}
<1>2. S # {}
  <2>1. CASE n < l
    <3>1. l \in S  BY <1>1, <2>1
    <3>. QED  BY <3>1
  <2>2. CASE ~(n < l)
    <3>1. l <= n  BY <1>1, <2>2
    <3>2. PICK i \in 1 .. l : y[i] # x[i]  BY <1>1, <3>1 DEF Agree
    <3>3. i \in S  BY <3>2
    <3>. QED  BY <3>3
  <2>. QED  BY <2>1, <2>2
<1>3. S \in SUBSET Nat  OBVIOUS
<1>. HIDE DEF S
<1>4. PICK d : d \in S /\ \A j \in S : d <= j  BY <1>2, <1>3, MinIsLeast
<1>5. d \in 1 .. l /\ (d > n \/ y[d] # x[d])  BY <1>4 DEF S
<1>6. \A i \in 1 .. d - 1 : i <= n /\ y[i] = x[i]
  <2>. SUFFICES ASSUME NEW i \in 1 .. d - 1  PROVE i <= n /\ y[i] = x[i]
    OBVIOUS
  <2>1. i \in 1 .. l /\ ~(d <= i)  BY <1>5
  <2>2. i \notin S  BY <1>4, <2>1
  <2>. QED  BY <1>1, <2>1, <2>2 DEF S
<1>7. d - 1 <= n
  <2>1. CASE d = 1  BY <1>1, <2>1
  <2>2. CASE d # 1
    <3>1. d - 1 \in 1 .. d - 1  BY <1>5, <2>2
    <3>. QED  BY <1>6, <3>1
  <2>. QED  BY <2>1, <2>2
<1>8. d = n + 1 \/ (d <= n /\ y[d] # x[d])  BY <1>1, <1>5, <1>7
<1>. QED  BY <1>1, <1>5, <1>6, <1>7, <1>8 DEF Differ, Agree

\* A text that leaves x before x leaves z lies on one side of both.
LEMMA LeavesBefore ==
  ASSUME NEW x \in Text, NEW y \in Text, NEW z \in Text, NEW l \in Nat,
         l <= Len(x), l <= Len(z), \A i \in 1 .. l : x[i] = z[i], ~Agree(x, y, l)
  PROVE  Less(x, y) \/ Less(y, z)
<1>1. PICK a \in Nat : a = Len(x)  BY TextFacts
<1>2. PICK b \in Nat : b = Len(y)  BY TextFacts
<1>3. PICK c \in Nat : c = Len(z)  BY TextFacts
<1>4. PICK d \in 1 .. l : Differ(x, y, d) /\ Agree(x, y, d - 1)  BY FirstPlace
<1>5. d - 1 <= b /\ \A i \in 1 .. d - 1 : y[i] = x[i]  BY <1>2, <1>4 DEF Agree
<1>6. d <= a /\ d <= c /\ x[d] = z[d] /\ \A i \in 1 .. d - 1 : y[i] = z[i]
  <2>1. \A i \in 1 .. d - 1 : i \in 1 .. l  OBVIOUS
  <2>. QED  BY <1>1, <1>3, <1>5, <2>1
<1>7. CASE d = b + 1
  <2>1. b < c /\ d - 1 = b  BY <1>2, <1>3, <1>6, <1>7
  <2>. QED  BY <1>2, <1>3, <1>6, <2>1 DEF Less
<1>8. CASE d <= b /\ y[d] # x[d]
  <2>1. x[d] \in Nat /\ y[d] \in Nat
    <3>1. d \in 1 .. Len(x) /\ d \in 1 .. Len(y)  BY <1>1, <1>2, <1>6, <1>8
    <3>. QED  BY <3>1, TextFacts
  <2>2. x[d] < y[d] \/ y[d] < x[d]  BY <1>8, <2>1
  <2>3. CASE x[d] < y[d]
    <3>1. d \in 1 .. Len(y) /\ d <= Len(x) /\ \A j \in 1 .. d - 1 : x[j] = y[j]
      BY <1>1, <1>2, <1>5, <1>6, <1>8
    <3>. QED  BY <2>3, <3>1 DEF Less
  <2>4. CASE y[d] < x[d]
    <3>1. d \in 1 .. Len(z) /\ d <= Len(y) /\ y[d] < z[d]
      BY <1>2, <1>3, <1>6, <1>8, <2>4
    <3>. QED  BY <1>6, <3>1 DEF Less
  <2>. QED  BY <2>2, <2>3, <2>4
<1>. QED  BY <1>2, <1>4, <1>7, <1>8 DEF Differ

\* What lies between the two sides of a comparison is on the side of one of them.
LEMMA LessSplits ==
  ASSUME NEW x \in Text, NEW y \in Text, NEW z \in Text, Less(x, z)
  PROVE  Less(x, y) \/ Less(y, z)
<1>1. PICK a \in Nat : a = Len(x)  BY TextFacts
<1>2. PICK b \in Nat : b = Len(y)  BY TextFacts
<1>3. PICK c \in Nat : c = Len(z)  BY TextFacts
<1>4. ASSUME NEW i \in 1 .. c, i <= a, x[i] < z[i], \A j \in 1 .. i - 1 : x[j] = z[j]
      PROVE  Less(x, y) \/ Less(y, z)
  <2>1. PICK l \in Nat : l = i - 1 /\ l <= a /\ l <= c /\ l < c
    <3>1. i - 1 \in Nat /\ i - 1 <= a /\ i - 1 <= c /\ i - 1 < c  BY <1>1, <1>3, <1>4
    <3>. QED  BY <3>1
  <2>2. \A j \in 1 .. l : x[j] = z[j]  BY <1>4, <2>1
  <2>3. CASE ~Agree(x, y, l)  BY <1>1, <1>3, <2>1, <2>2, <2>3, LeavesBefore
  <2>4. CASE Agree(x, y, l)
    <3>1. l <= b /\ (\A j \in 1 .. l : y[j] = x[j]) /\ \A j \in 1 .. l : y[j] = z[j]
      BY <1>2, <2>2, <2>4 DEF Agree
    <3>2. CASE b = l
      BY <1>2, <1>3, <2>1, <3>1, <3>2 DEF Less
    <3>3. CASE b # l
      <4>1. i <= b /\ i \in 1 .. b /\ i \in 1 .. a /\ i \in 1 .. c
        <5>1. b \in Nat /\ l \in Nat /\ l <= b /\ b # l /\ l = i - 1 /\ i \in Nat /\ i >= 1
          BY <1>2, <1>3, <2>1, <3>1, <3>3
        <5>2. i <= b /\ i \in 1 .. b  BY <5>1
        <5>. QED  BY <1>1, <1>4, <5>1, <5>2
      <4>2. x[i] \in Nat /\ y[i] \in Nat /\ z[i] \in Nat  BY <1>1, <1>2, <1>3, <4>1, TextFacts
      <4>3. x[i] < y[i] \/ y[i] < z[i]  BY <1>4, <4>2
      <4>4. x[i] < y[i] => Less(x, y)
        BY <1>1, <1>2, <1>4, <2>1, <3>1, <4>1 DEF Less
      <4>5. y[i] < z[i] => Less(y, z)
        BY <1>2, <1>3, <2>1, <3>1, <4>1 DEF Less
      <4>. QED  BY <4>3, <4>4, <4>5
    <3>. QED  BY <3>2, <3>3
  <2>. QED  BY <2>3, <2>4
<1>5. ASSUME a < c, \A j \in 1 .. a : x[j] = z[j]
      PROVE  Less(x, y) \/ Less(y, z)
  <2>1. a <= a /\ a <= c  BY <1>1, <1>3, <1>5
  <2>2. CASE ~Agree(x, y, a)  BY <1>1, <1>3, <1>5, <2>1, <2>2, LeavesBefore
  <2>3. CASE Agree(x, y, a)
    <3>1. a <= b /\ (\A j \in 1 .. a : x[j] = y[j]) /\ \A j \in 1 .. a : y[j] = z[j]
      BY <1>2, <1>5, <2>3 DEF Agree
    <3>2. CASE a < b  BY <1>1, <1>2, <3>1, <3>2 DEF Less
    <3>3. CASE a = b  BY <1>2, <1>3, <1>5, <3>1, <3>3 DEF Less
    <3>. QED  BY <1>1, <1>2, <3>1, <3>2, <3>3
  <2>. QED  BY <2>2, <2>3
<1>. QED  BY <1>1, <1>3, <1>4, <1>5 DEF Less

LEMMA LessIrreflexive ==
  ASSUME NEW x \in Text
  PROVE  ~Less(x, x)
<1>1. Len(x) \in Nat /\ \A i \in 1 .. Len(x) : x[i] \in Nat  BY TextFacts
<1>. QED  BY <1>1 DEF Less

LEMMA LessTotal ==
  ASSUME NEW x \in Text, NEW y \in Text, ~Less(x, y), ~Less(y, x)
  PROVE  x = y
<1>1. PICK a \in Nat : a = Len(x)  BY TextFacts
<1>2. PICK b \in Nat : b = Len(y)  BY TextFacts
<1>3. Agree(x, y, a)  BY <1>1, LeavesBefore
<1>4. a <= b /\ \A i \in 1 .. a : y[i] = x[i]  BY <1>2, <1>3 DEF Agree
<1>5. ~(a < b)  BY <1>1, <1>2, <1>4 DEF Less
<1>6. a = b  BY <1>1, <1>2, <1>4, <1>5
<1>7. x = [i \in 1 .. a |-> x[i]] /\ y = [i \in 1 .. a |-> y[i]]
  <2>1. ASSUME NEW s \in Seq(Nat)  PROVE s = [i \in 1 .. Len(s) |-> s[i]]  OBVIOUS
  <2>2. x \in Seq(Nat) /\ y \in Seq(Nat)  BY DEF Text
  <2>3. x = [i \in 1 .. Len(x) |-> x[i]] /\ y = [i \in 1 .. Len(y) |-> y[i]]  BY <2>1, <2>2
  <2>. QED  BY <1>1, <1>2, <1>6, <2>3
<1>8. [i \in 1 .. a |-> x[i]] = [i \in 1 .. a |-> y[i]]  BY <1>4
<1>. QED  BY <1>7, <1>8
-----------------------------------------------------------------------------
(* lower_bound *)

LEMMA Halves ==
  ASSUME NEW n \in Nat, n # 0
  PROVE  /\ n \div 2 \in Nat /\ n \div 2 < n
         /\ n - (n \div 2) - 1 \in Nat /\ n - (n \div 2) - 1 < n
OBVIOUS

\* One turn of the search among the n fields from lo on; lb has the result for fewer.
Turn(fs, key, lb, n, lo) ==
  LET half == n \div 2
  IN  IF n = 0 \/ lo + half > Len(fs) THEN lo
      ELSE IF Less(fs[lo + half].name, key) THEN lb[n - half - 1][lo + half + 1]
      ELSE lb[half][lo]

Row(fs, key, lb, n) == [lo \in 1 .. Len(fs) + 1 |-> Turn(fs, key, lb, n, lo)]

\* lb has the results for up to k fields.
Searched(fs, key, k, lb) == lb = [n \in 0 .. k |-> Row(fs, key, lb, n)]

\* A turn uses the results for fewer fields only.
LEMMA TurnKept ==
  ASSUME NEW fs, NEW key, NEW f, NEW g, NEW n \in Nat, \A j \in Nat : j < n => f[j] = g[j]
  PROVE  Row(fs, key, f, n) = Row(fs, key, g, n)
<1>1. ASSUME NEW lo  PROVE Turn(fs, key, f, n, lo) = Turn(fs, key, g, n, lo)
  <2>1. CASE n = 0  BY <2>1 DEF Turn
  <2>2. CASE n # 0
    <3>1. PICK h : h = n \div 2  OBVIOUS
    <3>2. h \in Nat /\ h < n /\ n - h - 1 \in Nat /\ n - h - 1 < n  BY <2>2, <3>1, Halves
    <3>3. f[h] = g[h] /\ f[n - h - 1] = g[n - h - 1]  BY <3>2
    <3>. QED  BY <3>1, <3>3 DEF Turn
  <2>. QED  BY <2>1, <2>2
<1>. QED  BY <1>1 DEF Row

LEMMA SearchExists ==
  ASSUME NEW fs, NEW key, NEW N \in Nat
  PROVE  \E lb : Searched(fs, key, N, lb)
<1>. DEFINE G == {k \in Nat : \E lb : Searched(fs, key, k, lb)}
<1>1. 0 \in G
  <2>1. PICK g : g = [n \in 0 .. 0 |-> Row(fs, key, <<>>, n)]  OBVIOUS
  <2>2. ASSUME NEW n \in 0 .. 0  PROVE Row(fs, key, <<>>, n) = Row(fs, key, g, n)
    <3>1. n \in Nat /\ \A j \in Nat : ~(j < n)  BY <2>2
    <3>. QED  BY <3>1, TurnKept
  <2>3. Searched(fs, key, 0, g)  BY <2>1, <2>2 DEF Searched
  <2>. QED  BY <2>3
<1>2. ASSUME NEW k \in 0 .. N - 1, k \in G  PROVE k + 1 \in G
  <2>1. PICK f : Searched(fs, key, k, f)  BY <1>2
  <2>2. PICK g : g = [n \in 0 .. k + 1 |-> IF n <= k THEN f[n] ELSE Row(fs, key, f, n)]  OBVIOUS
  <2>3. \A n \in 0 .. k : f[n] = Row(fs, key, f, n)  BY <2>1 DEF Searched
  <2>4. \A n \in 0 .. k + 1 : g[n] = Row(fs, key, f, n)
    <3>1. \A n \in 0 .. k + 1 : n <= k => n \in 0 .. k  OBVIOUS
    <3>. QED  BY <2>2, <2>3, <3>1
  <2>5. ASSUME NEW n \in 0 .. k + 1  PROVE Row(fs, key, f, n) = Row(fs, key, g, n)
    <3>1. n \in Nat  OBVIOUS
    <3>2. ASSUME NEW j \in Nat, j < n  PROVE f[j] = g[j]
      <4>1. j \in 0 .. k /\ j \in 0 .. k + 1  BY <3>1, <3>2
      <4>. QED  BY <2>3, <2>4, <4>1
    <3>. QED  BY <3>1, <3>2, TurnKept
  <2>6. g = [n \in 0 .. k + 1 |-> g[n]]  BY <2>2
  <2>7. Searched(fs, key, k + 1, g)
    <3>1. [n \in 0 .. k + 1 |-> g[n]] = [n \in 0 .. k + 1 |-> Row(fs, key, g, n)]  BY <2>4, <2>5
    <3>. QED  BY <2>6, <3>1 DEF Searched
  <2>. QED  BY <2>7
<1>3. G \in SUBSET Nat  OBVIOUS
<1>4. \A k \in 0 .. N : k \in G
  <2>. HIDE DEF G
  <2>. QED  BY <1>1, <1>2, <1>3, Steps
<1>. QED  BY <1>4

LEMMA BoundIs ==
  ASSUME NEW fs, NEW key, Len(fs) \in Nat
  PROVE  \E lb : Searched(fs, key, Len(fs), lb) /\ lower_bound(fs, key) = lb[Len(fs)][1]
<1>. DEFINE Is(lb) == lb = [n \in 0 .. Len(fs) |-> [lo \in 1 .. Len(fs) + 1 |->
        LET half == n \div 2
        IN  IF n = 0 \/ lo + half > Len(fs) THEN lo
            ELSE IF Less(fs[lo + half].name, key) THEN lb[n - half - 1][lo + half + 1]
            ELSE lb[half][lo]]]
            c == CHOOSE lb : Is(lb)
<1>1. PICK lb : Searched(fs, key, Len(fs), lb)  BY SearchExists
<1>2. Is(lb)  BY <1>1 DEF Searched, Row, Turn
<1>3. Is(c)  BY <1>2
<1>4. lower_bound(fs, key) = c[Len(fs)][1]  BY DEF lower_bound
<1>5. Searched(fs, key, Len(fs), c)
  <2>. HIDE DEF c
  <2>. QED  BY <1>3 DEF Searched, Row, Turn
<1>. QED  BY <1>4, <1>5

\* Sorted by name, all fields below one that is less than a key are less than it.
LEMMA LessDown ==
  ASSUME NEW fs \in Seq(Field), NEW N \in Nat, N = Len(fs),
         \A i \in 1 .. N - 1 : ~Less(fs[i + 1].name, fs[i].name),
         NEW key \in Text, NEW j \in 1 .. N, Less(fs[j].name, key)
  PROVE  \A i \in 1 .. j : Less(fs[i].name, key)
<1>1. \A i \in 1 .. N : fs[i].name \in Text
  <2>1. \A i \in 1 .. N : fs[i] \in Field  OBVIOUS
  <2>. QED  BY <2>1, FieldParts
<1>. DEFINE G == {k \in Nat : k < j => Less(fs[j - k].name, key)}
<1>2. 0 \in G
  <2>1. j - 0 = j  OBVIOUS
  <2>. QED  BY <2>1
<1>3. ASSUME NEW k \in 0 .. j - 1, k \in G  PROVE k + 1 \in G
  <2>. SUFFICES ASSUME k + 1 < j  PROVE Less(fs[j - (k + 1)].name, key)
    OBVIOUS
  <2>1. PICK i \in 1 .. N - 1 : i = j - (k + 1) /\ i + 1 = j - k  OBVIOUS
  <2>2. Less(fs[i + 1].name, key) /\ ~Less(fs[i + 1].name, fs[i].name)  BY <1>3, <2>1
  <2>3. fs[i].name \in Text /\ fs[i + 1].name \in Text  BY <1>1, <2>1
  <2>. QED  BY <2>1, <2>2, <2>3, LessSplits
<1>4. G \in SUBSET Nat  OBVIOUS
<1>5. \A k \in 0 .. j : k \in G
  <2>. HIDE DEF G
  <2>1. \A k \in 0 .. j - 1 : k \in G => k + 1 \in G  BY <1>3
  <2>2. j \in Nat  OBVIOUS
  <2>. QED  BY <1>2, <1>4, <2>1, <2>2, Steps
<1>6. ASSUME NEW i \in 1 .. j  PROVE Less(fs[i].name, key)
  <2>1. PICK k \in 0 .. j : k = j - i /\ k < j /\ j - k = i /\ k \in Nat  OBVIOUS
  <2>2. k \in G  BY <1>5
  <2>. QED  BY <2>1, <2>2
<1>. QED  BY <1>6

\* r parts the fields into those less than the key and the others.
Parts(fs, key, r) ==
  /\ r \in 1 .. Len(fs) + 1
  /\ \A i \in 1 .. Len(fs) : Less(fs[i].name, key) <=> i < r

\* The key's place is among the n fields from lo on, or behind them.
Within(fs, key, n, lo) ==
  /\ lo \in 1 .. Len(fs) + 1 /\ lo + n <= Len(fs) + 1
  /\ \A i \in 1 .. Len(fs) : (i < lo => Less(fs[i].name, key))
                             /\ (i >= lo + n => ~Less(fs[i].name, key))

LEMMA BoundParts ==
  ASSUME NEW fs \in Seq(Field), NEW N \in Nat, N = Len(fs),
         \A i \in 1 .. N - 1 : ~Less(fs[i + 1].name, fs[i].name), NEW key \in Text
  PROVE  Parts(fs, key, lower_bound(fs, key))
<1>1. PICK lb : Searched(fs, key, N, lb) /\ lower_bound(fs, key) = lb[N][1]  BY BoundIs
<1>2. \A n \in 0 .. N : \A lo \in 1 .. N + 1 : lb[n][lo] = Turn(fs, key, lb, n, lo)
  <2>1. lb = [n \in 0 .. N |-> Row(fs, key, lb, n)]  BY <1>1 DEF Searched
  <2>2. \A n \in 0 .. N : lb[n] = Row(fs, key, lb, n)  BY <2>1
  <2>3. ASSUME NEW n  PROVE Row(fs, key, lb, n) = [lo \in 1 .. N + 1 |-> Turn(fs, key, lb, n, lo)]
    BY DEF Row
  <2>4. ASSUME NEW n, NEW lo \in 1 .. N + 1
        PROVE  Row(fs, key, lb, n)[lo] = Turn(fs, key, lb, n, lo)
    BY <2>3
  <2>. QED  BY <2>2, <2>4
<1>. DEFINE Found(n) == \A lo : Within(fs, key, n, lo) => Parts(fs, key, lb[n][lo])
            G == {k \in Nat : \A n \in 0 .. k : n <= N => Found(n)}
<1>3. Found(0)
  <2>. SUFFICES ASSUME NEW lo, Within(fs, key, 0, lo)  PROVE Parts(fs, key, lb[0][lo])
    OBVIOUS
  <2>1. lo \in 1 .. N + 1 /\ 0 \in 0 .. N /\ lo + 0 = lo  BY DEF Within
  <2>2. lb[0][lo] = lo  BY <1>2, <2>1 DEF Turn
  <2>3. Parts(fs, key, lo)
    <3>1. ASSUME NEW i \in 1 .. N  PROVE Less(fs[i].name, key) <=> i < lo
      <4>1. (i < lo => Less(fs[i].name, key)) /\ (i >= lo => ~Less(fs[i].name, key))
        BY <2>1 DEF Within
      <4>2. i < lo \/ i >= lo  BY <2>1
      <4>3. ~(i < lo /\ i >= lo)  BY <2>1
      <4>. QED  BY <4>1, <4>2, <4>3
    <3>. QED  BY <2>1, <3>1 DEF Parts
  <2>. QED  BY <2>2, <2>3
<1>4. ASSUME NEW n \in 1 .. N, \A j \in Nat : j < n => Found(j)  PROVE Found(n)
  <2>. SUFFICES ASSUME NEW lo, Within(fs, key, n, lo)  PROVE Parts(fs, key, lb[n][lo])
    OBVIOUS
  <2>1. lo \in 1 .. N + 1 /\ lo + n <= N + 1  BY DEF Within
  <2>2. PICK h \in Nat : /\ h = n \div 2 /\ h < n /\ n - h - 1 \in Nat /\ n - h - 1 < n
    <3>1. n \in Nat /\ n # 0  OBVIOUS
    <3>. QED  BY <3>1, Halves
  <2>3. PICK l \in Nat : l = n - h - 1 /\ l < n  BY <2>2
  <2>4. PICK mid \in 1 .. N : mid = lo + h
    <3>1. \A x, y, z \in Nat : x >= 1 /\ x + y <= N + 1 /\ z < y => x + z \in 1 .. N  OBVIOUS
    <3>2. lo \in Nat /\ n \in Nat /\ h \in Nat /\ lo >= 1 /\ h < n  BY <2>1, <2>2
    <3>. QED  BY <2>1, <3>1, <3>2
  <2>5. lb[n][lo] = IF Less(fs[mid].name, key) THEN lb[l][mid + 1] ELSE lb[h][lo]
    <3>1. n \in 0 .. N /\ n # 0  OBVIOUS
    <3>2. ~(lo + h > N)  BY <2>4
    <3>. QED  BY <1>2, <2>1, <2>2, <2>3, <2>4, <3>1, <3>2 DEF Turn
  <2>6. CASE Less(fs[mid].name, key)
    <3>1. \A i \in 1 .. mid : Less(fs[i].name, key)  BY <2>4, <2>6, LessDown
    <3>2. mid + 1 \in 1 .. N + 1 /\ mid + 1 + l = lo + n /\ \A i \in 1 .. N : i < mid + 1 => i \in 1 .. mid
      <4>1. \A x, y, z \in Nat : x + y + 1 + (z - y - 1) = x + z  OBVIOUS
      <4>2. lo \in Nat /\ h \in Nat /\ n \in Nat  BY <2>1, <2>2
      <4>3. mid + 1 + l = lo + n  BY <2>3, <2>4, <4>1, <4>2
      <4>4. mid + 1 \in 1 .. N + 1 /\ \A i \in 1 .. N : i < mid + 1 => i \in 1 .. mid  OBVIOUS
      <4>. QED  BY <4>3, <4>4
    <3>3. Within(fs, key, l, mid + 1)  BY <2>1, <3>1, <3>2 DEF Within
    <3>. QED  BY <1>4, <2>3, <2>5, <2>6, <3>3
  <2>7. CASE ~Less(fs[mid].name, key)
    <3>1. ASSUME NEW i \in 1 .. N, i >= mid  PROVE ~Less(fs[i].name, key)
      <4>1. mid \in 1 .. i  BY <3>1
      <4>. QED  BY <2>7, <4>1, LessDown
    <3>2. lo + h <= N + 1
      <4>1. lo + h \in 1 .. N  BY <2>4
      <4>. QED  BY <4>1
    <3>3. Within(fs, key, h, lo)  BY <2>1, <2>4, <3>1, <3>2 DEF Within
    <3>. QED  BY <1>4, <2>2, <2>5, <2>7, <3>3
  <2>. QED  BY <2>6, <2>7
<1>. HIDE DEF Found
<1>5. 0 \in G
  <2>1. \A n \in 0 .. 0 : n = 0  OBVIOUS
  <2>. QED  BY <1>3, <2>1
<1>6. ASSUME NEW k \in 0 .. N - 1, k \in G  PROVE k + 1 \in G
  <2>1. \A j \in Nat : j < k + 1 => Found(j)
    <3>1. \A j \in Nat : j < k + 1 => j \in 0 .. k /\ j <= N  OBVIOUS
    <3>. QED  BY <1>6, <3>1
  <2>2. PICK z \in 1 .. N : z = k + 1  OBVIOUS
  <2>3. Found(z)  BY <1>4, <2>1, <2>2
  <2>4. \A n \in 0 .. k + 1 : n = k + 1 \/ (n \in Nat /\ n < k + 1)  OBVIOUS
  <2>. QED  BY <2>1, <2>2, <2>3, <2>4
<1>7. G \in SUBSET Nat  OBVIOUS
<1>8. \A k \in 0 .. N : k \in G
  <2>. HIDE DEF G
  <2>. QED  BY <1>5, <1>6, <1>7, Steps
<1>9. Found(N)
  <2>1. N \in 0 .. N /\ N <= N  OBVIOUS
  <2>2. N \in G  BY <1>8, <2>1
  <2>. QED  BY <2>1, <2>2
<1>10. Within(fs, key, N, 1)
  <2>1. 1 \in 1 .. N + 1 /\ 1 + N <= N + 1 /\ \A i \in 1 .. N : ~(i < 1) /\ ~(i >= 1 + N)  OBVIOUS
  <2>. QED  BY <2>1 DEF Within
<1>. QED  BY <1>1, <1>9, <1>10 DEF Found

\* A field of the name is found where one is.
LEMMA BoundFinds ==
  ASSUME NEW fs \in Seq(Field), NEW N \in Nat, N = Len(fs),
         \A i \in 1 .. N - 1 : ~Less(fs[i + 1].name, fs[i].name), NEW key \in Text,
         NEW j \in 1 .. N, fs[j].name = key, NEW r, r = lower_bound(fs, key)
  PROVE  r \in 1 .. N /\ fs[r].name = key
<1>1. Parts(fs, key, r)  BY BoundParts
<1>2. ~(j < r)
  <2>1. ~Less(fs[j].name, key)  BY LessIrreflexive
  <2>. QED  BY <1>1, <2>1 DEF Parts
<1>3. r \in 1 .. N /\ r <= j
  <2>1. r \in 1 .. N + 1  BY <1>1 DEF Parts
  <2>. QED  BY <1>2, <2>1
<1>4. fs[r].name \in Text
  <2>1. fs[r] \in Field  BY <1>3
  <2>. QED  BY <2>1, FieldParts
<1>5. ~Less(fs[r].name, key)
  <2>1. ~(r < r)  BY <1>3
  <2>. QED  BY <1>1, <1>3, <2>1 DEF Parts
<1>6. ~Less(key, fs[r].name)
  <2>. SUFFICES ASSUME Less(key, fs[r].name)  PROVE FALSE
    OBVIOUS
  <2>1. PICK x \in Text : x = fs[r].name  BY <1>4
  <2>2. Less(fs[j].name, x)  BY <2>1
  <2>3. \A i \in 1 .. j : Less(fs[i].name, x)  BY <2>2, LessDown
  <2>4. r \in 1 .. j  BY <1>3
  <2>5. Less(x, x)  BY <2>1, <2>3, <2>4
  <2>. QED  BY <2>5, LessIrreflexive
<1>. QED  BY <1>3, <1>4, <1>5, <1>6, LessTotal

\* In whatever order the fields were sent, a handler finds by its name a field that
\* was, and none that was not.
THEOREM LookupsFind == Spec => []LookupFinds
<1>1. DeliveryInv => LookupFinds
  <2>. SUFFICES ASSUME DeliveryInv, headers_completed_, Len(fields_) = Len(Stream[txn].fields),
                       NEW key \in Names
                PROVE  LET sent == {f \in Range(Stream[txn].fields) : f.name = key}
                       IN  IF sent = {} THEN Lookup(key) = 0
                           ELSE Lookup(key) # 0 /\ fields_[Lookup(key)] \in sent
    BY DEF LookupFinds
  <2>1. key \in Text  BY NamesAssumption
  <2>2. PICK m \in Request : m = Stream[txn]  BY StreamTypes DEF DeliveryInv, CodecInv
  <2>3. HeadSorted(m, fields_) /\ fields_ \in Seq(Field)
    BY <2>2, HeaderSeen DEF DeliveryInv, CodecInv, IsSeen
  <2>4. PICK fs \in Seq(Field) : fs = fields_  BY <2>3
  <2>5. PICK gs \in Seq(Field) : gs = m.fields  BY <2>2, RequestTypes
  <2>6. PICK n \in Nat : n = Len(fs) /\ n = Len(gs)
    <3>1. Len(fs) \in Nat /\ Len(fs) = Len(gs)  BY <2>2, <2>4, <2>5
    <3>. QED  BY <3>1
  <2>7. PICK p \in Bijection(1 .. n, 1 .. n) : \A i \in 1 .. n : fs[i] = gs[p[i]]
    BY <2>3, <2>4, <2>5, <2>6 DEF HeadSorted
  <2>8. \A i \in 1 .. n - 1 : ~Less(fs[i + 1].name, fs[i].name)
    BY <2>3, <2>4, <2>5, <2>6 DEF HeadSorted
  <2>9. (\A i \in 1 .. n : p[i] \in 1 .. n) /\ \A k \in 1 .. n : \E i \in 1 .. n : p[i] = k
    BY <2>7 DEF Bijection, Injection, Surjection
  <2>10. Range(gs) = {gs[i] : i \in 1 .. n}
    <3>1. DOMAIN gs = 1 .. n  BY <2>5, <2>6
    <3>. QED  BY <3>1 DEF Range
  <2>11. PICK sent : sent = {f \in Range(gs) : f.name = key}  OBVIOUS
  <2>12. PICK r : r = lower_bound(fs, key)  OBVIOUS
  <2>13. Lookup(key) = IF r > n \/ fs[r].name # key THEN 0 ELSE r
    BY <2>4, <2>6, <2>12 DEF Lookup
  <2>14. r \in 1 .. n + 1
    <3>1. Parts(fs, key, r)  BY <2>1, <2>4, <2>6, <2>8, <2>12, BoundParts
    <3>. QED  BY <2>6, <3>1 DEF Parts
  <2>15. CASE sent = {}
    <3>1. ASSUME r \in 1 .. n  PROVE fs[r].name # key
      <4>1. fs[r] \in Range(gs)  BY <2>7, <2>9, <2>10, <3>1
      <4>. QED  BY <2>11, <2>15, <4>1
    <3>2. r \in 1 .. n \/ r > n  BY <2>6, <2>14
    <3>3. Lookup(key) = 0  BY <2>13, <3>1, <3>2
    <3>. QED  BY <2>2, <2>5, <2>11, <2>15, <3>3
  <2>16. CASE sent # {}
    <3>1. PICK k \in 1 .. n : gs[k].name = key  BY <2>10, <2>11, <2>16
    <3>2. PICK j \in 1 .. n : p[j] = k  BY <2>9
    <3>3. fs[j].name = key  BY <2>7, <3>1, <3>2
    <3>4. r \in 1 .. n /\ fs[r].name = key
      <4>1. fs \in Seq(Field) /\ n \in Nat /\ n = Len(fs)  BY <2>4, <2>6
      <4>2. key \in Text /\ j \in 1 .. n /\ fs[j].name = key  BY <2>1, <3>2, <3>3
      <4>. QED  BY <2>8, <2>12, <4>1, <4>2, BoundFinds
    <3>5. ~(r > n) /\ r # 0  BY <2>6, <3>4
    <3>6. Lookup(key) = r  BY <2>13, <3>4, <3>5
    <3>7. fs[r] \in Range(gs)  BY <2>7, <2>9, <2>10, <3>4
    <3>8. fs[r] \in sent  BY <2>11, <3>4, <3>7
    <3>. QED  BY <2>2, <2>4, <2>5, <2>11, <2>16, <3>5, <3>6, <3>8
  <2>. QED  BY <2>15, <2>16
<1>. QED  BY <1>1, DeliveryInvariant, PTL
-----------------------------------------------------------------------------
(* Types *)

RouteTypes ==
  /\ RoutingTypeOK
  /\ stage \in {"setup", "accept", "header", "body", "closed"}
  /\ mh \in Files \cup {NULL}
  /\ DOMAIN calls = Files

LEMMA CalledTyped ==
  ASSUME NEW fs, NEW event, NEW call, Called(fs, event, call)
  PROVE  DOMAIN calls' = Files
BY DEF Called

LEMMA RouteStep == RouteTypes /\ [Next]_vars => RouteTypes'
<1>. SUFFICES ASSUME RouteTypes, [Next]_vars  PROVE RouteTypes'
  OBVIOUS
<1>1. CASE load
  <2>1. PICK f \in Files : setup(f)  BY <1>1 DEF load
  <2>2. stage' = stage /\ mh' = mh /\ calls' = calls  BY <1>1 DEF load
  <2>3. todo' \subseteq Files  BY <2>1 DEF setup, RouteTypes, RoutingTypeOK
  <2>4. created' \in Seq(Files)
    <3>1. created \in Seq(Files)  BY DEF RouteTypes, RoutingTypeOK
    <3>2. Append(created, f) \in Seq(Files)  BY <3>1
    <3>. QED  BY <2>1, <3>1, <3>2 DEF setup
  <2>5. default_' \in Files \cup {NULL} /\ modules_' \subseteq Seq(STRING) \X Files
    <3>1. <<Library[f].path, f>> \in Seq(STRING) \X Files  BY LibraryAssumption
    <3>2. default_ \in Files \cup {NULL} /\ modules_ \subseteq Seq(STRING) \X Files
      BY DEF RouteTypes, RoutingTypeOK
    <3>. QED  BY <2>1, <3>1, <3>2 DEF setup, setup_handler
  <2>. QED  BY <2>2, <2>3, <2>4, <2>5 DEF RouteTypes, RoutingTypeOK
<1>2. CASE start \/ http_connection
  <2>1. /\ UNCHANGED routingVars /\ mh' = mh /\ stage' \in {"accept", "header"}
        /\ DOMAIN calls' = Files
    BY <1>2, CalledTyped DEF start, http_connection
  <2>. QED  BY <2>1 DEF RouteTypes, RoutingTypeOK, routingVars
<1>3. CASE receive_header \/ receive_body \/ UNCHANGED vars
  <2>1. UNCHANGED <<routingVars, stage, mh, calls>>
    BY <1>3 DEF receive_header, receive_body, vars
  <2>. QED  BY <2>1 DEF RouteTypes, RoutingTypeOK, routingVars
<1>4. CASE on_request_header
  <2>1. /\ UNCHANGED routingVars /\ stage' = "body" /\ DOMAIN calls' = Files
        /\ mh' = IF PathAt(strurl_) = 0 THEN default_ ELSE match_handler(PathData(strurl_))
    BY <1>4, CalledTyped DEF on_request_header
  <2>2. default_ \in Files \cup {NULL} /\ modules_ \subseteq Seq(STRING) \X Files
    BY DEF RouteTypes, RoutingTypeOK
  <2>3. ASSUME NEW path  PROVE match_handler(path) \in Files \cup {NULL}
    <3>1. \A e \in find(path) : e[2] \in Files  BY <2>2 DEF find
    <3>2. find(path) # {} => (CHOOSE e \in find(path) : TRUE) \in find(path)  OBVIOUS
    <3>. QED  BY <2>2, <3>1, <3>2 DEF match_handler
  <2>4. mh' \in Files \cup {NULL}  BY <2>1, <2>2, <2>3
  <2>. QED  BY <2>1, <2>4 DEF RouteTypes, RoutingTypeOK, routingVars
<1>5. CASE on_request_body
  <2>1. /\ UNCHANGED routingVars /\ mh' = NULL /\ stage' = "header" /\ DOMAIN calls' = Files
    BY <1>5, CalledTyped DEF on_request_body
  <2>. QED  BY <2>1 DEF RouteTypes, RoutingTypeOK, routingVars
<1>6. CASE close
  <2>1. /\ UNCHANGED routingVars /\ mh' = mh /\ stage' = "closed" /\ DOMAIN calls' = Files
    BY <1>6 DEF close
  <2>. QED  BY <2>1 DEF RouteTypes, RoutingTypeOK, routingVars
<1>. QED  BY <1>1, <1>2, <1>3, <1>4, <1>5, <1>6 DEF Next

LEMMA CodecTypes ==
  ASSUME CodecInv
  PROVE  CodecTypeOK
<1>1. PICK m \in Request : m = Stream[txn]  BY StreamTypes DEF CodecInv
<1>2. PICK b \in Nat, e \in Nat, U \in Nat, E \in Nat, B \in Nat, T \in Nat :
        LaidOut(txn, b, e, U, E, B, T)
  BY RequestAt DEF CodecInv
<1>3. PICK u \in Seq(STRING) : u = m.url /\ U = Len(u)  BY <1>1, <1>2, RequestTypes DEF LaidOut
<1>4. /\ got \in Nat /\ pos \in Nat /\ pos <= got /\ got <= Len(Wire) /\ where \in Seq(Place)
      /\ Len(where) = got
  BY DEF CodecInv, WhereInv
<1>5. got \in 0 .. Len(Wire) /\ pos \in 0 .. got
  <2>1. Len(Wire) \in Nat  BY WireFacts
  <2>. QED  BY <1>4, <2>1
<1>6. \A i \in 1 .. got : where[i] \in Nat \X (0 .. iobuf_size - 1)  BY <1>4 DEF Place
<1>7. ASSUME NEW n \in Nat, BodyAt(m, n)
      PROVE  /\ \A i \in DOMAIN bodybf_ : bodybf_[i].at \in Nat \X Nat /\ bodybf_[i].len \in Nat
             /\ bodysz_ \in Nat
  <2>1. bodybf_ \in Seq(Slice) /\ bodysz_ = n  BY <1>7 DEF BodyAt, HeldBy
  <2>2. \A i \in DOMAIN bodybf_ : bodybf_[i] \in Slice  BY <2>1
  <2>. QED  BY <2>1, <2>2 DEF Slice
<1>8. CASE headers_completed_ = FALSE
  <2>1. HeadersOpen(m, b, U, E)  BY <1>1, <1>2, <1>8 DEF CodecInv, RequestInv
  <2>2. strurl_ \in Seq(STRING)
    <3>1. CASE InUrl(m, b, U)
      <4>1. PICK q \in 0 .. U : strurl_ = SubSeq(u, 1, q)  BY <1>3, <3>1 DEF InUrl
      <4>2. q \in Nat /\ q <= Len(u)  BY <1>2, <1>3, <4>1
      <4>. QED  BY <1>3, <4>1, <4>2, FirstPart
    <3>2. CASE InFields(m, b, U, E)  BY <1>3, <3>2 DEF InFields
    <3>. QED  BY <2>1, <3>1, <3>2 DEF HeadersOpen
  <2>3. bodybf_ = <<>> /\ bodysz_ = 0  BY <2>1 DEF HeadersOpen
  <2>4. DOMAIN bodybf_ = {} /\ bodysz_ \in Nat  BY <2>3
  <2>. QED  BY <1>4, <1>5, <1>6, <2>2, <2>4 DEF CodecInv, CodecTypeOK
<1>9. CASE headers_completed_ = TRUE
  <2>1. HeadersDone(m, e, B, T)  BY <1>1, <1>2, <1>9 DEF CodecInv, RequestInv
  <2>2. strurl_ \in Seq(STRING)  BY <1>3, <2>1 DEF HeadersDone
  <2>3. \E n \in Nat : BodyAt(m, n)
    <3>1. AtHead(m, e) => BodyAt(m, 0)  BY DEF AtHead
    <3>2. InPlain(m, e, B) => \E n \in 0 .. B : BodyAt(m, n)  BY DEF InPlain
    <3>3. InChunks(m, e, B) => \E n \in 0 .. B : BodyAt(m, n)  BY DEF InChunks
    <3>4. InTrailers(m, e, B, T) \/ AtEnd(m, e, B, T) => BodyAt(m, B)  BY DEF InTrailers, AtEnd
    <3>5. 0 \in Nat /\ B \in Nat /\ \A n \in 0 .. B : n \in Nat  BY <1>2
    <3>. QED  BY <2>1, <3>1, <3>2, <3>3, <3>4, <3>5 DEF HeadersDone
  <2>4. /\ \A i \in DOMAIN bodybf_ : bodybf_[i].at \in Nat \X Nat /\ bodybf_[i].len \in Nat
        /\ bodysz_ \in Nat
    BY <1>7, <2>3
  <2>. QED  BY <1>4, <1>5, <1>6, <2>2, <2>4 DEF CodecInv, CodecTypeOK
<1>. QED  BY <1>8, <1>9 DEF CodecInv

\* The members of the codec, of the request and of the table of modules keep their
\* types, and the slices of the body are places in buffers with lengths.
THEOREM DispatchTypes == Spec => []TypeOK
<1>1. Init => RouteTypes
  <2>. SUFFICES ASSUME Init  PROVE RouteTypes
    OBVIOUS
  <2>1. <<>> \in Seq(Files)  OBVIOUS
  <2>. QED  BY <2>1 DEF Init, RoutingInit, RouteTypes, RoutingTypeOK
<1>2. Spec => []RouteTypes  BY <1>1, RouteStep, PTL DEF Spec
<1>3. RouteTypes /\ DeliveryInv => TypeOK  BY CodecTypes DEF RouteTypes, DeliveryInv, TypeOK
<1>. QED  BY <1>2, <1>3, DeliveryInvariant, PTL
=============================================================================
