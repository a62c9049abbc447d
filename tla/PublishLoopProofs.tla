------------------------- MODULE PublishLoopProofs -------------------------
(***************************************************************************)
(* Proofs about the two models of runPublishLoopInner: LineIntake, what    *)
(* becomes of a line, for any lines, any number of browsers and any        *)
(* limits; and PingMonitor, the watchdog whose PONGs and timeouts the loop *)
(* handles, for every threshold and every size of the channel and of the   *)
(* firmware's buffer.                                                      *)
(***************************************************************************)
EXTENDS LineIntake, PingMonitor, FiniteSetTheorems, SequenceTheorems, TLAPS

-----------------------------------------------------------------------------
(* Numbers. *)

\* A set of numbers that is not empty has a least one.
LEMMA Least ==
  ASSUME NEW T \in SUBSET Nat, T # {}
  PROVE  \E n \in T : \A m \in T : n <= m
<1> DEFINE B == {0..n : n \in T}
<1>1. B \subseteq FiniteSubsetsOf(Nat)
  <2> SUFFICES ASSUME NEW n \in T PROVE 0..n \in FiniteSubsetsOf(Nat)
    OBVIOUS
  <2>1. IsFiniteSet(0..n)
    BY FS_Interval
  <2> QED
    BY <2>1 DEF FiniteSubsetsOf
<1>2. PICK x \in B : \A y \in B : ~(<<y, x>> \in StrictSubsetOrdering(Nat))
  <2>1. IsWellFoundedOn(StrictSubsetOrdering(Nat), FiniteSubsetsOf(Nat))
    BY FS_StrictSubsetOrderingWellFounded
  <2>2. B # {}
    OBVIOUS
  <2> HIDE DEF B
  <2> QED
    BY <1>1, <2>1, <2>2, WFMin
<1>3. PICK n \in T : x = 0..n
  BY <1>2
<1>4. ASSUME NEW m \in T, m < n PROVE FALSE
  <2>1. 0..m \in B
    OBVIOUS
  <2>2. 0..m \subseteq 0..n /\ n \notin 0..m /\ n \in 0..n
    BY <1>4
  <2>3. <<0..m, 0..n>> \in StrictSubsetOrdering(Nat)
    BY <2>2 DEF StrictSubsetOrdering
  <2> QED
    BY <1>2, <1>3, <2>1, <2>3
<1> QED
  BY <1>4

\* The largest of a bounded set of numbers is one of them, and above all of them.
LEMMA MaxIn ==
  ASSUME NEW n \in Nat, NEW T \in SUBSET (1..n), T # {}
  PROVE  Max(T) \in T /\ \A i \in T : i <= Max(T)
<1> DEFINE D == {n - i : i \in T}
<1>0. \A i \in T : i \in Int /\ n - i \in Nat
  OBVIOUS
<1>1. D \in SUBSET Nat /\ D # {}
  BY <1>0, Zenon
<1>2. PICK d \in D : \A e \in D : d <= e
  BY <1>1, Least
<1>3. PICK i \in T : d = n - i
  OBVIOUS
<1>4. \A j \in T : i >= j
  <2> SUFFICES ASSUME NEW j \in T PROVE i >= j
    OBVIOUS
  <2>1. n - j \in D
    OBVIOUS
  <2>2. n - i <= n - j
    BY <1>2, <1>3, <2>1, Zenon
  <2> HIDE DEF D
  <2> QED
    BY <1>0, <2>2
<1>5. Max(T) \in T /\ \A j \in T : Max(T) >= j
  BY <1>4 DEF Max
<1> QED
  BY <1>0, <1>5

-----------------------------------------------------------------------------
(* What the parsers make of a line (SensorMessage). *)

\* The fields of t with numbers in s, read at once: which of them the loop of
\* SensorDataFromMessage trips over, where key k is set, its last value, and what
\* the loop has made of them.
Trips(p) ==
  /\ p # Empty
  /\ \/ p.val = Bare
     \/ p.key = "TEMP" /\ p.val \notin Numerals(16)
     \/ p.key = "HUM" /\ p.val \notin Numerals(10)
SetAt(t, s, k) == {i \in s : t[i] # Empty /\ t[i].key = k}
LastIn(t, s, k) == IF SetAt(t, s, k) = {} THEN "" ELSE t[Max(SetAt(t, s, k))].val
KeysIn(t, s) == {k \in STRING : SetAt(t, s, k) # {}}
Parsed(t, s, model) ==
  IF \E i \in s : Trips(t[i]) THEN Invalid
  ELSE [ok |-> TRUE, model |-> model, known |-> [k \in Known |-> LastIn(t, s, k)],
        extra |-> [k \in KeysIn(t, s) \ Known |-> LastIn(t, s, k)]]

\* The last value of a key after one more field.
LEMMA LastGrows ==
  ASSUME NEW n \in Nat, NEW t, NEW s \in SUBSET (1..n), s # {}, NEW k
  PROVE  LET x == Max(s)  r == s \ {x} IN
         /\ t[x] # Empty /\ t[x].key = k => SetAt(t, s, k) # {} /\ LastIn(t, s, k) = t[x].val
         /\ t[x] = Empty \/ t[x].key # k =>
              SetAt(t, s, k) = SetAt(t, r, k) /\ LastIn(t, s, k) = LastIn(t, r, k)
<1> DEFINE x == Max(s)
           r == s \ {x}
<1>1. x \in s /\ x \in 1..n /\ \A i \in s : i \in 1..n /\ i <= x
  BY MaxIn
<1>2. ASSUME t[x] # Empty, t[x].key = k
      PROVE  SetAt(t, s, k) # {} /\ LastIn(t, s, k) = t[x].val
  <2>1. x \in SetAt(t, s, k) /\ SetAt(t, s, k) \in SUBSET (1..n)
    BY <1>1, <1>2 DEF SetAt
  <2>2. Max(SetAt(t, s, k)) \in SetAt(t, s, k) /\ \A i \in SetAt(t, s, k) : i <= Max(SetAt(t, s, k))
    BY <2>1, MaxIn
  <2>3. Max(SetAt(t, s, k)) \in s
    BY <2>2 DEF SetAt
  <2>4. Max(SetAt(t, s, k)) = x
    <3> HIDE DEF x
    <3>1. x <= Max(SetAt(t, s, k)) /\ Max(SetAt(t, s, k)) <= x
      BY <1>1, <2>1, <2>2, <2>3
    <3>2. Max(SetAt(t, s, k)) \in 1..n /\ x \in 1..n
      BY <1>1, <2>3
    <3> QED BY <3>1, <3>2
  <2> QED
    BY <2>1, <2>4 DEF LastIn
<1>3. ASSUME t[x] = Empty \/ t[x].key # k
      PROVE  SetAt(t, s, k) = SetAt(t, r, k) /\ LastIn(t, s, k) = LastIn(t, r, k)
  <2>1. SetAt(t, s, k) = SetAt(t, r, k)
    <3> HIDE DEF x
    <3> QED BY <1>3 DEF SetAt
  <2> QED
    BY <2>1 DEF LastIn
<1> QED
  BY <1>2, <1>3

\* What EXCEPT makes of a SensorData.
LEMMA SetExtra ==
  ASSUME NEW m, NEW g, NEW e, NEW d
  PROVE  [[ok |-> TRUE, model |-> m, known |-> g, extra |-> e] EXCEPT !.extra = d]
           = [ok |-> TRUE, model |-> m, known |-> g, extra |-> d]
<1> DEFINE a == [ok |-> TRUE, model |-> m, known |-> g, extra |-> e]
           c == [a EXCEPT !.extra = d]
           r == [ok |-> TRUE, model |-> m, known |-> g, extra |-> d]
<1>2. c = [x \in {"ok", "model", "known", "extra"} |-> c[x]]
  OBVIOUS
<1>3. r = [x \in {"ok", "model", "known", "extra"} |-> r[x]]
  OBVIOUS
<1>4. \A x \in {"ok", "model", "known", "extra"} : c[x] = r[x]
  <2>1. c["ok"] = TRUE /\ c["model"] = m /\ c["known"] = g /\ c["extra"] = d
    OBVIOUS
  <2>2. r["ok"] = TRUE /\ r["model"] = m /\ r["known"] = g /\ r["extra"] = d
    OBVIOUS
  <2> HIDE DEF c, r
  <2> QED BY <2>1, <2>2
<1> HIDE DEF c, r
<1>5. c = r
  BY <1>2, <1>3, <1>4
<1> QED
  BY <1>5 DEF c, r

\* One turn of the loop makes of the fields before the last one, read at once, all
\* of them read at once.
LEMMA ParsedGrows ==
  ASSUME NEW n \in Nat, NEW t \in [1..n -> Piece], NEW s \in SUBSET (1..n), s # {}, NEW model
  PROVE  Parsed(t, s, model) = ParseField(Parsed(t, s \ {Max(s)}, model), t[Max(s)])
<1> DEFINE x == Max(s)
           r == s \ {x}
           sd == Parsed(t, r, model)
<1>1. x \in s /\ x \in 1..n /\ t[x] \in Piece
  BY MaxIn
<1> HIDE DEF x
<1>2. CASE \E i \in r : Trips(t[i])
  <2>1. sd = Invalid /\ Parsed(t, s, model) = Invalid
    BY <1>2 DEF Parsed
  <2> QED
    BY <2>1 DEF ParseField, Invalid, x
<1>3. CASE ~\E i \in r : Trips(t[i])
  <2>1. sd = [ok |-> TRUE, model |-> model, known |-> [k \in Known |-> LastIn(t, r, k)],
              extra |-> [k \in KeysIn(t, r) \ Known |-> LastIn(t, r, k)]]
    BY <1>3 DEF Parsed
  <2>2. CASE Trips(t[x])
    <3>1. Parsed(t, s, model) = Invalid
      BY <1>1, <2>2 DEF Parsed
    <3>2. ParseField(sd, t[x]) = Invalid
      <4> HIDE DEF sd
      <4> QED BY <2>1, <2>2 DEF ParseField, Trips
    <3> QED
      BY <3>1, <3>2 DEF x
  <2>3. CASE ~Trips(t[x])
    <3>1. Parsed(t, s, model) =
            [ok |-> TRUE, model |-> model, known |-> [k \in Known |-> LastIn(t, s, k)],
             extra |-> [k \in KeysIn(t, s) \ Known |-> LastIn(t, s, k)]]
      <4>1. ~\E i \in s : Trips(t[i])
        BY <1>3, <2>3
      <4> QED BY <4>1, Zenon DEF Parsed
    <3>2. \A k : /\ t[x] # Empty /\ t[x].key = k => SetAt(t, s, k) # {} /\ LastIn(t, s, k) = t[x].val
                 /\ t[x] = Empty \/ t[x].key # k =>
                       SetAt(t, s, k) = SetAt(t, r, k) /\ LastIn(t, s, k) = LastIn(t, r, k)
      BY LastGrows DEF x
    <3>3. CASE t[x] = Empty
      <4>1. \A k : SetAt(t, s, k) = SetAt(t, r, k) /\ LastIn(t, s, k) = LastIn(t, r, k)
        BY <3>2, <3>3
      <4>2. KeysIn(t, s) = KeysIn(t, r)
        BY <4>1 DEF KeysIn
      <4>3. Parsed(t, s, model) = sd
        BY <2>1, <3>1, <4>1, <4>2, Zenon
      <4>4. ParseField(sd, t[x]) = sd
        BY <3>3 DEF ParseField
      <4> QED
        BY <4>3, <4>4 DEF x
    <3>4. CASE t[x] # Empty
      <4> DEFINE k == t[x].key
                 v == t[x].val
      <4>1. k \in STRING /\ v # Bare /\ ~(k = "TEMP" /\ v \notin Numerals(16))
            /\ ~(k = "HUM" /\ v \notin Numerals(10))
        BY <1>1, <2>3, <3>4 DEF Trips, Piece
      <4>2. \A y : LastIn(t, s, y) = IF y = k THEN v ELSE LastIn(t, r, y)
        BY <3>2, <3>4
      <4>3. KeysIn(t, s) = KeysIn(t, r) \cup {k}
        BY <3>2, <3>4, <4>1 DEF KeysIn
      <4>4. sd.ok /\ sd.known = [y \in Known |-> LastIn(t, r, y)]
            /\ sd.extra = [y \in KeysIn(t, r) \ Known |-> LastIn(t, r, y)]
        <5> HIDE DEF sd
        <5> QED BY <2>1
      <4>5. CASE k \in Known
        <5>1. ParseField(sd, t[x]) = [sd EXCEPT !.known[k] = v]
          <6> HIDE DEF sd
          <6> QED BY <3>4, <4>1, <4>4, <4>5 DEF ParseField
        <5>2. [y \in Known |-> LastIn(t, s, y)] = [sd.known EXCEPT ![k] = v]
          <6> HIDE DEF sd, k, v
          <6> QED BY <4>2, <4>4, <4>5
        <5>3. KeysIn(t, s) \ Known = KeysIn(t, r) \ Known
          <6> HIDE DEF k
          <6> QED BY <4>3, <4>5
        <5>4. [y \in KeysIn(t, s) \ Known |-> LastIn(t, s, y)] = sd.extra
          <6> HIDE DEF sd, k, v
          <6> QED BY <4>2, <4>4, <4>5, <5>3
        <5>5. [sd EXCEPT !.known[k] = v] =
                [ok |-> TRUE, model |-> model, known |-> [sd.known EXCEPT ![k] = v],
                 extra |-> sd.extra]
          <6> HIDE DEF sd, k, v
          <6> DEFINE g == [y \in Known |-> LastIn(t, r, y)]
                     h == [y \in KeysIn(t, r) \ Known |-> LastIn(t, r, y)]
          <6>1. sd = [ok |-> TRUE, model |-> model, known |-> g, extra |-> h]
            BY <2>1
          <6>2. sd.known = g /\ sd.extra = h
            BY <4>4
          <6> HIDE DEF g, h
          <6>3. [sd EXCEPT !.known[k] = v] =
                  [ok |-> TRUE, model |-> model, known |-> [g EXCEPT ![k] = v], extra |-> h]
            <7> DEFINE F == {"ok", "model", "known", "extra"}
                       c == [sd EXCEPT !.known[k] = v]
                       w == [g EXCEPT ![k] = v]
                       z == [ok |-> TRUE, model |-> model, known |-> w, extra |-> h]
            <7>1. c = [y \in F |-> c[y]] /\ z = [y \in F |-> z[y]]
              BY <6>1
            <7>2. c["ok"] = TRUE /\ c["model"] = model /\ c["known"] = w /\ c["extra"] = h
              BY <6>1
            <7>3. z["ok"] = TRUE /\ z["model"] = model /\ z["known"] = w /\ z["extra"] = h
              OBVIOUS
            <7> HIDE DEF c, z, w
            <7>4. \A y \in F : c[y] = z[y]
              BY <7>2, <7>3
            <7>5. c = z
              BY <7>1, <7>4
            <7> QED BY <7>5 DEF c, z, w
          <6> QED BY <6>2, <6>3
        <5> QED
          BY <3>1, <5>1, <5>2, <5>4, <5>5 DEF x
      <4>6. CASE k \notin Known
        <5> DEFINE e == [y \in DOMAIN sd.extra \cup {k} |-> IF y = k THEN v ELSE sd.extra[y]]
        <5>1. ParseField(sd, t[x]) = [sd EXCEPT !.extra = e]
          <6> HIDE DEF sd
          <6> QED BY <3>4, <4>1, <4>4, <4>6 DEF ParseField
        <5>2. [y \in Known |-> LastIn(t, s, y)] = sd.known
          <6> HIDE DEF sd, k, v
          <6> QED BY <4>2, <4>4, <4>6
        <5>3. KeysIn(t, s) \ Known = (KeysIn(t, r) \ Known) \cup {k}
          <6> HIDE DEF k
          <6> QED BY <4>3, <4>6
        <5>4. [y \in KeysIn(t, s) \ Known |-> LastIn(t, s, y)] = e
          <6> HIDE DEF sd, k, v
          <6> QED BY <4>2, <4>4, <5>3
        <5>5. [sd EXCEPT !.extra = e] =
                [ok |-> TRUE, model |-> model, known |-> sd.known, extra |-> e]
          <6> HIDE DEF sd, k, v, e
          <6> DEFINE g == [y \in Known |-> LastIn(t, r, y)]
                     h == [y \in KeysIn(t, r) \ Known |-> LastIn(t, r, y)]
          <6>1. sd = [ok |-> TRUE, model |-> model, known |-> g, extra |-> h]
            BY <2>1
          <6>2. sd.known = g
            BY <4>4
          <6> HIDE DEF g, h
          <6> QED BY <6>1, <6>2, SetExtra
        <5> QED
          BY <3>1, <5>1, <5>2, <5>4, <5>5 DEF x
      <4> QED
        BY <4>5, <4>6
    <3> QED
      BY <3>3, <3>4
  <2> QED
    BY <2>2, <2>3
<1> QED
  BY <1>2, <1>3

\* The loop over all the fields is what reading them at once gives: Parsed is a
\* solution of the fold's recursion, so the one that CHOOSE takes satisfies it too,
\* and there is no least number of fields from which the two differ.
LEMMA FoldParses ==
  ASSUME NEW t \in Seq(Piece), NEW model
  PROVE  FoldLeft(ParseField, [ok |-> TRUE, model |-> model, known |-> Unset,
                               extra |-> [k \in {} |-> ""]], t)
           = Parsed(t, 1..Len(t), model)
<1> DEFINE b == [ok |-> TRUE, model |-> model, known |-> Unset, extra |-> [k \in {} |-> ""]]
           n == Len(t)
           D == 1..n
           P(s) == Parsed(t, s, model)
           Turn(g, s) == IF s = {} THEN b ELSE ParseField(g[s \ {Max(s)}], t[Max(s)])
           iter == CHOOSE g : g = [s \in SUBSET D |-> Turn(g, s)]
<1>1. n \in Nat /\ DOMAIN t = D /\ t \in [D -> Piece]
  BY LenProperties
<1>2. P({}) = b
  <2>1. \A k : SetAt(t, {}, k) = {} /\ LastIn(t, {}, k) = ""
    BY DEF SetAt, LastIn
  <2>2. KeysIn(t, {}) = {}
    BY <2>1 DEF KeysIn
  <2>3. [k \in Known |-> LastIn(t, {}, k)] = Unset
    BY <2>1 DEF Unset
  <2>4. [k \in KeysIn(t, {}) \ Known |-> LastIn(t, {}, k)] = [k \in {} |-> ""]
    BY <2>2
  <2> QED
    BY <2>3, <2>4 DEF Parsed
<1> HIDE DEF b
<1>3. iter = [s \in SUBSET D |-> Turn(iter, s)]
  <2> DEFINE h == [s \in SUBSET D |-> P(s)]
  <2>1. ASSUME NEW s \in SUBSET D PROVE P(s) = Turn(h, s)
    <3>1. CASE s = {}
      BY <1>2, <3>1
    <3>2. CASE s # {}
      <4>1. P(s) = ParseField(P(s \ {Max(s)}), t[Max(s)])
        BY <1>1, <3>2, ParsedGrows
      <4>2. h[s \ {Max(s)}] = P(s \ {Max(s)})
        OBVIOUS
      <4> HIDE DEF h, P
      <4> QED BY <3>2, <4>1, <4>2
    <3> QED BY <3>1, <3>2
  <2>2. h = [s \in SUBSET D |-> Turn(h, s)]
    <3> HIDE DEF P, Turn, D
    <3>1. \A s \in SUBSET D : P(s) = Turn(h, s)
      BY <2>1
    <3> QED BY <3>1
  <2> HIDE DEF h, Turn, D
  <2> QED BY <2>2
<1>4. FoldLeft(ParseField, b, t) = iter[D]
  BY <1>1 DEF FoldLeft, MapThenFoldSet
<1> HIDE DEF iter
<1> DEFINE Wrong == {k \in 0..n : iter[1..k] # P(1..k)}
<1>5. ASSUME Wrong # {} PROVE FALSE
  <2>1. Wrong \in SUBSET Nat
    BY <1>1
  <2>2. PICK k \in Wrong : \A j \in Wrong : k <= j
    BY <1>5, <2>1, Least
  <2>3. CASE k = 0
    <3>1. 1..k = {}
      BY <2>3
    <3> QED BY <1>2, <1>3, <2>2, <3>1
  <2>4. CASE k > 0
    <3>1. k \in 1..n /\ k - 1 \in 0..n /\ ~(k <= k - 1)
      BY <1>1, <2>2, <2>4
    <3>2. 1..k # {} /\ 1..k \in SUBSET D /\ Max(1..k) = k /\ (1..k) \ {k} = 1..(k - 1)
      <4>1. 1..k # {} /\ 1..k \in SUBSET D /\ (1..k) \ {k} = 1..(k - 1) /\ k \in 1..k
        <5>1. k \in Nat /\ 1 <= k /\ k <= n /\ n \in Nat
          BY <1>1, <3>1
        <5> HIDE DEF n
        <5>2. k \in 1..k
          BY <5>1
        <5>3. 1..k \subseteq 1..n
          BY <5>1
        <5>4. (1..k) \ {k} = 1..(k - 1)
          BY <5>1
        <5> QED BY <5>2, <5>3, <5>4
      <4>2. Max(1..k) \in 1..k /\ k <= Max(1..k)
        BY <1>1, <4>1, MaxIn
      <4> QED
        BY <3>1, <4>1, <4>2
    <3>3. iter[1..(k - 1)] = P(1..(k - 1))
      BY <2>2, <3>1
    <3>4. iter[1..k] = ParseField(iter[1..(k - 1)], t[k])
      BY <1>3, <3>2
    <3>5. P(1..k) = ParseField(P(1..(k - 1)), t[k])
      BY <1>1, <3>2, ParsedGrows
    <3> QED
      BY <2>2, <3>3, <3>4, <3>5
  <2> QED
    BY <1>1, <2>2, <2>3, <2>4
<1>6. n \in 0..n
  BY <1>1
<1>7. iter[1..n] = P(1..n)
  BY <1>5, <1>6
<1> QED
  BY <1>4, <1>7 DEF b

\* SensorDataFromMessage accepts the lines of the reference, with the last value of
\* every field.
LEMMA SensorParser ==
  ASSUME NEW m \in Seq(Piece)
  PROVE  LET sd == SensorDataFromMessage(m) IN
         /\ sd.ok <=> SensorLine(m)
         /\ sd.ok =>
              /\ \A k \in Known : sd.known[k] = LastOf(m, k)
              /\ \A k \in DOMAIN sd.extra : sd.extra[k] = LastOf(m, k)
              /\ {m[i].key : i \in {j \in 4..Len(m) : m[j] # Empty}} \subseteq
                   Known \cup DOMAIN sd.extra
<1> DEFINE t == SubSeq(m, 4, Len(m))
           sd == SensorDataFromMessage(m)
           p == Parsed(t, 1..Len(t), m[3])
<1>1. Len(m) \in Nat /\ \A i \in 1..Len(m) : m[i] \in Piece
  BY LenProperties, ElementOfSeq
<1>2. CASE Len(m) < 3
  <2>1. sd = Invalid
    BY <1>2 DEF SensorDataFromMessage
  <2>2. ~SensorLine(m)
    <3>1. ~(Len(m) >= 3)
      BY <1>1, <1>2
    <3> QED BY <3>1, Zenon DEF SensorLine, WellFormed
  <2> QED
    BY <2>1, <2>2 DEF Invalid
<1>3. CASE Len(m) >= 3
  <2>1. t \in Seq(Piece) /\ Len(t) = Len(m) - 3 /\ \A i \in 1..Len(m) - 3 : t[i] = m[i + 3]
    <3>1. \A i \in 4..Len(m) : m[i] \in Piece
      BY <1>1
    <3>2. t \in Seq(Piece) /\ Len(t) = (IF 4 <= Len(m) THEN Len(m) - 4 + 1 ELSE 0)
          /\ \A i \in 1..Len(m) - 4 + 1 : t[i] = m[4 + i - 1]
      BY <1>1, <3>1, SubSeqProperties
    <3> HIDE DEF t
    <3>3. Len(t) = Len(m) - 3
      <4>1. Len(t) = IF 4 <= Len(m) THEN Len(m) - 4 + 1 ELSE 0
        BY <3>2
      <4>2. CASE 4 <= Len(m)
        <5>1. Len(t) = Len(m) - 4 + 1
          BY <4>1, <4>2, Zenon
        <5> QED BY <1>1, <5>1
      <4>3. CASE ~(4 <= Len(m))
        <5>1. Len(t) = 0
          BY <4>1, <4>3, Zenon
        <5>2. Len(m) \in Nat
          BY <1>1
        <5>3. Len(m) = 3
          <6>1. \A n \in Nat : n >= 3 /\ ~(4 <= n) => n = 3
            OBVIOUS
          <6> QED BY <1>3, <4>3, <5>2, <6>1, Zenon
        <5> QED BY <5>1, <5>3
      <4> QED BY <4>2, <4>3
    <3>4. ASSUME NEW i \in 1..Len(m) - 3 PROVE t[i] = m[i + 3]
      <4>1. i \in 1..Len(m) - 4 + 1 /\ 4 + i - 1 = i + 3
        BY <1>1
      <4>2. t[i] = m[4 + i - 1]
        BY <3>2, <4>1
      <4> QED BY <4>1, <4>2
    <3> QED BY <3>2, <3>3, <3>4
  <2>2. sd = IF p.ok /\ p.known["ID"] # "" THEN p ELSE Invalid
    <3> DEFINE b == [ok |-> TRUE, model |-> m[3], known |-> Unset, extra |-> [k \in {} |-> ""]]
    <3>1. FoldLeft(ParseField, b, t) = p
      <4> HIDE DEF t
      <4> QED BY <2>1, FoldParses
    <3>2. ~(Len(m) < 3)
      BY <1>1, <1>3
    <3>3. sd = LET r == FoldLeft(ParseField, b, t)
               IN  IF r.ok /\ r.known["ID"] # "" THEN r ELSE Invalid
      BY <3>2, Zenon DEF SensorDataFromMessage
    <3> HIDE DEF b, p, sd
    <3> QED BY <3>1, <3>3
  <2> HIDE DEF t
  <2>3. \A i \in 4..Len(m) : i - 3 \in 1..Len(t) /\ t[i - 3] = m[i] /\ m[i] \in Piece
    BY <1>1, <2>1
  <2>4. \A i \in 1..Len(t) : i + 3 \in 4..Len(m) /\ m[i + 3] = t[i]
    BY <1>1, <2>1
  <2>5. WellFormed(m) <=> ~\E i \in 1..Len(t) : Trips(t[i])
    <3>1. WellFormed(m) <=> \A i \in 4..Len(m) : ~Trips(m[i])
      BY <1>3 DEF WellFormed, Trips
    <3> QED BY <2>3, <2>4, <3>1
  <2>6. ASSUME NEW k PROVE LastIn(t, 1..Len(t), k) = LastOf(m, k)
    <3> DEFINE A == SetAt(t, 1..Len(t), k)
               B == {i \in 4..Len(m) : m[i].key = k /\ m[i] # Empty}
    <3>1. (\A i \in A : i + 3 \in B) /\ (\A i \in B : i - 3 \in A)
      BY <2>3, <2>4 DEF SetAt
    <3>2. CASE A = {}
      <4>1. B = {}
        BY <3>1, <3>2
      <4> QED BY <3>2, <4>1 DEF LastIn, LastOf
    <3>3. CASE A # {}
      <4>1. B # {} /\ A \in SUBSET (1..Len(t))
        BY <3>1, <3>3 DEF SetAt
      <4>2. Max(A) \in A /\ \A i \in A : i <= Max(A)
        <5>1. Len(t) \in Nat
          BY <2>1, LenProperties
        <5> HIDE DEF A
        <5> QED BY <3>3, <4>1, <5>1, MaxIn
      <4> DEFINE c == CHOOSE i \in B : \A j \in B : j <= i
      <4>3. Max(A) + 3 \in B /\ Max(A) \in 1..Len(t)
        BY <3>1, <4>1, <4>2
      <4>4. \A j \in B : j <= Max(A) + 3
        <5> SUFFICES ASSUME NEW j \in B PROVE j <= Max(A) + 3
          OBVIOUS
        <5>1. j - 3 \in A /\ j \in Int
          BY <3>1
        <5>2. j - 3 <= Max(A)
          BY <4>2, <5>1
        <5> HIDE DEF A, B
        <5> QED BY <1>1, <2>1, <4>3, <5>1, <5>2
      <4>5. c \in B /\ \A j \in B : j <= c
        <5> HIDE DEF A, B
        <5> QED BY <4>3, <4>4
      <4>6. c = Max(A) + 3
        <5>1. c \in 4..Len(m)
          BY <4>5
        <5>2. c <= Max(A) + 3 /\ Max(A) + 3 <= c
          <6> HIDE DEF A, B, c
          <6> QED BY <4>3, <4>4, <4>5
        <5> HIDE DEF A, B, c
        <5> QED BY <1>1, <2>1, <4>3, <5>1, <5>2
      <4>7. LastOf(m, k) = m[c].val
        BY <4>1 DEF LastOf
      <4>8. LastIn(t, 1..Len(t), k) = t[Max(A)].val
        BY <3>3 DEF LastIn
      <4> HIDE DEF A, B, c
      <4> QED BY <2>4, <4>3, <4>6, <4>7, <4>8
    <3> QED BY <3>2, <3>3
  <2>7. CASE ~WellFormed(m)
    <3>1. p = Invalid
      BY <2>5, <2>7 DEF Parsed
    <3> HIDE DEF p
    <3>2. ~sd.ok
      BY <2>2, <3>1 DEF Invalid
    <3> QED
      BY <2>7, <3>2 DEF SensorLine
  <2>8. CASE WellFormed(m)
    <3> DEFINE K == KeysIn(t, 1..Len(t)) \ Known
    <3>1. p = [ok |-> TRUE, model |-> m[3], known |-> [k \in Known |-> LastIn(t, 1..Len(t), k)],
               extra |-> [k \in K |-> LastIn(t, 1..Len(t), k)]]
      <4>1. ~\E i \in 1..Len(t) : Trips(t[i])
        BY <2>5, <2>8
      <4> QED BY <4>1, Zenon DEF Parsed
    <3> HIDE DEF p, K
    <3>2. /\ p.ok = TRUE
          /\ \A k \in Known : p.known[k] = LastOf(m, k)
          /\ DOMAIN p.extra = K
          /\ \A k \in K : p.extra[k] = LastOf(m, k)
      BY <2>6, <3>1
    <3>3. {m[i].key : i \in {j \in 4..Len(m) : m[j] # Empty}} \subseteq Known \cup K
      <4> SUFFICES ASSUME NEW i \in 4..Len(m), m[i] # Empty PROVE m[i].key \in Known \cup K
        OBVIOUS
      <4>1. i - 3 \in SetAt(t, 1..Len(t), m[i].key) /\ m[i].key \in STRING
        BY <2>3 DEF SetAt, Piece
      <4> QED BY <4>1 DEF K, KeysIn
    <3>4. "ID" \in Known
      BY DEF Known
    <3>5. SensorLine(m) <=> p.known["ID"] # ""
      BY <2>8, <3>2, <3>4 DEF SensorLine
    <3>6. CASE p.known["ID"] # ""
      <4>1. sd = p
        BY <2>2, <3>2, <3>6
      <4> HIDE DEF sd
      <4>2. /\ sd.ok <=> SensorLine(m)
            /\ \A k \in Known : sd.known[k] = LastOf(m, k)
            /\ \A k \in DOMAIN sd.extra : sd.extra[k] = LastOf(m, k)
            /\ {m[i].key : i \in {j \in 4..Len(m) : m[j] # Empty}} \subseteq
                 Known \cup DOMAIN sd.extra
        BY <3>2, <3>3, <3>5, <3>6, <4>1
      <4> QED BY <4>2 DEF sd
    <3>7. CASE p.known["ID"] = ""
      <4>1. sd = Invalid
        BY <2>2, <3>7
      <4> HIDE DEF sd
      <4>2. ~sd.ok /\ ~SensorLine(m)
        BY <3>5, <3>7, <4>1 DEF Invalid
      <4> QED BY <4>2 DEF sd
    <3> QED BY <3>6, <3>7
  <2> QED BY <2>7, <2>8
<1> QED
  BY <1>1, <1>2, <1>3

\* Whatever the pieces of a line, SensorDataFromMessage accepts it exactly when it is
\* a sensor's line, with the last value of every field, and ParseGatewayMessage then
\* does not: the order in which handleSerialMessage asks them decides nothing.
THEOREM ParsersAgree == OneReadingOf(Seq(Piece))
<1> SUFFICES ASSUME NEW m \in Seq(Piece), SensorDataFromMessage(m).ok
             PROVE  ~ParseGatewayMessage(m).ok
  BY SensorParser DEF OneReadingOf
<1>1. WellFormed(m) /\ LastOf(m, "ID") # ""
  BY SensorParser DEF SensorLine
<1>2. PICK i \in 4..Len(m) : m[i].key = "ID" /\ m[i] # Empty
  BY <1>1 DEF LastOf
<1>3. m[i].val # Bare
  BY <1>1, <1>2 DEF WellFormed
<1>4. m[i] \in ToSet(m)
  <2>1. i \in DOMAIN m
    BY <1>2, LenProperties
  <2> QED BY <2>1 DEF ToSet
<1>5. ParseGatewayMessage(m) = NotGateway
  BY <1>2, <1>3, <1>4 DEF ParseGatewayMessage, EndsInID
<1> QED
  BY <1>5 DEF NotGateway

\* So it is for the lines of the model, in every state.
THEOREM OneReadingAlways == Spec => []OneReading
<1>1. OneReadingOf(Frames)
  BY ParsersAgree, LinesAssumption DEF OneReadingOf
<1>2. OneReading
  BY <1>1 DEF OneReading
<1> QED
  BY <1>2, PTL

-----------------------------------------------------------------------------
(* How the lines of one dedup key read (LineIntake). *)

\* Two lines of one transmission have one key (dedupKey).
LEMMA RetransmitKey ==
  ASSUME NEW m \in Lines, NEW n \in Lines, Retransmit(m, n)
  PROVE  DedupKey(m) = DedupKey(n)
<1>1. CASE m = n
  BY <1>1
<1>2. CASE m # n
  <2>1. /\ Len(m) = Len(n) /\ Len(m) >= 3 /\ m[1] = Word("20")
        /\ \A i \in DOMAIN m : i = 2 \/ m[i] = n[i]
    BY <1>2 DEF Retransmit
  <2>2. m \in Seq(Piece) /\ n \in Seq(Piece)
    BY LinesAssumption
  <2>3. n[1] = m[1]
    BY <2>1, <2>2, LenProperties
  <2>4. SubSeq(m, 3, Len(m)) = SubSeq(n, 3, Len(n))
    BY <2>1, <2>2, LenProperties, SubSeqProperties
  <2> QED
    BY <2>1, <2>3, <2>4 DEF DedupKey
<1> QED
  BY <1>1, <1>2

\* A line without its counter: long ones have one.
Counted(m) == Len(m) >= 3 /\ m[1] = Word("20")

\* Lines that differ in the counter only say the same.
LEMMA CounterUnread ==
  ASSUME NEW m \in Lines, NEW n \in Lines, Counted(m), Len(m) = Len(n), n[1] = m[1],
         \A i \in 3..Len(m) : m[i] = n[i]
  PROVE  Reading(m) = Reading(n)
<1>1. m \in Seq(Piece) /\ n \in Seq(Piece) /\ Len(m) \in Nat
  BY LinesAssumption, LenProperties
<1>2. /\ m[2].val = Bare /\ m[2].key # "PONG"
      /\ n[2].val = Bare /\ n[2].key # "PONG"
  BY LinesAssumption DEF Counted
<1>3. DOMAIN m = 1..Len(m) /\ DOMAIN n = 1..Len(m)
  BY <1>1, LenProperties
<1>4. \A i \in 1..Len(m) : i = 2 \/ m[i] = n[i]
  BY <1>1
<1>5. SensorDataFromMessage(m) = SensorDataFromMessage(n)
  <2>1. SubSeq(m, 4, Len(m)) = SubSeq(n, 4, Len(n))
    BY <1>1, <1>3, SubSeqProperties
  <2>2. m[3] = n[3]
    BY <1>1 DEF Counted
  <2> QED
    BY <2>1, <2>2 DEF SensorDataFromMessage
<1>6. (Word("PONG") \in ToSet(m)) = (Word("PONG") \in ToSet(n))
  <2>1. m[2] # Word("PONG") /\ n[2] # Word("PONG")
    BY <1>2 DEF Word
  <2> QED
    BY <1>3, <1>4, <2>1 DEF ToSet
<1>7. (\E p \in ToSet(m) : p.key \in EndsInID /\ p.val # Bare)
        <=> (\E p \in ToSet(n) : p.key \in EndsInID /\ p.val # Bare)
  BY <1>2, <1>3, <1>4 DEF ToSet
<1>8. GatewayFields(m) = GatewayFields(n)
  <2> DEFINE F(l) == {i \in DOMAIN l : l[i].val # Bare}
             At(l, s) == {i \in F(l) : Slot(l[i].key) = s}
             Keys(l) == {Slot(l[i].key) : i \in F(l)}
  <2>1. F(m) = F(n) /\ F(m) \subseteq 1..Len(m) /\ 2 \notin F(m)
    BY <1>2, <1>3, <1>4
  <2>2. \A i \in F(m) : m[i] = n[i]
    BY <1>4, <2>1
  <2>3. Keys(m) = Keys(n)
    BY <2>1, <2>2
  <2>4. ASSUME NEW s \in Keys(m) PROVE m[Max(At(m, s))].val = n[Max(At(n, s))].val
    <3>1. At(m, s) = At(n, s)
      BY <2>1, <2>2
    <3>2. At(m, s) # {} /\ At(m, s) \in SUBSET (1..Len(m))
      BY <2>1, <2>4
    <3>3. Max(At(m, s)) \in At(m, s)
      <4> HIDE DEF At
      <4> QED BY <1>1, <3>2, MaxIn
    <3>4. m[Max(At(m, s))] = n[Max(At(m, s))]
      <4>1. Max(At(m, s)) \in F(m)
        <5>1. At(m, s) \subseteq F(m)
          OBVIOUS
        <5> HIDE DEF At, F
        <5> QED BY <3>3, <5>1
      <4> HIDE DEF At, F
      <4> QED BY <2>2, <4>1
    <3> HIDE DEF At
    <3> QED BY <3>1, <3>4
  <2>5. GatewayFields(m) = [s \in Keys(m) |-> m[Max(At(m, s))].val]
    BY DEF GatewayFields
  <2>6. GatewayFields(n) = [s \in Keys(n) |-> n[Max(At(n, s))].val]
    BY DEF GatewayFields
  <2> HIDE DEF Keys, At, F
  <2> QED BY <2>3, <2>4, <2>5, <2>6
<1>9. ParseGatewayMessage(m) = ParseGatewayMessage(n)
  <2>1. GatewayInfo(m) = GatewayInfo(n)
    BY <1>6, <1>8, Zenon DEF GatewayInfo
  <2> QED
    BY <1>7, <2>1 DEF ParseGatewayMessage
<1> QED
  BY <1>5, <1>9 DEF Reading

\* The one line that has the key of a line with a counter and has none itself is
\* too short for the sensor parser, and to the gateway parser the counter is
\* nothing.
LEMMA ShortUnread ==
  ASSUME NEW m \in Lines, NEW n \in Lines, Counted(m), Len(m) = 3, Len(n) = 2,
         n[1] = m[1], n[2] = m[3]
  PROVE  Reading(m) = Reading(n)
<1>1. m \in Seq(Piece) /\ n \in Seq(Piece)
  BY LinesAssumption
<1>2. m[2].val = Bare /\ m[2].key # "PONG" /\ m[1] = Word("20")
  BY LinesAssumption DEF Counted
<1>3. DOMAIN m = 1..3 /\ DOMAIN n = 1..2
  BY <1>1, LenProperties
<1>4. ~SensorDataFromMessage(m).ok /\ ~SensorDataFromMessage(n).ok
  <2>1. LastOf(m, "ID") = "" /\ LastOf(n, "ID") = ""
    BY DEF LastOf
  <2> QED
    BY <1>1, <2>1, SensorParser DEF SensorLine
<1>5. (Word("PONG") \in ToSet(m)) = (Word("PONG") \in ToSet(n))
  <2>1. m[2] # Word("PONG") /\ m[1] # Word("PONG")
    BY <1>2 DEF Word
  <2> QED
    BY <1>3, <2>1 DEF ToSet
<1>6. (\E p \in ToSet(m) : p.key \in EndsInID /\ p.val # Bare)
        <=> (\E p \in ToSet(n) : p.key \in EndsInID /\ p.val # Bare)
  BY <1>2, <1>3 DEF ToSet
<1>7. GatewayFields(m) = GatewayFields(n)
  <2> DEFINE F(l) == {i \in DOMAIN l : l[i].val # Bare}
             At(l, s) == {i \in F(l) : Slot(l[i].key) = s}
             Keys(l) == {Slot(l[i].key) : i \in F(l)}
  <2>1. m[1].val = Bare /\ n[1].val = Bare
    BY <1>2 DEF Word
  <2>2. F(m) = (IF m[3].val = Bare THEN {} ELSE {3}) /\ F(n) = (IF m[3].val = Bare THEN {} ELSE {2})
    BY <1>2, <1>3, <2>1
  <2>3. Keys(m) = Keys(n)
    BY <2>2
  <2>4. ASSUME NEW s \in Keys(m) PROVE m[Max(At(m, s))].val = n[Max(At(n, s))].val
    <3>1. At(m, s) = {3} /\ At(n, s) = {2}
      BY <2>2, <2>4
    <3>2. Max({3}) = 3 /\ Max({2}) = 2
      BY DEF Max
    <3> HIDE DEF At
    <3> QED BY <3>1, <3>2
  <2>5. GatewayFields(m) = [s \in Keys(m) |-> m[Max(At(m, s))].val]
    BY DEF GatewayFields
  <2>6. GatewayFields(n) = [s \in Keys(n) |-> n[Max(At(n, s))].val]
    BY DEF GatewayFields
  <2> HIDE DEF Keys, At, F
  <2> QED BY <2>3, <2>4, <2>5, <2>6
<1>8. ParseGatewayMessage(m) = ParseGatewayMessage(n)
  <2>1. GatewayInfo(m) = GatewayInfo(n)
    BY <1>5, <1>7, Zenon DEF GatewayInfo
  <2> QED
    BY <1>6, <2>1 DEF ParseGatewayMessage
<1> QED
  BY <1>4, <1>8 DEF Reading

\* Lines with one key say the same: what isDuplicate takes for a retransmission
\* would have been handled as the line before was.
LEMMA KeyReading ==
  ASSUME NEW m \in Lines, NEW n \in Lines, DedupKey(m) = DedupKey(n)
  PROVE  Reading(m) = Reading(n)
<1>1. \A l \in Lines : l \in Seq(Piece) /\ Len(l) \in Nat
  BY LinesAssumption, LenProperties
<1>2. ASSUME NEW l \in Lines, Counted(l)
      PROVE  LET k == DedupKey(l) IN
             /\ k \in Seq(Piece) /\ Len(k) = Len(l) - 1 /\ k[1] = l[1]
             /\ \A i \in 3..Len(l) : l[i] = k[i - 1]
  <2> DEFINE t == SubSeq(l, 3, Len(l))
  <2>1. l \in Seq(Piece) /\ Len(l) \in Nat /\ Len(l) >= 3 /\ l[1] \in Piece
    BY <1>1, <1>2, LenProperties DEF Counted
  <2>2. t \in Seq(Piece) /\ Len(t) = Len(l) - 2 /\ \A i \in 1..Len(l) - 2 : t[i] = l[i + 2]
    BY <2>1, SubSeqProperties
  <2>3. DedupKey(l) = <<l[1]>> \o t
    BY <1>2 DEF DedupKey, Counted
  <2> HIDE DEF t
  <2>4. <<l[1]>> \in Seq(Piece) /\ Len(<<l[1]>>) = 1 /\ <<l[1]>>[1] = l[1]
    BY <2>1
  <2>5. /\ <<l[1]>> \o t \in Seq(Piece)
        /\ Len(<<l[1]>> \o t) = Len(l) - 1
        /\ (<<l[1]>> \o t)[1] = l[1]
        /\ \A i \in 3..Len(l) : (<<l[1]>> \o t)[i - 1] = t[i - 2]
    BY <2>1, <2>2, <2>4, ConcatProperties
  <2>6. \A i \in 3..Len(l) : t[i - 2] = l[i]
    BY <2>1, <2>2
  <2> QED
    BY <2>3, <2>5, <2>6
<1>3. ASSUME NEW l \in Lines, ~Counted(l) PROVE DedupKey(l) = l
  BY <1>3 DEF DedupKey, Counted
<1>4. CASE Counted(m) /\ Counted(n)
  <2>1. Len(m) = Len(n) /\ n[1] = m[1] /\ \A i \in 3..Len(m) : m[i] = n[i]
    BY <1>1, <1>2, <1>4
  <2> QED
    BY <1>4, <2>1, CounterUnread
<1>5. CASE ~Counted(m) /\ ~Counted(n)
  BY <1>3, <1>5
<1>6. ASSUME NEW a \in Lines, NEW b \in Lines, Counted(a), ~Counted(b), DedupKey(a) = DedupKey(b)
      PROVE  Reading(a) = Reading(b)
  <2>1. /\ Len(b) = Len(a) - 1 /\ b[1] = a[1] /\ \A i \in 3..Len(a) : a[i] = b[i - 1]
    BY <1>2, <1>3, <1>6
  <2>2. Len(a) = 3 /\ Len(b) = 2
    BY <1>1, <1>6, <2>1 DEF Counted
  <2>3. b[2] = a[3]
    BY <2>1, <2>2
  <2> QED
    BY <1>6, <2>1, <2>2, <2>3, ShortUnread
<1> QED
  BY <1>4, <1>5, <1>6

-----------------------------------------------------------------------------
(* The debounce (LineIntake). *)

\* The loop has a line except between two of them; ages are numbers up to AgeCap.
LoopInv ==
  /\ stage \in {"idle", "hook", "dedup", "publish"}
  /\ stage # "idle" => line \in Lines
  /\ passed \in [Lines -> 0..AgeCap]
  /\ dedupLast = [k \in DOMAIN dedupLast |-> dedupLast[k]]
  /\ \A k \in DOMAIN dedupLast : dedupLast[k] \in 0..AgeCap

\* An entry of dedupLast is of a line that passed then.
EntriesTrue ==
  \A k \in DOMAIN dedupLast : \E m \in Lines : DedupKey(m) = k /\ passed[m] = dedupLast[k]

\* A line that passed within twice the window has an entry not older than that:
\* the pruning takes none of those away.
EntriesKept ==
  \A m \in Lines : passed[m] <= 2 * Window =>
    DedupKey(m) \in DOMAIN dedupLast /\ dedupLast[DedupKey(m)] <= passed[m]

DebounceInv == LoopInv /\ (Window > 0 => EntriesTrue /\ EntriesKept)

\* What Remember makes of dedupLast.
LEMMA RememberProperties ==
  ASSUME LoopInv, NEW k
  PROVE  LET r == Remember(k) IN
         /\ r = [x \in DOMAIN r |-> r[x]]
         /\ DOMAIN r \subseteq DOMAIN dedupLast \cup {k}
         /\ k \in DOMAIN r /\ r[k] = 0
         /\ \A x \in DOMAIN r \ {k} : r[x] = dedupLast[x]
         /\ \A x \in DOMAIN dedupLast : dedupLast[x] <= 2 * Window => x \in DOMAIN r
<1> DEFINE stored == [x \in DOMAIN dedupLast \cup {k} |-> IF x = k THEN 0 ELSE dedupLast[x]]
           young == {x \in DOMAIN stored : stored[x] <= 2 * Window}
<1>1. Remember(k) = IF Cardinality(DOMAIN stored) > PruneAbove THEN [x \in young |-> stored[x]]
                    ELSE stored
  BY DEF Remember
<1>2. DOMAIN stored = DOMAIN dedupLast \cup {k} /\ stored[k] = 0
      /\ \A x \in DOMAIN dedupLast : x # k => stored[x] = dedupLast[x]
  OBVIOUS
<1>3. 0 <= 2 * Window
  BY IntakeAssumption
<1>4. CASE Remember(k) = stored
  BY <1>2, <1>4
<1>5. CASE Remember(k) = [x \in young |-> stored[x]]
  <2>1. DOMAIN Remember(k) = young
    BY <1>5
  <2>2. k \in young /\ young \subseteq DOMAIN dedupLast \cup {k}
    BY <1>2, <1>3
  <2>3. \A x \in young : Remember(k)[x] = stored[x]
    BY <1>5
  <2>4. \A x \in DOMAIN dedupLast : dedupLast[x] <= 2 * Window => x \in young
    BY <1>2, <1>3
  <2> HIDE DEF young, stored
  <2> QED
    BY <1>2, <1>5, <2>1, <2>2, <2>3, <2>4
<1> QED
  BY <1>1, <1>4, <1>5

\* A step that leaves the debounce alone.
LEMMA DebounceUntouched ==
  ASSUME DebounceInv, UNCHANGED <<dedupLast, passed>>,
         stage' \in {"idle", "hook", "dedup", "publish"}, stage' # "idle" => line' \in Lines
  PROVE  DebounceInv'
BY DEF DebounceInv, LoopInv, EntriesTrue, EntriesKept

\* A line that is let through has the entry of its key.
LEMMA DebounceLetThrough ==
  ASSUME DebounceInv, LetThrough
  PROVE  DebounceInv'
<1> DEFINE k == DedupKey(line)
<1>1. line \in Lines /\ Window \in Nat /\ AgeCap \in Nat
  BY IntakeAssumption DEF DebounceInv, LoopInv, LetThrough, AgeCap
<1>2. passed' \in [Lines -> 0..AgeCap] /\ passed'[line] = 0
      /\ \A m \in Lines \ {line} : passed'[m] = passed[m]
  BY <1>1 DEF DebounceInv, LoopInv, LetThrough
<1>3. CASE Window > 0
  <2>1. dedupLast' = Remember(k)
    BY <1>3 DEF LetThrough
  <2>2. /\ dedupLast' = [x \in DOMAIN dedupLast' |-> dedupLast'[x]]
        /\ DOMAIN dedupLast' \subseteq DOMAIN dedupLast \cup {k}
        /\ k \in DOMAIN dedupLast' /\ dedupLast'[k] = 0
        /\ \A x \in DOMAIN dedupLast' \ {k} : dedupLast'[x] = dedupLast[x]
        /\ \A x \in DOMAIN dedupLast : dedupLast[x] <= 2 * Window => x \in DOMAIN dedupLast'
    BY <2>1, RememberProperties DEF DebounceInv
  <2>3. LoopInv'
    BY <1>1, <1>2, <2>2 DEF DebounceInv, LoopInv, LetThrough
  <2>4. EntriesTrue'
    <3> SUFFICES ASSUME NEW x \in DOMAIN dedupLast'
                 PROVE  \E m \in Lines : DedupKey(m) = x /\ passed'[m] = dedupLast'[x]
      BY DEF EntriesTrue
    <3>1. CASE x = k
      BY <1>1, <1>2, <2>2, <3>1
    <3>2. CASE x # k
      <4>1. PICK m \in Lines : DedupKey(m) = x /\ passed[m] = dedupLast[x]
        BY <1>3, <2>2, <3>2 DEF DebounceInv, EntriesTrue
      <4> QED
        BY <1>2, <2>2, <3>2, <4>1
    <3> QED
      BY <3>1, <3>2
  <2>5. EntriesKept'
    <3> SUFFICES ASSUME NEW m \in Lines, passed'[m] <= 2 * Window
                 PROVE  DedupKey(m) \in DOMAIN dedupLast' /\ dedupLast'[DedupKey(m)] <= passed'[m]
      BY DEF EntriesKept
    <3>1. CASE DedupKey(m) = k
      BY <1>1, <1>2, <2>2, <3>1
    <3>2. CASE DedupKey(m) # k
      <4>1. passed'[m] = passed[m] /\ passed[m] \in 0..AgeCap
        BY <1>2, <3>2 DEF DebounceInv, LoopInv
      <4>2. DedupKey(m) \in DOMAIN dedupLast /\ dedupLast[DedupKey(m)] <= passed[m]
            /\ dedupLast[DedupKey(m)] \in 0..AgeCap
        BY <1>3, <4>1 DEF DebounceInv, EntriesKept, LoopInv
      <4>3. dedupLast[DedupKey(m)] <= 2 * Window
        BY <1>1, <4>1, <4>2
      <4> QED
        BY <2>2, <3>2, <4>1, <4>2, <4>3
    <3> QED
      BY <3>1, <3>2
  <2> QED
    BY <2>3, <2>4, <2>5 DEF DebounceInv
<1>4. CASE ~(Window > 0)
  BY <1>1, <1>2, <1>4 DEF DebounceInv, LoopInv, LetThrough
<1> QED
  BY <1>3, <1>4

\* A tick makes entries and passages older alike.
LEMMA DebounceTick ==
  ASSUME DebounceInv, Tick
  PROVE  DebounceInv'
<1>1. AgeCap \in Nat /\ AgeCap = 2 * Window + 1 /\ Window \in Nat
  BY IntakeAssumption DEF AgeCap
<1>2. \A a \in 0..AgeCap : Older(a) \in 0..AgeCap
  BY <1>1 DEF Older
<1>3. \A a, b \in 0..AgeCap :
        Older(b) <= 2 * Window => b <= 2 * Window /\ (a <= b => Older(a) <= Older(b))
  BY <1>1 DEF Older
<1>4. /\ DOMAIN dedupLast' = DOMAIN dedupLast
      /\ dedupLast' = [x \in DOMAIN dedupLast' |-> dedupLast'[x]]
      /\ \A x \in DOMAIN dedupLast : dedupLast'[x] = Older(dedupLast[x])
      /\ passed' = [m \in Lines |-> Older(passed[m])]
      /\ stage' = stage /\ line' = line
  BY DEF Tick
<1> HIDE DEF Older
<1>5. LoopInv'
  BY <1>2, <1>4 DEF DebounceInv, LoopInv
<1>6. ASSUME Window > 0 PROVE EntriesTrue'
  BY <1>4, <1>6 DEF DebounceInv, EntriesTrue
<1>7. ASSUME Window > 0 PROVE EntriesKept'
  <2> SUFFICES ASSUME NEW m \in Lines, Older(passed[m]) <= 2 * Window
               PROVE  DedupKey(m) \in DOMAIN dedupLast
                      /\ Older(dedupLast[DedupKey(m)]) <= Older(passed[m])
    BY <1>4 DEF EntriesKept
  <2>1. passed[m] \in 0..AgeCap
    BY DEF DebounceInv, LoopInv
  <2>2. passed[m] <= 2 * Window
    BY <1>3, <2>1
  <2>3. DedupKey(m) \in DOMAIN dedupLast /\ dedupLast[DedupKey(m)] <= passed[m]
        /\ dedupLast[DedupKey(m)] \in 0..AgeCap
    BY <1>7, <2>2 DEF DebounceInv, EntriesKept, LoopInv
  <2> QED
    BY <1>3, <2>1, <2>3
<1> QED
  BY <1>5, <1>6, <1>7 DEF DebounceInv

\* DebounceInv is inductive.
LEMMA DebounceAlways == Spec => []DebounceInv
<1>1. Init => DebounceInv
  <2> SUFFICES ASSUME Init PROVE DebounceInv
    OBVIOUS
  <2>1. AgeCap \in Nat /\ AgeCap = 2 * Window + 1 /\ Window \in Nat
    BY IntakeAssumption DEF AgeCap
  <2>2. LoopInv
    BY <2>1 DEF Init, LoopInv
  <2>3. EntriesTrue
    BY DEF Init, EntriesTrue
  <2>4. EntriesKept
    BY <2>1 DEF Init, EntriesKept
  <2> QED
    BY <2>2, <2>3, <2>4 DEF DebounceInv
<1>2. DebounceInv /\ [Next]_vars => DebounceInv'
  <2> SUFFICES ASSUME DebounceInv, [Next]_vars PROVE DebounceInv'
    OBVIOUS
  <2>0. stage \in {"idle", "hook", "dedup", "publish"} /\ (stage # "idle" => line \in Lines)
    BY DEF DebounceInv, LoopInv
  <2>1. CASE AppendRawLine
    BY <2>1, DebounceUntouched DEF AppendRawLine
  <2>2. CASE Broadcast
    BY <2>0, <2>2, DebounceUntouched DEF Broadcast
  <2>3. CASE DropDuplicate \/ Publish
    BY <2>3, DebounceUntouched DEF DropDuplicate, Publish
  <2>4. CASE LetThrough
    BY <2>4, DebounceLetThrough
  <2>5. CASE Tick
    BY <2>5, DebounceTick
  <2>6. CASE \E c \in Clients : Client(c)
    <3>1. UNCHANGED <<stage, line, dedupLast, passed>>
      BY <2>6 DEF Client, Subscribe, Hello, SendLine, Close, Unsubscribe
    <3> QED
      BY <2>0, <3>1, DebounceUntouched
  <2>7. CASE UNCHANGED vars
    BY <2>0, <2>7, DebounceUntouched DEF vars
  <2> QED
    BY <2>1, <2>2, <2>3, <2>4, <2>5, <2>6, <2>7 DEF Next, LoopStep
<1> QED
  BY <1>1, <1>2, PTL DEF Spec

\* What DedupExact says of a step.
ExactDrop ==
  stage = "dedup" /\ stage' # "dedup" =>
    LET recent == {m \in Lines : passed[m] < Window} IN
    /\ stage' = "idle" => \E m \in recent : Reading(m) = Reading(line)
    /\ (\E m \in recent : Retransmit(m, line)) => stage' = "idle"

\* isDuplicate drops every retransmission of a line that passed less than the
\* window ago, and nothing that would not have been read as such a line was; for
\* every window, every size at which dedupLast is pruned, and all lines.
THEOREM DebounceCorrect == Spec => DedupExact
<1>1. DebounceInv /\ [Next]_vars => [ExactDrop]_vars
  <2> DEFINE recent == {m \in Lines : passed[m] < Window}
  <2> SUFFICES ASSUME DebounceInv, [Next]_vars, stage = "dedup", stage' # "dedup"
               PROVE  /\ stage' = "idle" => \E m \in recent : Reading(m) = Reading(line)
                      /\ (\E m \in recent : Retransmit(m, line)) => stage' = "idle"
    BY DEF ExactDrop
  <2>0. line \in Lines /\ Window \in Nat /\ passed \in [Lines -> 0..AgeCap]
    BY IntakeAssumption DEF DebounceInv, LoopInv
  <2>1. DropDuplicate \/ LetThrough
    BY DEF Next, LoopStep, AppendRawLine, Broadcast, Publish, Tick, Client, Subscribe, Hello,
           SendLine, Close, Unsubscribe, vars
  <2>2. ASSUME stage' = "idle" PROVE \E m \in recent : Reading(m) = Reading(line)
    <3>1. Duplicate
      BY <2>1, <2>2 DEF DropDuplicate, LetThrough
    <3>2. PICK m \in Lines : DedupKey(m) = DedupKey(line) /\ passed[m] = dedupLast[DedupKey(line)]
      BY <3>1 DEF Duplicate, DebounceInv, EntriesTrue
    <3>3. m \in recent
      BY <3>1, <3>2 DEF Duplicate
    <3>4. Reading(m) = Reading(line)
      BY <2>0, <3>2, KeyReading
    <3> QED
      BY <3>3, <3>4
  <2>3. ASSUME NEW m \in recent, Retransmit(m, line) PROVE stage' = "idle"
    <3>1. m \in Lines /\ passed[m] < Window /\ passed[m] \in 0..AgeCap
      BY <2>0
    <3>2. Window > 0 /\ passed[m] <= 2 * Window
      BY <2>0, <3>1
    <3>3. DedupKey(m) = DedupKey(line)
      BY <2>0, <2>3, <3>1, RetransmitKey
    <3>4. /\ DedupKey(line) \in DOMAIN dedupLast /\ dedupLast[DedupKey(line)] <= passed[m]
          /\ dedupLast[DedupKey(line)] \in 0..AgeCap
      BY <3>1, <3>2, <3>3 DEF DebounceInv, EntriesKept, LoopInv
    <3>5. Duplicate
      BY <2>0, <3>1, <3>2, <3>4 DEF Duplicate
    <3> QED
      BY <2>1, <3>5 DEF DropDuplicate, LetThrough
  <2> QED
    BY <2>2, <2>3
<1> QED
  BY <1>1, DebounceAlways, PTL DEF Spec, DedupExact, ExactDrop

-----------------------------------------------------------------------------
(* The feed of the raw page (LineIntake). *)

\* Where l does not rise.
Falls(l) == {i \in 1..Len(l) - 1 : l[i] >= l[i + 1]}

\* From each of its lines on, l has every line up to o, but for those in L.
Complete(l, L, o) ==
  \A i \in 1..Len(l) : \A n \in l[i]..o : n \in L \/ \E j \in i..Len(l) : l[j] = n

\* s is l without its first k lines; l starts with s.
Ends(s, l, k) == \A i \in 1..Len(s) : s[i] = l[k + i]
Starts(l, s) == \A i \in 1..Len(s) : l[i] = s[i]

AtMost(l, o) == \A i \in 1..Len(l) : l[i] <= o
FallsOnce(l) == \A i, j \in Falls(l) : i = j

\* What each page has or is going to get.
Feed(c) == list[c] \o chan[c]

\* The variables of the feed have their types; a page is not open without a
\* subscription, and a channel without one is empty.
FeedTypes ==
  /\ stage \in {"idle", "hook", "dedup", "publish"}
  /\ total \in Nat /\ rawLines \in Seq(Nat) /\ subs \subseteq Clients
  /\ page \in [Clients -> {"off", "open", "live"}]
  /\ chan \in [Clients -> Seq(Nat)] /\ list \in [Clients -> Seq(Nat)]
  /\ lost \in [Clients -> SUBSET Nat] /\ since \in [Clients -> Nat]
  /\ \A c \in Clients : c \notin subs => page[c] = "off" /\ chan[c] = << >>

\* The buffer has the last lines, all of them and in their order.
RawLast ==
  /\ Len(rawLines) = IF total > RawCap THEN RawCap ELSE total
  /\ \A i \in 1..Len(rawLines) : rawLines[i] = total - Len(rawLines) + i

\* A channel rises, and from its first line on nothing is missing but what was
\* lost.
ChannelOK(c) ==
  /\ AtMost(chan[c], Offered) /\ Falls(chan[c]) = {}
  /\ Complete(chan[c], lost[c], Offered)

\* A live page has, from each line on, all that follow, and falls back once at
\* most; and not yet, while it ends with a line that was not broadcast.
PageOK(c) ==
  page[c] = "live" =>
    /\ AtMost(Feed(c), total) /\ FallsOnce(Feed(c)) /\ Complete(Feed(c), lost[c], Offered)
    /\ Len(Feed(c)) > 0 /\ Feed(c)[Len(Feed(c))] > Offered => Falls(Feed(c)) = {}
    /\ since[c]..Offered \subseteq ToSet(Feed(c)) \cup lost[c]

FeedInv == FeedTypes /\ RawLast /\ \A c \in Clients : ChannelOK(c) /\ PageOK(c)

\* A step of one sequence to the end of another: what is dropped is its beginning.
LEMMA SuffixProperties ==
  ASSUME NEW l \in Seq(Nat), NEW s \in Seq(Nat), NEW k \in Nat, NEW L, NEW o \in Int,
         Len(s) = Len(l) - k, Ends(s, l, k)
  PROVE  /\ \A p \in Int : AtMost(l, p) => AtMost(s, p)
         /\ Falls(l) = {} => Falls(s) = {}
         /\ FallsOnce(l) => FallsOnce(s)
         /\ Complete(l, L, o) => Complete(s, L, o)
<1>1. Len(l) \in Nat /\ Len(s) \in Nat
  BY LenProperties
<1>2. \A i \in 1..Len(s) : k + i \in 1..Len(l) /\ s[i] = l[k + i]
  BY <1>1 DEF Ends
<1>3. \A p \in Int : AtMost(l, p) => AtMost(s, p)
  BY <1>2 DEF AtMost
<1>4. \A i \in Falls(s) : i \in Int /\ k + i \in Falls(l)
  <2> SUFFICES ASSUME NEW i \in 1..Len(s) - 1, s[i] >= s[i + 1] PROVE k + i \in Falls(l)
    BY <1>1 DEF Falls
  <2>1. s[i] = l[k + i] /\ s[i + 1] = l[k + (i + 1)] /\ k + (i + 1) = (k + i) + 1
    BY <1>1, <1>2
  <2>2. k + i \in 1..Len(l) - 1
    BY <1>1
  <2> QED
    BY <2>1, <2>2 DEF Falls
<1>5. FallsOnce(l) => FallsOnce(s)
  <2> SUFFICES ASSUME FallsOnce(l), NEW i \in Falls(s), NEW j \in Falls(s) PROVE i = j
    BY DEF FallsOnce
  <2>1. k + i = k + j
    BY <1>4 DEF FallsOnce
  <2> QED
    BY <1>4, <2>1
<1>6. Complete(l, L, o) => Complete(s, L, o)
  <2> SUFFICES ASSUME Complete(l, L, o), NEW i \in 1..Len(s), NEW n \in s[i]..o, n \notin L
               PROVE  \E j \in i..Len(s) : s[j] = n
    BY DEF Complete
  <2>1. PICK j \in k + i..Len(l) : l[j] = n
    BY <1>2 DEF Complete
  <2>2. j - k \in i..Len(s) /\ j - k \in 1..Len(s) /\ k + (j - k) = j
    BY <1>1
  <2> QED
    BY <1>2, <2>1, <2>2
<1> QED
  BY <1>3, <1>4, <1>5, <1>6

\* The next line, t, comes to the end of a sequence that has none after it, or is
\* lost to it.
LEMMA NextLine ==
  ASSUME NEW l \in Seq(Nat), NEW t \in Nat, NEW L, Complete(l, L, t - 1)
  PROVE  /\ Complete(Append(l, t), L, t)
         /\ Complete(l, L \cup {t}, t)
         /\ AtMost(l, t) => AtMost(Append(l, t), t)
         /\ AtMost(l, t - 1) /\ Falls(l) = {} => Falls(Append(l, t)) = {}
         /\ FallsOnce(l) /\ (Len(l) > 0 /\ l[Len(l)] > t - 1 => Falls(l) = {})
              => FallsOnce(Append(l, t))
<1> DEFINE a == Append(l, t)
<1>1. /\ Len(l) \in Nat /\ a \in Seq(Nat) /\ Len(a) = Len(l) + 1 /\ a[Len(l) + 1] = t
      /\ \A i \in 1..Len(l) : a[i] = l[i] /\ l[i] \in Nat
  BY LenProperties, AppendProperties, ElementOfSeq
<1> HIDE DEF a
<1>2. Complete(a, L, t)
  <2> SUFFICES ASSUME NEW i \in 1..Len(a), NEW n \in a[i]..t, n \notin L
               PROVE  \E j \in i..Len(a) : a[j] = n
    BY DEF Complete
  <2>1. CASE n = t
    <3>1. Len(l) + 1 \in i..Len(a)
      BY <1>1
    <3> QED
      BY <1>1, <2>1, <3>1
  <2>2. CASE n # t
    <3>1. i \in 1..Len(l) /\ n \in l[i]..t - 1
      BY <1>1, <2>2
    <3>2. PICK j \in i..Len(l) : l[j] = n
      BY <3>1 DEF Complete
    <3> QED
      BY <1>1, <3>1, <3>2
  <2> QED
    BY <2>1, <2>2
<1>3. Complete(l, L \cup {t}, t)
  <2> SUFFICES ASSUME NEW i \in 1..Len(l), NEW n \in l[i]..t, n \notin L, n # t
               PROVE  \E j \in i..Len(l) : l[j] = n
    BY DEF Complete
  <2>1. l[i] \in Nat
    BY <1>1
  <2>2. n \in l[i]..t - 1
    BY <2>1
  <2>3. \A d \in 1..Len(l) : \A x \in l[d]..t - 1 :
          x \in L \/ \E j \in d..Len(l) : l[j] = x
    BY Zenon DEF Complete
  <2> QED
    BY <2>2, <2>3, Zenon
<1>4. ASSUME AtMost(l, t) PROVE AtMost(a, t)
  <2> SUFFICES ASSUME NEW i \in 1..Len(a) PROVE a[i] <= t
    BY DEF AtMost
  <2>1. CASE i \in 1..Len(l)
    BY <1>1, <1>4, <2>1 DEF AtMost
  <2>2. CASE i \notin 1..Len(l)
    <3>1. i = Len(l) + 1
      BY <1>1, <2>2
    <3> QED
      BY <1>1, <3>1
  <2> QED
    BY <2>1, <2>2
<1>5. \A i \in Falls(a) : i \in Falls(l) \/ (i = Len(l) /\ Len(l) > 0 /\ l[i] >= t)
  <2> SUFFICES ASSUME NEW i \in 1..Len(a) - 1, a[i] >= a[i + 1]
               PROVE  i \in Falls(l) \/ (i = Len(l) /\ Len(l) > 0 /\ l[i] >= t)
    BY DEF Falls
  <2>1. CASE i = Len(l)
    BY <1>1, <2>1
  <2>2. CASE i # Len(l)
    <3>1. i \in 1..Len(l) - 1 /\ i \in 1..Len(l) /\ i + 1 \in 1..Len(l)
      BY <1>1, <2>2
    <3>2. a[i] = l[i] /\ a[i + 1] = l[i + 1]
      BY <1>1, <3>1
    <3>3. l[i] >= l[i + 1]
      BY <3>2
    <3> QED
      BY <3>1, <3>3 DEF Falls
  <2> QED
    BY <2>1, <2>2
<1>6. AtMost(l, t - 1) /\ Falls(l) = {} => Falls(a) = {}
  <2>1. AtMost(l, t - 1) /\ Len(l) > 0 => l[Len(l)] <= t - 1 /\ l[Len(l)] \in Nat
    BY <1>1 DEF AtMost
  <2> QED
    BY <1>5, <2>1
<1>7. ASSUME FallsOnce(l), Len(l) > 0 /\ l[Len(l)] > t - 1 => Falls(l) = {} PROVE FallsOnce(a)
  <2>0. Len(l) > 0 => l[Len(l)] \in Nat
    BY <1>1
  <2>1. CASE Len(l) > 0 /\ l[Len(l)] > t - 1
    BY <1>5, <1>7, <2>1 DEF FallsOnce
  <2>2. CASE ~(Len(l) > 0 /\ l[Len(l)] > t - 1)
    BY <2>0, <1>5, <1>7, <2>2 DEF FallsOnce
  <2> QED
    BY <2>1, <2>2
<1> QED
  BY <1>2, <1>3, <1>4, <1>6, <1>7 DEF a

\* What a client has is as good as it was when nothing of it changes.
LEMMA ClientUntouched ==
  ASSUME NEW c \in Clients, ChannelOK(c), PageOK(c), Offered' = Offered, total' = total,
         page'[c] = page[c] \/ page'[c] # "live",
         list'[c] = list[c], chan'[c] = chan[c], lost'[c] = lost[c], since'[c] = since[c]
  PROVE  ChannelOK(c)' /\ PageOK(c)'
<1>1. ChannelOK(c)'
  BY DEF ChannelOK
<1>2. Feed(c)' = Feed(c)
  BY DEF Feed
<1>3. PageOK(c)'
  BY <1>2 DEF PageOK
<1> QED
  BY <1>1, <1>3

\* A step that changes neither the lines nor the feed, away from the broadcast.
LEMMA FeedUntouched ==
  ASSUME FeedInv, UNCHANGED <<total, rawLines, feed>>, Offered' = Offered,
         stage' \in {"idle", "hook", "dedup", "publish"}
  PROVE  FeedInv'
<1>1. FeedTypes' /\ RawLast'
  BY DEF FeedInv, FeedTypes, RawLast, feed
<1>2. \A c \in Clients : ChannelOK(c)' /\ PageOK(c)'
  BY ClientUntouched DEF FeedInv, feed
<1> QED
  BY <1>1, <1>2 DEF FeedInv

\* appendRawLine: the buffer has the last lines again, and nobody was offered the
\* new one yet.
LEMMA FeedAppendRawLine ==
  ASSUME FeedInv, AppendRawLine
  PROVE  FeedInv'
<1>1. /\ total \in Nat /\ total' = total + 1 /\ Offered = total /\ Offered' = total
      /\ rawLines \in Seq(Nat) /\ Len(rawLines) \in Nat /\ RawCap \in Nat \ {0}
  BY IntakeAssumption, LenProperties DEF FeedInv, FeedTypes, AppendRawLine, Offered
<1>2. RawLast' /\ rawLines' \in Seq(Nat)
  <2>1. CASE Len(rawLines) >= RawCap
    <3> DEFINE t == Tail(rawLines)
    <3>1. rawLines # << >> /\ Len(rawLines) = RawCap /\ total >= RawCap
      BY <1>1, <2>1 DEF FeedInv, RawLast
    <3>2. t \in Seq(Nat) /\ Len(t) = RawCap - 1 /\ \A i \in 1..RawCap - 1 : t[i] = rawLines[i + 1]
      BY <1>1, <3>1, HeadTailProperties
    <3>3. rawLines' = Append(t, total + 1)
      BY <1>1, <2>1 DEF AppendRawLine, Ring
    <3> HIDE DEF t
    <3>4. /\ rawLines' \in Seq(Nat) /\ Len(rawLines') = RawCap
          /\ rawLines'[RawCap] = total + 1
          /\ \A i \in 1..RawCap - 1 : rawLines'[i] = t[i]
      BY <1>1, <3>2, <3>3, AppendProperties
    <3>5. \A i \in 1..RawCap - 1 : rawLines[i + 1] = total - RawCap + (i + 1)
      BY <1>1, <3>1 DEF FeedInv, RawLast
    <3>6. \A i \in 1..RawCap : rawLines'[i] = (total + 1) - RawCap + i
      <4> SUFFICES ASSUME NEW i \in 1..RawCap PROVE rawLines'[i] = (total + 1) - RawCap + i
        OBVIOUS
      <4>1. CASE i = RawCap
        BY <1>1, <3>4, <4>1
      <4>2. CASE i \in 1..RawCap - 1
        BY <1>1, <3>2, <3>4, <3>5, <4>2
      <4> QED
        BY <1>1, <4>1, <4>2
    <3> QED
      BY <1>1, <3>1, <3>4, <3>6 DEF RawLast
  <2>2. CASE Len(rawLines) < RawCap
    <3>1. Len(rawLines) = total /\ total < RawCap
      BY <1>1, <2>2 DEF FeedInv, RawLast
    <3>2. rawLines' = Append(rawLines, total + 1)
      BY <1>1, <2>2 DEF AppendRawLine, Ring
    <3>3. /\ rawLines' \in Seq(Nat) /\ Len(rawLines') = total + 1
          /\ rawLines'[total + 1] = total + 1
          /\ \A i \in 1..total : rawLines'[i] = rawLines[i]
      BY <1>1, <3>1, <3>2, AppendProperties
    <3>4. \A i \in 1..total : rawLines[i] = i
      BY <1>1, <3>1 DEF FeedInv, RawLast
    <3>5. \A i \in 1..total + 1 : rawLines'[i] = i
      BY <1>1, <3>3, <3>4
    <3> QED
      BY <1>1, <3>1, <3>3, <3>5 DEF RawLast
  <2> QED
    BY <1>1, <2>1, <2>2
<1>3. FeedTypes'
  BY <1>1, <1>2 DEF FeedInv, FeedTypes, AppendRawLine, feed
<1>4. ASSUME NEW c \in Clients PROVE ChannelOK(c)' /\ PageOK(c)'
  <2>1. ChannelOK(c) /\ PageOK(c) /\ UNCHANGED feed
    BY DEF FeedInv, AppendRawLine
  <2>2. ChannelOK(c)'
    BY <1>1, <2>1 DEF ChannelOK, feed
  <2>3. Feed(c)' = Feed(c) /\ Feed(c) \in Seq(Nat)
    BY <2>1, ConcatProperties DEF Feed, feed, FeedInv, FeedTypes
  <2>4. AtMost(Feed(c), total) => AtMost(Feed(c), total + 1)
    <3>1. \A i \in 1..Len(Feed(c)) : Feed(c)[i] \in Nat
      BY <2>3, ElementOfSeq
    <3> QED
      BY <1>1, <3>1 DEF AtMost
  <2>5. PageOK(c)'
    BY <1>1, <2>1, <2>3, <2>4 DEF PageOK, feed
  <2> QED
    BY <2>2, <2>5
<1> QED
  BY <1>2, <1>3, <1>4 DEF FeedInv

\* A line put behind the second of two sequences is behind both.
LEMMA ConcatAppend ==
  ASSUME NEW a \in Seq(Nat), NEW b \in Seq(Nat), NEW t \in Nat
  PROVE  a \o Append(b, t) = Append(a \o b, t)
<1> DEFINE p == Append(b, t)
           x == a \o p
           y == Append(a \o b, t)
<1>1. Len(a) \in Nat /\ Len(b) \in Nat
  BY LenProperties
<1>2. /\ p \in Seq(Nat) /\ Len(p) = Len(b) + 1
      /\ \A i \in 1..Len(b) : p[i] = b[i]
      /\ p[Len(b) + 1] = t
  BY AppendProperties
<1> HIDE DEF p
<1>3. /\ x \in Seq(Nat) /\ Len(x) = Len(a) + Len(p)
      /\ \A i \in 1..Len(a) + Len(p) :
           x[i] = IF i <= Len(a) THEN a[i] ELSE p[i - Len(a)]
  BY <1>2, ConcatProperties
<1>4. /\ a \o b \in Seq(Nat) /\ Len(a \o b) = Len(a) + Len(b)
      /\ \A i \in 1..Len(a) + Len(b) : (a \o b)[i] = IF i <= Len(a) THEN a[i] ELSE b[i - Len(a)]
  BY ConcatProperties
<1>5. /\ y \in Seq(Nat) /\ Len(y) = Len(a) + Len(b) + 1 /\ y[Len(a) + Len(b) + 1] = t
      /\ \A i \in 1..Len(a) + Len(b) : y[i] = (a \o b)[i]
  BY <1>4, AppendProperties
<1> HIDE DEF x, y
<1>6. ASSUME NEW i \in 1..Len(x) PROVE x[i] = y[i]
  <2>1. CASE i = Len(a) + Len(b) + 1
    <3>1. i \in 1..Len(a) + Len(p) /\ ~(i <= Len(a)) /\ i - Len(a) = Len(b) + 1
      BY <1>1, <1>2, <2>1
    <3>2. x[i] = p[i - Len(a)]
      BY <1>3, <3>1
    <3> QED
      BY <1>2, <1>5, <2>1, <3>1, <3>2
  <2>2. CASE i \in 1..Len(a)
    <3>1. i <= Len(a) /\ i \in 1..Len(a) + Len(b) /\ i \in 1..Len(a) + Len(p)
      BY <1>1, <1>2, <2>2
    <3>2. x[i] = a[i]
      BY <1>3, <3>1
    <3>3. y[i] = a[i]
      BY <1>4, <1>5, <3>1
    <3> QED
      BY <3>2, <3>3
  <2>3. CASE i \in Len(a) + 1..Len(a) + Len(b)
    <3>1. /\ i - Len(a) \in 1..Len(b) /\ ~(i <= Len(a)) /\ i \in 1..Len(a) + Len(b)
          /\ i \in 1..Len(a) + Len(p)
      BY <1>1, <1>2, <2>3
    <3>2. y[i] = b[i - Len(a)]
      BY <1>4, <1>5, <3>1
    <3>3. x[i] = p[i - Len(a)]
      BY <1>3, <3>1
    <3> QED
      BY <1>2, <3>1, <3>2, <3>3
  <2> QED
    <3>1. i \in 1..Len(a) + Len(b) + 1
      BY <1>1, <1>2, <1>3
    <3>2. i = Len(a) + Len(b) + 1 \/ i \in 1..Len(a) \/ i \in Len(a) + 1..Len(a) + Len(b)
      BY <1>1, <3>1
    <3> QED
      BY <2>1, <2>2, <2>3, <3>2
<1>7. Len(x) = Len(y)
  BY <1>1, <1>2, <1>3, <1>5
<1>8. x = y
  BY <1>3, <1>5, <1>6, <1>7, SeqEqual
<1> QED
  BY <1>8 DEF p, x, y

\* An empty channel has nothing wrong with it.
LEMMA EmptyChannel ==
  ASSUME NEW c, chan[c] = << >>
  PROVE  ChannelOK(c)
<1>1. Len(chan[c]) = 0
  BY EmptySeq
<1> QED
  BY <1>1 DEF ChannelOK, AtMost, Falls, Complete

\* broadcast: the line comes to the end of every feed, or is lost to it.
LEMMA FeedBroadcast ==
  ASSUME FeedInv, Broadcast
  PROVE  FeedInv'
<1>1. /\ total \in Nat /\ total' = total /\ rawLines' = rawLines
      /\ Offered = total - 1 /\ Offered' = total
  BY DEF FeedInv, FeedTypes, Broadcast, Offered
<1>2. FeedTypes'
  <2>1. chan' \in [Clients -> Seq(Nat)]
    <3>1. \A c \in Clients : Append(chan[c], total) \in Seq(Nat)
      BY <1>1, AppendProperties DEF FeedInv, FeedTypes
    <3> QED
      BY <3>1 DEF Broadcast, FeedInv, FeedTypes
  <2>2. lost' \in [Clients -> SUBSET Nat]
    BY <1>1 DEF Broadcast, FeedInv, FeedTypes
  <2>3. \A c \in Clients : c \notin subs => chan'[c] = << >>
    BY DEF Broadcast, FeedInv, FeedTypes
  <2> QED
    BY <1>1, <2>1, <2>2, <2>3 DEF Broadcast, FeedInv, FeedTypes
<1>3. RawLast'
  BY <1>1 DEF RawLast, FeedInv
<1>4. ASSUME NEW c \in Clients PROVE ChannelOK(c)' /\ PageOK(c)'
  <2>1. /\ ChannelOK(c) /\ PageOK(c) /\ chan[c] \in Seq(Nat) /\ list[c] \in Seq(Nat)
        /\ page'[c] = page[c] /\ list'[c] = list[c] /\ since'[c] = since[c] /\ since[c] \in Nat
    BY DEF FeedInv, FeedTypes, Broadcast
  <2>2. Feed(c) \in Seq(Nat) /\ Len(Feed(c)) \in Nat /\ \A i \in 1..Len(Feed(c)) : Feed(c)[i] \in Nat
    BY <2>1, ConcatProperties, ElementOfSeq, LenProperties DEF Feed
  <2>3. Len(chan[c]) \in Nat /\ \A i \in 1..Len(chan[c]) : chan[c][i] \in Nat
    BY <2>1, ElementOfSeq, LenProperties
  <2>4. AtMost(chan[c], total - 1) => AtMost(chan[c], total)
    BY <1>1, <2>3 DEF AtMost
  <2>5. CASE c \in subs /\ ~Full(c)
    <3>1. chan'[c] = Append(chan[c], total) /\ lost'[c] = lost[c]
      BY <2>5 DEF Broadcast
    <3>2. ChannelOK(c)'
      BY <1>1, <2>1, <2>4, <3>1, NextLine DEF ChannelOK
    <3>3. Feed(c)' = Append(Feed(c), total)
      <4>1. list[c] \o Append(chan[c], total) = Append(list[c] \o chan[c], total)
        BY <1>1, <2>1, ConcatAppend
      <4> QED
        BY <2>1, <3>1, <4>1 DEF Feed
    <3>4. ASSUME page[c] = "live"
          PROVE  /\ AtMost(Append(Feed(c), total), total) /\ FallsOnce(Append(Feed(c), total))
                 /\ Complete(Append(Feed(c), total), lost[c], total)
      BY <1>1, <2>1, <2>2, <3>4, NextLine DEF PageOK
    <3>5. /\ Len(Append(Feed(c), total)) = Len(Feed(c)) + 1
          /\ Append(Feed(c), total)[Len(Feed(c)) + 1] = total
          /\ \A i \in 1..Len(Feed(c)) : Append(Feed(c), total)[i] = Feed(c)[i]
          /\ Append(Feed(c), total) \in Seq(Nat)
      BY <1>1, <2>2, AppendProperties
    <3>6. ToSet(Feed(c)) \cup {total} \subseteq ToSet(Append(Feed(c), total))
      <4>1. DOMAIN Feed(c) = 1..Len(Feed(c))
            /\ DOMAIN Append(Feed(c), total) = 1..Len(Feed(c)) + 1
        BY <2>2, <3>5, LenProperties
      <4> QED
        BY <2>2, <3>5, <4>1 DEF ToSet
    <3>7. ASSUME page[c] = "live"
          PROVE  since[c]..total \subseteq ToSet(Append(Feed(c), total)) \cup lost[c]
      <4>1. since[c]..total \subseteq since[c]..(total - 1) \cup {total}
        BY <1>1, <2>1
      <4> QED
        BY <1>1, <2>1, <3>6, <3>7, <4>1 DEF PageOK
    <3>8. PageOK(c)'
      BY <1>1, <2>1, <3>1, <3>3, <3>4, <3>5, <3>7 DEF PageOK
    <3> QED
      BY <3>2, <3>8
  <2>6. CASE c \in subs /\ Full(c)
    <3>1. chan'[c] = chan[c] /\ lost'[c] = lost[c] \cup {total} /\ Feed(c)' = Feed(c)
      BY <2>1, <2>6 DEF Broadcast, Feed
    <3>2. ChannelOK(c)'
      <4>1. Complete(chan[c], lost[c] \cup {total}, total)
        BY <1>1, <2>1, NextLine DEF ChannelOK
      <4> QED
        BY <1>1, <2>1, <2>4, <3>1, <4>1 DEF ChannelOK
    <3>3. ASSUME page[c] = "live"
          PROVE  Complete(Feed(c), lost[c] \cup {total}, total)
      BY <1>1, <2>1, <2>2, <3>3, NextLine DEF PageOK
    <3>4. ASSUME page[c] = "live"
          PROVE  since[c]..total \subseteq ToSet(Feed(c)) \cup (lost[c] \cup {total})
      <4>1. since[c]..total \subseteq since[c]..(total - 1) \cup {total}
        BY <1>1, <2>1
      <4> QED
        BY <1>1, <2>1, <3>4, <4>1 DEF PageOK
    <3>5. AtMost(Feed(c), total) /\ Len(Feed(c)) > 0 => ~(Feed(c)[Len(Feed(c))] > total)
      BY <1>1, <2>2 DEF AtMost
    <3>6. PageOK(c)'
      BY <1>1, <2>1, <3>1, <3>3, <3>4, <3>5 DEF PageOK
    <3> QED
      BY <3>2, <3>6
  <2>7. CASE c \notin subs
    <3>1. page[c] = "off" /\ chan'[c] = << >>
      BY <2>7 DEF FeedInv, FeedTypes, Broadcast
    <3>2. PageOK(c)'
      BY <2>1, <3>1 DEF PageOK
    <3>3. ChannelOK(c)'
      <4>1. Len(chan'[c]) = 0
        BY <3>1, EmptySeq
      <4> QED
        BY <4>1 DEF ChannelOK, AtMost, Falls, Complete
    <3> QED
      BY <3>2, <3>3
  <2> QED
    BY <2>5, <2>6, <2>7
<1> QED
  BY <1>2, <1>3, <1>4 DEF FeedInv

\* The list is cut at its beginning only, and never to nothing.
LEMMA ShortenProperties ==
  ASSUME NEW p \in Seq(Nat), Len(p) > 0
  PROVE  /\ Shorten(p) \in Seq(Nat) /\ Len(Shorten(p)) \in 1..Len(p)
         /\ Len(p) <= ViewMax => Len(Shorten(p)) = Len(p)
         /\ Ends(Shorten(p), p, Len(p) - Len(Shorten(p)))
<1>1. /\ ViewMax \in Nat /\ ViewKeep \in Nat /\ 1 <= ViewKeep /\ ViewKeep <= ViewMax
      /\ Len(p) \in Nat
  BY IntakeAssumption, LenProperties
<1>2. CASE Len(p) > ViewMax
  <2> DEFINE f == Len(p) - ViewKeep + 1
             q == SubSeq(p, f, Len(p))
  <2>1. Shorten(p) = q
    BY <1>2 DEF Shorten
  <2>2. f \in Int /\ f >= 1 /\ f <= Len(p) /\ f..Len(p) \subseteq 1..Len(p)
    BY <1>1, <1>2
  <2>3. \A i \in f..Len(p) : p[i] \in Nat
    BY <2>2, ElementOfSeq
  <2> HIDE DEF f
  <2>4. /\ q \in Seq(Nat) /\ Len(q) = Len(p) - f + 1
        /\ \A i \in 1..Len(p) - f + 1 : q[i] = p[f + i - 1]
    BY <1>1, <2>2, <2>3, SubSeqProperties
  <2> HIDE DEF q
  <2>5. Len(q) = ViewKeep
    BY <1>1, <2>4 DEF f
  <2>6. \A i \in 1..ViewKeep : f + i - 1 = Len(p) - ViewKeep + i
    BY <1>1 DEF f
  <2>7. \A i \in 1..Len(q) : q[i] = p[Len(p) - Len(q) + i]
    BY <2>4, <2>5, <2>6
  <2> QED
    BY <1>1, <1>2, <2>1, <2>4, <2>5, <2>7 DEF Ends
<1>3. CASE Len(p) <= ViewMax
  <2>1. Shorten(p) = p
    BY <1>1, <1>3 DEF Shorten
  <2>2. \A i \in 1..Len(p) : Len(p) - Len(p) + i = i
    BY <1>1
  <2> QED
    BY <1>1, <2>1, <2>2 DEF Ends
<1> QED
  BY <1>1, <1>2, <1>3

\* Where a line was before it moved.
LEMMA Indices ==
  ASSUME NEW A \in Nat, NEW B \in Nat, NEW Q \in Nat, NEW k \in Nat, NEW i \in Nat,
         B > 0, Q = A + 1 - k, 1 <= i, i <= Q + (B - 1)
  PROVE  /\ k + i \in 1..A + B
         /\ i <= Q => k + i = A + 1 \/ k + i \in 1..A
         /\ ~(i <= Q) => i - Q \in 1..B - 1 /\ (i - Q) + 1 = (k + i) - A /\ ~(k + i <= A)
         /\ k + i = A + 1 => ~(k + i <= A) /\ (k + i) - A = 1
OBVIOUS

\* a and b stand for list and channel, p for the list with the channel's first
\* line, q for what the page keeps of that and t for the rest of the channel: q
\* and t together are the end of a and b.
LEMMA Moved ==
  ASSUME NEW a \in Seq(Nat), NEW b \in Seq(Nat), NEW p \in Seq(Nat), NEW q \in Seq(Nat),
         NEW t \in Seq(Nat), NEW k \in Nat,
         Len(b) > 0, Len(p) = Len(a) + 1, p[Len(a) + 1] = b[1], Starts(p, a),
         Len(t) = Len(b) - 1, Ends(t, b, 1),
         Len(q) = Len(p) - k, Ends(q, p, k)
  PROVE  /\ q \o t \in Seq(Nat) /\ Len(q \o t) = Len(a \o b) - k
         /\ Ends(q \o t, a \o b, k)
<1>1. Len(a) \in Nat /\ Len(b) \in Nat /\ Len(p) \in Nat /\ Len(q) \in Nat /\ Len(t) \in Nat
  BY LenProperties
<1>2. /\ a \o b \in Seq(Nat) /\ Len(a \o b) = Len(a) + Len(b)
      /\ \A i \in 1..Len(a) + Len(b) : (a \o b)[i] = IF i <= Len(a) THEN a[i] ELSE b[i - Len(a)]
  BY ConcatProperties
<1>3. /\ q \o t \in Seq(Nat) /\ Len(q \o t) = Len(q) + Len(t)
      /\ \A i \in 1..Len(q) + Len(t) : (q \o t)[i] = IF i <= Len(q) THEN q[i] ELSE t[i - Len(q)]
  BY ConcatProperties
<1> DEFINE x == q \o t
           y == a \o b
<1> HIDE DEF x, y
<1>4. Len(q) + Len(t) = Len(a) + Len(b) - k
  BY <1>1
<1>5. ASSUME NEW i \in 1..Len(q) + Len(t) PROVE x[i] = y[k + i]
  <2>0. /\ k + i \in 1..Len(a) + Len(b)
        /\ i <= Len(q) => k + i = Len(a) + 1 \/ k + i \in 1..Len(a)
        /\ ~(i <= Len(q)) => /\ i - Len(q) \in 1..Len(t) /\ (i - Len(q)) + 1 = (k + i) - Len(a)
                            /\ ~(k + i <= Len(a))
        /\ k + i = Len(a) + 1 => ~(k + i <= Len(a)) /\ (k + i) - Len(a) = 1
    <3>1. i \in Nat /\ 1 <= i /\ i <= Len(q) + (Len(b) - 1) /\ Len(q) = Len(a) + 1 - k
      BY <1>1
    <3> DEFINE A == Len(a)  B == Len(b)  Q == Len(q)
    <3>2. A \in Nat /\ B \in Nat /\ Q \in Nat /\ B > 0 /\ Q = A + 1 - k /\ i <= Q + (B - 1)
      BY <1>1, <3>1
    <3>3. B - 1 = Len(t)
      OBVIOUS
    <3> HIDE DEF A, B, Q
    <3>4. /\ k + i \in 1..A + B
          /\ i <= Q => k + i = A + 1 \/ k + i \in 1..A
          /\ ~(i <= Q) => i - Q \in 1..B - 1 /\ (i - Q) + 1 = (k + i) - A /\ ~(k + i <= A)
          /\ k + i = A + 1 => ~(k + i <= A) /\ (k + i) - A = 1
      BY <3>1, <3>2, Indices
    <3> QED
      BY <3>3, <3>4 DEF A, B, Q
  <2>1. CASE i <= Len(q)
    <3>1. x[i] = q[i]
      BY <1>3, <2>1 DEF x
    <3>2. q[i] = p[k + i]
      <4>1. i \in 1..Len(q)
        BY <1>1, <2>1
      <4> QED
        BY <4>1 DEF Ends
    <3>3. CASE k + i = Len(a) + 1
      <4>1. ~(k + i <= Len(a)) /\ (k + i) - Len(a) = 1
        BY <2>0, <3>3
      <4>2. y[k + i] = b[(k + i) - Len(a)]
        BY <1>2, <2>0, <4>1 DEF y
      <4> QED
        BY <3>1, <3>2, <3>3, <4>1, <4>2
    <3>4. CASE k + i \in 1..Len(a)
      <4>1. y[k + i] = a[k + i]
        BY <1>2, <2>0, <3>4 DEF y
      <4>2. p[k + i] = a[k + i]
        BY <3>4 DEF Starts
      <4> QED
        BY <3>1, <3>2, <4>1, <4>2
    <3>5. k + i = Len(a) + 1 \/ k + i \in 1..Len(a)
      BY <2>0, <2>1
    <3> QED
      BY <3>3, <3>4, <3>5
  <2>2. CASE ~(i <= Len(q))
    <3>1. x[i] = t[i - Len(q)]
      BY <1>3, <2>2 DEF x
    <3>2. i - Len(q) \in 1..Len(t) /\ (i - Len(q)) + 1 = (k + i) - Len(a) /\ ~(k + i <= Len(a))
      BY <2>0, <2>2
    <3>3. t[i - Len(q)] = b[(k + i) - Len(a)]
      <4>1. t[i - Len(q)] = b[1 + (i - Len(q))]
        BY <3>2 DEF Ends
      <4>2. 1 + (i - Len(q)) = (i - Len(q)) + 1
        BY <1>1
      <4> QED
        BY <3>2, <4>1, <4>2
    <3>4. y[k + i] = b[(k + i) - Len(a)]
      BY <1>2, <2>0, <3>2 DEF y
    <3> QED
      BY <3>1, <3>3, <3>4
  <2> QED
    BY <2>1, <2>2
<1>6. Len(x) = Len(y) - k
  BY <1>2, <1>3, <1>4 DEF x, y
<1>7. x \in Seq(Nat) /\ Len(x) = Len(q) + Len(t)
  BY <1>3 DEF x
<1>8. \A i \in 1..Len(x) : x[i] = y[k + i]
  BY <1>5, <1>7
<1> QED
  BY <1>6, <1>7, <1>8 DEF x, y, Ends

\* What a page keeps of its list and the rest of the channel, when a line was sent.
LEMMA SendShortens ==
  ASSUME NEW a \in Seq(Nat), NEW b \in Seq(Nat), b # << >>
  PROVE  LET p == Append(a, Head(b))
             q == Shorten(p)
             k == Len(p) - Len(q)
         IN  /\ q \in Seq(Nat) /\ Len(q) \in Nat /\ Len(q) > 0 /\ q[1] \in Nat
             /\ Tail(b) \in Seq(Nat) /\ Len(Tail(b)) = Len(b) - 1 /\ Ends(Tail(b), b, 1)
             /\ k \in Nat /\ (Len(p) <= ViewMax => k = 0)
             /\ q \o Tail(b) \in Seq(Nat) /\ (q \o Tail(b))[1] = q[1]
             /\ Len(q \o Tail(b)) = Len(a \o b) - k /\ Len(q \o Tail(b)) > 0
             /\ Ends(q \o Tail(b), a \o b, k)
<1> DEFINE p == Append(a, Head(b))
           t == Tail(b)
           q == Shorten(p)
           k == Len(p) - Len(q)
<1>1. Len(a) \in Nat /\ Len(b) \in Nat /\ Len(b) > 0 /\ Head(b) \in Nat /\ Head(b) = b[1]
  BY LenProperties, HeadTailProperties, EmptySeq
<1>2. t \in Seq(Nat) /\ Len(t) = Len(b) - 1 /\ \A i \in 1..Len(t) : t[i] = b[i + 1]
  BY <1>1, HeadTailProperties
<1>3. Ends(t, b, 1)
  <2>1. \A i \in 1..Len(t) : i + 1 = 1 + i
    OBVIOUS
  <2> QED
    BY <1>2, <2>1 DEF Ends
<1>4. p \in Seq(Nat) /\ Len(p) = Len(a) + 1 /\ p[Len(a) + 1] = b[1] /\ Starts(p, a)
  BY <1>1, AppendProperties DEF Starts
<1> HIDE DEF p, t
<1>a. Len(p) \in Nat /\ Len(p) > 0
  BY <1>1, <1>4
<1>5. q \in Seq(Nat) /\ Len(q) \in 1..Len(p) /\ (Len(p) <= ViewMax => Len(q) = Len(p)) /\ Ends(q, p, k)
  BY <1>4, <1>a, ShortenProperties
<1> HIDE DEF q
<1>6. Len(p) \in Nat /\ Len(q) \in Nat /\ Len(q) > 0 /\ k \in Nat /\ Len(q) = Len(p) - k
      /\ (Len(p) <= ViewMax => k = 0)
  <2>1. Len(q) \in Int /\ 1 <= Len(q) /\ Len(q) <= Len(p)
    BY <1>a, <1>5
  <2> QED
    BY <1>a, <1>5, <2>1
<1> HIDE DEF k
<1>7. q \o t \in Seq(Nat) /\ Len(q \o t) = Len(a \o b) - k /\ Ends(q \o t, a \o b, k)
  BY <1>1, <1>2, <1>3, <1>4, <1>5, <1>6, Moved
<1>8. Len(q \o t) = Len(q) + Len(t) /\ (q \o t)[1] = q[1] /\ q[1] \in Nat
  <2>1. 1 \in 1..Len(q) + Len(t) /\ 1 <= Len(q) /\ 1 \in 1..Len(q)
    BY <1>1, <1>2, <1>6
  <2>2. /\ Len(q \o t) = Len(q) + Len(t)
        /\ \A i \in 1..Len(q) + Len(t) : (q \o t)[i] = IF i <= Len(q) THEN q[i] ELSE t[i - Len(q)]
    <3>1. q \in Seq(Nat) /\ t \in Seq(Nat)
      BY <1>2, <1>5
    <3> QED
      BY <3>1, ConcatProperties
  <2>3. (q \o t)[1] = q[1]
    BY <2>1, <2>2
  <2> QED
    BY <1>5, <2>1, <2>2, <2>3, ElementOfSeq
<1>9. Len(q \o t) > 0
  BY <1>1, <1>2, <1>6, <1>8
<1> QED
  BY <1>2, <1>3, <1>5, <1>6, <1>7, <1>8, <1>9 DEF p, q, t, k

\* The feed reaches the page: what it has or gets is the same as before, or the
\* end of it.
LEMMA FeedSendLine ==
  ASSUME FeedInv, NEW c \in Clients, SendLine(c)
  PROVE  FeedInv'
<1> DEFINE a == list[c]
           b == chan[c]
           p == Append(a, Head(b))
           q == Shorten(p)
           t == Tail(b)
           k == Len(p) - Len(q)
<1>1. /\ a \in Seq(Nat) /\ b \in Seq(Nat) /\ b # << >> /\ since[c] \in Nat /\ page[c] = "live"
      /\ c \in subs /\ Offered' = Offered /\ total' = total /\ total \in Nat /\ Offered \in Int
  BY DEF FeedInv, FeedTypes, SendLine, Offered
<1>2. /\ list' = [list EXCEPT ![c] = q] /\ chan' = [chan EXCEPT ![c] = t]
      /\ since' = [since EXCEPT ![c] = IF Len(p) > ViewMax THEN q[1] ELSE @]
      /\ UNCHANGED <<stage, total, rawLines, subs, page, lost>>
  BY DEF SendLine
<1>3. /\ q \in Seq(Nat) /\ Len(q) \in Nat /\ Len(q) > 0 /\ q[1] \in Nat
      /\ t \in Seq(Nat) /\ Len(t) = Len(b) - 1 /\ Ends(t, b, 1)
      /\ k \in Nat /\ (Len(p) <= ViewMax => k = 0)
      /\ q \o t \in Seq(Nat) /\ (q \o t)[1] = q[1]
      /\ Len(q \o t) = Len(a \o b) - k /\ Len(q \o t) > 0
      /\ Ends(q \o t, a \o b, k)
  BY <1>1, SendShortens
<1>4. Len(p) \in Nat /\ ViewMax \in Nat
  BY <1>1, IntakeAssumption, HeadTailProperties, AppendProperties, LenProperties
<1> HIDE DEF p, q, t, k
<1>5. FeedTypes'
  <2>1. /\ list' \in [Clients -> Seq(Nat)] /\ chan' \in [Clients -> Seq(Nat)]
        /\ since' \in [Clients -> Nat]
    BY <1>2, <1>3 DEF FeedInv, FeedTypes
  <2>2. \A d \in Clients : d \notin subs => chan'[d] = << >>
    BY <1>1, <1>2 DEF FeedInv, FeedTypes
  <2> QED
    BY <1>2, <2>1, <2>2 DEF FeedInv, FeedTypes
<1>6. RawLast'
  BY <1>2 DEF FeedInv, RawLast
<1>7. ASSUME NEW d \in Clients, d # c PROVE ChannelOK(d)' /\ PageOK(d)'
  <2>1. /\ page'[d] = page[d] /\ list'[d] = list[d] /\ chan'[d] = chan[d] /\ lost'[d] = lost[d]
        /\ since'[d] = since[d]
    BY <1>2, <1>7 DEF FeedInv, FeedTypes
  <2> QED
    BY <1>1, <2>1, ClientUntouched DEF FeedInv
<1>8. list'[c] = q /\ chan'[c] = t /\ page'[c] = "live" /\ lost'[c] = lost[c]
      /\ since'[c] = IF Len(p) > ViewMax THEN q[1] ELSE since[c]
  BY <1>1, <1>2 DEF FeedInv, FeedTypes
<1>9. ChannelOK(c)'
  <2>1. AtMost(b, Offered) /\ Falls(b) = {} /\ Complete(b, lost[c], Offered)
    BY DEF FeedInv, ChannelOK
  <2>2. AtMost(t, Offered) /\ Falls(t) = {} /\ Complete(t, lost[c], Offered)
    BY <1>1, <1>3, <2>1, SuffixProperties
  <2> QED
    BY <1>1, <1>8, <2>2 DEF ChannelOK
<1>10. PageOK(c)'
  <2> DEFINE l == a \o b
             m == q \o t
  <2>1. Feed(c) = l /\ Feed(c)' = m
    BY <1>8 DEF Feed
  <2>2. l \in Seq(Nat) /\ m \in Seq(Nat) /\ Len(l) \in Nat /\ Len(m) \in Nat
    BY <1>1, <1>3, ConcatProperties, LenProperties
  <2>3. /\ AtMost(l, total) /\ FallsOnce(l) /\ Complete(l, lost[c], Offered)
        /\ Len(l) > 0 /\ l[Len(l)] > Offered => Falls(l) = {}
        /\ since[c]..Offered \subseteq ToSet(l) \cup lost[c]
    BY <1>1, <2>1 DEF FeedInv, PageOK
  <2>4. Len(m) = Len(l) - k /\ Ends(m, l, k) /\ Len(m) > 0 /\ m[1] = q[1]
    BY <1>3
  <2> HIDE DEF l, m
  <2>5. AtMost(m, total) /\ FallsOnce(m) /\ Complete(m, lost[c], Offered)
        /\ (Falls(l) = {} => Falls(m) = {})
    <3>1. /\ \A o \in Int : AtMost(l, o) => AtMost(m, o)
          /\ Falls(l) = {} => Falls(m) = {}
          /\ FallsOnce(l) => FallsOnce(m)
          /\ Complete(l, lost[c], Offered) => Complete(m, lost[c], Offered)
      BY <1>1, <1>3, <2>2, <2>4, SuffixProperties
    <3> QED
      BY <1>1, <2>3, <3>1
  <2>6. Len(l) > 0 /\ m[Len(m)] = l[Len(l)]
    <3>1. Len(m) \in 1..Len(m) /\ k + Len(m) = Len(l) /\ Len(l) > 0
      <4>1. k \in Nat /\ Len(m) > 0 /\ Len(m) = Len(l) - k
        BY <1>3, <2>4
      <4> QED
        BY <2>2, <4>1
    <3> QED
      BY <2>4, <3>1 DEF Ends
  <2>7. since'[c]..Offered \subseteq ToSet(m) \cup lost[c]
    <3>0. DOMAIN m = 1..Len(m) /\ DOMAIN l = 1..Len(l)
      BY <2>2, LenProperties
    <3>1. CASE Len(p) > ViewMax
      <4> SUFFICES ASSUME NEW n \in m[1]..Offered, n \notin lost[c] PROVE n \in ToSet(m)
        BY <1>8, <2>4, <3>1
      <4>0. 1 \in 1..Len(m)
        BY <2>2, <2>4
      <4>1. PICK j \in 1..Len(m) : m[j] = n
        BY <2>5, <4>0, Zenon DEF Complete
      <4> QED
        BY <3>0, <4>1 DEF ToSet
    <3>2. CASE ~(Len(p) > ViewMax)
      <4>1. k = 0 /\ since'[c] = since[c]
        BY <1>3, <1>4, <1>8, <3>2
      <4>2. Len(m) = Len(l) /\ \A i \in 1..Len(l) : m[i] = l[0 + i] /\ 0 + i = i
        BY <2>2, <2>4, <4>1 DEF Ends
      <4>3. ToSet(l) \subseteq ToSet(m)
        BY <3>0, <4>2 DEF ToSet
      <4> QED
        BY <2>3, <4>1, <4>3
    <3> QED
      BY <3>1, <3>2
  <2> QED
    BY <1>1, <1>8, <2>1, <2>3, <2>5, <2>6, <2>7 DEF PageOK
<1> QED
  BY <1>5, <1>6, <1>7, <1>9, <1>10 DEF FeedInv

\* The buffer followed by the channel: it falls at the seam at most, and from
\* each line on nothing is missing.
LEMMA HelloFeed ==
  ASSUME NEW r \in Seq(Nat), NEW b \in Seq(Nat), NEW n \in Nat, NEW o \in Int, NEW L,
         o <= n, Len(r) <= n, \A i \in 1..Len(r) : r[i] = n - Len(r) + i,
         AtMost(b, o), Falls(b) = {}, Complete(b, L, o)
  PROVE  LET l == r \o b IN
         /\ AtMost(l, n) /\ FallsOnce(l) /\ Complete(l, L, o)
         /\ Len(l) > 0 /\ l[Len(l)] > o => Falls(l) = {}
         /\ ((n - Len(r)) + 1)..o \subseteq ToSet(l)
<1> DEFINE l == r \o b
<1>1. Len(r) \in Nat /\ Len(b) \in Nat
  BY LenProperties
<1>2. /\ l \in Seq(Nat) /\ Len(l) = Len(r) + Len(b)
      /\ \A i \in 1..Len(r) + Len(b) : l[i] = IF i <= Len(r) THEN r[i] ELSE b[i - Len(r)]
  BY ConcatProperties
<1> HIDE DEF l
<1>3. \A i \in 1..Len(r) : i \in 1..Len(l) /\ l[i] = n - Len(r) + i
  <2> SUFFICES ASSUME NEW i \in 1..Len(r) PROVE i \in 1..Len(l) /\ l[i] = n - Len(r) + i
    OBVIOUS
  <2>1. i \in 1..Len(r) + Len(b) /\ i <= Len(r)
    BY <1>1
  <2> QED
    BY <1>2, <2>1
<1>4. \A i \in 1..Len(b) : Len(r) + i \in 1..Len(l) /\ l[Len(r) + i] = b[i]
  <2> SUFFICES ASSUME NEW i \in 1..Len(b) PROVE Len(r) + i \in 1..Len(l) /\ l[Len(r) + i] = b[i]
    OBVIOUS
  <2>1. Len(r) + i \in 1..Len(r) + Len(b) /\ ~(Len(r) + i <= Len(r)) /\ (Len(r) + i) - Len(r) = i
    BY <1>1
  <2> QED
    BY <1>2, <2>1
<1>5. \A i \in 1..Len(l) : i \in 1..Len(r) \/ (i - Len(r) \in 1..Len(b) /\ Len(r) + (i - Len(r)) = i)
  BY <1>1, <1>2
<1>6. \A i \in 1..Len(b) : b[i] \in Nat /\ b[i] <= o
  BY ElementOfSeq DEF AtMost
<1>7. AtMost(l, n)
  <2> SUFFICES ASSUME NEW i \in 1..Len(l) PROVE l[i] <= n
    BY DEF AtMost
  <2>1. CASE i \in 1..Len(r)
    BY <1>1, <1>3, <2>1
  <2>2. CASE i - Len(r) \in 1..Len(b) /\ Len(r) + (i - Len(r)) = i
    <3>1. l[i] = b[i - Len(r)]
      BY <1>4, <2>2
    <3>2. b[i - Len(r)] \in Nat /\ b[i - Len(r)] <= o
      BY <1>6, <2>2
    <3> QED
      BY <3>1, <3>2
  <2> QED
    BY <1>5, <2>1, <2>2
<1>8. \A i \in Falls(l) : i = Len(r) /\ Len(b) > 0
  <2> SUFFICES ASSUME NEW i \in 1..Len(l) - 1, l[i] >= l[i + 1] PROVE i = Len(r) /\ Len(b) > 0
    BY DEF Falls
  <2>1. CASE i \in 1..Len(r) - 1
    <3>1. i \in 1..Len(r) /\ i + 1 \in 1..Len(r)
      BY <1>1, <2>1
    <3>2. l[i] = n - Len(r) + i /\ l[i + 1] = n - Len(r) + (i + 1)
      BY <1>3, <3>1
    <3> QED
      BY <1>1, <3>1, <3>2
  <2>2. CASE i = Len(r)
    BY <1>1, <1>2, <2>2
  <2>3. CASE i \in Len(r) + 1..Len(r) + Len(b) - 1
    <3> DEFINE j == i - Len(r)
    <3>1. j \in 1..Len(b) - 1 /\ j \in 1..Len(b) /\ j + 1 \in 1..Len(b) /\ Len(r) + j = i
          /\ Len(r) + (j + 1) = i + 1
      BY <1>1, <2>3
    <3> HIDE DEF j
    <3>2. l[i] = b[j] /\ l[i + 1] = b[j + 1]
      BY <1>4, <3>1
    <3>3. j \in Falls(b)
      BY <3>1, <3>2 DEF Falls
    <3> QED
      BY <3>3
  <2>4. i \in 1..Len(r) - 1 \/ i = Len(r) \/ i \in Len(r) + 1..Len(r) + Len(b) - 1
    BY <1>1, <1>2
  <2> QED
    BY <2>1, <2>2, <2>3, <2>4
<1>9. FallsOnce(l)
  BY <1>8 DEF FallsOnce
<1>10. ASSUME Len(l) > 0, l[Len(l)] > o PROVE Falls(l) = {}
  <2>1. ASSUME Len(b) > 0 PROVE FALSE
    <3>1. Len(b) \in 1..Len(b) /\ Len(r) + Len(b) = Len(l)
      BY <1>1, <1>2, <2>1
    <3>2. l[Len(l)] = b[Len(b)] /\ b[Len(b)] \in Nat /\ b[Len(b)] <= o
      BY <1>4, <1>6, <3>1
    <3> QED
      BY <1>10, <3>2
  <2> QED
    BY <1>8, <2>1
<1>11. ASSUME NEW i \in 1..Len(r), NEW x \in r[i]..o PROVE \E j \in i..Len(r) : l[j] = x
  <2> DEFINE j == x - n + Len(r)
  <2>1. r[i] = n - Len(r) + i
    OBVIOUS
  <2>2. x \in Int /\ n - Len(r) + i <= x /\ x <= o
    BY <1>1, <2>1
  <2>3. j \in i..Len(r) /\ j \in 1..Len(r) /\ n - Len(r) + j = x
    BY <1>1, <2>2
  <2> HIDE DEF j
  <2> QED
    BY <1>3, <2>3
<1>12. Complete(l, L, o)
  <2> SUFFICES ASSUME NEW i \in 1..Len(l), NEW x \in l[i]..o, x \notin L
               PROVE  \E j \in i..Len(l) : l[j] = x
    BY DEF Complete
  <2>1. CASE i \in 1..Len(r)
    <3>1. l[i] = r[i]
      BY <1>3, <2>1
    <3>2. PICK j \in i..Len(r) : l[j] = x
      BY <1>11, <2>1, <3>1
    <3>3. j \in i..Len(l)
      BY <1>1, <1>2
    <3> QED
      BY <3>2, <3>3
  <2>2. CASE i - Len(r) \in 1..Len(b) /\ Len(r) + (i - Len(r)) = i
    <3>1. l[i] = b[i - Len(r)]
      BY <1>4, <2>2
    <3>2. PICK j \in i - Len(r)..Len(b) : b[j] = x
      BY <2>2, <3>1 DEF Complete
    <3>3. j \in 1..Len(b) /\ Len(r) + j \in i..Len(l)
      BY <1>1, <1>2, <2>2
    <3> QED
      BY <1>4, <3>2, <3>3
  <2> QED
    BY <1>5, <2>1, <2>2
<1>13. ((n - Len(r)) + 1)..o \subseteq ToSet(l)
  <2> SUFFICES ASSUME NEW x \in ((n - Len(r)) + 1)..o PROVE x \in ToSet(l)
    OBVIOUS
  <2>1. 1 \in 1..Len(r) /\ x \in (n - Len(r) + 1)..o
    BY <1>1
  <2>2. r[1] = n - Len(r) + 1
    BY <2>1
  <2>3. PICK j \in 1..Len(r) : l[j] = x
    BY <1>11, <2>1, <2>2
  <2>4. j \in DOMAIN l
    BY <1>2, <1>3, LenProperties
  <2> QED
    BY <2>3, <2>4 DEF ToSet
<1> QED
  BY <1>7, <1>9, <1>10, <1>12, <1>13 DEF l

\* The hello comes after the subscription, so that the channel goes on where the
\* buffer ends, or before.
LEMMA FeedHello ==
  ASSUME FeedInv, NEW c \in Clients, Hello(c)
  PROVE  FeedInv'
<1>1. /\ rawLines \in Seq(Nat) /\ chan[c] \in Seq(Nat) /\ total \in Nat /\ RawCap \in Nat \ {0}
      /\ Offered \in Int /\ Offered <= total /\ Offered' = Offered /\ total' = total
      /\ c \in subs /\ Len(rawLines) \in Nat
  BY IntakeAssumption, LenProperties DEF FeedInv, FeedTypes, Hello, Offered
<1>2. /\ page' = [page EXCEPT ![c] = "live"] /\ list' = [list EXCEPT ![c] = rawLines]
      /\ since' = [since EXCEPT ![c] = IF total > RawCap THEN total - RawCap + 1 ELSE 1]
      /\ UNCHANGED <<stage, total, rawLines, subs, chan, lost>>
  BY DEF Hello
<1>3. /\ page'[c] = "live" /\ list'[c] = rawLines /\ chan'[c] = chan[c] /\ lost'[c] = lost[c]
      /\ since'[c] = IF total > RawCap THEN total - RawCap + 1 ELSE 1
  BY <1>2 DEF FeedInv, FeedTypes
<1>4. /\ Len(rawLines) = IF total > RawCap THEN RawCap ELSE total
      /\ \A i \in 1..Len(rawLines) : rawLines[i] = total - Len(rawLines) + i
  BY DEF FeedInv, RawLast
<1>5. Len(rawLines) <= total /\ since'[c] = (total - Len(rawLines)) + 1 /\ since'[c] \in Nat
  <2>1. CASE total > RawCap
    BY <1>1, <1>3, <1>4, <2>1
  <2>2. CASE ~(total > RawCap)
    BY <1>1, <1>3, <1>4, <2>2
  <2> QED
    BY <2>1, <2>2
<1>6. FeedTypes'
  <2>1. /\ page' \in [Clients -> {"off", "open", "live"}] /\ list' \in [Clients -> Seq(Nat)]
    BY <1>1, <1>2 DEF FeedInv, FeedTypes
  <2>2. since' \in [Clients -> Nat]
    BY <1>2, <1>3, <1>5 DEF FeedInv, FeedTypes
  <2>3. \A d \in Clients : d \notin subs => page'[d] = "off"
    BY <1>1, <1>2 DEF FeedInv, FeedTypes
  <2> QED
    BY <1>2, <2>1, <2>2, <2>3 DEF FeedInv, FeedTypes
<1>7. RawLast'
  BY <1>2 DEF FeedInv, RawLast
<1>8. ASSUME NEW d \in Clients, d # c PROVE ChannelOK(d)' /\ PageOK(d)'
  <2>1. /\ page'[d] = page[d] /\ list'[d] = list[d] /\ chan'[d] = chan[d] /\ lost'[d] = lost[d]
        /\ since'[d] = since[d]
    BY <1>2, <1>8 DEF FeedInv, FeedTypes
  <2> QED
    BY <1>1, <2>1, ClientUntouched DEF FeedInv
<1>9. ChannelOK(c) /\ ChannelOK(c)'
  BY <1>1, <1>3 DEF FeedInv, ChannelOK
<1>10. PageOK(c)'
  <2> DEFINE l == rawLines \o chan[c]
  <2>1. Feed(c)' = l
    BY <1>3 DEF Feed
  <2>2. /\ AtMost(l, total) /\ FallsOnce(l) /\ Complete(l, lost[c], Offered)
        /\ Len(l) > 0 /\ l[Len(l)] > Offered => Falls(l) = {}
        /\ ((total - Len(rawLines)) + 1)..Offered \subseteq ToSet(l)
    <3>1. AtMost(chan[c], Offered) /\ Falls(chan[c]) = {} /\ Complete(chan[c], lost[c], Offered)
      BY <1>9 DEF ChannelOK
    <3> QED
      BY <1>1, <1>4, <1>5, <3>1, HelloFeed
  <2> HIDE DEF l
  <2> QED
    BY <1>1, <1>3, <1>5, <2>1, <2>2 DEF PageOK
<1> QED
  BY <1>6, <1>7, <1>8, <1>9, <1>10 DEF FeedInv

\* Who subscribes has an empty channel; who leaves keeps the list.
LEMMA FeedSubscribeClose ==
  ASSUME FeedInv, NEW c \in Clients, Subscribe(c) \/ Close(c)
  PROVE  FeedInv'
<1>1. /\ \/ page' = [page EXCEPT ![c] = "open"] /\ subs' = subs \cup {c}
         \/ page' = [page EXCEPT ![c] = "off"] /\ subs' = subs
      /\ UNCHANGED <<stage, total, rawLines, chan, list, lost, since>>
  BY DEF Subscribe, Close
<1>2. FeedTypes' /\ RawLast'
  BY <1>1 DEF FeedInv, FeedTypes, RawLast
<1>3. Offered' = Offered /\ total' = total
  BY <1>1 DEF Offered
<1>4. ASSUME NEW d \in Clients PROVE ChannelOK(d)' /\ PageOK(d)'
  <2>1. page'[d] = page[d] \/ page'[d] # "live"
    BY <1>1 DEF FeedInv, FeedTypes
  <2> QED
    BY <1>1, <1>3, <2>1, ClientUntouched DEF FeedInv
<1> QED
  BY <1>2, <1>4 DEF FeedInv

\* unsubscribe closes the channel, and what was in it is gone.
LEMMA FeedUnsubscribe ==
  ASSUME FeedInv, NEW c \in Clients, Unsubscribe(c)
  PROVE  FeedInv'
<1>1. /\ subs' = subs \ {c} /\ chan' = [chan EXCEPT ![c] = << >>] /\ lost' = [lost EXCEPT ![c] = {}]
      /\ UNCHANGED <<stage, total, rawLines, page, list, since>> /\ page[c] = "off"
  BY DEF Unsubscribe
<1>2. FeedTypes' /\ RawLast'
  <2>1. chan' \in [Clients -> Seq(Nat)] /\ lost' \in [Clients -> SUBSET Nat] /\ subs' \subseteq Clients
    BY <1>1 DEF FeedInv, FeedTypes
  <2>2. \A d \in Clients : d \notin subs' => page'[d] = "off" /\ chan'[d] = << >>
    BY <1>1 DEF FeedInv, FeedTypes
  <2> QED
    BY <1>1, <2>1, <2>2 DEF FeedInv, FeedTypes, RawLast
<1>3. Offered' = Offered /\ total' = total
  BY <1>1 DEF Offered
<1>4. ASSUME NEW d \in Clients, d # c PROVE ChannelOK(d)' /\ PageOK(d)'
  <2>1. /\ page'[d] = page[d] /\ list'[d] = list[d] /\ chan'[d] = chan[d] /\ lost'[d] = lost[d]
        /\ since'[d] = since[d]
    BY <1>1, <1>4 DEF FeedInv, FeedTypes
  <2> QED
    BY <1>3, <2>1, ClientUntouched DEF FeedInv
<1>5. ChannelOK(c)' /\ PageOK(c)'
  <2>1. Len(chan'[c]) = 0 /\ page'[c] = "off"
    BY <1>1, EmptySeq DEF FeedInv, FeedTypes
  <2> QED
    BY <2>1 DEF ChannelOK, PageOK, AtMost, Falls, Complete
<1> QED
  BY <1>2, <1>4, <1>5 DEF FeedInv

\* FeedInv is inductive.
LEMMA FeedAlways == Spec => []FeedInv
<1>1. Init => FeedInv
  <2> SUFFICES ASSUME Init PROVE FeedInv
    OBVIOUS
  <2>1. FeedTypes
    BY EmptySeq DEF Init, FeedTypes
  <2>2. RawLast
    BY EmptySeq, IntakeAssumption DEF Init, RawLast
  <2>3. ASSUME NEW c \in Clients PROVE ChannelOK(c) /\ PageOK(c)
    <3>1. chan[c] = << >> /\ page[c] = "off"
      BY DEF Init
    <3> QED
      BY <3>1, EmptyChannel DEF PageOK
  <2> QED
    BY <2>1, <2>2, <2>3 DEF FeedInv
<1>2. FeedInv /\ [Next]_vars => FeedInv'
  <2> SUFFICES ASSUME FeedInv, [Next]_vars PROVE FeedInv'
    OBVIOUS
  <2>1. CASE AppendRawLine
    BY <2>1, FeedAppendRawLine
  <2>2. CASE Broadcast
    BY <2>2, FeedBroadcast
  <2>3. CASE DropDuplicate \/ LetThrough \/ Publish
    BY <2>3, FeedUntouched DEF DropDuplicate, LetThrough, Publish, Offered
  <2>4. CASE Tick \/ UNCHANGED vars
    <3>1. UNCHANGED <<stage, total, rawLines, feed>>
      BY <2>4 DEF Tick, vars
    <3> QED
      BY <3>1, FeedUntouched DEF Offered, FeedInv, FeedTypes
  <2>5. ASSUME NEW c \in Clients, Client(c) PROVE FeedInv'
    BY <2>5, FeedSubscribeClose, FeedHello, FeedSendLine, FeedUnsubscribe DEF Client
  <2> QED
    BY <2>1, <2>2, <2>3, <2>4, <2>5 DEF Next, LoopStep
<1> QED
  BY <1>1, <1>2, PTL DEF Spec

\* A live page has or gets every line since its hello and those the buffer had,
\* but for the ones that found its channel full, and goes back once at most; for
\* any number of browsers, any sizes, and any interleaving of the publish loop with
\* subscription, hello, feed and disconnection.
THEOREM FeedComplete == Spec => []NoGap
<1>1. FeedInv => NoGap
  <2> SUFFICES ASSUME FeedInv, NEW c \in Clients, page[c] = "live"
               PROVE  /\ since[c]..Offered \subseteq ToSet(Feed(c)) \cup lost[c]
                      /\ Cardinality(Falls(Feed(c))) <= 1
    BY DEF NoGap, Feed, Falls
  <2>1. /\ since[c]..Offered \subseteq ToSet(Feed(c)) \cup lost[c]
        /\ \A i, j \in Falls(Feed(c)) : i = j
    BY DEF FeedInv, PageOK, FallsOnce
  <2>2. CASE Falls(Feed(c)) = {}
    BY <2>1, <2>2, FS_EmptySet
  <2>3. ASSUME NEW i \in Falls(Feed(c)) PROVE Cardinality(Falls(Feed(c))) <= 1
    <3>1. Falls(Feed(c)) = {i}
      BY <2>1
    <3> QED
      BY <3>1, FS_Singleton
  <2> QED
    BY <2>1, <2>2, <2>3
<1> QED
  BY <1>1, FeedAlways, PTL

-----------------------------------------------------------------------------
(* The ping watchdog (PingMonitor). *)

\* A PING number is followed by a PING number (WritePing).
LEMMA IdFacts ==
  /\ 0 \notin Id
  /\ PingIds \in Id
  /\ \A i \in Id : (IF i = PingIds THEN 1 ELSE i + 1) \in Id
BY PingAssumption DEF Id

\* What a bounded queue looks like after a line is put in or taken out.
LEMMA QueueFacts ==
  ASSUME NEW S, NEW q \in Seq(S), NEW n \in Nat, Len(q) <= n
  PROVE  /\ \A x \in S : Append(q, x) \in Seq(S) /\ Len(Append(q, x)) = Len(q) + 1
         /\ q # << >> => Head(q) \in S /\ Tail(q) \in Seq(S) /\ Len(Tail(q)) <= n
BY AppendProperties, HeadTailProperties, LenProperties

\* The initial state.
LEMMA PingTypeInit == PingInit => TypeOK
<1> SUFFICES ASSUME PingInit PROVE TypeOK
  OBVIOUS
<1>1. inbox \in Seq(Id) /\ Len(inbox) <= InboxCap
      /\ serialCh \in Seq(Id) /\ Len(serialCh) <= QueueCap
  BY PingAssumption, EmptySeq DEF PingInit
<1>2. port \in BOOLEAN /\ alive \in BOOLEAN /\ aged \in BOOLEAN /\ rflinkUnresp \in BOOLEAN
      /\ dedupFresh \in BOOLEAN /\ answered \subseteq Id
  BY DEF PingInit
<1>3. /\ lastId \in Id
      /\ pingPc \in {"wait", "connected", "checked", "written"}
      /\ pingSentAt \in Id \cup {0}
      /\ loopPc \in {"select", "pong_fails", "pong_unresp", "clear", "add", "unresp"}
      /\ sent \in Id \cup {0}
      /\ pingFails \in 0..Threshold + 1
  BY PingAssumption, IdFacts DEF PingInit
<1> QED
  BY <1>1, <1>2, <1>3 DEF TypeOK

\* TypeOK is inductive.
LEMMA PingTypeInductive ==
  ASSUME TypeOK, [PingNext]_pingVars
  PROVE  TypeOK'
<1> USE DEF TypeOK
<1>0. /\ InboxCap \in Nat \ {0} /\ QueueCap \in Nat \ {0} /\ Threshold \in Nat \ {0}
      /\ Dedup \in BOOLEAN
  BY PingAssumption
<1>1. CASE PingTimer \/ CheckOutstanding \/ WriteFails \/ MarkPingSent
  BY <1>1 DEF PingTimer, CheckOutstanding, WriteFails, MarkPingSent, firmware, verdict
<1>2. CASE WritePing
  <2>1. lastId' \in Id
    BY <1>2, IdFacts DEF WritePing
  <2>2. inbox' \in Seq(Id) /\ Len(inbox') <= InboxCap
    <3>1. CASE Len(inbox) < InboxCap
      <4>1. Append(inbox, lastId') \in Seq(Id)
            /\ Len(Append(inbox, lastId')) = Len(inbox) + 1
        BY <1>0, <2>1, QueueFacts
      <4>2. Len(inbox) \in Nat
        BY LenProperties
      <4> QED
        BY <1>0, <1>2, <3>1, <4>1, <4>2 DEF WritePing
    <3>2. CASE ~(Len(inbox) < InboxCap)
      BY <1>2, <3>2 DEF WritePing
    <3> QED BY <3>1, <3>2
  <2> QED
    BY <1>2, <2>1, <2>2 DEF WritePing, verdict
<1>3. CASE DropPong \/ NotePong
  <2>1. /\ Head(serialCh) \in Id /\ Tail(serialCh) \in Seq(Id)
        /\ Len(Tail(serialCh)) <= QueueCap
    BY <1>0, <1>3, QueueFacts DEF DropPong, NotePong
  <2> QED
    BY <1>0, <1>3, <2>1 DEF DropPong, NotePong, firmware, pinger, verdict
<1>4. CASE ResetFails
  BY <1>0, <1>4 DEF ResetFails, firmware, pinger
<1>5. CASE ClearUnresp \/ SetUnresp
  BY <1>5 DEF ClearUnresp, SetUnresp, firmware, pinger
<1>6. CASE ReadSentAt \/ ClearSentAt
  BY <1>6 DEF ReadSentAt, ClearSentAt, firmware, pinger, verdict
<1>7. CASE AddFail
  <2>1. pingFails' \in 0..Threshold + 1 /\ loopPc' \in {"unresp", "select"}
    BY <1>0, <1>7 DEF AddFail
  <2> QED
    BY <1>7, <2>1 DEF AddFail, firmware, pinger
<1>8. CASE Answer
  <2>1. Head(inbox) \in Id /\ Tail(inbox) \in Seq(Id) /\ Len(Tail(inbox)) <= InboxCap
    BY <1>0, <1>8, QueueFacts DEF Answer, QueuePong, DiscardPong
  <2>2. serialCh' \in Seq(Id) /\ Len(serialCh') <= QueueCap
    <3>1. CASE QueuePong
      <4>1. Append(serialCh, Head(inbox)) \in Seq(Id)
            /\ Len(Append(serialCh, Head(inbox))) = Len(serialCh) + 1
        BY <1>0, <2>1, QueueFacts
      <4>2. Len(serialCh) \in Nat
        BY LenProperties
      <4> QED
        BY <1>0, <3>1, <4>1, <4>2 DEF QueuePong
    <3>2. CASE DiscardPong
      BY <1>0, <3>2 DEF DiscardPong
    <3> QED BY <1>8, <3>1, <3>2 DEF Answer
  <2> QED
    BY <1>8, <2>1, <2>2 DEF Answer, QueuePong, DiscardPong, pinger, verdict
<1>9. CASE FirmwareChange \/ PortChange
  <2>1. port' \in BOOLEAN /\ alive' \in BOOLEAN
    BY <1>9 DEF FirmwareChange, PortChange
  <2>2. inbox' \in Seq(Id) /\ Len(inbox') <= InboxCap
    <3>1. inbox' = << >>
      BY <1>9 DEF FirmwareChange, PortChange
    <3>2. << >> \in Seq(Id) /\ Len(<< >>) = 0
      BY EmptySeq
    <3> QED
      BY <1>0, <3>1, <3>2
  <2> QED
    BY <1>9, <2>1, <2>2 DEF FirmwareChange, PortChange, pinger, verdict
<1>10. CASE TimeoutPasses \/ WindowPasses
  BY <1>10 DEF TimeoutPasses, WindowPasses, firmware, pinger, verdict
<1>11. CASE UNCHANGED pingVars
  BY <1>11 DEF pingVars, firmware, pinger, verdict
<1> QED
  BY <1>1, <1>2, <1>3, <1>4, <1>5, <1>6, <1>7, <1>8, <1>9, <1>10, <1>11
     DEF PingNext, PingStep, HandleLine, VerdictStep

\* Every variable keeps its range; the channel never exceeds its capacity.
THEOREM PingTypeCorrect == PingSpec => []TypeOK
<1>1. PingInit => TypeOK
  BY PingTypeInit
<1>2. TypeOK /\ [PingNext]_pingVars => TypeOK'
  BY PingTypeInductive
<1> QED
  BY <1>1, <1>2, PTL DEF PingSpec

-----------------------------------------------------------------------------
\* The two critical sections of checkPingTimeout are as good as one: only the
\* publish loop zeroes pingSentAt, and the ping loop does not mark over it.
PingInv == TypeOK /\ PingsAccounted

\* PingInv is inductive.
LEMMA PingInvariant == PingSpec => []PingInv
<1>1. PingInit => PingInv
  BY PingTypeInit DEF PingInit, PingInv, PingsAccounted
<1>2. ASSUME PingInv, [PingNext]_pingVars  PROVE PingInv'
  <2>0. TypeOK'
    BY <1>2, PingTypeInductive DEF PingInv
  <2> SUFFICES PingsAccounted'
    BY <2>0 DEF PingInv
  <2> USE <1>2 DEF PingInv, PingsAccounted
  <2>1. CASE PingTimer \/ CheckOutstanding \/ WriteFails \/ WritePing
    BY <2>1 DEF PingTimer, CheckOutstanding, PingOutstanding, WriteFails, WritePing
  <2>2. CASE MarkPingSent
    <3>1. loopPc # "clear"
      BY <2>2 DEF MarkPingSent
    <3> QED
      BY <2>2, <3>1 DEF MarkPingSent
  <2>3. CASE DropPong \/ NotePong \/ ResetFails \/ ClearUnresp
    BY <2>3 DEF DropPong, NotePong, ResetFails, ClearUnresp, pinger
  <2>4. CASE ReadSentAt \/ ClearSentAt \/ AddFail \/ SetUnresp
    BY <2>4 DEF ReadSentAt, ClearSentAt, AddFail, SetUnresp, pinger
  <2>5. CASE Answer \/ FirmwareChange \/ PortChange \/ TimeoutPasses \/ WindowPasses
             \/ UNCHANGED pingVars
    BY <2>5 DEF Answer, QueuePong, DiscardPong, FirmwareChange, PortChange, TimeoutPasses,
                WindowPasses, pinger, pingVars
  <2> QED
    BY <2>1, <2>2, <2>3, <2>4, <2>5 DEF PingNext, PingStep, HandleLine, VerdictStep
<1> QED
  BY <1>1, <1>2, PTL DEF PingSpec

\* checkPingTimeout never zeroes a PING younger than the one it timed out, and
\* MarkPingSent never overwrites an outstanding one.
THEOREM NoPingForgotten == PingSpec => []PingsAccounted
<1>1. PingInv => PingsAccounted
  BY DEF PingInv
<1> QED
  BY PingInvariant, <1>1, PTL

-----------------------------------------------------------------------------
\* VerdictJustified, and what the loop's position says about the count: the
\* failures are reset before the flag is, and set before the flag is.
VerdictInv ==
  /\ TypeOK
  /\ VerdictJustified
  /\ loopPc = "unresp" => pingFails >= Threshold
  /\ loopPc = "pong_unresp" => pingFails = 0

\* rflink_unresponsive is reported exactly when Threshold failures were counted
\* without a PONG, up to the step between the two atomics.
THEOREM VerdictCorrect == PingSpec => []VerdictJustified
<1>1. PingInit => VerdictInv
  BY PingTypeInit, PingAssumption DEF PingInit, VerdictInv, VerdictJustified
<1>2. ASSUME VerdictInv, [PingNext]_pingVars  PROVE VerdictInv'
  <2>0. TypeOK'
    BY <1>2, PingTypeInductive DEF VerdictInv
  <2> USE <1>2, <2>0, PingAssumption DEF VerdictInv, VerdictJustified
  <2>1. CASE PingStep
    BY <2>1 DEF PingStep, PingTimer, CheckOutstanding, WriteFails, WritePing,
                MarkPingSent, verdict
  <2>2. CASE HandleLine \/ ReadSentAt \/ ClearSentAt
    BY <2>2 DEF HandleLine, DropPong, NotePong, ReadSentAt, ClearSentAt, verdict
  <2>3. CASE ResetFails \/ ClearUnresp \/ SetUnresp
    BY <2>3 DEF ResetFails, ClearUnresp, SetUnresp, TypeOK
  <2>4. CASE AddFail
    BY <2>4 DEF AddFail, TypeOK
  <2>5. CASE Answer \/ FirmwareChange \/ PortChange \/ TimeoutPasses \/ WindowPasses
             \/ UNCHANGED pingVars
    BY <2>5 DEF Answer, QueuePong, DiscardPong, FirmwareChange, PortChange, TimeoutPasses,
                WindowPasses, verdict, pingVars
  <2> QED
    BY <2>1, <2>2, <2>3, <2>4, <2>5 DEF PingNext, VerdictStep
<1>3. VerdictInv => VerdictJustified
  BY DEF VerdictInv
<1> QED
  BY <1>1, <1>2, <1>3, PTL DEF PingSpec
=============================================================================
