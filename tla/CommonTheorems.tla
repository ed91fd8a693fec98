-------------------------- MODULE CommonTheorems --------------------------
(***************************************************************************)
(* What the proofs share: counter % capacity tells nearby counters apart,  *)
(* the queued messages are a span of counters, the parsed devices a list   *)
(* known in advance, and a set of numbers has a least element, which       *)
(* stands for induction.                                                   *)
(***************************************************************************)
EXTENDS Integers, Sequences, WellFoundedInduction, TLAPS

(* Division with remainder, the only fact about % the rings need.          *)
LEMMA Division ==
  ASSUME NEW C \in Nat \ {0}, NEW a \in Nat
  PROVE  /\ a \div C \in Int /\ a % C \in 0 .. C - 1
         /\ a = C * (a \div C) + (a % C)
  OBVIOUS

(* Two counters less than a capacity apart use different slots (the code   *)
(* relies on it for data[tail & MASK] not to overwrite a queued message).  *)
THEOREM SlotsDistinct ==
  ASSUME NEW C \in Nat \ {0}, NEW a \in Nat, NEW b \in Nat, a < b, b < a + C
  PROVE  a % C # b % C
<1> DEFINE d == (b \div C) - (a \div C)
<1>1. SUFFICES ASSUME a % C = b % C PROVE FALSE OBVIOUS
<1>2. /\ a \div C \in Int /\ b \div C \in Int /\ a % C \in Int
      /\ a = C * (a \div C) + (a % C) /\ b = C * (b \div C) + (b % C)
  BY Division
<1>3. C * d = C * (b \div C) - C * (a \div C) BY <1>2
<1>4. b - a = C * d BY <1>1, <1>2, <1>3
<1>5. d \in Int BY <1>2
<1> HIDE DEF d
<1>6. CASE d <= 0
  <2>1. C * d <= 0 BY <1>5, <1>6
  <2> QED BY <2>1, <1>4
<1>7. CASE d >= 1
  <2>1. C * d >= C BY <1>5, <1>7
  <2> QED BY <2>1, <1>4
<1> QED BY <1>5, <1>6, <1>7

(* A remainder determines nothing but itself.                              *)
LEMMA RemainderUnique ==
  ASSUME NEW C \in Nat \ {0}, NEW p \in Int, NEW q \in Int,
         NEW r \in 0 .. C - 1, NEW s \in 0 .. C - 1, C * p + r = C * q + s
  PROVE  r = s
<1>1. C * (p - q) = s - r OBVIOUS
<1>2. CASE p - q >= 1
  <2>1. C * (p - q) >= C BY <1>2
  <2> QED BY <1>1, <2>1
<1>3. CASE p - q <= -1
  <2>1. C * (p - q) <= -C BY <1>3
  <2> QED BY <1>1, <2>1
<1>4. CASE p - q = 0 BY <1>1, <1>4
<1> QED BY <1>2, <1>3, <1>4

(* Wrapping a counter at a multiple of the capacity keeps its slot.        *)
LEMMA SlotAfterWrap ==
  ASSUME NEW C \in Nat \ {0}, NEW k \in Nat, NEW a \in Nat, a >= C * k
  PROVE  (a - C * k) % C = a % C
<1> DEFINE b == a - C * k
<1>1. C * k \in Nat /\ b \in Nat OBVIOUS
<1>2. a = C * (a \div C) + (a % C) /\ a \div C \in Int /\ a % C \in 0 .. C - 1
  BY Division
<1>3. b = C * (b \div C) + (b % C) /\ b \div C \in Int /\ b % C \in 0 .. C - 1
  BY <1>1, Division
<1>4. C * ((b \div C) + k) = C * (b \div C) + C * k BY <1>3
<1>5. C * ((b \div C) + k) + (b % C) = C * (a \div C) + (a % C)
  BY <1>1, <1>2, <1>3, <1>4
<1>6. (b \div C) + k \in Int BY <1>3
<1> HIDE DEF b
<1>7. b % C = a % C BY <1>2, <1>3, <1>5, <1>6, RemainderUnique
<1> QED BY <1>7 DEF b

(* The values of % that a counter near its wrap meets.                     *)
LEMMA SmallModulo ==
  ASSUME NEW M \in Nat \ {0}, NEW x \in Int
  PROVE  /\ x \in 0 .. M - 1 => x % M = x
         /\ x \in M .. 2 * M - 1 => x % M = x - M
         /\ x \in -M .. -1 => x % M = x + M
OBVIOUS

LEMMA TailFacts ==
  ASSUME NEW S, NEW s \in Seq(S), s # <<>>
  PROVE  /\ Tail(s) \in Seq(S) /\ Len(Tail(s)) = Len(s) - 1
         /\ \A k \in 1 .. Len(s) - 1 : Tail(s)[k] = s[k + 1]
OBVIOUS

LEMMA AppendFacts ==
  ASSUME NEW S, NEW s \in Seq(S), NEW e \in S
  PROVE  /\ Append(s, e) \in Seq(S) /\ Len(Append(s, e)) = Len(s) + 1
         /\ \A k \in 1 .. Len(s) : Append(s, e)[k] = s[k]
         /\ Append(s, e)[Len(s) + 1] = e
OBVIOUS

LEMMA PushFacts ==
  ASSUME NEW S, NEW s \in Seq(S), NEW e \in S
  PROVE  /\ <<e>> \o s \in Seq(S) /\ Len(<<e>> \o s) = Len(s) + 1
         /\ (<<e>> \o s)[1] = e
         /\ \A k \in 2 .. Len(s) + 1 : (<<e>> \o s)[k] = s[k - 1]
OBVIOUS

LEMMA ConcatFacts ==
  ASSUME NEW S, NEW s \in Seq(S), NEW u \in Seq(S)
  PROVE  /\ s \o u \in Seq(S) /\ Len(s \o u) = Len(s) + Len(u)
         /\ \A k \in 1 .. Len(s) : (s \o u)[k] = s[k]
         /\ \A k \in Len(s) + 1 .. Len(s) + Len(u) : (s \o u)[k] = u[k - Len(s)]
OBVIOUS

LEMMA SeqEqual ==
  ASSUME NEW S, NEW s \in Seq(S), NEW t \in Seq(S), Len(s) = Len(t),
         \A k \in 1 .. Len(s) : s[k] = t[k]
  PROVE  s = t
OBVIOUS

LEMMA SeqIs ==
  ASSUME NEW S, NEW n \in Nat, NEW s, s = [k \in 1 .. n |-> s[k]],
         \A k \in 1 .. n : s[k] \in S
  PROVE  s \in Seq(S) /\ Len(s) = n
<1>1. s \in [1 .. n -> S] OBVIOUS
<1> QED BY <1>1

(* The numbers from a to b - 1, in order.                                  *)
Span(a, b) == [k \in 1 .. b - a |-> a + k - 1]

LEMMA SpanType ==
  ASSUME NEW a \in Nat, NEW b \in Nat, a <= b
  PROVE  /\ Span(a, b) \in Seq(Nat) /\ Len(Span(a, b)) = b - a
         /\ \A k \in 1 .. b - a : Span(a, b)[k] = a + k - 1
<1>1. \A k \in 1 .. b - a : a + k - 1 \in Nat OBVIOUS
<1>2. b - a \in Nat OBVIOUS
<1> QED BY <1>1, <1>2 DEF Span

(* Putting the next number and taking the first one move the span's ends.  *)
LEMMA SpanAppend ==
  ASSUME NEW a \in Nat, NEW b \in Nat, a <= b
  PROVE  Append(Span(a, b), b) = Span(a, b + 1)
<1>1. /\ Span(a, b) \in Seq(Nat) /\ Len(Span(a, b)) = b - a
      /\ \A k \in 1 .. b - a : Span(a, b)[k] = a + k - 1
  BY SpanType
<1>2. /\ Span(a, b + 1) \in Seq(Nat) /\ Len(Span(a, b + 1)) = b + 1 - a
      /\ \A k \in 1 .. b + 1 - a : Span(a, b + 1)[k] = a + k - 1
  BY SpanType
<1>3. /\ Append(Span(a, b), b) \in Seq(Nat) /\ Len(Append(Span(a, b), b)) = b + 1 - a
      /\ \A k \in 1 .. b + 1 - a : Append(Span(a, b), b)[k] = a + k - 1
  BY <1>1
<1> QED BY <1>2, <1>3, SeqEqual

LEMMA SpanTake ==
  ASSUME NEW a \in Nat, NEW b \in Nat, a < b
  PROVE  /\ Span(a, b) # <<>> /\ Head(Span(a, b)) = a
         /\ Tail(Span(a, b)) = Span(a + 1, b)
<1>1. /\ Span(a, b) \in Seq(Nat) /\ Len(Span(a, b)) = b - a
      /\ \A k \in 1 .. b - a : Span(a, b)[k] = a + k - 1
  BY SpanType
<1>2. /\ Span(a + 1, b) \in Seq(Nat) /\ Len(Span(a + 1, b)) = b - a - 1
      /\ \A k \in 1 .. b - a - 1 : Span(a + 1, b)[k] = a + k
  BY SpanType
<1>3. Span(a, b) # <<>> /\ Head(Span(a, b)) = a BY <1>1
<1>4. /\ Tail(Span(a, b)) \in Seq(Nat) /\ Len(Tail(Span(a, b))) = b - a - 1
      /\ \A k \in 1 .. b - a - 1 : Tail(Span(a, b))[k] = a + k
  <2>1. /\ Tail(Span(a, b)) \in Seq(Nat) /\ Len(Tail(Span(a, b))) = b - a - 1
        /\ \A k \in 1 .. b - a - 1 : Tail(Span(a, b))[k] = Span(a, b)[k + 1]
    BY <1>1, <1>3, TailFacts
  <2>2. \A k \in 1 .. b - a - 1 : Span(a, b)[k + 1] = a + k BY <1>1
  <2> QED BY <2>1, <2>2
<1> QED BY <1>2, <1>3, <1>4, SeqEqual

(***************************************************************************)
(* The lists of chapter 17, newest first: n devices numbered from 0, the   *)
(* newest with p properties and the others with all of them.               *)
(***************************************************************************)
Countdown(p) == [l \in 1 .. p |-> p - l]
Plain(m, p) == [name |-> m, props |-> Countdown(p)]
Listed(n, p, full) == [k \in 1 .. n |-> Plain(n - k, IF k = 1 THEN p ELSE full)]

PlainType == [name : Int, props : Seq(Int)]

LEMMA CountdownFacts ==
  ASSUME NEW p \in Nat
  PROVE  /\ Countdown(p) \in Seq(Int) /\ Len(Countdown(p)) = p
         /\ <<p>> \o Countdown(p) = Countdown(p + 1)
<1>1. \A q \in Nat : /\ Countdown(q) \in Seq(Int) /\ Len(Countdown(q)) = q
                    /\ \A l \in 1 .. q : Countdown(q)[l] = q - l
  BY DEF Countdown
<1> DEFINE c == Countdown(p)
           d == Countdown(p + 1)
<1>2. c \in Seq(Int) /\ Len(c) = p /\ \A l \in 1 .. p : c[l] = p - l BY <1>1
<1>3. d \in Seq(Int) /\ Len(d) = p + 1 /\ \A l \in 1 .. p + 1 : d[l] = p + 1 - l BY <1>1
<1> HIDE DEF c, d
<1>4. /\ <<p>> \o c \in Seq(Int) /\ Len(<<p>> \o c) = p + 1 /\ (<<p>> \o c)[1] = p
      /\ \A l \in 2 .. p + 1 : (<<p>> \o c)[l] = c[l - 1]
  BY <1>2
<1>5. \A l \in 1 .. p + 1 : (<<p>> \o c)[l] = d[l] BY <1>2, <1>3, <1>4
<1>6. <<p>> \o c = d BY <1>3, <1>4, <1>5, SeqEqual
<1> QED BY <1>2, <1>6 DEF c, d

LEMMA ListedFacts ==
  ASSUME NEW full \in Nat, NEW n \in Nat, NEW p \in Nat
  PROVE  /\ Listed(n, p, full) \in Seq(PlainType) /\ Len(Listed(n, p, full)) = n
         /\ \A k \in 1 .. n : Listed(n, p, full)[k] = Plain(n - k, IF k = 1 THEN p ELSE full)
         /\ n > 0 => Listed(n, p, full)[1].props = Countdown(p)
         /\ Listed(n, p, full) = <<>> <=> n = 0
<1>1. \A m \in Int, q \in Nat : Plain(m, q) \in PlainType BY CountdownFacts DEF Plain, PlainType
<1>2. \A k \in 1 .. n : Plain(n - k, IF k = 1 THEN p ELSE full) \in PlainType
  BY <1>1
<1>3. /\ Listed(n, p, full) \in Seq(PlainType) /\ Len(Listed(n, p, full)) = n
      /\ \A k \in 1 .. n : Listed(n, p, full)[k] = Plain(n - k, IF k = 1 THEN p ELSE full)
  BY <1>2 DEF Listed
<1>4. n > 0 => Listed(n, p, full)[1].props = Countdown(p) BY <1>3 DEF Plain
<1>5. Listed(n, p, full) = <<>> <=> n = 0 BY <1>3
<1> QED BY <1>3, <1>4, <1>5

(* Linking a device or a property in front of the list.                    *)
LEMMA ListedDevice ==
  ASSUME NEW full \in Nat, NEW n \in Nat
  PROVE  <<[name |-> n, props |-> <<>>]>> \o Listed(n, full, full) = Listed(n + 1, 0, full)
<1> DEFINE a == [name |-> n, props |-> <<>>]
           s == Listed(n, full, full)
           u == Listed(n + 1, 0, full)
<1>1. Countdown(0) = <<>>
  <2>1. Countdown(0) \in Seq(Int) /\ Len(Countdown(0)) = 0 BY CountdownFacts
  <2> QED BY <2>1
<1>2. a = Plain(n, 0) /\ a \in PlainType BY <1>1 DEF Plain, PlainType
<1>3. /\ s \in Seq(PlainType) /\ Len(s) = n
      /\ \A k \in 1 .. n : s[k] = Plain(n - k, full)
  BY ListedFacts
<1>4. /\ u \in Seq(PlainType) /\ Len(u) = n + 1
      /\ \A k \in 1 .. n + 1 : u[k] = Plain(n + 1 - k, IF k = 1 THEN 0 ELSE full)
  BY ListedFacts
<1> HIDE DEF a, s, u
<1>5. /\ <<a>> \o s \in Seq(PlainType) /\ Len(<<a>> \o s) = n + 1 /\ (<<a>> \o s)[1] = a
      /\ \A k \in 2 .. n + 1 : (<<a>> \o s)[k] = s[k - 1]
  BY <1>2, <1>3
<1>6. ASSUME NEW k \in 1 .. n + 1 PROVE (<<a>> \o s)[k] = u[k]
  <2>1. CASE k = 1 BY <1>2, <1>4, <1>5, <2>1
  <2>2. CASE k # 1
    <3>1. k - 1 \in 1 .. n /\ n - (k - 1) = n + 1 - k BY <2>2
    <3>2. s[k - 1] = Plain(n + 1 - k, full) BY <1>3, <3>1
    <3> QED BY <1>4, <1>5, <2>2, <3>2
  <2> QED BY <2>1, <2>2
<1>7. <<a>> \o s = u BY <1>4, <1>5, <1>6, SeqEqual
<1> QED BY <1>7 DEF a, s, u

LEMMA ListedProperty ==
  ASSUME NEW full \in Nat, NEW n \in Nat \ {0}, NEW p \in Nat
  PROVE  [Listed(n, p, full) EXCEPT ![1].props = <<Len(@)>> \o @] = Listed(n, p + 1, full)
<1> DEFINE s == Listed(n, p, full)
           u == Listed(n, p + 1, full)
           d == Plain(n - 1, p + 1)
<1>1. s[1].props = Countdown(p) BY ListedFacts
<1>2. <<Len(Countdown(p))>> \o Countdown(p) = Countdown(p + 1) BY CountdownFacts
<1>3. s = [k \in 1 .. n |-> s[k]] /\ u = [k \in 1 .. n |-> u[k]] BY DEF Listed
<1>4. s[1] = Plain(n - 1, p) /\ u[1] = d /\ \A k \in 2 .. n : u[k] = s[k]
  <2>1. \A k \in 1 .. n : s[k] = Plain(n - k, IF k = 1 THEN p ELSE full) BY ListedFacts
  <2>2. \A k \in 1 .. n : u[k] = Plain(n - k, IF k = 1 THEN p + 1 ELSE full)
    BY ListedFacts
  <2> QED BY <2>1, <2>2
<1> HIDE DEF s, u
<1>5. [s[1] EXCEPT !.props = Countdown(p + 1)] = d BY <1>4 DEF Plain
<1>6. [s EXCEPT ![1].props = <<Len(@)>> \o @]
        = [s EXCEPT ![1] = [s[1] EXCEPT !.props = Countdown(p + 1)]]
  BY <1>1, <1>2, <1>3
<1> HIDE DEF d
<1>7. [s EXCEPT ![1] = d] = [k \in 1 .. n |-> IF k = 1 THEN d ELSE s[k]] BY <1>3
<1>8. \A k \in 1 .. n : (IF k = 1 THEN d ELSE s[k]) = u[k] BY <1>4
<1>9. [s EXCEPT ![1] = d] = u BY <1>3, <1>7, <1>8
<1>10. [s EXCEPT ![1].props = <<Len(@)>> \o @] = u BY <1>5, <1>6, <1>9
<1> QED BY <1>10 DEF s, u

(* The principle behind every induction over array indices.                *)
THEOREM LeastNumber ==
  ASSUME NEW T \in SUBSET Nat, T # {}
  PROVE  \E x \in T : \A y \in T : x <= y
<1> DEFINE R == OpToRel(<, Nat)
<1>1. IsWellFoundedOn(R, Nat) BY NatLessThanWellFounded
<1>2. PICK x \in T : \A y \in T : ~ (<<y, x>> \in R) BY <1>1, WFMin
<1>3. ASSUME NEW y \in T PROVE x <= y
  <2>1. <<y, x>> \in Nat \X Nat /\ <<y, x>> \notin R BY <1>2
  <2>2. ~ (y < x) BY <2>1 DEF OpToRel
  <2> QED BY <2>2
<1> QED BY <1>3
=============================================================================
