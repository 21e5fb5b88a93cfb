---------------------------- MODULE KernelProofs ----------------------------
(***************************************************************************)
(* No wake-up is lost, no wait ends early and the calls are atomic:        *)
(* theorems about FreeRTOS's tasks, blocking calls and interrupts, for any *)
(* tasks, priorities, objects, calls and times.                            *)
(*                                                                         *)
(* First come lemmas about numbers, event lists, one side of an object and *)
(* the functions of the scheduler, then the inductive invariant WInv, then *)
(* a lemma for each action, named <action>Keeps; then the times, with the  *)
(* invariant TInv, and a lemma for each action, named <action>Time; then   *)
(* the step of BlockingObjects each action is; and the theorems at the     *)
(* end.  KernelPriorityProofs goes on from here.                           *)
(***************************************************************************)
EXTENDS Kernel, FiniteSetTheorems, WellFoundedInduction, TLAPS

---------------------------------------------------------------------------
\* The record of the scheduler; that held is no negative number takes more
\* than this module shows
KState == [cur : Task, list : [Task -> Lists], wake : [Task -> 0 .. TickMod - 1],
           prio : [Task -> Priority], held : [Task -> Int], bits : SUBSET Priority,
           pendingReady : SUBSET Task, suspended : BOOLEAN, yieldPending : BOOLEAN,
           pended : 0 .. MaxPended, tick : 0 .. TickMod - 1, next : 0 .. TickMod - 1,
           pendSV : BOOLEAN]

\* The tasks of an event list, and that none is in it twice
In(list) == {list[i] : i \in DOMAIN list}
Once(list) == \A i, j \in DOMAIN list : list[i] = list[j] => i = j

---------------------------------------------------------------------------
(* Induction over the numbers, and what it gives *)

\* < on the numbers is well-founded
LEMMA NatWF == IsWellFoundedOn(OpToRel(<, Nat), Nat)
BY NatLessThanWellFounded

\* A nonempty set of numbers has a least one
LEMMA Least ==
    ASSUME NEW S, S \subseteq Nat, S # {}
    PROVE  \E m \in S : \A n \in S : m <= n
<1>1. PICK m \in S : \A n \in S : ~ (<<n, m>> \in OpToRel(<, Nat))
  BY ONLY S \subseteq Nat, S # {}, NatWF, WFMin
<1>2. \A n \in S : ~ (n < m)
  BY <1>1 DEF OpToRel
<1> QED
  BY <1>2

\* Min of a set of numbers is one of them
LEMMA MinOf ==
    ASSUME NEW S, S \subseteq Nat, S # {}
    PROVE  Min(S) \in S
BY Least DEF Min

\* Induction, over a set in the place of a predicate
LEMMA Induction ==
    ASSUME NEW S, 0 \in S, \A n \in Nat : n \in S => n + 1 \in S
    PROVE  Nat \subseteq S
<1> SUFFICES ASSUME Nat \ S # {}
             PROVE  FALSE
  OBVIOUS
<1>1. PICK m \in Nat \ S : \A n \in Nat \ S : m <= n
  <2> DEFINE U == Nat \ S
  <2>1. U \subseteq Nat /\ U # {}
    OBVIOUS
  <2>2. \E m \in U : \A n \in U : m <= n
    <3> HIDE DEF U
    <3> QED
      BY ONLY <2>1, Least
  <2> QED
    BY <2>2
<1>2. m \in Nat /\ m # 0 /\ m - 1 \in Nat
  BY <1>1
<1>3. m - 1 \in S
  BY <1>1, <1>2
<1> QED
  BY <1>1, <1>2, <1>3

\* Min and Max of two numbers
LEMMA MinOfTwo ==
    ASSUME NEW a \in Int, NEW b \in Int
    PROVE  Min({a, b}) = IF a <= b THEN a ELSE b
BY DEF Min

(* ... the larger.                                                         *)
LEMMA MaxOfTwo ==
    ASSUME NEW a \in Int, NEW b \in Int
    PROVE  Max({a, b}) = IF a >= b THEN a ELSE b
BY DEF Max

---------------------------------------------------------------------------
(* Event lists *)

\* Without(list, ts) is the list it names
WithoutRest(list, ts, rest) ==
    rest = [i \in 0 .. Len(list) |->
              IF i = 0 THEN << >>
              ELSE IF list[i] \in ts THEN rest[i - 1] ELSE Append(rest[i - 1], list[i])]

\* The recursive function behind Without,
LEMMA WithoutDef ==
    ASSUME NEW list, NEW ts
    PROVE  Without(list, ts) = (CHOOSE rest : WithoutRest(list, ts, rest))[Len(list)]
BY SMT DEF Without, WithoutRest

\* such a function exists,
LEMMA WithoutRestExists ==
    ASSUME NEW list, Len(list) \in Nat, NEW ts
    PROVE  \E rest : WithoutRest(list, ts, rest)
<1> DEFINE To(n, r) ==
        r = [i \in 0 .. n |->
               IF i = 0 THEN << >>
               ELSE IF list[i] \in ts THEN r[i - 1] ELSE Append(r[i - 1], list[i])]
    Reached == {n \in Nat : \E r : To(n, r)}
<1>1. 0 \in Reached
  <2>1. To(0, [i \in 0 .. 0 |-> << >>])
    OBVIOUS
  <2> QED
    BY <2>1
<1>2. ASSUME NEW n \in Nat, n \in Reached
      PROVE  n + 1 \in Reached
  <2>1. PICK r : To(n, r)
    BY <1>2
  <2> DEFINE last == IF list[n + 1] \in ts THEN r[n] ELSE Append(r[n], list[n + 1])
      s == [i \in 0 .. n + 1 |-> IF i = n + 1 THEN last ELSE r[i]]
  <2>2. \A i \in 0 .. n + 1 : i # 0 => i - 1 \in 0 .. n /\ s[i - 1] = r[i - 1]
    OBVIOUS
  <2>3. \A i \in 0 .. n : r[i] = IF i = 0 THEN << >>
                                 ELSE IF list[i] \in ts THEN r[i - 1]
                                 ELSE Append(r[i - 1], list[i])
    BY <2>1
  <2>4. ASSUME NEW i \in 0 .. n + 1
        PROVE  s[i] = IF i = 0 THEN << >>
                      ELSE IF list[i] \in ts THEN s[i - 1] ELSE Append(s[i - 1], list[i])
    <3>1. CASE i = n + 1
      <4>1. s[i] = last /\ s[i - 1] = r[n] /\ i # 0
        BY <3>1, <2>2
      <4> QED
        BY <3>1, <4>1
    <3>2. CASE i # n + 1
      <4>1. i \in 0 .. n /\ s[i] = r[i]
        BY <3>2
      <4> HIDE DEF s
      <4> QED
        BY <4>1, <2>2, <2>3
    <3> QED
      BY <3>1, <3>2
  <2>5. To(n + 1, s)
    <3> DEFINE F(i) == IF i = 0 THEN << >>
                       ELSE IF list[i] \in ts THEN s[i - 1] ELSE Append(s[i - 1], list[i])
    <3>1. s = [i \in 0 .. n + 1 |-> s[i]]
      OBVIOUS
    <3>2. \A i \in 0 .. n + 1 : s[i] = F(i)
      BY <2>4
    <3> HIDE DEF s, F
    <3>3. s = [i \in 0 .. n + 1 |-> F(i)]
      BY <3>1, <3>2
    <3> QED
      BY <3>3 DEF F
  <2> HIDE DEF To
  <2> QED
    BY <2>5
<1>3. Nat \subseteq Reached
  <2> HIDE DEF Reached
  <2> QED
    BY ONLY <1>1, <1>2, Induction
<1> QED
  BY <1>3 DEF WithoutRest

\* and what it leaves are the other tasks, each where it was once
LEMMA WithoutIs ==
    ASSUME NEW S, NEW list \in Seq(S), NEW ts
    PROVE  /\ Without(list, ts) \in Seq(S)
           /\ In(Without(list, ts)) = In(list) \ ts
           /\ Once(list) => Once(Without(list, ts))
<1> DEFINE rest == CHOOSE r : WithoutRest(list, ts, r)
    Before(n) == {list[i] : i \in 1 .. n}
    Good(l, n) == /\ l \in Seq(S) /\ In(l) = Before(n) \ ts
                  /\ Once(list) => Once(l)
    Reached == {n \in Nat : n <= Len(list) => Good(rest[n], n)}
<1>0. Len(list) \in Nat /\ DOMAIN list = 1 .. Len(list)
  OBVIOUS
<1>1. WithoutRest(list, ts, rest)
  BY <1>0, WithoutRestExists
<1> HIDE DEF rest
<1>2. \A i \in 0 .. Len(list) :
        rest[i] = IF i = 0 THEN << >>
                  ELSE IF list[i] \in ts THEN rest[i - 1] ELSE Append(rest[i - 1], list[i])
  BY <1>1 DEF WithoutRest
<1>3. 0 \in Reached
  <2>1. rest[0] = << >>
    BY <1>0, <1>2
  <2>2. Good(<< >>, 0)
    BY DEF In, Once
  <2> QED
    BY <2>1, <2>2
<1>4. ASSUME NEW n \in Nat, n \in Reached
      PROVE  n + 1 \in Reached
  <2> SUFFICES ASSUME n + 1 <= Len(list)
               PROVE  Good(rest[n + 1], n + 1)
    OBVIOUS
  <2>1. Good(rest[n], n)
    BY <1>4, <1>0
  <2> DEFINE x == list[n + 1]
  <2>2. rest[n + 1] = IF x \in ts THEN rest[n] ELSE Append(rest[n], x)
    <3>1. n + 1 \in 0 .. Len(list) /\ n + 1 # 0 /\ (n + 1) - 1 = n
      BY <1>0
    <3> QED
      BY <1>2, <3>1
  <2>3. x \in S /\ Before(n + 1) = Before(n) \cup {x}
    BY <1>0
  <2>4. Once(list) => x \notin Before(n)
    BY <1>0 DEF Once
  <2> HIDE DEF x, Before
  <2>5. CASE x \in ts
    BY <2>1, <2>2, <2>3, <2>5
  <2>6. CASE x \notin ts
    <3> DEFINE l == rest[n]  m == Append(l, x)
    <3>1. rest[n + 1] = m
      BY <2>2, <2>6
    <3>2. l \in Seq(S) /\ In(l) = Before(n) \ ts /\ (Once(list) => Once(l))
      BY <2>1
    <3> HIDE DEF l
    <3>3. /\ m \in Seq(S) /\ DOMAIN m = 1 .. Len(l) + 1 /\ DOMAIN l = 1 .. Len(l)
          /\ Len(l) \in Nat /\ m[Len(l) + 1] = x /\ \A i \in 1 .. Len(l) : m[i] = l[i]
      BY <3>2, <2>3
    <3> HIDE DEF m
    <3>4. In(m) = In(l) \cup {x}
      BY <3>3 DEF In
    <3>5. Once(list) => Once(m)
      <4> SUFFICES ASSUME Once(list), NEW i \in DOMAIN m, NEW j \in DOMAIN m, m[i] = m[j]
                   PROVE  i = j
        BY DEF Once
      <4>1. x \notin In(l)
        BY <2>4, <3>2
      <4>2. \A i1 \in 1 .. Len(l) : m[i1] \in In(l)
        BY <3>3 DEF In
      <4>3. CASE i \in 1 .. Len(l) /\ j \in 1 .. Len(l)
        BY <3>2, <3>3, <4>3 DEF Once
      <4> QED
        BY <3>3, <4>1, <4>2, <4>3
    <3> QED
      BY <2>3, <2>6, <3>1, <3>2, <3>3, <3>4, <3>5
  <2> QED
    BY <2>5, <2>6
<1>5. Nat \subseteq Reached
  <2> HIDE DEF Reached
  <2> QED
    BY ONLY <1>3, <1>4, Induction
<1>6. Good(rest[Len(list)], Len(list))
  BY <1>0, <1>5
<1>7. In(list) = Before(Len(list))
  BY <1>0 DEF In
<1>8. Without(list, ts) = rest[Len(list)]
  BY WithoutDef DEF rest
<1> QED
  BY <1>6, <1>7, <1>8

\* The items of two lists put together
LEMMA JoinedItems ==
    ASSUME NEW S, NEW a \in Seq(S), NEW b \in Seq(S)
    PROVE  /\ a \o b \in Seq(S) /\ Len(a \o b) = Len(a) + Len(b)
           /\ \A i \in 1 .. Len(a) : (a \o b)[i] = a[i]
           /\ \A i \in 1 .. Len(a) + Len(b) : i > Len(a) => (a \o b)[i] = b[i - Len(a)]
OBVIOUS

\* An event list with one more task somewhere
LEMMA Inserted ==
    ASSUME NEW S, NEW list \in Seq(S), NEW x \in S, NEW p \in 1 .. Len(list) + 1,
           NEW new, new = SubSeq(list, 1, p - 1) \o <<x>> \o SubSeq(list, p, Len(list))
    PROVE  /\ new \in Seq(S) /\ new # << >>
           /\ In(new) = In(list) \cup {x}
           /\ Once(list) /\ x \notin In(list) => Once(new)
<1> DEFINE n == Len(list)  a == SubSeq(list, 1, p - 1)  b == SubSeq(list, p, n)
           e == <<x>>  c == a \o e
<1>0. n \in Nat /\ p \in 1 .. n + 1 /\ DOMAIN list = 1 .. n
  OBVIOUS
<1>1. /\ a \in Seq(S) /\ Len(a) = p - 1 /\ \A i \in 1 .. p - 1 : a[i] = list[i]
  BY <1>0
<1>2. /\ b \in Seq(S) /\ Len(b) = n - p + 1
      /\ \A i \in 1 .. n - p + 1 : b[i] = list[p + i - 1]
  BY <1>0
<1>3. e \in Seq(S) /\ Len(e) = 1 /\ e[1] = x
  OBVIOUS
<1>4. new = c \o b
  OBVIOUS
<1> HIDE DEF n, a, b, e
<1>5. /\ c \in Seq(S) /\ Len(c) = p /\ c[p] = x /\ \A i \in 1 .. p - 1 : c[i] = list[i]
  <2>1. /\ c \in Seq(S) /\ Len(c) = Len(a) + Len(e)
        /\ \A i \in 1 .. Len(a) : c[i] = a[i]
        /\ \A i \in 1 .. Len(a) + Len(e) : i > Len(a) => c[i] = e[i - Len(a)]
    BY ONLY <1>1, <1>3, JoinedItems DEF c
  <2>2. (p - 1) + 1 = p /\ p > p - 1 /\ p - (p - 1) = 1 /\ p \in 1 .. p
    BY ONLY <1>0
  <2> QED
    BY ONLY ZenonT(40), <1>1, <1>3, <2>1, <2>2
<1> HIDE DEF c
<1>6. /\ new \in Seq(S) /\ Len(new) = n + 1 /\ new[p] = x
      /\ \A i \in 1 .. p - 1 : new[i] = list[i]
      /\ \A i \in p + 1 .. n + 1 : new[i] = b[i - p]
  <2>1. /\ new \in Seq(S) /\ Len(new) = Len(c) + Len(b)
        /\ \A i \in 1 .. Len(c) : new[i] = c[i]
        /\ \A i \in 1 .. Len(c) + Len(b) : i > Len(c) => new[i] = b[i - Len(c)]
    BY ONLY ZenonT(40), <1>2, <1>4, <1>5, JoinedItems
  <2>2. p + (n - p + 1) = n + 1 /\ p \in 1 .. p
    BY ONLY <1>0
  <2>3. /\ \A i \in 1 .. p - 1 : i \in 1 .. p
        /\ \A i \in p + 1 .. n + 1 : i \in 1 .. n + 1 /\ i > p
    BY ONLY <1>0
  <2> QED
    BY ONLY <1>2, <1>5, <2>1, <2>2, <2>3
<1>7. \A i \in p + 1 .. n + 1 : new[i] = list[i - 1]
  <2> TAKE i \in p + 1 .. n + 1
  <2>1. i - p \in 1 .. n - p + 1 /\ p + (i - p) - 1 = i - 1
    BY ONLY <1>0
  <2> QED
    BY <1>2, <1>6, <2>1
<1>8. DOMAIN new = 1 .. n + 1
  BY ONLY <1>6
<1>9. In(new) = In(list) \cup {x}
  <2>1. \A i \in 1 .. n + 1 : new[i] \in In(list) \cup {x}
    <3> TAKE i \in 1 .. n + 1
    <3>1. CASE i < p
      <4>1. i \in 1 .. p - 1 /\ i \in 1 .. n
        BY ONLY <1>0, <3>1, i \in 1 .. n + 1
      <4> QED
        BY ONLY <1>0, <1>6, <4>1 DEF In
    <3>2. CASE i > p
      <4>1. i \in p + 1 .. n + 1 /\ i - 1 \in 1 .. n
        BY ONLY <1>0, <3>2, i \in 1 .. n + 1
      <4> QED
        BY ONLY <1>0, <1>7, <4>1 DEF In
    <3>3. i < p \/ i > p \/ i = p
      BY ONLY <1>0, i \in 1 .. n + 1
    <3> QED
      BY ONLY <1>6, <3>1, <3>2, <3>3
  <2>2. \A i \in 1 .. n : list[i] \in In(new)
    <3> TAKE i \in 1 .. n
    <3>1. CASE i < p
      <4>1. i \in 1 .. p - 1 /\ i \in 1 .. n + 1
        BY ONLY <1>0, <3>1, i \in 1 .. n
      <4> QED
        BY ONLY <1>6, <1>8, <4>1 DEF In
    <3>2. CASE i >= p
      <4>1. i + 1 \in p + 1 .. n + 1 /\ (i + 1) - 1 = i /\ i + 1 \in 1 .. n + 1
        BY ONLY <1>0, <3>2, i \in 1 .. n
      <4> QED
        BY ONLY <1>7, <1>8, <4>1 DEF In
    <3> QED
      BY <1>0, <3>1, <3>2
  <2>3. x \in In(new)
    BY <1>0, <1>6, <1>8 DEF In
  <2> QED
    BY <1>0, <1>8, <2>1, <2>2, <2>3 DEF In
<1>10. ASSUME Once(list), x \notin In(list)
       PROVE  Once(new)
  <2> DEFINE At0(i) == IF i < p THEN i ELSE i - 1
  <2>1. ASSUME NEW i \in 1 .. n + 1, i # p
        PROVE  At0(i) \in 1 .. n /\ new[i] = list[At0(i)]
    <3>1. CASE i < p
      <4>1. i \in 1 .. p - 1 /\ i \in 1 .. n /\ At0(i) = i
        BY ONLY <1>0, <3>1, i \in 1 .. n + 1 DEF At0
      <4> QED
        BY ONLY <1>6, <4>1
    <3>2. CASE i > p
      <4>1. i \in p + 1 .. n + 1 /\ i - 1 \in 1 .. n /\ At0(i) = i - 1
        BY ONLY <1>0, <3>2, i \in 1 .. n + 1 DEF At0
      <4> QED
        BY ONLY <1>7, <4>1
    <3> QED
      BY ONLY <1>0, <2>1, <3>1, <3>2, i \in 1 .. n + 1
  <2>2. \A i, j \in 1 .. n + 1 : i # p /\ j # p /\ At0(i) = At0(j) => i = j
    BY <1>0
  <2>3. \A i \in 1 .. n + 1 : i # p => new[i] # x
    BY <1>0, <1>10, <2>1 DEF In
  <2> HIDE DEF At0
  <2> SUFFICES ASSUME NEW i \in 1 .. n + 1, NEW j \in 1 .. n + 1, new[i] = new[j]
               PROVE  i = j
    BY <1>8 DEF Once
  <2>4. CASE i # p /\ j # p
    BY <1>0, <1>10, <2>1, <2>2, <2>4 DEF Once
  <2> QED
    BY <1>6, <2>3, <2>4
<1> QED
  BY <1>6, <1>9, <1>10

\* vListInsert puts a task into the list
LEMMA Placed ==
    ASSUME NEW list \in Seq(Task), NEW t \in Task
    PROVE  /\ PlaceInOrder(list, t) \in Seq(Task) /\ PlaceInOrder(list, t) # << >>
           /\ In(PlaceInOrder(list, t)) = In(list) \cup {t}
           /\ Once(list) /\ t \notin In(list) => Once(PlaceInOrder(list, t))
<1> DEFINE lower == {i \in DOMAIN list : k.prio[list[i]] < k.prio[t]}
           p == IF lower = {} THEN Len(list) + 1 ELSE Min(lower)
<1>1. p \in 1 .. Len(list) + 1
  <2>1. lower \subseteq Nat /\ lower \subseteq 1 .. Len(list) /\ Len(list) \in Nat
    OBVIOUS
  <2> DEFINE least == Min(lower)  n == Len(list)
  <2>2. lower # {} => least \in lower
    <3> HIDE DEF lower
    <3> QED
      BY ONLY <2>1, MinOf DEF least
  <2>3. lower # {} => least \in 1 .. n
    BY ONLY <2>1, <2>2
  <2> HIDE DEF lower, least
  <2> QED
    BY <2>1, <2>3 DEF least
<1>2. PlaceInOrder(list, t) =
        SubSeq(list, 1, p - 1) \o <<t>> \o SubSeq(list, p, Len(list))
  BY DEF PlaceInOrder
<1> HIDE DEF p
<1> QED
  BY <1>1, <1>2, Inserted

\* The list without its head
LEMMA Shifted ==
    ASSUME NEW S, NEW list \in Seq(S), list # << >>, Once(list)
    PROVE  /\ Tail(list) \in Seq(S) /\ Once(Tail(list))
           /\ Head(list) \in In(list) /\ In(Tail(list)) = In(list) \ {Head(list)}
<1> DEFINE n == Len(list)  new == Tail(list)
<1>1. n \in Nat /\ n # 0 /\ DOMAIN list = 1 .. n /\ Head(list) = list[1]
  OBVIOUS
<1>2. /\ new \in Seq(S) /\ DOMAIN new = 1 .. n - 1
      /\ \A i \in 1 .. n - 1 : new[i] = list[i + 1]
  BY <1>1
<1> HIDE DEF n, new
<1>3. Once(new)
  <2> SUFFICES ASSUME NEW i \in 1 .. n - 1, NEW j \in 1 .. n - 1, new[i] = new[j]
               PROVE  i = j
    BY <1>2 DEF Once
  <2>1. i + 1 \in 1 .. n /\ j + 1 \in 1 .. n /\ list[i + 1] = list[j + 1]
    BY <1>1, <1>2
  <2>2. i + 1 = j + 1
    BY <1>1, <2>1 DEF Once
  <2> QED
    BY <1>1, <2>2
<1>4. \A i \in 1 .. n - 1 : new[i] \in In(list) /\ new[i] # list[1]
  <2> TAKE i \in 1 .. n - 1
  <2>1. i + 1 \in 1 .. n /\ 1 \in 1 .. n /\ i + 1 # 1 /\ new[i] = list[i + 1]
    BY <1>1, <1>2
  <2> QED
    BY <1>1, <2>1 DEF In, Once
<1>5. \A i \in 1 .. n : list[i] = list[1] \/ list[i] \in In(new)
  <2> TAKE i \in 1 .. n
  <2>1. CASE i # 1
    <3>1. i - 1 \in 1 .. n - 1 /\ (i - 1) + 1 = i
      BY <1>1, <2>1
    <3> QED
      BY <1>2, <3>1 DEF In
  <2> QED
    BY <2>1
<1>6. list[1] \in In(list)
  BY <1>1 DEF In
<1>7. In(new) = In(list) \ {list[1]}
  BY ZenonT(40), <1>1, <1>2, <1>4, <1>5 DEF In
<1> QED
  BY <1>1, <1>2, <1>3, <1>6, <1>7 DEF new

\* The first n different tasks of a list are n tasks, if it has as many
LEMMA WokenAre ==
    ASSUME NEW S, NEW list \in Seq(S), Once(list), NEW n \in Int,
           In(list) \ Woken(list, n) # {}
    PROVE  /\ Woken(list, n) \subseteq In(list)
           /\ IsFiniteSet(Woken(list, n))
           /\ Cardinality(Woken(list, n)) = IF n < 0 THEN 0 ELSE n
<1> DEFINE m == Min({n, Len(list)})  w == {list[i] : i \in 1 .. m}
<1>1. /\ Len(list) \in Nat /\ DOMAIN list = 1 .. Len(list)
      /\ m = IF n <= Len(list) THEN n ELSE Len(list)
  BY MinOfTwo
<1>2. Woken(list, n) = w
  BY DEF Woken
<1> HIDE DEF m
<1>3. w \subseteq In(list)
  <2>1. \A i \in 1 .. m : i \in 1 .. Len(list)
    <3> DEFINE l == Len(list)
    <3>1. l \in Nat /\ n \in Int /\ m = IF n <= l THEN n ELSE l
      BY <1>1
    <3> HIDE DEF l
    <3>2. m <= l
      BY ONLY <3>1
    <3> QED
      BY <3>1, <3>2 DEF l
  <2> QED
    BY ONLY <1>1, <2>1 DEF In
<1>4. m = n /\ m <= Len(list)
  <2>1. m # Len(list)
    <3> SUFFICES ASSUME m = Len(list)
                 PROVE  FALSE
      OBVIOUS
    <3>1. w = In(list)
      BY <1>1 DEF In
    <3> QED
      BY <1>2, <3>1
  <2> QED
    BY <1>1, <2>1
<1>5. CASE n < 0
  <2>1. w = {}
    BY <1>4, <1>5
  <2> QED
    BY <1>2, <1>3, <1>5, <2>1, FS_EmptySet
<1>6. CASE n >= 0
  <2> DEFINE f == [i \in 1 .. n |-> list[i]]
  <2>1. n \in Nat
    BY <1>6
  <2>2. ExistsBijection(1 .. n, w)
    <3>1. f \in [1 .. n -> w] /\ w = {f[i] : i \in 1 .. n}
      BY <1>4
    <3>2. \A i, j \in 1 .. n : f[i] = f[j] => i = j
      <4>1. \A i \in 1 .. n : i \in DOMAIN list
        <5> DEFINE l == Len(list)
        <5>1. l \in Nat /\ n <= l /\ DOMAIN list = 1 .. l
          BY <1>1, <1>4
        <5> HIDE DEF l
        <5> QED
          BY <2>1, <5>1
      <4> QED
        BY ONLY <4>1, Once(list) DEF Once
    <3> HIDE DEF f, w
    <3>3. f \in Bijection(1 .. n, w)
      BY <3>1, <3>2 DEF Bijection, Injection, Surjection, IsInjective
    <3> QED
      BY <3>3 DEF ExistsBijection
  <2>3. Cardinality(w) = n
    <3> HIDE DEF w
    <3> QED
      BY ONLY <2>1, <2>2, FS_CountingElements
  <2>4. IsFiniteSet(w)
    <3> HIDE DEF w
    <3> QED
      BY ONLY <2>1, <2>2, FS_NatBijection
  <2> QED
    BY <1>2, <1>3, <1>6, <2>3, <2>4
<1> QED
  BY <1>5, <1>6

---------------------------------------------------------------------------
(* One side of an object: the tasks that wait for an item of it, or for room. *)
(* A task is "out" of the side, about to "look", "about" to sleep, or at some *)
(* "other" place of its call; aw are the awake tasks, n the items (the room)  *)
(* and c the wake-ups counted under the lock                                  *)

\* The tasks that look before they sleep, and do not sleep
Looking(ph, list) == {t \in Task : ph[t] = "look" /\ t \notin In(list)}

Side(ph, aw, list, n, c) ==
    /\ Once(list)
    /\ \A t \in In(list) : ph[t] = "look" /\ t \notin aw
    /\ \A t \in Task : ph[t] # "out" => t \in aw \/ t \in In(list)
    /\ \A t \in Task : ph[t] = "about" => n <= c
    /\ list # << >> => n <= Cardinality(Looking(ph, list)) + c

\* A task that stops looking uses up one
Used(p, p2) == IF p = "look" /\ p2 # "look" THEN 1 ELSE 0

\* Those who look are finitely many
LEMMA LookingIs ==
    ASSUME NEW ph, NEW list
    PROVE  /\ IsFiniteSet(Looking(ph, list)) /\ Cardinality(Looking(ph, list)) \in Nat
           /\ Looking(ph, list) \subseteq Task
<1>1. Looking(ph, list) \in SUBSET Task /\ IsFiniteSet(Task)
  BY KernelAssumption DEF Looking
<1>2. IsFiniteSet(Looking(ph, list))
  BY ONLY <1>1, FS_Subset
<1> QED
  BY ONLY <1>1, <1>2, FS_CardinalityType

\* Those who leave a list that all look, and one who stops looking
LEMMA LookingGrows ==
    ASSUME NEW ph, NEW list, NEW ph2, NEW list2, NEW t, NEW W \in SUBSET Task,
           \A u \in In(list) : ph[u] = "look",
           In(list2) = In(list) \ W, W \subseteq In(list),
           \A u \in Task : u # t => ph2[u] = ph[u],
           ph2[t] = ph[t] \/ t \notin In(list)
    PROVE  Cardinality(Looking(ph, list)) + Cardinality(W) - Used(ph[t], ph2[t])
             <= Cardinality(Looking(ph2, list2))
<1> DEFINE L == Looking(ph, list)  L2 == Looking(ph2, list2)  all == L \cup W
<1>1. /\ IsFiniteSet(L) /\ Cardinality(L) \in Nat /\ L \subseteq Task
      /\ IsFiniteSet(L2) /\ Cardinality(L2) \in Nat /\ L2 \subseteq Task
  BY LookingIs
<1>2. IsFiniteSet(W) /\ Cardinality(W) \in Nat
  <2>1. IsFiniteSet(W)
    BY KernelAssumption, FS_Subset
  <2> QED
    BY ONLY <2>1, FS_CardinalityType
<1>3. L \cap W = {}
  BY DEF Looking
<1>4. IsFiniteSet(all) /\ Cardinality(all) = Cardinality(L) + Cardinality(W)
  <2> HIDE DEF L
  <2>1. /\ IsFiniteSet(L \cup W)
        /\ Cardinality(L \cup W) =
              Cardinality(L) + Cardinality(W) - Cardinality(L \cap W)
    BY ONLY <1>1, <1>2, FS_Union
  <2>2. Cardinality(L \cap W) = 0
    BY <1>3, FS_EmptySet
  <2> QED
    BY <1>1, <1>2, <2>1, <2>2
<1>5. \A u \in all : u # t => u \in L2
  BY DEF Looking
<1> DEFINE x == Cardinality(L)  y == Cardinality(W)  z == Cardinality(all)
           x2 == Cardinality(L2)  d == Used(ph[t], ph2[t])
<1>8. x \in Nat /\ y \in Nat /\ x2 \in Nat /\ z = x + y
  BY ONLY <1>1, <1>2, <1>4
<1>9. d = 0 \/ d = 1
  BY DEF Used
<1>10. z - d <= x2
  <2>1. CASE Used(ph[t], ph2[t]) = 0
    <3>1. t \in all => t \in L2
      BY <2>1 DEF Looking, Used
    <3>2. all \in SUBSET L2
      BY <1>5, <3>1
    <3>3. Cardinality(all) <= Cardinality(L2)
      <4> HIDE DEF L2, all
      <4> QED
        BY ONLY <1>1, <3>2, FS_Subset
    <3> HIDE DEF x, y
    <3>4. z <= x2 /\ z \in Int /\ x2 \in Int
      BY ONLY <1>8, <3>3 DEF z, x2
    <3> HIDE DEF z, x2
    <3> QED
      BY ONLY <2>1, <3>4
  <2>2. CASE Used(ph[t], ph2[t]) = 1
    <3> DEFINE rest == all \ {t}
    <3>1. rest \in SUBSET L2
      BY <1>5
    <3>2. Cardinality(rest) <= Cardinality(L2)
      <4> HIDE DEF L2, rest
      <4> QED
        BY ONLY <1>1, <3>1, FS_Subset
    <3>3. Cardinality(all) - 1 <= Cardinality(rest) /\ Cardinality(rest) \in Nat
      <4> HIDE DEF all
      <4>1. /\ IsFiniteSet(all \ {t})
            /\ Cardinality(all \ {t}) = IF t \in all THEN Cardinality(all) - 1
                                        ELSE Cardinality(all)
        BY ONLY <1>4, FS_RemoveElement
      <4>2. Cardinality(all) \in Nat
        BY ONLY <1>4, FS_CardinalityType
      <4>3. Cardinality(rest) \in Nat
        BY ONLY <4>1, FS_CardinalityType DEF rest
      <4> QED
        BY ONLY <4>1, <4>2, <4>3 DEF rest
    <3> DEFINE w == Cardinality(rest)
    <3> HIDE DEF x, y
    <3>4. /\ z - 1 <= w /\ w <= x2 /\ w \in Int /\ z \in Int /\ x2 \in Int
      BY ONLY <1>8, <3>2, <3>3 DEF z, x2, w
    <3> HIDE DEF z, x2, w
    <3> QED
      BY ONLY <2>2, <3>4
  <2> QED
    BY <2>1, <2>2 DEF Used
<1> HIDE DEF x, y, z, x2, d
<1>11. x + y - d <= x2
  BY ONLY <1>8, <1>9, <1>10
<1> QED
  BY <1>11 DEF x, y, x2, d

\* The tasks of W leave the list awake, t goes on in its call
SideMoves(ph, aw, list, n, c, ph2, aw2, list2, n2, c2, t, W) ==
    /\ list \in Seq(Task) /\ n \in Int /\ c \in Nat
    /\ list2 \in Seq(Task) /\ n2 \in Int /\ c2 \in Nat
    /\ W \in SUBSET Task /\ W \subseteq In(list) /\ W \subseteq aw2
    /\ Once(list2) /\ In(list2) = In(list) \ W /\ In(list2) \cap aw2 = {}
    /\ \A u \in Task : u # t => ph2[u] = ph[u] /\ (u \in aw => u \in aw2)
    /\ \/ ph2[t] = ph[t] /\ (ph[t] = "out" \/ t \notin aw \/ t \in aw2)
       \/ t \in aw /\ (ph2[t] = "out" \/ t \in aw2)
    /\ \A u \in Task : ph2[u] = "about" => n2 <= c2
    /\ list2 # << >> => \/ n2 - c2 + Used(ph[t], ph2[t]) <= n - c + Cardinality(W)
                        \/ n2 <= c2

\* and the side stays in order
LEMMA SideStep ==
    ASSUME NEW ph, NEW aw, NEW list, NEW n, NEW c,
           NEW ph2, NEW aw2, NEW list2, NEW n2, NEW c2, NEW t, NEW W,
           Side(ph, aw, list, n, c),
           SideMoves(ph, aw, list, n, c, ph2, aw2, list2, n2, c2, t, W)
    PROVE  Side(ph2, aw2, list2, n2, c2)
<1>0. /\ list \in Seq(Task) /\ n \in Int /\ c \in Nat
      /\ list2 \in Seq(Task) /\ n2 \in Int /\ c2 \in Nat
      /\ W \in SUBSET Task /\ W \subseteq In(list) /\ W \subseteq aw2
      /\ Once(list2) /\ In(list2) = In(list) \ W /\ In(list2) \cap aw2 = {}
      /\ \A u \in Task : u # t => ph2[u] = ph[u] /\ (u \in aw => u \in aw2)
      /\ \/ ph2[t] = ph[t] /\ (ph[t] = "out" \/ t \notin aw \/ t \in aw2)
         \/ t \in aw /\ (ph2[t] = "out" \/ t \in aw2)
      /\ \A u \in Task : ph2[u] = "about" => n2 <= c2
      /\ list2 # << >> => \/ n2 - c2 + Used(ph[t], ph2[t]) <= n - c + Cardinality(W)
                          \/ n2 <= c2
  BY DEF SideMoves
<1>1. /\ Once(list) /\ \A u \in In(list) : ph[u] = "look" /\ u \notin aw
      /\ \A u \in Task : ph[u] # "out" => u \in aw \/ u \in In(list)
      /\ list # << >> => n <= Cardinality(Looking(ph, list)) + c
  BY DEF Side
<1>2. ph2[t] = ph[t] \/ t \notin In(list)
  BY <1>0, <1>1
<1>3. In(list) \subseteq Task
  BY <1>0 DEF In
<1>4. \A u \in In(list2) : ph2[u] = "look" /\ u \notin aw2
  BY <1>0, <1>1, <1>2, <1>3
<1>5. \A u \in Task : ph2[u] # "out" => u \in aw2 \/ u \in In(list2)
  BY <1>0, <1>1, <1>2, <1>3
<1>6. ASSUME list2 # << >>
      PROVE  n2 <= Cardinality(Looking(ph2, list2)) + c2
  <2> DEFINE a == Cardinality(Looking(ph, list))  a2 == Cardinality(Looking(ph2, list2))
             w == Cardinality(W)  d == Used(ph[t], ph2[t])
  <2>1. a + w - d <= a2
    BY ONLY <1>0, <1>1, <1>2, LookingGrows
  <2>2. a \in Nat /\ a2 \in Nat
    BY LookingIs
  <2>3. w \in Nat
    <3>1. IsFiniteSet(W)
      BY <1>0, KernelAssumption, FS_Subset
    <3> QED
      BY ONLY <3>1, FS_CardinalityType
  <2>4. d \in Int
    BY DEF Used
  <2>5. list # << >>
    <3>1. In(list2) # {}
      <4>1. list2 \in Seq(Task)
        BY ONLY <1>0
      <4>2. 1 \in DOMAIN list2
        BY ONLY <4>1, <1>6
      <4> QED
        BY ONLY <4>2 DEF In
    <3>2. In(list) # {}
      BY <1>0, <3>1
    <3> QED
      BY <1>0, <3>2 DEF In
  <2>6. n <= a + c
    BY <1>1, <2>5
  <2>7. n2 - c2 + d <= n - c + w \/ n2 <= c2
    BY <1>0, <1>6
  <2>8. n \in Int /\ n2 \in Int /\ c \in Nat /\ c2 \in Nat
    BY <1>0
  <2> HIDE DEF a, a2, w, d
  <2> QED
    BY ONLY <2>1, <2>2, <2>3, <2>4, <2>6, <2>7, <2>8 DEF a2
<1> QED
  BY <1>0, <1>4, <1>5, <1>6 DEF Side

\* t goes to sleep
LEMMA SideSleeps ==
    ASSUME NEW ph, NEW aw, NEW list \in Seq(Task), NEW n \in Int, NEW c \in Nat,
           Side(ph, aw, list, n, c),
           NEW ph2, NEW aw2, NEW list2 \in Seq(Task), NEW t \in Task,
           Once(list2), In(list2) = In(list) \cup {t},
           ph[t] = "about", ph2[t] = "look",
           \A u \in Task : u # t => ph2[u] = ph[u],
           aw2 = aw \ {t}
    PROVE  Side(ph2, aw2, list2, n, c)
<1>1. n <= c
  BY DEF Side
<1>2. Cardinality(Looking(ph2, list2)) \in Nat
  BY LookingIs
<1>3. In(list) \subseteq Task
  BY DEF In
<1>4. \A u \in In(list2) : ph2[u] = "look" /\ u \notin aw2
  BY <1>3 DEF Side
<1>5. \A u \in Task : ph2[u] # "out" => u \in aw2 \/ u \in In(list2)
  BY DEF Side
<1> QED
  BY <1>1, <1>2, <1>4, <1>5 DEF Side

---------------------------------------------------------------------------
(* What the scheduler's functions do to its record *)

ReadyTasks(r) == {t \in Task : r.list[t] = "ready"}
AwakeTasks(r) == ReadyTasks(r) \cup r.pendingReady

\* From r to s no time passes, and the tasks of ts alone change lists
AtOnce(r, s, ts) ==
    /\ s.tick = r.tick /\ s.next = r.next /\ s.wake = r.wake
    /\ \A t \in Task : s.list[t] = IF t \in ts /\ ~ r.suspended THEN "ready"
                                   ELSE r.list[t]

\* From r to s the tasks of ts are woken, and nothing else happens to anybody's
\* readiness
Woke(r, s, ts) ==
    /\ s \in KState
    /\ s.cur = r.cur /\ s.suspended = r.suspended /\ s.pended = r.pended
    /\ r.pendSV => s.pendSV
    /\ ReadyTasks(s) = IF r.suspended THEN ReadyTasks(r) ELSE ReadyTasks(r) \cup ts
    /\ s.pendingReady = IF r.suspended THEN r.pendingReady \cup ts ELSE r.pendingReady
    /\ AtOnce(r, s, ts)

\* From r to s some tasks become ready
Later(r, s) ==
    /\ s \in KState
    /\ s.cur = r.cur /\ s.suspended = r.suspended /\ s.pended = r.pended
    /\ s.pendSV = r.pendSV /\ s.pendingReady = r.pendingReady
    /\ ReadyTasks(r) \subseteq ReadyTasks(s)

\* What the assumptions say of the numbers
LEMMA Numbers ==
    /\ TickMod \in Nat /\ TickMod > 1 /\ MaxPended \in Nat
    /\ 0 \in 0 .. TickMod - 1 /\ portMAX_DELAY \in 0 .. TickMod - 1 /\ portMAX_DELAY > 0
    /\ \A n \in Nat : n % TickMod \in 0 .. TickMod - 1
    /\ Idle \in Task /\ Base \in [Task -> Priority] /\ Priority \subseteq Nat
    /\ 0 \in Priority
BY SchedulerAssumption DEF portMAX_DELAY, Priority

\* The fields of the scheduler
LEMMA FieldsOf ==
    ASSUME NEW r \in KState
    PROVE  /\ r.cur \in Task /\ r.list \in [Task -> Lists]
           /\ r.wake \in [Task -> 0 .. TickMod - 1] /\ r.prio \in [Task -> Priority]
           /\ r.held \in [Task -> Int] /\ r.bits \in SUBSET Priority
           /\ r.pendingReady \in SUBSET Task /\ r.suspended \in BOOLEAN
           /\ r.yieldPending \in BOOLEAN /\ r.pended \in 0 .. MaxPended
           /\ r.tick \in 0 .. TickMod - 1 /\ r.next \in 0 .. TickMod - 1
           /\ r.pendSV \in BOOLEAN
BY DEF KState

\* Tasks are put into the ready list
LEMMA AddToReady ==
    ASSUME NEW r \in KState, NEW ts \in SUBSET Task,
           NEW s, s = prvAddTasksToReadyList(r, ts)
    PROVE  /\ s \in KState
           /\ \A t \in Task : s.list[t] = IF t \in ts THEN "ready" ELSE r.list[t]
           /\ ReadyTasks(s) = ReadyTasks(r) \cup ts
           /\ s.cur = r.cur /\ s.suspended = r.suspended /\ s.pended = r.pended
           /\ s.pendSV = r.pendSV /\ s.pendingReady = r.pendingReady
           /\ s.yieldPending = r.yieldPending /\ s.prio = r.prio /\ s.held = r.held
           /\ s.tick = r.tick /\ s.next = r.next /\ s.wake = r.wake
<1> DEFINE l == [t \in Task |-> IF t \in ts THEN "ready" ELSE r.list[t]]
           b == r.bits \cup {r.prio[t] : t \in ts}
<1>1. l \in [Task -> Lists] /\ b \in SUBSET Priority
  BY FieldsOf DEF Lists
<1>2. s = [r EXCEPT !.list = l, !.bits = b]
  BY DEF prvAddTasksToReadyList
<1> HIDE DEF l, b
<1>3. /\ s \in KState /\ s.list = l
      /\ s.cur = r.cur /\ s.suspended = r.suspended /\ s.pended = r.pended
      /\ s.pendSV = r.pendSV /\ s.pendingReady = r.pendingReady
      /\ s.yieldPending = r.yieldPending /\ s.prio = r.prio /\ s.held = r.held
      /\ s.tick = r.tick /\ s.next = r.next /\ s.wake = r.wake
  BY <1>1, <1>2 DEF KState
<1>4. ReadyTasks(s) = ReadyTasks(r) \cup ts
  BY <1>3 DEF ReadyTasks, l
<1> QED
  BY <1>3, <1>4 DEF l

\* A bit of the ready priorities goes
LEMMA ResetReady ==
    ASSUME NEW r \in KState, NEW p, NEW s, s = taskRESET_READY_PRIORITY(r, p)
    PROVE  /\ s \in KState /\ s.list = r.list
           /\ s.cur = r.cur /\ s.suspended = r.suspended /\ s.pended = r.pended
           /\ s.pendSV = r.pendSV /\ s.pendingReady = r.pendingReady
           /\ s.yieldPending = r.yieldPending /\ s.prio = r.prio /\ s.held = r.held
           /\ s.tick = r.tick /\ s.next = r.next /\ s.wake = r.wake
<1> DEFINE b == IF Ready(r, p) = {} THEN r.bits \ {p} ELSE r.bits
<1>1. b \in SUBSET Priority
  BY FieldsOf
<1>2. s = [r EXCEPT !.bits = b]
  BY DEF taskRESET_READY_PRIORITY
<1> HIDE DEF b
<1> QED
  BY <1>1, <1>2 DEF KState

\* The next time to unblock is looked up
LEMMA ResetNext ==
    ASSUME NEW r \in KState, NEW s, s = prvResetNextTaskUnblockTime(r)
    PROVE  /\ s \in KState /\ s.list = r.list
           /\ s.cur = r.cur /\ s.suspended = r.suspended /\ s.pended = r.pended
           /\ s.pendSV = r.pendSV /\ s.pendingReady = r.pendingReady
           /\ s.yieldPending = r.yieldPending /\ s.prio = r.prio /\ s.held = r.held
           /\ s.tick = r.tick /\ s.wake = r.wake
<1> DEFINE times == {r.wake[t] : t \in InList(r, "delayed")}
           n == IF InList(r, "delayed") = {} THEN portMAX_DELAY ELSE Min(times)
<1>1. n \in 0 .. TickMod - 1
  <2>1. CASE InList(r, "delayed") = {}
    BY <2>1, Numbers
  <2>2. CASE InList(r, "delayed") # {}
    <3>1. times # {} /\ times \subseteq Nat /\ times \subseteq 0 .. TickMod - 1
      BY <2>2, FieldsOf, Numbers DEF InList
    <3> HIDE DEF times
    <3>2. Min(times) \in times
      BY ONLY <3>1, MinOf
    <3> QED
      BY <2>2, <3>1, <3>2
  <2> QED
    BY <2>1, <2>2
<1>2. s = [r EXCEPT !.next = n]
  BY DEF prvResetNextTaskUnblockTime
<1> HIDE DEF n
<1> QED
  BY <1>1, <1>2 DEF KState

\* The running task leaves the ready list
LEMMA AddToDelayed ==
    ASSUME NEW r \in KState, NEW ticks \in 0 .. portMAX_DELAY, NEW b \in BOOLEAN,
           NEW s, s = prvAddCurrentTaskToDelayedList(r, ticks, b)
    PROVE  /\ s \in KState
           /\ ReadyTasks(s) = ReadyTasks(r) \ {r.cur}
           /\ s.cur = r.cur /\ s.suspended = r.suspended /\ s.pended = r.pended
           /\ s.pendSV = r.pendSV /\ s.pendingReady = r.pendingReady
<1> DEFINE wake == (r.tick + ticks) % TickMod
           to == IF ticks = portMAX_DELAY /\ b THEN "suspended"
                 ELSE IF wake < r.tick THEN "overflow" ELSE "delayed"
           r0 == [r EXCEPT !.list[r.cur] = to]
           k1 == taskRESET_READY_PRIORITY(r0, r.prio[r.cur])
           w == IF to = "suspended" THEN 0 ELSE wake
           n == IF to = "delayed" /\ wake < k1.next THEN wake ELSE k1.next
<1>1. s = [k1 EXCEPT !.wake[r.cur] = w, !.next = n]
  <2>1. /\ r0.cur = r.cur /\ r0.prio = r.prio
    BY DEF KState
  <2>2. k1.cur = r.cur
    BY <2>1 DEF taskRESET_READY_PRIORITY, KState
  <2> QED
    BY <2>1, <2>2 DEF prvAddCurrentTaskToDelayedList
<1>2. wake \in 0 .. TickMod - 1
  <2>1. r.tick + ticks \in Nat
    BY FieldsOf, Numbers
  <2> QED
    BY <2>1, Numbers
<1> HIDE DEF wake
<1>3. to \in Lists /\ to # "ready"
  BY DEF Lists
<1>4. w \in 0 .. TickMod - 1
  BY <1>2, Numbers
<1> HIDE DEF to, w
<1>5. /\ r0 \in KState /\ r0.list = [r.list EXCEPT ![r.cur] = to]
      /\ r0.cur = r.cur /\ r0.suspended = r.suspended /\ r0.pended = r.pended
      /\ r0.pendSV = r.pendSV /\ r0.pendingReady = r.pendingReady
  <2> DEFINE l == [r.list EXCEPT ![r.cur] = to]
  <2>1. l \in [Task -> Lists] /\ r0 = [r EXCEPT !.list = l]
    BY <1>3, FieldsOf DEF KState
  <2> HIDE DEF l
  <2> QED
    BY <2>1 DEF KState, l
<1> HIDE DEF r0
<1>6. /\ k1 \in KState /\ k1.list = r0.list
      /\ k1.cur = r.cur /\ k1.suspended = r.suspended /\ k1.pended = r.pended
      /\ k1.pendSV = r.pendSV /\ k1.pendingReady = r.pendingReady
  BY <1>5, ResetReady
<1> HIDE DEF k1
<1>7. n \in 0 .. TickMod - 1
  BY <1>2, <1>6, FieldsOf
<1> HIDE DEF n
<1>8. /\ s \in KState /\ s.list = k1.list
      /\ s.cur = r.cur /\ s.suspended = r.suspended /\ s.pended = r.pended
      /\ s.pendSV = r.pendSV /\ s.pendingReady = r.pendingReady
  <2> DEFINE ws == [k1.wake EXCEPT ![r.cur] = w]
  <2>1. ws \in [Task -> 0 .. TickMod - 1] /\ s = [k1 EXCEPT !.wake = ws, !.next = n]
    BY <1>1, <1>4, <1>6, FieldsOf DEF KState
  <2> HIDE DEF ws
  <2> QED
    BY <1>6, <1>7, <2>1 DEF KState
<1>9. ReadyTasks(s) = ReadyTasks(r) \ {r.cur}
  BY <1>3, <1>5, <1>6, <1>8, FieldsOf DEF ReadyTasks
<1> QED
  BY <1>8, <1>9

\* A yield readies nobody
LEMMA Yields ==
    ASSUME NEW r \in KState, NEW s, s = portYIELD(r)
    PROVE  Woke(r, s, {}) /\ s.pendSV /\ s.list = r.list
BY DEF portYIELD, KState, Woke, AtOnce, ReadyTasks

\* The tasks unblocked are woken,
LEMMA Unblocks ==
    ASSUME NEW r \in KState, NEW ts \in SUBSET Task, NEW s, s = Unblock(r, ts)
    PROVE  Woke(r, s, ts)
<1>1. CASE r.suspended
  <2> DEFINE p == r.pendingReady \cup ts
  <2>1. p \in SUBSET Task /\ s = [r EXCEPT !.pendingReady = p]
    BY <1>1, FieldsOf DEF Unblock
  <2> HIDE DEF p
  <2>2. /\ s \in KState /\ s.list = r.list
        /\ s.cur = r.cur /\ s.suspended = r.suspended /\ s.pended = r.pended
        /\ s.pendSV = r.pendSV /\ s.pendingReady = p
        /\ s.tick = r.tick /\ s.next = r.next /\ s.wake = r.wake
    BY <2>1 DEF KState
  <2> QED
    BY <1>1, <2>2 DEF Woke, AtOnce, ReadyTasks, p
<1>2. CASE ~ r.suspended
  <2>1. s = prvAddTasksToReadyList(r, ts)
    BY <1>2 DEF Unblock
  <2>2. /\ s \in KState /\ ReadyTasks(s) = ReadyTasks(r) \cup ts
        /\ s.cur = r.cur /\ s.suspended = r.suspended /\ s.pended = r.pended
        /\ s.pendSV = r.pendSV /\ s.pendingReady = r.pendingReady
        /\ s.tick = r.tick /\ s.next = r.next /\ s.wake = r.wake
        /\ \A t \in Task : s.list[t] = IF t \in ts THEN "ready" ELSE r.list[t]
    BY <2>1, AddToReady
  <2> QED
    BY <1>2, <2>2 DEF Woke, AtOnce
<1> QED
  BY <1>1, <1>2

\* and so are those taken from an event list
LEMMA RemovesFromEventList ==
    ASSUME NEW r \in KState, NEW ts \in SUBSET Task,
           NEW s, s = xTaskRemoveFromEventList(r, ts)
    PROVE  Woke(r, s, ts)
<1> DEFINE u == Unblock(r, ts)  y == u.yieldPending \/ Preempts(r, ts)
<1>1. Woke(r, u, ts)
  BY Unblocks
<1>2. y \in BOOLEAN /\ s = [u EXCEPT !.yieldPending = y]
  BY DEF xTaskRemoveFromEventList
<1> HIDE DEF u, y
<1>3. /\ s \in KState /\ s.list = u.list
      /\ s.cur = u.cur /\ s.suspended = u.suspended /\ s.pended = u.pended
      /\ s.pendSV = u.pendSV /\ s.pendingReady = u.pendingReady
      /\ s.tick = u.tick /\ s.next = u.next /\ s.wake = u.wake
  BY <1>1, <1>2 DEF Woke, KState
<1> QED
  BY <1>1, <1>3 DEF Woke, AtOnce, ReadyTasks

\* First some tasks, then others
LEMMA WokeTwice ==
    ASSUME NEW r \in KState, NEW s, NEW ts, NEW u, NEW us,
           Woke(r, s, ts), Woke(s, u, us)
    PROVE  Woke(r, u, ts \cup us)
<1>1. AtOnce(r, u, ts \cup us)
  BY DEF Woke, AtOnce
<1> QED
  BY <1>1 DEF Woke

\* Nothing happens
LEMMA WokeNobody ==
    ASSUME NEW r \in KState
    PROVE  Woke(r, r, {})
BY DEF Woke, AtOnce

First(list) == IF list = << >> THEN {} ELSE {Head(list)}

\* The head of an event list is woken
LEMMA WakesFirst ==
    ASSUME NEW r \in KState, NEW list \in Seq(Task), NEW s, s = WakeFirst(r, list)
    PROVE  Woke(r, s, First(list)) /\ First(list) \in SUBSET Task
<1>1. CASE list = << >>
  BY <1>1, WokeNobody DEF WakeFirst, First
<1>2. CASE list # << >>
  <2> DEFINE h == {Head(list)}  u == xTaskRemoveFromEventList(r, h)
  <2>1. h \in SUBSET Task /\ h = First(list)
    BY <1>2 DEF First
  <2>2. s = u \/ s = portYIELD(u)
    BY <1>2 DEF WakeFirst
  <2> HIDE DEF h
  <2>3. Woke(r, u, h)
    BY <2>1, RemovesFromEventList
  <2> HIDE DEF u
  <2>4. ASSUME s = portYIELD(u)
        PROVE  Woke(r, s, h)
    <3>1. Woke(u, s, {})
      BY <2>3, <2>4, Yields DEF Woke
    <3>2. Woke(r, s, h \cup {})
      BY <2>3, <3>1, WokeTwice
    <3>3. h \cup {} = h
      OBVIOUS
    <3> QED
      BY <3>2, <3>3
  <2> QED
    BY <2>1, <2>2, <2>3, <2>4
<1> QED
  BY <1>1, <1>2

---------------------------------------------------------------------------
(* Time *)

\* The delayed lists swap
LEMMA SwitchesLists ==
    ASSUME NEW r \in KState, NEW s, s = taskSWITCH_DELAYED_LISTS(r)
    PROVE  /\ Later(r, s) /\ s.tick = r.tick
<1> DEFINE l == [t \in Task |-> CASE r.list[t] = "delayed"  -> "overflow"
                                  [] r.list[t] = "overflow" -> "delayed"
                                  [] OTHER -> r.list[t]]
           u == [r EXCEPT !.list = l]
<1>1. l \in [Task -> Lists] /\ \A t \in Task : l[t] = "ready" <=> r.list[t] = "ready"
  BY FieldsOf DEF Lists
<1>2. s = prvResetNextTaskUnblockTime(u)
  BY DEF taskSWITCH_DELAYED_LISTS
<1> HIDE DEF l
<1>3. /\ u \in KState /\ u.list = l /\ u.tick = r.tick
      /\ u.cur = r.cur /\ u.suspended = r.suspended /\ u.pended = r.pended
      /\ u.pendSV = r.pendSV /\ u.pendingReady = r.pendingReady
  BY <1>1 DEF KState
<1> HIDE DEF u
<1>4. /\ s \in KState /\ s.list = l /\ s.tick = r.tick
      /\ s.cur = r.cur /\ s.suspended = r.suspended /\ s.pended = r.pended
      /\ s.pendSV = r.pendSV /\ s.pendingReady = r.pendingReady
  BY <1>2, <1>3, ResetNext
<1> QED
  BY <1>1, <1>4 DEF Later, ReadyTasks

\* One tick
LEMMA Ticks ==
    ASSUME NEW r \in KState, NEW s, s = Tick(r)
    PROVE  Later(r, s)
<1> DEFINE tick == (r.tick + 1) % TickMod
           k1 == [r EXCEPT !.tick = tick]
           k2 == IF k1.tick = 0 THEN taskSWITCH_DELAYED_LISTS(k1) ELSE k1
           k3 == prvAddTasksToReadyList(k2, Due(k2))
<1>1. tick \in 0 .. TickMod - 1
  <2>1. r.tick + 1 \in Nat
    BY FieldsOf, Numbers
  <2> QED
    BY <2>1, Numbers
<1>2. s = IF k2.tick < k2.next THEN k3 ELSE prvResetNextTaskUnblockTime(k3)
  BY DEF Tick
<1> HIDE DEF tick
<1>3. Later(r, k1)
  BY <1>1 DEF KState, Later, ReadyTasks
<1> HIDE DEF k1
<1>4. Later(r, k2)
  <2>1. CASE k1.tick = 0
    <3>1. Later(k1, k2)
      BY <1>3, <2>1, SwitchesLists DEF Later
    <3> QED
      BY <1>3, <3>1 DEF Later
  <2>2. CASE k1.tick # 0
    BY <1>3, <2>2
  <2> QED
    BY <2>1, <2>2
<1> HIDE DEF k2
<1>5. Later(r, k3)
  <2>1. Due(k2) \in SUBSET Task
    BY DEF Due, InList
  <2>2. k2 \in KState
    BY <1>4 DEF Later
  <2>3. /\ k3 \in KState /\ ReadyTasks(k3) = ReadyTasks(k2) \cup Due(k2)
        /\ k3.cur = k2.cur /\ k3.suspended = k2.suspended /\ k3.pended = k2.pended
        /\ k3.pendSV = k2.pendSV /\ k3.pendingReady = k2.pendingReady
    BY <2>1, <2>2, AddToReady
  <2> HIDE DEF k3
  <2> QED
    BY <1>4, <2>3 DEF Later
<1> HIDE DEF k3
<1>6. ASSUME s = prvResetNextTaskUnblockTime(k3)
      PROVE  Later(r, s)
  <2>1. k3 \in KState
    BY <1>5 DEF Later
  <2> QED
    BY <1>5, <1>6, <2>1, ResetNext DEF Later, ReadyTasks
<1> QED
  BY <1>2, <1>5, <1>6

\* xTaskIncrementTick readies tasks, or counts the tick
LEMMA IncrementsTick ==
    ASSUME NEW r \in KState, NEW s, s = xTaskIncrementTick(r),
           r.suspended => r.pended < MaxPended
    PROVE  /\ s \in KState /\ s.cur = r.cur /\ s.suspended = r.suspended
           /\ r.pendSV => s.pendSV
           /\ s.pendingReady = r.pendingReady
           /\ ReadyTasks(r) \subseteq ReadyTasks(s)
           /\ r.suspended => s.list = r.list
<1>1. CASE r.suspended
  <2> DEFINE p == r.pended + 1  y == r.pendSV \/ r.yieldPending
  <2>1. /\ p \in 0 .. MaxPended /\ y \in BOOLEAN
        /\ s = [r EXCEPT !.pended = p, !.pendSV = y]
    BY <1>1, FieldsOf, Numbers DEF xTaskIncrementTick
  <2>2. r.pendSV => y
    OBVIOUS
  <2> HIDE DEF p, y
  <2> QED
    BY <2>1, <2>2 DEF KState, ReadyTasks
<1>2. CASE ~ r.suspended
  <2> DEFINE u == Tick(r)  y == u.pendSV \/ SwitchRequired(r, u)
  <2>1. y \in BOOLEAN /\ s = [u EXCEPT !.pendSV = y]
    BY <1>2 DEF xTaskIncrementTick
  <2>2. Later(r, u) /\ (u.pendSV => y)
    BY Ticks
  <2> HIDE DEF u, y
  <2> QED
    BY <1>2, <2>1, <2>2 DEF Later, KState, ReadyTasks
<1> QED
  BY <1>1, <1>2

\* The pended ticks are so many ticks
PendedRest(r, f) ==
    f = [n \in 0 .. MaxPended |->
           IF n = 0 THEN r
           ELSE LET k1 == Tick(f[n - 1])
                IN  [k1 EXCEPT !.yieldPending = SwitchRequired(f[n - 1], k1)]]

\* The recursive function behind PendedTicks,
LEMMA PendedTicksDef ==
    ASSUME NEW r
    PROVE  PendedTicks(r) = [(CHOOSE f : PendedRest(r, f))[r.pended] EXCEPT !.pended = 0]
BY DEF PendedTicks, PendedRest

\* such a function exists,
LEMMA PendedRestExists ==
    ASSUME NEW r
    PROVE  \E f : PendedRest(r, f)
<1> DEFINE Next1(u) == LET k1 == Tick(u)
                       IN  [k1 EXCEPT !.yieldPending = SwitchRequired(u, k1)]
           To(n, f) == f = [i \in 0 .. n |-> IF i = 0 THEN r ELSE Next1(f[i - 1])]
           Reached == {n \in Nat : \E f : To(n, f)}
<1>1. 0 \in Reached
  <2>1. To(0, [i \in 0 .. 0 |-> r])
    OBVIOUS
  <2> QED
    BY <2>1
<1>2. ASSUME NEW n \in Nat, n \in Reached
      PROVE  n + 1 \in Reached
  <2>1. PICK f : To(n, f)
    BY <1>2
  <2> HIDE DEF Next1
  <2> DEFINE g == [i \in 0 .. n + 1 |-> IF i = n + 1 THEN Next1(f[n]) ELSE f[i]]
             G(i) == IF i = 0 THEN r ELSE Next1(g[i - 1])
  <2>2. \A i \in 0 .. n + 1 : i # 0 => i - 1 \in 0 .. n /\ g[i - 1] = f[i - 1]
    OBVIOUS
  <2>3. \A i \in 0 .. n : f[i] = IF i = 0 THEN r ELSE Next1(f[i - 1])
    BY <2>1
  <2>4. ASSUME NEW i \in 0 .. n + 1
        PROVE  g[i] = G(i)
    <3>1. CASE i = n + 1
      <4>1. g[i] = Next1(f[n]) /\ g[i - 1] = f[n] /\ i # 0
        BY <3>1, <2>2
      <4> QED
        BY <4>1
    <3>2. CASE i # n + 1
      <4>1. i \in 0 .. n /\ g[i] = f[i]
        BY <3>2
      <4> HIDE DEF g
      <4> QED
        BY <4>1, <2>2, <2>3
    <3> QED
      BY <3>1, <3>2
  <2>5. g = [i \in 0 .. n + 1 |-> G(i)]
    <3>1. g = [i \in 0 .. n + 1 |-> g[i]]
      OBVIOUS
    <3> HIDE DEF g, G
    <3> QED
      BY <2>4, <3>1
  <2>6. To(n + 1, g)
    BY <2>5
  <2> HIDE DEF To
  <2> QED
    BY <2>6
<1>3. Nat \subseteq Reached
  <2> HIDE DEF Reached
  <2> QED
    BY ONLY <1>1, <1>2, Induction
<1>4. \E f : To(MaxPended, f)
  BY <1>3, Numbers
<1> QED
  BY <1>4 DEF PendedRest

\* and what it does is what so many ticks do
LEMMA TicksPended ==
    ASSUME NEW r \in KState, NEW s, s = PendedTicks(r)
    PROVE  /\ s \in KState /\ s.cur = r.cur /\ s.suspended = r.suspended
           /\ s.pendSV = r.pendSV /\ s.pendingReady = r.pendingReady
           /\ ReadyTasks(r) \subseteq ReadyTasks(s)
<1> DEFINE f == CHOOSE g : PendedRest(r, g)
           Reached == {n \in Nat : n <= MaxPended => Later(r, f[n])}
<1>1. PendedRest(r, f)
  BY PendedRestExists
<1>2. s = [f[r.pended] EXCEPT !.pended = 0]
  BY PendedTicksDef
<1> HIDE DEF f
<1>3. f[0] = r
  BY <1>1, Numbers DEF PendedRest
<1>4. 0 \in Reached
  BY <1>3 DEF Later
<1>5. ASSUME NEW n \in Nat, n \in Reached
      PROVE  n + 1 \in Reached
  <2> SUFFICES ASSUME n + 1 <= MaxPended
               PROVE  Later(r, f[n + 1])
    OBVIOUS
  <2> DEFINE u == f[n]  v == Tick(u)  y == SwitchRequired(u, v)
  <2>1. Later(r, u)
    BY <1>5, Numbers
  <2>2. f[n + 1] = [v EXCEPT !.yieldPending = y]
    <3>1. n + 1 \in 0 .. MaxPended /\ n + 1 # 0 /\ (n + 1) - 1 = n
      BY Numbers
    <3> QED
      BY <1>1, <3>1 DEF PendedRest
  <2>3. y \in BOOLEAN
    BY DEF SwitchRequired, KState, Later
  <2> HIDE DEF u, y
  <2>4. Later(u, v)
    BY <2>1, Ticks DEF Later
  <2> HIDE DEF v
  <2> QED
    BY <2>1, <2>2, <2>3, <2>4 DEF Later, KState, ReadyTasks
<1>6. Nat \subseteq Reached
  <2> HIDE DEF Reached
  <2> QED
    BY ONLY <1>4, <1>5, Induction
<1>7. Later(r, f[r.pended])
  BY <1>6, FieldsOf, Numbers
<1> DEFINE u == f[r.pended]  none == 0
<1>8. none \in 0 .. MaxPended /\ s = [u EXCEPT !.pended = none] /\ Later(r, u)
  BY <1>2, <1>7, Numbers
<1> HIDE DEF u, none
<1> QED
  BY <1>8 DEF Later, KState, ReadyTasks

\* The end of a suspension readies those held back
LEMMA ResumesAll ==
    ASSUME NEW r \in KState, NEW s, s = xTaskResumeAll(r)
    PROVE  /\ s \in KState /\ s.cur = r.cur /\ ~ s.suspended /\ s.pendingReady = {}
           /\ s.pendSV = (r.pendSV \/ s.yieldPending)
           /\ AwakeTasks(r) \subseteq ReadyTasks(s)
<1> DEFINE k0 == prvAddTasksToReadyList(r, r.pendingReady)
           y == k0.yieldPending \/ \E t \in r.pendingReady : r.prio[t] >= r.prio[r.cur]
           no == FALSE  none == {}
           k1 == [k0 EXCEPT !.suspended = no, !.pendingReady = none, !.yieldPending = y]
           k2 == IF r.pendingReady = {} THEN k1 ELSE prvResetNextTaskUnblockTime(k1)
           k3 == PendedTicks(k2)
           sv == k3.pendSV \/ k3.yieldPending
<1>1. s = [k3 EXCEPT !.pendSV = sv]
  BY DEF xTaskResumeAll
<1>2. r.pendingReady \in SUBSET Task
  BY FieldsOf
<1>3. /\ k0 \in KState /\ k0.cur = r.cur /\ k0.pendSV = r.pendSV
      /\ ReadyTasks(k0) = ReadyTasks(r) \cup r.pendingReady
  BY <1>2, AddToReady
<1> HIDE DEF k0
<1>4. no \in BOOLEAN /\ none \in SUBSET Task /\ y \in BOOLEAN
  BY <1>3, FieldsOf
<1> HIDE DEF no, none, y
<1>5. /\ k1 \in KState /\ k1.cur = r.cur /\ k1.pendSV = r.pendSV
      /\ k1.suspended = no /\ k1.pendingReady = none
      /\ ReadyTasks(k1) = ReadyTasks(r) \cup r.pendingReady
  BY <1>3, <1>4 DEF KState, ReadyTasks
<1> HIDE DEF k1
<1>6. /\ k2 \in KState /\ k2.cur = r.cur /\ k2.pendSV = r.pendSV
      /\ k2.suspended = no /\ k2.pendingReady = none
      /\ ReadyTasks(k2) = ReadyTasks(r) \cup r.pendingReady
  BY <1>5, ResetNext DEF ReadyTasks
<1> HIDE DEF k2
<1>7. /\ k3 \in KState /\ k3.cur = r.cur /\ k3.pendSV = r.pendSV
      /\ k3.suspended = no /\ k3.pendingReady = none
      /\ ReadyTasks(r) \cup r.pendingReady \subseteq ReadyTasks(k3)
  BY <1>6, TicksPended
<1> HIDE DEF k3
<1>8. sv \in BOOLEAN /\ sv = (r.pendSV \/ k3.yieldPending)
  BY <1>7, FieldsOf
<1> HIDE DEF sv
<1>9. /\ s \in KState /\ s.cur = r.cur /\ s.pendSV = sv /\ s.yieldPending = k3.yieldPending
      /\ s.suspended = no /\ s.pendingReady = none /\ s.list = k3.list
  BY <1>1, <1>7, <1>8 DEF KState
<1> QED
  BY <1>7, <1>8, <1>9 DEF ReadyTasks, AwakeTasks, no, none

---------------------------------------------------------------------------
(* Changes of priority leave everybody's readiness alone *)

\* The holder changes its list, or its priority only
LEMMA Moves ==
    ASSUME NEW r \in KState, NEW t \in Task, NEW p \in Priority, NEW reset,
           NEW s, s = MoveTo(r, t, p, reset)
    PROVE  Woke(r, s, {}) /\ s.held = r.held
<1> DEFINE k1 == [r EXCEPT !.prio[t] = p]
           away == "suspended"
           k2 == [k1 EXCEPT !.list[t] = away]
           k3 == taskRESET_READY_PRIORITY(k2, reset)
           one == {t}
           k4 == prvAddTasksToReadyList(k3, one)
<1>1. s = IF r.list[t] = "ready" THEN k4 ELSE k1
  <2>1. k1.list = r.list
    BY DEF KState
  <2> QED
    BY DEF MoveTo
<1>2. k1 \in KState /\ Woke(r, k1, {}) /\ k1.list = r.list /\ k1.held = r.held
  <2> DEFINE ps == [r.prio EXCEPT ![t] = p]
  <2>1. ps \in [Task -> Priority] /\ k1 = [r EXCEPT !.prio = ps]
    BY FieldsOf DEF KState
  <2> HIDE DEF ps
  <2> QED
    BY <2>1 DEF KState, Woke, AtOnce, ReadyTasks
<1> HIDE DEF k1
<1>3. CASE r.list[t] = "ready"
  <2>1. /\ k2 \in KState /\ k2.cur = k1.cur /\ k2.suspended = k1.suspended
        /\ k2.pended = k1.pended /\ k2.pendSV = k1.pendSV
        /\ k2.pendingReady = k1.pendingReady /\ k2.held = k1.held
        /\ k2.tick = k1.tick /\ k2.next = k1.next /\ k2.wake = k1.wake
        /\ \A u \in Task : k2.list[u] = IF u = t THEN away ELSE k1.list[u]
    <3> DEFINE l == [k1.list EXCEPT ![t] = away]
    <3>1. /\ l \in [Task -> Lists] /\ k2 = [k1 EXCEPT !.list = l]
          /\ \A u \in Task : l[u] = IF u = t THEN away ELSE k1.list[u]
      BY <1>2, FieldsOf DEF KState, Lists
    <3> HIDE DEF l
    <3> QED
      BY <1>2, <3>1 DEF KState
  <2> HIDE DEF k2
  <2>2. /\ k3 \in KState /\ k3.cur = k1.cur /\ k3.suspended = k1.suspended
        /\ k3.pended = k1.pended /\ k3.pendSV = k1.pendSV
        /\ k3.pendingReady = k1.pendingReady /\ k3.held = k1.held
        /\ k3.list = k2.list
        /\ k3.tick = k1.tick /\ k3.next = k1.next /\ k3.wake = k1.wake
    BY <2>1, ResetReady
  <2> HIDE DEF k3
  <2>3. one \in SUBSET Task
    OBVIOUS
  <2>4. /\ k4 \in KState /\ k4.cur = k1.cur /\ k4.suspended = k1.suspended
        /\ k4.pended = k1.pended /\ k4.pendSV = k1.pendSV
        /\ k4.pendingReady = k1.pendingReady /\ k4.held = k1.held
        /\ ReadyTasks(k4) = ReadyTasks(k3) \cup one
        /\ k4.tick = k1.tick /\ k4.next = k1.next /\ k4.wake = k1.wake
        /\ \A u \in Task : k4.list[u] = IF u \in one THEN "ready" ELSE k3.list[u]
    <3> HIDE DEF one
    <3> QED
      BY <2>2, <2>3, AddToReady
  <2> HIDE DEF k4
  <2>5. ReadyTasks(k3) = ReadyTasks(r) \ {t} /\ t \in ReadyTasks(r)
    BY <1>2, <1>3, <2>1, <2>2 DEF ReadyTasks
  <2>6. ReadyTasks(k4) = ReadyTasks(r)
    BY <2>4, <2>5
  <2>7. AtOnce(r, k4, {})
    BY <1>2, <1>3, <2>1, <2>2, <2>4 DEF Woke, AtOnce
  <2> QED
    BY <1>1, <1>2, <1>3, <2>4, <2>6, <2>7 DEF Woke
<1>4. CASE r.list[t] # "ready"
  BY <1>1, <1>2, <1>4
<1> QED
  BY <1>3, <1>4

\* A priority is inherited,
LEMMA Inheriting ==
    ASSUME NEW r \in KState, NEW holder, NEW s, s = xTaskPriorityInherit(r, holder)
    PROVE  Woke(r, s, {}) /\ s.held = r.held
<1>1. CASE holder \in Task /\ r.prio[holder] < r.prio[r.cur]
  <2>1. s = MoveTo(r, holder, r.prio[r.cur], r.prio[holder])
    BY <1>1 DEF xTaskPriorityInherit
  <2>2. r.prio[r.cur] \in Priority
    BY FieldsOf
  <2> QED
    BY ONLY <1>1, <2>1, <2>2, Moves, r \in KState
<1>2. CASE ~ (holder \in Task /\ r.prio[holder] < r.prio[r.cur])
  <2>1. s = r
    BY <1>2 DEF xTaskPriorityInherit
  <2> QED
    BY <2>1, WokeNobody
<1> QED
  BY <1>1, <1>2

\* given up with the mutex,
LEMMA Disinheriting ==
    ASSUME NEW r \in KState, NEW s, s = xTaskPriorityDisinherit(r)
    PROVE  Woke(r, s, {}) /\ s.held = [r.held EXCEPT ![r.cur] = @ - 1]
<1> DEFINE t == r.cur  k1 == [r EXCEPT !.held[t] = @ - 1]
<1>0. t \in Task /\ Base[t] \in Priority
  BY FieldsOf, Numbers
<1>1. k1 \in KState /\ Woke(r, k1, {}) /\ k1.held = [r.held EXCEPT ![r.cur] = @ - 1]
  <2> DEFINE h == [r.held EXCEPT ![t] = @ - 1]
  <2>1. h \in [Task -> Int] /\ k1 = [r EXCEPT !.held = h]
    BY FieldsOf DEF KState
  <2> HIDE DEF h
  <2>2. k1 \in KState /\ Woke(r, k1, {}) /\ k1.held = h
    BY <2>1 DEF KState, Woke, AtOnce, ReadyTasks
  <2> QED
    BY <2>2 DEF h
<1>2. s = MoveTo(k1, t, Base[t], r.prio[t]) \/ s = k1
  BY DEF xTaskPriorityDisinherit
<1> HIDE DEF k1, t
<1>3. ASSUME s = MoveTo(k1, t, Base[t], r.prio[t])
      PROVE  Woke(r, s, {}) /\ s.held = k1.held
  <2>1. Woke(k1, s, {}) /\ s.held = k1.held
    BY <1>0, <1>1, <1>3, Moves
  <2>2. Woke(r, s, {} \cup {})
    BY <1>1, <2>1, WokeTwice
  <2> QED
    BY <2>1, <2>2
<1> QED
  BY <1>1, <1>2, <1>3

\* and given up when a waiter has timed out
LEMMA DisinheritingAfterTimeout ==
    ASSUME NEW r \in KState, NEW holder, NEW p \in Priority,
           NEW s, s = vTaskPriorityDisinheritAfterTimeout(r, holder, p)
    PROVE  Woke(r, s, {}) /\ s.held = r.held
<1> DEFINE m == Max({Base[holder], p})
<1>1. s = r \/ (holder \in Task /\ s = MoveTo(r, holder, m, m))
  BY DEF vTaskPriorityDisinheritAfterTimeout
<1>2. ASSUME holder \in Task
      PROVE  m \in Priority
  <2>0. Base \in [Task -> Priority] /\ Priority \subseteq Int
    BY Numbers
  <2>1. Base[holder] \in Priority /\ Base[holder] \in Int /\ p \in Int
    BY <1>2, <2>0
  <2>2. m = IF Base[holder] >= p THEN Base[holder] ELSE p
    BY <2>1, MaxOfTwo
  <2> QED
    BY <2>1, <2>2
<1> HIDE DEF m
<1>3. ASSUME holder \in Task, s = MoveTo(r, holder, m, m)
      PROVE  Woke(r, s, {}) /\ s.held = r.held
  BY <1>2, <1>3, Moves
<1> QED
  BY <1>1, <1>3, WokeNobody

\* A mutex more is held
LEMMA CountsMutex ==
    ASSUME NEW r \in KState, NEW mutex \in BOOLEAN,
           NEW s, s = pvTaskIncrementMutexHeldCount(r, mutex)
    PROVE  /\ Woke(r, s, {})
           /\ s.held = IF mutex THEN [r.held EXCEPT ![r.cur] = @ + 1] ELSE r.held
<1> DEFINE h == IF mutex THEN [r.held EXCEPT ![r.cur] = @ + 1] ELSE r.held
<1>1. h \in [Task -> Int] /\ s = [r EXCEPT !.held = h]
  BY FieldsOf DEF KState, pvTaskIncrementMutexHeldCount
<1> HIDE DEF h
<1>2. Woke(r, s, {}) /\ s.held = h
  BY <1>1 DEF KState, Woke, AtOnce, ReadyTasks
<1> QED
  BY <1>2 DEF h

---------------------------------------------------------------------------
(* The inductive invariant *)

Receiving == {"receive", "peek", "take"}
Sending   == {"send"}
Queueing  == Receiving \cup Sending

\* Where the running task has suspended the scheduler, and where it has locked
\* the two halves of a queue
Inside == {"lock", "check", "recheck", "inherit", "place", "unlockTx", "unlockRx",
           "resume"}
TxLocked == {"check", "recheck", "inherit", "place", "unlockTx"}
RxLocked == TxLocked \cup {"unlockRx"}

AnyCall == (UNION {Calls[t] : t \in Task}) \cup {NoCall}
Thread  == [in : ThreadType, notified : 0 .. MaxNotified, waiting : BOOLEAN]
QState(o) == [msgs : 0 .. Length[o], holder : Task \cup {NULL},
              recv : Seq(Task), send : Seq(Task),
              txLock : UNLOCKED .. MaxLock, rxLock : UNLOCKED .. MaxLock]

Types ==
    /\ k \in KState
    /\ th \in [Task -> Thread]
    /\ DOMAIN q = Object /\ \A o \in Object : q[o] \in QState(o)

\* Which calls get where
CallPc(in) ==
    /\ in.pc \in (Inside \ {"place", "resume"}) \cup {"expired", "disinherit"} =>
          in.call.op \in Queueing
    /\ in.pc \in {"expired", "disinherit"} => in.call.op # "send"
    /\ in.pc \in {"suspend", "place", "resume", "yield"} =>
          in.call.op \in Queueing \cup {"delay"}
    /\ in.pc = "resume" /\ in.call.op = "delay" => in.after = "block"

\* The task that has put itself on a list and not yet left the processor
HasBlocked(in) == in.pc \in {"unlockTx", "unlockRx", "resume"} /\ in.after = "block"

\* Each task is where its call gets.  The scheduler is suspended by the running
\* task between two of its calls, and by nobody else; the running task is ready,
\* until it has put itself on a list.  Tasks are held back only while the
\* scheduler is suspended.  A task waits for a notification only at one place
Control ==
    /\ \A t \in Task : CallPc(th[t].in)
    /\ \A t \in Task : th[t].in.pc \in Inside <=> (t = k.cur /\ k.suspended)
    /\ k.suspended => k.cur \in ReadyTasks(k) \/ HasBlocked(th[k.cur].in)
    /\ ~ k.suspended /\ ~ k.pendSV =>
          k.cur \in ReadyTasks(k) \/ th[k.cur].in.pc = "yield"
    /\ ~ k.suspended => k.pendingReady = {}
    /\ k.cur \in k.pendingReady => k.cur \notin ReadyTasks(k)
    /\ \A t \in Task : th[t].waiting => Op(t) = "notifyTake" /\ th[t].in.pc = "woken"

\* A queue is locked by the task that suspended the scheduler
LockedBy ==
    \A o \in Object :
        /\ q[o].txLock # UNLOCKED <=> (th[k.cur].in.pc \in TxLocked /\ Obj(k.cur) = o)
        /\ q[o].rxLock # UNLOCKED <=> (th[k.cur].in.pc \in RxLocked /\ Obj(k.cur) = o)

\* A task that looks at the object again before it sleeps
WillLook(in) ==
    \/ in.pc \in {"try", "yield"}
    \/ in.pc \in {"unlockTx", "unlockRx", "resume"} /\ in.after \in {"block", "retry"}

Phase(in, o, ops) ==
    IF ~ (in.call.obj = o /\ in.call.op \in ops) THEN "out"
    ELSE IF WillLook(in) THEN "look"
    ELSE IF in.pc \in {"inherit", "place"} THEN "about"
    ELSE "other"

Phases(h, o, ops) == [t \in Task |-> Phase(h[t].in, o, ops)]

Count(lock) == IF lock = UNLOCKED THEN 0 ELSE lock

SideOf(r, h, o, ops, list, n, lock) ==
    Side(Phases(h, o, ops), AwakeTasks(r), list, n, Count(lock))

Recv(r, h, o, x) == SideOf(r, h, o, Receiving, x.recv, x.msgs, x.txLock)
Snd(r, h, o, x)  == SideOf(r, h, o, Sending, x.send, Length[o] - x.msgs, x.rxLock)

\* No task sleeps that nobody will wake
Sides == \A o \in Object : Recv(k, th, o, q[o]) /\ Snd(k, th, o, q[o])

WInv == Types /\ Control /\ LockedBy /\ Sides

---------------------------------------------------------------------------
(* What the invariant says *)

\* The wake-ups counted are a number
LEMMA CountIs ==
    ASSUME NEW lock \in UNLOCKED .. MaxLock
    PROVE  Count(lock) \in Nat /\ (lock <= 0 => Count(lock) = 0)
BY KernelAssumption DEF Count, UNLOCKED

\* The four phases
LEMMA PhaseIs ==
    ASSUME NEW in, NEW o, NEW ops
    PROVE  /\ Phase(in, o, ops) \in {"out", "look", "about", "other"}
           /\ Phase(in, o, ops) # "out" <=> (in.call.obj = o /\ in.call.op \in ops)
           /\ Phase(in, o, ops) = "look" <=>
                 (in.call.obj = o /\ in.call.op \in ops /\ WillLook(in))
           /\ Phase(in, o, ops) = "about" <=>
                 (/\ in.call.obj = o /\ in.call.op \in ops /\ ~ WillLook(in)
                  /\ in.pc \in {"inherit", "place"})
BY DEF Phase

\* The fields of an object
LEMMA ObjectIs ==
    ASSUME Types, NEW o \in Object
    PROVE  /\ q[o].recv \in Seq(Task) /\ q[o].send \in Seq(Task)
           /\ q[o].msgs \in Nat /\ q[o].msgs <= Length[o] /\ Length[o] \in Nat
           /\ Length[o] - q[o].msgs \in Nat
           /\ q[o].txLock \in UNLOCKED .. MaxLock /\ q[o].rxLock \in UNLOCKED .. MaxLock
           /\ q[o] \in QState(o)
<1>1. q[o] \in QState(o) /\ Length[o] \in Nat
  BY KernelAssumption DEF Types
<1>2. q[o].msgs \in 0 .. Length[o]
  BY <1>1 DEF QState
<1> QED
  BY <1>1, <1>2 DEF QState

\* Who is in a list
LEMMA InListOf ==
    ASSUME NEW r, NEW h, NEW o, NEW ops, NEW list \in Seq(Task), NEW n, NEW lock,
           SideOf(r, h, o, ops, list, n, lock), NEW t \in In(list)
    PROVE  /\ t \in Task /\ t \notin AwakeTasks(r)
           /\ h[t].in.call.obj = o /\ h[t].in.call.op \in ops /\ WillLook(h[t].in)
<1>1. t \in Task
  BY DEF In
<1>2. Phases(h, o, ops)[t] = "look" /\ t \notin AwakeTasks(r)
  BY DEF SideOf, Side
<1>3. Phase(h[t].in, o, ops) = "look"
  BY <1>1, <1>2 DEF Phases
<1> QED
  BY <1>1, <1>2, <1>3, PhaseIs

\* The head of a list is in it
LEMMA FirstIs ==
    ASSUME NEW list \in Seq(Task)
    PROVE  First(list) \subseteq In(list) /\ First(list) \in SUBSET Task
<1>1. CASE list # << >>
  <2>1. Head(list) = list[1] /\ 1 \in DOMAIN list
    BY <1>1
  <2> QED
    BY <1>1, <2>1 DEF First, In
<1> QED
  BY <1>1 DEF First

\* A step of t that does nothing to the list
QuietMoves(r, h, o, ops, list, n, lock, s, g, t) ==
    /\ list \in Seq(Task) /\ n \in Int /\ lock \in UNLOCKED .. MaxLock
    /\ \A u \in Task : u # t =>
           g[u].in = h[u].in /\ (u \in AwakeTasks(r) => u \in AwakeTasks(s))
    /\ In(list) \cap AwakeTasks(s) = {}
    /\ LET p == Phase(h[t].in, o, ops)  p2 == Phase(g[t].in, o, ops)
       IN  \/ p = "out" /\ p2 = "out"
           \/ /\ t \in AwakeTasks(r) => t \in AwakeTasks(s)
              /\ \/ p2 = p
                 \/ /\ t \in AwakeTasks(r)
                    /\ p = "look" /\ p2 # "look" => n <= 0
                    /\ p2 = "about" => n <= 0 \/ p = "about"

\* A side on which nothing happens, but that one task goes on in its call
\* and others are woken
LEMMA SideQuiet ==
    ASSUME NEW r, NEW h, NEW o, NEW ops, NEW list, NEW n, NEW lock,
           NEW s, NEW g, NEW t,
           SideOf(r, h, o, ops, list, n, lock),
           QuietMoves(r, h, o, ops, list, n, lock, s, g, t)
    PROVE  SideOf(s, g, o, ops, list, n, lock)
<1>0. /\ list \in Seq(Task) /\ n \in Int /\ lock \in UNLOCKED .. MaxLock
      /\ \A u \in Task : u # t =>
             g[u].in = h[u].in /\ (u \in AwakeTasks(r) => u \in AwakeTasks(s))
      /\ In(list) \cap AwakeTasks(s) = {}
  BY DEF QuietMoves
<1> DEFINE p == Phase(h[t].in, o, ops)  p2 == Phase(g[t].in, o, ops)
<1>00. \/ p = "out" /\ p2 = "out"
       \/ /\ t \in AwakeTasks(r) => t \in AwakeTasks(s)
          /\ \/ p2 = p
             \/ /\ t \in AwakeTasks(r)
                /\ p = "look" /\ p2 # "look" => n <= 0
                /\ p2 = "about" => n <= 0 \/ p = "about"
  BY DEF QuietMoves
<1> USE <1>0, <1>00
<1> DEFINE ph == Phases(h, o, ops)  ph2 == Phases(g, o, ops)
           aw == AwakeTasks(r)  aw2 == AwakeTasks(s)  c == Count(lock)  none == {}
<1>1. Side(ph, aw, list, n, c) /\ c \in Nat
  BY CountIs DEF SideOf
<1>2. CASE t \in Task
  <2>1. /\ \A u \in Task : u # t => ph2[u] = ph[u] /\ (u \in aw => u \in aw2)
        /\ ph[t] = p /\ ph2[t] = p2
    BY <1>2 DEF Phases
  <2> HIDE DEF ph, ph2, aw, aw2, c
  <2>2. Once(list) /\ In(list) = In(list) \ none /\ none \in SUBSET Task
        /\ none \subseteq In(list) /\ none \subseteq aw2 /\ Cardinality(none) = 0
    BY <1>1, FS_EmptySet DEF Side
  <2> HIDE DEF none
  <2>3. In(list) \cap aw2 = {}
    BY DEF aw2
  <2>4. \/ ph2[t] = ph[t] /\ (ph[t] = "out" \/ t \notin aw \/ t \in aw2)
        \/ t \in aw /\ (ph2[t] = "out" \/ t \in aw2)
    BY <2>1 DEF aw, aw2
  <2>5. \A u \in Task : ph2[u] = "about" => n <= c
    <3>1. \A u \in Task : ph[u] = "about" => n <= c
      BY <1>1 DEF Side
    <3>2. p2 = "about" => p = "about" \/ n <= 0
      OBVIOUS
    <3>3. n <= 0 => n <= c
      BY <1>1
    <3> QED
      BY <1>2, <2>1, <3>1, <3>2, <3>3
  <2>6. n - c + Used(ph[t], ph2[t]) <= n - c + Cardinality(none) \/ n <= c
    <3>1. CASE p = "look" /\ p2 # "look"
      <4>1. n <= 0
        BY <3>1
      <4> QED
        BY ONLY <1>0, <1>1, <4>1
    <3>2. CASE ~ (p = "look" /\ p2 # "look")
      <4>1. Used(ph[t], ph2[t]) = 0
        BY <2>1, <3>2 DEF Used
      <4> QED
        BY ONLY <1>0, <1>1, <2>2, <4>1
    <3> QED
      BY <3>1, <3>2
  <2>7. list # << >> => \/ n - c + Used(ph[t], ph2[t]) <= n - c + Cardinality(none)
                        \/ n <= c
    BY <2>6
  <2>8. \A u \in Task : u # t => ph2[u] = ph[u] /\ (u \in aw => u \in aw2)
    BY <2>1
  <2>9. Side(ph2, aw2, list, n, c)
    <3>1. list \in Seq(Task) /\ n \in Int /\ c \in Nat
      BY <1>1
    <3>2. SideMoves(ph, aw, list, n, c, ph2, aw2, list, n, c, t, none)
      BY ONLY <2>8, <2>2, <2>3, <2>4, <2>5, <2>7, <3>1 DEF SideMoves
    <3> QED
      BY ONLY <1>1, <3>2, SideStep
  <2> QED
    BY <2>9 DEF SideOf, ph2, aw2, c
<1>3. CASE t \notin Task
  <2>1. ph2 = ph
    BY <1>3 DEF Phases
  <2>2. \A u \in Task : u \in aw => u \in aw2
    BY <1>3
  <2> HIDE DEF ph, ph2, aw, c
  <2>3. Side(ph2, aw2, list, n, c)
    BY <1>1, <2>1, <2>2 DEF Side
  <2> QED
    BY <2>3 DEF SideOf, ph2, c
<1> QED
  BY <1>2, <1>3

\* No sleeping task is forgotten
LEMMA WakesUp ==
    ASSUME WInv
    PROVE  NoLostWakeup
<1> SUFFICES ASSUME NEW o \in Object
             PROVE  /\ (q[o].recv # << >> /\ ~ Empty(o)) =>
                          q[o].txLock > 0 \/ Awake(o, {"receive", "peek", "take"}) # {}
                    /\ (q[o].send # << >> /\ ~ Full(o)) =>
                          q[o].rxLock > 0 \/ Awake(o, {"send"}) # {}
  BY DEF NoLostWakeup
<1>1. ASSUME NEW ops, NEW list \in Seq(Task), NEW n \in Nat, NEW lock \in UNLOCKED .. MaxLock,
             SideOf(k, th, o, ops, list, n, lock), list # << >>, n # 0, ~ (lock > 0)
      PROVE  Awake(o, ops) # {}
  <2> DEFINE ph == Phases(th, o, ops)
  <2>1. Count(lock) = 0
    BY <1>1, CountIs, KernelAssumption DEF UNLOCKED
  <2>2. n <= Cardinality(Looking(ph, list)) + 0
    BY <1>1, <2>1 DEF SideOf, Side
  <2>3. Cardinality(Looking(ph, list)) # 0
    BY <1>1, <2>2, LookingIs
  <2>4. Looking(ph, list) # {}
    BY <2>3, FS_EmptySet
  <2>5. PICK t \in Task : ph[t] = "look" /\ t \notin In(list)
    BY <2>4 DEF Looking
  <2>6. t \in AwakeTasks(k)
    BY <1>1, <2>5 DEF SideOf, Side
  <2>7. Obj(t) = o /\ Op(t) \in ops
    BY <2>5, PhaseIs DEF Phases, Obj, Op
  <2> QED
    BY <2>6, <2>7 DEF Awake, AwakeTasks, ReadyTasks, InReady
<1>2. Recv(k, th, o, q[o]) /\ Snd(k, th, o, q[o]) /\ Types
  BY DEF WInv, Sides
<1>3. ASSUME q[o].recv # << >>, ~ Empty(o), ~ (q[o].txLock > 0)
      PROVE  Awake(o, Receiving) # {}
  BY <1>1, <1>2, <1>3, ObjectIs DEF Recv, Empty
<1>4. ASSUME q[o].send # << >>, ~ Full(o), ~ (q[o].rxLock > 0)
      PROVE  Awake(o, Sending) # {}
  <2>1. Length[o] - q[o].msgs # 0
    BY <1>2, <1>4, ObjectIs DEF Full
  <2> QED
    BY <1>1, <1>2, <1>4, <2>1, ObjectIs DEF Snd
<1> QED
  BY <1>3, <1>4 DEF Receiving, Sending

---------------------------------------------------------------------------
(* The parts of a step *)

\* The fields of a task's call
LEMMA ThreadIs ==
    ASSUME Types, NEW t \in Task
    PROVE  /\ th[t] \in Thread /\ th[t].in \in ThreadType /\ th[t].waiting \in BOOLEAN
           /\ th[t].in.call \in AnyCall /\ th[t].in.left \in 0 .. portMAX_DELAY
           /\ th[t].in.after \in {"", "block", "retry", "expired"}
           /\ Op(t) \in Queueing => Obj(t) \in Object
<1>1. th[t] \in Thread
  BY DEF Types
<1>2. /\ th[t].in \in ThreadType /\ th[t].waiting \in BOOLEAN
  BY <1>1 DEF Thread
<1>3. /\ th[t].in.call \in AnyCall /\ th[t].in.left \in 0 .. portMAX_DELAY
      /\ th[t].in.after \in {"", "block", "retry", "expired"}
  BY <1>2 DEF ThreadType, AnyCall
<1>4. AnyCall \subseteq CallSet \cup {NoCall}
  <2>1. \A u \in Task : Calls[u] \subseteq CallSet
    BY ONLY KernelAssumption DEF KernelAssumption
  <2> QED
    BY ONLY <2>1 DEF AnyCall
<1>5. \A c \in CallSet \cup {NoCall} : c.op \in Queueing => c.obj \in Object
  BY DEF CallSet, NoCall, Queueing, Receiving, Sending
<1> QED
  BY <1>1, <1>2, <1>3, <1>4, <1>5 DEF Op, Obj

\* The state outside any call is one of the states of a call
LEMMA OutsideIs == Outside \in ThreadType /\ CallPc(Outside)
<1> DEFINE none == 0
<1>1. none \in 0 .. portMAX_DELAY /\ none \in 0 .. TickMod - 1
  BY Numbers
<1>2. NoCall \in (UNION {Calls[t] : t \in Task}) \cup {NoCall}
  <2> DEFINE U == UNION {Calls[t] : t \in Task}
  <2> HIDE DEF U
  <2>1. NoCall \in U \cup {NoCall}
    OBVIOUS
  <2> QED
    BY <2>1 DEF U
<1>3. Outside = [pc |-> "run", call |-> NoCall, left |-> none, timed |-> FALSE,
                 at |-> none, wrapped |-> FALSE, inherited |-> FALSE, after |-> "",
                 waited |-> none]
  BY DEF Outside
<1> HIDE DEF none
<1>4. Outside \in ThreadType
  BY <1>1, <1>2, <1>3 DEF ThreadType
<1>5. CallPc(Outside)
  BY <1>3 DEF CallPc, Inside
<1> QED
  BY <1>4, <1>5

\* The call of t goes on as in2 says
LEMMA GoesOn ==
    ASSUME Types, NEW t \in Task, NEW in2 \in ThreadType,
           th' = [th EXCEPT ![t].in = in2]
    PROVE  /\ th' \in [Task -> Thread] /\ th'[t].in = in2
           /\ \A u \in Task : u # t => th'[u] = th[u]
           /\ \A u \in Task : th'[u].waiting = th[u].waiting
<1> DEFINE x == [th[t] EXCEPT !.in = in2]
<1>1. th[t] \in Thread /\ th \in [Task -> Thread]
  BY DEF Types
<1>2. x \in Thread /\ x.in = in2 /\ x.waiting = th[t].waiting
  BY <1>1 DEF Thread
<1>3. th' = [th EXCEPT ![t] = x]
  OBVIOUS
<1> HIDE DEF x
<1> QED
  BY <1>1, <1>2, <1>3

\* What is known of the running task
LEMMA AtIs ==
    ASSUME WInv, NEW t \in Task, NEW pc, At(t, pc)
    PROVE  /\ t = k.cur /\ th[t].in.pc = pc /\ ~ k.pendSV
           /\ CallPc(th[t].in)
           /\ pc \in Inside <=> k.suspended
           /\ pc \notin Inside =>
                 /\ pc # "yield" => t \in ReadyTasks(k)
                 /\ k.pendingReady = {}
                 /\ \A o \in Object : q[o].txLock = UNLOCKED /\ q[o].rxLock = UNLOCKED
                 /\ \A u \in Task : th[u].in.pc \notin Inside
           /\ pc \in Inside =>
                 /\ HasBlocked(th[t].in) \/ t \in ReadyTasks(k)
                 /\ \A u \in Task : u # t => th[u].in.pc \notin Inside
           /\ pc # "woken" \/ Op(t) # "notifyTake" => ~ th[t].waiting
<1>1. t = k.cur /\ th[t].in.pc = pc /\ ~ k.pendSV
  BY DEF At
<1>2. TxLocked \subseteq Inside /\ RxLocked \subseteq Inside
  BY DEF TxLocked, RxLocked, Inside
<1> QED
  BY <1>1, <1>2 DEF WInv, Control, LockedBy

\* The running task's call goes on as in2 says, while those of ts are woken
ControlMoves(t, in2, ts) ==
    /\ t \in Task /\ t = k.cur /\ Woke(k, k', ts)
    /\ th'[t].in = in2
    /\ \A u \in Task : u # t => th'[u] = th[u]
    /\ th'[t].waiting => in2.call.op = "notifyTake" /\ in2.pc = "woken"
    /\ t \in ts => t \notin ReadyTasks(k)
    /\ CallPc(in2)
    /\ th[t].in.pc \in Inside <=> in2.pc \in Inside
    /\ k.suspended => t \in ReadyTasks(k) \/ HasBlocked(in2)
    /\ ~ k.suspended /\ ~ k'.pendSV => t \in ReadyTasks(k) \/ in2.pc = "yield"

\* and the control stays in order
LEMMA ControlStep ==
    ASSUME Types, Control, NEW t, NEW in2, NEW ts, ControlMoves(t, in2, ts)
    PROVE  Control'
<1>1. k'.cur = t /\ k.cur = t /\ t \in Task /\ k'.suspended = k.suspended
  BY DEF ControlMoves, Woke
<1>2. \A u \in Task : CallPc(th'[u].in)
  BY DEF ControlMoves, Control
<1>3. \A u \in Task : th'[u].in.pc \in Inside <=> (u = k'.cur /\ k'.suspended)
  BY <1>1 DEF ControlMoves, Control
<1>4. k'.suspended => k'.cur \in ReadyTasks(k') \/ HasBlocked(th'[k'.cur].in)
  BY <1>1 DEF ControlMoves, Woke
<1>5. ~ k'.suspended /\ ~ k'.pendSV => k'.cur \in ReadyTasks(k') \/ th'[k'.cur].in.pc = "yield"
  BY <1>1 DEF ControlMoves, Woke
<1>6. ~ k'.suspended => k'.pendingReady = {}
  BY <1>1 DEF ControlMoves, Woke, Control
<1>7. k'.cur \in k'.pendingReady => k'.cur \notin ReadyTasks(k')
  BY <1>1, <1>6 DEF ControlMoves, Woke, Control
<1>8. \A u \in Task : th'[u].waiting =>
            th'[u].in.call.op = "notifyTake" /\ th'[u].in.pc = "woken"
  BY DEF ControlMoves, Control, Op
<1> QED
  BY <1>2, <1>3, <1>4, <1>5, <1>6, <1>7, <1>8 DEF Control, Op

\* The awake tasks after tasks were woken
LEMMA AwakeAfter ==
    ASSUME NEW r, NEW s, NEW ts, Woke(r, s, ts)
    PROVE  AwakeTasks(s) = AwakeTasks(r) \cup ts
BY DEF Woke, AwakeTasks

\* A step of a call that leaves the object alone
PhaseOK(in, in2, o, ops, n) ==
    \/ Phase(in2, o, ops) = Phase(in, o, ops)
    \/ /\ k.cur \in ReadyTasks(k)
       /\ Phase(in, o, ops) = "look" /\ Phase(in2, o, ops) # "look" => n <= 0
       /\ Phase(in2, o, ops) = "about" => n <= 0 \/ Phase(in, o, ops) = "about"

\* then both sides of an object it leaves alone stay in order
LEMMA SidesQuiet ==
    ASSUME WInv, NEW t \in Task, t = k.cur, NEW ts, Woke(k, k', ts),
           \A u \in Task : u # t => th'[u] = th[u],
           NEW o \in Object,
           \A u \in ts : u \notin In(q[o].recv) /\ u \notin In(q[o].send),
           PhaseOK(th[t].in, th'[t].in, o, Receiving, q[o].msgs),
           PhaseOK(th[t].in, th'[t].in, o, Sending, Length[o] - q[o].msgs)
    PROVE  Recv(k', th', o, q[o]) /\ Snd(k', th', o, q[o])
<1>1. /\ AwakeTasks(k') = AwakeTasks(k) \cup ts
      /\ k.cur \in ReadyTasks(k) => t \in AwakeTasks(k)
  BY AwakeAfter DEF AwakeTasks
<1>2. ASSUME NEW ops, NEW list \in Seq(Task), NEW n \in Int, NEW lock \in UNLOCKED .. MaxLock,
             SideOf(k, th, o, ops, list, n, lock), \A u \in ts : u \notin In(list),
             PhaseOK(th[t].in, th'[t].in, o, ops, n)
      PROVE  SideOf(k', th', o, ops, list, n, lock)
  <2> DEFINE p == Phase(th[t].in, o, ops)  p2 == Phase(th'[t].in, o, ops)
             r == k  s == k'  h == th  g == th'
  <2>1. In(list) \cap AwakeTasks(s) = {}
    <3>1. \A u \in In(list) : u \notin AwakeTasks(k)
      BY <1>2, InListOf
    <3> QED
      BY <1>1, <1>2, <3>1
  <2>2. \/ p = "out" /\ p2 = "out"
        \/ /\ t \in AwakeTasks(r) => t \in AwakeTasks(s)
           /\ \/ p2 = p
              \/ /\ t \in AwakeTasks(r)
                 /\ p = "look" /\ p2 # "look" => n <= 0
                 /\ p2 = "about" => n <= 0 \/ p = "about"
    BY <1>1, <1>2 DEF PhaseOK
  <2>3. \A u \in Task : u # t =>
               g[u].in = h[u].in /\ (u \in AwakeTasks(r) => u \in AwakeTasks(s))
    BY <1>1
  <2>4. p = Phase(h[t].in, o, ops) /\ p2 = Phase(g[t].in, o, ops)
    OBVIOUS
  <2>5. SideOf(r, h, o, ops, list, n, lock)
    BY <1>2
  <2>6. list \in Seq(Task) /\ n \in Int /\ lock \in UNLOCKED .. MaxLock
    OBVIOUS
  <2> HIDE DEF p, p2, r, s, h, g
  <2>7. SideOf(s, g, o, ops, list, n, lock)
    <3>1. QuietMoves(r, h, o, ops, list, n, lock, s, g, t)
      BY ONLY <2>1, <2>2, <2>3, <2>4, <2>6 DEF QuietMoves
    <3> QED
      BY ONLY <2>5, <3>1, SideQuiet
  <2> QED
    BY <2>7 DEF s, g
<1>3. Recv(k, th, o, q[o]) /\ Snd(k, th, o, q[o]) /\ Types
  BY DEF WInv, Sides
<1>4. Recv(k', th', o, q[o])
  BY <1>2, <1>3, ObjectIs DEF Recv
<1>5. Snd(k', th', o, q[o])
  BY <1>2, <1>3, ObjectIs DEF Snd
<1> QED
  BY <1>4, <1>5

---------------------------------------------------------------------------
(* Steps of a call that leave the objects alone *)

\* The phases of a task that goes on where it was,
LEMMA PhaseSame ==
    ASSUME NEW in, NEW in2, NEW o, NEW ops, NEW n, in2.call = in.call,
           in.call.op \in ops => /\ WillLook(in2) <=> WillLook(in)
                                 /\ in2.pc \in {"inherit", "place"} <=>
                                       in.pc \in {"inherit", "place"}
    PROVE  PhaseOK(in, in2, o, ops, n)
BY DEF PhaseOK, Phase

\* that was not about to look, and is not about to sleep,
LEMMA PhaseFresh ==
    ASSUME NEW in, NEW in2, NEW o, NEW ops, NEW n, k.cur \in ReadyTasks(k),
           ~ WillLook(in), in2.pc \notin {"inherit", "place"}
    PROVE  PhaseOK(in, in2, o, ops, n)
BY DEF PhaseOK, Phase

\* and that has found nothing
LEMMA PhaseVain ==
    ASSUME NEW in, NEW in2, NEW o, NEW ops, NEW n, k.cur \in ReadyTasks(k),
           in.call.obj = o /\ in.call.op \in ops => n <= 0,
           in2.call = in.call \/ in2.call.op \notin ops
    PROVE  PhaseOK(in, in2, o, ops, n)
BY DEF PhaseOK, Phase

\* The running task's call goes on as in2 says, and the objects stay
LocalMoves(t, in2) ==
    /\ ControlMoves(t, in2, {})
    /\ th' \in [Task -> Thread] /\ q' = q
    /\ th[t].in.pc \in TxLocked <=> in2.pc \in TxLocked
    /\ th[t].in.pc \in RxLocked <=> in2.pc \in RxLocked
    /\ th[t].in.pc \in RxLocked => in2.call = th[t].in.call
    /\ \A o \in Object : /\ PhaseOK(th[t].in, in2, o, Receiving, q[o].msgs)
                         /\ PhaseOK(th[t].in, in2, o, Sending, Length[o] - q[o].msgs)

\* and the invariant is kept
LEMMA LocalStep ==
    ASSUME WInv, NEW t, NEW in2, LocalMoves(t, in2)
    PROVE  WInv'
<1>1. /\ t \in Task /\ t = k.cur /\ Woke(k, k', {}) /\ k'.cur = t
      /\ th'[t].in = in2 /\ \A u \in Task : u # t => th'[u] = th[u]
  BY DEF LocalMoves, ControlMoves, Woke
<1>2. Types'
  BY <1>1 DEF Types, LocalMoves, Woke, WInv, QState
<1>3. Control'
  BY ControlStep DEF LocalMoves, WInv
<1>4. LockedBy'
  <2>1. TxLocked \subseteq RxLocked
    BY DEF RxLocked
  <2>2. SUFFICES ASSUME NEW o \in Object
        PROVE /\ q[o].txLock # UNLOCKED <=> (in2.pc \in TxLocked /\ in2.call.obj = o)
              /\ q[o].rxLock # UNLOCKED <=> (in2.pc \in RxLocked /\ in2.call.obj = o)
    BY <1>1 DEF LockedBy, Obj, LocalMoves
  <2> QED
    BY <1>1, <2>1 DEF WInv, LockedBy, Obj, LocalMoves
<1>5. Sides'
  <2>1. SUFFICES ASSUME NEW o \in Object
        PROVE Recv(k', th', o, q[o]) /\ Snd(k', th', o, q[o])
    BY DEF Sides, LocalMoves
  <2>2. /\ PhaseOK(th[t].in, th'[t].in, o, Receiving, q[o].msgs)
        /\ PhaseOK(th[t].in, th'[t].in, o, Sending, Length[o] - q[o].msgs)
    BY <1>1 DEF LocalMoves
  <2> QED
    BY <1>1, <2>2, SidesQuiet
<1> QED
  BY <1>2, <1>3, <1>4, <1>5 DEF WInv

\* A step that does not change the scheduler, taken outside the suspension
LEMMA LocalOutside ==
    ASSUME WInv, NEW t \in Task, NEW in2 \in ThreadType, NEW pc, At(t, pc),
           th' = [th EXCEPT ![t].in = in2], q' = q, Woke(k, k', {}),
           pc \notin Inside, in2.pc \notin Inside, CallPc(in2),
           pc = "woken" => Op(t) # "notifyTake", pc # "yield" \/ k'.pendSV,
           \A o \in Object : /\ PhaseOK(th[t].in, in2, o, Receiving, q[o].msgs)
                             /\ PhaseOK(th[t].in, in2, o, Sending, Length[o] - q[o].msgs)
    PROVE  WInv'
<1>1. Types
  BY DEF WInv
<1>2. /\ th' \in [Task -> Thread] /\ th'[t].in = in2
      /\ \A u \in Task : u # t => th'[u] = th[u]
      /\ th'[t].waiting = th[t].waiting
  BY <1>1, GoesOn
<1>3. /\ t = k.cur /\ th[t].in.pc = pc /\ ~ k.suspended /\ ~ th[t].waiting
      /\ pc # "yield" => t \in ReadyTasks(k)
  BY AtIs
<1>4. TxLocked \subseteq Inside /\ RxLocked \subseteq Inside
  BY DEF TxLocked, RxLocked, Inside
<1>5. ControlMoves(t, in2, {})
  BY <1>2, <1>3 DEF ControlMoves
<1>6. LocalMoves(t, in2)
  BY <1>2, <1>3, <1>4, <1>5 DEF LocalMoves
<1> QED
  BY <1>6, LocalStep

\* and inside it
LEMMA LocalInside ==
    ASSUME WInv, NEW t \in Task, NEW in2 \in ThreadType, NEW pc, At(t, pc),
           th' = [th EXCEPT ![t].in = in2], q' = q, Woke(k, k', {}),
           pc \in TxLocked \ {"unlockTx"}, in2.pc \in TxLocked, CallPc(in2),
           in2.call = th[t].in.call,
           \A o \in Object : /\ PhaseOK(th[t].in, in2, o, Receiving, q[o].msgs)
                             /\ PhaseOK(th[t].in, in2, o, Sending, Length[o] - q[o].msgs)
    PROVE  WInv'
<1>1. Types
  BY DEF WInv
<1>2. /\ th' \in [Task -> Thread] /\ th'[t].in = in2
      /\ \A u \in Task : u # t => th'[u] = th[u]
      /\ th'[t].waiting = th[t].waiting
  BY <1>1, GoesOn
<1>3. pc \in Inside /\ in2.pc \in Inside /\ pc \in RxLocked /\ in2.pc \in RxLocked
      /\ pc \notin {"unlockTx", "unlockRx", "resume", "woken"}
  BY DEF TxLocked, RxLocked, Inside
<1>4. /\ t = k.cur /\ th[t].in.pc = pc /\ k.suspended /\ ~ th[t].waiting
      /\ t \in ReadyTasks(k)
  BY <1>3, AtIs DEF HasBlocked
<1>5. ControlMoves(t, in2, {})
  BY <1>2, <1>3, <1>4 DEF ControlMoves
<1>6. LocalMoves(t, in2)
  BY <1>2, <1>3, <1>4, <1>5 DEF LocalMoves
<1> QED
  BY <1>6, LocalStep

---------------------------------------------------------------------------
(* The actions that leave the objects alone *)

\* A call starts
LEMMA CallKeeps ==
    ASSUME WInv, NEW t \in Task, NEW c \in Calls[t], Call(t, c)
    PROVE  WInv'
<1> DEFINE in == th[t].in
           pc2 == IF c.op # "delay" THEN "try"
                  ELSE IF c.ticks = 0 THEN "yield" ELSE "suspend"
           in2 == [in EXCEPT !.call = c, !.left = c.ticks, !.pc = pc2]
<1>1. Types /\ At(t, "run") /\ k' = k /\ q' = q
  BY DEF WInv, Call
<1>2. in \in ThreadType /\ in.pc = "run" /\ k.cur = t
  BY <1>1, ThreadIs DEF At
<1>3. c \in CallSet /\ c \in UNION {Calls[u] : u \in Task}
  BY KernelAssumption
<1>4. c.ticks \in 0 .. portMAX_DELAY /\ c.op \in Queueing \cup {"delay", "notifyTake"}
  BY <1>3 DEF CallSet, Queueing, Receiving, Sending
<1>5. in2 \in ThreadType
  <2>1. c \in (UNION {Calls[u] : u \in Task}) \cup {NoCall}
    BY <1>3
  <2> QED
    BY <1>2, <1>4, <2>1 DEF ThreadType
<1>6. in2.pc = pc2 /\ in2.call = c
  BY <1>2 DEF ThreadType
<1>7. th' = [th EXCEPT ![t].in = in2]
  <2>1. th' = [th EXCEPT ![t].in.call = c, ![t].in.left = c.ticks, ![t].in.pc = pc2]
    BY DEF Call
  <2> HIDE DEF pc2
  <2> QED
    BY ZenonT(40), <1>1, <1>2, <2>1 DEF Types, Thread, ThreadType
<1>8. Woke(k, k', {})
  BY <1>1, WokeNobody DEF Types
<1>9. /\ pc2 \in {"try", "yield", "suspend"} /\ (pc2 # "try" => c.op = "delay")
      /\ "run" \notin Inside /\ pc2 \notin Inside \cup {"inherit", "place"}
  <2>1. pc2 \in {"try", "yield", "suspend"} /\ (pc2 # "try" => c.op = "delay")
    BY SMT
  <2> HIDE DEF pc2
  <2> QED
    BY <2>1 DEF Inside
<1>10. CallPc(in2) /\ ~ WillLook(in) /\ k.cur \in ReadyTasks(k)
  <2>1. k.cur \in ReadyTasks(k)
    BY <1>1, <1>2, <1>9, AtIs
  <2> QED
    BY <1>2, <1>6, <1>9, <2>1 DEF CallPc, WillLook, Inside
<1> HIDE DEF in2, pc2
<1>11. \A o \in Object : /\ PhaseOK(th[t].in, in2, o, Receiving, q[o].msgs)
                        /\ PhaseOK(th[t].in, in2, o, Sending, Length[o] - q[o].msgs)
  BY <1>6, <1>9, <1>10, PhaseFresh
<1> QED
  BY <1>1, <1>5, <1>6, <1>7, <1>8, <1>9, <1>10, <1>11, LocalOutside

\* What was not there, or had no room, is nothing to look at
LEMMA BlockedIs ==
    ASSUME Types, NEW t \in Task, Blocked(t), NEW o \in Object
    PROVE  /\ Op(t) \in Queueing
           /\ Obj(t) = o /\ Op(t) \in Receiving => q[o].msgs <= 0
           /\ Obj(t) = o /\ Op(t) \in Sending => Length[o] - q[o].msgs <= 0
BY ObjectIs DEF Blocked, Queueing, Receiving, Sending, Empty, Full

\* so that whoever stops looking leaves nothing behind
LEMMA VainPhases ==
    ASSUME Types, NEW t \in Task, Blocked(t), k.cur \in ReadyTasks(k),
           NEW in2, in2.call = th[t].in.call \/ in2.call.op \notin Queueing
    PROVE  \A o \in Object : /\ PhaseOK(th[t].in, in2, o, Receiving, q[o].msgs)
                             /\ PhaseOK(th[t].in, in2, o, Sending, Length[o] - q[o].msgs)
<1> SUFFICES ASSUME NEW o \in Object
             PROVE  /\ PhaseOK(th[t].in, in2, o, Receiving, q[o].msgs)
                    /\ PhaseOK(th[t].in, in2, o, Sending, Length[o] - q[o].msgs)
  OBVIOUS
<1>1. /\ th[t].in.call.obj = o /\ th[t].in.call.op \in Receiving => q[o].msgs <= 0
      /\ th[t].in.call.obj = o /\ th[t].in.call.op \in Sending => Length[o] - q[o].msgs <= 0
  BY BlockedIs DEF Obj, Op
<1>2. in2.call = th[t].in.call \/ (in2.call.op \notin Receiving /\ in2.call.op \notin Sending)
  BY DEF Queueing
<1>3. PhaseOK(th[t].in, in2, o, Receiving, q[o].msgs)
  BY <1>1, <1>2, PhaseVain
<1>4. PhaseOK(th[t].in, in2, o, Sending, Length[o] - q[o].msgs)
  BY <1>1, <1>2, PhaseVain
<1> QED
  BY <1>3, <1>4

\* The first look finds nothing
LEMMA NotNowKeeps ==
    ASSUME WInv, NEW t \in Task, NotNow(t)
    PROVE  WInv'
<1> DEFINE in == th[t].in
           at == IF in.timed THEN in.at ELSE k.tick
           in3 == [in EXCEPT !.pc = "suspend", !.timed = TRUE, !.at = at]
           in2 == IF in.left = 0 THEN Outside ELSE in3
<1>1. Types /\ At(t, "try") /\ Blocked(t) /\ k' = k /\ q' = q
  BY DEF WInv, NotNow
<1>2. in \in ThreadType /\ in.pc = "try" /\ k.cur = t /\ k \in KState
  BY <1>1, ThreadIs DEF At, Types
<1>3. at \in 0 .. TickMod - 1
  BY <1>2, FieldsOf DEF ThreadType
<1>4. in3 \in ThreadType /\ in3.pc = "suspend" /\ in3.call = in.call
  BY <1>2, <1>3 DEF ThreadType
<1>5. in2 \in ThreadType
  BY <1>4, OutsideIs
<1>6. th' = [th EXCEPT ![t].in = in2]
  <2>1. CASE in.left = 0
    BY <1>1, <2>1 DEF NotNow, Return
  <2>2. CASE in.left # 0
    <3>1. th' = [th EXCEPT ![t].in.pc = "suspend", ![t].in.timed = TRUE,
                           ![t].in.at = IF th[t].in.timed THEN @ ELSE k.tick]
      BY <1>1, <2>2 DEF NotNow
    <3>2. th' = [th EXCEPT ![t].in = in3]
      BY ZenonT(40), <1>1, <1>2, <3>1 DEF Types, Thread, ThreadType
    <3> QED
      BY <2>2, <3>2
  <2> QED
    BY <2>1, <2>2
<1>7. Woke(k, k', {})
  BY <1>1, WokeNobody DEF Types
<1>8. "try" \notin Inside /\ "suspend" \notin Inside /\ "run" \notin Inside
  BY DEF Inside
<1>9. Op(t) \in Queueing
  BY <1>1 DEF Blocked, Queueing, Receiving, Sending
<1>10. CallPc(in2) /\ in2.pc \notin Inside
  <2>1. CallPc(in3)
    BY <1>4, <1>8, <1>9 DEF CallPc, Op
  <2> QED
    BY <1>4, <1>8, <2>1, OutsideIs DEF Outside
<1>11. in2.call = in.call \/ in2.call.op \notin Queueing
  BY <1>4 DEF Outside, NoCall, Queueing, Receiving, Sending
<1>12. k.cur \in ReadyTasks(k)
  BY <1>1, <1>2, <1>8, AtIs
<1> HIDE DEF in2, in3
<1>13. \A o \in Object : /\ PhaseOK(th[t].in, in2, o, Receiving, q[o].msgs)
                        /\ PhaseOK(th[t].in, in2, o, Sending, Length[o] - q[o].msgs)
  BY <1>1, <1>11, <1>12, VainPhases
<1> QED
  BY <1>1, <1>5, <1>6, <1>7, <1>8, <1>10, <1>13, LocalOutside

\* The second look
LEMMA RecheckKeeps ==
    ASSUME WInv, NEW t \in Task, Recheck(t)
    PROVE  WInv'
<1> DEFINE in == th[t].in
           pc2 == IF ~ Blocked(t) THEN "unlockTx"
                  ELSE IF Type[Obj(t)] = "mutex" THEN "inherit" ELSE "place"
           after2 == IF ~ Blocked(t) THEN "retry" ELSE in.after
           in2 == [in EXCEPT !.pc = pc2, !.after = after2]
<1>1. Types /\ At(t, "recheck") /\ k' = k /\ q' = q
  BY DEF WInv, Recheck
<1>2. in \in ThreadType /\ in.pc = "recheck" /\ k.cur = t
  BY <1>1, ThreadIs DEF At
<1>3. in2 \in ThreadType /\ in2.pc = pc2 /\ in2.call = in.call
  BY <1>2 DEF ThreadType
<1>4. th' = [th EXCEPT ![t].in = in2]
  <2>1. CASE Blocked(t)
    <3>1. pc2 = IF Type[Obj(t)] = "mutex" THEN "inherit" ELSE "place"
      BY <2>1
    <3>2. th' = [th EXCEPT ![t].in.pc = pc2]
      BY <1>1, <2>1, <3>1 DEF Recheck, Goto
    <3>3. after2 = in.after
      BY <2>1
    <3> HIDE DEF pc2, after2
    <3> QED
      BY <1>1, <1>2, <3>2, <3>3 DEF Types, Thread, ThreadType
  <2>2. CASE ~ Blocked(t)
    <3>1. th' = [th EXCEPT ![t].in.pc = "unlockTx", ![t].in.after = "retry"]
      BY <1>1, <2>2 DEF Recheck
    <3>2. pc2 = "unlockTx" /\ after2 = "retry"
      BY <2>2
    <3> HIDE DEF pc2, after2
    <3> QED
      BY ZenonT(40), <1>1, <1>2, <3>1, <3>2 DEF Types, Thread, ThreadType
  <2> QED
    BY <2>1, <2>2
<1>5. Woke(k, k', {})
  BY <1>1, WokeNobody DEF Types
<1>6. "recheck" \in TxLocked \ {"unlockTx"} /\ "recheck" \in Inside /\ pc2 \in TxLocked
  BY DEF TxLocked, Inside
<1>7. CallPc(in) /\ k.cur \in ReadyTasks(k)
  BY <1>1, <1>2, <1>6, AtIs DEF HasBlocked
<1>8. CallPc(in2)
  BY <1>2, <1>3, <1>7 DEF CallPc, Inside
<1>9. \A o \in Object : /\ PhaseOK(th[t].in, in2, o, Receiving, q[o].msgs)
                       /\ PhaseOK(th[t].in, in2, o, Sending, Length[o] - q[o].msgs)
  <2>1. CASE Blocked(t)
    <3> HIDE DEF in2
    <3> QED
      BY <1>1, <1>3, <1>7, <2>1, VainPhases
  <2>2. CASE ~ Blocked(t)
    <3>1. ~ WillLook(in) /\ in2.pc \notin {"inherit", "place"}
      BY <1>2, <1>3, <2>2 DEF WillLook
    <3> HIDE DEF in2
    <3> QED
      BY <1>7, <3>1, PhaseFresh
  <2> QED
    BY <2>1, <2>2
<1> HIDE DEF in2, pc2
<1> QED
  BY <1>1, <1>3, <1>4, <1>5, <1>6, <1>8, <1>9, LocalInside

\* The time is looked at
LEMMA CheckKeeps ==
    ASSUME WInv, NEW t \in Task, xTaskCheckForTimeOut(t)
    PROVE  WInv'
<1> DEFINE in == th[t].in
           in2 == th'[t].in
<1>1. Types /\ At(t, "check") /\ k' = k /\ q' = q
  BY DEF WInv, xTaskCheckForTimeOut
<1>2. in \in ThreadType /\ in.pc = "check" /\ k.cur = t /\ k \in KState
  BY <1>1, ThreadIs DEF At, Types
<1>3. in2 \in ThreadType /\ in2.call = in.call
      /\ (in2.pc = "recheck" \/ (in2.pc = "unlockTx" /\ in2.after = "expired"))
  <2> DEFINE elapsed == (k.tick - in.at) % TickMod
             none == 0
             forever == in.left = portMAX_DELAY
             lapped  == in.wrapped /\ k.tick >= in.at
             a == [in EXCEPT !.pc = "recheck"]
             b == [in EXCEPT !.pc = "unlockTx", !.after = "expired"]
             c == [Restarted(in, elapsed) EXCEPT !.pc = "recheck"]
             d == [in EXCEPT !.pc = "unlockTx", !.after = "expired", !.left = none]
  <2>1. in2 = CASE forever -> a
                [] ~ forever /\ lapped -> b
                [] ~ forever /\ ~ lapped /\ elapsed < in.left -> c
                [] OTHER -> d
    BY <1>1 DEF xTaskCheckForTimeOut, Types
  <2>2. in2 \in {a, b, c, d} /\ (in2 = c => elapsed < in.left \/ in2 = a \/ in2 = b \/ in2 = d)
    <3> HIDE DEF a, b, c, d, forever, lapped, elapsed
    <3> QED
      BY <2>1
  <2>3. none \in 0 .. portMAX_DELAY /\ k.tick \in 0 .. TickMod - 1
    BY <1>2, Numbers, FieldsOf
  <2> HIDE DEF none
  <2>4. /\ a \in ThreadType /\ a.call = in.call /\ a.pc = "recheck"
        /\ b \in ThreadType /\ b.call = in.call /\ b.pc = "unlockTx" /\ b.after = "expired"
        /\ d \in ThreadType /\ d.call = in.call /\ d.pc = "unlockTx" /\ d.after = "expired"
    BY <1>2, <2>3 DEF ThreadType
  <2>5. elapsed < in.left =>
           c \in ThreadType /\ c.call = in.call /\ c.pc = "recheck"
    <3> DEFINE left == in.left - elapsed
    <3>1. elapsed \in Nat
      <4>1. in.at \in Int /\ k.tick \in Int
        <5>1. in.at \in 0 .. TickMod - 1
          BY <1>2 DEF ThreadType
        <5> QED
          BY ONLY <2>3, <5>1
      <4> QED
        BY <4>1, Numbers
    <3>2. elapsed < in.left => left \in 0 .. portMAX_DELAY
      <4>1. in.left \in 0 .. portMAX_DELAY /\ portMAX_DELAY \in Nat
        <5>1. in.left \in 0 .. portMAX_DELAY
          BY <1>2 DEF ThreadType
        <5> QED
          BY <5>1, Numbers
      <4> HIDE DEF elapsed
      <4> QED
        BY <3>1, <4>1
    <3>3. c = [in EXCEPT !.left = left, !.at = k.tick, !.wrapped = FALSE, !.pc = "recheck"]
      BY <1>2 DEF Restarted, ThreadType
    <3> HIDE DEF left, c
    <3> QED
      BY <1>2, <2>3, <3>2, <3>3 DEF ThreadType
  <2> HIDE DEF a, b, c, d, elapsed, in2
  <2> QED
    BY <2>2, <2>4, <2>5
<1>4. th' = [th EXCEPT ![t].in = in2]
  BY <1>1 DEF xTaskCheckForTimeOut, Types, Thread
<1>5. Woke(k, k', {})
  BY <1>1, WokeNobody DEF Types
<1> HIDE DEF in2
<1>6. "check" \in TxLocked \ {"unlockTx"} /\ "check" \in Inside /\ in2.pc \in TxLocked
  BY <1>3 DEF TxLocked, Inside
<1>7. CallPc(in)
  BY <1>1, AtIs
<1>8. CallPc(in2)
  BY <1>2, <1>3, <1>7 DEF CallPc, Inside
<1>9. ~ WillLook(in) /\ ~ WillLook(in2) /\ in.pc \notin {"inherit", "place"}
      /\ in2.pc \notin {"inherit", "place"}
  BY <1>2, <1>3 DEF WillLook
<1>10. \A o \in Object : /\ PhaseOK(th[t].in, in2, o, Receiving, q[o].msgs)
                        /\ PhaseOK(th[t].in, in2, o, Sending, Length[o] - q[o].msgs)
  BY <1>3, <1>9, PhaseSame
<1> QED
  BY <1>1, <1>3, <1>4, <1>5, <1>6, <1>8, <1>10, LocalInside

\* The holder of the mutex gets the priority
LEMMA InheritKeeps ==
    ASSUME WInv, NEW t \in Task, Inherit(t)
    PROVE  WInv'
<1> DEFINE in == th[t].in
           b == Inherits(k, q[Obj(t)].holder)
           in2 == [in EXCEPT !.pc = "place", !.inherited = b]
<1>1. Types /\ At(t, "inherit") /\ q' = q /\ k \in KState
      /\ k' = xTaskPriorityInherit(k, q[Obj(t)].holder)
  BY DEF WInv, Inherit, Types
<1>2. in \in ThreadType /\ in.pc = "inherit" /\ k.cur = t
  BY <1>1, ThreadIs DEF At
<1>3. b \in BOOLEAN
  BY DEF Inherits
<1>4. th' = [th EXCEPT ![t].in = in2]
  BY ZenonT(40), <1>1, <1>2 DEF Inherit, Types, Thread, ThreadType
<1> HIDE DEF b
<1>5. in2 \in ThreadType /\ in2.pc = "place" /\ in2.call = in.call
  BY <1>2, <1>3 DEF ThreadType
<1>6. Woke(k, k', {})
  BY <1>1, Inheriting
<1>7. "inherit" \in TxLocked \ {"unlockTx"} /\ "place" \in TxLocked
  BY DEF TxLocked
<1>8. CallPc(in)
  BY <1>1, AtIs
<1>9. CallPc(in2)
  BY <1>2, <1>5, <1>8 DEF CallPc, Inside
<1>10. ~ WillLook(in) /\ ~ WillLook(in2)
  BY <1>2, <1>5 DEF WillLook
<1> HIDE DEF in2
<1>11. \A o \in Object : /\ PhaseOK(th[t].in, in2, o, Receiving, q[o].msgs)
                        /\ PhaseOK(th[t].in, in2, o, Sending, Length[o] - q[o].msgs)
  BY <1>2, <1>5, <1>10, PhaseSame
<1> QED
  BY <1>1, <1>4, <1>5, <1>6, <1>7, <1>9, <1>11, LocalInside

\* A task that has blocked leaves the processor
LEMMA YieldKeeps ==
    ASSUME WInv, NEW t \in Task, Yield(t)
    PROVE  WInv'
<1> DEFINE in == th[t].in
           in2 == [in EXCEPT !.pc = Again(t)]
<1>1. Types /\ At(t, "yield") /\ q' = q /\ k \in KState /\ k' = portYIELD(k)
  BY DEF WInv, Yield, Types
<1>2. in \in ThreadType /\ in.pc = "yield" /\ k.cur = t
  BY <1>1, ThreadIs DEF At
<1>3. th' = [th EXCEPT ![t].in = in2]
  BY <1>1, <1>2 DEF Yield, Goto, Types, Thread, ThreadType
<1>4. Again(t) \in {"woken", "try"} /\ (Again(t) = "woken" <=> Op(t) = "delay")
  BY DEF Again
<1>5. in2 \in ThreadType /\ in2.pc = Again(t) /\ in2.call = in.call
  BY <1>2, <1>4 DEF ThreadType
<1>6. Woke(k, k', {}) /\ k'.pendSV
  BY <1>1, Yields
<1>7. "yield" \notin Inside /\ in2.pc \notin Inside
  BY <1>4, <1>5 DEF Inside
<1>8. CallPc(in2)
  BY <1>4, <1>5 DEF CallPc, Inside
<1>9. Op(t) \in Queueing => WillLook(in) /\ WillLook(in2)
  BY <1>2, <1>4, <1>5 DEF WillLook, Queueing, Receiving, Sending
<1>10. in2.pc \notin {"inherit", "place"} /\ in.pc \notin {"inherit", "place"}
  BY <1>2, <1>4, <1>5
<1> HIDE DEF in2
<1>11. \A o \in Object : /\ PhaseOK(th[t].in, in2, o, Receiving, q[o].msgs)
                        /\ PhaseOK(th[t].in, in2, o, Sending, Length[o] - q[o].msgs)
  BY <1>5, <1>9, <1>10, PhaseSame DEF Op, Queueing
<1> QED
  BY <1>1, <1>3, <1>5, <1>6, <1>7, <1>8, <1>11, LocalOutside

\* A call returns, or looks for the last time
LEMMA DelayedKeeps ==
    ASSUME WInv, NEW t \in Task, Delayed(t)
    PROVE  WInv'
<1>1. Types /\ At(t, "woken") /\ q' = q /\ k' = k /\ Op(t) = "delay"
      /\ th' = [th EXCEPT ![t].in = Outside]
  BY DEF WInv, Delayed, Return
<1>2. th[t].in.pc = "woken" /\ k.cur = t /\ "woken" \notin Inside /\ Outside.pc = "run"
      /\ "run" \notin Inside
  BY <1>1 DEF At, Inside, Outside
<1>3. Woke(k, k', {})
  BY <1>1, WokeNobody DEF Types
<1>4. ~ WillLook(th[t].in) /\ k.cur \in ReadyTasks(k)
  BY <1>1, <1>2, AtIs DEF WillLook
<1>5. \A o \in Object : /\ PhaseOK(th[t].in, Outside, o, Receiving, q[o].msgs)
                       /\ PhaseOK(th[t].in, Outside, o, Sending, Length[o] - q[o].msgs)
  BY <1>2, <1>4, PhaseFresh
<1> QED
  BY <1>1, <1>2, <1>3, <1>5, OutsideIs, LocalOutside

\* The last look after the time is over
LEMMA ExpiredKeeps ==
    ASSUME WInv, NEW t \in Task, Expired(t)
    PROVE  WInv'
<1> DEFINE in == th[t].in
           pc2 == IF ~ Empty(Obj(t)) THEN "try" ELSE "disinherit"
           in3 == [in EXCEPT !.pc = pc2]
           in2 == IF Empty(Obj(t)) /\ ~ in.inherited THEN Outside ELSE in3
<1>1. Types /\ At(t, "expired") /\ q' = q /\ k' = k
  BY DEF WInv, Expired
<1>2. in \in ThreadType /\ in.pc = "expired" /\ k.cur = t /\ "expired" \notin Inside
  BY <1>1, ThreadIs DEF At, Inside
<1>3. th' = [th EXCEPT ![t].in = in2]
  BY <1>1, <1>2 DEF Expired, Goto, Return, Types, Thread, ThreadType
<1>4. in3 \in ThreadType /\ in3.pc = pc2 /\ in3.call = in.call
  BY <1>2 DEF ThreadType
<1>5. Woke(k, k', {})
  BY <1>1, WokeNobody DEF Types
<1>6. ~ WillLook(in) /\ k.cur \in ReadyTasks(k) /\ CallPc(in)
  BY <1>1, <1>2, AtIs DEF WillLook
<1>7. in2 \in ThreadType /\ CallPc(in2) /\ in2.pc \notin Inside \cup {"inherit", "place"}
  <2>1. CallPc(in3)
    BY <1>2, <1>4, <1>6 DEF CallPc, Inside
  <2>2. Outside.pc = "run"
    BY DEF Outside
  <2> QED
    BY <1>4, <2>1, <2>2, OutsideIs DEF Inside
<1> HIDE DEF in2
<1>8. \A o \in Object : /\ PhaseOK(th[t].in, in2, o, Receiving, q[o].msgs)
                       /\ PhaseOK(th[t].in, in2, o, Sending, Length[o] - q[o].msgs)
  BY <1>6, <1>7, PhaseFresh
<1> QED
  BY <1>1, <1>2, <1>3, <1>5, <1>7, <1>8, LocalOutside

\* The holder is left with the priority it needs, and nobody is woken
LEMMA DisinheritWakes ==
    ASSUME WInv, NEW t \in Task, Disinherit(t)
    PROVE  Woke(k, k', {})
<1>1. Types /\ At(t, "disinherit") /\ k \in KState
      /\ k' = vTaskPriorityDisinheritAfterTimeout(k, q[Obj(t)].holder,
                                                  HighestWaiting(Obj(t)))
  BY DEF WInv, Disinherit, Types
<1>2. th[t].in.pc = "disinherit"
  BY <1>1 DEF At
<1>3. Obj(t) \in Object
  <2>1. CallPc(th[t].in)
    BY <1>1, AtIs
  <2> QED
    BY <1>1, <1>2, <2>1, ThreadIs DEF CallPc, Op
<1>4. HighestWaiting(Obj(t)) \in Priority
  <2>1. q[Obj(t)].recv \in Seq(Task)
    BY <1>1, <1>3, ObjectIs
  <2>2. q[Obj(t)].recv # << >> => Head(q[Obj(t)].recv) \in Task
    BY <2>1
  <2> QED
    BY <1>1, <2>2, FieldsOf, Numbers DEF HighestWaiting
<1> QED
  BY <1>1, <1>4, DisinheritingAfterTimeout

\* That task's call returns
LEMMA DisinheritKeeps ==
    ASSUME WInv, NEW t \in Task, Disinherit(t)
    PROVE  WInv'
<1>1. Types /\ At(t, "disinherit") /\ q' = q /\ k \in KState
      /\ th' = [th EXCEPT ![t].in = Outside]
      /\ k' = vTaskPriorityDisinheritAfterTimeout(k, q[Obj(t)].holder,
                                                  HighestWaiting(Obj(t)))
  BY DEF WInv, Disinherit, Return, Types
<1>2. th[t].in.pc = "disinherit" /\ k.cur = t /\ "disinherit" \notin Inside
      /\ Outside.pc = "run" /\ "run" \notin Inside /\ "disinherit" # "woken"
      /\ "disinherit" # "yield"
  BY <1>1 DEF At, Inside, Outside
<1>3. Woke(k, k', {})
  BY DisinheritWakes
<1>4. ~ WillLook(th[t].in) /\ k.cur \in ReadyTasks(k)
  BY <1>1, <1>2, AtIs DEF WillLook
<1>5. \A o \in Object : /\ PhaseOK(th[t].in, Outside, o, Receiving, q[o].msgs)
                       /\ PhaseOK(th[t].in, Outside, o, Sending, Length[o] - q[o].msgs)
  BY <1>2, <1>4, PhaseFresh
<1> QED
  BY <1>1, <1>2, <1>3, <1>5, OutsideIs, LocalOutside

\* ulTaskNotifyTake returns
LEMMA NotifiedKeeps ==
    ASSUME WInv, NEW t \in Task, Notified(t)
    PROVE  WInv'
<1> DEFINE none == 0
           x == [th[t] EXCEPT !.in = Outside, !.notified = none, !.waiting = FALSE]
<1>1. Types /\ At(t, "woken") /\ q' = q /\ k' = k /\ Op(t) = "notifyTake"
  BY DEF WInv, Notified
<1>2. th' = [th EXCEPT ![t] = x]
  BY <1>1 DEF Notified, Types, Thread
<1>3. th[t].in.pc = "woken" /\ k.cur = t /\ "woken" \notin Inside /\ Outside.pc = "run"
      /\ "run" \notin Inside /\ "run" \notin TxLocked /\ "run" \notin RxLocked
      /\ "woken" \notin TxLocked /\ "woken" \notin RxLocked
  BY <1>1 DEF At, Inside, Outside, TxLocked, RxLocked
<1>4. Woke(k, k', {})
  BY <1>1, WokeNobody DEF Types
<1>5. ~ WillLook(th[t].in) /\ k.cur \in ReadyTasks(k) /\ ~ k.suspended
  BY <1>1, <1>3, AtIs DEF WillLook
<1>6. none \in 0 .. MaxNotified
  BY KernelAssumption
<1> HIDE DEF none
<1>7. x \in Thread /\ x.in = Outside /\ x.waiting = FALSE
  BY <1>1, <1>6, OutsideIs DEF Types, Thread
<1> HIDE DEF x
<1>8. /\ th' \in [Task -> Thread] /\ th'[t].in = Outside /\ ~ th'[t].waiting
      /\ \A u \in Task : u # t => th'[u] = th[u]
  BY <1>1, <1>2, <1>7 DEF Types
<1>9. \A o \in Object : /\ PhaseOK(th[t].in, Outside, o, Receiving, q[o].msgs)
                       /\ PhaseOK(th[t].in, Outside, o, Sending, Length[o] - q[o].msgs)
  BY <1>3, <1>5, PhaseFresh
<1>10. ControlMoves(t, Outside, {})
  BY <1>3, <1>4, <1>5, <1>8, OutsideIs DEF ControlMoves
<1>11. LocalMoves(t, Outside)
  BY <1>1, <1>3, <1>8, <1>9, <1>10 DEF LocalMoves
<1> QED
  BY <1>11, LocalStep

---------------------------------------------------------------------------
(* Steps that change an object *)

\* A side of which the tasks of W are woken, while t goes on in its call
Freed(r, h, o, ops, list, n, lock, s, g, list2, n2, lock2, t, W) ==
    /\ list \in Seq(Task) /\ n \in Int /\ lock \in UNLOCKED .. MaxLock
    /\ list2 \in Seq(Task) /\ n2 \in Int /\ lock2 \in UNLOCKED .. MaxLock
    /\ t \in Task /\ W \in SUBSET Task /\ W \subseteq In(list) /\ W \subseteq AwakeTasks(s)
    /\ Once(list2) /\ In(list2) = In(list) \ W /\ In(list2) \cap AwakeTasks(s) = {}
    /\ \A u \in Task : /\ u # t => Phase(g[u].in, o, ops) = Phase(h[u].in, o, ops)
                       /\ u \in AwakeTasks(r) => u \in AwakeTasks(s)
                       /\ Phase(g[u].in, o, ops) = "about" => n2 <= Count(lock2)
    /\ LET p == Phase(h[t].in, o, ops)  p2 == Phase(g[t].in, o, ops)
       IN  /\ p2 = p \/ t \in AwakeTasks(r)
           /\ list2 # << >> => n2 - Count(lock2) + Used(p, p2)
                                  <= n - Count(lock) + Cardinality(W)

\* and the side stays in order
LEMMA SideFreed ==
    ASSUME NEW r, NEW h, NEW o, NEW ops, NEW list, NEW n, NEW lock,
           NEW s, NEW g, NEW list2, NEW n2, NEW lock2, NEW t, NEW W,
           SideOf(r, h, o, ops, list, n, lock),
           Freed(r, h, o, ops, list, n, lock, s, g, list2, n2, lock2, t, W)
    PROVE  SideOf(s, g, o, ops, list2, n2, lock2)
<1> DEFINE ph == Phases(h, o, ops)  ph2 == Phases(g, o, ops)
           aw == AwakeTasks(r)  aw2 == AwakeTasks(s)
           c == Count(lock)  c2 == Count(lock2)
           p == Phase(h[t].in, o, ops)  p2 == Phase(g[t].in, o, ops)
<1>1. /\ list \in Seq(Task) /\ n \in Int /\ lock \in UNLOCKED .. MaxLock
      /\ list2 \in Seq(Task) /\ n2 \in Int /\ lock2 \in UNLOCKED .. MaxLock
      /\ t \in Task /\ W \in SUBSET Task /\ W \subseteq In(list) /\ W \subseteq aw2
      /\ Once(list2) /\ In(list2) = In(list) \ W /\ In(list2) \cap aw2 = {}
  BY DEF Freed
<1>2. \A u \in Task : /\ u # t => Phase(g[u].in, o, ops) = Phase(h[u].in, o, ops)
                      /\ u \in aw => u \in aw2
                      /\ Phase(g[u].in, o, ops) = "about" => n2 <= c2
  BY DEF Freed
<1>3. /\ p2 = p \/ t \in aw
      /\ list2 # << >> => n2 - c2 + Used(p, p2) <= n - c + Cardinality(W)
  BY DEF Freed
<1>4. c \in Nat /\ c2 \in Nat
  BY <1>1, CountIs
<1>5. /\ \A u \in Task : u # t => ph2[u] = ph[u] /\ (u \in aw => u \in aw2)
      /\ \A u \in Task : ph2[u] = "about" => n2 <= c2
      /\ ph[t] = p /\ ph2[t] = p2
  BY <1>1, <1>2 DEF Phases
<1>6. Side(ph, aw, list, n, c)
  BY DEF SideOf
<1>7. t \in aw => t \in aw2
  BY <1>1, <1>2
<1> HIDE DEF ph, ph2, aw, aw2, c, c2, p, p2
<1>8. /\ \/ ph2[t] = ph[t] /\ (ph[t] = "out" \/ t \notin aw \/ t \in aw2)
         \/ t \in aw /\ (ph2[t] = "out" \/ t \in aw2)
      /\ list2 # << >> => \/ n2 - c2 + Used(ph[t], ph2[t]) <= n - c + Cardinality(W)
                          \/ n2 <= c2
  BY <1>3, <1>5, <1>7
<1>9. SideMoves(ph, aw, list, n, c, ph2, aw2, list2, n2, c2, t, W)
  BY ONLY <1>1, <1>4, <1>5, <1>8 DEF SideMoves
<1>10. Side(ph2, aw2, list2, n2, c2)
  BY ONLY <1>6, <1>9, SideStep
<1> QED
  BY <1>10 DEF SideOf, ph2, aw2, c2

\* The first of the list is woken
WakesOne(r, h, o, ops, list, n, lock, s, g, n2, t) ==
    /\ list \in Seq(Task) /\ n \in Int /\ lock \in UNLOCKED .. MaxLock /\ n2 \in Int
    /\ t \in Task
    /\ AwakeTasks(s) = AwakeTasks(r) \cup First(list)
    /\ \A u \in Task : /\ u # t => Phase(g[u].in, o, ops) = Phase(h[u].in, o, ops)
                       /\ Phase(g[u].in, o, ops) # "about"
    /\ LET p == Phase(h[t].in, o, ops)  p2 == Phase(g[t].in, o, ops)
       IN  /\ p2 = p \/ t \in AwakeTasks(r)
           /\ n2 + Used(p, p2) <= n + 1

\* and the side stays in order
LEMMA SideWoken ==
    ASSUME NEW r, NEW h, NEW o, NEW ops, NEW list, NEW n, NEW lock,
           NEW s, NEW g, NEW n2, NEW t,
           SideOf(r, h, o, ops, list, n, lock),
           WakesOne(r, h, o, ops, list, n, lock, s, g, n2, t)
    PROVE  SideOf(s, g, o, ops, Rest(list), n2, lock)
<1> DEFINE p == Phase(h[t].in, o, ops)  p2 == Phase(g[t].in, o, ops)
           W == First(list)  list2 == Rest(list)  d == Used(p, p2)
           x == Cardinality(W)  c == Count(lock)
<1>1. /\ list \in Seq(Task) /\ n \in Int /\ lock \in UNLOCKED .. MaxLock /\ n2 \in Int
      /\ t \in Task /\ AwakeTasks(s) = AwakeTasks(r) \cup W
      /\ \A u \in Task : /\ u # t => Phase(g[u].in, o, ops) = Phase(h[u].in, o, ops)
                         /\ Phase(g[u].in, o, ops) # "about"
      /\ p2 = p \/ t \in AwakeTasks(r)
      /\ n2 + d <= n + 1
  BY DEF WakesOne
<1>2. Once(list)
  BY DEF SideOf, Side
<1>3. list2 \in Seq(Task) /\ Once(list2) /\ In(list2) = In(list) \ W
  <2>1. CASE list = << >>
    BY <1>1, <1>2, <2>1 DEF Rest, First
  <2>2. CASE list # << >>
    <3>1. Tail(list) \in Seq(Task) /\ Once(Tail(list)) /\ In(Tail(list)) = In(list) \ {Head(list)}
      BY <1>1, <1>2, <2>2, Shifted
    <3> QED
      BY <2>2, <3>1 DEF Rest, First
  <2> QED
    BY <2>1, <2>2
<1>4. W \subseteq In(list) /\ W \in SUBSET Task
  BY <1>1, FirstIs
<1>5. In(list2) \cap AwakeTasks(s) = {}
  <2>1. \A u \in In(list) : u \notin AwakeTasks(r)
    BY <1>1, InListOf
  <2> QED
    BY <1>1, <1>3, <2>1
<1>6. list2 # << >> => x = 1
  BY FS_Singleton DEF Rest, First
<1>7. c \in Nat /\ d \in {0, 1}
  BY <1>1, CountIs DEF Used
<1> HIDE DEF d, x, c, list2, W
<1>8. list2 # << >> => n2 - c + d <= n - c + x
  BY ONLY <1>1, <1>6, <1>7
<1>9. W \subseteq AwakeTasks(s) /\ \A u \in Task : u \in AwakeTasks(r) => u \in AwakeTasks(s)
  BY <1>1
<1>10. Freed(r, h, o, ops, list, n, lock, s, g, list2, n2, lock, t, W)
  BY <1>1, <1>3, <1>4, <1>5, <1>8, <1>9 DEF Freed, d, x, c
<1>11. SideOf(s, g, o, ops, list2, n2, lock)
  BY ONLY <1>10, SideFreed, SideOf(r, h, o, ops, list, n, lock)
<1> QED
  BY <1>11 DEF list2

\* The list stays
Stays(r, h, o, ops, list, n, lock, s, g, n2, lock2, t) ==
    /\ list \in Seq(Task) /\ n \in Int /\ lock \in UNLOCKED .. MaxLock
    /\ n2 \in Int /\ lock2 \in UNLOCKED .. MaxLock /\ t \in Task
    /\ In(list) \cap AwakeTasks(s) = {}
    /\ \A u \in Task : /\ u # t => Phase(g[u].in, o, ops) = Phase(h[u].in, o, ops)
                       /\ u \in AwakeTasks(r) => u \in AwakeTasks(s)
                       /\ Phase(g[u].in, o, ops) = "about" => n2 <= Count(lock2)
    /\ LET p == Phase(h[t].in, o, ops)  p2 == Phase(g[t].in, o, ops)
       IN  /\ p2 = p \/ t \in AwakeTasks(r)
           /\ n2 - Count(lock2) + Used(p, p2) <= n - Count(lock)

\* and the side stays in order
LEMMA SideStays ==
    ASSUME NEW r, NEW h, NEW o, NEW ops, NEW list, NEW n, NEW lock,
           NEW s, NEW g, NEW n2, NEW lock2, NEW t,
           SideOf(r, h, o, ops, list, n, lock),
           Stays(r, h, o, ops, list, n, lock, s, g, n2, lock2, t)
    PROVE  SideOf(s, g, o, ops, list, n2, lock2)
<1> DEFINE W == {}  x == Cardinality(W)
           p == Phase(h[t].in, o, ops)  p2 == Phase(g[t].in, o, ops)
           d == Used(p, p2)  c == Count(lock)  c2 == Count(lock2)
<1>1. Once(list) /\ In(list) = In(list) \ W /\ W \in SUBSET Task /\ W \subseteq In(list)
      /\ W \subseteq AwakeTasks(s) /\ x = 0
  BY FS_EmptySet DEF SideOf, Side
<1>2. n \in Int /\ n2 \in Int /\ n2 - c2 + d <= n - c
  BY DEF Stays
<1>3. c \in Nat /\ c2 \in Nat /\ d \in {0, 1}
  BY CountIs DEF Stays, Used
<1> HIDE DEF W, x, d, c, c2
<1>4. n2 - c2 + d <= n - c + x
  BY ONLY <1>1, <1>2, <1>3
<1>5. Freed(r, h, o, ops, list, n, lock, s, g, list, n2, lock2, t, W)
  BY <1>1, <1>4 DEF Stays, Freed, d, x, c, c2
<1> QED
  BY ONLY <1>5, SideFreed, SideOf(r, h, o, ops, list, n, lock)

\* Who is in the lists of an object
LEMMA ListsOf ==
    ASSUME WInv, NEW o \in Object
    PROVE  /\ \A u \in In(q[o].recv) :
                 /\ u \in Task /\ u \notin AwakeTasks(k) /\ WillLook(th[u].in)
                 /\ th[u].in.call.obj = o /\ th[u].in.call.op \in Receiving
           /\ \A u \in In(q[o].send) :
                 /\ u \in Task /\ u \notin AwakeTasks(k) /\ WillLook(th[u].in)
                 /\ th[u].in.call.obj = o /\ th[u].in.call.op \in Sending
<1>1. Types /\ Recv(k, th, o, q[o]) /\ Snd(k, th, o, q[o])
  BY DEF WInv, Sides
<1>2. q[o].recv \in Seq(Task) /\ q[o].send \in Seq(Task)
  BY <1>1, ObjectIs
<1>3. SideOf(k, th, o, Receiving, q[o].recv, q[o].msgs, q[o].txLock)
  BY <1>1 DEF Recv
<1>4. SideOf(k, th, o, Sending, q[o].send, Length[o] - q[o].msgs, q[o].rxLock)
  BY <1>1 DEF Snd
<1>5. ASSUME NEW ops, NEW list, list \in Seq(Task), NEW n, NEW lock,
             SideOf(k, th, o, ops, list, n, lock), NEW u, u \in In(list)
      PROVE  /\ u \in Task /\ u \notin AwakeTasks(k) /\ WillLook(th[u].in)
             /\ th[u].in.call.obj = o /\ th[u].in.call.op \in ops
  <2>1. u \in Task
    BY <1>5 DEF In
  <2>2. Phases(th, o, ops)[u] = "look" /\ u \notin AwakeTasks(k)
    BY <1>5 DEF SideOf, Side
  <2>3. Phase(th[u].in, o, ops) = "look"
    BY <2>1, <2>2 DEF Phases
  <2> QED
    BY <2>1, <2>2, <2>3, PhaseIs
<1>6. \A u \in In(q[o].recv) :
         /\ u \in Task /\ u \notin AwakeTasks(k) /\ WillLook(th[u].in)
         /\ th[u].in.call.obj = o /\ th[u].in.call.op \in Receiving
  BY ONLY <1>2, <1>3, <1>5
<1>7. \A u \in In(q[o].send) :
         /\ u \in Task /\ u \notin AwakeTasks(k) /\ WillLook(th[u].in)
         /\ th[u].in.call.obj = o /\ th[u].in.call.op \in Sending
  BY ONLY <1>2, <1>4, <1>5
<1> QED
  BY <1>6, <1>7

\* The running task's call goes on as in2 says, o becomes x2 and the tasks of
\* ts are woken, from its lists
ObjectMoves(t, in2, o, x2, ts) ==
    /\ ControlMoves(t, in2, ts) /\ LockedBy'
    /\ th' \in [Task -> Thread]
    /\ o \in Object /\ x2 \in QState(o) /\ q' = [q EXCEPT ![o] = x2]
    /\ ts \subseteq In(q[o].recv) \cup In(q[o].send)
    /\ Recv(k', th', o, x2) /\ Snd(k', th', o, x2)
    /\ \A o2 \in Object : o2 # o =>
          /\ Phase(in2, o2, Receiving) = Phase(th[t].in, o2, Receiving)
          /\ Phase(in2, o2, Sending) = Phase(th[t].in, o2, Sending)

\* and the invariant is kept
LEMMA ObjectStep ==
    ASSUME WInv, NEW t, NEW in2, NEW o, NEW x2, NEW ts, ObjectMoves(t, in2, o, x2, ts)
    PROVE  WInv'
<1>1. /\ t \in Task /\ t = k.cur /\ Woke(k, k', ts) /\ k' \in KState
      /\ th'[t].in = in2 /\ \A u \in Task : u # t => th'[u] = th[u]
      /\ o \in Object
  BY DEF ObjectMoves, ControlMoves, Woke
<1>2. DOMAIN q' = Object /\ q'[o] = x2 /\ \A o2 \in Object : o2 # o => q'[o2] = q[o2]
  BY DEF ObjectMoves, WInv, Types
<1>3. Types'
  <2>1. \A o2 \in Object : q'[o2] \in QState(o2)
    BY <1>1, <1>2 DEF ObjectMoves, WInv, Types
  <2>2. th' \in [Task -> Thread]
    BY DEF ObjectMoves
  <2> QED
    BY <1>1, <1>2, <2>1, <2>2 DEF Types, QState
<1>4. Control'
  BY ControlStep DEF ObjectMoves, WInv
<1>5. LockedBy'
  BY DEF ObjectMoves
<1>6. Sides'
  <2>1. ASSUME NEW o2 \in Object, o2 # o
        PROVE  Recv(k', th', o2, q[o2]) /\ Snd(k', th', o2, q[o2])
    <3>1. PhaseOK(th[t].in, th'[t].in, o2, Receiving, q[o2].msgs)
      BY <1>1, <2>1 DEF ObjectMoves, PhaseOK
    <3>2. PhaseOK(th[t].in, th'[t].in, o2, Sending, Length[o2] - q[o2].msgs)
      BY <1>1, <2>1 DEF ObjectMoves, PhaseOK
    <3>3. \A u \in ts : u \notin In(q[o2].recv) /\ u \notin In(q[o2].send)
      <4>1. \A u \in In(q[o].recv) \cup In(q[o].send) : th[u].in.call.obj = o
        BY <1>1, ListsOf
      <4>2. \A u \in In(q[o2].recv) \cup In(q[o2].send) : th[u].in.call.obj = o2
        BY <2>1, ListsOf
      <4> QED
        BY <2>1, <4>1, <4>2 DEF ObjectMoves
    <3> QED
      BY <1>1, <3>1, <3>2, <3>3, SidesQuiet
  <2>2. Recv(k', th', o, x2) /\ Snd(k', th', o, x2)
    BY DEF ObjectMoves
  <2> QED
    BY <1>2, <2>1, <2>2 DEF Sides
<1> QED
  BY <1>3, <1>4, <1>5, <1>6 DEF WInv

---------------------------------------------------------------------------
(* The calls that find what they want *)

\* The call of t returns: it was a looker of the side it belongs to
LEMMA TryPhases ==
    ASSUME WInv, NEW t \in Task, At(t, "try"), Return(t),
           NEW o, NEW ops, "none" \notin ops
    PROVE  /\ t \in AwakeTasks(k)
           /\ \A u \in Task :
                 /\ u # t => Phase(th'[u].in, o, ops) = Phase(th[u].in, o, ops)
                 /\ Phase(th'[u].in, o, ops) # "about"
           /\ Phase(th'[t].in, o, ops) = "out"
           /\ Phase(th[t].in, o, ops) = "look" <=> (Obj(t) = o /\ Op(t) \in ops)
<1>1. Types
  BY DEF WInv
<1>2. th'[t].in = Outside /\ \A u \in Task : u # t => th'[u] = th[u]
  BY <1>1, OutsideIs, GoesOn DEF Return
<1>3. /\ t = k.cur /\ th[t].in.pc = "try" /\ t \in ReadyTasks(k)
      /\ \A u \in Task : th[u].in.pc \notin Inside
  BY AtIs DEF Inside
<1>4. Outside.call.op = "none"
  BY DEF Outside, NoCall
<1>5. Phase(th'[t].in, o, ops) = "out"
  BY <1>2, <1>4, PhaseIs
<1>6. Phase(th[t].in, o, ops) = IF Obj(t) = o /\ Op(t) \in ops THEN "look" ELSE "out"
  BY <1>3 DEF Phase, WillLook, Obj, Op
<1>7. ASSUME NEW u \in Task, u # t
      PROVE  /\ Phase(th'[u].in, o, ops) = Phase(th[u].in, o, ops)
             /\ Phase(th'[u].in, o, ops) # "about"
  BY <1>2, <1>3, <1>7 DEF Phase, Inside
<1> QED
  BY <1>3, <1>5, <1>6, <1>7 DEF AwakeTasks

\* and what becomes of the two sides of the object
LEMMA TryWakes ==
    ASSUME WInv, NEW t, t \in Task, At(t, "try"), Return(t),
           NEW o, NEW ops, "none" \notin ops,
           NEW list, list \in Seq(Task), NEW n, n \in Int, NEW n2, n2 \in Int,
           NEW lock, lock \in UNLOCKED .. MaxLock,
           AwakeTasks(k') = AwakeTasks(k) \cup First(list),
           n2 + (IF Obj(t) = o /\ Op(t) \in ops THEN 1 ELSE 0) <= n + 1
    PROVE  WakesOne(k, th, o, ops, list, n, lock, k', th', n2, t)
<1>1. /\ t \in AwakeTasks(k)
      /\ \A u \in Task :
            /\ u # t => Phase(th'[u].in, o, ops) = Phase(th[u].in, o, ops)
            /\ Phase(th'[u].in, o, ops) # "about"
      /\ Phase(th'[t].in, o, ops) = "out"
      /\ Phase(th[t].in, o, ops) = "look" <=> (Obj(t) = o /\ Op(t) \in ops)
  BY TryPhases
<1>2. Used(Phase(th[t].in, o, ops), Phase(th'[t].in, o, ops))
         = IF Obj(t) = o /\ Op(t) \in ops THEN 1 ELSE 0
  BY <1>1 DEF Used
<1>3. n2 + Used(Phase(th[t].in, o, ops), Phase(th'[t].in, o, ops)) <= n + 1
  BY <1>2
<1> QED
  BY <1>1, <1>3 DEF WakesOne

\* one whose list stays
LEMMA TryStays ==
    ASSUME WInv, NEW t, t \in Task, At(t, "try"), Return(t),
           NEW o, NEW ops, "none" \notin ops,
           NEW list, list \in Seq(Task), NEW n, n \in Int, NEW n2, n2 \in Int,
           NEW lock, lock \in UNLOCKED .. MaxLock,
           AwakeTasks(k) \subseteq AwakeTasks(k'), In(list) \cap AwakeTasks(k') = {},
           n2 + (IF Obj(t) = o /\ Op(t) \in ops THEN 1 ELSE 0) <= n
    PROVE  Stays(k, th, o, ops, list, n, lock, k', th', n2, lock, t)
<1> DEFINE c == Count(lock)  d == Used(Phase(th[t].in, o, ops), Phase(th'[t].in, o, ops))
<1>1. /\ t \in AwakeTasks(k)
      /\ \A u \in Task :
            /\ u # t => Phase(th'[u].in, o, ops) = Phase(th[u].in, o, ops)
            /\ Phase(th'[u].in, o, ops) # "about"
      /\ Phase(th'[t].in, o, ops) = "out"
      /\ Phase(th[t].in, o, ops) = "look" <=> (Obj(t) = o /\ Op(t) \in ops)
  BY ZenonT(40), TryPhases
<1>2. d = IF Obj(t) = o /\ Op(t) \in ops THEN 1 ELSE 0
  BY <1>1 DEF Used
<1>3. c \in Nat /\ d \in Int /\ n2 + d <= n
  BY <1>2, CountIs
<1> HIDE DEF c, d
<1>4. n2 - c + d <= n - c
  BY <1>3
<1>5. \A u \in Task : u \in AwakeTasks(k) => u \in AwakeTasks(k')
  OBVIOUS
<1> QED
  BY <1>1, <1>4, <1>5 DEF Stays, c, d

\* and of the state
LEMMA TryStep ==
    ASSUME WInv, NEW t \in Task, At(t, "try"), Obj(t) \in Object,
           th' = [th EXCEPT ![t].in = Outside],
           NEW x2, x2 \in QState(Obj(t)), q' = [q EXCEPT ![Obj(t)] = x2],
           x2.txLock = q[Obj(t)].txLock, x2.rxLock = q[Obj(t)].rxLock,
           NEW ts, Woke(k, k', ts), ts \subseteq In(q[Obj(t)].recv) \cup In(q[Obj(t)].send),
           Recv(k', th', Obj(t), x2), Snd(k', th', Obj(t), x2)
    PROVE  WInv'
<1>1. Types
  BY DEF WInv
<1>2. /\ th' \in [Task -> Thread] /\ th'[t].in = Outside
      /\ \A u \in Task : u # t => th'[u] = th[u]
      /\ th'[t].waiting = th[t].waiting
  BY <1>1, OutsideIs, GoesOn
<1>3. "try" \notin Inside /\ "run" \notin Inside /\ Outside.pc = "run"
      /\ "run" \notin TxLocked /\ "run" \notin RxLocked /\ Outside.call.op = "none"
  BY DEF Inside, TxLocked, RxLocked, Outside, NoCall
<1>4. /\ t = k.cur /\ th[t].in.pc = "try" /\ ~ k.suspended /\ ~ th[t].waiting
      /\ t \in ReadyTasks(k)
      /\ \A o \in Object : q[o].txLock = UNLOCKED /\ q[o].rxLock = UNLOCKED
  BY <1>3, AtIs
<1>5. \A u \in ts : u \notin AwakeTasks(k)
  BY ListsOf
<1>6. ControlMoves(t, Outside, ts)
  BY <1>2, <1>3, <1>4, <1>5, OutsideIs DEF ControlMoves, AwakeTasks
<1>7. LockedBy'
  <2>1. \A o \in Object : q'[o].txLock = UNLOCKED /\ q'[o].rxLock = UNLOCKED
    BY <1>1, <1>4 DEF Types
  <2>2. k'.cur = t
    BY <1>4 DEF Woke
  <2> QED
    BY <1>2, <1>3, <2>1, <2>2 DEF LockedBy
<1>8. ASSUME NEW o2 \in Object, o2 # Obj(t), NEW ops, "none" \notin ops
      PROVE  Phase(Outside, o2, ops) = Phase(th[t].in, o2, ops)
  BY <1>3, <1>8 DEF Phase, Obj
<1>9. "none" \notin Receiving /\ "none" \notin Sending
  BY DEF Receiving, Sending
<1>10. ObjectMoves(t, Outside, Obj(t), x2, ts)
  BY <1>2, <1>6, <1>7, <1>8, <1>9 DEF ObjectMoves
<1> QED
  BY <1>10, ObjectStep

\* An item is sent, or a mutex given back
LEMMA SendKeeps ==
    ASSUME WInv, NEW t \in Task, Send(t)
    PROVE  WInv'
<1> DEFINE o == Obj(t)
           mutex == Type[o] = "mutex"
           k1 == IF mutex THEN xTaskPriorityDisinherit(k) ELSE k
           list == q[o].recv
           n == q[o].msgs
           n2 == n + 1
           rest == Rest(list)
           x2 == [q[o] EXCEPT !.msgs = n2, !.recv = rest, !.holder = NULL]
           ts == First(list)
<1>1. Types /\ At(t, "try") /\ k \in KState /\ Op(t) = "send" /\ ~ Full(o)
      /\ th' = [th EXCEPT ![t].in = Outside] /\ Return(t)
  BY DEF WInv, Types, Send, Return
<1>2. o \in Object
  BY <1>1, ThreadIs DEF Queueing, Sending
<1>3. /\ list \in Seq(Task) /\ q[o].send \in Seq(Task) /\ n \in Nat /\ n <= Length[o]
      /\ Length[o] \in Nat /\ q[o] \in QState(o)
      /\ q[o].txLock \in UNLOCKED .. MaxLock /\ q[o].rxLock \in UNLOCKED .. MaxLock
  BY <1>1, <1>2, ObjectIs
<1>4. k' = IF list = << >> /\ mutex /\ Disinherits(k) THEN portYIELD(k1) ELSE WakeFirst(k1, list)
  BY DEF Send
<1>5. q' = [q EXCEPT ![o] = x2]
  BY <1>1, <1>2, <1>3 DEF Send, Types, QState
<1>6. Woke(k, k', ts) /\ ts \subseteq In(list) /\ ts \in SUBSET Task
  <2>1. Woke(k, k1, {})
    BY <1>1, Disinheriting, WokeNobody
  <2>2. k1 \in KState
    BY <2>1 DEF Woke
  <2> HIDE DEF k1
  <2>3. CASE list = << >> /\ mutex /\ Disinherits(k)
    <3>1. Woke(k1, k', {})
      BY <1>4, <2>2, <2>3, Yields
    <3>2. Woke(k, k', {} \cup {})
      BY <1>1, <2>1, <3>1, WokeTwice
    <3>3. ts = {}
      BY <2>3 DEF First
    <3> QED
      BY <3>2, <3>3
  <2>4. CASE ~ (list = << >> /\ mutex /\ Disinherits(k))
    <3>1. Woke(k1, k', ts)
      BY <1>3, <1>4, <2>2, <2>4, WakesFirst
    <3>2. Woke(k, k', {} \cup ts)
      BY <1>1, <2>1, <3>1, WokeTwice
    <3> QED
      BY <1>3, <3>2, FirstIs
  <2> QED
    BY <2>3, <2>4
<1>7. n2 \in 0 .. Length[o]
  BY <1>2, <1>3, <1>1 DEF Full
<1>8. rest \in Seq(Task)
  BY <1>3 DEF Rest
<1> HIDE DEF n2, rest
<1>9. /\ x2 \in QState(o) /\ x2.msgs = n2 /\ x2.recv = rest /\ x2.send = q[o].send
      /\ x2.txLock = q[o].txLock /\ x2.rxLock = q[o].rxLock
  BY <1>3, <1>7, <1>8 DEF QState
<1> HIDE DEF x2
<1>10. Recv(k, th, o, q[o]) /\ Snd(k, th, o, q[o])
  BY <1>2 DEF WInv, Sides
<1>11. AwakeTasks(k') = AwakeTasks(k) \cup ts
  BY <1>6, AwakeAfter
<1>12. "none" \notin Receiving /\ "none" \notin Sending /\ Op(t) \notin Receiving
       /\ Op(t) \in Sending
  BY <1>1 DEF Receiving, Sending
<1>13. Recv(k', th', o, x2)
  <2>1. WakesOne(k, th, o, Receiving, list, n, q[o].txLock, k', th', n2, t)
    <3>1. n2 + (IF Obj(t) = o /\ Op(t) \in Receiving THEN 1 ELSE 0) <= n + 1
          /\ n2 \in Int /\ n \in Int
      BY <1>3, <1>12 DEF n2
    <3> HIDE DEF o, list, n
    <3> QED
      BY <1>1, <1>3, <1>11, <1>12, <3>1, TryWakes
  <2>2. SideOf(k, th, o, Receiving, list, n, q[o].txLock)
    BY <1>10 DEF Recv
  <2> QED
    BY <1>9, <2>1, <2>2, SideWoken DEF Recv, rest
<1>14. Snd(k', th', o, x2)
  <2> DEFINE m == Length[o] - n  m2 == Length[o] - n2
  <2>1. m \in Int /\ m2 \in Int /\ m2 = m - 1
    BY <1>3 DEF n2
  <2>2. In(q[o].send) \cap AwakeTasks(k') = {}
    <3>1. \A u \in ts : th[u].in.call.op \in Receiving
      BY <1>2, <1>6, ListsOf
    <3>2. \A u \in In(q[o].send) : u \notin AwakeTasks(k) /\ th[u].in.call.op \notin Receiving
      BY <1>2, ListsOf DEF Receiving, Sending
    <3> QED
      BY <1>11, <3>1, <3>2
  <2> HIDE DEF m, m2
  <2>3. Stays(k, th, o, Sending, q[o].send, m, q[o].rxLock, k', th', m2, q[o].rxLock, t)
    <3>1. m2 + (IF Obj(t) = o /\ Op(t) \in Sending THEN 1 ELSE 0) <= m
      BY <1>12, <2>1
    <3>2. AwakeTasks(k) \subseteq AwakeTasks(k')
      BY <1>11
    <3> HIDE DEF o, list, n
    <3> QED
      BY <1>1, <1>3, <1>12, <2>1, <2>2, <3>1, <3>2, TryStays
  <2>4. SideOf(k, th, o, Sending, q[o].send, m, q[o].rxLock)
    BY <1>10 DEF Snd, m
  <2> QED
    BY <1>9, <2>3, <2>4, SideStays DEF Snd, m2
<1> HIDE DEF ts
<1> QED
  BY <1>1, <1>2, <1>5, <1>6, <1>9, <1>13, <1>14, TryStep

\* An item is taken, or a mutex
LEMMA ReceiveKeeps ==
    ASSUME WInv, NEW t \in Task, Receive(t)
    PROVE  WInv'
<1> DEFINE o == Obj(t)
           mutex == Type[o] = "mutex"
           k1 == pvTaskIncrementMutexHeldCount(k, mutex)
           list == q[o].send
           n == q[o].msgs
           n2 == n - 1
           rest == Rest(list)
           h == IF mutex THEN t ELSE NULL
           x2 == [q[o] EXCEPT !.msgs = n2, !.send = rest, !.holder = h]
           ts == First(list)
<1>1. Types /\ At(t, "try") /\ k \in KState /\ Op(t) \in {"receive", "take"} /\ ~ Empty(o)
      /\ th' = [th EXCEPT ![t].in = Outside] /\ Return(t)
  BY DEF WInv, Types, Receive, Return
<1>2. o \in Object
  BY <1>1, ThreadIs DEF Queueing, Receiving
<1>3. /\ list \in Seq(Task) /\ q[o].recv \in Seq(Task) /\ n \in Nat /\ n <= Length[o]
      /\ Length[o] \in Nat /\ q[o] \in QState(o)
      /\ q[o].txLock \in UNLOCKED .. MaxLock /\ q[o].rxLock \in UNLOCKED .. MaxLock
  BY <1>1, <1>2, ObjectIs
<1>4. k' = WakeFirst(k1, list)
  BY DEF Receive
<1>5. q' = [q EXCEPT ![o] = x2]
  BY <1>1, <1>2, <1>3 DEF Receive, Types, QState
<1>6. Woke(k, k', ts) /\ ts \subseteq In(list) /\ ts \in SUBSET Task
  <2>1. Woke(k, k1, {})
    <3>1. mutex \in BOOLEAN
      OBVIOUS
    <3> HIDE DEF mutex
    <3> QED
      BY <1>1, <3>1, CountsMutex
  <2>2. k1 \in KState
    BY <2>1 DEF Woke
  <2> HIDE DEF k1
  <2>3. Woke(k1, k', ts)
    BY <1>3, <1>4, <2>2, WakesFirst
  <2>4. Woke(k, k', {} \cup ts)
    BY <1>1, <2>1, <2>3, WokeTwice
  <2> QED
    BY <1>3, <2>4, FirstIs
<1>7. n2 \in 0 .. Length[o] /\ h \in Task \cup {NULL}
  BY <1>2, <1>3, <1>1 DEF Empty
<1>8. rest \in Seq(Task)
  BY <1>3 DEF Rest
<1> HIDE DEF n2, rest, h
<1>9. /\ x2 \in QState(o) /\ x2.msgs = n2 /\ x2.send = rest /\ x2.recv = q[o].recv
      /\ x2.txLock = q[o].txLock /\ x2.rxLock = q[o].rxLock
  BY <1>3, <1>7, <1>8 DEF QState
<1> HIDE DEF x2
<1>10. Recv(k, th, o, q[o]) /\ Snd(k, th, o, q[o])
  BY <1>2 DEF WInv, Sides
<1>11. AwakeTasks(k') = AwakeTasks(k) \cup ts
  BY <1>6, AwakeAfter
<1>12. "none" \notin Receiving /\ "none" \notin Sending /\ Op(t) \in Receiving
       /\ Op(t) \notin Sending
  BY <1>1 DEF Receiving, Sending
<1>13. Snd(k', th', o, x2)
  <2> DEFINE m == Length[o] - n  m2 == Length[o] - n2
  <2>1. m2 + 0 <= m + 1 /\ m2 \in Int /\ m \in Int
    BY <1>3 DEF n2
  <2> HIDE DEF m, m2
  <2>2. WakesOne(k, th, o, Sending, list, m, q[o].rxLock, k', th', m2, t)
    <3>1. m2 + (IF Obj(t) = o /\ Op(t) \in Sending THEN 1 ELSE 0) <= m + 1
      BY <1>12, <2>1
    <3> HIDE DEF o, list, n
    <3> QED
      BY <1>1, <1>3, <1>11, <1>12, <2>1, <3>1, TryWakes
  <2>3. SideOf(k, th, o, Sending, list, m, q[o].rxLock)
    BY <1>10 DEF Snd, m
  <2> QED
    BY <1>9, <2>2, <2>3, SideWoken DEF Snd, rest, m2
<1>14. Recv(k', th', o, x2)
  <2>1. n \in Int /\ n2 \in Int /\ n2 = n - 1
    BY <1>3 DEF n2
  <2>2. In(q[o].recv) \cap AwakeTasks(k') = {}
    <3>1. \A u \in ts : th[u].in.call.op \in Sending
      BY <1>2, <1>6, ListsOf
    <3>2. \A u \in In(q[o].recv) : u \notin AwakeTasks(k) /\ th[u].in.call.op \notin Sending
      BY <1>2, ListsOf DEF Receiving, Sending
    <3> QED
      BY <1>11, <3>1, <3>2
  <2>3. Stays(k, th, o, Receiving, q[o].recv, n, q[o].txLock, k', th', n2, q[o].txLock, t)
    <3>1. n2 + (IF Obj(t) = o /\ Op(t) \in Receiving THEN 1 ELSE 0) <= n
      BY <1>12, <2>1
    <3>2. AwakeTasks(k) \subseteq AwakeTasks(k')
      BY <1>11
    <3> HIDE DEF o, list, n
    <3> QED
      BY <1>1, <1>3, <1>12, <2>1, <2>2, <3>1, <3>2, TryStays
  <2>4. SideOf(k, th, o, Receiving, q[o].recv, n, q[o].txLock)
    BY <1>10 DEF Recv
  <2> QED
    BY <1>9, <2>3, <2>4, SideStays DEF Recv
<1> HIDE DEF ts
<1> QED
  BY <1>1, <1>2, <1>5, <1>6, <1>9, <1>13, <1>14, TryStep

\* An item is looked at
LEMMA PeekKeeps ==
    ASSUME WInv, NEW t \in Task, Peek(t)
    PROVE  WInv'
<1> DEFINE o == Obj(t)
           list == q[o].recv
           n == q[o].msgs
           rest == Rest(list)
           x2 == [q[o] EXCEPT !.recv = rest]
           ts == First(list)
<1>1. Types /\ At(t, "try") /\ k \in KState /\ Op(t) = "peek" /\ ~ Empty(o)
      /\ th' = [th EXCEPT ![t].in = Outside] /\ Return(t) /\ k' = WakeFirst(k, list)
  BY DEF WInv, Types, Peek, Return
<1>2. o \in Object
  BY <1>1, ThreadIs DEF Queueing, Receiving
<1>3. /\ list \in Seq(Task) /\ q[o].send \in Seq(Task) /\ n \in Nat /\ n <= Length[o]
      /\ Length[o] \in Nat /\ q[o] \in QState(o)
      /\ q[o].txLock \in UNLOCKED .. MaxLock /\ q[o].rxLock \in UNLOCKED .. MaxLock
  BY <1>1, <1>2, ObjectIs
<1>4. q' = [q EXCEPT ![o] = x2]
  BY <1>1, <1>2, <1>3 DEF Peek, Types, QState
<1>5. Woke(k, k', ts) /\ ts \subseteq In(list) /\ ts \in SUBSET Task
  BY <1>1, <1>3, WakesFirst, FirstIs
<1>6. rest \in Seq(Task)
  BY <1>3 DEF Rest
<1> HIDE DEF rest
<1>7. /\ x2 \in QState(o) /\ x2.msgs = n /\ x2.recv = rest /\ x2.send = q[o].send
      /\ x2.txLock = q[o].txLock /\ x2.rxLock = q[o].rxLock
  BY <1>3, <1>6 DEF QState
<1> HIDE DEF x2
<1>8. Recv(k, th, o, q[o]) /\ Snd(k, th, o, q[o])
  BY <1>2 DEF WInv, Sides
<1>9. AwakeTasks(k') = AwakeTasks(k) \cup ts
  BY <1>5, AwakeAfter
<1>10. "none" \notin Receiving /\ "none" \notin Sending /\ Op(t) \in Receiving
       /\ Op(t) \notin Sending
  BY <1>1 DEF Receiving, Sending
<1>11. Recv(k', th', o, x2)
  <2>1. WakesOne(k, th, o, Receiving, list, n, q[o].txLock, k', th', n, t)
    <3>1. n + (IF Obj(t) = o /\ Op(t) \in Receiving THEN 1 ELSE 0) <= n + 1 /\ n \in Int
      BY <1>3, <1>10
    <3> HIDE DEF o, list, n
    <3> QED
      BY <1>1, <1>3, <1>9, <1>10, <3>1, TryWakes
  <2>2. SideOf(k, th, o, Receiving, list, n, q[o].txLock)
    BY <1>8 DEF Recv
  <2> QED
    BY <1>7, <2>1, <2>2, SideWoken DEF Recv, rest
<1>12. Snd(k', th', o, x2)
  <2> DEFINE m == Length[o] - n
  <2>1. m \in Int
    BY <1>3
  <2>2. In(q[o].send) \cap AwakeTasks(k') = {}
    <3>1. \A u \in ts : th[u].in.call.op \in Receiving
      BY <1>2, <1>5, ListsOf
    <3>2. \A u \in In(q[o].send) : u \notin AwakeTasks(k) /\ th[u].in.call.op \notin Receiving
      BY <1>2, ListsOf DEF Receiving, Sending
    <3> QED
      BY <1>9, <3>1, <3>2
  <2> HIDE DEF m
  <2>3. Stays(k, th, o, Sending, q[o].send, m, q[o].rxLock, k', th', m, q[o].rxLock, t)
    <3>1. m + (IF Obj(t) = o /\ Op(t) \in Sending THEN 1 ELSE 0) <= m
      BY <1>10, <2>1
    <3>2. AwakeTasks(k) \subseteq AwakeTasks(k')
      BY <1>9
    <3> HIDE DEF o, list, n
    <3> QED
      BY <1>1, <1>3, <1>10, <2>1, <2>2, <3>1, <3>2, TryStays
  <2>4. SideOf(k, th, o, Sending, q[o].send, m, q[o].rxLock)
    BY <1>8 DEF Snd, m
  <2> QED
    BY <1>7, <2>3, <2>4, SideStays DEF Snd, m
<1> HIDE DEF ts
<1> QED
  BY <1>1, <1>2, <1>4, <1>5, <1>7, <1>11, <1>12, TryStep

---------------------------------------------------------------------------
(* The lock of a queue *)

\* The running task goes on from pc to pc2 under the lock
UnderLock(pc, pc2) ==
    \/ pc = "lock" /\ pc2 = "check"
    \/ pc = "unlockTx" /\ pc2 = "unlockRx"
    \/ pc = "unlockRx" /\ pc2 = "resume"

\* It is the same task's call, in the same phase of every side
LEMMA LockMoves ==
    ASSUME WInv, NEW t, t \in Task, NEW pc, NEW pc2, At(t, pc), UnderLock(pc, pc2),
           Goto(t, pc2), NEW ts, Woke(k, k', ts), ts \cap ReadyTasks(k) = {}
    PROVE  /\ Obj(t) \in Object /\ k'.cur = t
           /\ th' \in [Task -> Thread]
           /\ th'[t].in.pc = pc2 /\ th'[t].in.call = th[t].in.call
           /\ ControlMoves(t, th'[t].in, ts)
           /\ \A o, ops : \A u \in Task :
                 /\ Phase(th'[u].in, o, ops) = Phase(th[u].in, o, ops)
                 /\ Phase(th'[u].in, o, ops) # "about"
<1> DEFINE in == th[t].in  in2 == [in EXCEPT !.pc = pc2]
<1>1. Types
  BY DEF WInv
<1>2. in \in ThreadType
  BY <1>1, ThreadIs
<1>3. in2 \in ThreadType /\ in2.pc = pc2 /\ in2.call = in.call /\ in2.after = in.after
  BY <1>2 DEF ThreadType, UnderLock
<1>4. th' = [th EXCEPT ![t].in = in2]
  BY <1>1, <1>2 DEF Goto, Types, Thread, ThreadType
<1> HIDE DEF in2
<1>5. /\ th' \in [Task -> Thread] /\ th'[t].in = in2
      /\ \A u \in Task : u # t => th'[u] = th[u]
      /\ th'[t].waiting = th[t].waiting
  BY <1>1, <1>3, <1>4, GoesOn
<1>6. pc \in Inside /\ pc \notin {"woken", "place", "resume"} /\ pc2 \in Inside
  BY DEF UnderLock, Inside
<1>7. /\ t = k.cur /\ in.pc = pc /\ k.suspended /\ ~ th[t].waiting /\ CallPc(in)
      /\ HasBlocked(in) \/ t \in ReadyTasks(k)
      /\ \A u \in Task : u # t => th[u].in.pc \notin Inside
  BY <1>6, AtIs
<1>8. Op(t) \in Queueing /\ Obj(t) \in Object
  BY <1>1, <1>6, <1>7, ThreadIs DEF CallPc, Op
<1>9. CallPc(in2)
  BY <1>3, <1>6, <1>8 DEF CallPc, Op, Inside, Queueing, Receiving, Sending
<1>10. HasBlocked(in) => HasBlocked(in2)
  BY <1>3, <1>7 DEF HasBlocked, UnderLock
<1>11. ControlMoves(t, in2, ts)
  <2>1. t \in ts => t \notin ReadyTasks(k)
    OBVIOUS
  <2> QED
    BY <1>3, <1>5, <1>6, <1>7, <1>9, <1>10, <2>1 DEF ControlMoves
<1>12. WillLook(in2) <=> WillLook(in)
  BY <1>3, <1>7 DEF WillLook, UnderLock
<1>13. in.pc \notin {"inherit", "place"} /\ in2.pc \notin {"inherit", "place"}
  BY <1>3, <1>7 DEF UnderLock
<1>14. ASSUME NEW o, NEW ops, NEW u \in Task
       PROVE  /\ Phase(th'[u].in, o, ops) = Phase(th[u].in, o, ops)
              /\ Phase(th'[u].in, o, ops) # "about"
  <2>1. CASE u = t
    BY <1>3, <1>5, <1>12, <1>13, <2>1 DEF Phase
  <2>2. CASE u # t
    BY <1>5, <1>7, <2>2 DEF Phase, Inside
  <2> QED
    BY <2>1, <2>2
<1>15. k'.cur = t
  BY <1>7 DEF Woke
<1> QED
  BY <1>3, <1>5, <1>8, <1>11, <1>14, <1>15

\* A side whose list stays while its object is locked or unlocked
LEMMA LockStays ==
    ASSUME NEW o, NEW ops, NEW list, list \in Seq(Task), NEW n, n \in Int,
           NEW lock, lock \in UNLOCKED .. MaxLock,
           NEW lock2, lock2 \in UNLOCKED .. MaxLock, Count(lock2) = Count(lock),
           NEW t, t \in Task, SideOf(k, th, o, ops, list, n, lock),
           AwakeTasks(k) \subseteq AwakeTasks(k'), In(list) \cap AwakeTasks(k') = {},
           \A u \in Task : /\ Phase(th'[u].in, o, ops) = Phase(th[u].in, o, ops)
                           /\ Phase(th'[u].in, o, ops) # "about"
    PROVE  SideOf(k', th', o, ops, list, n, lock2)
<1> DEFINE c == Count(lock)  c2 == Count(lock2)
           d == Used(Phase(th[t].in, o, ops), Phase(th'[t].in, o, ops))
<1>1. d = 0
  BY DEF Used
<1>2. c \in Nat /\ c2 = c
  BY CountIs
<1> HIDE DEF c, c2, d
<1>3. n - c2 + d <= n - c
  BY <1>1, <1>2
<1>4. \A u \in Task : u \in AwakeTasks(k) => u \in AwakeTasks(k')
  OBVIOUS
<1>5. Stays(k, th, o, ops, list, n, lock, k', th', n, lock2, t)
  BY <1>3, <1>4 DEF Stays, c, c2, d
<1> QED
  BY ONLY <1>5, SideStays, SideOf(k, th, o, ops, list, n, lock)

\* The queue is locked, before the second look
LEMMA LockKeeps ==
    ASSUME WInv, NEW t \in Task, prvLockQueue(t)
    PROVE  WInv'
<1> DEFINE o == Obj(t)  free == 0
           x2 == [q[o] EXCEPT !.txLock = free, !.rxLock = free]
<1>1. Types /\ At(t, "lock") /\ k' = k /\ k \in KState /\ Goto(t, "check")
      /\ UnderLock("lock", "check")
  BY DEF WInv, Types, prvLockQueue, UnderLock
<1>2. Woke(k, k', {})
  BY <1>1, WokeNobody
<1>3. /\ o \in Object /\ k'.cur = t /\ th' \in [Task -> Thread]
      /\ th'[t].in.pc = "check" /\ th'[t].in.call = th[t].in.call
      /\ ControlMoves(t, th'[t].in, {})
      /\ \A o2, ops : \A u \in Task :
            /\ Phase(th'[u].in, o2, ops) = Phase(th[u].in, o2, ops)
            /\ Phase(th'[u].in, o2, ops) # "about"
  <2> DEFINE none == {}
  <2>1. none \cap ReadyTasks(k) = {} /\ Woke(k, k', none)
    BY <1>2
  <2> HIDE DEF none
  <2>2. /\ Obj(t) \in Object /\ k'.cur = t
        /\ th' \in [Task -> Thread]
        /\ th'[t].in.pc = "check" /\ th'[t].in.call = th[t].in.call
        /\ ControlMoves(t, th'[t].in, none)
        /\ \A o2, ops : \A u \in Task :
              /\ Phase(th'[u].in, o2, ops) = Phase(th[u].in, o2, ops)
              /\ Phase(th'[u].in, o2, ops) # "about"
    BY <1>1, <2>1, LockMoves
  <2> QED
    BY <2>2 DEF none
<1>4. /\ q[o].recv \in Seq(Task) /\ q[o].send \in Seq(Task) /\ q[o] \in QState(o)
      /\ q[o].msgs \in Int /\ Length[o] - q[o].msgs \in Int
      /\ q[o].txLock \in UNLOCKED .. MaxLock /\ q[o].rxLock \in UNLOCKED .. MaxLock
  BY <1>1, <1>3, ObjectIs
<1>5. th[t].in.pc = "lock" /\ t = k.cur
  BY <1>1 DEF At
<1>6. \A o2 \in Object : q[o2].txLock = UNLOCKED /\ q[o2].rxLock = UNLOCKED
  BY <1>5 DEF WInv, LockedBy, TxLocked, RxLocked
<1>7. free \in UNLOCKED .. MaxLock /\ free # UNLOCKED /\ Count(free) = 0 /\ Count(UNLOCKED) = 0
  BY KernelAssumption DEF UNLOCKED, Count
<1>8. q' = [q EXCEPT ![o] = x2]
  BY <1>1, <1>3, <1>4 DEF prvLockQueue, Types, QState
<1> HIDE DEF free
<1>9. /\ x2 \in QState(o) /\ x2.msgs = q[o].msgs /\ x2.recv = q[o].recv
      /\ x2.send = q[o].send /\ x2.txLock = free /\ x2.rxLock = free
  BY <1>4, <1>7 DEF QState
<1> HIDE DEF x2
<1>10. LockedBy'
  <2>1. q'[o] = x2 /\ \A o2 \in Object : o2 # o => q'[o2] = q[o2]
    BY <1>1, <1>3, <1>8 DEF Types
  <2>2. "check" \in TxLocked /\ "check" \in RxLocked
    BY DEF TxLocked, RxLocked
  <2> QED
    BY <1>3, <1>6, <1>7, <1>9, <2>1, <2>2 DEF LockedBy, Obj
<1>11. /\ In(q[o].recv) \cap AwakeTasks(k') = {} /\ In(q[o].send) \cap AwakeTasks(k') = {}
       /\ AwakeTasks(k) \subseteq AwakeTasks(k')
  BY <1>1, <1>3, ListsOf
<1>12. Recv(k, th, o, q[o]) /\ Snd(k, th, o, q[o])
  BY <1>3 DEF WInv, Sides
<1>13. Count(free) = Count(q[o].txLock) /\ Count(free) = Count(q[o].rxLock)
  BY <1>3, <1>6, <1>7
<1>14. Recv(k', th', o, x2) /\ Snd(k', th', o, x2)
  BY <1>3, <1>4, <1>7, <1>9, <1>11, <1>12, <1>13, LockStays DEF Recv, Snd
<1>15. ObjectMoves(t, th'[t].in, o, x2, {})
  BY <1>3, <1>8, <1>9, <1>10, <1>14 DEF ObjectMoves
<1> QED
  BY <1>15, ObjectStep

\* prvUnlockQueue wakes tasks of the list, as many as the lock has counted
LEMMA WokenIn ==
    ASSUME NEW list \in Seq(Task), NEW n \in Int
    PROVE  Woken(list, n) \subseteq In(list)
<1>1. Len(list) \in Nat
  OBVIOUS
<1>2. Min({n, Len(list)}) \in Int /\ Min({n, Len(list)}) <= Len(list)
  BY <1>1, MinOfTwo
<1>3. 1 .. Min({n, Len(list)}) \subseteq DOMAIN list
  BY <1>1, <1>2
<1> QED
  BY <1>3 DEF Woken, In

\* and that is enough of them: the wake-ups counted are not needed any more
LEMMA UnlockFrees ==
    ASSUME NEW o, NEW ops, NEW list, list \in Seq(Task), NEW n, n \in Int,
           NEW lock, lock \in UNLOCKED .. MaxLock,
           NEW t, t \in Task, SideOf(k, th, o, ops, list, n, lock),
           AwakeTasks(k') = AwakeTasks(k) \cup Woken(list, lock),
           \A u \in Task : /\ Phase(th'[u].in, o, ops) = Phase(th[u].in, o, ops)
                           /\ Phase(th'[u].in, o, ops) # "about"
    PROVE  SideOf(k', th', o, ops, Without(list, Woken(list, lock)), n, UNLOCKED)
<1> DEFINE W == Woken(list, lock)  list2 == Without(list, W)  x == Cardinality(W)
           c == Count(lock)  c2 == Count(UNLOCKED)
           d == Used(Phase(th[t].in, o, ops), Phase(th'[t].in, o, ops))
<1>1. d = 0
  BY DEF Used
<1>2. c \in Nat /\ c2 = 0 /\ c = (IF lock < 0 THEN 0 ELSE lock) /\ lock \in Int
      /\ UNLOCKED \in UNLOCKED .. MaxLock
  BY KernelAssumption DEF Count, UNLOCKED
<1>3. Once(list)
  BY DEF SideOf, Side
<1>4. list2 \in Seq(Task) /\ In(list2) = In(list) \ W /\ Once(list2)
  BY <1>3, WithoutIs
<1>5. W \subseteq In(list) /\ In(list) \subseteq Task
  BY <1>2, WokenIn DEF In
<1>6. In(list2) \cap AwakeTasks(k') = {}
  <2>1. \A u \in In(list) : u \notin AwakeTasks(k)
    BY InListOf
  <2> QED
    BY <1>4, <2>1
<1>7. list2 # << >> => x = c
  <2>1. list2 # << >> => In(list2) # {}
    BY <1>4 DEF In
  <2> QED
    BY <1>2, <1>3, <1>4, <2>1, WokenAre
<1> HIDE DEF c, c2, d, x, list2, W
<1>8. list2 # << >> => n - c2 + d <= n - c + x
  BY <1>1, <1>2, <1>7
<1>9. W \subseteq AwakeTasks(k') /\ \A u \in Task : u \in AwakeTasks(k) => u \in AwakeTasks(k')
  BY DEF W
<1>10. Freed(k, th, o, ops, list, n, lock, k', th', list2, n, UNLOCKED, t, W)
  BY <1>2, <1>4, <1>5, <1>6, <1>8, <1>9 DEF Freed, c, c2, d, x
<1>11. SideOf(k', th', o, ops, list2, n, UNLOCKED)
  BY ONLY <1>10, SideFreed, SideOf(k, th, o, ops, list, n, lock)
<1> QED
  BY <1>11 DEF list2, W

\* The receivers of what was sent under the lock are woken,
LEMMA UnlockTxKeeps ==
    ASSUME WInv, NEW t \in Task, UnlockTx(t)
    PROVE  WInv'
<1> DEFINE o == Obj(t)  list == q[o].recv
           ts == Woken(list, q[o].txLock)
           list2 == Without(list, ts)
           x2 == [q[o] EXCEPT !.txLock = UNLOCKED, !.recv = list2]
<1>1. Types /\ At(t, "unlockTx") /\ k \in KState /\ Goto(t, "unlockRx")
      /\ UnderLock("unlockTx", "unlockRx") /\ k' = xTaskRemoveFromEventList(k, ts)
  BY DEF WInv, Types, UnlockTx, UnderLock
<1>2. th[t].in.pc = "unlockTx" /\ t = k.cur /\ CallPc(th[t].in)
  BY <1>1, AtIs
<1>3. o \in Object
  BY <1>1, <1>2, ThreadIs DEF CallPc, Inside, Op
<1>4. /\ list \in Seq(Task) /\ q[o].send \in Seq(Task) /\ q[o] \in QState(o)
      /\ q[o].msgs \in Int /\ Length[o] - q[o].msgs \in Int
      /\ q[o].txLock \in UNLOCKED .. MaxLock /\ q[o].rxLock \in UNLOCKED .. MaxLock
      /\ q[o].txLock \in Int /\ UNLOCKED \in UNLOCKED .. MaxLock
  BY <1>1, <1>3, ObjectIs, KernelAssumption DEF UNLOCKED
<1>5. ts \subseteq In(list) /\ ts \in SUBSET Task /\ list2 \in Seq(Task)
  BY <1>4, WokenIn, WithoutIs DEF In
<1>6. Woke(k, k', ts) /\ AwakeTasks(k') = AwakeTasks(k) \cup ts
  BY <1>1, <1>5, RemovesFromEventList, AwakeAfter
<1>7. q' = [q EXCEPT ![o] = x2]
  BY <1>1, <1>3, <1>4 DEF UnlockTx, Types, QState
<1> HIDE DEF ts
<1>8. ts \cap ReadyTasks(k) = {} /\ \A u \in ts : th[u].in.call.op \in Receiving
  BY <1>3, <1>5, ListsOf DEF AwakeTasks
<1>9. /\ k'.cur = t /\ th' \in [Task -> Thread]
      /\ th'[t].in.pc = "unlockRx" /\ th'[t].in.call = th[t].in.call
      /\ ControlMoves(t, th'[t].in, ts)
      /\ \A o2, ops : \A u \in Task :
            /\ Phase(th'[u].in, o2, ops) = Phase(th[u].in, o2, ops)
            /\ Phase(th'[u].in, o2, ops) # "about"
  BY <1>1, <1>6, <1>8, LockMoves
<1> HIDE DEF list2
<1>10. /\ x2 \in QState(o) /\ x2.msgs = q[o].msgs /\ x2.recv = list2
       /\ x2.send = q[o].send /\ x2.txLock = UNLOCKED /\ x2.rxLock = q[o].rxLock
  BY <1>4, <1>5 DEF QState
<1> HIDE DEF x2
<1>11. LockedBy'
  <2>1. q'[o] = x2 /\ \A o2 \in Object : o2 # o => q'[o2] = q[o2]
    BY <1>1, <1>3, <1>7 DEF Types
  <2>2. "unlockRx" \notin TxLocked /\ "unlockRx" \in RxLocked
        /\ "unlockTx" \in TxLocked /\ "unlockTx" \in RxLocked
    BY DEF TxLocked, RxLocked
  <2>3. \A o2 \in Object :
           /\ q[o2].txLock # UNLOCKED <=> o2 = o
           /\ q[o2].rxLock # UNLOCKED <=> o2 = o
    BY <1>2, <2>2 DEF WInv, LockedBy
  <2> QED
    BY <1>3, <1>9, <1>10, <2>1, <2>2, <2>3 DEF LockedBy, Obj
<1>12. Recv(k, th, o, q[o]) /\ Snd(k, th, o, q[o])
  BY <1>3 DEF WInv, Sides
<1>13. Recv(k', th', o, x2)
  BY <1>4, <1>6, <1>9, <1>10, <1>12, UnlockFrees DEF Recv, list2, ts
<1>14. Snd(k', th', o, x2)
  <2>1. In(q[o].send) \cap AwakeTasks(k') = {}
    <3>1. \A u \in In(q[o].send) : u \notin AwakeTasks(k) /\ th[u].in.call.op \notin Receiving
      BY <1>3, ListsOf DEF Receiving, Sending
    <3> QED
      BY <1>6, <1>8, <3>1
  <2>2. AwakeTasks(k) \subseteq AwakeTasks(k')
    BY <1>6
  <2> QED
    BY <1>4, <1>9, <1>10, <1>12, <2>1, <2>2, LockStays DEF Snd
<1>15. ObjectMoves(t, th'[t].in, o, x2, ts)
  BY <1>3, <1>5, <1>7, <1>9, <1>10, <1>11, <1>13, <1>14 DEF ObjectMoves
<1> QED
  BY <1>15, ObjectStep

\* and the senders of the room made under the lock
LEMMA UnlockRxKeeps ==
    ASSUME WInv, NEW t \in Task, UnlockRx(t)
    PROVE  WInv'
<1> DEFINE o == Obj(t)  list == q[o].send
           ts == Woken(list, q[o].rxLock)
           list2 == Without(list, ts)
           x2 == [q[o] EXCEPT !.rxLock = UNLOCKED, !.send = list2]
<1>1. Types /\ At(t, "unlockRx") /\ k \in KState /\ Goto(t, "resume")
      /\ UnderLock("unlockRx", "resume") /\ k' = xTaskRemoveFromEventList(k, ts)
  BY DEF WInv, Types, UnlockRx, UnderLock
<1>2. th[t].in.pc = "unlockRx" /\ t = k.cur /\ CallPc(th[t].in)
  BY <1>1, AtIs
<1>3. o \in Object
  BY <1>1, <1>2, ThreadIs DEF CallPc, Inside, Op
<1>4. /\ list \in Seq(Task) /\ q[o].recv \in Seq(Task) /\ q[o] \in QState(o)
      /\ q[o].msgs \in Int /\ Length[o] - q[o].msgs \in Int
      /\ q[o].txLock \in UNLOCKED .. MaxLock /\ q[o].rxLock \in UNLOCKED .. MaxLock
      /\ q[o].rxLock \in Int /\ UNLOCKED \in UNLOCKED .. MaxLock
  BY <1>1, <1>3, ObjectIs, KernelAssumption DEF UNLOCKED
<1>5. ts \subseteq In(list) /\ ts \in SUBSET Task /\ list2 \in Seq(Task)
  BY <1>4, WokenIn, WithoutIs DEF In
<1>6. Woke(k, k', ts) /\ AwakeTasks(k') = AwakeTasks(k) \cup ts
  BY <1>1, <1>5, RemovesFromEventList, AwakeAfter
<1>7. q' = [q EXCEPT ![o] = x2]
  BY <1>1, <1>3, <1>4 DEF UnlockRx, Types, QState
<1> HIDE DEF ts
<1>8. ts \cap ReadyTasks(k) = {} /\ \A u \in ts : th[u].in.call.op \in Sending
  BY <1>3, <1>5, ListsOf DEF AwakeTasks
<1>9. /\ k'.cur = t /\ th' \in [Task -> Thread]
      /\ th'[t].in.pc = "resume" /\ th'[t].in.call = th[t].in.call
      /\ ControlMoves(t, th'[t].in, ts)
      /\ \A o2, ops : \A u \in Task :
            /\ Phase(th'[u].in, o2, ops) = Phase(th[u].in, o2, ops)
            /\ Phase(th'[u].in, o2, ops) # "about"
  BY <1>1, <1>6, <1>8, LockMoves
<1> HIDE DEF list2
<1>10. /\ x2 \in QState(o) /\ x2.msgs = q[o].msgs /\ x2.send = list2
       /\ x2.recv = q[o].recv /\ x2.rxLock = UNLOCKED /\ x2.txLock = q[o].txLock
  BY <1>4, <1>5 DEF QState
<1> HIDE DEF x2
<1>11. LockedBy'
  <2>1. q'[o] = x2 /\ \A o2 \in Object : o2 # o => q'[o2] = q[o2]
    BY <1>1, <1>3, <1>7 DEF Types
  <2>2. "resume" \notin TxLocked /\ "resume" \notin RxLocked
        /\ "unlockRx" \notin TxLocked /\ "unlockRx" \in RxLocked
    BY DEF TxLocked, RxLocked
  <2>3. \A o2 \in Object :
           /\ q[o2].txLock = UNLOCKED
           /\ q[o2].rxLock # UNLOCKED <=> o2 = o
    BY <1>2, <2>2 DEF WInv, LockedBy
  <2> QED
    BY <1>3, <1>9, <1>10, <2>1, <2>2, <2>3 DEF LockedBy, Obj
<1>12. Recv(k, th, o, q[o]) /\ Snd(k, th, o, q[o])
  BY <1>3 DEF WInv, Sides
<1>13. Snd(k', th', o, x2)
  BY <1>4, <1>6, <1>9, <1>10, <1>12, UnlockFrees DEF Snd, list2, ts
<1>14. Recv(k', th', o, x2)
  <2>1. In(q[o].recv) \cap AwakeTasks(k') = {}
    <3>1. \A u \in In(q[o].recv) : u \notin AwakeTasks(k) /\ th[u].in.call.op \notin Sending
      BY <1>3, ListsOf DEF Receiving, Sending
    <3> QED
      BY <1>6, <1>8, <3>1
  <2>2. AwakeTasks(k) \subseteq AwakeTasks(k')
    BY <1>6
  <2> QED
    BY <1>4, <1>9, <1>10, <1>12, <2>1, <2>2, LockStays DEF Recv
<1>15. ObjectMoves(t, th'[t].in, o, x2, ts)
  BY <1>3, <1>5, <1>7, <1>9, <1>10, <1>11, <1>13, <1>14 DEF ObjectMoves
<1> QED
  BY <1>15, ObjectStep

---------------------------------------------------------------------------
(* Interrupts on a queue *)

\* An interrupt leaves the tasks where they are
LEMMA IsrStep ==
    ASSUME WInv, NEW o, o \in Object, NEW x2, x2 \in QState(o), q' = [q EXCEPT ![o] = x2],
           th' = th, x2.txLock = UNLOCKED <=> q[o].txLock = UNLOCKED,
           x2.rxLock = UNLOCKED <=> q[o].rxLock = UNLOCKED,
           NEW ts, Woke(k, k', ts), ts \subseteq In(q[o].recv) \cup In(q[o].send),
           Recv(k', th', o, x2), Snd(k', th', o, x2)
    PROVE  WInv'
<1> DEFINE t == k.cur
<1>1. Types /\ Control /\ LockedBy /\ t \in Task
  BY FieldsOf DEF WInv, Types
<1>2. k'.cur = t
  BY DEF Woke
<1>3. \A u \in ts : u \notin AwakeTasks(k)
  BY ListsOf
<1>4. ControlMoves(t, th[t].in, ts)
  BY <1>1, <1>3 DEF ControlMoves, Control, AwakeTasks, Woke, Op
<1>5. LockedBy'
  <2>1. q'[o] = x2 /\ \A o2 \in Object : o2 # o => q'[o2] = q[o2]
    BY <1>1 DEF Types
  <2> QED
    BY <1>1, <1>2, <2>1 DEF LockedBy, Obj
<1>6. ObjectMoves(t, th[t].in, o, x2, ts)
  BY <1>1, <1>4, <1>5 DEF ObjectMoves, Types
<1> QED
  BY <1>6, ObjectStep

\* A queue that is not locked has no task about to sleep on it
LEMMA NobodyAbout ==
    ASSUME WInv, NEW o, o \in Object, NEW ops, NEW u, u \in Task,
           q[o].txLock = UNLOCKED \/ q[o].rxLock = UNLOCKED
    PROVE  Phase(th[u].in, o, ops) # "about"
<1> SUFFICES ASSUME Phase(th[u].in, o, ops) = "about"
             PROVE  FALSE
  OBVIOUS
<1>1. th[u].in.call.obj = o /\ th[u].in.pc \in {"inherit", "place"}
  BY PhaseIs
<1>2. th[u].in.pc \in Inside /\ th[u].in.pc \in TxLocked /\ th[u].in.pc \in RxLocked
  BY <1>1 DEF Inside, TxLocked, RxLocked
<1>3. u = k.cur
  BY <1>2 DEF WInv, Control
<1> QED
  BY <1>1, <1>2, <1>3 DEF WInv, LockedBy, Obj

\* What a task about to sleep has not seen, the lock has counted
LEMMA AboutIs ==
    ASSUME NEW o, NEW ops, NEW list, NEW n, NEW lock, NEW u, u \in Task,
           SideOf(k, th, o, ops, list, n, lock), Phase(th[u].in, o, ops) = "about"
    PROVE  n <= Count(lock)
BY DEF SideOf, Side, Phases

\* One side while an interrupt adds to it under the lock, or takes from it,
LEMMA IsrStays ==
    ASSUME WInv, NEW o, NEW ops, NEW list, list \in Seq(Task), NEW n, n \in Int,
           NEW lock, lock \in UNLOCKED .. MaxLock, NEW n2, n2 \in Int,
           NEW lock2, lock2 \in UNLOCKED .. MaxLock,
           n2 - Count(lock2) <= n - Count(lock),
           SideOf(k, th, o, ops, list, n, lock), th' = th,
           AwakeTasks(k) \subseteq AwakeTasks(k'), In(list) \cap AwakeTasks(k') = {}
    PROVE  SideOf(k', th', o, ops, list, n2, lock2)
<1> DEFINE c == Count(lock)  c2 == Count(lock2)  t == k.cur
           d == Used(Phase(th[t].in, o, ops), Phase(th'[t].in, o, ops))
<1>1. d = 0
  BY DEF Used
<1>2. c \in Nat /\ c2 \in Nat /\ n2 - c2 <= n - c
  BY CountIs
<1>3. \A u \in Task : Phase(th'[u].in, o, ops) = "about" => n <= c
  BY AboutIs
<1>4. t \in Task
  BY FieldsOf DEF WInv, Types
<1> HIDE DEF c, c2, d, t
<1>5. n2 - c2 + d <= n - c /\ (n <= c => n2 <= c2)
  BY <1>1, <1>2
<1>6. \A u \in Task : u \in AwakeTasks(k) => u \in AwakeTasks(k')
  OBVIOUS
<1>7. Stays(k, th, o, ops, list, n, lock, k', th', n2, lock2, t)
  BY <1>3, <1>4, <1>5, <1>6 DEF Stays, c, c2, d
<1> QED
  BY ONLY <1>7, SideStays, SideOf(k, th, o, ops, list, n, lock)

\* and one that wakes the first of the list
LEMMA IsrWakes ==
    ASSUME WInv, NEW o, o \in Object, NEW ops, NEW list, list \in Seq(Task),
           NEW n, n \in Int, NEW lock, lock \in UNLOCKED .. MaxLock, NEW n2, n2 = n + 1,
           SideOf(k, th, o, ops, list, n, lock), th' = th,
           q[o].txLock = UNLOCKED \/ q[o].rxLock = UNLOCKED,
           AwakeTasks(k') = AwakeTasks(k) \cup First(list)
    PROVE  SideOf(k', th', o, ops, Rest(list), n2, lock)
<1> DEFINE t == k.cur
           d == Used(Phase(th[t].in, o, ops), Phase(th'[t].in, o, ops))
<1>1. d = 0
  BY DEF Used
<1>2. t \in Task
  BY FieldsOf DEF WInv, Types
<1>3. \A u \in Task : Phase(th'[u].in, o, ops) # "about"
  BY NobodyAbout
<1> HIDE DEF t, d
<1>4. n2 + d <= n + 1 /\ n2 \in Int
  BY <1>1
<1>5. WakesOne(k, th, o, ops, list, n, lock, k', th', n2, t)
  BY <1>2, <1>3, <1>4 DEF WakesOne, d
<1> QED
  BY ONLY <1>5, SideWoken, SideOf(k, th, o, ops, list, n, lock)

\* An interrupt handler sends, or gives
LEMMA SendFromISRKeeps ==
    ASSUME WInv, NEW o \in Object, SendFromISR(o)
    PROVE  WInv'
<1> DEFINE n == q[o].msgs  n2 == n + 1  list == q[o].recv
           locked == q[o].txLock # UNLOCKED
           lock2 == IF locked THEN q[o].txLock + 1 ELSE q[o].txLock
           list2 == IF locked THEN list ELSE Rest(list)
           ts == IF locked THEN {} ELSE First(list)
           x2 == [q[o] EXCEPT !.msgs = n2, !.txLock = lock2, !.recv = list2]
           m == Length[o] - n  m2 == Length[o] - n2
<1>1. Types /\ k \in KState /\ ~ Full(o) /\ q[o].txLock < MaxLock /\ th' = th
      /\ k' = IF locked THEN k ELSE WakeFirst(k, list)
  BY DEF WInv, Types, SendFromISR
<1>2. /\ list \in Seq(Task) /\ q[o].send \in Seq(Task) /\ n \in Nat /\ n <= Length[o]
      /\ Length[o] \in Nat /\ q[o] \in QState(o)
      /\ q[o].txLock \in UNLOCKED .. MaxLock /\ q[o].rxLock \in UNLOCKED .. MaxLock
  BY <1>1, ObjectIs
<1>3. n2 \in 0 .. Length[o] /\ n \in Int /\ n2 \in Int /\ m \in Int /\ m2 = m - 1
      /\ m2 \in Int /\ n2 = n + 1
  BY <1>1, <1>2 DEF Full
<1>4. /\ lock2 \in UNLOCKED .. MaxLock /\ (lock2 = UNLOCKED <=> q[o].txLock = UNLOCKED)
      /\ locked => Count(lock2) = Count(q[o].txLock) + 1 /\ Count(q[o].txLock) \in Nat
  BY <1>1, <1>2, KernelAssumption DEF UNLOCKED, Count
<1>5. list2 \in Seq(Task)
  BY <1>2 DEF Rest
<1>6. q' = [q EXCEPT ![o] = x2]
  BY <1>1, <1>2 DEF SendFromISR, Types, QState
<1>7. Woke(k, k', ts) /\ ts \subseteq In(list)
  BY <1>1, <1>2, WakesFirst, WokeNobody, FirstIs
<1>8. AwakeTasks(k') = AwakeTasks(k) \cup ts
  BY <1>7, AwakeAfter
<1>9. ~ locked => ts = First(list) /\ list2 = Rest(list) /\ lock2 = q[o].txLock
  OBVIOUS
<1>10. locked => ts = {} /\ list2 = list
  OBVIOUS
<1> HIDE DEF n2, m, m2, lock2, list2, ts
<1>11. /\ x2 \in QState(o) /\ x2.msgs = n2 /\ x2.recv = list2 /\ x2.send = q[o].send
       /\ x2.txLock = lock2 /\ x2.rxLock = q[o].rxLock
  BY <1>2, <1>3, <1>4, <1>5 DEF QState
<1> HIDE DEF x2
<1>12. Recv(k, th, o, q[o]) /\ Snd(k, th, o, q[o])
  BY DEF WInv, Sides
<1>13. Recv(k', th', o, x2)
  <2>1. SideOf(k, th, o, Receiving, list, n, q[o].txLock)
    BY <1>12 DEF Recv
  <2>2. CASE locked
    <3>1. In(list) \cap AwakeTasks(k') = {} /\ AwakeTasks(k) \subseteq AwakeTasks(k')
      BY <1>8, <1>10, <2>2, ListsOf
    <3>2. n2 - Count(lock2) <= n - Count(q[o].txLock)
      BY <1>3, <1>4, <2>2
    <3>3. SideOf(k', th', o, Receiving, list, n2, lock2)
      BY <1>1, <1>2, <1>3, <1>4, <2>1, <3>1, <3>2, IsrStays
    <3> QED
      BY <1>10, <1>11, <2>2, <3>3 DEF Recv
  <2>3. CASE ~ locked
    <3>1. SideOf(k', th', o, Receiving, Rest(list), n2, q[o].txLock)
      BY <1>1, <1>2, <1>3, <1>8, <1>9, <2>1, <2>3, IsrWakes
    <3> QED
      BY <1>9, <1>11, <2>3, <3>1 DEF Recv
  <2> QED
    BY <2>2, <2>3
<1>14. Snd(k', th', o, x2)
  <2>1. SideOf(k, th, o, Sending, q[o].send, m, q[o].rxLock)
    BY <1>12 DEF Snd, m
  <2>2. In(q[o].send) \cap AwakeTasks(k') = {} /\ AwakeTasks(k) \subseteq AwakeTasks(k')
    <3>1. \A u \in ts : th[u].in.call.op \in Receiving
      BY <1>7, ListsOf
    <3>2. \A u \in In(q[o].send) : u \notin AwakeTasks(k) /\ th[u].in.call.op \notin Receiving
      BY ListsOf DEF Receiving, Sending
    <3> QED
      BY <1>8, <3>1, <3>2
  <2>3. m2 - Count(q[o].rxLock) <= m - Count(q[o].rxLock)
    BY <1>2, <1>3, CountIs
  <2>4. SideOf(k', th', o, Sending, q[o].send, m2, q[o].rxLock)
    BY <1>1, <1>2, <1>3, <2>1, <2>2, <2>3, IsrStays
  <2> QED
    BY <1>11, <2>4 DEF Snd, m2
<1> QED
  BY <1>1, <1>4, <1>6, <1>7, <1>11, <1>13, <1>14, IsrStep

\* An interrupt handler receives
LEMMA ReceiveFromISRKeeps ==
    ASSUME WInv, NEW o \in Object, ReceiveFromISR(o)
    PROVE  WInv'
<1> DEFINE n == q[o].msgs  n2 == n - 1  list == q[o].send
           locked == q[o].rxLock # UNLOCKED
           lock2 == IF locked THEN q[o].rxLock + 1 ELSE q[o].rxLock
           list2 == IF locked THEN list ELSE Rest(list)
           ts == IF locked THEN {} ELSE First(list)
           x2 == [q[o] EXCEPT !.msgs = n2, !.rxLock = lock2, !.send = list2]
           m == Length[o] - n  m2 == Length[o] - n2
<1>1. Types /\ k \in KState /\ ~ Empty(o) /\ q[o].rxLock < MaxLock /\ th' = th
      /\ k' = IF locked THEN k ELSE WakeFirst(k, list)
  BY DEF WInv, Types, ReceiveFromISR
<1>2. /\ list \in Seq(Task) /\ q[o].recv \in Seq(Task) /\ n \in Nat /\ n <= Length[o]
      /\ Length[o] \in Nat /\ q[o] \in QState(o)
      /\ q[o].txLock \in UNLOCKED .. MaxLock /\ q[o].rxLock \in UNLOCKED .. MaxLock
  BY <1>1, ObjectIs
<1>3. n2 \in 0 .. Length[o] /\ n \in Int /\ n2 \in Int /\ m \in Int /\ m2 = m + 1
      /\ m2 \in Int /\ n2 = n - 1
  BY <1>1, <1>2 DEF Empty
<1>4. /\ lock2 \in UNLOCKED .. MaxLock /\ (lock2 = UNLOCKED <=> q[o].rxLock = UNLOCKED)
      /\ locked => Count(lock2) = Count(q[o].rxLock) + 1 /\ Count(q[o].rxLock) \in Nat
  BY <1>1, <1>2, KernelAssumption DEF UNLOCKED, Count
<1>5. list2 \in Seq(Task)
  BY <1>2 DEF Rest
<1>6. q' = [q EXCEPT ![o] = x2]
  BY <1>1, <1>2 DEF ReceiveFromISR, Types, QState
<1>7. Woke(k, k', ts) /\ ts \subseteq In(list)
  BY <1>1, <1>2, WakesFirst, WokeNobody, FirstIs
<1>8. AwakeTasks(k') = AwakeTasks(k) \cup ts
  BY <1>7, AwakeAfter
<1>9. ~ locked => ts = First(list) /\ list2 = Rest(list) /\ lock2 = q[o].rxLock
  OBVIOUS
<1>10. locked => ts = {} /\ list2 = list
  OBVIOUS
<1> HIDE DEF n2, m, m2, lock2, list2, ts
<1>11. /\ x2 \in QState(o) /\ x2.msgs = n2 /\ x2.send = list2 /\ x2.recv = q[o].recv
       /\ x2.rxLock = lock2 /\ x2.txLock = q[o].txLock
  BY <1>2, <1>3, <1>4, <1>5 DEF QState
<1> HIDE DEF x2
<1>12. Recv(k, th, o, q[o]) /\ Snd(k, th, o, q[o])
  BY DEF WInv, Sides
<1>13. Snd(k', th', o, x2)
  <2>1. SideOf(k, th, o, Sending, list, m, q[o].rxLock)
    BY <1>12 DEF Snd, m
  <2>2. CASE locked
    <3>1. In(list) \cap AwakeTasks(k') = {} /\ AwakeTasks(k) \subseteq AwakeTasks(k')
      BY <1>8, <1>10, <2>2, ListsOf
    <3>2. m2 - Count(lock2) <= m - Count(q[o].rxLock)
      BY <1>3, <1>4, <2>2
    <3>3. SideOf(k', th', o, Sending, list, m2, lock2)
      BY SMTT(30), <1>1, <1>2, <1>3, <1>4, <2>1, <3>1, <3>2, IsrStays
    <3> QED
      BY <1>10, <1>11, <2>2, <3>3 DEF Snd, m2
  <2>3. CASE ~ locked
    <3>1. SideOf(k', th', o, Sending, Rest(list), m2, q[o].rxLock)
      BY <1>1, <1>2, <1>3, <1>8, <1>9, <2>1, <2>3, IsrWakes
    <3> QED
      BY <1>9, <1>11, <2>3, <3>1 DEF Snd, m2
  <2> QED
    BY <2>2, <2>3
<1>14. Recv(k', th', o, x2)
  <2>1. SideOf(k, th, o, Receiving, q[o].recv, n, q[o].txLock)
    BY <1>12 DEF Recv
  <2>2. In(q[o].recv) \cap AwakeTasks(k') = {} /\ AwakeTasks(k) \subseteq AwakeTasks(k')
    <3>1. \A u \in ts : th[u].in.call.op \in Sending
      BY <1>7, ListsOf
    <3>2. \A u \in In(q[o].recv) : u \notin AwakeTasks(k) /\ th[u].in.call.op \notin Sending
      BY ListsOf DEF Receiving, Sending
    <3> QED
      BY <1>8, <3>1, <3>2
  <2>3. n2 - Count(q[o].txLock) <= n - Count(q[o].txLock)
    BY <1>2, <1>3, CountIs
  <2>4. SideOf(k', th', o, Receiving, q[o].recv, n2, q[o].txLock)
    BY <1>1, <1>2, <1>3, <2>1, <2>2, <2>3, IsrStays
  <2> QED
    BY <1>11, <2>4 DEF Recv
<1> QED
  BY <1>1, <1>4, <1>6, <1>7, <1>11, <1>13, <1>14, IsrStep

---------------------------------------------------------------------------
(* Steps that leave the lists alone, but not who is awake *)

\* Whoever takes part in the side goes on where it was
SameSide(o, ops) ==
    \A u \in Task :
        /\ Phase(th'[u].in, o, ops) = Phase(th[u].in, o, ops)
        /\ Phase(th[u].in, o, ops) # "out" => (u \in AwakeTasks(k') <=> u \in AwakeTasks(k))

\* then the side stays in order,
LEMMA SideKept ==
    ASSUME NEW o, NEW ops, NEW list, list \in Seq(Task), NEW n, NEW lock,
           SideOf(k, th, o, ops, list, n, lock), SameSide(o, ops)
    PROVE  SideOf(k', th', o, ops, list, n, lock)
<1> DEFINE ph == Phases(th, o, ops)  aw == AwakeTasks(k)  aw2 == AwakeTasks(k')
           c == Count(lock)
<1>1. Phases(th', o, ops) = ph
  BY DEF SameSide, Phases
<1>2. \A u \in Task : ph[u] # "out" => (u \in aw2 <=> u \in aw)
  BY DEF SameSide, Phases
<1>3. In(list) \subseteq Task
  BY DEF In
<1>4. Side(ph, aw, list, n, c)
  BY DEF SideOf
<1> HIDE DEF ph, aw, aw2, c
<1>5. Side(ph, aw2, list, n, c)
  BY <1>2, <1>3, <1>4 DEF Side
<1> QED
  BY <1>1, <1>5 DEF SideOf, aw2, c

\* and both sides of the object do
LEMMA SidesKept ==
    ASSUME WInv, NEW o, o \in Object, SameSide(o, Receiving), SameSide(o, Sending)
    PROVE  Recv(k', th', o, q[o]) /\ Snd(k', th', o, q[o])
<1>1. Types /\ Recv(k, th, o, q[o]) /\ Snd(k, th, o, q[o])
  BY DEF WInv, Sides
<1>2. q[o].recv \in Seq(Task) /\ q[o].send \in Seq(Task)
  BY <1>1, ObjectIs
<1>3. Recv(k', th', o, q[o])
  BY <1>1, <1>2, SideKept DEF Recv
<1>4. Snd(k', th', o, q[o])
  BY <1>1, <1>2, SideKept DEF Snd
<1> QED
  BY <1>3, <1>4

\* The scheduler is suspended
LEMMA SuspendKeeps ==
    ASSUME WInv, NEW t \in Task, Suspend(t)
    PROVE  WInv'
<1> DEFINE in == th[t].in
           pc2 == IF Op(t) = "delay" THEN "place" ELSE "lock"
           in2 == [in EXCEPT !.pc = pc2]
<1>1. Types /\ At(t, "suspend") /\ q' = q /\ k \in KState /\ k' = [k EXCEPT !.suspended = TRUE]
  BY DEF WInv, Types, Suspend, vTaskSuspendAll
<1>2. in \in ThreadType
  BY <1>1, ThreadIs
<1>3. in2 \in ThreadType /\ in2.pc = pc2 /\ in2.call = in.call
  BY <1>2 DEF ThreadType
<1>4. th' = [th EXCEPT ![t].in = in2]
  BY <1>1, <1>2 DEF Suspend, Goto, Types, Thread, ThreadType
<1> HIDE DEF in2
<1>5. /\ th' \in [Task -> Thread] /\ th'[t].in = in2
      /\ \A u \in Task : u # t => th'[u] = th[u]
      /\ th'[t].waiting = th[t].waiting
  BY <1>1, <1>3, <1>4, GoesOn
<1>6. "suspend" \notin Inside /\ pc2 \in Inside
  BY DEF Inside
<1>7. /\ t = k.cur /\ in.pc = "suspend" /\ ~ th[t].waiting /\ CallPc(in)
      /\ t \in ReadyTasks(k) /\ k.pendingReady = {}
      /\ \A o \in Object : q[o].txLock = UNLOCKED /\ q[o].rxLock = UNLOCKED
      /\ \A u \in Task : th[u].in.pc \notin Inside
  BY <1>1, <1>6, AtIs
<1>8. /\ k' \in KState /\ k'.suspended /\ k'.cur = t /\ k'.pendingReady = {}
      /\ ReadyTasks(k') = ReadyTasks(k) /\ AwakeTasks(k') = AwakeTasks(k)
  <2>1. k' \in KState /\ k'.suspended = TRUE /\ k'.cur = k.cur
        /\ k'.pendingReady = k.pendingReady /\ k'.list = k.list
    BY <1>1 DEF KState
  <2> QED
    BY <1>7, <2>1 DEF ReadyTasks, AwakeTasks
<1>9. Op(t) \in Queueing \cup {"delay"}
  BY <1>7 DEF CallPc, Op
<1>10. CallPc(in2)
  BY <1>3, <1>9 DEF CallPc, Op
<1>11. Op(t) = "delay" => Obj(t) \notin Object
  <2>1. in.call \in CallSet \cup {NoCall}
    <3>1. in.call \in AnyCall
      BY <1>1, ThreadIs
    <3>2. \A u \in Task : Calls[u] \subseteq CallSet
      BY ONLY KernelAssumption DEF KernelAssumption
    <3> QED
      BY <3>1, <3>2 DEF AnyCall
  <2>2. NULL \notin Object
    BY KernelAssumption
  <2> QED
    BY <2>1, <2>2 DEF CallSet, NoCall, Op, Obj
<1>12. Types'
  BY <1>1, <1>5, <1>8 DEF Types, QState
<1>13. Control'
  <2>1. \A u \in Task : CallPc(th'[u].in)
    BY <1>5, <1>10 DEF WInv, Control
  <2>2. \A u \in Task : th'[u].in.pc \in Inside <=> (u = k'.cur /\ k'.suspended)
    BY <1>3, <1>5, <1>6, <1>7, <1>8
  <2>3. \A u \in Task : th'[u].waiting =>
            th'[u].in.call.op = "notifyTake" /\ th'[u].in.pc = "woken"
    BY <1>5, <1>7 DEF WInv, Control, Op
  <2> QED
    BY <1>7, <1>8, <2>1, <2>2, <2>3 DEF Control, Op
<1>14. LockedBy'
  <2>1. "lock" \notin TxLocked /\ "lock" \notin RxLocked
    BY DEF TxLocked, RxLocked
  <2>2. \A o \in Object : ~ (in2.pc \in RxLocked /\ in2.call.obj = o)
    BY <1>3, <1>11, <2>1 DEF Obj
  <2>3. TxLocked \subseteq RxLocked
    BY DEF RxLocked
  <2> QED
    BY <1>1, <1>5, <1>7, <1>8, <2>2, <2>3 DEF LockedBy, Obj
<1>15. ASSUME NEW o \in Object, NEW ops, "delay" \notin ops
       PROVE  SameSide(o, ops)
  <2>1. Phase(in2, o, ops) = Phase(in, o, ops)
    <3>1. CASE Op(t) = "delay"
      BY <1>3, <1>15, <3>1 DEF Phase, Op
    <3>2. CASE Op(t) # "delay"
      BY <1>3, <1>7, <3>2 DEF Phase, WillLook
    <3> QED
      BY <3>1, <3>2
  <2> QED
    BY <1>5, <1>8, <2>1 DEF SameSide
<1>16. "delay" \notin Receiving /\ "delay" \notin Sending
  BY DEF Receiving, Sending
<1>17. Sides'
  BY <1>1, <1>15, <1>16, SidesKept DEF Sides
<1> QED
  BY <1>12, <1>13, <1>14, <1>17 DEF WInv

\* The processor is given to another task
LEMMA PendSVKeeps ==
    ASSUME WInv, PendSV
    PROVE  WInv'
<1>1. Types /\ Control /\ LockedBy /\ Sides /\ k \in KState /\ q' = q /\ th' = th
  BY DEF WInv, Types, PendSV
<1>2. PICK t \in Highest(k) : k' = vTaskSwitchContext(k, t)
  BY DEF PendSV
<1>3. t \in Task /\ t \in ReadyTasks(k)
  BY <1>2 DEF Highest, Ready, InList, ReadyTasks
<1>4. /\ k' \in KState /\ k'.list = k.list /\ k'.suspended = k.suspended
      /\ k'.pendingReady = k.pendingReady /\ k'.cur = IF k.suspended THEN k.cur ELSE t
  <2>1. CASE k.suspended
    BY <1>1, <1>2, <2>1 DEF vTaskSwitchContext, KState
  <2>2. CASE ~ k.suspended
    <3> DEFINE no == FALSE
    <3>1. no \in BOOLEAN /\ k' = [k EXCEPT !.yieldPending = no, !.pendSV = no, !.cur = t]
      BY <1>2, <2>2 DEF vTaskSwitchContext
    <3> HIDE DEF no
    <3> QED
      BY <1>1, <1>3, <2>2, <3>1 DEF KState
  <2> QED
    BY <2>1, <2>2
<1>5. ReadyTasks(k') = ReadyTasks(k) /\ AwakeTasks(k') = AwakeTasks(k)
  BY <1>4 DEF ReadyTasks, AwakeTasks
<1>6. Types'
  BY <1>1, <1>4 DEF Types, QState
<1>7. Control'
  <2>1. CASE k.suspended
    BY <1>1, <1>4, <1>5, <2>1 DEF Control, Op
  <2>2. CASE ~ k.suspended
    BY <1>1, <1>3, <1>4, <1>5, <2>2 DEF Control, Op
  <2> QED
    BY <2>1, <2>2
<1>8. LockedBy'
  <2>1. CASE k.suspended
    BY <1>1, <1>4, <2>1 DEF LockedBy, Obj
  <2>2. CASE ~ k.suspended
    <3>1. \A u \in Task : th[u].in.pc \notin Inside
      BY <1>1, <2>2 DEF Control
    <3>2. \A u \in Task : th[u].in.pc \notin TxLocked /\ th[u].in.pc \notin RxLocked
      BY <3>1 DEF TxLocked, RxLocked, Inside
    <3>3. k.cur \in Task
      BY <1>1, FieldsOf
    <3> QED
      BY <1>1, <1>3, <1>4, <2>2, <3>2, <3>3 DEF LockedBy, Obj
  <2> QED
    BY <2>1, <2>2
<1>9. \A o, ops : SameSide(o, ops)
  BY <1>1, <1>5 DEF SameSide
<1>10. Sides'
  BY <1>1, <1>9, SidesKept DEF Sides
<1> QED
  BY <1>6, <1>7, <1>8, <1>10 DEF WInv

---------------------------------------------------------------------------
(* Notifications *)

\* ulTaskNotifyTake waits, or finds a notification
LEMMA NotifyTakeKeeps ==
    ASSUME WInv, NEW t \in Task, NotifyTake(t)
    PROVE  WInv'
<1> DEFINE in == th[t].in
           wait == th[t].notified = 0
           in2 == [in EXCEPT !.pc = "woken"]
           w2 == wait \/ th[t].waiting
           x == [th[t] EXCEPT !.in = in2, !.waiting = w2]
           yes == TRUE
           k1 == prvAddCurrentTaskToDelayedList(k, th[t].in.left, yes)
<1>1. Types /\ At(t, "try") /\ q' = q /\ k \in KState /\ Op(t) = "notifyTake"
      /\ k' = IF wait /\ th[t].in.left > 0 THEN portYIELD(k1) ELSE k
  BY DEF WInv, Types, NotifyTake
<1>2. in \in ThreadType /\ th[t].waiting \in BOOLEAN /\ in.left \in 0 .. portMAX_DELAY
  BY <1>1, ThreadIs
<1>3. in2 \in ThreadType /\ in2.pc = "woken" /\ in2.call = in.call
  BY <1>2 DEF ThreadType
<1>4. th' = [th EXCEPT ![t] = x]
  BY <1>1, <1>2 DEF NotifyTake, Types, Thread, ThreadType
<1>5. w2 \in BOOLEAN
  BY <1>2
<1> HIDE DEF in2, w2
<1>6. x \in Thread /\ x.in = in2
  BY <1>1, <1>3, <1>5 DEF Types, Thread
<1> HIDE DEF x
<1>7. /\ th' \in [Task -> Thread] /\ th'[t].in = in2
      /\ \A u \in Task : u # t => th'[u] = th[u]
  BY <1>1, <1>4, <1>6 DEF Types
<1>8. "try" \notin Inside /\ "woken" \notin Inside
  BY DEF Inside
<1>9. /\ t = k.cur /\ in.pc = "try" /\ ~ k.suspended /\ CallPc(in)
      /\ t \in ReadyTasks(k) /\ k.pendingReady = {}
      /\ \A o \in Object : q[o].txLock = UNLOCKED /\ q[o].rxLock = UNLOCKED
      /\ \A u \in Task : th[u].in.pc \notin Inside
  BY <1>1, <1>8, AtIs
<1>10. /\ k' \in KState /\ ~ k'.suspended /\ k'.cur = t /\ k'.pendingReady = {}
       /\ k'.pendSV \/ t \in ReadyTasks(k')
       /\ \A u \in Task : u # t => (u \in AwakeTasks(k') <=> u \in AwakeTasks(k))
  <2>1. CASE wait /\ th[t].in.left > 0
    <3>1. /\ k1 \in KState /\ ReadyTasks(k1) = ReadyTasks(k) \ {k.cur}
          /\ k1.cur = k.cur /\ k1.suspended = k.suspended
          /\ k1.pendingReady = k.pendingReady
      <4>1. yes \in BOOLEAN
        OBVIOUS
      <4> HIDE DEF yes
      <4> QED
        BY <1>1, <1>2, <4>1, AddToDelayed
    <3> HIDE DEF k1
    <3>2. k' = portYIELD(k1)
      BY <1>1, <2>1
    <3>3. Woke(k1, k', {}) /\ k'.pendSV
      BY <3>1, <3>2, Yields
    <3> QED
      BY <1>9, <3>1, <3>3 DEF Woke, AwakeTasks
  <2>2. CASE ~ (wait /\ th[t].in.left > 0)
    <3>1. k' = k
      BY <1>1, <2>2
    <3> QED
      BY <1>1, <1>9, <3>1
  <2> QED
    BY <2>1, <2>2
<1>11. CallPc(in2)
  BY <1>3 DEF CallPc, Inside
<1>12. Types'
  BY <1>1, <1>7, <1>10 DEF Types, QState
<1>13. Control'
  <2>1. \A u \in Task : CallPc(th'[u].in)
    BY <1>7, <1>11 DEF WInv, Control
  <2>2. \A u \in Task : th'[u].in.pc \in Inside <=> (u = k'.cur /\ k'.suspended)
    BY <1>3, <1>7, <1>8, <1>9, <1>10
  <2>3. \A u \in Task : th'[u].waiting =>
            th'[u].in.call.op = "notifyTake" /\ th'[u].in.pc = "woken"
    BY <1>1, <1>3, <1>7 DEF WInv, Control, Op
  <2> QED
    BY <1>10, <2>1, <2>2, <2>3 DEF Control, Op
<1>14. LockedBy'
  <2>1. "woken" \notin TxLocked /\ "woken" \notin RxLocked
    BY DEF TxLocked, RxLocked
  <2> QED
    BY <1>1, <1>3, <1>7, <1>9, <1>10, <2>1 DEF LockedBy, Obj
<1>15. ASSUME NEW o \in Object, NEW ops, "notifyTake" \notin ops
       PROVE  SameSide(o, ops)
  <2>1. Phase(in2, o, ops) = "out" /\ Phase(in, o, ops) = "out"
    BY <1>1, <1>3, <1>15 DEF Phase, Op
  <2> QED
    BY <1>7, <1>10, <2>1 DEF SameSide
<1>16. "notifyTake" \notin Receiving /\ "notifyTake" \notin Sending
  BY DEF Receiving, Sending
<1>17. Sides'
  BY <1>1, <1>15, <1>16, SidesKept DEF Sides
<1> QED
  BY <1>12, <1>13, <1>14, <1>17 DEF WInv

\* An interrupt handler notifies a task
LEMMA NotifyKeeps ==
    ASSUME WInv, NEW t \in Task, vTaskNotifyGiveFromISR(t)
    PROVE  WInv'
<1> DEFINE k1 == Unblock(k, {t})
           m2 == th[t].notified + 1
           x == [th[t] EXCEPT !.notified = m2, !.waiting = FALSE]
<1>1. Types /\ Control /\ LockedBy /\ q' = q /\ k \in KState /\ th[t].notified < MaxNotified
      /\ k' = IF ~ th[t].waiting THEN k
              ELSE IF Preempts(k, {t}) THEN portYIELD(k1) ELSE k1
  BY DEF WInv, Types, vTaskNotifyGiveFromISR
<1>2. th[t] \in Thread
  BY <1>1, ThreadIs
<1>3. m2 \in 0 .. MaxNotified
  BY <1>1, <1>2, KernelAssumption DEF Thread
<1>4. th' = [th EXCEPT ![t] = x]
  BY <1>1, <1>2 DEF vTaskNotifyGiveFromISR, Types, Thread
<1> HIDE DEF m2
<1>5. x \in Thread /\ x.in = th[t].in /\ x.waiting = FALSE
  BY <1>2, <1>3 DEF Thread
<1> HIDE DEF x
<1>6. /\ th' \in [Task -> Thread] /\ \A u \in Task : th'[u].in = th[u].in
      /\ \A u \in Task : th'[u].waiting => th[u].waiting
  BY <1>1, <1>4, <1>5 DEF Types
<1>7. th[t].waiting => Op(t) = "notifyTake" /\ th[t].in.pc = "woken"
  BY <1>1 DEF Control
<1>8. Woke(k, k', IF th[t].waiting THEN {t} ELSE {})
  <2>1. CASE ~ th[t].waiting
    BY <1>1, <2>1, WokeNobody
  <2>2. CASE th[t].waiting
    <3>1. Woke(k, k1, {t})
      BY <1>1, Unblocks
    <3>2. k1 \in KState
      BY <3>1 DEF Woke
    <3> HIDE DEF k1
    <3>3. CASE Preempts(k, {t})
      <4>1. Woke(k1, k', {})
        BY <1>1, <2>2, <3>2, <3>3, Yields
      <4>2. Woke(k, k', {t} \cup {})
        BY <1>1, <3>1, <4>1, WokeTwice
      <4> QED
        BY <2>2, <4>2
    <3>4. CASE ~ Preempts(k, {t})
      BY <1>1, <2>2, <3>1, <3>4
    <3> QED
      BY <3>3, <3>4
  <2> QED
    BY <2>1, <2>2
<1> DEFINE ts == IF th[t].waiting THEN {t} ELSE {}
<1>9. Woke(k, k', ts) /\ \A u \in ts : u = t /\ th[t].waiting
  BY <1>8
<1> HIDE DEF ts
<1>10. k.suspended => k.cur \notin ts
  BY <1>1, <1>7, <1>9 DEF Control, Inside
<1>11. AwakeTasks(k') = AwakeTasks(k) \cup ts
  BY <1>9, AwakeAfter
<1>12. Types'
  BY <1>1, <1>6, <1>9 DEF Types, QState, Woke
<1>13. Control'
  <2>1. /\ k'.cur = k.cur /\ k'.suspended = k.suspended /\ k.cur \in Task
        /\ k.pendSV => k'.pendSV
        /\ ReadyTasks(k) \subseteq ReadyTasks(k')
        /\ ~ k.suspended => k'.pendingReady = k.pendingReady
        /\ k.suspended => /\ k'.pendingReady = k.pendingReady \cup ts
                          /\ ReadyTasks(k') = ReadyTasks(k)
    BY <1>1, <1>9, FieldsOf DEF Woke
  <2>2. /\ \A u \in Task : CallPc(th'[u].in)
        /\ \A u \in Task : th'[u].in.pc \in Inside <=> (u = k'.cur /\ k'.suspended)
        /\ \A u \in Task : th'[u].waiting =>
               th'[u].in.call.op = "notifyTake" /\ th'[u].in.pc = "woken"
    BY <1>1, <1>6, <2>1 DEF Control, Op
  <2>3. k'.suspended => k'.cur \in ReadyTasks(k') \/ HasBlocked(th'[k'.cur].in)
    BY <1>1, <1>6, <2>1 DEF Control
  <2>4. ~ k'.suspended /\ ~ k'.pendSV =>
            k'.cur \in ReadyTasks(k') \/ th'[k'.cur].in.pc = "yield"
    BY <1>1, <1>6, <2>1 DEF Control
  <2>5. ~ k'.suspended => k'.pendingReady = {}
    BY <1>1, <2>1 DEF Control
  <2>6. k'.cur \in k'.pendingReady => k'.cur \notin ReadyTasks(k')
    BY <1>1, <1>10, <2>1, <2>5 DEF Control
  <2> QED
    BY <2>2, <2>3, <2>4, <2>5, <2>6 DEF Control, Op
<1>14. LockedBy'
  <2>1. k'.cur = k.cur /\ k.cur \in Task
    BY <1>1, <1>9, FieldsOf DEF Woke
  <2> QED
    BY <1>1, <1>6, <2>1 DEF LockedBy, Obj
<1>15. ASSUME NEW o \in Object, NEW ops, "notifyTake" \notin ops
       PROVE  SameSide(o, ops)
  <2>1. \A u \in ts : Phase(th[u].in, o, ops) = "out"
    BY <1>7, <1>9, <1>15 DEF Phase, Op
  <2> QED
    BY <1>6, <1>11, <2>1 DEF SameSide
<1>16. "notifyTake" \notin Receiving /\ "notifyTake" \notin Sending
  BY DEF Receiving, Sending
<1>17. Sides'
  BY <1>1, <1>15, <1>16, SidesKept DEF Sides
<1> QED
  BY <1>12, <1>13, <1>14, <1>17 DEF WInv

---------------------------------------------------------------------------
(* Going to sleep *)

\* The running task puts itself on the event list: its second look was in vain, and
\* what came since is counted under the lock
LEMMA PlaceKeeps ==
    ASSUME WInv, NEW t \in Task, Place(t)
    PROVE  WInv'
<1> DEFINE in == th[t].in  o == Obj(t)
           pc2 == IF Op(t) = "delay" THEN "resume" ELSE "unlockTx"
           in2 == [in EXCEPT !.pc = pc2, !.after = "block"]
           b == Op(t) # "delay"
<1>1. Types /\ At(t, "place") /\ k \in KState
      /\ k' = prvAddCurrentTaskToDelayedList(k, in.left, b)
  BY DEF WInv, Types, Place
<1>2. in \in ThreadType /\ in.left \in 0 .. portMAX_DELAY
  BY <1>1, ThreadIs
<1>3. in2 \in ThreadType /\ in2.pc = pc2 /\ in2.call = in.call /\ in2.after = "block"
  BY <1>2 DEF ThreadType
<1>4. th' = [th EXCEPT ![t].in = in2]
  <2>1. th' = [th EXCEPT ![t].in.pc = pc2, ![t].in.after = "block"]
    BY DEF Place
  <2> HIDE DEF pc2
  <2> QED
    BY ZenonT(40), <1>1, <1>2, <2>1 DEF Types, Thread, ThreadType
<1> HIDE DEF in2
<1>5. /\ th' \in [Task -> Thread] /\ th'[t].in = in2
      /\ \A u \in Task : u # t => th'[u] = th[u]
      /\ th'[t].waiting = th[t].waiting
  BY <1>1, <1>3, <1>4, GoesOn
<1>6. "place" \in Inside /\ pc2 \in Inside
  BY DEF Inside
<1>7. /\ t = k.cur /\ in.pc = "place" /\ k.suspended /\ ~ th[t].waiting /\ CallPc(in)
      /\ t \in ReadyTasks(k)
      /\ \A u \in Task : u # t => th[u].in.pc \notin Inside
  BY <1>1, <1>6, AtIs DEF HasBlocked
<1>8. t \notin k.pendingReady
  BY <1>7 DEF WInv, Control
<1>9. /\ k' \in KState /\ k'.suspended /\ k'.cur = t /\ k'.pendingReady = k.pendingReady
      /\ AwakeTasks(k') = AwakeTasks(k) \ {t}
  <2>1. b \in BOOLEAN
    OBVIOUS
  <2> HIDE DEF b
  <2>2. /\ k' \in KState
        /\ ReadyTasks(k') = ReadyTasks(k) \ {k.cur}
        /\ k'.cur = k.cur /\ k'.suspended = k.suspended
        /\ k'.pendingReady = k.pendingReady
    BY <1>1, <1>2, <2>1, AddToDelayed
  <2> QED
    BY <1>7, <1>8, <2>2 DEF AwakeTasks
<1>10. Op(t) \in Queueing \cup {"delay"} /\ (Op(t) \in Queueing => Op(t) # "delay")
  BY <1>7 DEF CallPc, Op, Queueing, Receiving, Sending
<1>11. CallPc(in2)
  BY <1>3, <1>10 DEF CallPc, Op, Inside
<1>12. Op(t) = "delay" => o \notin Object
  <2>1. in.call \in CallSet \cup {NoCall}
    <3>1. in.call \in AnyCall
      BY <1>1, ThreadIs
    <3>2. \A u \in Task : Calls[u] \subseteq CallSet
      BY ONLY KernelAssumption DEF KernelAssumption
    <3> QED
      BY <3>1, <3>2 DEF AnyCall
  <2>2. NULL \notin Object
    BY KernelAssumption
  <2> QED
    BY <2>1, <2>2 DEF CallSet, NoCall, Op, Obj
<1>13. Control'
  <2>1. \A u \in Task : CallPc(th'[u].in)
    BY <1>5, <1>11 DEF WInv, Control
  <2>2. \A u \in Task : th'[u].in.pc \in Inside <=> (u = k'.cur /\ k'.suspended)
    BY <1>3, <1>5, <1>6, <1>7, <1>9
  <2>3. \A u \in Task : th'[u].waiting =>
            th'[u].in.call.op = "notifyTake" /\ th'[u].in.pc = "woken"
    BY <1>5, <1>7 DEF WInv, Control, Op
  <2>4. HasBlocked(th'[t].in)
    BY <1>3, <1>5 DEF HasBlocked
  <2> QED
    BY <1>8, <1>9, <2>1, <2>2, <2>3, <2>4 DEF Control, Op
<1> DEFINE sending == Op(t) = "send"
           list == IF sending THEN q[o].send ELSE q[o].recv
           list2 == PlaceInOrder(list, t)
           x2 == IF Op(t) = "delay" THEN q[o]
                 ELSE IF sending THEN [q[o] EXCEPT !.send = list2]
                 ELSE [q[o] EXCEPT !.recv = list2]
<1>14. CASE Op(t) = "delay"
  <2>1. q' = q
    BY <1>14 DEF Place
  <2>2. Types'
    BY <1>1, <1>5, <1>9, <2>1 DEF Types, QState
  <2>3. LockedBy'
    <3>1. TxLocked \subseteq RxLocked
      BY DEF RxLocked
    <3>2. \A o2 \in Object : o2 # o
      BY <1>12, <1>14
    <3> QED
      BY <1>3, <1>5, <1>7, <1>9, <2>1, <3>2 DEF LockedBy, Obj, WInv
  <2>4. ASSUME NEW o2 \in Object, NEW ops, "delay" \notin ops
        PROVE  SameSide(o2, ops)
    <3>1. Phase(in2, o2, ops) = "out" /\ Phase(in, o2, ops) = "out"
      BY <1>3, <1>14, <2>4 DEF Phase, Op
    <3> QED
      BY <1>5, <1>9, <3>1 DEF SameSide
  <2>5. "delay" \notin Receiving /\ "delay" \notin Sending
    BY DEF Receiving, Sending
  <2>6. Sides'
    BY <2>1, <2>4, <2>5, SidesKept DEF Sides
  <2> QED
    BY <1>13, <2>2, <2>3, <2>6 DEF WInv
<1>15. CASE Op(t) # "delay"
  <2>1. o \in Object
    BY <1>1, <1>10, <1>15, ThreadIs
  <2>2. /\ q[o].recv \in Seq(Task) /\ q[o].send \in Seq(Task) /\ q[o] \in QState(o)
        /\ q[o].msgs \in Int /\ Length[o] - q[o].msgs \in Int
        /\ q[o].txLock \in UNLOCKED .. MaxLock /\ q[o].rxLock \in UNLOCKED .. MaxLock
    BY <1>1, <2>1, ObjectIs
  <2>3. list \in Seq(Task)
    BY <2>2
  <2> HIDE DEF list
  <2>4. list2 \in Seq(Task) /\ In(list2) = In(list) \cup {t}
        /\ (Once(list) /\ t \notin In(list) => Once(list2))
    BY <2>3, Placed
  <2>5. q' = [q EXCEPT ![o] = x2]
    <3>1. CASE sending
      BY <1>1, <1>15, <2>1, <2>2, <3>1 DEF Place, list, Types, QState
    <3>2. CASE ~ sending
      BY <1>1, <1>15, <2>1, <2>2, <3>2 DEF Place, list, Types, QState
    <3> QED
      BY <3>1, <3>2
  <2> HIDE DEF list2
  <2>6. /\ x2 \in QState(o) /\ x2.msgs = q[o].msgs /\ x2.txLock = q[o].txLock
        /\ x2.rxLock = q[o].rxLock
        /\ x2.recv = (IF sending THEN q[o].recv ELSE list2)
        /\ x2.send = (IF sending THEN list2 ELSE q[o].send)
    BY <1>15, <2>2, <2>4 DEF QState
  <2> HIDE DEF x2
  <2>7. q'[o] = x2 /\ DOMAIN q' = Object /\ \A o2 \in Object : o2 # o => q'[o2] = q[o2]
    BY <1>1, <2>1, <2>5 DEF Types
  <2>8. Types'
    <3>1. \A o2 \in Object : q'[o2] \in QState(o2)
      BY <1>1, <2>6, <2>7 DEF Types
    <3> QED
      BY <1>5, <1>9, <2>7, <3>1 DEF Types, QState
  <2>9. LockedBy'
    <3>1. pc2 \in TxLocked /\ pc2 \in RxLocked /\ "place" \in TxLocked /\ "place" \in RxLocked
      BY <1>15 DEF TxLocked, RxLocked
    <3>2. \A o2 \in Object : q'[o2].txLock = q[o2].txLock /\ q'[o2].rxLock = q[o2].rxLock
      BY <2>6, <2>7
    <3> QED
      BY <1>3, <1>5, <1>7, <1>9, <3>1, <3>2 DEF LockedBy, Obj, WInv
  <2>10. ASSUME NEW o2 \in Object, NEW ops, o2 # o \/ Op(t) \notin ops
         PROVE  SameSide(o2, ops)
    <3>1. Phase(in2, o2, ops) = "out" /\ Phase(in, o2, ops) = "out"
      BY <1>3, <2>10 DEF Phase, Op, Obj
    <3> QED
      BY <1>5, <1>9, <3>1 DEF SameSide
  <2>11. ASSUME NEW ops, Op(t) \in ops, NEW n, n \in Int, NEW lock, lock \in UNLOCKED .. MaxLock,
                SideOf(k, th, o, ops, list, n, lock)
         PROVE  SideOf(k', th', o, ops, list2, n, lock)
    <3> DEFINE ph == Phases(th, o, ops)  ph2 == Phases(th', o, ops)
               aw == AwakeTasks(k)  aw2 == AwakeTasks(k')  c == Count(lock)
    <3>1. Side(ph, aw, list, n, c) /\ c \in Nat
      BY <2>11, CountIs DEF SideOf
    <3>2. ph[t] = "about" /\ ph2[t] = "look"
      <4>1. ~ WillLook(in) /\ WillLook(in2)
        BY <1>3, <1>7, <1>15 DEF WillLook
      <4> QED
        BY <1>3, <1>5, <1>7, <2>11, <4>1 DEF Phases, Phase, Op, Obj
    <3>3. \A u \in Task : u # t => ph2[u] = ph[u]
      BY <1>5 DEF Phases
    <3>4. aw2 = aw \ {t}
      BY <1>9
    <3>5. Once(list2)
      <4>1. Once(list) /\ t \notin In(list)
        <5> HIDE DEF ph, aw, c
        <5> QED
          BY <3>1, <3>2 DEF Side
      <4> QED
        BY <2>4, <4>1
    <3> HIDE DEF ph, ph2, aw, aw2, c
    <3>6. Side(ph2, aw2, list2, n, c)
      BY <2>3, <2>4, <2>11, <3>1, <3>2, <3>3, <3>4, <3>5, SideSleeps
    <3> QED
      BY <3>6 DEF SideOf, ph2, aw2, c
  <2>12. Recv(k, th, o, q[o]) /\ Snd(k, th, o, q[o])
    BY <2>1 DEF WInv, Sides
  <2>13. Recv(k', th', o, x2) /\ Snd(k', th', o, x2)
    <3>1. Op(t) \in Sending <=> sending
      BY DEF Sending
    <3>2. Op(t) \in Receiving <=> ~ sending
      BY <1>10, <1>15 DEF Queueing, Receiving, Sending
    <3>3. CASE sending
      <4>1. SideOf(k', th', o, Sending, list2, Length[o] - q[o].msgs, q[o].rxLock)
        BY <2>2, <2>11, <2>12, <3>1, <3>3 DEF Snd, list
      <4>2. SideOf(k', th', o, Receiving, q[o].recv, q[o].msgs, q[o].txLock)
        BY <2>1, <2>2, <2>10, <2>12, <3>2, <3>3, SideKept DEF Recv
      <4> QED
        BY <2>6, <3>3, <4>1, <4>2 DEF Recv, Snd
    <3>4. CASE ~ sending
      <4>1. SideOf(k', th', o, Receiving, list2, q[o].msgs, q[o].txLock)
        BY <2>2, <2>11, <2>12, <3>2, <3>4 DEF Recv, list
      <4>2. SideOf(k', th', o, Sending, q[o].send, Length[o] - q[o].msgs, q[o].rxLock)
        BY <2>1, <2>2, <2>10, <2>12, <3>1, <3>4, SideKept DEF Snd
      <4> QED
        BY <2>6, <3>4, <4>1, <4>2 DEF Recv, Snd
    <3> QED
      BY <3>3, <3>4
  <2>14. Sides'
    <3>1. ASSUME NEW o2 \in Object, o2 # o
          PROVE  Recv(k', th', o2, q[o2]) /\ Snd(k', th', o2, q[o2])
      BY <2>10, <3>1, SidesKept
    <3> QED
      BY <2>7, <2>13, <3>1 DEF Sides
  <2> QED
    BY <1>13, <2>8, <2>9, <2>14 DEF WInv
<1> QED
  BY <1>14, <1>15

---------------------------------------------------------------------------
(* Time, and the end of a suspension *)

\* A side of which those that are ready leave the list, while t goes on
Wakes(o, ops, list, n, lock, t) ==
    /\ list \in Seq(Task) /\ n \in Int /\ lock \in UNLOCKED .. MaxLock /\ t \in Task
    /\ AwakeTasks(k) \subseteq AwakeTasks(k') /\ In(list) \cap k'.pendingReady = {}
    /\ \A u \in Task : /\ u # t => Phase(th'[u].in, o, ops) = Phase(th[u].in, o, ops)
                       /\ Phase(th'[u].in, o, ops) = "about" =>
                             Phase(th[u].in, o, ops) = "about"
    /\ \/ Phase(th'[t].in, o, ops) = Phase(th[t].in, o, ops)
       \/ t \in AwakeTasks(k) /\ Phase(th[t].in, o, ops) # "look"

\* and the side stays in order
LEMMA SideListed ==
    ASSUME NEW o, NEW ops, NEW list, NEW n, NEW lock, NEW t,
           SideOf(k, th, o, ops, list, n, lock), Wakes(o, ops, list, n, lock, t)
    PROVE  SideOf(k', th', o, ops, Without(list, InList(k', "ready")), n, lock)
<1> DEFINE R == InList(k', "ready")  W == In(list) \cap R  list2 == Without(list, R)
           c == Count(lock)  x == Cardinality(W)
           d == Used(Phase(th[t].in, o, ops), Phase(th'[t].in, o, ops))
<1>1. /\ list \in Seq(Task) /\ n \in Int /\ lock \in UNLOCKED .. MaxLock /\ t \in Task
      /\ AwakeTasks(k) \subseteq AwakeTasks(k') /\ In(list) \cap k'.pendingReady = {}
  BY DEF Wakes
<1>2. R = ReadyTasks(k') /\ R \subseteq Task
  BY DEF InList, ReadyTasks
<1>3. Once(list)
  BY DEF SideOf, Side
<1> HIDE DEF R
<1>4. list2 \in Seq(Task) /\ In(list2) = In(list) \ R /\ Once(list2)
  BY <1>1, <1>3, WithoutIs
<1>5. In(list2) = In(list) \ W /\ W \in SUBSET Task /\ W \subseteq In(list)
      /\ W \subseteq AwakeTasks(k') /\ In(list2) \cap AwakeTasks(k') = {}
  BY <1>1, <1>2, <1>4 DEF AwakeTasks
<1>6. x \in Nat
  BY <1>5, KernelAssumption, FS_Subset, FS_CardinalityType
<1>7. d = 0
  BY DEF Used, Wakes
<1>8. c \in Nat
  BY <1>1, CountIs
<1>9. \A u \in Task : /\ u # t => Phase(th'[u].in, o, ops) = Phase(th[u].in, o, ops)
                      /\ u \in AwakeTasks(k) => u \in AwakeTasks(k')
                      /\ Phase(th'[u].in, o, ops) = "about" => n <= c
  <2>1. ASSUME NEW u \in Task, Phase(th'[u].in, o, ops) = "about"
        PROVE  n <= c
    <3>1. Phase(th[u].in, o, ops) = "about"
      BY <2>1 DEF Wakes
    <3> QED
      BY <3>1, AboutIs
  <2> HIDE DEF c
  <2> QED
    BY <1>1, <2>1 DEF Wakes
<1>10. Phase(th'[t].in, o, ops) = Phase(th[t].in, o, ops) \/ t \in AwakeTasks(k)
  BY DEF Wakes
<1> HIDE DEF list2, W, x, c, d
<1>11. n - c + d <= n - c + x
  BY ONLY <1>1, <1>6, <1>7, <1>8
<1>12. Freed(k, th, o, ops, list, n, lock, k', th', list2, n, lock, t, W)
  BY <1>1, <1>4, <1>5, <1>9, <1>10, <1>11 DEF Freed, x, c, d
<1>13. SideOf(k', th', o, ops, list2, n, lock)
  BY ONLY <1>12, SideFreed, SideOf(k, th, o, ops, list, n, lock)
<1> QED
  BY <1>13 DEF list2, R

\* Both sides of every object
LEMMA SidesListed ==
    ASSUME WInv, q' = Listed(k'), NEW t, t \in Task,
           \A o \in Object :
              /\ Wakes(o, Receiving, q[o].recv, q[o].msgs, q[o].txLock, t)
              /\ Wakes(o, Sending, q[o].send, Length[o] - q[o].msgs, q[o].rxLock, t)
    PROVE  Sides'
<1>1. ASSUME NEW o \in Object
      PROVE  Recv(k', th', o, q'[o]) /\ Snd(k', th', o, q'[o])
  <2> DEFINE recv2 == Without(q[o].recv, InList(k', "ready"))
             send2 == Without(q[o].send, InList(k', "ready"))
  <2>1. q[o] \in QState(o)
    BY DEF WInv, Types
  <2>2. q'[o] = [q[o] EXCEPT !.recv = recv2, !.send = send2]
    BY DEF Listed
  <2>3. Recv(k, th, o, q[o]) /\ Snd(k, th, o, q[o])
    BY DEF WInv, Sides
  <2>4. SideOf(k', th', o, Receiving, recv2, q[o].msgs, q[o].txLock)
    BY <2>3, SideListed DEF Recv
  <2>5. SideOf(k', th', o, Sending, send2, Length[o] - q[o].msgs, q[o].rxLock)
    BY <2>3, SideListed DEF Snd
  <2> HIDE DEF recv2, send2
  <2>6. /\ q'[o].recv = recv2 /\ q'[o].send = send2 /\ q'[o].msgs = q[o].msgs
        /\ q'[o].txLock = q[o].txLock /\ q'[o].rxLock = q[o].rxLock
    BY <2>1, <2>2 DEF QState
  <2> QED
    BY <2>4, <2>5, <2>6 DEF Recv, Snd
<1> QED
  BY <1>1 DEF Sides

\* The objects keep all but their lists
LEMMA ListedIs ==
    ASSUME Types, q' = Listed(k')
    PROVE  /\ DOMAIN q' = Object
           /\ \A o \in Object : /\ q'[o] \in QState(o)
                                /\ q'[o].txLock = q[o].txLock /\ q'[o].rxLock = q[o].rxLock
<1>1. DOMAIN q' = Object
  BY DEF Listed
<1>2. ASSUME NEW o \in Object
      PROVE  /\ q'[o] \in QState(o)
             /\ q'[o].txLock = q[o].txLock /\ q'[o].rxLock = q[o].rxLock
  <2> DEFINE recv2 == Without(q[o].recv, InList(k', "ready"))
             send2 == Without(q[o].send, InList(k', "ready"))
  <2>1. q[o] \in QState(o)
    BY DEF Types
  <2>2. q'[o] = [q[o] EXCEPT !.recv = recv2, !.send = send2]
    BY DEF Listed
  <2>3. recv2 \in Seq(Task) /\ send2 \in Seq(Task)
    BY <2>1, WithoutIs DEF QState
  <2> HIDE DEF recv2, send2
  <2> QED
    BY <2>1, <2>2, <2>3 DEF QState
<1> QED
  BY <1>1, <1>2

\* The waiting calls while time passes
LEMMA ElapsedIs ==
    ASSUME Types, NEW k1, NEW d \in Nat,
           \A t \in Task : th[t].in.waited + d \in 0 .. portMAX_DELAY,
           NEW g, g = Elapsed(k1, d)
    PROVE  /\ g \in [Task -> Thread]
           /\ \A t \in Task : /\ g[t].in.pc = th[t].in.pc /\ g[t].in.call = th[t].in.call
                              /\ g[t].in.after = th[t].in.after
                              /\ g[t].waiting = th[t].waiting
<1>1. ASSUME NEW t \in Task
      PROVE  /\ g[t] \in Thread
             /\ g[t].in.pc = th[t].in.pc /\ g[t].in.call = th[t].in.call
             /\ g[t].in.after = th[t].in.after
             /\ g[t].waiting = th[t].waiting
  <2> DEFINE lapped == th[t].in.timed /\ (th[t].in.wrapped \/ k1.tick < k.tick)
             waited == IF Timed(t) THEN th[t].in.waited + d ELSE th[t].in.waited
  <2>1. th[t] \in Thread /\ th[t].in \in ThreadType
    BY ThreadIs
  <2>2. lapped \in BOOLEAN
    BY <2>1 DEF ThreadType
  <2>3. waited \in 0 .. portMAX_DELAY
    BY <2>1 DEF ThreadType
  <2>4. g[t] = [th[t] EXCEPT !.in.wrapped = lapped, !.in.waited = waited]
    BY <2>1 DEF Elapsed, Thread, ThreadType
  <2> HIDE DEF lapped, waited
  <2> DEFINE in2 == [th[t].in EXCEPT !.wrapped = lapped, !.waited = waited]
  <2>5. g[t] = [th[t] EXCEPT !.in = in2]
    BY <2>1, <2>4 DEF Thread, ThreadType
  <2>6. in2 \in ThreadType /\ in2.pc = th[t].in.pc /\ in2.call = th[t].in.call
        /\ in2.after = th[t].in.after
    BY <2>1, <2>2, <2>3 DEF ThreadType
  <2> HIDE DEF in2
  <2> QED
    BY <2>1, <2>5, <2>6 DEF Thread
<1>2. g = [t \in Task |-> g[t]]
  BY DEF Elapsed
<1> QED
  BY <1>1, <1>2

\* A tick
LEMMA SysTickKeeps ==
    ASSUME WInv, SysTick
    PROVE  WInv'
<1> DEFINE one == 1
<1>1. /\ Types /\ Control /\ LockedBy /\ k \in KState /\ q' = Listed(k')
      /\ th' = Elapsed(k', one) /\ TickMayCome /\ k' = xTaskIncrementTick(k)
  BY DEF WInv, Types, SysTick
<1>2. one \in Nat
  OBVIOUS
<1>3. \A t \in Task : th[t].in.waited + one \in 0 .. portMAX_DELAY
  <2>1. ASSUME NEW t \in Task
        PROVE  th[t].in.waited + one \in 0 .. portMAX_DELAY
    <3>1. th[t].in.waited \in 0 .. portMAX_DELAY
      BY <1>1, ThreadIs DEF ThreadType
    <3>2. th[t].in.waited < TickMod - 1
      BY <1>1 DEF TickMayCome
    <3>3. TickMod \in Nat
      BY Numbers
    <3> QED
      BY ONLY <3>1, <3>2, <3>3 DEF portMAX_DELAY, one
  <2> QED
    BY <2>1
<1> HIDE DEF one
<1>4. /\ th' \in [Task -> Thread]
      /\ \A t \in Task : /\ th'[t].in.pc = th[t].in.pc /\ th'[t].in.call = th[t].in.call
                         /\ th'[t].in.after = th[t].in.after
                         /\ th'[t].waiting = th[t].waiting
  BY <1>1, <1>2, <1>3, ElapsedIs
<1>5. /\ k' \in KState /\ k'.cur = k.cur /\ k'.suspended = k.suspended
      /\ k.pendSV => k'.pendSV
      /\ k'.pendingReady = k.pendingReady
      /\ ReadyTasks(k) \subseteq ReadyTasks(k')
      /\ k.suspended => k'.list = k.list
  BY <1>1, IncrementsTick DEF TickMayCome
<1>6. /\ DOMAIN q' = Object
      /\ \A o \in Object : /\ q'[o] \in QState(o)
                           /\ q'[o].txLock = q[o].txLock /\ q'[o].rxLock = q[o].rxLock
  BY <1>1, ListedIs
<1>7. k.cur \in Task
  BY <1>1, FieldsOf
<1>8. Types'
  BY <1>4, <1>5, <1>6 DEF Types, QState
<1>9. Control'
  <2>1. \A t \in Task : CallPc(th'[t].in)
    BY <1>1, <1>4 DEF Control, CallPc
  <2>2. \A t \in Task : th'[t].in.pc \in Inside <=> (t = k'.cur /\ k'.suspended)
    BY <1>1, <1>4, <1>5 DEF Control
  <2>3. \A t \in Task : th'[t].waiting =>
            th'[t].in.call.op = "notifyTake" /\ th'[t].in.pc = "woken"
    BY <1>1, <1>4 DEF Control, Op
  <2>4. k'.suspended => k'.cur \in ReadyTasks(k') \/ HasBlocked(th'[k'.cur].in)
    BY <1>1, <1>4, <1>5, <1>7 DEF Control, HasBlocked
  <2>5. ~ k'.suspended /\ ~ k'.pendSV =>
            k'.cur \in ReadyTasks(k') \/ th'[k'.cur].in.pc = "yield"
    BY <1>1, <1>4, <1>5, <1>7 DEF Control
  <2>6. ~ k'.suspended => k'.pendingReady = {}
    BY <1>1, <1>5 DEF Control
  <2>7. k'.cur \in k'.pendingReady => k'.cur \notin ReadyTasks(k')
    <3>1. k.suspended => ReadyTasks(k') = ReadyTasks(k)
      BY <1>5 DEF ReadyTasks
    <3> QED
      BY <1>1, <1>5, <2>6, <3>1 DEF Control
  <2> QED
    BY <2>1, <2>2, <2>3, <2>4, <2>5, <2>6, <2>7 DEF Control, Op
<1>10. LockedBy'
  BY <1>1, <1>4, <1>5, <1>6, <1>7 DEF LockedBy, Obj
<1>11. AwakeTasks(k) \subseteq AwakeTasks(k')
  BY <1>5 DEF AwakeTasks
<1>12. \A t \in Task : \A o, ops : Phase(th'[t].in, o, ops) = Phase(th[t].in, o, ops)
  BY <1>4 DEF Phase, WillLook
<1>13. ASSUME NEW o \in Object
       PROVE  /\ Wakes(o, Receiving, q[o].recv, q[o].msgs, q[o].txLock, k.cur)
              /\ Wakes(o, Sending, q[o].send, Length[o] - q[o].msgs, q[o].rxLock, k.cur)
  <2>1. /\ q[o].recv \in Seq(Task) /\ q[o].send \in Seq(Task)
        /\ q[o].msgs \in Int /\ Length[o] - q[o].msgs \in Int
        /\ q[o].txLock \in UNLOCKED .. MaxLock /\ q[o].rxLock \in UNLOCKED .. MaxLock
    BY <1>1, ObjectIs
  <2>2. /\ In(q[o].recv) \cap k'.pendingReady = {}
        /\ In(q[o].send) \cap k'.pendingReady = {}
    BY <1>5, ListsOf DEF AwakeTasks
  <2> QED
    BY <1>7, <1>11, <1>12, <2>1, <2>2 DEF Wakes
<1>14. Sides'
  BY <1>1, <1>7, <1>13, SidesListed
<1> QED
  BY <1>8, <1>9, <1>10, <1>14 DEF WInv

\* The scheduler runs again
LEMMA ResumeKeeps ==
    ASSUME WInv, NEW t \in Task, Resume(t)
    PROVE  WInv'
<1> DEFINE none == 0
           in == th[t].in
           g == Elapsed(k', none)
           over == in.after = "expired" /\ Op(t) = "send"
           pc2 == IF in.after = "expired" THEN "expired"
                  ELSE IF in.after = "block" /\ ~ k'.yieldPending THEN "yield"
                  ELSE Again(t)
           after2 == ""
           on == [g[t].in EXCEPT !.after = after2, !.pc = pc2]
           in2 == IF over THEN Outside ELSE on
<1>1. /\ Types /\ Control /\ LockedBy /\ k \in KState /\ q' = Listed(k')
      /\ At(t, "resume") /\ k' = xTaskResumeAll(k)
  BY DEF WInv, Types, Resume
<1>2. in \in ThreadType
  BY <1>1, ThreadIs
<1>3. none \in Nat /\ \A u \in Task : th[u].in.waited + none \in 0 .. portMAX_DELAY
  <2>1. \A u \in Task : th[u].in.waited \in 0 .. portMAX_DELAY
    BY <1>1, ThreadIs DEF ThreadType
  <2>2. TickMod \in Nat
    BY Numbers
  <2> QED
    BY ONLY <2>1, <2>2 DEF portMAX_DELAY, none
<1>4. th' = [g EXCEPT ![t].in = in2]
  <2>1. th' = [g EXCEPT ![t].in =
                  IF in.after = "expired" /\ Op(t) = "send" THEN Outside
                  ELSE [@ EXCEPT !.after = "", !.pc =
                           CASE in.after = "expired" -> "expired"
                             [] in.after = "block" /\ ~ k'.yieldPending -> "yield"
                             [] OTHER -> Again(t)]]
    BY DEF Resume
  <2>2. pc2 = CASE in.after = "expired" -> "expired"
                [] in.after = "block" /\ ~ k'.yieldPending -> "yield"
                [] OTHER -> Again(t)
    OBVIOUS
  <2> HIDE DEF pc2, g
  <2> QED
    BY <2>1, <2>2
<1> HIDE DEF none
<1>5. /\ g \in [Task -> Thread]
      /\ \A u \in Task : /\ g[u].in.pc = th[u].in.pc /\ g[u].in.call = th[u].in.call
                         /\ g[u].in.after = th[u].in.after
                         /\ g[u].waiting = th[u].waiting
  BY <1>1, <1>3, ElapsedIs
<1> HIDE DEF g
<1>6. pc2 \in {"expired", "yield", "woken", "try"}
  BY DEF Again
<1>7. after2 \in {"", "block", "retry", "expired"}
  OBVIOUS
<1>8. on \in ThreadType /\ on.pc = pc2 /\ on.after = after2 /\ on.call = in.call
  <2>1. g[t].in \in ThreadType
    BY <1>5 DEF Thread
  <2>2. pc2 \in {"run", "try", "suspend", "lock", "check", "recheck",
                 "inherit", "place", "unlockTx", "unlockRx", "resume",
                 "yield", "expired", "disinherit", "woken"}
    BY <1>6
  <2> HIDE DEF pc2, after2
  <2> QED
    BY ZenonT(40), <1>5, <1>7, <2>1, <2>2 DEF ThreadType
<1> HIDE DEF on, after2
<1>9. in2 \in ThreadType
  BY <1>8, OutsideIs
<1> HIDE DEF in2
<1>10. /\ th' \in [Task -> Thread] /\ th'[t].in = in2
       /\ \A u \in Task : u # t => th'[u] = g[u]
       /\ \A u \in Task : th'[u].waiting = th[u].waiting
  BY <1>4, <1>5, <1>9 DEF Thread
<1>11. "resume" \in Inside /\ "resume" \notin TxLocked /\ "resume" \notin RxLocked
  BY DEF Inside, TxLocked, RxLocked
<1>12. /\ t = k.cur /\ in.pc = "resume" /\ k.suspended /\ ~ th[t].waiting /\ CallPc(in)
       /\ HasBlocked(in) \/ t \in ReadyTasks(k)
       /\ \A u \in Task : u # t => th[u].in.pc \notin Inside
  BY <1>1, <1>11, AtIs
<1>13. \A o \in Object : q[o].txLock = UNLOCKED /\ q[o].rxLock = UNLOCKED
  BY <1>1, <1>11, <1>12 DEF LockedBy
<1>14. /\ k' \in KState /\ k'.cur = t /\ ~ k'.suspended /\ k'.pendingReady = {}
       /\ k'.pendSV = (k.pendSV \/ k'.yieldPending)
       /\ AwakeTasks(k) \subseteq ReadyTasks(k')
  BY <1>1, <1>12, ResumesAll
<1>15. /\ Op(t) \in Queueing \cup {"delay"}
       /\ Op(t) = "delay" => in.after = "block"
  BY <1>12 DEF CallPc, Op
<1>16. in.after # "block" => t \in AwakeTasks(k)
  BY <1>12 DEF HasBlocked, AwakeTasks
<1>17. in2.pc \notin Inside /\ in2.pc \notin TxLocked /\ in2.pc \notin RxLocked
       /\ in2.pc \notin {"inherit", "place"}
  BY <1>6, <1>8 DEF in2, Outside, Inside, TxLocked, RxLocked
<1>18. CallPc(in2)
  <2>1. CASE over
    BY <2>1, OutsideIs DEF in2
  <2>2. CASE ~ over
    <3>1. in2.pc = pc2 /\ in2.call = in.call
      BY <1>8, <2>2 DEF in2
    <3>2. /\ pc2 = "expired" => Op(t) \in Queueing /\ Op(t) # "send"
          /\ pc2 # "disinherit"
      BY <1>15, <2>2 DEF Again
    <3> HIDE DEF pc2
    <3> QED
      BY <1>6, <1>15, <3>1, <3>2 DEF CallPc, Op, Inside
  <2> QED
    BY <2>1, <2>2
<1>19. /\ DOMAIN q' = Object
       /\ \A o \in Object : /\ q'[o] \in QState(o)
                            /\ q'[o].txLock = q[o].txLock /\ q'[o].rxLock = q[o].rxLock
  BY <1>1, ListedIs
<1>20. Types'
  BY <1>10, <1>14, <1>19 DEF Types, QState
<1>21. Control'
  <2>1. \A u \in Task : CallPc(th'[u].in)
    <3>1. \A u \in Task : u # t => CallPc(th'[u].in)
      BY <1>1, <1>5, <1>10 DEF Control, CallPc
    <3> QED
      BY <1>10, <1>18, <3>1
  <2>2. \A u \in Task : th'[u].in.pc \notin Inside
    BY <1>5, <1>10, <1>12, <1>17
  <2>3. \A u \in Task : th'[u].waiting =>
            th'[u].in.call.op = "notifyTake" /\ th'[u].in.pc = "woken"
    BY <1>1, <1>5, <1>10, <1>12 DEF Control, Op
  <2>4. ~ k'.pendSV => t \in ReadyTasks(k') \/ th'[t].in.pc = "yield"
    <3>1. CASE in.after # "block"
      BY <1>14, <1>16, <3>1
    <3>2. CASE in.after = "block"
      <4>1. in2.pc = pc2
        BY <1>8, <3>2 DEF in2
      <4> QED
        BY <1>10, <1>14, <3>2, <4>1
    <3> QED
      BY <3>1, <3>2
  <2> QED
    BY <1>14, <2>1, <2>2, <2>3, <2>4 DEF Control, Op
<1>22. LockedBy'
  BY <1>10, <1>13, <1>14, <1>17, <1>19 DEF LockedBy, Obj
<1>23. AwakeTasks(k) \subseteq AwakeTasks(k')
  BY <1>14 DEF AwakeTasks
<1>24. ASSUME NEW o, NEW ops, ops \in {Receiving, Sending}
       PROVE  /\ \A u \in Task :
                    /\ u # t => Phase(th'[u].in, o, ops) = Phase(th[u].in, o, ops)
                    /\ Phase(th'[u].in, o, ops) = "about" =>
                          Phase(th[u].in, o, ops) = "about"
              /\ \/ Phase(th'[t].in, o, ops) = Phase(th[t].in, o, ops)
                 \/ t \in AwakeTasks(k) /\ Phase(th[t].in, o, ops) # "look"
  <2>1. \A u \in Task : u # t => Phase(th'[u].in, o, ops) = Phase(th[u].in, o, ops)
    BY <1>5, <1>10 DEF Phase, WillLook
  <2>2. Phase(in2, o, ops) # "about"
    BY <1>17 DEF Phase
  <2>3. \/ Phase(in2, o, ops) = Phase(in, o, ops)
        \/ t \in AwakeTasks(k) /\ Phase(in, o, ops) # "look"
    <3>1. CASE in.after \in {"block", "retry"}
      <4>1. in2.pc = pc2 /\ in2.call = in.call
        BY <1>8, <3>1 DEF in2
      <4>2. in.call.op \in ops => pc2 \in {"yield", "try"}
        <5>1. in.call.op \in ops => Op(t) # "delay"
          BY <1>24 DEF Op, Receiving, Sending
        <5> QED
          BY <3>1, <5>1 DEF Again
      <4>3. WillLook(in)
        BY <1>12, <3>1 DEF WillLook
      <4>4. in.call.op \in ops => WillLook(in2)
        BY <4>1, <4>2 DEF WillLook
      <4> QED
        BY <4>1, <4>3, <4>4 DEF Phase
    <3>2. CASE in.after \notin {"block", "retry"}
      <4>1. ~ WillLook(in)
        BY <1>12, <3>2 DEF WillLook
      <4> QED
        BY <1>16, <3>2, <4>1 DEF Phase
    <3> QED
      BY <3>1, <3>2
  <2> QED
    BY <1>10, <2>1, <2>2, <2>3
<1>25. ASSUME NEW o \in Object
       PROVE  /\ Wakes(o, Receiving, q[o].recv, q[o].msgs, q[o].txLock, t)
              /\ Wakes(o, Sending, q[o].send, Length[o] - q[o].msgs, q[o].rxLock, t)
  <2>1. /\ q[o].recv \in Seq(Task) /\ q[o].send \in Seq(Task)
        /\ q[o].msgs \in Int /\ Length[o] - q[o].msgs \in Int
        /\ q[o].txLock \in UNLOCKED .. MaxLock /\ q[o].rxLock \in UNLOCKED .. MaxLock
    BY <1>1, ObjectIs
  <2>2. In(q[o].recv) \cap k'.pendingReady = {} /\ In(q[o].send) \cap k'.pendingReady = {}
    BY <1>14
  <2>3. Wakes(o, Receiving, q[o].recv, q[o].msgs, q[o].txLock, t)
    BY <1>23, <1>24, <2>1, <2>2 DEF Wakes
  <2>4. Wakes(o, Sending, q[o].send, Length[o] - q[o].msgs, q[o].rxLock, t)
    BY <1>23, <1>24, <2>1, <2>2 DEF Wakes
  <2> QED
    BY <2>3, <2>4
<1>26. Sides'
  BY <1>1, <1>25, SidesListed
<1> QED
  BY <1>20, <1>21, <1>22, <1>26 DEF WInv

---------------------------------------------------------------------------
(* The whole system *)

\* One of the tasks has the highest priority
LEMMA HighestTask == \E t \in Task : \A u \in Task : Base[t] >= Base[u]
<1> DEFINE Below == {n \in Nat : \E t \in Task : n <= Base[t]}
           Lower(t) == {u \in Task : Base[u] < Base[t]}
           Counts == {Cardinality(Task) - Cardinality(Lower(t)) : t \in Task}
<1>1. IsFiniteSet(Task) /\ Cardinality(Task) \in Nat /\ Task # {}
      /\ \A t \in Task : Base[t] \in Nat
  BY KernelAssumption, FS_CardinalityType, SchedulerAssumption
<1>2. ASSUME NEW t \in Task
      PROVE  /\ IsFiniteSet(Lower(t)) /\ Cardinality(Lower(t)) \in Nat
             /\ Cardinality(Lower(t)) <= Cardinality(Task)
  BY <1>1, FS_Subset, FS_CardinalityType
<1>3. Counts \subseteq Nat /\ Counts # {}
  <2>1. ASSUME NEW t \in Task
        PROVE  Cardinality(Task) - Cardinality(Lower(t)) \in Nat
    <3> DEFINE a == Cardinality(Task)  b == Cardinality(Lower(t))
    <3>1. a \in Nat /\ b \in Nat /\ b <= a
      BY <1>1, <1>2
    <3> HIDE DEF a, b
    <3>2. a - b \in Nat
      BY ONLY <3>1
    <3> QED
      BY <3>2 DEF a, b
  <2> HIDE DEF Lower
  <2>2. Counts \subseteq Nat
    BY <2>1
  <2> QED
    BY <1>1, <2>2
<1>4. PICK m \in Counts : \A n \in Counts : m <= n
  <2> HIDE DEF Counts
  <2> QED
    BY <1>3, Least
<1>5. PICK t \in Task : m = Cardinality(Task) - Cardinality(Lower(t))
  BY <1>4
<1>6. ASSUME NEW u \in Task, ~ (Base[t] >= Base[u])
      PROVE  FALSE
  <2>1. Base[t] < Base[u]
    BY <1>1, <1>6
  <2>2. Lower(t) \subseteq Lower(u) /\ t \in Lower(u) /\ t \notin Lower(t)
    BY <1>1, <2>1
  <2>3. Cardinality(Lower(t)) < Cardinality(Lower(u))
    <3>1. Lower(t) # Lower(u)
      BY <2>2
    <3> HIDE DEF Lower
    <3> QED
      BY <1>2, <2>2, <3>1, FS_Subset
  <2>4. m <= Cardinality(Task) - Cardinality(Lower(u))
    BY <1>4
  <2> HIDE DEF Lower
  <2> QED
    BY <1>1, <1>2, <1>5, <2>3, <2>4
<1> QED
  BY <1>5, <1>6

\* The record the scheduler starts with
LEMMA InitIs == InitialState \in KState
<1> DEFINE cur == CHOOSE t \in Task : \A u \in Task : Base[t] >= Base[u]
           list == [t \in Task |-> "ready"]
           wake == [t \in Task |-> 0]
           none == {}  no == FALSE  zero == 0
<1>1. cur \in Task
  BY HighestTask
<1>2. list \in [Task -> Lists]
  BY DEF Lists
<1>3. wake \in [Task -> 0 .. TickMod - 1] /\ wake \in [Task -> Int]
  BY Numbers
<1>4. /\ Base \in [Task -> Priority] /\ Priority \in SUBSET Priority
      /\ zero \in 0 .. TickMod - 1 /\ portMAX_DELAY \in 0 .. TickMod - 1
      /\ zero \in 0 .. MaxPended /\ none \in SUBSET Task /\ no \in BOOLEAN
  BY Numbers
<1>5. InitialState = [cur |-> cur, list |-> list, wake |-> wake,
         prio |-> Base, held |-> wake, bits |-> Priority,
         pendingReady |-> none, suspended |-> no, yieldPending |-> no,
         pended |-> zero, tick |-> zero, next |-> portMAX_DELAY, pendSV |-> no]
  BY DEF InitialState
<1> HIDE DEF cur, list, wake, none, no, zero
<1> QED
  BY <1>1, <1>2, <1>3, <1>4, <1>5 DEF KState

\* At the start every task is awake, and no queue is locked
LEMMA InvInit ==
    ASSUME Init
    PROVE  WInv
<1>1. /\ k \in KState /\ k.list = [t \in Task |-> "ready"] /\ k.pendingReady = {}
      /\ ~ k.suspended /\ ~ k.pendSV /\ k.cur \in Task
  <2>1. k \in KState
    BY InitIs DEF Init
  <2>2. k.cur \in Task
    BY <2>1, FieldsOf
  <2> QED
    BY <2>1, <2>2 DEF Init, InitialState
<1>2. ReadyTasks(k) = Task /\ AwakeTasks(k) = Task
  BY <1>1 DEF ReadyTasks, AwakeTasks
<1>3. /\ Outside \in ThreadType /\ CallPc(Outside)
      /\ Outside.pc \notin Inside \cup TxLocked \cup RxLocked
      /\ \A o, ops : ops \in {Receiving, Sending} => Phase(Outside, o, ops) = "out"
  <2>1. Outside.pc = "run" /\ Outside.call.op = "none"
    BY DEF Outside, NoCall
  <2> QED
    BY <2>1, OutsideIs DEF Inside, TxLocked, RxLocked, Phase, Receiving, Sending
<1>4. th \in [Task -> Thread] /\ \A t \in Task : th[t].in = Outside /\ ~ th[t].waiting
  <2> DEFINE zero == 0  no == FALSE
  <2>1. th = [t \in Task |-> [in |-> Outside, notified |-> zero, waiting |-> no]]
    BY DEF Init
  <2>2. zero \in 0 .. MaxNotified /\ no \in BOOLEAN /\ ~ no
    BY KernelAssumption
  <2> HIDE DEF zero, no
  <2> QED
    BY <1>3, <2>1, <2>2 DEF Thread
<1>5. DOMAIN q = Object
  BY DEF Init
<1>6. ASSUME NEW o \in Object
      PROVE  /\ q[o] \in QState(o)
             /\ q[o].recv = << >> /\ q[o].send = << >>
             /\ q[o].txLock = UNLOCKED /\ q[o].rxLock = UNLOCKED
             /\ q[o].msgs \in Int /\ Length[o] - q[o].msgs \in Int
  <2> DEFINE n == IF Type[o] = "mutex" THEN 1 ELSE 0
             none == << >>
             nobody == NULL
  <2>1. q[o] = [msgs |-> n, holder |-> nobody, recv |-> none, send |-> none,
                txLock |-> UNLOCKED, rxLock |-> UNLOCKED]
    BY DEF Init
  <2>2. n \in 0 .. Length[o] /\ Length[o] \in Nat
    BY KernelAssumption
  <2>3. none \in Seq(Task) /\ UNLOCKED \in UNLOCKED .. MaxLock
        /\ nobody \in Task \cup {NULL}
    BY KernelAssumption DEF UNLOCKED
  <2> HIDE DEF n, none, nobody
  <2>4. q[o] \in QState(o) /\ q[o].recv = none /\ q[o].send = none /\ q[o].msgs = n
        /\ q[o].txLock = UNLOCKED /\ q[o].rxLock = UNLOCKED
    BY <2>1, <2>2, <2>3 DEF QState
  <2> QED
    BY <2>2, <2>4 DEF none
<1>7. Types
  BY <1>1, <1>4, <1>5, <1>6 DEF Types
<1>8. Control
  BY <1>1, <1>2, <1>3, <1>4 DEF Control
<1>9. LockedBy
  BY <1>1, <1>3, <1>4, <1>6 DEF LockedBy
<1>10. ASSUME NEW o, NEW ops, ops \in {Receiving, Sending}, NEW n, NEW lock
       PROVE  SideOf(k, th, o, ops, << >>, n, lock)
  <2> DEFINE ph == Phases(th, o, ops)  aw == AwakeTasks(k)  c == Count(lock)  none == << >>
  <2>1. \A t \in Task : ph[t] = "out"
    BY <1>3, <1>4, <1>10 DEF Phases
  <2>2. In(none) = {} /\ Once(none) /\ none = << >>
    BY DEF In, Once
  <2> HIDE DEF ph, aw, c, none
  <2>3. Side(ph, aw, none, n, c)
    BY <2>1, <2>2 DEF Side
  <2> QED
    BY <2>3 DEF SideOf, ph, aw, c, none
<1>11. Sides
  BY <1>6, <1>10 DEF Sides, Recv, Snd
<1> QED
  BY <1>7, <1>8, <1>9, <1>11 DEF WInv

\* Every step of a task keeps the invariant,
LEMMA InvStep ==
    ASSUME WInv, NEW t \in Task, Step(t) \/ Disinherit(t)
    PROVE  WInv'
<1>1. CASE Receive(t)
  BY <1>1, ReceiveKeeps
<1>2. CASE Peek(t)
  BY <1>2, PeekKeeps
<1>3. CASE NotNow(t)
  BY <1>3, NotNowKeeps
<1>4. CASE Suspend(t)
  BY <1>4, SuspendKeeps
<1>5. CASE prvLockQueue(t)
  BY <1>5, LockKeeps
<1>6. CASE xTaskCheckForTimeOut(t)
  BY <1>6, CheckKeeps
<1>7. CASE Recheck(t)
  BY <1>7, RecheckKeeps
<1>8. CASE Inherit(t)
  BY <1>8, InheritKeeps
<1>9. CASE Place(t)
  BY <1>9, PlaceKeeps
<1>10. CASE UnlockTx(t)
  BY <1>10, UnlockTxKeeps
<1>11. CASE UnlockRx(t)
  BY <1>11, UnlockRxKeeps
<1>12. CASE Resume(t)
  BY <1>12, ResumeKeeps
<1>13. CASE Yield(t)
  BY <1>13, YieldKeeps
<1>14. CASE Delayed(t)
  BY <1>14, DelayedKeeps
<1>15. CASE Expired(t)
  BY <1>15, ExpiredKeeps
<1>16. CASE Disinherit(t)
  BY <1>16, DisinheritKeeps
<1>17. CASE NotifyTake(t)
  BY <1>17, NotifyTakeKeeps
<1>18. CASE Notified(t)
  BY <1>18, NotifiedKeeps
<1> QED
  BY <1>1, <1>2, <1>3, <1>4, <1>5, <1>6, <1>7, <1>8, <1>9, <1>10, <1>11, <1>12, <1>13,
     <1>14, <1>15, <1>16, <1>17, <1>18 DEF Step

\* every interrupt does,
LEMMA InvIsr ==
    ASSUME WInv, Isr
    PROVE  WInv'
<1>1. PICK c \in IsrCalls : \/ c.op = "send" /\ SendFromISR(c.obj)
                            \/ c.op = "receive" /\ ReceiveFromISR(c.obj)
                            \/ c.op = "notify" /\ vTaskNotifyGiveFromISR(c.obj)
  BY DEF Isr
<1>2. c \in IsrCallSet
  BY <1>1, KernelAssumption
<1>3. c.op \in {"send", "receive"} => c.obj \in Object
  BY <1>2 DEF IsrCallSet
<1>4. c.op = "notify" => c.obj \in Task
  BY <1>2 DEF IsrCallSet
<1>5. CASE c.op = "send" /\ SendFromISR(c.obj)
  BY <1>3, <1>5, SendFromISRKeeps
<1>6. CASE c.op = "receive" /\ ReceiveFromISR(c.obj)
  BY <1>3, <1>6, ReceiveFromISRKeeps
<1>7. CASE c.op = "notify" /\ vTaskNotifyGiveFromISR(c.obj)
  BY <1>4, <1>7, NotifyKeeps
<1> QED
  BY <1>1, <1>5, <1>6, <1>7

\* and so does everything the system does
LEMMA InvNext ==
    ASSUME WInv, [Next]_vars
    PROVE  WInv'
<1>1. CASE \E t \in Task : Send(t)
  BY <1>1, SendKeeps
<1>2. CASE PendSV
  BY <1>2, PendSVKeeps
<1>3. CASE \E t \in Task : Step(t) \/ Disinherit(t)
  BY <1>3, InvStep
<1>4. CASE \E t \in Task : \E c \in Calls[t] : Call(t, c)
  BY <1>4, CallKeeps
<1>5. CASE Isr
  BY <1>5, InvIsr
<1>6. CASE SysTick
  BY <1>6, SysTickKeeps
<1>7. CASE UNCHANGED vars
  <2>1. k' = k /\ q' = q /\ th' = th
    BY <1>7 DEF vars
  <2>2. Types' /\ Control' /\ LockedBy'
    BY <2>1 DEF WInv, Types, QState, Control, LockedBy, Op, Obj
  <2>3. Sides'
    BY <2>1 DEF WInv, Sides
  <2> QED
    BY <2>2, <2>3 DEF WInv
<1> QED
  BY <1>1, <1>2, <1>3, <1>4, <1>5, <1>6, <1>7 DEF Next

---------------------------------------------------------------------------
(* Who a send and a receive wake *)

\* A send wakes the first receiver that waits,
LEMMA SendWakes ==
    ASSUME WInv, NEW t \in Task, Send(t)
    PROVE  /\ Obj(t) \in Object /\ Woke(k, k', First(q[Obj(t)].recv))
           /\ First(q[Obj(t)].recv) \subseteq In(q[Obj(t)].recv)
<1> DEFINE o == Obj(t)
           mutex == Type[o] = "mutex"
           k1 == IF mutex THEN xTaskPriorityDisinherit(k) ELSE k
           list == q[o].recv
           ts == First(list)
<1>1. Types /\ k \in KState /\ Op(t) = "send"
  BY DEF WInv, Types, Send
<1>2. o \in Object
  BY <1>1, ThreadIs DEF Queueing, Sending
<1>3. list \in Seq(Task)
  BY <1>1, <1>2, ObjectIs
<1>4. k' = IF list = << >> /\ mutex /\ Disinherits(k) THEN portYIELD(k1) ELSE WakeFirst(k1, list)
  BY DEF Send
<1>5. Woke(k, k1, {})
  BY <1>1, Disinheriting, WokeNobody
<1>6. k1 \in KState
  BY <1>5 DEF Woke
<1> HIDE DEF k1
<1>7. CASE list = << >> /\ mutex /\ Disinherits(k)
  <2>1. Woke(k1, k', {})
    BY <1>4, <1>6, <1>7, Yields
  <2>2. Woke(k, k', {} \cup {})
    BY <1>1, <1>5, <2>1, WokeTwice
  <2>3. ts = {}
    BY <1>7 DEF First
  <2> QED
    BY <1>2, <2>2, <2>3
<1>8. CASE ~ (list = << >> /\ mutex /\ Disinherits(k))
  <2>1. Woke(k1, k', ts)
    BY <1>3, <1>4, <1>6, <1>8, WakesFirst
  <2>2. Woke(k, k', {} \cup ts)
    BY <1>1, <1>5, <2>1, WokeTwice
  <2> QED
    BY <1>2, <1>3, <2>2, FirstIs
<1> QED
  BY <1>7, <1>8

\* and a receive the first sender
LEMMA ReceiveWakes ==
    ASSUME WInv, NEW t \in Task, Receive(t)
    PROVE  /\ Obj(t) \in Object /\ Woke(k, k', First(q[Obj(t)].send))
           /\ First(q[Obj(t)].send) \subseteq In(q[Obj(t)].send)
<1> DEFINE o == Obj(t)
           mutex == Type[o] = "mutex"
           k1 == pvTaskIncrementMutexHeldCount(k, mutex)
           list == q[o].send
           ts == First(list)
<1>1. Types /\ k \in KState /\ Op(t) \in {"receive", "take"}
  BY DEF WInv, Types, Receive
<1>2. o \in Object
  BY <1>1, ThreadIs DEF Queueing, Receiving
<1>3. list \in Seq(Task)
  BY <1>1, <1>2, ObjectIs
<1>4. k' = WakeFirst(k1, list)
  BY DEF Receive
<1>5. Woke(k, k1, {})
  <2>1. mutex \in BOOLEAN
    OBVIOUS
  <2> HIDE DEF mutex
  <2> QED
    BY <1>1, <2>1, CountsMutex
<1>6. k1 \in KState
  BY <1>5 DEF Woke
<1> HIDE DEF k1
<1>7. Woke(k1, k', ts)
  BY <1>3, <1>4, <1>6, WakesFirst
<1>8. Woke(k, k', {} \cup ts)
  BY <1>1, <1>5, <1>7, WokeTwice
<1> QED
  BY <1>2, <1>3, <1>8, FirstIs
---------------------------------------------------------------------------
(* Waits: what the times of a call, of its lists and of the clock are to    *)
(* each other                                                               *)

DelayedLists == {"delayed", "overflow"}

\* The wait of a call in progress has begun, and ends by itself: Timed
Times(in) ==
    /\ in.call.ticks # 0
    /\ \/ in.call.op = "delay" /\ in.pc # "suspend"
       \/ in.call.ticks # portMAX_DELAY /\ (in.timed \/ in.pc = "woken")

\* The ticks a task has yet to wait, those held back among them
ToGo(r, x) == x.in.call.ticks - x.in.waited + r.pended

\* A task in a delayed list is woken in g ticks: its list, its wake time and the
\* time of the next wake-up agree
OnTime(r, t, g) ==
    /\ r.list[t] \in DelayedLists => g \in 1 .. TickMod - 1
    /\ r.list[t] = "delayed"  => r.wake[t] = r.tick + g /\ r.next <= r.wake[t]
    /\ r.list[t] = "overflow" => r.wake[t] = r.tick + g - TickMod

\* The ticks from one value of the clock to another
Since(at, tick) == IF tick < at THEN tick - at + TickMod ELSE tick - at

\* The locals of a call, by where it is.  A time-out that has run down is 0
CallTime(in) ==
    /\ in.pc = "run" => in = Outside
    /\ in.left <= in.call.ticks
    /\ in.left # 0 => (in.left = portMAX_DELAY <=> in.call.ticks = portMAX_DELAY)
    /\ in.timed => in.call.op \in Queueing /\ in.call.ticks # 0
    /\ ~ in.timed => in.left = in.call.ticks /\ ~ in.wrapped
    /\ ~ in.timed /\ in.call.op \in Queueing => in.pc = "try" /\ in.waited = 0
    /\ in.timed /\ in.left = 0 =>
          in.call.ticks # portMAX_DELAY /\ in.waited >= in.call.ticks
    /\ in.pc \in {"suspend", "lock", "check", "recheck", "inherit", "place"} =>
          in.left # 0
    /\ in.pc \in {"expired", "disinherit"} \/ in.after = "expired" => in.left = 0
    /\ in.after \in {"block", "retry", "expired"} =>
          in.pc \in {"unlockTx", "unlockRx", "resume"}
    /\ in.call.op = "notifyTake" => in.pc \in {"try", "woken"}
    /\ in.call.op = "delay" => in.pc \in {"suspend", "place", "resume", "yield", "woken"}
    /\ in.call.op = "notifyTake" /\ in.pc = "try" => in.waited = 0
    /\ in.call.op = "delay" /\ in.pc = "suspend" => in.waited = 0

\* What is left of a time-out, and when it was last looked at
ClockTime(r, in) ==
    /\ (in.timed /\ in.call.ticks # portMAX_DELAY /\ in.left # 0) =>
          /\ in.waited - r.pended = in.call.ticks - in.left + Since(in.at, r.tick)
          /\ in.wrapped => r.tick < in.at
    /\ (/\ in.call.op \in Queueing /\ in.call.ticks # portMAX_DELAY
        /\ in.pc \in {"recheck", "inherit", "place"}) => in.at = r.tick
    /\ in.call.op = "delay" /\ in.pc = "place" => in.waited = r.pended

\* Who waits in a delayed list, and how long; who has left it has waited, or was
\* notified
ListTime(r, t, x) ==
    /\ r.list[t] \in DelayedLists => Times(x.in)
    /\ OnTime(r, t, ToGo(r, x))
    /\ x.in.call.op = "delay" /\ x.in.pc \in {"resume", "yield", "woken"} =>
          r.list[t] \in DelayedLists \/ x.in.waited >= x.in.call.ticks
    /\ (/\ x.in.call.op = "notifyTake" /\ x.in.pc = "woken"
        /\ x.in.call.ticks # portMAX_DELAY) =>
          \/ r.list[t] \in DelayedLists \/ x.notified # 0
          \/ x.in.waited >= x.in.call.ticks

\* Who is woken early, by an item, room or a notification
Called(x) == \/ x.in.call.op \in Queueing
             \/ x.in.call.op = "notifyTake" /\ x.notified # 0

TaskTime(r, t, x) ==
    /\ CallTime(x.in) /\ ClockTime(r, x.in) /\ ListTime(r, t, x)
    /\ t \in r.pendingReady => Called(x)

TInv ==
    /\ ~ k.suspended => k.pended = 0
    /\ \A t \in Task : TaskTime(k, t, th[t])

---------------------------------------------------------------------------
(* The clock *)

\* Quotient and remainder are unique
LEMMA Remainder ==
    ASSUME NEW n \in Nat \ {0}, NEW p \in Int, NEW r \in 0 .. n - 1,
           NEW a \in Int, a = n * p + r
    PROVE  a % n = r
OBVIOUS

\* The clock goes round at most once
LEMMA Turns ==
    ASSUME NEW a \in Int, 0 - TickMod <= a, a < 2 * TickMod
    PROVE  a % TickMod = IF a < 0 THEN a + TickMod
                         ELSE IF a < TickMod THEN a ELSE a - TickMod
<1>0. TickMod \in Nat \ {0}
  BY Numbers
<1>1. CASE a < 0
  <2>1. a + TickMod \in 0 .. TickMod - 1 /\ a = TickMod * (0 - 1) + (a + TickMod)
    BY <1>0, <1>1
  <2> QED
    BY <1>0, <1>1, <2>1, Remainder
<1>2. CASE 0 <= a /\ a < TickMod
  <2>1. a \in 0 .. TickMod - 1 /\ a = TickMod * 0 + a
    BY <1>0, <1>2
  <2> QED
    BY <1>0, <1>2, <2>1, Remainder
<1>3. CASE a >= TickMod
  <2>1. a - TickMod \in 0 .. TickMod - 1 /\ a = TickMod * 1 + (a - TickMod)
    BY <1>0, <1>3
  <2> QED
    BY <1>0, <1>3, <2>1, Remainder
<1> QED
  BY <1>0, <1>1, <1>2, <1>3

\* Since is the difference the code takes, modulo the width of the clock
LEMMA SinceIs ==
    ASSUME NEW at \in 0 .. TickMod - 1, NEW tick \in 0 .. TickMod - 1
    PROVE  (tick - at) % TickMod = Since(at, tick) /\ Since(at, tick) \in 0 .. TickMod - 1
<1>1. TickMod \in Nat
  BY Numbers
<1> DEFINE a == tick - at
<1>2. a \in Int /\ 0 - TickMod <= a /\ a < TickMod
  BY <1>1
<1> HIDE DEF a
<1>3. a % TickMod = IF a < 0 THEN a + TickMod ELSE a
  BY <1>1, <1>2, Turns
<1> QED
  BY <1>1, <1>2, <1>3 DEF Since, a

\* Min of a set of numbers is no larger than any of them
LEMMA MinLeast ==
    ASSUME NEW S, S \subseteq Nat, NEW n \in S
    PROVE  Min(S) \in S /\ Min(S) <= n
BY Least DEF Min

\* A list keeps its time when the time of the next wake-up is looked up again
LEMMA ResetNextTime ==
    ASSUME NEW r \in KState, NEW s, s = prvResetNextTaskUnblockTime(r),
           NEW t \in Task, r.list[t] = "delayed"
    PROVE  s.next <= r.wake[t]
<1> DEFINE S == {r.wake[u] : u \in InList(r, "delayed")}
<1>1. S \subseteq Nat /\ r.wake[t] \in S
  BY FieldsOf, Numbers DEF InList
<1>2. s.next = Min(S)
  BY DEF prvResetNextTaskUnblockTime, InList, KState
<1> HIDE DEF S
<1> QED
  BY <1>1, <1>2, MinLeast

\* The delayed lists change places
LEMMA SwitchTime ==
    ASSUME NEW r \in KState, NEW s, s = taskSWITCH_DELAYED_LISTS(r), NEW t \in Task
    PROVE  /\ s.list[t] = IF r.list[t] = "delayed" THEN "overflow"
                          ELSE IF r.list[t] = "overflow" THEN "delayed" ELSE r.list[t]
           /\ s.wake = r.wake
           /\ s.list[t] = "delayed" => s.next <= s.wake[t]
<1> DEFINE l == [u \in Task |-> CASE r.list[u] = "delayed"  -> "overflow"
                                  [] r.list[u] = "overflow" -> "delayed"
                                  [] OTHER -> r.list[u]]
           u == [r EXCEPT !.list = l]
<1>1. l \in [Task -> Lists]
  BY FieldsOf DEF Lists
<1>2. s = prvResetNextTaskUnblockTime(u)
  BY DEF taskSWITCH_DELAYED_LISTS
<1>3. l[t] = IF r.list[t] = "delayed" THEN "overflow"
             ELSE IF r.list[t] = "overflow" THEN "delayed" ELSE r.list[t]
  OBVIOUS
<1> HIDE DEF l
<1>4. u \in KState /\ u.list = l /\ u.wake = r.wake
  BY <1>1 DEF KState
<1> HIDE DEF u
<1>5. s.list = l /\ s.wake = r.wake
  BY <1>2, <1>4, ResetNext
<1>6. l[t] = "delayed" => s.next <= u.wake[t]
  BY <1>2, <1>4, ResetNextTime
<1> QED
  BY <1>3, <1>4, <1>5, <1>6

\* A tick takes one from the time of every task in a delayed list, and readies
\* those whose time is over
LEMMA TickTime ==
    ASSUME NEW r \in KState, NEW s, s = Tick(r), NEW t \in Task, NEW g \in Int,
           OnTime(r, t, g)
    PROVE  /\ s.tick = IF r.tick = TickMod - 1 THEN 0 ELSE r.tick + 1
           /\ OnTime(s, t, g - 1)
           /\ IF r.list[t] \in DelayedLists
              THEN s.list[t] \in DelayedLists \/ (s.list[t] = "ready" /\ g = 1)
              ELSE s.list[t] = r.list[t]
<1> DEFINE tick == (r.tick + 1) % TickMod
           k1 == [r EXCEPT !.tick = tick]
           k2 == IF k1.tick = 0 THEN taskSWITCH_DELAYED_LISTS(k1) ELSE k1
           due == Due(k2)
           k3 == prvAddTasksToReadyList(k2, due)
<1>0. /\ TickMod \in Nat /\ TickMod > 1 /\ r.tick \in 0 .. TickMod - 1
      /\ r.wake[t] \in 0 .. TickMod - 1
  BY FieldsOf, Numbers
<1>1. tick = IF r.tick = TickMod - 1 THEN 0 ELSE r.tick + 1
  <2> DEFINE a == r.tick + 1
  <2>1. a \in Int /\ 0 - TickMod <= a /\ a < 2 * TickMod
    BY <1>0
  <2> HIDE DEF a
  <2>2. a % TickMod = IF a < 0 THEN a + TickMod
                      ELSE IF a < TickMod THEN a ELSE a - TickMod
    BY <2>1, Turns
  <2> QED
    BY <1>0, <2>2 DEF a
<1>2. tick \in 0 .. TickMod - 1
  BY <1>0, <1>1
<1>3. s = IF k2.tick < k2.next THEN k3 ELSE prvResetNextTaskUnblockTime(k3)
  BY DEF Tick
<1> HIDE DEF tick
<1>4. /\ k1 \in KState /\ k1.tick = tick /\ k1.list = r.list /\ k1.wake = r.wake
      /\ k1.next = r.next
  BY <1>2 DEF KState
<1> HIDE DEF k1
<1>5. /\ k2 \in KState /\ k2.tick = tick
      /\ k2.wake[t] = r.wake[t] /\ k2.next \in 0 .. TickMod - 1
      /\ IF r.list[t] \in DelayedLists THEN k2.list[t] \in DelayedLists
         ELSE k2.list[t] = r.list[t]
      /\ k2.list[t] = "delayed" =>
            g - 1 \in 0 .. TickMod - 1 /\ r.wake[t] = tick + (g - 1) /\ k2.next <= r.wake[t]
      /\ k2.list[t] = "overflow" =>
            g - 1 \in 1 .. TickMod - 1 /\ r.wake[t] = tick + (g - 1) - TickMod
  <2>1. CASE tick = 0
    <3>1. k2 = taskSWITCH_DELAYED_LISTS(k1)
      BY <1>4, <2>1
    <3>2. k2 \in KState /\ k2.tick = tick
      BY <1>4, <3>1, SwitchesLists DEF Later
    <3>3. /\ k2.list[t] = IF r.list[t] = "delayed" THEN "overflow"
                          ELSE IF r.list[t] = "overflow" THEN "delayed" ELSE r.list[t]
          /\ k2.wake = r.wake
          /\ k2.list[t] = "delayed" => k2.next <= r.wake[t]
      BY <1>4, <3>1, SwitchTime
    <3> HIDE DEF k2
    <3>4. r.tick = TickMod - 1
      BY <1>0, <1>1, <2>1
    <3>5. r.list[t] # "delayed"
      BY <1>0, <3>4 DEF OnTime, DelayedLists
    <3>6. r.list[t] = "overflow" => r.wake[t] = g - 1 /\ g - 1 \in 0 .. TickMod - 1
      BY <1>0, <3>4 DEF OnTime, DelayedLists
    <3>7. k2.next \in 0 .. TickMod - 1
      BY <3>2, FieldsOf
    <3> QED
      BY <1>0, <2>1, <3>2, <3>3, <3>5, <3>6, <3>7 DEF DelayedLists
  <2>2. CASE tick # 0
    <3>1. k2 = k1
      BY <1>4, <2>2
    <3> HIDE DEF k2
    <3>2. k2.next \in 0 .. TickMod - 1
      BY <1>4, <3>1, FieldsOf
    <3>3. tick = r.tick + 1
      BY <1>1, <2>2
    <3>4. r.list[t] = "delayed" =>
            g - 1 \in 0 .. TickMod - 1 /\ r.wake[t] = tick + (g - 1) /\ r.next <= r.wake[t]
      BY <1>0, <3>3 DEF OnTime, DelayedLists
    <3>5. r.list[t] = "overflow" =>
            g - 1 \in 1 .. TickMod - 1 /\ r.wake[t] = tick + (g - 1) - TickMod
      BY <1>0, <1>2, <3>3 DEF OnTime, DelayedLists
    <3> QED
      BY <1>4, <3>1, <3>2, <3>4, <3>5
  <2> QED
    BY <2>1, <2>2
<1> HIDE DEF k2
<1>6. /\ due \in SUBSET Task
      /\ t \in due <=> k2.list[t] = "delayed" /\ g = 1
  <2>1. t \in due <=> /\ k2.tick >= k2.next /\ k2.list[t] = "delayed"
                      /\ k2.wake[t] <= k2.tick
    BY <1>5, <1>0, <1>2 DEF Due, InList
  <2>2. k2.list[t] = "delayed" => (k2.tick >= k2.next /\ k2.wake[t] <= k2.tick <=> g = 1)
    BY <1>0, <1>2, <1>5
  <2> QED
    BY <2>1, <2>2 DEF Due, InList
<1> HIDE DEF due
<1>7. /\ k3 \in KState /\ k3.tick = tick /\ k3.wake[t] = r.wake[t] /\ k3.next = k2.next
      /\ k3.list[t] = IF t \in due THEN "ready" ELSE k2.list[t]
  BY <1>5, <1>6, AddToReady
<1> HIDE DEF k3
<1>8. /\ s.tick = tick /\ s.list[t] = k3.list[t] /\ s.wake[t] = r.wake[t]
      /\ s.list[t] = "delayed" => s.next <= r.wake[t]
  <2>1. CASE s = k3
    BY <1>5, <1>7, <2>1
  <2>2. CASE s = prvResetNextTaskUnblockTime(k3)
    <3>1. s.tick = k3.tick /\ s.list = k3.list /\ s.wake = k3.wake
      BY <1>7, <2>2, ResetNext
    <3>2. k3.list[t] = "delayed" => s.next <= k3.wake[t]
      BY <1>7, <2>2, ResetNextTime
    <3> QED
      BY <1>7, <3>1, <3>2
  <2> QED
    BY <1>3, <2>1, <2>2
<1>9. OnTime(s, t, g - 1)
  BY <1>0, <1>2, <1>5, <1>6, <1>7, <1>8 DEF OnTime, DelayedLists
<1>10. IF r.list[t] \in DelayedLists
       THEN s.list[t] \in DelayedLists \/ (s.list[t] = "ready" /\ g = 1)
       ELSE s.list[t] = r.list[t]
  BY <1>5, <1>6, <1>7, <1>8 DEF DelayedLists
<1> QED
  BY <1>1, <1>8, <1>9, <1>10

\* The clock n ticks later
TickAfter(tick, n) == IF tick + n < TickMod THEN tick + n ELSE tick + n - TickMod

\* From r to u, n ticks pass for a task with g to go
Aged(r, u, t, g, n) ==
    /\ u \in KState
    /\ OnTime(u, t, g - n)
    /\ IF r.list[t] \in DelayedLists
       THEN u.list[t] \in DelayedLists \/ (u.list[t] = "ready" /\ g <= n)
       ELSE u.list[t] = r.list[t]
    /\ n <= TickMod - 1 => u.tick = TickAfter(r.tick, n)

\* None is no time
LEMMA AgedNone ==
    ASSUME NEW r \in KState, NEW t \in Task, NEW g \in Int, OnTime(r, t, g)
    PROVE  Aged(r, r, t, g, 0)
<1>1. g - 0 = g
  OBVIOUS
<1>2. r.tick = TickAfter(r.tick, 0)
  BY FieldsOf, Numbers DEF TickAfter
<1> QED
  BY <1>1, <1>2 DEF Aged

\* One tick more
LEMMA AgedOne ==
    ASSUME NEW r \in KState, NEW u, NEW v, NEW t \in Task, NEW g \in Int, NEW n \in Nat,
           Aged(r, u, t, g, n), v = Tick(u)
    PROVE  Aged(r, v, t, g, n + 1)
<1> DEFINE h == g - n
<1>1. u \in KState /\ h \in Int /\ OnTime(u, t, h)
  BY DEF Aged
<1> HIDE DEF h
<1>2. /\ v.tick = IF u.tick = TickMod - 1 THEN 0 ELSE u.tick + 1
      /\ OnTime(v, t, h - 1)
      /\ IF u.list[t] \in DelayedLists
         THEN v.list[t] \in DelayedLists \/ (v.list[t] = "ready" /\ h = 1)
         ELSE v.list[t] = u.list[t]
  BY <1>1, TickTime
<1>3. v \in KState
  BY <1>1, Ticks DEF Later
<1>4. h - 1 = g - (n + 1)
  BY DEF h
<1>5. IF r.list[t] \in DelayedLists
      THEN v.list[t] \in DelayedLists \/ (v.list[t] = "ready" /\ g <= n + 1)
      ELSE v.list[t] = r.list[t]
  <2>1. h = 1 => g <= n + 1
    BY DEF h
  <2>2. g <= n => g <= n + 1
    OBVIOUS
  <2>3. "ready" \notin DelayedLists
    BY DEF DelayedLists
  <2> QED
    BY <1>2, <2>1, <2>2, <2>3 DEF Aged
<1>6. n + 1 <= TickMod - 1 => v.tick = TickAfter(r.tick, n + 1)
  <2>1. TickMod \in Nat /\ r.tick \in 0 .. TickMod - 1
    BY Numbers, FieldsOf
  <2>2. n + 1 <= TickMod - 1 => u.tick = TickAfter(r.tick, n)
    BY <2>1 DEF Aged
  <2> QED
    BY <1>2, <2>1, <2>2 DEF TickAfter
<1> QED
  BY <1>2, <1>3, <1>4, <1>5, <1>6 DEF Aged

\* What does not concern lists and clock makes nobody older
LEMMA AgedSame ==
    ASSUME NEW r, NEW u, NEW v \in KState, NEW t \in Task, NEW g, NEW n, Aged(r, u, t, g, n),
           v.list = u.list, v.wake = u.wake, v.tick = u.tick, v.next = u.next
    PROVE  Aged(r, v, t, g, n)
BY DEF Aged, OnTime

\* The ticks held back
LEMMA PendedTime ==
    ASSUME NEW r \in KState, NEW s, s = PendedTicks(r), NEW t \in Task, NEW g \in Int,
           OnTime(r, t, g)
    PROVE  Aged(r, s, t, g, r.pended) /\ s.pended = 0
<1> DEFINE f == CHOOSE h : PendedRest(r, h)
           Reached == {n \in Nat : n <= MaxPended => Aged(r, f[n], t, g, n)}
<1>1. PendedRest(r, f)
  BY PendedRestExists
<1>2. s = [f[r.pended] EXCEPT !.pended = 0]
  BY PendedTicksDef
<1> HIDE DEF f
<1>3. f[0] = r
  BY <1>1, Numbers DEF PendedRest
<1>4. 0 \in Reached
  BY <1>3, AgedNone
<1>5. ASSUME NEW n \in Nat, n \in Reached
      PROVE  n + 1 \in Reached
  <2> SUFFICES ASSUME n + 1 <= MaxPended
               PROVE  Aged(r, f[n + 1], t, g, n + 1)
    OBVIOUS
  <2> DEFINE u == f[n]  v == Tick(u)  y == SwitchRequired(u, v)
  <2>1. Aged(r, u, t, g, n)
    BY <1>5, Numbers
  <2>2. f[n + 1] = [v EXCEPT !.yieldPending = y]
    <3>1. n + 1 \in 0 .. MaxPended /\ n + 1 # 0 /\ (n + 1) - 1 = n
      BY Numbers
    <3> QED
      BY <1>1, <3>1 DEF PendedRest
  <2>3. y \in BOOLEAN
    BY <2>1 DEF SwitchRequired, KState, Aged
  <2> HIDE DEF u, y
  <2>4. Aged(r, v, t, g, n + 1)
    BY <2>1, AgedOne
  <2> HIDE DEF v
  <2>5. v \in KState
    BY <2>4 DEF Aged
  <2> DEFINE w == f[n + 1]
  <2>6. /\ w \in KState /\ w.list = v.list /\ w.wake = v.wake /\ w.tick = v.tick
        /\ w.next = v.next
    BY <2>2, <2>3, <2>5 DEF KState
  <2> HIDE DEF w
  <2>7. Aged(r, w, t, g, n + 1)
    BY <2>4, <2>6, AgedSame
  <2> QED
    BY <2>7 DEF w
<1>6. Nat \subseteq Reached
  <2> HIDE DEF Reached
  <2> QED
    BY ONLY <1>4, <1>5, Induction
<1> DEFINE u == f[r.pended]  none == 0
<1>7. Aged(r, u, t, g, r.pended)
  BY <1>6, FieldsOf, Numbers
<1>8. none \in 0 .. MaxPended /\ s = [u EXCEPT !.pended = none]
  BY <1>2, Numbers
<1> HIDE DEF u, none
<1>9. u \in KState
  BY <1>7 DEF Aged
<1>10. /\ s \in KState /\ s.list = u.list /\ s.wake = u.wake /\ s.tick = u.tick
       /\ s.next = u.next /\ s.pended = none
  BY <1>8, <1>9 DEF KState
<1> QED
  BY <1>7, <1>10, AgedSame DEF none

\* At the end of a suspension those held back are ready, and for the others the
\* ticks held back pass
LEMMA ResumeTime ==
    ASSUME NEW r \in KState, NEW s, s = xTaskResumeAll(r), NEW t \in Task, NEW g \in Int,
           OnTime(r, t, g)
    PROVE  /\ s.pended = 0 /\ OnTime(s, t, g - r.pended)
           /\ IF t \in r.pendingReady THEN s.list[t] = "ready"
              ELSE IF r.list[t] \in DelayedLists
              THEN s.list[t] \in DelayedLists \/ (s.list[t] = "ready" /\ g <= r.pended)
              ELSE s.list[t] = r.list[t]
           /\ r.pended <= TickMod - 1 => s.tick = TickAfter(r.tick, r.pended)
<1> DEFINE k0 == prvAddTasksToReadyList(r, r.pendingReady)
           y == k0.yieldPending \/ \E u \in r.pendingReady : r.prio[u] >= r.prio[r.cur]
           no == FALSE  none == {}
           k1 == [k0 EXCEPT !.suspended = no, !.pendingReady = none, !.yieldPending = y]
           k2 == IF r.pendingReady = {} THEN k1 ELSE prvResetNextTaskUnblockTime(k1)
           k3 == PendedTicks(k2)
           sv == k3.pendSV \/ k3.yieldPending
<1>1. s = [k3 EXCEPT !.pendSV = sv]
  BY DEF xTaskResumeAll
<1>2. r.pendingReady \in SUBSET Task
  BY FieldsOf
<1>3. /\ k0 \in KState /\ k0.tick = r.tick /\ k0.next = r.next /\ k0.wake = r.wake
      /\ k0.pended = r.pended
      /\ k0.list[t] = IF t \in r.pendingReady THEN "ready" ELSE r.list[t]
  BY <1>2, AddToReady
<1> HIDE DEF k0
<1>4. no \in BOOLEAN /\ none \in SUBSET Task /\ y \in BOOLEAN
  BY <1>3, FieldsOf
<1> HIDE DEF no, none, y
<1>5. /\ k1 \in KState /\ k1.list = k0.list /\ k1.tick = r.tick /\ k1.next = r.next
      /\ k1.wake = r.wake /\ k1.pended = r.pended
  BY <1>3, <1>4 DEF KState
<1> HIDE DEF k1
<1>6. /\ k2 \in KState /\ k2.list = k1.list /\ k2.tick = r.tick /\ k2.wake = r.wake
      /\ k2.pended = r.pended
      /\ k2.list[t] = "delayed" => k2.next <= k2.wake[t]
  <2>1. CASE k2 = k1
    BY <1>3, <1>5, <2>1 DEF OnTime
  <2>2. CASE k2 = prvResetNextTaskUnblockTime(k1)
    <3>1. /\ k2 \in KState /\ k2.list = k1.list /\ k2.tick = k1.tick /\ k2.wake = k1.wake
          /\ k2.pended = k1.pended
      BY <1>5, <2>2, ResetNext
    <3>2. k1.list[t] = "delayed" => k2.next <= k1.wake[t]
      BY <1>5, <2>2, ResetNextTime
    <3> QED
      BY <1>5, <3>1, <3>2
  <2> QED
    BY <2>1, <2>2
<1> HIDE DEF k2
<1>7. OnTime(k2, t, g)
  BY <1>3, <1>5, <1>6 DEF OnTime, DelayedLists
<1>8. Aged(k2, k3, t, g, k2.pended) /\ k3.pended = 0
  BY <1>6, <1>7, PendedTime
<1> HIDE DEF k3
<1>9. k3 \in KState /\ sv \in BOOLEAN
  BY <1>8, FieldsOf DEF Aged
<1> HIDE DEF sv
<1>10. /\ s.list = k3.list /\ s.wake = k3.wake /\ s.tick = k3.tick /\ s.next = k3.next
       /\ s.pended = k3.pended /\ s \in KState
  BY <1>1, <1>9 DEF KState
<1>11. Aged(k2, s, t, g, r.pended)
  BY <1>6, <1>8, <1>10, AgedSame
<1> QED
  BY <1>3, <1>5, <1>6, <1>8, <1>10, <1>11 DEF Aged, DelayedLists

---------------------------------------------------------------------------
(* Steps in which no time passes *)

\* From r to s no time passes, and the tasks of ts are woken; the lists of t may
\* change
Instant(r, s, t, ts) ==
    /\ s.tick = r.tick /\ s.next <= r.next /\ s.pended = r.pended
    /\ r.suspended => s.suspended
    /\ s.pendingReady \subseteq r.pendingReady \cup ts
    /\ \A u \in Task : u # t =>
          /\ s.wake[u] = r.wake[u]
          /\ s.list[u] = r.list[u] \/ (u \in ts /\ s.list[u] = "ready")

\* Tasks are woken in an instant,
LEMMA WokeInstant ==
    ASSUME NEW r \in KState, NEW s, NEW t, NEW ts, Woke(r, s, ts)
    PROVE  Instant(r, s, t, ts)
<1>1. r.next <= r.next
  BY FieldsOf, Numbers
<1> QED
  BY <1>1 DEF Woke, AtOnce, Instant

\* and where nothing changes it is the same instant
LEMMA SameInstant ==
    ASSUME NEW r \in KState, NEW t
    PROVE  Instant(r, r, t, {})
<1>1. r.next <= r.next
  BY FieldsOf, Numbers
<1> QED
  BY <1>1 DEF Instant

\* The fields of a thread, and of its call
LEMMA InIs ==
    ASSUME Types, NEW t \in Task
    PROVE  /\ th[t] \in Thread /\ th[t].in \in ThreadType
           /\ th[t].in.left \in 0 .. portMAX_DELAY /\ th[t].in.waited \in 0 .. portMAX_DELAY
           /\ th[t].in.timed \in BOOLEAN /\ th[t].in.wrapped \in BOOLEAN
           /\ th[t].in.at \in 0 .. TickMod - 1
           /\ th[t].in.call.ticks \in 0 .. portMAX_DELAY
           /\ th[t].in.call = NoCall \/ th[t].in.call \in CallSet
           /\ th[t].notified \in 0 .. MaxNotified
<1>1. th[t] \in Thread /\ th[t].in \in ThreadType /\ th[t].in.call \in AnyCall
  BY ThreadIs
<1>2. th[t].in.call = NoCall \/ th[t].in.call \in CallSet
  BY <1>1, KernelAssumption DEF AnyCall
<1>3. th[t].in.call.ticks \in 0 .. portMAX_DELAY
  BY <1>2, Numbers DEF NoCall, CallSet
<1> QED
  BY <1>1, <1>2, <1>3 DEF Thread, ThreadType

\* A task that does not make the step, and is called if it is woken
LEMMA OtherTime ==
    ASSUME NEW r \in KState, NEW s, NEW t, NEW ts, Instant(r, s, t, ts),
           s \in KState, NEW u \in Task, u # t, NEW x, TaskTime(r, u, x),
           u \in ts => Called(x)
    PROVE  TaskTime(s, u, x)
<1>1. /\ s.tick = r.tick /\ s.next <= r.next /\ s.pended = r.pended
      /\ s.wake[u] = r.wake[u]
      /\ s.list[u] = r.list[u] \/ (u \in ts /\ s.list[u] = "ready")
      /\ u \in s.pendingReady => u \in r.pendingReady \/ u \in ts
  BY DEF Instant
<1>2. ClockTime(s, x.in)
  BY <1>1 DEF ClockTime, TaskTime
<1>3. ToGo(s, x) = ToGo(r, x)
  BY <1>1 DEF ToGo
<1>4. CASE s.list[u] = r.list[u]
  <2>1. s.next \in Int /\ r.next \in Int /\ r.wake[u] \in Int
    BY FieldsOf, Numbers
  <2>2. r.next <= r.wake[u] => s.next <= r.wake[u]
    BY <1>1, <2>1
  <2>3. OnTime(s, u, ToGo(r, x))
    BY <1>1, <1>4, <2>2 DEF ListTime, TaskTime, OnTime
  <2>4. ListTime(s, u, x)
    BY <1>3, <1>4, <2>3 DEF ListTime, TaskTime
  <2> QED
    BY <1>1, <1>2, <2>4 DEF TaskTime
<1>5. CASE u \in ts /\ s.list[u] = "ready"
  <2>1. /\ x.in.call.op # "delay" /\ (x.in.call.op = "notifyTake" => x.notified # 0)
    BY <1>5 DEF Called, Queueing, Receiving, Sending
  <2>2. ListTime(s, u, x)
    BY <1>5, <2>1 DEF ListTime, OnTime, DelayedLists
  <2> QED
    BY <1>2, <1>5, <2>2 DEF TaskTime
<1> QED
  BY <1>1, <1>4, <1>5

\* One task makes a step at an instant, and goes on in time
LEMMA TimeStep ==
    ASSUME WInv, TInv, k' \in KState, NEW t, NEW ts, Instant(k, k', t, ts),
           \A u \in Task : u # t => th'[u] = th[u],
           \A u \in Task : u \in ts /\ u # t => Called(th[u]),
           t \in Task => TaskTime(k', t, th'[t])
    PROVE  TInv'
<1>1. k \in KState
  BY DEF WInv, Types
<1>2. ~ k'.suspended => k'.pended = 0
  BY DEF TInv, Instant
<1>3. ASSUME NEW u \in Task
      PROVE  TaskTime(k', u, th'[u])
  <2>1. CASE u = t
    BY <2>1
  <2>2. CASE u # t
    BY <1>1, <2>2, OtherTime DEF TInv
  <2> QED
    BY <2>1, <2>2
<1> QED
  BY <1>2, <1>3 DEF TInv

\* What the invariants say of the running task where it has not put itself on
\* a list
LEMMA AtReady ==
    ASSUME WInv, TInv, NEW t \in Task, NEW pc, At(t, pc),
           pc \notin {"unlockTx", "unlockRx", "resume", "yield"}
    PROVE  /\ k.list[t] = "ready" /\ TaskTime(k, t, th[t]) /\ th[t].in.pc = pc
           /\ t = k.cur /\ k \in KState
           /\ pc \notin Inside => k.pended = 0 /\ k.pendingReady = {}
<1>1. t \in ReadyTasks(k)
  BY AtIs DEF HasBlocked
<1>2. th[t].in.pc = pc /\ t = k.cur /\ TaskTime(k, t, th[t])
  BY AtIs DEF TInv
<1>3. pc \notin Inside => k.pended = 0 /\ k.pendingReady = {}
  BY AtIs DEF TInv
<1> QED
  BY <1>1, <1>2, <1>3 DEF ReadyTasks, WInv, Types

\* A ready task on its way
LEMMA ReadyTime ==
    ASSUME NEW r, NEW t, NEW x, r.list[t] = "ready",
           CallTime(x.in), ClockTime(r, x.in), t \in r.pendingReady => Called(x),
           x.in.call.op = "delay" /\ x.in.pc \in {"resume", "yield", "woken"} =>
               x.in.waited >= x.in.call.ticks,
           (/\ x.in.call.op = "notifyTake" /\ x.in.pc = "woken"
            /\ x.in.call.ticks # portMAX_DELAY) =>
               x.notified # 0 \/ x.in.waited >= x.in.call.ticks
    PROVE  TaskTime(r, t, x)
BY DEF TaskTime, ListTime, OnTime, DelayedLists

\* A task outside any call has nothing to wait for
LEMMA OutsideTime ==
    /\ CallTime(Outside) /\ \A r : ClockTime(r, Outside)
    /\ Outside.call.op = "none" /\ Outside.pc = "run"
    /\ ~ Outside.timed /\ ~ Outside.wrapped /\ Outside.waited = 0
    /\ Outside.after \notin {"block", "retry", "expired"}
<1> DEFINE in == Outside
<1>1. /\ in.pc = "run" /\ in.call.op = "none" /\ in.call.ticks = 0
      /\ in.left = 0 /\ ~ in.timed /\ ~ in.wrapped
      /\ in.waited = 0 /\ in = Outside
  BY DEF Outside, NoCall
<1>4. in.after \notin {"block", "retry", "expired"}
  BY Zenon DEF Outside
<1> HIDE DEF in
<1>2. CallTime(in)
  BY <1>1, <1>4 DEF CallTime, Queueing, Receiving, Sending
<1>3. \A r : ClockTime(r, in)
  BY <1>1 DEF ClockTime, Queueing, Receiving, Sending
<1> QED
  BY <1>1, <1>2, <1>3, <1>4 DEF in

\* The call of t goes on as in2 says
LEMMA Moved ==
    ASSUME Types, NEW t \in Task, NEW in2, th' = [th EXCEPT ![t].in = in2]
    PROVE  /\ th'[t].in = in2 /\ th'[t].notified = th[t].notified
           /\ \A u \in Task : u # t => th'[u] = th[u]
<1> DEFINE x == [th[t] EXCEPT !.in = in2]
<1>1. th[t] \in Thread /\ th \in [Task -> Thread]
  BY DEF Types
<1>2. x.in = in2 /\ x.notified = th[t].notified
  BY <1>1 DEF Thread
<1>3. th' = [th EXCEPT ![t] = x]
  OBVIOUS
<1> HIDE DEF x
<1> QED
  BY <1>1, <1>2, <1>3

\* What a ready task's call needs to go on in time
GoesOnInTime(in2, notified) ==
    /\ CallTime(in2) /\ ClockTime(k, in2)
    /\ in2.call.op = "delay" /\ in2.pc \in {"resume", "yield", "woken"} =>
          in2.waited >= in2.call.ticks
    /\ (/\ in2.call.op = "notifyTake" /\ in2.pc = "woken"
        /\ in2.call.ticks # portMAX_DELAY) =>
          notified # 0 \/ in2.waited >= in2.call.ticks

\* A step of a task that is ready and stays so
LEMMA ReadyStep ==
    ASSUME WInv, TInv, k' \in KState, NEW t \in Task, NEW pc, At(t, pc),
           pc \notin {"unlockTx", "unlockRx", "resume", "yield"},
           NEW ts, t \notin ts, \A u \in Task : u \in ts => Called(th[u]),
           Instant(k, k', t, ts), k'.list[t] = k.list[t],
           \A u \in Task : u # t => th'[u] = th[u],
           GoesOnInTime(th'[t].in, th'[t].notified)
    PROVE  TInv'
<1>1. k.list[t] = "ready" /\ t = k.cur
  BY AtReady
<1>2. t \notin k'.pendingReady
  <2>1. t \notin k.pendingReady
    BY <1>1 DEF WInv, Control, ReadyTasks
  <2> QED
    BY <2>1 DEF Instant
<1>3. ClockTime(k', th'[t].in)
  BY DEF Instant, ClockTime, GoesOnInTime
<1> DEFINE x == th'[t]
<1>4. TaskTime(k', t, x)
  <2> HIDE DEF x
  <2>1. CallTime(x.in) /\ GoesOnInTime(x.in, x.notified) /\ ClockTime(k', x.in)
    BY <1>3 DEF GoesOnInTime, x
  <2> QED
    BY <1>1, <1>2, <2>1, ReadyTime DEF GoesOnInTime
<1> QED
  BY <1>4, TimeStep

\* The same, when the tasks of ts are woken
LEMMA ReadyWakes ==
    ASSUME WInv, TInv, NEW t \in Task, NEW pc, At(t, pc),
           pc \notin {"unlockTx", "unlockRx", "resume", "yield"},
           NEW ts, Woke(k, k', ts), \A u \in ts : Called(th[u]) /\ u \notin AwakeTasks(k),
           NEW in2, th' = [th EXCEPT ![t].in = in2], GoesOnInTime(in2, th[t].notified)
    PROVE  TInv'
<1>1. k.list[t] = "ready" /\ t \in AwakeTasks(k) /\ k \in KState
  BY AtReady DEF AwakeTasks, ReadyTasks
<1>2. t \notin ts
  BY <1>1
<1>3. Instant(k, k', t, ts) /\ k'.list[t] = k.list[t] /\ k' \in KState
  BY <1>1, <1>2, WokeInstant DEF Woke, AtOnce
<1>4. /\ th'[t].in = in2 /\ th'[t].notified = th[t].notified
      /\ \A u \in Task : u # t => th'[u] = th[u]
  BY Moved DEF WInv
<1> QED
  BY <1>2, <1>3, <1>4, ReadyStep

\* The same, when nobody is woken
LEMMA ReadyGoes ==
    ASSUME WInv, TInv, NEW t \in Task, NEW pc, At(t, pc),
           pc \notin {"unlockTx", "unlockRx", "resume", "yield"}, Woke(k, k', {}),
           NEW in2, th' = [th EXCEPT ![t].in = in2], GoesOnInTime(in2, th[t].notified)
    PROVE  TInv'
<1> DEFINE none == {}
<1>1. Woke(k, k', none) /\ \A u \in none : Called(th[u]) /\ u \notin AwakeTasks(k)
  OBVIOUS
<1> HIDE DEF none
<1> QED
  BY <1>1, ReadyWakes

\* A call that returns needs nothing more
LEMMA OutsideInTime == \A n : GoesOnInTime(Outside, n)
BY OutsideTime DEF GoesOnInTime

\* A call returns, and may wake the tasks of ts
LEMMA ReturnTime ==
    ASSUME WInv, TInv, NEW t \in Task, NEW pc, At(t, pc),
           pc \notin {"unlockTx", "unlockRx", "resume", "yield"}, Return(t),
           NEW ts, Woke(k, k', ts), \A u \in ts : Called(th[u]) /\ u \notin AwakeTasks(k)
    PROVE  TInv'
<1>1. th' = [th EXCEPT ![t].in = Outside]
  BY DEF Return
<1> QED
  BY <1>1, OutsideInTime, ReadyWakes

\* Who waits at an object is called
LEMMA ListsCalled ==
    ASSUME WInv, NEW o \in Object, NEW ts,
           ts \subseteq In(q[o].recv) \/ ts \subseteq In(q[o].send)
    PROVE  \A u \in ts : Called(th[u]) /\ u \notin AwakeTasks(k) /\ u \in Task
<1>1. \A u \in ts : /\ u \in Task /\ u \notin AwakeTasks(k)
                    /\ th[u].in.call.op \in Receiving \cup Sending
  BY ListsOf
<1> QED
  BY <1>1 DEF Called, Queueing

\* An item is sent,
LEMMA SendTime ==
    ASSUME WInv, TInv, NEW t \in Task, Send(t)
    PROVE  TInv'
<1>1. At(t, "try") /\ Return(t)
  BY DEF Send
<1>2. /\ Obj(t) \in Object /\ Woke(k, k', First(q[Obj(t)].recv))
      /\ First(q[Obj(t)].recv) \subseteq In(q[Obj(t)].recv)
  BY SendWakes
<1> QED
  BY <1>1, <1>2, ListsCalled, ReturnTime

\* or taken,
LEMMA ReceiveTime ==
    ASSUME WInv, TInv, NEW t \in Task, Receive(t)
    PROVE  TInv'
<1>1. At(t, "try") /\ Return(t)
  BY DEF Receive
<1>2. /\ Obj(t) \in Object /\ Woke(k, k', First(q[Obj(t)].send))
      /\ First(q[Obj(t)].send) \subseteq In(q[Obj(t)].send)
  BY ReceiveWakes
<1> QED
  BY <1>1, <1>2, ListsCalled, ReturnTime

\* or looked at,
LEMMA PeekTime ==
    ASSUME WInv, TInv, NEW t \in Task, Peek(t)
    PROVE  TInv'
<1>1. /\ Types /\ k \in KState /\ At(t, "try") /\ Return(t) /\ Op(t) = "peek"
      /\ k' = WakeFirst(k, q[Obj(t)].recv)
  BY DEF WInv, Types, Peek
<1>2. Obj(t) \in Object
  BY <1>1, ThreadIs DEF Queueing, Receiving
<1>3. q[Obj(t)].recv \in Seq(Task)
  BY <1>1, <1>2, ObjectIs
<1>4. /\ Woke(k, k', First(q[Obj(t)].recv))
      /\ First(q[Obj(t)].recv) \subseteq In(q[Obj(t)].recv)
  BY <1>1, <1>3, WakesFirst, FirstIs
<1> QED
  BY <1>1, <1>2, <1>4, ListsCalled, ReturnTime

\* What interrupt handlers send and take takes no time either
LEMMA IsrTime ==
    ASSUME WInv, TInv, th' = th, NEW ts, Woke(k, k', ts),
           \A u \in ts : Called(th[u])
    PROVE  TInv'
<1>1. k \in KState /\ k' \in KState /\ NULL \notin Task
  BY KernelAssumption DEF WInv, Types, Woke
<1>2. Instant(k, k', NULL, ts)
  BY <1>1, WokeInstant
<1> QED
  BY <1>1, <1>2, TimeStep

\* An interrupt handler sends,
LEMMA SendFromISRTime ==
    ASSUME WInv, TInv, NEW o \in Object, SendFromISR(o)
    PROVE  TInv'
<1> DEFINE list == q[o].recv  locked == q[o].txLock # UNLOCKED
<1>1. Types /\ k \in KState /\ th' = th /\ k' = IF locked THEN k ELSE WakeFirst(k, list)
  BY DEF WInv, Types, SendFromISR
<1>2. list \in Seq(Task)
  BY <1>1, ObjectIs
<1>3. CASE locked
  BY <1>1, <1>3, WokeNobody, IsrTime
<1>4. CASE ~ locked
  <2>1. Woke(k, k', First(list)) /\ First(list) \subseteq In(list)
    BY <1>1, <1>2, <1>4, WakesFirst, FirstIs
  <2> QED
    BY <1>1, <2>1, ListsCalled, IsrTime
<1> QED
  BY <1>3, <1>4

\* or takes
LEMMA ReceiveFromISRTime ==
    ASSUME WInv, TInv, NEW o \in Object, ReceiveFromISR(o)
    PROVE  TInv'
<1> DEFINE list == q[o].send  locked == q[o].rxLock # UNLOCKED
<1>1. Types /\ k \in KState /\ th' = th /\ k' = IF locked THEN k ELSE WakeFirst(k, list)
  BY DEF WInv, Types, ReceiveFromISR
<1>2. list \in Seq(Task)
  BY <1>1, ObjectIs
<1>3. CASE locked
  BY <1>1, <1>3, WokeNobody, IsrTime
<1>4. CASE ~ locked
  <2>1. Woke(k, k', First(list)) /\ First(list) \subseteq In(list)
    BY <1>1, <1>2, <1>4, WakesFirst, FirstIs
  <2> QED
    BY <1>1, <2>1, ListsCalled, IsrTime
<1> QED
  BY <1>3, <1>4

---------------------------------------------------------------------------
(* The time of a call on its way *)

\* A call goes on with its times
SameTimes(in, in2) ==
    /\ in2.call = in.call /\ in2.left = in.left /\ in2.timed = in.timed
    /\ in2.wrapped = in.wrapped /\ in2.at = in.at /\ in2.waited = in.waited

\* A step that only leads on to p
LEMMA NewPc ==
    ASSUME Types, NEW t \in Task, NEW p, Goto(t, p)
    PROVE  \E in2 : /\ th' = [th EXCEPT ![t].in = in2]
                    /\ SameTimes(th[t].in, in2)
                    /\ in2.pc = p /\ in2.after = th[t].in.after
<1> DEFINE in == th[t].in
           in2 == [in EXCEPT !.pc = p]
<1>1. in \in ThreadType
  BY ThreadIs
<1>2. SameTimes(in, in2) /\ in2.pc = p /\ in2.after = in.after
  BY <1>1 DEF ThreadType, SameTimes
<1>3. th' = [th EXCEPT ![t].in = in2]
  BY <1>1 DEF Goto, Types, Thread, ThreadType
<1> QED
  BY <1>2, <1>3

\* A call that has begun to wait for an object has noted the time
LEMMA TimedIs ==
    ASSUME NEW in, CallTime(in), in.call.op \in Queueing, in.pc # "try"
    PROVE  in.timed /\ in.call.ticks # 0 /\ in.call.op # "delay" /\ in.call.op # "notifyTake"
BY DEF CallTime, Queueing, Receiving, Sending

\* A delay, and a wait for a notification, are not timed
LEMMA UntimedIs ==
    ASSUME NEW in, CallTime(in), in.call.op \in {"delay", "notifyTake"}
    PROVE  ~ in.timed /\ in.left = in.call.ticks /\ in.call.op \notin Queueing
BY DEF CallTime, Queueing, Receiving, Sending

\* A call starts
LEMMA CallInTime ==
    ASSUME WInv, TInv, NEW t \in Task, NEW c \in Calls[t], Call(t, c)
    PROVE  TInv'
<1> DEFINE in == th[t].in
           pc2 == IF c.op # "delay" THEN "try"
                  ELSE IF c.ticks = 0 THEN "yield" ELSE "suspend"
           in2 == [in EXCEPT !.call = c, !.left = c.ticks, !.pc = pc2]
<1>1. Types /\ At(t, "run") /\ k' = k
  BY DEF WInv, Call
<1>2. in \in ThreadType /\ in.pc = "run" /\ in = Outside /\ k \in KState
  BY <1>1, ThreadIs, AtReady DEF CallTime, TaskTime
<1>3. c \in CallSet
  BY KernelAssumption
<1>4. c.ticks \in 0 .. portMAX_DELAY /\ c.op \in Queueing \cup {"delay", "notifyTake"}
  BY <1>3 DEF CallSet, Queueing, Receiving, Sending
<1>5. /\ in2.pc = pc2 /\ in2.call = c /\ in2.left = c.ticks
      /\ in2.timed = in.timed /\ in2.wrapped = in.wrapped /\ in2.waited = in.waited
      /\ in2.after = in.after
  BY <1>2 DEF ThreadType
<1>6. ~ in.timed /\ ~ in.wrapped /\ in.waited = 0
      /\ in.after \notin {"block", "retry", "expired"}
  BY <1>2, OutsideTime
<1>7. th' = [th EXCEPT ![t].in = in2]
  <2>1. th' = [th EXCEPT ![t].in.call = c, ![t].in.left = c.ticks, ![t].in.pc = pc2]
    BY DEF Call
  <2> HIDE DEF pc2
  <2> QED
    BY ZenonT(40), <1>1, <1>2, <2>1 DEF Types, Thread, ThreadType
<1>8. pc2 = IF c.op # "delay" THEN "try" ELSE IF c.ticks = 0 THEN "yield" ELSE "suspend"
  OBVIOUS
<1> HIDE DEF in2, pc2, in
<1>9. CallTime(in2)
  <2>1. /\ ~ in2.timed /\ ~ in2.wrapped /\ in2.waited = 0 /\ in2.left = in2.call.ticks
        /\ in2.after \notin {"block", "retry", "expired"}
        /\ in2.left \in Int /\ in2.call.op \in Queueing \cup {"delay", "notifyTake"}
        /\ in2.pc = IF in2.call.op # "delay" THEN "try"
                    ELSE IF in2.call.ticks = 0 THEN "yield" ELSE "suspend"
    BY <1>4, <1>5, <1>6, <1>8, Numbers
  <2> QED
    BY <2>1 DEF CallTime, Queueing, Receiving, Sending
<1>10. GoesOnInTime(in2, th[t].notified)
  <2>1. pc2 \notin {"recheck", "inherit", "place", "resume", "woken"}
        /\ (pc2 = "yield" => c.ticks = 0)
    BY <1>8
  <2> QED
    BY <1>4, <1>5, <1>6, <1>9, <2>1, Numbers DEF GoesOnInTime, ClockTime
<1>11. Woke(k, k', {})
  BY <1>1, <1>2, WokeNobody
<1> QED
  BY <1>1, <1>7, <1>10, <1>11, ReadyGoes

\* The first look finds nothing: the wait begins now, if it has not begun
LEMMA NotNowTime ==
    ASSUME WInv, TInv, NEW t \in Task, NotNow(t)
    PROVE  TInv'
<1> DEFINE in == th[t].in
           at == IF in.timed THEN in.at ELSE k.tick
           in2 == [in EXCEPT !.pc = "suspend", !.timed = TRUE, !.at = at]
<1>1. Types /\ At(t, "try") /\ Blocked(t) /\ k' = k /\ k \in KState
  BY DEF WInv, Types, NotNow
<1>2. in \in ThreadType /\ in.pc = "try"
  BY <1>1, ThreadIs DEF At
<1>3. Woke(k, k', {})
  BY <1>1, WokeNobody
<1>4. CASE in.left = 0
  <2>1. Return(t)
    BY <1>4 DEF NotNow
  <2> QED
    BY <1>1, <1>3, <2>1, ReturnTime
<1>5. CASE in.left # 0
  <2>1. th' = [th EXCEPT ![t].in = in2]
    <3>1. th' = [th EXCEPT ![t].in.pc = "suspend", ![t].in.timed = TRUE,
                           ![t].in.at = IF th[t].in.timed THEN @ ELSE k.tick]
      BY <1>5 DEF NotNow
    <3> QED
      BY ZenonT(40), <1>1, <1>2, <3>1 DEF Types, Thread, ThreadType
  <2>2. /\ in2.pc = "suspend" /\ in2.call = in.call /\ in2.left = in.left /\ in2.timed
        /\ in2.wrapped = in.wrapped /\ in2.at = at /\ in2.waited = in.waited
        /\ in2.after = in.after
    BY <1>2 DEF ThreadType
  <2>3. /\ CallTime(in) /\ ClockTime(k, in) /\ k.pended = 0 /\ in.call.op \in Queueing
        /\ in.left \in 0 .. portMAX_DELAY /\ in.call.ticks \in 0 .. portMAX_DELAY
        /\ in.waited \in 0 .. portMAX_DELAY
        /\ k.tick \in 0 .. TickMod - 1 /\ portMAX_DELAY \in Nat
    <3>1. "try" \notin Inside
      BY DEF Inside
    <3> QED
      BY <1>1, <3>1, AtReady, InIs, FieldsOf, Numbers, BlockedIs
         DEF TaskTime, Blocked, Op, Queueing, Receiving, Sending
  <2>4. at = IF in.timed THEN in.at ELSE k.tick
    OBVIOUS
  <2> HIDE DEF in2, at, in
  <2>5. CallTime(in2)
    BY <1>2, <1>5, <2>2, <2>3 DEF CallTime, Queueing, Receiving, Sending
  <2>6. ClockTime(k, in2)
    <3>1. CASE in.timed
      BY <1>2, <1>5, <2>2, <2>3, <2>4, <3>1 DEF ClockTime, CallTime
    <3>2. CASE ~ in.timed
      <4>1. Since(at, k.tick) = 0 /\ in.waited = 0 /\ in.left = in.call.ticks /\ ~ in.wrapped
        BY <2>3, <2>4, <3>2 DEF Since, CallTime
      <4> QED
        BY <1>2, <1>5, <2>2, <2>3, <4>1 DEF ClockTime
    <3> QED
      BY <3>1, <3>2
  <2>7. GoesOnInTime(in2, th[t].notified)
    BY <2>2, <2>3, <2>5, <2>6 DEF GoesOnInTime, Queueing, Receiving, Sending
  <2> QED
    BY <1>1, <1>3, <2>1, <2>7, ReadyGoes
<1> QED
  BY <1>4, <1>5

\* The scheduler is suspended
LEMMA SuspendTime ==
    ASSUME WInv, TInv, NEW t \in Task, Suspend(t), k' \in KState
    PROVE  TInv'
<1> DEFINE in == th[t].in
           pc2 == IF Op(t) = "delay" THEN "place" ELSE "lock"
<1>1. /\ Types /\ At(t, "suspend") /\ k \in KState /\ k' = [k EXCEPT !.suspended = TRUE]
      /\ Goto(t, pc2)
  BY DEF WInv, Types, Suspend, vTaskSuspendAll
<1>2. PICK in2 : /\ th' = [th EXCEPT ![t].in = in2] /\ SameTimes(in, in2)
                 /\ in2.pc = pc2 /\ in2.after = in.after
  BY <1>1, NewPc
<1>3. /\ CallTime(in) /\ ClockTime(k, in) /\ k.pended = 0 /\ k.list[t] = "ready"
      /\ in.pc = "suspend"
  <2>1. "suspend" \notin Inside
    BY DEF Inside
  <2> QED
    BY <1>1, <2>1, AtReady DEF TaskTime
<1>4. in.call.op \in Queueing \cup {"delay"}
  <2>1. CallPc(in)
    BY <1>1, AtIs
  <2> QED
    BY <1>3, <2>1 DEF CallPc
<1>5. CallTime(in2)
  BY <1>2, <1>3, <1>4 DEF CallTime, SameTimes, Op, Queueing, Receiving, Sending
<1>6. ClockTime(k, in2)
  BY <1>2, <1>3, <1>4 DEF CallTime, ClockTime, SameTimes, Op, Queueing, Receiving, Sending
<1>7. GoesOnInTime(in2, th[t].notified)
  BY <1>2, <1>5, <1>6 DEF GoesOnInTime
<1>8. /\ k'.tick = k.tick /\ k'.next = k.next /\ k'.pended = k.pended /\ k'.suspended
      /\ k'.pendingReady = k.pendingReady /\ k'.list = k.list /\ k'.wake = k.wake
  BY <1>1 DEF KState
<1> DEFINE none == {}
<1>9. Instant(k, k', t, none) /\ t \notin none /\ \A u \in Task : u \in none => Called(th[u])
  <2>1. k.next <= k.next
    BY <1>1, FieldsOf, Numbers
  <2> QED
    BY <1>8, <2>1 DEF Instant
<1> HIDE DEF none
<1>10. /\ th'[t].in = in2 /\ th'[t].notified = th[t].notified
       /\ \A u \in Task : u # t => th'[u] = th[u]
  BY <1>1, <1>2, Moved
<1> QED
  BY <1>1, <1>7, <1>8, <1>9, <1>10, ReadyStep

\* The queue is locked
LEMMA LockTime ==
    ASSUME WInv, TInv, NEW t \in Task, prvLockQueue(t)
    PROVE  TInv'
<1> DEFINE in == th[t].in
<1>1. Types /\ At(t, "lock") /\ k \in KState /\ k' = k /\ Goto(t, "check")
  BY DEF WInv, Types, prvLockQueue
<1>2. PICK in2 : /\ th' = [th EXCEPT ![t].in = in2] /\ SameTimes(in, in2)
                 /\ in2.pc = "check" /\ in2.after = in.after
  BY <1>1, NewPc
<1>3. CallTime(in) /\ ClockTime(k, in) /\ in.pc = "lock" /\ CallPc(in)
  BY <1>1, AtReady, AtIs DEF TaskTime
<1>4. in.call.op \in Queueing
  BY <1>3 DEF CallPc, Inside
<1>5. CallTime(in2)
  BY <1>2, <1>3, <1>4 DEF CallTime, SameTimes, Queueing, Receiving, Sending
<1>6. GoesOnInTime(in2, th[t].notified)
  BY <1>2, <1>3, <1>5 DEF GoesOnInTime, ClockTime, SameTimes
<1>7. Woke(k, k', {})
  BY <1>1, WokeNobody
<1> QED
  BY <1>1, <1>2, <1>6, <1>7, ReadyGoes

\* The time is looked at: what has passed is taken from what is left, or nothing
\* is left
LEMMA CheckTime ==
    ASSUME WInv, TInv, NEW t \in Task, xTaskCheckForTimeOut(t)
    PROVE  TInv'
<1> DEFINE in == th[t].in
           in2 == th'[t].in
           elapsed == (k.tick - in.at) % TickMod
           zero == 0
           forever == in.left = portMAX_DELAY
           lapped  == in.wrapped /\ k.tick >= in.at
           left == in.left - elapsed
           a == [in EXCEPT !.pc = "recheck"]
           b == [in EXCEPT !.pc = "unlockTx", !.after = "expired"]
           c == [Restarted(in, elapsed) EXCEPT !.pc = "recheck"]
           d == [in EXCEPT !.pc = "unlockTx", !.after = "expired", !.left = zero]
<1>1. Types /\ At(t, "check") /\ k' = k /\ k \in KState
  BY DEF WInv, Types, xTaskCheckForTimeOut
<1>2. /\ CallTime(in) /\ ClockTime(k, in) /\ in.pc = "check" /\ CallPc(in)
      /\ in \in ThreadType
  BY <1>1, AtReady, AtIs, ThreadIs DEF TaskTime
<1>3. in.call.op \in Queueing
  BY <1>2 DEF CallPc, Inside
<1>4. in.timed /\ in.call.ticks # 0 /\ in.call.op # "delay" /\ in.call.op # "notifyTake"
  BY <1>2, <1>3, TimedIs
<1>5. /\ in.left \in 0 .. portMAX_DELAY /\ in.call.ticks \in 0 .. portMAX_DELAY
      /\ in.waited \in 0 .. portMAX_DELAY /\ in.at \in 0 .. TickMod - 1
      /\ k.tick \in 0 .. TickMod - 1 /\ k.pended \in Nat /\ portMAX_DELAY \in Nat
      /\ TickMod \in Nat /\ in.left # 0
  <2>1. k.pended \in Nat
    BY <1>1, FieldsOf, Numbers
  <2>2. in.left # 0
    BY <1>2 DEF CallTime
  <2> QED
    BY <1>1, <2>1, <2>2, InIs, FieldsOf, Numbers
<1>6. elapsed = Since(in.at, k.tick) /\ elapsed \in 0 .. TickMod - 1
  BY <1>5, SinceIs
<1>7. in2 = CASE forever -> a
              [] ~ forever /\ lapped -> b
              [] ~ forever /\ ~ lapped /\ elapsed < in.left -> c
              [] OTHER -> d
  BY <1>1 DEF xTaskCheckForTimeOut, Types
<1>8. ~ forever => in.call.ticks # portMAX_DELAY
  BY <1>2, <1>5 DEF CallTime
<1>9. ~ forever => in.waited - k.pended = in.call.ticks - in.left + elapsed /\ ~ lapped
  <2>1. ~ forever => /\ in.waited - k.pended = in.call.ticks - in.left + Since(in.at, k.tick)
                     /\ in.wrapped => k.tick < in.at
    BY <1>2, <1>4, <1>5, <1>8 DEF ClockTime
  <2>2. k.tick < in.at => ~ (k.tick >= in.at)
    BY <1>5
  <2> QED
    BY <1>6, <2>1, <2>2
<1>10. /\ SameTimes(in, a) /\ a.pc = "recheck" /\ a.after = in.after
       /\ d.call = in.call /\ d.left = zero /\ d.timed = in.timed /\ d.wrapped = in.wrapped
       /\ d.at = in.at /\ d.waited = in.waited /\ d.pc = "unlockTx" /\ d.after = "expired"
  BY <1>2 DEF ThreadType, SameTimes
<1>11. /\ c.call = in.call /\ c.left = left /\ c.timed = in.timed /\ ~ c.wrapped
       /\ c.at = k.tick /\ c.waited = in.waited /\ c.pc = "recheck" /\ c.after = in.after
  <2>1. c = [in EXCEPT !.left = left, !.at = k.tick, !.wrapped = FALSE, !.pc = "recheck"]
    BY <1>2 DEF Restarted, ThreadType
  <2> HIDE DEF left, c
  <2> QED
    BY <1>2, <2>1 DEF ThreadType
<1>12. /\ forever => in2 = a
       /\ ~ forever /\ elapsed < in.left => in2 = c
       /\ ~ forever /\ ~ (elapsed < in.left) => in2 = d
  <2> HIDE DEF a, b, c, d, forever, lapped, elapsed, in2
  <2> QED
    BY <1>7, <1>9
<1> HIDE DEF a, b, c, d, elapsed, in2, in
<1>13. CallTime(in2) /\ ClockTime(k, in2) /\ in2.call = in.call
  <2>1. CASE forever
    <3>1. CallTime(a)
      BY <1>2, <1>4, <1>5, <1>10 DEF CallTime, SameTimes
    <3>2. ClockTime(k, a)
      <4>1. in.call.ticks = portMAX_DELAY
        BY <1>2, <1>5, <2>1 DEF CallTime
      <4> QED
        BY <1>4, <1>10, <4>1 DEF ClockTime, SameTimes
    <3> QED
      BY <1>10, <1>12, <2>1, <3>1, <3>2 DEF SameTimes
  <2>2. CASE ~ forever /\ elapsed < in.left
    <3>1. left \in 1 .. portMAX_DELAY - 1 /\ left <= in.call.ticks
      BY <1>2, <1>5, <1>6, <2>2 DEF CallTime
    <3>2. in.waited - k.pended = in.call.ticks - left
      BY <1>5, <1>6, <1>9, <2>2
    <3>3. Since(k.tick, k.tick) = 0
      BY <1>5 DEF Since
    <3> HIDE DEF left, forever
    <3>4. CallTime(c)
      BY <1>2, <1>3, <1>4, <1>5, <1>8, <1>11, <2>2, <3>1 DEF CallTime
    <3>5. ClockTime(k, c)
      BY <1>4, <1>5, <1>11, <3>1, <3>2, <3>3 DEF ClockTime
    <3> QED
      BY <1>11, <1>12, <2>2, <3>4, <3>5
  <2>3. CASE ~ forever /\ ~ (elapsed < in.left)
    <3>1. in.waited >= in.call.ticks
      BY <1>5, <1>6, <1>9, <2>3
    <3>2. zero <= in.call.ticks /\ zero = 0
      BY <1>5
    <3> HIDE DEF zero, forever
    <3>3. CallTime(d)
      BY <1>2, <1>3, <1>4, <1>8, <1>10, <2>3, <3>1, <3>2 DEF CallTime
    <3>4. ClockTime(k, d)
      BY <1>4, <1>10, <3>2 DEF ClockTime
    <3> QED
      BY <1>10, <1>12, <2>3, <3>3, <3>4
  <2> QED
    BY <2>1, <2>2, <2>3
<1>14. th' = [th EXCEPT ![t].in = in2]
  BY <1>1 DEF xTaskCheckForTimeOut, Types, Thread, in2
<1>15. GoesOnInTime(in2, th[t].notified)
  BY <1>4, <1>13 DEF GoesOnInTime
<1>16. Woke(k, k', {})
  BY <1>1, WokeNobody
<1> QED
  BY <1>1, <1>14, <1>15, <1>16, ReadyGoes

\* A timed call goes on to pc2, with what is left
LEMMA TimedGoes ==
    ASSUME NEW r, NEW in, CallTime(in), ClockTime(r, in), in.timed, in.call.ticks # 0,
           in.call.op \in Queueing, NEW in2, SameTimes(in, in2), in2.pc # "run",
           in2.after \in {"block", "retry", "expired"} =>
               in2.pc \in {"unlockTx", "unlockRx", "resume"},
           in2.pc \in {"suspend", "lock", "check", "recheck", "inherit", "place"} =>
               in.left # 0,
           in2.pc \in {"recheck", "inherit", "place"} =>
               in.pc \in {"recheck", "inherit", "place"},
           in2.pc \in {"expired", "disinherit"} \/ in2.after = "expired" => in.left = 0
    PROVE  CallTime(in2) /\ ClockTime(r, in2) /\ \A n : GoesOnInTime(in2, n) <=> ClockTime(k, in2)
<1>1. in.call.op # "delay" /\ in.call.op # "notifyTake"
  BY DEF Queueing, Receiving, Sending
<1>2. CallTime(in2)
  BY <1>1 DEF CallTime, SameTimes
<1>3. ClockTime(r, in2)
  BY <1>1 DEF ClockTime, SameTimes
<1>4. \A n : GoesOnInTime(in2, n) <=> ClockTime(k, in2)
  BY <1>1, <1>2 DEF GoesOnInTime, SameTimes
<1> QED
  BY <1>2, <1>3, <1>4

\* The second look, and the holder's priority
LEMMA RecheckTime ==
    ASSUME WInv, TInv, NEW t \in Task, Recheck(t)
    PROVE  TInv'
<1> DEFINE in == th[t].in
           p == IF Type[Obj(t)] = "mutex" THEN "inherit" ELSE "place"
           b == [in EXCEPT !.pc = "unlockTx", !.after = "retry"]
<1>1. Types /\ At(t, "recheck") /\ k' = k /\ k \in KState
  BY DEF WInv, Types, Recheck
<1>2. /\ CallTime(in) /\ ClockTime(k, in) /\ in.pc = "recheck" /\ CallPc(in)
      /\ in \in ThreadType
  BY <1>1, AtReady, AtIs, ThreadIs DEF TaskTime
<1>3. in.call.op \in Queueing
  BY <1>2 DEF CallPc, Inside
<1>4. in.timed /\ in.call.ticks # 0
  BY <1>2, <1>3, TimedIs
<1>5. in.left # 0 /\ in.after \notin {"block", "retry", "expired"}
  BY <1>2 DEF CallTime
<1>6. Woke(k, k', {})
  BY <1>1, WokeNobody
<1>7. PICK in2 : /\ th' = [th EXCEPT ![t].in = in2] /\ SameTimes(in, in2)
                 /\ \/ in2.pc \in {"inherit", "place"} /\ in2.after = in.after
                    \/ in2.pc = "unlockTx" /\ in2.after = "retry"
  <2>1. CASE Blocked(t)
    <3>1. Goto(t, p)
      BY <2>1 DEF Recheck
    <3>2. PICK in2 : /\ th' = [th EXCEPT ![t].in = in2] /\ SameTimes(in, in2)
                     /\ in2.pc = p /\ in2.after = in.after
      BY <1>1, <3>1, NewPc
    <3> QED
      BY <3>2
  <2>2. CASE ~ Blocked(t)
    <3>1. th' = [th EXCEPT ![t].in = b]
      <4>1. th' = [th EXCEPT ![t].in.pc = "unlockTx", ![t].in.after = "retry"]
        BY <2>2 DEF Recheck
      <4> QED
        BY ZenonT(40), <1>1, <1>2, <4>1 DEF Types, Thread, ThreadType
    <3>2. SameTimes(in, b) /\ b.pc = "unlockTx" /\ b.after = "retry"
      BY <1>2 DEF ThreadType, SameTimes
    <3> QED
      BY <3>1, <3>2
  <2> QED
    BY <2>1, <2>2
<1>8. GoesOnInTime(in2, th[t].notified)
  <2> HIDE DEF in
  <2> QED
    BY <1>2, <1>3, <1>4, <1>5, <1>7, TimedGoes
<1> QED
  BY <1>1, <1>6, <1>7, <1>8, ReadyGoes

\* The holder of the mutex inherits
LEMMA InheritTime ==
    ASSUME WInv, TInv, NEW t \in Task, Inherit(t)
    PROVE  TInv'
<1> DEFINE in == th[t].in
           b == Inherits(k, q[Obj(t)].holder)
           in2 == [in EXCEPT !.pc = "place", !.inherited = b]
<1>1. Types /\ At(t, "inherit") /\ k \in KState
      /\ k' = xTaskPriorityInherit(k, q[Obj(t)].holder)
  BY DEF WInv, Inherit, Types
<1>2. /\ CallTime(in) /\ ClockTime(k, in) /\ in.pc = "inherit" /\ CallPc(in)
      /\ in \in ThreadType
  BY <1>1, AtReady, AtIs, ThreadIs DEF TaskTime
<1>3. in.call.op \in Queueing
  BY <1>2 DEF CallPc, Inside
<1>4. in.timed /\ in.call.ticks # 0
  BY <1>2, <1>3, TimedIs
<1>5. in.left # 0 /\ in.after \notin {"block", "retry", "expired"}
  BY <1>2 DEF CallTime
<1>6. th' = [th EXCEPT ![t].in = in2]
  BY ZenonT(40), <1>1, <1>2 DEF Inherit, Types, Thread, ThreadType
<1> HIDE DEF b
<1>7. SameTimes(in, in2) /\ in2.pc = "place" /\ in2.after = in.after
  BY <1>2 DEF ThreadType, SameTimes
<1> HIDE DEF in, in2
<1>8. GoesOnInTime(in2, th[t].notified)
  BY <1>2, <1>3, <1>4, <1>5, <1>7, TimedGoes
<1>9. Woke(k, k', {})
  BY <1>1, Inheriting
<1> QED
  BY <1>1, <1>6, <1>8, <1>9, ReadyGoes

\* Calls that return
LEMMA DelayedTime ==
    ASSUME WInv, TInv, NEW t \in Task, Delayed(t)
    PROVE  TInv'
<1>1. At(t, "woken") /\ Return(t) /\ k' = k /\ k \in KState
  BY DEF WInv, Types, Delayed
<1>2. Woke(k, k', {})
  BY <1>1, WokeNobody
<1> QED
  BY <1>1, <1>2, ReturnTime

\* The time is over
LEMMA ExpiredTime ==
    ASSUME WInv, TInv, NEW t \in Task, Expired(t)
    PROVE  TInv'
<1> DEFINE in == th[t].in
<1>1. /\ Types /\ At(t, "expired") /\ k' = k /\ k \in KState
      /\ Goto(t, "try") \/ Goto(t, "disinherit") \/ Return(t)
  BY DEF WInv, Types, Expired
<1>2. /\ CallTime(in) /\ ClockTime(k, in) /\ in.pc = "expired" /\ CallPc(in)
  BY <1>1, AtReady, AtIs DEF TaskTime
<1>3. in.call.op \in Queueing
  BY <1>2 DEF CallPc
<1>4. in.timed /\ in.call.ticks # 0
  BY <1>2, <1>3, TimedIs
<1>5. in.left = 0 /\ in.after \notin {"block", "retry", "expired"}
  BY <1>2 DEF CallTime
<1>6. Woke(k, k', {})
  BY <1>1, WokeNobody
<1>7. ASSUME NEW p \in {"try", "disinherit"}, Goto(t, p)
      PROVE  TInv'
  <2>1. PICK in2 : /\ th' = [th EXCEPT ![t].in = in2] /\ SameTimes(in, in2)
                   /\ in2.pc = p /\ in2.after = in.after
    BY <1>1, <1>7, NewPc
  <2>2. GoesOnInTime(in2, th[t].notified)
    <3> HIDE DEF in
    <3> QED
      BY <1>2, <1>3, <1>4, <1>5, <1>7, <2>1, TimedGoes
  <2> QED
    BY <1>1, <1>6, <2>1, <2>2, ReadyGoes
<1>8. CASE Return(t)
  BY <1>1, <1>6, <1>8, ReturnTime
<1> QED
  BY <1>1, <1>7, <1>8

\* The holder is left with the priority it needs
LEMMA DisinheritTime ==
    ASSUME WInv, TInv, NEW t \in Task, Disinherit(t)
    PROVE  TInv'
<1>1. At(t, "disinherit") /\ Return(t)
  BY DEF Disinherit
<1>2. Woke(k, k', {})
  BY DisinheritWakes
<1> QED
  BY <1>1, <1>2, ReturnTime

\* ulTaskNotifyTake returns
LEMMA NotifiedTime ==
    ASSUME WInv, TInv, NEW t \in Task, Notified(t)
    PROVE  TInv'
<1> DEFINE zero == 0
           x == [th[t] EXCEPT !.in = Outside, !.notified = zero, !.waiting = FALSE]
           none == {}
<1>1. Types /\ At(t, "woken") /\ k' = k /\ k \in KState
  BY DEF WInv, Types, Notified
<1>2. th' = [th EXCEPT ![t] = x]
  BY <1>1 DEF Notified, Types, Thread
<1>3. x.in = Outside /\ x.notified = zero
  BY <1>1 DEF Types, Thread
<1> HIDE DEF x
<1>4. /\ th'[t].in = Outside /\ th'[t].notified = zero
      /\ \A u \in Task : u # t => th'[u] = th[u]
  BY <1>1, <1>2, <1>3 DEF Types
<1>5. Instant(k, k', t, none) /\ t \notin none /\ \A u \in Task : u \in none => Called(th[u])
  BY <1>1, SameInstant
<1> HIDE DEF none, zero
<1>6. GoesOnInTime(th'[t].in, th'[t].notified)
  BY <1>4, OutsideInTime
<1> QED
  BY <1>1, <1>4, <1>5, <1>6, ReadyStep

---------------------------------------------------------------------------
(* Going to sleep, and going on from there *)

\* The running task goes to the delayed list of its wake time
LEMMA AddToDelayedTime ==
    ASSUME NEW r \in KState, NEW ticks \in 1 .. portMAX_DELAY, NEW b \in BOOLEAN,
           NEW s, s = prvAddCurrentTaskToDelayedList(r, ticks, b)
    PROVE  /\ Instant(r, s, r.cur, {}) /\ OnTime(s, r.cur, ticks)
           /\ IF ticks = portMAX_DELAY /\ b THEN s.list[r.cur] = "suspended"
              ELSE s.list[r.cur] \in DelayedLists
<1> DEFINE wake == (r.tick + ticks) % TickMod
           to == IF ticks = portMAX_DELAY /\ b THEN "suspended"
                 ELSE IF wake < r.tick THEN "overflow" ELSE "delayed"
           r0 == [r EXCEPT !.list[r.cur] = to]
           k1 == taskRESET_READY_PRIORITY(r0, r.prio[r.cur])
           w == IF to = "suspended" THEN 0 ELSE wake
           n == IF to = "delayed" /\ wake < k1.next THEN wake ELSE k1.next
<1>0. /\ TickMod \in Nat /\ TickMod > 1 /\ portMAX_DELAY = TickMod - 1
      /\ r.tick \in 0 .. TickMod - 1 /\ r.next \in 0 .. TickMod - 1 /\ r.cur \in Task
      /\ ticks \in 1 .. TickMod - 1 /\ r.wake \in [Task -> 0 .. TickMod - 1]
      /\ r.list \in [Task -> Lists]
  BY FieldsOf, Numbers DEF portMAX_DELAY
<1>1. s = [k1 EXCEPT !.wake[r.cur] = w, !.next = n]
  <2>1. /\ r0.cur = r.cur /\ r0.prio = r.prio
    BY DEF KState
  <2>2. k1.cur = r.cur
    BY <2>1 DEF taskRESET_READY_PRIORITY, KState
  <2> QED
    BY <2>1, <2>2 DEF prvAddCurrentTaskToDelayedList
<1>2. wake = IF r.tick + ticks < TickMod THEN r.tick + ticks ELSE r.tick + ticks - TickMod
  <2> DEFINE a == r.tick + ticks
  <2>1. a \in Int /\ 0 - TickMod <= a /\ a < 2 * TickMod /\ ~ (a < 0)
    BY <1>0
  <2> HIDE DEF a
  <2>2. a % TickMod = IF a < TickMod THEN a ELSE a - TickMod
    BY <2>1, Turns
  <2> QED
    BY <1>0, <2>2 DEF a
<1>3. wake \in 0 .. TickMod - 1
  BY <1>0, <1>2
<1> HIDE DEF wake
<1>4. /\ to = "suspended" <=> (ticks = portMAX_DELAY /\ b)
      /\ to = "overflow" => wake = r.tick + ticks - TickMod
      /\ to = "delayed" => wake = r.tick + ticks
      /\ to \in {"suspended", "overflow", "delayed"}
  BY <1>0, <1>2, <1>3
<1>5. w \in 0 .. TickMod - 1 /\ (to # "suspended" => w = wake)
  BY <1>3, <1>0
<1> HIDE DEF to, w
<1>6. /\ r0 \in KState /\ r0.list = [r.list EXCEPT ![r.cur] = to]
      /\ r0.suspended = r.suspended /\ r0.pended = r.pended
      /\ r0.pendingReady = r.pendingReady
      /\ r0.tick = r.tick /\ r0.next = r.next /\ r0.wake = r.wake
  <2> DEFINE l == [r.list EXCEPT ![r.cur] = to]
  <2>1. l \in [Task -> Lists] /\ r0 = [r EXCEPT !.list = l]
    BY <1>0, <1>4 DEF KState, Lists
  <2> HIDE DEF l
  <2> QED
    BY <2>1 DEF KState, l
<1> HIDE DEF r0
<1>7. /\ k1 \in KState /\ k1.list = r0.list
      /\ k1.suspended = r.suspended /\ k1.pended = r.pended
      /\ k1.pendingReady = r.pendingReady
      /\ k1.tick = r.tick /\ k1.next = r.next /\ k1.wake = r.wake
  BY <1>6, ResetReady
<1> HIDE DEF k1
<1>8. n \in 0 .. TickMod - 1 /\ n <= r.next /\ (to = "delayed" => n <= wake)
  BY <1>0, <1>3, <1>7
<1> HIDE DEF n
<1> DEFINE ws == [r.wake EXCEPT ![r.cur] = w]
<1>9. /\ s.list = k1.list /\ s.suspended = r.suspended /\ s.pended = r.pended
      /\ s.pendingReady = r.pendingReady
      /\ s.tick = r.tick /\ s.next = n /\ s.wake = ws
  <2>1. s = [k1 EXCEPT !.wake = ws, !.next = n]
    BY <1>1, <1>7 DEF KState
  <2> HIDE DEF ws
  <2> QED
    BY <1>7, <2>1 DEF KState
<1>10. /\ s.list[r.cur] = to /\ s.wake[r.cur] = w
       /\ \A u \in Task : u # r.cur => s.list[u] = r.list[u] /\ s.wake[u] = r.wake[u]
  BY <1>0, <1>6, <1>7, <1>9
<1> HIDE DEF ws
<1> DEFINE none == {}
<1>11. Instant(r, s, r.cur, none)
  BY <1>8, <1>9, <1>10 DEF Instant
<1>12. OnTime(s, r.cur, ticks)
  BY <1>0, <1>4, <1>5, <1>8, <1>9, <1>10 DEF OnTime
<1>13. IF ticks = portMAX_DELAY /\ b THEN s.list[r.cur] = "suspended"
       ELSE s.list[r.cur] \in DelayedLists
  BY <1>4, <1>10 DEF DelayedLists
<1> QED
  BY <1>11, <1>12, <1>13

\* What has put itself on a list has its time before it
LEMMA PlaceTime ==
    ASSUME WInv, TInv, NEW t \in Task, Place(t), k' \in KState
    PROVE  TInv'
<1> DEFINE in == th[t].in
           pc2 == IF Op(t) = "delay" THEN "resume" ELSE "unlockTx"
           in2 == [in EXCEPT !.pc = pc2, !.after = "block"]
           b == Op(t) # "delay"
<1>1. /\ Types /\ At(t, "place") /\ k \in KState
      /\ k' = prvAddCurrentTaskToDelayedList(k, in.left, b)
  BY DEF WInv, Types, Place
<1>2. /\ CallTime(in) /\ ClockTime(k, in) /\ in.pc = "place" /\ CallPc(in) /\ t = k.cur
      /\ in \in ThreadType /\ k.list[t] = "ready"
  BY <1>1, AtReady, AtIs, ThreadIs DEF TaskTime
<1>3. /\ in.left \in 1 .. portMAX_DELAY /\ in.call.ticks \in 0 .. portMAX_DELAY
      /\ in.waited \in 0 .. portMAX_DELAY /\ k.pended \in Nat /\ portMAX_DELAY \in Nat
      /\ k.tick \in 0 .. TickMod - 1
  <2>1. in.left # 0
    BY <1>2 DEF CallTime
  <2>2. k.pended \in Nat
    BY <1>1, FieldsOf, Numbers
  <2> QED
    BY <1>1, <2>1, <2>2, InIs, FieldsOf, Numbers
<1>4. th' = [th EXCEPT ![t].in = in2]
  <2>1. th' = [th EXCEPT ![t].in.pc = pc2, ![t].in.after = "block"]
    BY DEF Place
  <2> HIDE DEF pc2
  <2> QED
    BY ZenonT(40), <1>1, <1>2, <2>1 DEF Types, Thread, ThreadType
<1>5. SameTimes(in, in2) /\ in2.pc = pc2 /\ in2.after = "block"
  BY <1>2 DEF ThreadType, SameTimes
<1> HIDE DEF in2
<1>6. /\ th'[t].in = in2 /\ \A u \in Task : u # t => th'[u] = th[u]
  BY <1>1, <1>4, Moved
<1>7. /\ Instant(k, k', t, {}) /\ OnTime(k', t, in.left)
      /\ IF in.left = portMAX_DELAY /\ b THEN k'.list[t] = "suspended"
         ELSE k'.list[t] \in DelayedLists
  <2>1. b \in BOOLEAN
    OBVIOUS
  <2> HIDE DEF b, in
  <2> QED
    BY <1>1, <1>2, <1>3, <2>1, AddToDelayedTime
<1>8. k'.tick = k.tick /\ k'.pended = k.pended /\ t \notin k'.pendingReady
  <2>1. t \notin k.pendingReady
    BY <1>2 DEF WInv, Control, ReadyTasks
  <2> QED
    BY <1>7, <2>1 DEF Instant
<1>9. Op(t) = in.call.op
  BY DEF Op
<1> HIDE DEF in
<1>10. CASE in.call.op = "delay"
  <2>1. ~ in.timed /\ in.left = in.call.ticks /\ in.waited = k.pended /\ pc2 = "resume"
        /\ in.call.op \notin Queueing
    BY <1>2, <1>9, <1>10, UntimedIs DEF ClockTime
  <2> HIDE DEF pc2
  <2>2. CallTime(in2)
    BY <1>2, <1>3, <1>5, <1>10, <2>1 DEF CallTime, SameTimes
  <2>3. ClockTime(k', in2)
    BY <1>5, <1>10, <2>1 DEF ClockTime, SameTimes
  <2>4. ToGo(k', th'[t]) = in.left
    BY <1>3, <1>5, <1>6, <1>8, <2>1 DEF ToGo, SameTimes
  <2>5. ListTime(k', t, th'[t])
    <3>1. k'.list[t] \in DelayedLists
      BY <1>7, <1>9, <1>10
    <3>2. Times(in2)
      BY <1>3, <1>5, <1>10, <2>1 DEF Times, SameTimes
    <3> QED
      BY <1>5, <1>6, <1>7, <1>10, <2>1, <2>4, <3>1, <3>2 DEF ListTime, SameTimes
  <2>6. TaskTime(k', t, th'[t])
    BY <1>6, <1>8, <2>2, <2>3, <2>5 DEF TaskTime
  <2> QED
    BY <1>6, <1>7, <2>6, TimeStep
<1>11. CASE in.call.op # "delay"
  <2>1. in.call.op \in Queueing /\ pc2 = "unlockTx"
    BY <1>2, <1>9, <1>11 DEF CallPc
  <2>2. in.timed /\ in.call.ticks # 0 /\ in.call.op # "notifyTake"
    BY <1>2, <2>1, TimedIs
  <2> HIDE DEF pc2
  <2>3. CallTime(in2)
    BY <1>2, <1>3, <1>5, <1>11, <2>1, <2>2 DEF CallTime, SameTimes
  <2>4. ClockTime(k', in2)
    <3>1. in.call.ticks # portMAX_DELAY =>
            /\ in.waited - k.pended = in.call.ticks - in.left + Since(in.at, k.tick)
            /\ in.wrapped => k.tick < in.at
      BY <1>2, <1>3, <2>2 DEF ClockTime
    <3> QED
      BY <1>5, <1>8, <1>11, <2>1, <3>1 DEF ClockTime, SameTimes
  <2>5. in.left # portMAX_DELAY => in.call.ticks # portMAX_DELAY /\ ToGo(k', th'[t]) = in.left
    <3> SUFFICES ASSUME in.left # portMAX_DELAY
                 PROVE  in.call.ticks # portMAX_DELAY /\ ToGo(k', th'[t]) = in.left
      OBVIOUS
    <3>1. in.call.ticks # portMAX_DELAY
      BY <1>2, <1>3 DEF CallTime
    <3>2. in.at = k.tick /\ in.waited - k.pended = in.call.ticks - in.left + Since(in.at, k.tick)
      BY <1>2, <1>3, <2>1, <2>2, <3>1 DEF ClockTime
    <3>3. Since(in.at, k.tick) = 0
      BY <1>3, <3>2 DEF Since
    <3>4. in.call.ticks - in.waited + k.pended = in.left
      BY <1>3, <3>2, <3>3
    <3> QED
      BY <1>5, <1>6, <1>8, <3>1, <3>4 DEF ToGo, SameTimes
  <2>6. ListTime(k', t, th'[t])
    <3>1. k'.list[t] \in DelayedLists => in.left # portMAX_DELAY
      BY <1>7, <1>9, <1>11 DEF DelayedLists
    <3>2. k'.list[t] \in DelayedLists => Times(in2)
      BY <1>5, <2>2, <2>5, <3>1 DEF Times, SameTimes
    <3>3. OnTime(k', t, ToGo(k', th'[t]))
      <4>1. CASE k'.list[t] \in DelayedLists
        BY <1>7, <2>5, <3>1, <4>1
      <4>2. CASE k'.list[t] \notin DelayedLists
        BY <4>2 DEF OnTime, DelayedLists
      <4> QED
        BY <4>1, <4>2
    <3> QED
      BY <1>5, <1>6, <1>11, <2>2, <3>2, <3>3 DEF ListTime, SameTimes
  <2>7. TaskTime(k', t, th'[t])
    BY <1>6, <1>8, <2>3, <2>4, <2>6 DEF TaskTime
  <2> QED
    BY <1>6, <1>7, <2>7, TimeStep
<1> QED
  BY <1>10, <1>11

\* ulTaskNotifyTake waits, or finds a notification
LEMMA NotifyTakeTime ==
    ASSUME WInv, TInv, NEW t \in Task, NotifyTake(t), k' \in KState
    PROVE  TInv'
<1> DEFINE in == th[t].in
           wait == th[t].notified = 0
           in2 == [in EXCEPT !.pc = "woken"]
           w2 == wait \/ th[t].waiting
           x == [th[t] EXCEPT !.in = in2, !.waiting = w2]
           yes == TRUE
           k1 == prvAddCurrentTaskToDelayedList(k, th[t].in.left, yes)
<1>1. Types /\ At(t, "try") /\ k \in KState /\ in.call.op = "notifyTake"
      /\ k' = IF wait /\ in.left > 0 THEN portYIELD(k1) ELSE k
  BY DEF WInv, Types, NotifyTake, Op
<1>2. /\ CallTime(in) /\ in.pc = "try" /\ t = k.cur /\ in \in ThreadType
      /\ k.list[t] = "ready" /\ k.pended = 0 /\ k.pendingReady = {}
  <2>1. "try" \notin Inside
    BY DEF Inside
  <2> QED
    BY <1>1, <2>1, AtReady, ThreadIs DEF TaskTime
<1>3. /\ in.left \in 0 .. portMAX_DELAY /\ in.call.ticks \in 0 .. portMAX_DELAY
      /\ in.waited \in 0 .. portMAX_DELAY /\ portMAX_DELAY \in Nat
  BY <1>1, InIs, Numbers
<1>4. th' = [th EXCEPT ![t] = x]
  BY <1>1, <1>2 DEF NotifyTake, Types, Thread, ThreadType
<1>5. SameTimes(in, in2) /\ in2.pc = "woken" /\ in2.after = in.after
  BY <1>2 DEF ThreadType, SameTimes
<1> HIDE DEF in2, w2
<1>6. x.in = in2 /\ x.notified = th[t].notified
  BY <1>1 DEF Types, Thread
<1> HIDE DEF x
<1>7. /\ th'[t].in = in2 /\ th'[t].notified = th[t].notified
      /\ \A u \in Task : u # t => th'[u] = th[u]
  BY <1>1, <1>4, <1>6 DEF Types
<1>8. ~ in.timed /\ in.left = in.call.ticks /\ in.call.op \notin Queueing /\ in.waited = 0
      /\ in.after \notin {"block", "retry", "expired"}
  BY <1>1, <1>2, UntimedIs DEF CallTime
<1>9. CallTime(in2)
  BY <1>1, <1>2, <1>3, <1>5, <1>8 DEF CallTime, SameTimes
<1>10. \A r : ClockTime(r, in2)
  BY <1>1, <1>5, <1>8 DEF ClockTime, SameTimes
<1>11. CASE wait /\ in.left > 0
  <2>1. /\ Instant(k, k1, t, {}) /\ OnTime(k1, t, in.left)
        /\ IF in.left = portMAX_DELAY THEN k1.list[t] = "suspended"
           ELSE k1.list[t] \in DelayedLists
    <3>1. yes \in BOOLEAN /\ yes /\ in.left \in 1 .. portMAX_DELAY
      BY <1>3, <1>11
    <3> HIDE DEF yes
    <3> QED
      BY <1>1, <1>2, <3>1, AddToDelayedTime
  <2>2. k1 \in KState
    <3>1. yes \in BOOLEAN
      OBVIOUS
    <3> HIDE DEF yes
    <3> QED
      BY <1>1, <1>3, <3>1, AddToDelayed
  <2>3. k' = portYIELD(k1)
    BY <1>1, <1>11
  <2> HIDE DEF k1
  <2>4. /\ k'.list = k1.list /\ k'.wake = k1.wake /\ k'.tick = k1.tick /\ k'.next = k1.next
        /\ k'.pended = k1.pended /\ k'.pendingReady = k1.pendingReady
        /\ k'.suspended = k1.suspended
    BY <2>2, <2>3 DEF portYIELD, KState
  <2>5. Instant(k, k', t, {}) /\ OnTime(k', t, in.left)
    BY <2>1, <2>4 DEF Instant, OnTime
  <2>6. t \notin k'.pendingReady /\ k'.pended = 0
    BY <1>2, <2>5 DEF Instant
  <2>7. ToGo(k', th'[t]) = in.left
    BY <1>3, <1>5, <1>7, <1>8, <2>6 DEF ToGo, SameTimes
  <2>8. k'.list[t] \in DelayedLists => Times(in2)
    <3>1. k'.list[t] \in DelayedLists => in.left # portMAX_DELAY
      BY <2>1, <2>4 DEF DelayedLists
    <3> QED
      BY <1>3, <1>5, <1>8, <1>11, <3>1 DEF Times, SameTimes
  <2>9. in2.call.ticks # portMAX_DELAY => k'.list[t] \in DelayedLists
    BY <1>5, <1>8, <2>1, <2>4 DEF SameTimes
  <2>10. ListTime(k', t, th'[t])
    BY <1>1, <1>5, <1>7, <2>5, <2>7, <2>8, <2>9 DEF ListTime, SameTimes
  <2>11. TaskTime(k', t, th'[t])
    BY <1>7, <1>9, <1>10, <2>6, <2>10 DEF TaskTime
  <2> QED
    BY <1>7, <2>5, <2>11, TimeStep
<1>12. CASE ~ (wait /\ in.left > 0)
  <2> DEFINE none == {}
  <2>1. k' = k
    BY <1>1, <1>12
  <2>2. Instant(k, k', t, none) /\ t \notin none /\ \A u \in Task : u \in none => Called(th[u])
    BY <1>1, <2>1, SameInstant
  <2> HIDE DEF none
  <2>3. GoesOnInTime(th'[t].in, th'[t].notified)
    <3>1. th[t].notified # 0 \/ in2.waited >= in2.call.ticks
      BY <1>3, <1>5, <1>8, <1>12 DEF SameTimes
    <3> QED
      BY <1>1, <1>5, <1>7, <1>9, <1>10, <3>1 DEF GoesOnInTime, SameTimes
  <2> QED
    BY <1>1, <1>7, <2>1, <2>2, <2>3, ReadyStep
<1> QED
  BY <1>11, <1>12

\* A task goes on in its call and stays where it is, while those of ts are woken
LEMMA KeptStep ==
    ASSUME WInv, TInv, NEW t \in Task, NEW ts, Woke(k, k', ts),
           \A u \in Task : u \in ts => Called(th[u]), k.suspended \/ t \notin ts,
           NEW in2, th' = [th EXCEPT ![t].in = in2], SameTimes(th[t].in, in2),
           CallTime(in2), ClockTime(k, in2), Times(th[t].in) => Times(in2),
           in2.call.op # "notifyTake",
           in2.call.op = "delay" /\ in2.pc \in {"resume", "yield", "woken"} =>
               th[t].in.pc \in {"resume", "yield", "woken"}
    PROVE  TInv'
<1> DEFINE in == th[t].in  x == th'[t]
<1>1. Types /\ k \in KState /\ k' \in KState /\ TaskTime(k, t, th[t])
  BY DEF WInv, Types, Woke, TInv
<1>2. x.in = in2 /\ \A u \in Task : u # t => th'[u] = th[u]
  BY <1>1, Moved
<1>3. Instant(k, k', t, ts)
  BY <1>1, WokeInstant
<1>4. /\ k'.list[t] = k.list[t] /\ k'.wake[t] = k.wake[t] /\ k'.tick = k.tick
      /\ k'.next = k.next /\ k'.pended = k.pended
      /\ t \in k'.pendingReady => t \in k.pendingReady \/ t \in ts
  BY DEF Woke, AtOnce
<1>5. in2.call = in.call /\ in2.waited = in.waited
  BY DEF SameTimes
<1>6. TaskTime(k', t, x)
  <2> HIDE DEF x, in
  <2>1. ClockTime(k', in2)
    BY <1>4 DEF ClockTime
  <2>2. ToGo(k', x) = ToGo(k, th[t])
    BY <1>2, <1>4, <1>5 DEF ToGo, in
  <2>3. OnTime(k', t, ToGo(k', x))
    BY <1>1, <1>4, <2>2 DEF TaskTime, ListTime, OnTime
  <2>4. ListTime(k', t, x)
    BY <1>1, <1>2, <1>4, <1>5, <2>3 DEF TaskTime, ListTime, in
  <2>5. t \in k'.pendingReady => Called(x)
    BY <1>1, <1>2, <1>4, <1>5 DEF TaskTime, Called, in
  <2> QED
    BY <1>2, <2>1, <2>4, <2>5 DEF TaskTime
<1> QED
  BY <1>1, <1>2, <1>3, <1>6, TimeStep

\* The lock of a queue is taken off
LEMMA UnlockTime ==
    ASSUME WInv, TInv, NEW t \in Task, NEW pc \in {"unlockTx", "unlockRx"}, At(t, pc),
           NEW pc2 \in {"unlockRx", "resume"}, Goto(t, pc2),
           NEW ts, Woke(k, k', ts), \A u \in ts : Called(th[u])
    PROVE  TInv'
<1> DEFINE in == th[t].in
<1>1. Types /\ TaskTime(k, t, th[t])
  BY DEF WInv, TInv
<1>2. in.pc = pc /\ CallPc(in) /\ CallTime(in) /\ ClockTime(k, in) /\ k.suspended
  BY <1>1, AtIs DEF TaskTime, Inside
<1>3. in.call.op \in Queueing
  BY <1>2 DEF CallPc, Inside
<1>4. in.timed /\ in.call.ticks # 0 /\ in.call.op # "delay" /\ in.call.op # "notifyTake"
  BY <1>2, <1>3, TimedIs
<1>5. PICK in2 : /\ th' = [th EXCEPT ![t].in = in2] /\ SameTimes(in, in2)
                 /\ in2.pc = pc2 /\ in2.after = in.after
  BY <1>1, NewPc
<1>6. in.after = "expired" => in.left = 0
  BY <1>2 DEF CallTime
<1> HIDE DEF in
<1>7. CallTime(in2) /\ ClockTime(k, in2)
  BY <1>2, <1>3, <1>4, <1>5, <1>6, TimedGoes
<1>8. in2.call = in.call /\ in2.timed
  BY <1>4, <1>5 DEF SameTimes
<1>9. Times(in) => Times(in2)
  BY <1>4, <1>8 DEF Times
<1> QED
  BY <1>2, <1>4, <1>5, <1>7, <1>8, <1>9, KeptStep DEF in

\* The senders' lock, whose items wake the receivers,
LEMMA UnlockTxTime ==
    ASSUME WInv, TInv, NEW t \in Task, UnlockTx(t)
    PROVE  TInv'
<1> DEFINE o == Obj(t)  ts == Woken(q[o].recv, q[o].txLock)
<1>1. Types /\ At(t, "unlockTx") /\ k \in KState /\ Goto(t, "unlockRx")
      /\ k' = xTaskRemoveFromEventList(k, ts)
  BY DEF WInv, Types, UnlockTx
<1>2. o \in Object
  <2>1. th[t].in.pc = "unlockTx" /\ CallPc(th[t].in)
    BY <1>1, AtIs
  <2> QED
    BY <1>1, <2>1, ThreadIs DEF CallPc, Inside, Op
<1>3. q[o].recv \in Seq(Task) /\ q[o].txLock \in Int
  BY <1>1, <1>2, ObjectIs, KernelAssumption DEF UNLOCKED
<1>4. ts \subseteq In(q[o].recv) /\ ts \in SUBSET Task
  BY <1>3, WokenIn DEF In
<1> HIDE DEF ts
<1>5. Woke(k, k', ts)
  BY <1>1, <1>4, RemovesFromEventList
<1>6. \A u \in ts : Called(th[u])
  BY <1>2, <1>4, ListsCalled
<1> QED
  BY <1>1, <1>5, <1>6, UnlockTime

\* and the receivers', whose room wakes the senders
LEMMA UnlockRxTime ==
    ASSUME WInv, TInv, NEW t \in Task, UnlockRx(t)
    PROVE  TInv'
<1> DEFINE o == Obj(t)  ts == Woken(q[o].send, q[o].rxLock)
<1>1. Types /\ At(t, "unlockRx") /\ k \in KState /\ Goto(t, "resume")
      /\ k' = xTaskRemoveFromEventList(k, ts)
  BY DEF WInv, Types, UnlockRx
<1>2. o \in Object
  <2>1. th[t].in.pc = "unlockRx" /\ CallPc(th[t].in)
    BY <1>1, AtIs
  <2> QED
    BY <1>1, <2>1, ThreadIs DEF CallPc, Inside, Op
<1>3. q[o].send \in Seq(Task) /\ q[o].rxLock \in Int
  BY <1>1, <1>2, ObjectIs, KernelAssumption DEF UNLOCKED
<1>4. ts \subseteq In(q[o].send) /\ ts \in SUBSET Task
  BY <1>3, WokenIn DEF In
<1> HIDE DEF ts
<1>5. Woke(k, k', ts)
  BY <1>1, <1>4, RemovesFromEventList
<1>6. \A u \in ts : Called(th[u])
  BY <1>2, <1>4, ListsCalled
<1> QED
  BY <1>1, <1>5, <1>6, UnlockTime

\* The call yields
LEMMA YieldTime ==
    ASSUME WInv, TInv, NEW t \in Task, Yield(t)
    PROVE  TInv'
<1> DEFINE in == th[t].in  none == {}
<1>1. Types /\ k \in KState /\ TaskTime(k, t, th[t]) /\ At(t, "yield") /\ k' = portYIELD(k)
      /\ Goto(t, Again(t))
  BY DEF WInv, Types, TInv, Yield
<1>2. in.pc = "yield" /\ CallPc(in) /\ CallTime(in) /\ ClockTime(k, in)
  BY <1>1, AtIs DEF TaskTime
<1>3. Woke(k, k', none) /\ t \notin none /\ \A u \in Task : u \in none => Called(th[u])
  BY <1>1, Yields
<1> HIDE DEF none
<1>4. PICK in2 : /\ th' = [th EXCEPT ![t].in = in2] /\ SameTimes(in, in2)
                 /\ in2.pc = Again(t) /\ in2.after = in.after
  BY <1>1, NewPc
<1>5. in2.call = in.call /\ Op(t) = in.call.op
  BY <1>4 DEF SameTimes, Op
<1>6. in.after \notin {"block", "retry", "expired"}
  BY <1>2 DEF CallTime
<1> HIDE DEF in
<1>7. CASE in.call.op = "delay"
  <2>1. in2.pc = "woken"
    BY <1>4, <1>5, <1>7 DEF Again
  <2>2. ~ in.timed /\ in.left = in.call.ticks /\ in.call.op \notin Queueing
    BY <1>2, <1>7, UntimedIs
  <2>3. CallTime(in2)
    BY <1>2, <1>4, <1>6, <1>7, <2>1, <2>2 DEF CallTime, SameTimes
  <2>4. ClockTime(k, in2)
    BY <1>4, <1>7, <2>1, <2>2 DEF ClockTime, SameTimes
  <2>5. Times(in) => Times(in2)
    BY <1>5, <1>7, <2>1 DEF Times
  <2> QED
    BY <1>2, <1>3, <1>4, <1>5, <1>7, <2>3, <2>4, <2>5, KeptStep DEF in
<1>8. CASE in.call.op # "delay"
  <2>1. in.call.op \in Queueing /\ in2.pc = "try"
    BY <1>2, <1>4, <1>5, <1>8 DEF Again, CallPc
  <2>2. in.timed /\ in.call.ticks # 0 /\ in.call.op # "notifyTake"
    BY <1>2, <2>1, TimedIs
  <2>3. CallTime(in2) /\ ClockTime(k, in2)
    BY <1>2, <1>4, <1>6, <2>1, <2>2, TimedGoes
  <2>4. Times(in) => Times(in2)
    BY <1>4, <1>8, <2>2 DEF Times, SameTimes
  <2> QED
    BY <1>2, <1>3, <1>4, <1>5, <1>8, <2>2, <2>3, <2>4, KeptStep DEF in
<1> QED
  BY <1>7, <1>8

\* An interrupt handler notifies a task, which is then called if it waited
LEMMA NotifyTime ==
    ASSUME WInv, TInv, NEW t \in Task, vTaskNotifyGiveFromISR(t)
    PROVE  TInv'
<1> DEFINE k1 == Unblock(k, {t})
           m2 == th[t].notified + 1
           y == [th[t] EXCEPT !.notified = m2, !.waiting = FALSE]
           ts == IF th[t].waiting THEN {t} ELSE {}
<1>1. Types /\ Control /\ k \in KState /\ th[t] \in Thread /\ TaskTime(k, t, th[t])
      /\ k' = IF ~ th[t].waiting THEN k
              ELSE IF Preempts(k, {t}) THEN portYIELD(k1) ELSE k1
  BY ThreadIs DEF WInv, Types, TInv, vTaskNotifyGiveFromISR
<1>2. m2 # 0
  <2>1. th[t].notified \in 0 .. MaxNotified /\ MaxNotified \in Nat
    BY <1>1, KernelAssumption DEF Thread
  <2> QED
    BY <2>1
<1>3. th' = [th EXCEPT ![t] = y]
  BY <1>1 DEF vTaskNotifyGiveFromISR, Types, Thread
<1> HIDE DEF m2
<1>4. y.in = th[t].in /\ y.notified = m2
  BY <1>1 DEF Thread
<1> HIDE DEF y
<1>5. /\ th'[t].in = th[t].in /\ th'[t].notified = m2
      /\ \A u \in Task : u # t => th'[u] = th[u]
  BY <1>1, <1>3, <1>4 DEF Types
<1>6. Woke(k, k', ts)
  <2>1. CASE ~ th[t].waiting
    BY <1>1, <2>1, WokeNobody
  <2>2. CASE th[t].waiting
    <3>1. Woke(k, k1, {t})
      BY <1>1, Unblocks
    <3>2. k1 \in KState
      BY <3>1 DEF Woke
    <3> HIDE DEF k1
    <3>3. CASE Preempts(k, {t})
      <4>1. Woke(k1, k', {})
        BY <1>1, <2>2, <3>2, <3>3, Yields
      <4>2. Woke(k, k', {t} \cup {})
        BY <1>1, <3>1, <4>1, WokeTwice
      <4> QED
        BY <2>2, <4>2
    <3>4. CASE ~ Preempts(k, {t})
      BY <1>1, <2>2, <3>1, <3>4
    <3> QED
      BY <3>3, <3>4
  <2> QED
    BY <2>1, <2>2
<1>7. /\ \A u \in ts : u = t /\ th[t].waiting
      /\ th[t].waiting => th[t].in.call.op = "notifyTake"
  BY <1>1 DEF Control, Op
<1> HIDE DEF ts
<1>8. Instant(k, k', t, ts) /\ k' \in KState
  BY <1>1, <1>6, WokeInstant DEF Woke
<1>9. /\ k'.list[t] = k.list[t] \/ (t \in ts /\ k'.list[t] = "ready")
      /\ k'.wake[t] = k.wake[t] /\ k'.tick = k.tick
      /\ k'.next = k.next /\ k'.pended = k.pended
      /\ t \in k'.pendingReady => t \in k.pendingReady \/ t \in ts
  BY <1>6 DEF Woke, AtOnce
<1> DEFINE x == th'[t]
<1>10. TaskTime(k', t, x)
  <2> HIDE DEF x
  <2>1. x.in = th[t].in /\ x.notified # 0
    BY <1>2, <1>5 DEF x
  <2>2. CallTime(x.in) /\ ClockTime(k', x.in)
    BY <1>1, <1>9, <2>1 DEF TaskTime, ClockTime
  <2>3. t \in k'.pendingReady => Called(x)
    BY <1>1, <1>7, <1>9, <2>1 DEF TaskTime, Called
  <2>4. ListTime(k', t, x)
    <3>1. CASE k'.list[t] = k.list[t]
      <4>1. ToGo(k', x) = ToGo(k, th[t])
        BY <1>9, <2>1 DEF ToGo
      <4>2. OnTime(k', t, ToGo(k', x))
        BY <1>1, <1>9, <3>1, <4>1 DEF TaskTime, ListTime, OnTime
      <4> QED
        BY <1>1, <2>1, <3>1, <4>2 DEF TaskTime, ListTime
    <3>2. CASE t \in ts /\ k'.list[t] = "ready"
      <4>1. x.in.call.op = "notifyTake"
        BY <1>7, <2>1, <3>2
      <4> QED
        BY <2>1, <3>2, <4>1 DEF ListTime, OnTime, DelayedLists
    <3> QED
      BY <1>9, <3>1, <3>2
  <2> QED
    BY <2>2, <2>3, <2>4 DEF TaskTime
<1> QED
  BY <1>5, <1>7, <1>8, <1>10, TimeStep

\* The processor goes to another task
LEMMA PendSVTime ==
    ASSUME WInv, TInv, PendSV
    PROVE  TInv'
<1> DEFINE none == {}
<1>1. k \in KState /\ th' = th /\ NULL \notin Task
  BY KernelAssumption DEF WInv, Types, PendSV
<1>2. PICK t \in Highest(k) : k' = vTaskSwitchContext(k, t)
  BY DEF PendSV
<1>3. t \in Task
  BY <1>2 DEF Highest, Ready, InList
<1>4. /\ k' \in KState /\ k'.list = k.list /\ k'.suspended = k.suspended
      /\ k'.pendingReady = k.pendingReady /\ k'.wake = k.wake /\ k'.tick = k.tick
      /\ k'.next = k.next /\ k'.pended = k.pended
  <2>1. CASE k.suspended
    BY <1>1, <1>2, <2>1 DEF vTaskSwitchContext, KState
  <2>2. CASE ~ k.suspended
    <3> DEFINE no == FALSE
    <3>1. no \in BOOLEAN /\ k' = [k EXCEPT !.yieldPending = no, !.pendSV = no, !.cur = t]
      BY <1>2, <2>2 DEF vTaskSwitchContext
    <3> HIDE DEF no
    <3> QED
      BY <1>1, <1>3, <2>2, <3>1 DEF KState
  <2> QED
    BY <2>1, <2>2
<1>5. Instant(k, k', NULL, none)
  <2>1. k.next <= k.next
    BY <1>1, FieldsOf, Numbers
  <2> QED
    BY <1>4, <2>1 DEF Instant
<1>6. \A u \in Task : u \in none /\ u # NULL => Called(th[u])
  OBVIOUS
<1> HIDE DEF none
<1> QED
  BY <1>1, <1>4, <1>5, <1>6, TimeStep

---------------------------------------------------------------------------
(* The passing of time *)

\* A call as time passes
LEMMA OlderIs ==
    ASSUME Types, NEW u \in Task, NEW k1, NEW d, NEW x, x = Elapsed(k1, d)[u]
    PROVE  /\ x.in.call = th[u].in.call /\ x.in.pc = th[u].in.pc
           /\ x.in.left = th[u].in.left /\ x.in.timed = th[u].in.timed
           /\ x.in.at = th[u].in.at /\ x.in.after = th[u].in.after
           /\ x.in.wrapped <=> th[u].in.timed /\ (th[u].in.wrapped \/ k1.tick < k.tick)
           /\ x.in.waited = IF Times(th[u].in) THEN th[u].in.waited + d ELSE th[u].in.waited
           /\ x.notified = th[u].notified
           /\ ~ th[u].in.timed /\ ~ th[u].in.wrapped /\ ~ Times(th[u].in) => x.in = th[u].in
<1> DEFINE lapped == th[u].in.timed /\ (th[u].in.wrapped \/ k1.tick < k.tick)
           waited == IF Timed(u) THEN th[u].in.waited + d ELSE th[u].in.waited
           in2 == [th[u].in EXCEPT !.wrapped = lapped, !.waited = waited]
<1>1. th[u] \in Thread /\ th[u].in \in ThreadType
  BY ThreadIs
<1>2. Timed(u) <=> Times(th[u].in)
  BY DEF Timed, Times, Op
<1>3. x = [th[u] EXCEPT !.in.wrapped = lapped, !.in.waited = waited]
  BY <1>1 DEF Elapsed, Thread, ThreadType
<1>4. th[u].in.wrapped \in BOOLEAN /\ lapped \in BOOLEAN
  BY <1>1 DEF ThreadType
<1>5. waited = IF Times(th[u].in) THEN th[u].in.waited + d ELSE th[u].in.waited
  BY <1>2
<1>6. lapped <=> th[u].in.timed /\ (th[u].in.wrapped \/ k1.tick < k.tick)
  OBVIOUS
<1> HIDE DEF lapped, waited
<1>7. x = [th[u] EXCEPT !.in = in2]
  BY <1>1, <1>3 DEF Thread, ThreadType
<1>8. /\ in2.call = th[u].in.call /\ in2.pc = th[u].in.pc
      /\ in2.left = th[u].in.left /\ in2.timed = th[u].in.timed
      /\ in2.at = th[u].in.at /\ in2.after = th[u].in.after
      /\ in2.wrapped = lapped /\ in2.waited = waited
  BY <1>1 DEF ThreadType
<1>9. lapped = th[u].in.wrapped /\ waited = th[u].in.waited => in2 = th[u].in
  BY <1>1 DEF ThreadType
<1> HIDE DEF in2
<1>10. x.in = in2 /\ x.notified = th[u].notified
  BY <1>1, <1>7 DEF Thread
<1>11. ~ th[u].in.timed /\ ~ th[u].in.wrapped => lapped = th[u].in.wrapped
  BY <1>4, <1>6
<1> QED
  BY <1>5, <1>6, <1>8, <1>9, <1>10, <1>11

\* The clock goes on: a time-out that is not over has not seen it lap
LEMMA SinceLater ==
    ASSUME NEW at \in 0 .. TickMod - 1, NEW tick \in 0 .. TickMod - 1, NEW n \in Nat,
           Since(at, tick) + n <= TickMod - 1
    PROVE  /\ n <= TickMod - 1
           /\ Since(at, TickAfter(tick, n)) = Since(at, tick) + n
           /\ tick < at \/ TickAfter(tick, n) < tick => TickAfter(tick, n) < at
<1>1. TickMod \in Nat
  BY Numbers
<1> QED
  BY <1>1 DEF Since, TickAfter

\* From r to s n ticks pass for task u, which has g to go, and those held back
\* may be let go
Passed(r, s, u, n, g) ==
    /\ n <= TickMod - 1 => s.tick = TickAfter(r.tick, n)
    /\ OnTime(s, u, g - n)
    /\ \/ u \in r.pendingReady /\ s.list[u] = "ready"
       \/ IF r.list[u] \in DelayedLists
          THEN s.list[u] \in DelayedLists \/ (s.list[u] = "ready" /\ g <= n)
          ELSE s.list[u] = r.list[u]
    /\ s.pendingReady \subseteq r.pendingReady

\* A task as n ticks pass, and d are counted
LEMMA TimePasses ==
    ASSUME WInv, TInv, NEW u \in Task, NEW n \in Nat, NEW d \in Nat, k' \in KState,
           k'.pended = k.pended + d - n, Passed(k, k', u, n, ToGo(k, th[u])),
           th[u].in.pc \in {"recheck", "inherit", "place"} => n = 0,
           th[u].in.waited + d \in 0 .. portMAX_DELAY,
           NEW x, x = Elapsed(k', d)[u]
    PROVE  TaskTime(k', u, x)
<1> DEFINE in == th[u].in  in2 == x.in  g == ToGo(k, th[u])
<1>1. /\ Types /\ k \in KState /\ CallTime(in) /\ ClockTime(k, in) /\ ListTime(k, u, th[u])
      /\ u \in k.pendingReady => Called(th[u])
  BY DEF WInv, Types, TInv, TaskTime
<1>2. /\ in.left \in 0 .. portMAX_DELAY /\ in.waited \in 0 .. portMAX_DELAY
      /\ in.timed \in BOOLEAN /\ in.wrapped \in BOOLEAN
      /\ in.at \in 0 .. TickMod - 1 /\ in.call.ticks \in 0 .. portMAX_DELAY
  BY <1>1, InIs
<1>3. /\ k.tick \in 0 .. TickMod - 1 /\ k.pended \in Nat /\ k'.pended \in Nat
      /\ TickMod \in Nat /\ portMAX_DELAY = TickMod - 1 /\ in.waited + d <= TickMod - 1
  BY <1>1, FieldsOf, Numbers DEF portMAX_DELAY
<1>4. /\ in2.call = in.call /\ in2.pc = in.pc /\ in2.left = in.left
      /\ in2.timed = in.timed /\ in2.at = in.at /\ in2.after = in.after
      /\ in2.wrapped <=> in.timed /\ (in.wrapped \/ k'.tick < k.tick)
      /\ in2.waited = IF Times(in) THEN in.waited + d ELSE in.waited
      /\ x.notified = th[u].notified
      /\ ~ in.timed /\ ~ in.wrapped /\ ~ Times(in) => in2 = in
  BY <1>1, OlderIs
<1>5. g = in.call.ticks - in.waited + k.pended /\ g \in Int
  BY <1>2, <1>3 DEF ToGo
<1>6. Times(in2) <=> Times(in)
  BY <1>4 DEF Times
<1> HIDE DEF in2, g
<1>7. in2.waited \in Int /\ in2.waited >= in.waited
  BY <1>2, <1>4
<1>8. CallTime(in2)
  <2>1. in.pc = "run" => in2 = Outside
    <3> SUFFICES ASSUME in.pc = "run"
                 PROVE  in2 = Outside
      OBVIOUS
    <3>1. in = Outside
      BY <1>1 DEF CallTime
    <3>2. ~ Times(Outside)
      <4>1. Outside.call.ticks = 0
        BY DEF Outside, NoCall
      <4> QED
        BY <4>1 DEF Times
    <3> QED
      BY <1>4, <3>1, <3>2, OutsideTime
  <2>2. ~ in.timed => in.left = in.call.ticks /\ ~ in2.wrapped
    BY <1>1, <1>4 DEF CallTime
  <2>3. ~ in.timed /\ in.call.op \in Queueing => in.pc = "try" /\ in2.waited = 0
    BY <1>1, <1>4 DEF CallTime, Times, Queueing, Receiving, Sending
  <2>4. in.call.op \in {"notifyTake", "delay"} => ~ in.timed
    BY <1>1, UntimedIs
  <2>5. in.call.op = "notifyTake" /\ in.pc = "try" => in2.waited = 0
    BY <1>1, <1>4, <2>4 DEF CallTime, Times
  <2>6. in.call.op = "delay" /\ in.pc = "suspend" => in2.waited = 0
    BY <1>1, <1>4, <2>4 DEF CallTime, Times
  <2>7. in.timed /\ in.left = 0 => in2.waited >= in.call.ticks
    BY <1>1, <1>2, <1>7 DEF CallTime
  <2> HIDE DEF in
  <2> QED
    BY <1>1, <1>4, <2>1, <2>2, <2>3, <2>5, <2>6, <2>7 DEF CallTime
<1>9. ClockTime(k', in2)
  <2>1. ASSUME in.timed, in.call.ticks # portMAX_DELAY, in.left # 0
        PROVE  /\ in2.waited - k'.pended = in.call.ticks - in.left + Since(in.at, k'.tick)
               /\ in2.wrapped => k'.tick < in.at
    <3>1. Times(in) /\ in.left <= in.call.ticks
      BY <1>1, <2>1 DEF CallTime, Times
    <3>2. /\ in.waited - k.pended = in.call.ticks - in.left + Since(in.at, k.tick)
          /\ in.wrapped => k.tick < in.at
      BY <1>1, <2>1 DEF ClockTime
    <3>3. Since(in.at, k.tick) \in Nat
      BY <1>2, <1>3 DEF Since
    <3>4. in2.waited = in.waited + d
      BY <1>4, <3>1
    <3>5. Since(in.at, k.tick) + n <= TickMod - 1
      BY <1>2, <1>3, <3>1, <3>2, <3>3
    <3>6. /\ n <= TickMod - 1
          /\ Since(in.at, TickAfter(k.tick, n)) = Since(in.at, k.tick) + n
          /\ (k.tick < in.at \/ TickAfter(k.tick, n) < k.tick) =>
                TickAfter(k.tick, n) < in.at
      BY <1>2, <1>3, <3>5, SinceLater
    <3>7. k'.tick = TickAfter(k.tick, n)
      BY <3>6 DEF Passed
    <3>8. in2.waited - k'.pended = in.call.ticks - in.left + (Since(in.at, k.tick) + n)
      BY <1>2, <1>3, <3>2, <3>3, <3>4
    <3> QED
      BY <1>4, <3>2, <3>6, <3>7, <3>8
  <2>2. in.pc \in {"recheck", "inherit", "place"} => k'.tick = k.tick /\ n = 0
    BY <1>3 DEF Passed, TickAfter
  <2>3. in.call.op = "delay" /\ in.pc = "place" => in2.waited = k'.pended
    <3> SUFFICES ASSUME in.call.op = "delay", in.pc = "place"
                 PROVE  in2.waited = k'.pended
      OBVIOUS
    <3>1. in.waited = k.pended
      BY <1>1 DEF ClockTime
    <3>2. in.left # 0 /\ in.left = in.call.ticks
      BY <1>1, UntimedIs DEF CallTime
    <3>3. Times(in)
      BY <3>2 DEF Times
    <3> QED
      BY <1>2, <1>3, <1>4, <2>2, <3>1, <3>3
  <2> HIDE DEF in
  <2>4. in.call.op \in Queueing /\ in.call.ticks # portMAX_DELAY
        /\ in.pc \in {"recheck", "inherit", "place"} => in.at = k'.tick
    BY <1>1, <2>2 DEF ClockTime
  <2> QED
    BY <1>4, <2>1, <2>3, <2>4 DEF ClockTime
<1>10. /\ k'.list[u] \in DelayedLists => k.list[u] \in DelayedLists /\ Times(in)
       /\ OnTime(k', u, g - n)
       /\ k.list[u] \in DelayedLists =>
              \/ k'.list[u] \in DelayedLists \/ u \in k.pendingReady
              \/ g <= n /\ Times(in)
  BY <1>1 DEF Passed, ListTime, DelayedLists, g
<1>11. Times(in) => ToGo(k', x) = g - n
  BY <1>2, <1>3, <1>4, <1>5 DEF ToGo, in2
<1>12. g <= n /\ Times(in) => in2.waited >= in.call.ticks
  BY <1>2, <1>3, <1>4, <1>5
<1>13. ListTime(k', u, x)
  <2>1. k'.list[u] \in DelayedLists => Times(in2)
    BY <1>6, <1>10
  <2>2. OnTime(k', u, ToGo(k', x))
    BY <1>10, <1>11 DEF OnTime, DelayedLists
  <2>3. in.waited >= in.call.ticks => in2.waited >= in.call.ticks
    BY <1>2, <1>7
  <2>4. in.call.op = "delay" /\ in.pc \in {"resume", "yield", "woken"} =>
            k'.list[u] \in DelayedLists \/ in2.waited >= in.call.ticks
    <3>1. in.call.op = "delay" => u \notin k.pendingReady
      BY <1>1 DEF Called, Queueing, Receiving, Sending
    <3> QED
      BY <1>1, <1>10, <1>12, <2>3, <3>1 DEF ListTime
  <2>5. (/\ in.call.op = "notifyTake" /\ in.pc = "woken"
         /\ in.call.ticks # portMAX_DELAY) =>
            \/ k'.list[u] \in DelayedLists \/ x.notified # 0
            \/ in2.waited >= in.call.ticks
    <3>1. in.call.op = "notifyTake" /\ u \in k.pendingReady => x.notified # 0
      BY <1>1, <1>4 DEF Called, Queueing, Receiving, Sending
    <3> QED
      BY <1>1, <1>4, <1>10, <1>12, <2>3, <3>1 DEF ListTime
  <2> HIDE DEF in
  <2> QED
    BY <1>4, <2>1, <2>2, <2>4, <2>5 DEF ListTime, in2
<1>14. u \in k'.pendingReady => Called(x)
  BY <1>1, <1>4 DEF Passed, Called, in2
<1> QED
  BY <1>8, <1>9, <1>13, <1>14 DEF TaskTime, in2

\* A tick comes: it is counted at once, or held back
LEMMA TickPasses ==
    ASSUME WInv, TInv, SysTick, k' \in KState, NEW u \in Task
    PROVE  \E n \in 0 .. 1 :
              /\ k'.pended = k.pended + 1 - n
              /\ n = IF k.suspended THEN 0 ELSE 1
              /\ Passed(k, k', u, n, ToGo(k, th[u]))
<1> DEFINE g == ToGo(k, th[u])
<1>1. /\ Types /\ k \in KState /\ k' = xTaskIncrementTick(k) /\ TickMayCome
      /\ OnTime(k, u, g) /\ k.pended \in Nat /\ k.tick \in 0 .. TickMod - 1
      /\ TickMod \in Nat /\ TickMod > 1
  BY FieldsOf, Numbers DEF WInv, Types, SysTick, TInv, TaskTime, ListTime
<1>2. g \in Int
  <2>1. th[u].in.call.ticks \in Int /\ th[u].in.waited \in Int
    BY <1>1, InIs
  <2> QED
    BY <1>1, <2>1 DEF ToGo
<1> HIDE DEF g
<1>3. k'.pendingReady = k.pendingReady
  BY <1>1, IncrementsTick DEF TickMayCome
<1>4. CASE k.suspended
  <2> DEFINE p == k.pended + 1  y == k.pendSV \/ k.yieldPending  none == 0
  <2>1. k' = [k EXCEPT !.pended = p, !.pendSV = y]
    BY <1>1, <1>4 DEF xTaskIncrementTick
  <2>2. p = k.pended + 1 - none /\ none \in 0 .. 1 /\ none = IF k.suspended THEN 0 ELSE 1
    BY <1>1, <1>4
  <2>6. g - none = g /\ k.tick = TickAfter(k.tick, none)
    BY <1>1, <1>2 DEF TickAfter
  <2> HIDE DEF p, y, none
  <2>3. /\ k'.pended = p /\ k'.list = k.list /\ k'.wake = k.wake /\ k'.tick = k.tick
        /\ k'.next = k.next
    BY <1>1, <2>1 DEF KState
  <2>4. OnTime(k', u, g - none)
    BY <1>1, <2>3, <2>6 DEF OnTime
  <2>5. Passed(k, k', u, none, g)
    BY <1>3, <2>3, <2>4, <2>6 DEF Passed
  <2> QED
    BY <2>2, <2>3, <2>5 DEF g
<1>5. CASE ~ k.suspended
  <2> DEFINE v == Tick(k)  y == v.pendSV \/ SwitchRequired(k, v)  one == 1
  <2>1. k' = [v EXCEPT !.pendSV = y]
    BY <1>1, <1>5 DEF xTaskIncrementTick
  <2>2. Aged(k, k, u, g, 0)
    BY <1>1, <1>2, AgedNone
  <2>3. Aged(k, v, u, g, one)
    BY <1>1, <1>2, <2>2, AgedOne
  <2>4. v.pended = k.pended
    BY <1>1, Ticks DEF Later
  <2> HIDE DEF v, y
  <2>5. v \in KState
    BY <2>3 DEF Aged
  <2>6. /\ k'.pended = v.pended /\ k'.list = v.list /\ k'.wake = v.wake /\ k'.tick = v.tick
        /\ k'.next = v.next
    BY <2>1, <2>5 DEF KState
  <2>7. Aged(k, k', u, g, one)
    BY <2>3, <2>6, AgedSame
  <2>8. k'.pended = k.pended + 1 - one /\ one \in 0 .. 1
        /\ one = IF k.suspended THEN 0 ELSE 1
    BY <1>1, <1>5, <2>4, <2>6
  <2> HIDE DEF one
  <2>9. Passed(k, k', u, one, g)
    BY <1>3, <2>7 DEF Passed, Aged
  <2> QED
    BY <1>5, <2>8, <2>9 DEF g
<1> QED
  BY <1>4, <1>5

\* and all calls grow older
LEMMA SysTickTime ==
    ASSUME WInv, TInv, SysTick, k' \in KState
    PROVE  TInv'
<1> DEFINE one == 1
<1>1. /\ Types /\ Control /\ k \in KState /\ th' = Elapsed(k', one) /\ TickMayCome
      /\ k' = xTaskIncrementTick(k)
  BY DEF WInv, Types, SysTick
<1>2. k'.suspended = k.suspended
  BY <1>1, IncrementsTick DEF TickMayCome
<1>3. ASSUME NEW u \in Task
      PROVE  TaskTime(k', u, th'[u]) /\ (~ k'.suspended => k'.pended = 0)
  <2>1. PICK n \in 0 .. 1 : /\ k'.pended = k.pended + one - n
                            /\ n = IF k.suspended THEN 0 ELSE 1
                            /\ Passed(k, k', u, n, ToGo(k, th[u]))
    BY TickPasses
  <2>2. n \in Nat /\ one \in Nat
    OBVIOUS
  <2>3. th[u].in.pc \in {"recheck", "inherit", "place"} => n = 0
    BY <1>1, <2>1 DEF Control, Inside
  <2>4. th[u].in.waited + one \in 0 .. portMAX_DELAY
    <3>1. th[u].in.waited \in 0 .. portMAX_DELAY
      BY <1>1, InIs
    <3>2. th[u].in.waited < TickMod - 1
      BY <1>1 DEF TickMayCome
    <3>3. TickMod \in Nat
      BY Numbers
    <3> QED
      BY ONLY <3>1, <3>2, <3>3 DEF portMAX_DELAY, one
  <2> HIDE DEF one
  <2>5. TaskTime(k', u, th'[u])
    BY <1>1, <2>1, <2>2, <2>3, <2>4, TimePasses
  <2>6. ~ k'.suspended => k'.pended = 0
    <3> SUFFICES ASSUME ~ k'.suspended
                 PROVE  k'.pended = 0
      OBVIOUS
    <3>1. k.pended = 0
      BY <1>2 DEF TInv
    <3>2. n = 1
      BY <1>2, <2>1
    <3> QED
      BY <2>1, <3>1, <3>2 DEF one
  <2> QED
    BY <2>5, <2>6
<1>4. \E u \in Task : TRUE
  BY Numbers
<1> QED
  BY <1>3, <1>4 DEF TInv

\* The scheduler runs again: the ticks held back have passed
LEMMA ResumePasses ==
    ASSUME WInv, TInv, NEW t \in Task, Resume(t), k' \in KState, NEW u \in Task,
           NEW x, x = Elapsed(k', 0)[u]
    PROVE  k'.pended = 0 /\ TaskTime(k', u, x)
<1> DEFINE g == ToGo(k, th[u])  none == 0  n == k.pended
<1>1. /\ Types /\ k \in KState /\ At(t, "resume") /\ k' = xTaskResumeAll(k)
      /\ OnTime(k, u, g) /\ n \in Nat
  BY FieldsOf, Numbers DEF WInv, Types, Resume, TInv, TaskTime, ListTime
<1>2. g \in Int
  <2>1. th[u].in.call.ticks \in Int /\ th[u].in.waited \in Int
    BY <1>1, InIs
  <2> QED
    BY <1>1, <2>1 DEF ToGo
<1> HIDE DEF g
<1>3. k'.pendingReady = {} /\ ~ k'.suspended
  BY <1>1, ResumesAll
<1>4. /\ k'.pended = none /\ OnTime(k', u, g - n)
      /\ IF u \in k.pendingReady THEN k'.list[u] = "ready"
         ELSE IF k.list[u] \in DelayedLists
         THEN k'.list[u] \in DelayedLists \/ (k'.list[u] = "ready" /\ g <= n)
         ELSE k'.list[u] = k.list[u]
      /\ n <= TickMod - 1 => k'.tick = TickAfter(k.tick, n)
  BY <1>1, <1>2, ResumeTime
<1>5. k'.pended = k.pended + none - n
  BY <1>1, <1>4
<1>6. Passed(k, k', u, n, g)
  BY <1>3, <1>4 DEF Passed
<1>7. th[u].in.pc \in {"recheck", "inherit", "place"} => n = 0
  <2>1. "resume" \in Inside /\ {"recheck", "inherit", "place"} \subseteq Inside
    BY DEF Inside
  <2>2. th[t].in.pc = "resume" /\ (u # t => th[u].in.pc \notin Inside)
    BY <1>1, <2>1, AtIs
  <2> QED
    BY <2>1, <2>2
<1>8. none \in Nat /\ th[u].in.waited + none \in 0 .. portMAX_DELAY
  BY <1>1, InIs
<1>9. x = Elapsed(k', none)[u]
  OBVIOUS
<1> HIDE DEF n, none
<1>10. TaskTime(k', u, x)
  BY <1>1, <1>5, <1>6, <1>7, <1>8, <1>9, TimePasses DEF g
<1> QED
  BY <1>4, <1>10 DEF none

\* and the call goes on
LEMMA ResumeTimeKept ==
    ASSUME WInv, TInv, NEW t \in Task, Resume(t), k' \in KState
    PROVE  TInv'
<1> DEFINE none == 0
           in == th[t].in
           g == Elapsed(k', none)
           over == in.after = "expired" /\ Op(t) = "send"
           pc2 == IF in.after = "expired" THEN "expired"
                  ELSE IF in.after = "block" /\ ~ k'.yieldPending THEN "yield"
                  ELSE Again(t)
           after2 == ""
           on == [g[t].in EXCEPT !.after = after2, !.pc = pc2]
           in2 == IF over THEN Outside ELSE on
<1>1. /\ Types /\ k \in KState /\ At(t, "resume") /\ k' = xTaskResumeAll(k)
      /\ TaskTime(k, t, th[t])
  BY DEF WInv, Types, Resume, TInv
<1>2. th' = [g EXCEPT ![t].in = in2]
  <2>1. th' = [g EXCEPT ![t].in =
                  IF in.after = "expired" /\ Op(t) = "send" THEN Outside
                  ELSE [@ EXCEPT !.after = "", !.pc =
                           CASE in.after = "expired" -> "expired"
                             [] in.after = "block" /\ ~ k'.yieldPending -> "yield"
                             [] OTHER -> Again(t)]]
    BY DEF Resume
  <2>2. pc2 = CASE in.after = "expired" -> "expired"
                [] in.after = "block" /\ ~ k'.yieldPending -> "yield"
                [] OTHER -> Again(t)
    OBVIOUS
  <2> HIDE DEF pc2, g
  <2> QED
    BY <2>1, <2>2
<1>3. none \in Nat /\ \A u \in Task : th[u].in.waited + none \in 0 .. portMAX_DELAY
  BY <1>1, InIs
<1>4. \A u \in Task : TaskTime(k', u, g[u]) /\ k'.pended = 0
  BY ResumePasses
<1>5. /\ g[t].in.call = in.call /\ g[t].in.pc = in.pc /\ g[t].in.left = in.left
      /\ g[t].in.after = in.after
  BY <1>1, OlderIs
<1> HIDE DEF none
<1>6. g \in [Task -> Thread]
  BY <1>1, <1>3, ElapsedIs
<1> HIDE DEF g
<1> DEFINE gin == g[t].in
<1>7. SameTimes(gin, on) /\ on.pc = pc2 /\ on.after = after2
  <2>1. gin \in ThreadType
    BY <1>6 DEF Thread
  <2> HIDE DEF pc2, after2
  <2> QED
    BY <2>1 DEF ThreadType, SameTimes
<1>8. after2 \notin {"block", "retry", "expired"}
  BY Zenon
<1> HIDE DEF on, after2
<1>9. th'[t].in = in2 /\ \A u \in Task : u # t => th'[u] = g[u]
  BY <1>2, <1>6 DEF Thread
<1>10. /\ k'.pendingReady = {} /\ ~ k'.suspended /\ AwakeTasks(k) \subseteq ReadyTasks(k')
  BY <1>1, ResumesAll
<1>11. in.pc = "resume" /\ CallPc(in) /\ (HasBlocked(in) \/ t \in ReadyTasks(k))
  <2>1. "resume" \in Inside
    BY DEF Inside
  <2> QED
    BY <1>1, <2>1, AtIs
<1>12. /\ Op(t) = in.call.op /\ in.call.op \in Queueing \cup {"delay"}
       /\ in.call.op = "delay" => in.after = "block"
  BY <1>11 DEF CallPc, Op
<1>13. CallTime(gin) /\ ClockTime(k', gin) /\ ListTime(k', t, g[t])
  BY <1>4 DEF TaskTime
<1> DEFINE x == th'[t]
<1>14. TaskTime(k', t, x)
  <2>1. CASE over
    <3>1. k'.list[t] = "ready"
      BY <1>10, <1>11, <2>1 DEF HasBlocked, AwakeTasks, ReadyTasks
    <3>2. x.in = Outside
      BY <1>9, <2>1
    <3>3. t \notin k'.pendingReady
      BY <1>10
    <3> HIDE DEF x
    <3> QED
      BY <3>1, <3>2, <3>3, OutsideTime, ReadyTime
  <2>2. CASE ~ over
    <3>1. x.in = on
      BY <1>9, <2>2
    <3>2. /\ CallTime(on) /\ ClockTime(k', on) /\ (Times(gin) => Times(on))
          /\ on.call.op = "delay" => gin.pc = "resume"
          /\ on.call.op # "notifyTake" /\ on.call = gin.call /\ on.waited = gin.waited
      <4>1. CASE in.call.op = "delay"
        <5>1. pc2 \in {"yield", "woken"}
          BY <1>12, <4>1 DEF Again
        <5>2. ~ gin.timed /\ gin.left = gin.call.ticks /\ gin.call.op \notin Queueing
          BY <1>5, <1>13, <4>1, UntimedIs
        <5> HIDE DEF pc2, gin, in
        <5>3. CallTime(on)
          BY <1>5, <1>7, <1>8, <1>13, <4>1, <5>1, <5>2 DEF CallTime, SameTimes, gin
        <5>4. ClockTime(k', on)
          BY <1>5, <1>7, <4>1, <5>1, <5>2 DEF ClockTime, SameTimes, gin
        <5>5. Times(gin) => Times(on)
          BY <1>5, <1>7, <4>1, <5>1 DEF Times, SameTimes, gin
        <5> QED
          BY <1>5, <1>7, <1>11, <4>1, <5>3, <5>4, <5>5 DEF SameTimes, gin
      <4>2. CASE in.call.op # "delay"
        <5>1. gin.call.op \in Queueing /\ gin.pc = "resume"
          BY <1>5, <1>11, <1>12, <4>2
        <5>2. gin.timed /\ gin.call.ticks # 0 /\ gin.call.op # "notifyTake"
          BY <1>13, <5>1, TimedIs
        <5>3. pc2 \in {"expired", "yield", "try"} /\ (pc2 = "expired" => gin.after = "expired")
          BY <1>5, <1>12, <4>2 DEF Again
        <5>4. gin.after = "expired" => gin.left = 0
          BY <1>13 DEF CallTime
        <5> HIDE DEF pc2, gin, in
        <5>5. CallTime(on) /\ ClockTime(k', on)
          BY <1>7, <1>8, <1>13, <5>1, <5>2, <5>3, <5>4, TimedGoes
        <5>6. Times(gin) => Times(on)
          BY <1>5, <1>7, <4>2, <5>2 DEF Times, SameTimes, gin
        <5> QED
          BY <1>5, <1>7, <4>2, <5>2, <5>5, <5>6 DEF SameTimes, gin
      <4> QED
        BY <4>1, <4>2
    <3> HIDE DEF x, over
    <3>3. ToGo(k', x) = ToGo(k', g[t])
      BY <3>1, <3>2 DEF ToGo
    <3>4. ListTime(k', t, x)
      <4> DEFINE y == g[t]
      <4>1. y.in.pc = "resume"
        BY <1>5, <1>11
      <4>2. ListTime(k', t, y) /\ ToGo(k', x) = ToGo(k', y) /\ gin = y.in
        BY <1>13, <3>3
      <4> HIDE DEF y, gin
      <4> QED
        BY <3>1, <3>2, <4>1, <4>2 DEF ListTime
    <3> QED
      BY <1>10, <3>1, <3>2, <3>4 DEF TaskTime
  <2> QED
    BY <2>1, <2>2
<1>15. \A u \in Task : TaskTime(k', u, th'[u])
  BY <1>4, <1>9, <1>14
<1> QED
  BY <1>4, <1>15 DEF TInv

---------------------------------------------------------------------------
(* Time and the whole system *)

\* At the start nobody waits
LEMMA TimeInit ==
    ASSUME Init
    PROVE  TInv
<1>1. /\ k.pended = 0 /\ k.pendingReady = {} /\ \A t \in Task : k.list[t] = "ready"
      /\ \A t \in Task : th[t].in = Outside
  BY DEF Init, InitialState
<1>2. ASSUME NEW t \in Task
      PROVE  TaskTime(k, t, th[t])
  <2> DEFINE x == th[t]
  <2>1. x.in = Outside
    BY <1>1
  <2> HIDE DEF x
  <2>2. TaskTime(k, t, x)
    BY <1>1, <2>1, OutsideTime, ReadyTime
  <2> QED
    BY <2>2 DEF x
<1> QED
  BY <1>1, <1>2 DEF TInv

\* Every step of a task keeps the times,
LEMMA TimeOfStep ==
    ASSUME WInv, TInv, k' \in KState, NEW t \in Task, Step(t) \/ Disinherit(t)
    PROVE  TInv'
<1>1. CASE Receive(t)
  BY <1>1, ReceiveTime
<1>2. CASE Peek(t)
  BY <1>2, PeekTime
<1>3. CASE NotNow(t)
  BY <1>3, NotNowTime
<1>4. CASE Suspend(t)
  BY <1>4, SuspendTime
<1>5. CASE prvLockQueue(t)
  BY <1>5, LockTime
<1>6. CASE xTaskCheckForTimeOut(t)
  BY <1>6, CheckTime
<1>7. CASE Recheck(t)
  BY <1>7, RecheckTime
<1>8. CASE Inherit(t)
  BY <1>8, InheritTime
<1>9. CASE Place(t)
  BY <1>9, PlaceTime
<1>10. CASE UnlockTx(t)
  BY <1>10, UnlockTxTime
<1>11. CASE UnlockRx(t)
  BY <1>11, UnlockRxTime
<1>12. CASE Resume(t)
  BY <1>12, ResumeTimeKept
<1>13. CASE Yield(t)
  BY <1>13, YieldTime
<1>14. CASE Delayed(t)
  BY <1>14, DelayedTime
<1>15. CASE Expired(t)
  BY <1>15, ExpiredTime
<1>16. CASE Disinherit(t)
  BY <1>16, DisinheritTime
<1>17. CASE NotifyTake(t)
  BY <1>17, NotifyTakeTime
<1>18. CASE Notified(t)
  BY <1>18, NotifiedTime
<1> QED
  BY <1>1, <1>2, <1>3, <1>4, <1>5, <1>6, <1>7, <1>8, <1>9, <1>10, <1>11, <1>12, <1>13,
     <1>14, <1>15, <1>16, <1>17, <1>18 DEF Step

\* every interrupt does,
LEMMA TimeOfIsr ==
    ASSUME WInv, TInv, Isr
    PROVE  TInv'
<1>1. PICK c \in IsrCalls : \/ c.op = "send" /\ SendFromISR(c.obj)
                            \/ c.op = "receive" /\ ReceiveFromISR(c.obj)
                            \/ c.op = "notify" /\ vTaskNotifyGiveFromISR(c.obj)
  BY DEF Isr
<1>2. c \in IsrCallSet
  BY <1>1, KernelAssumption
<1>3. c.op \in {"send", "receive"} => c.obj \in Object
  BY <1>2 DEF IsrCallSet
<1>4. c.op = "notify" => c.obj \in Task
  BY <1>2 DEF IsrCallSet
<1>5. CASE c.op = "send" /\ SendFromISR(c.obj)
  BY <1>3, <1>5, SendFromISRTime
<1>6. CASE c.op = "receive" /\ ReceiveFromISR(c.obj)
  BY <1>3, <1>6, ReceiveFromISRTime
<1>7. CASE c.op = "notify" /\ vTaskNotifyGiveFromISR(c.obj)
  BY <1>4, <1>7, NotifyTime
<1> QED
  BY <1>1, <1>5, <1>6, <1>7

\* and so does everything the system does
LEMMA TimeNext ==
    ASSUME WInv, TInv, [Next]_vars
    PROVE  TInv'
<1>0. k' \in KState
  BY InvNext DEF WInv, Types
<1>1. CASE \E t \in Task : Send(t)
  BY <1>1, SendTime
<1>2. CASE PendSV
  BY <1>2, PendSVTime
<1>3. CASE \E t \in Task : Step(t) \/ Disinherit(t)
  BY <1>0, <1>3, TimeOfStep
<1>4. CASE \E t \in Task : \E c \in Calls[t] : Call(t, c)
  BY <1>4, CallInTime
<1>5. CASE Isr
  BY <1>5, TimeOfIsr
<1>6. CASE SysTick
  BY <1>0, <1>6, SysTickTime
<1>7. CASE UNCHANGED vars
  <2>1. k' = k /\ th' = th
    BY <1>7 DEF vars
  <2> QED
    BY <2>1 DEF TInv
<1> QED
  BY <1>1, <1>2, <1>3, <1>4, <1>5, <1>6, <1>7 DEF Next

\* A step of one task does not move another,
LEMMA OthersStay ==
    ASSUME WInv, NEW t \in Task,
           Send(t) \/ Disinherit(t) \/ Step(t) \/ \E c \in Calls[t] : Call(t, c),
           NEW u \in Task, u # t
    PROVE  th'[u].in.pc = th[u].in.pc
<1>1. Types
  BY DEF WInv
<1>2. CASE Resume(t)
  <2> DEFINE g == Elapsed(k', 0)
  <2>1. th'[u] = g[u]
    <3>1. \E in2 : th' = [g EXCEPT ![t].in = in2]
      BY <1>2 DEF Resume
    <3>2. g = [v \in Task |-> g[v]]
      BY DEF Elapsed
    <3> HIDE DEF g
    <3> QED
      BY <3>1, <3>2
  <2> QED
    BY <1>1, <2>1, OlderIs
<1>3. CASE \/ Send(t) \/ Receive(t) \/ Peek(t) \/ Delayed(t) \/ Disinherit(t)
  BY <1>1, <1>3 DEF Types, Send, Receive, Peek, Delayed, Disinherit, Return
<1>4. CASE \/ NotNow(t) \/ Suspend(t) \/ prvLockQueue(t) \/ Recheck(t)
           \/ UnlockTx(t) \/ UnlockRx(t) \/ Yield(t) \/ Expired(t)
  BY <1>1, <1>4
     DEF Types, NotNow, Suspend, prvLockQueue, Recheck, UnlockTx, UnlockRx, Yield, Expired,
         Return, Goto
<1>5. CASE \/ xTaskCheckForTimeOut(t) \/ Inherit(t) \/ Place(t) \/ NotifyTake(t)
           \/ Notified(t) \/ \E c \in Calls[t] : Call(t, c)
  BY <1>1, <1>5
     DEF Types, xTaskCheckForTimeOut, Inherit, Place, NotifyTake, Notified, Call
<1> QED
  BY <1>2, <1>3, <1>4, <1>5 DEF Step

\* so that a call that comes back empty-handed does so in a step of its own
LEMMA Ends ==
    ASSUME WInv, [Next]_vars, NEW t \in Task,
           th[t].in.pc \in {"expired", "disinherit", "woken", "resume"},
           th'[t].in.pc = "run"
    PROVE  Resume(t) \/ Delayed(t) \/ Expired(t) \/ Disinherit(t) \/ Notified(t)
<1>1. Types
  BY DEF WInv
<1>2. CASE \E u \in Task : \/ Send(u) \/ Disinherit(u) \/ Step(u)
                         \/ \E c \in Calls[u] : Call(u, c)
  <2>1. PICK u \in Task : Send(u) \/ Disinherit(u) \/ Step(u) \/ \E c \in Calls[u] : Call(u, c)
    BY <1>2
  <2>2. u = t
    BY <2>1, OthersStay
  <2>3. ~ Send(t) /\ ~ Receive(t) /\ ~ Peek(t) /\ ~ NotNow(t) /\ ~ NotifyTake(t)
    BY DEF Send, Receive, Peek, NotNow, NotifyTake, At
  <2>4. ~ Suspend(t) /\ ~ prvLockQueue(t) /\ ~ xTaskCheckForTimeOut(t) /\ ~ Recheck(t)
        /\ ~ Inherit(t) /\ ~ Place(t)
    BY DEF Suspend, prvLockQueue, xTaskCheckForTimeOut, Recheck, Inherit, Place, At
  <2>5. ~ UnlockTx(t) /\ ~ UnlockRx(t) /\ ~ Yield(t) /\ \A c : ~ Call(t, c)
    BY DEF UnlockTx, UnlockRx, Yield, Call, At
  <2> QED
    BY <2>1, <2>2, <2>3, <2>4, <2>5 DEF Step
<1>3. CASE PendSV \/ UNCHANGED vars
  BY <1>3 DEF PendSV, vars
<1>4. CASE SysTick
  BY <1>1, <1>4, OlderIs DEF SysTick
<1>5. CASE Isr
  <2>1. PICK c \in IsrCalls : \/ SendFromISR(c.obj) \/ ReceiveFromISR(c.obj)
                              \/ vTaskNotifyGiveFromISR(c.obj)
    BY <1>5 DEF Isr
  <2>2. CASE SendFromISR(c.obj) \/ ReceiveFromISR(c.obj)
    BY <2>2 DEF SendFromISR, ReceiveFromISR
  <2>3. CASE vTaskNotifyGiveFromISR(c.obj)
    <3>1. th[t] \in Thread
      BY <1>1, ThreadIs
    <3> QED
      BY <1>1, <2>3, <3>1 DEF vTaskNotifyGiveFromISR, Types, Thread
  <2> QED
    BY <2>1, <2>2, <2>3
<1> QED
  BY <1>2, <1>3, <1>4, <1>5 DEF Next

\* What the times say of a task in a delayed list
LEMMA ExactWait ==
    ASSUME WInv, TInv
    PROVE  WaitsExactly
<1> SUFFICES ASSUME NEW t \in Task, k.list[t] \in {"delayed", "overflow"}, ~ k.suspended
             PROVE  (k.wake[t] - k.tick) % TickMod = th[t].in.call.ticks - th[t].in.waited
  BY DEF WaitsExactly
<1> DEFINE g == th[t].in.call.ticks - th[t].in.waited  a == k.wake[t] - k.tick
<1>1. Types /\ k \in KState /\ k.pended = 0 /\ OnTime(k, t, ToGo(k, th[t]))
  BY DEF WInv, Types, TInv, TaskTime, ListTime
<1>2. g \in Int /\ ToGo(k, th[t]) = g
  <2>1. th[t].in.call.ticks \in Int /\ th[t].in.waited \in Int
    BY <1>1, InIs
  <2> QED
    BY <1>1, <2>1 DEF ToGo
<1>3. /\ TickMod \in Nat /\ TickMod > 1 /\ k.tick \in 0 .. TickMod - 1
      /\ k.wake[t] \in 0 .. TickMod - 1
  BY <1>1, FieldsOf, Numbers
<1> HIDE DEF g
<1>4. /\ g \in 1 .. TickMod - 1
      /\ k.wake[t] = k.tick + g \/ k.wake[t] = k.tick + g - TickMod
  BY <1>1, <1>2 DEF OnTime, DelayedLists
<1>5. a = g \/ a = g - TickMod
  BY <1>3, <1>4
<1> HIDE DEF a
<1>6. a \in Int /\ 0 - TickMod <= a /\ a < 2 * TickMod
  BY <1>3, <1>4, <1>5
<1>7. a % TickMod = IF a < 0 THEN a + TickMod ELSE IF a < TickMod THEN a ELSE a - TickMod
  BY <1>6, Turns
<1> QED
  BY <1>3, <1>4, <1>5, <1>7 DEF a, g

\* and of a call that comes back
LEMMA NotEarly ==
    ASSUME WInv, TInv, [Next]_vars, NEW t \in Task,
           th[t].in.pc \in {"expired", "disinherit", "woken", "resume"},
           th'[t].in.pc = "run", th[t].in.call.ticks # portMAX_DELAY,
           Op(t) = "notifyTake" => th[t].notified = 0
    PROVE  th[t].in.waited >= th[t].in.call.ticks
<1> DEFINE in == th[t].in
<1>1. Types /\ CallTime(in) /\ ListTime(k, t, th[t]) /\ Op(t) = in.call.op
  BY DEF WInv, TInv, TaskTime, Op
<1>2. CASE Expired(t) \/ Disinherit(t)
  <2>1. PICK pc \in {"expired", "disinherit"} : At(t, pc)
    BY <1>2 DEF Expired, Disinherit
  <2>2. in.pc = pc /\ CallPc(in)
    BY <2>1, AtIs
  <2>3. in.left = 0 /\ in.call.op \in Queueing
    BY <1>1, <2>2 DEF CallTime, CallPc
  <2> QED
    BY <1>1, <2>2, <2>3, TimedIs DEF CallTime
<1>3. CASE Resume(t)
  <2>1. in.after = "expired" /\ Op(t) = "send"
    <3> SUFFICES ASSUME ~ (in.after = "expired" /\ Op(t) = "send")
                 PROVE  th'[t].in.pc # "run"
      OBVIOUS
    <3> DEFINE g == Elapsed(k', 0)
               pc2 == CASE in.after = "expired" -> "expired"
                        [] in.after = "block" /\ ~ k'.yieldPending -> "yield"
                        [] OTHER -> Again(t)
               on == [g[t].in EXCEPT !.after = "", !.pc = pc2]
    <3>1. th' = [g EXCEPT ![t].in = on]
      BY <1>3 DEF Resume
    <3>2. pc2 # "run"
      BY DEF Again
    <3>3. g[t] \in Thread /\ g \in [Task -> Thread]
      <4> DEFINE none == 0
      <4>1. none \in Nat /\ \A u \in Task : th[u].in.waited + none \in 0 .. portMAX_DELAY
        BY <1>1, InIs
      <4>2. g = Elapsed(k', none)
        OBVIOUS
      <4> HIDE DEF none, g
      <4> QED
        BY <1>1, <4>1, <4>2, ElapsedIs
    <3> HIDE DEF pc2, g
    <3>4. on.pc = pc2
      BY <3>3 DEF Thread, ThreadType
    <3> HIDE DEF on
    <3> QED
      BY <3>1, <3>2, <3>3, <3>4 DEF Thread
  <2>2. in.left = 0 /\ in.call.op \in Queueing /\ in.pc = "resume"
    BY <1>1, <1>3, <2>1 DEF CallTime, Queueing, Sending, Resume, At
  <2> QED
    BY <1>1, <2>2, TimedIs DEF CallTime
<1>4. CASE Delayed(t) \/ Notified(t)
  <2>1. At(t, "woken") /\ in.call.op \in {"delay", "notifyTake"}
    BY <1>4 DEF Delayed, Notified, Op
  <2>2. k.list[t] = "ready" /\ in.pc = "woken"
    BY <2>1, AtReady
  <2> QED
    BY <1>1, <2>1, <2>2 DEF ListTime, DelayedLists
<1> QED
  BY <1>2, <1>3, <1>4, Ends

---------------------------------------------------------------------------
(* What is seen from outside the calls: the steps of BlockingObjects        *)

\* What module BlockingObjects sees: the items, the owners, the requests and how
\* long they have waited
Counts  == [o \in Object |-> q[o].msgs]
Owners  == [o \in Object |-> q[o].holder]
Wants   == [t \in Task |-> IF Op(t) \in {"none", "notifyTake"} THEN NULL ELSE th[t].in.call]
Waiteds == [t \in Task |-> IF Op(t) = "notifyTake" THEN 0 ELSE th[t].in.waited]

\* Task u stays in its call, and no time passes for it
SameRequest(u) == th'[u].in.call = th[u].in.call /\ th'[u].in.waited = th[u].in.waited

\* Nobody sends to o or takes from it
SameObject(o) == q'[o].msgs = q[o].msgs /\ q'[o].holder = q[o].holder

\* Requests stay,
LEMMA RequestsStay ==
    ASSUME \A u \in Task : SameRequest(u)
    PROVE  Wants' = Wants /\ Waiteds' = Waiteds
BY DEF Wants, Waiteds, Op, SameRequest

\* and items and owners do
LEMMA ObjectsStay ==
    ASSUME \A o \in Object : SameObject(o)
    PROVE  Counts' = Counts /\ Owners' = Owners
BY DEF Counts, Owners, SameObject

\* A step inside the calls is none outside
LEMMA Unseen ==
    ASSUME \A u \in Task : SameRequest(u), \A o \in Object : SameObject(o)
    PROVE  UNCHANGED Objects!vars
BY RequestsStay, ObjectsStay DEF Objects!vars, Counts, Owners, Wants, Waiteds

\* One object changes
LEMMA ObjectChanges ==
    ASSUME NEW o \in Object, NEW n, NEW h, q'[o].msgs = n, q'[o].holder = h,
           \A p \in Object : p # o => SameObject(p)
    PROVE  Counts' = [Counts EXCEPT ![o] = n] /\ Owners' = [Owners EXCEPT ![o] = h]
BY DEF Counts, Owners, SameObject

\* A call that returns is a request that is done
LEMMA ReturnIsDone ==
    ASSUME NEW t \in Task, th'[t].in = Outside,
           \A u \in Task : u # t => SameRequest(u)
    PROVE  Objects!Done(t)
<1>1. th'[t].in.call.op = "none" /\ th'[t].in.waited = 0
  BY OutsideTime
<1>2. Wants' = [Wants EXCEPT ![t] = NULL]
  BY <1>1 DEF Wants, Op, SameRequest
<1>3. Waiteds' = [Waiteds EXCEPT ![t] = 0]
  BY <1>1 DEF Waiteds, Op, SameRequest
<1> QED
  BY <1>2, <1>3 DEF Objects!Done, Wants, Waiteds

\* The request of a task in a call of an object, or in a delay
LEMMA RequestIs ==
    ASSUME Types, NEW t \in Task, Op(t) \in Queueing \cup {"delay"}
    PROVE  /\ Wants[t] = th[t].in.call /\ Wants[t] # NULL
           /\ Waiteds[t] = th[t].in.waited
           /\ Op(t) \in Queueing => Obj(t) \in Object
<1>1. Wants[t] = th[t].in.call /\ Waiteds[t] = th[t].in.waited
  BY DEF Wants, Waiteds, Queueing, Receiving, Sending
<1>2. th[t].in.call \in CallSet
  <2>1. th[t].in.call = NoCall \/ th[t].in.call \in CallSet
    BY InIs
  <2>2. NoCall.op = "none"
    BY DEF NoCall
  <2> QED
    BY <2>1, <2>2 DEF Op, Queueing, Receiving, Sending
<1> QED
  BY <1>1, <1>2, ThreadIs, KernelAssumption

\* A call that comes back empty-handed when its time is over is refused
LEMMA Refused ==
    ASSUME Types, NEW t \in Task, Op(t) \in Queueing \cup {"delay"},
           th[t].in.waited >= th[t].in.call.ticks,
           th[t].in.call.ticks # portMAX_DELAY \/ Op(t) = "delay",
           th'[t].in = Outside, \A u \in Task : u # t => SameRequest(u),
           \A o \in Object : SameObject(o)
    PROVE  Objects!Refuse(t)
<1>1. Objects!Done(t) /\ Counts' = Counts /\ Owners' = Owners
  BY ReturnIsDone, ObjectsStay
<1>2. Wants[t] = th[t].in.call /\ Wants[t] # NULL /\ Waiteds[t] = th[t].in.waited
  BY RequestIs
<1>3. /\ Wants[t] # NULL /\ (Wants[t].ticks # portMAX_DELAY \/ Wants[t].op = "delay")
      /\ Waiteds[t] >= Wants[t].ticks
  BY <1>2 DEF Op
<1> QED
  BY <1>1, <1>3 DEF Objects!Refuse, Counts, Owners, Wants, Waiteds

\* Where one call moves, the others stay
LEMMA OthersSame ==
    ASSUME Types, NEW t \in Task, NEW in2, th' = [th EXCEPT ![t].in = in2]
    PROVE  /\ th'[t].in = in2
           /\ \A u \in Task : u # t => SameRequest(u)
BY Moved DEF SameRequest

\* A return
LEMMA Returned ==
    ASSUME Types, NEW t \in Task, Return(t)
    PROVE  /\ th'[t].in = Outside
           /\ \A u \in Task : u # t => SameRequest(u)
BY OthersSame DEF Return

\* Going on in the call
LEMMA GoneOn ==
    ASSUME Types, NEW t \in Task, NEW p, Goto(t, p)
    PROVE  \A u \in Task : SameRequest(u)
<1>1. PICK in2 : th' = [th EXCEPT ![t].in = in2] /\ SameTimes(th[t].in, in2)
  BY NewPc
<1> QED
  BY <1>1, OthersSame DEF SameRequest, SameTimes

---------------------------------------------------------------------------
\* A call that starts is a request, but for a wait for a notification
LEMMA CallAsks ==
    ASSUME WInv, TInv, NEW t \in Task, NEW c \in Calls[t], Call(t, c)
    PROVE  Objects!Ask(t) \/ UNCHANGED Objects!vars
<1>1. /\ Types /\ At(t, "run") /\ th[t].in \in ThreadType /\ th[t].in = Outside
      /\ MayCall(t, c) /\ q' = q
  <2>1. Types /\ At(t, "run")
    BY DEF WInv, Call
  <2> QED
    BY <2>1, ThreadIs, AtReady DEF CallTime, TaskTime, Call
<1>2. c \in CallSet
  BY KernelAssumption
<1>3. c.op \in Queueing \cup {"delay", "notifyTake"} /\ c.op # "none"
  BY <1>2 DEF CallSet, Queueing, Receiving, Sending
<1>4. /\ th'[t].in.call = c /\ th'[t].in.waited = th[t].in.waited
      /\ \A u \in Task : u # t => SameRequest(u)
  <2> DEFINE pc2 == IF c.op # "delay" THEN "try"
                    ELSE IF c.ticks = 0 THEN "yield" ELSE "suspend"
             in2 == [th[t].in EXCEPT !.call = c, !.left = c.ticks, !.pc = pc2]
  <2>1. th' = [th EXCEPT ![t].in.call = c, ![t].in.left = c.ticks, ![t].in.pc = pc2]
    BY DEF Call
  <2> HIDE DEF pc2
  <2>2. th' = [th EXCEPT ![t].in = in2]
    BY ZenonT(40), <1>1, <2>1 DEF Types, Thread, ThreadType
  <2>3. in2.call = c /\ in2.waited = th[t].in.waited
    BY <1>1 DEF ThreadType
  <2> HIDE DEF in2
  <2> QED
    BY <1>1, <2>2, <2>3, OthersSame
<1>5. Op(t) = "none" /\ th[t].in.waited = 0
  BY <1>1, OutsideTime DEF Op
<1>6. Counts' = Counts /\ Owners' = Owners
  BY <1>1 DEF Counts, Owners
<1>7. Waiteds' = Waiteds
  BY <1>4, <1>5 DEF Waiteds, Op, SameRequest
<1>8. CASE c.op = "notifyTake"
  <2>1. Wants' = Wants
    BY <1>4, <1>5, <1>8 DEF Wants, Op, SameRequest
  <2> QED
    BY <1>6, <1>7, <2>1 DEF Objects!vars, Counts, Owners, Wants, Waiteds
<1>9. CASE c.op # "notifyTake"
  <2>1. Wants' = [Wants EXCEPT ![t] = c] /\ Wants[t] = NULL
    BY <1>3, <1>4, <1>5, <1>9 DEF Wants, Op, SameRequest
  <2>2. c.obj \in {o \in Object : Type[o] = "mutex"} => (c.op = "send") = (Owners[c.obj] = t)
    BY <1>1 DEF MayCall, Owners
  <2>3. c \in UNION {Calls[u] : u \in Task}
    OBVIOUS
  <2> QED
    BY <1>6, <1>7, <2>1, <2>2, <2>3 DEF Objects!Ask, Counts, Owners, Wants, Waiteds
<1> QED
  BY <1>8, <1>9

\* The first critical section grants a request to send,
LEMMA SendGrants ==
    ASSUME WInv, NEW t \in Task, Send(t)
    PROVE  Objects!GrantSend(t)
<1> DEFINE o == Obj(t)
<1>1. Types /\ Op(t) = "send" /\ ~ Full(o) /\ Return(t)
  BY DEF WInv, Send
<1>2. /\ Wants[t] = th[t].in.call /\ Wants[t] # NULL /\ Wants[t].op = "send"
      /\ Wants[t].obj = o /\ o \in Object
  BY <1>1, RequestIs DEF Op, Obj, Queueing, Sending
<1>3. Objects!Done(t)
  BY <1>1, Returned, ReturnIsDone
<1>4. Counts[o] = q[o].msgs /\ Owners[o] = q[o].holder /\ Counts[o] < Length[o]
  <2>1. q[o].msgs \in Nat /\ q[o].msgs <= Length[o] /\ Length[o] \in Nat
    BY <1>1, <1>2, ObjectIs
  <2> QED
    BY <1>1, <1>2, <2>1 DEF Counts, Owners, Full
<1>5. /\ q'[o].msgs = q[o].msgs + 1 /\ q'[o].holder = NULL
      /\ \A p \in Object : p # o => SameObject(p)
  <2>1. q' = [q EXCEPT ![o].msgs = @ + 1, ![o].recv = Rest(@), ![o].holder = NULL]
    BY DEF Send
  <2>2. q[o] \in QState(o) /\ DOMAIN q = Object
    BY <1>1, <1>2, ObjectIs DEF Types
  <2> HIDE DEF o
  <2> QED
    BY <1>2, <2>1, <2>2 DEF QState, SameObject
<1> HIDE DEF o
<1>6. Counts' = [Counts EXCEPT ![o] = Counts[o] + 1] /\ Owners' = [Owners EXCEPT ![o] = NULL]
  BY <1>2, <1>4, <1>5, ObjectChanges
<1>7. /\ Wants[t] # NULL /\ Wants[t].op = "send" /\ Counts[Wants[t].obj] < Length[Wants[t].obj]
      /\ Counts' = [Counts EXCEPT ![Wants[t].obj] = @ + 1]
      /\ Owners' = [Owners EXCEPT ![Wants[t].obj] = NULL]
  BY <1>2, <1>4, <1>6
<1> QED
  BY <1>3, <1>7 DEF Objects!GrantSend, Counts, Owners, Wants

\* a request to receive or take,
LEMMA ReceiveGrants ==
    ASSUME WInv, NEW t \in Task, Receive(t)
    PROVE  Objects!GrantTake(t)
<1> DEFINE o == Obj(t)
           h == IF Type[o] = "mutex" THEN t ELSE NULL
<1>1. Types /\ Op(t) \in {"receive", "take"} /\ ~ Empty(o) /\ Return(t)
  BY DEF WInv, Receive
<1>2. /\ Wants[t] = th[t].in.call /\ Wants[t] # NULL /\ Wants[t].op \in {"receive", "take"}
      /\ Wants[t].obj = o /\ o \in Object
  BY <1>1, RequestIs DEF Op, Obj, Queueing, Receiving
<1>3. Objects!Done(t)
  BY <1>1, Returned, ReturnIsDone
<1>4. Counts[o] = q[o].msgs /\ Owners[o] = q[o].holder /\ Counts[o] > 0
  <2>1. q[o].msgs \in Nat
    BY <1>1, <1>2, ObjectIs
  <2> QED
    BY <1>1, <1>2, <2>1 DEF Counts, Owners, Empty
<1>5. /\ q'[o].msgs = q[o].msgs - 1 /\ q'[o].holder = h
      /\ \A p \in Object : p # o => SameObject(p)
  <2>1. q' = [q EXCEPT ![o].msgs = @ - 1, ![o].send = Rest(@), ![o].holder = h]
    BY DEF Receive
  <2>2. q[o] \in QState(o) /\ DOMAIN q = Object
    BY <1>1, <1>2, ObjectIs DEF Types
  <2> HIDE DEF o, h
  <2> QED
    BY <1>2, <2>1, <2>2 DEF QState, SameObject
<1>6. h = IF o \in {p \in Object : Type[p] = "mutex"} THEN t ELSE NULL
  BY <1>2
<1> HIDE DEF o, h
<1>7. Counts' = [Counts EXCEPT ![o] = Counts[o] - 1] /\ Owners' = [Owners EXCEPT ![o] = h]
  BY <1>2, <1>4, <1>5, ObjectChanges
<1>8. /\ Wants[t] # NULL /\ Wants[t].op \in {"receive", "take"} /\ Counts[Wants[t].obj] > 0
      /\ Counts' = [Counts EXCEPT ![Wants[t].obj] = @ - 1]
      /\ Owners' = [Owners EXCEPT ![Wants[t].obj] =
                       IF Wants[t].obj \in {p \in Object : Type[p] = "mutex"} THEN t ELSE NULL]
  BY <1>2, <1>4, <1>6, <1>7
<1> QED
  BY <1>3, <1>8 DEF Objects!GrantTake, Counts, Owners, Wants

\* and a request to look
LEMMA PeekGrants ==
    ASSUME WInv, NEW t \in Task, Peek(t)
    PROVE  Objects!GrantPeek(t)
<1> DEFINE o == Obj(t)
<1>1. Types /\ Op(t) = "peek" /\ ~ Empty(o) /\ Return(t)
  BY DEF WInv, Peek
<1>2. /\ Wants[t] = th[t].in.call /\ Wants[t] # NULL /\ Wants[t].op = "peek"
      /\ Wants[t].obj = o /\ o \in Object
  BY <1>1, RequestIs DEF Op, Obj, Queueing, Receiving
<1>3. Objects!Done(t)
  BY <1>1, Returned, ReturnIsDone
<1>4. Counts[o] > 0
  <2>1. q[o].msgs \in Nat
    BY <1>1, <1>2, ObjectIs
  <2> QED
    BY <1>1, <1>2, <2>1 DEF Counts, Empty
<1>5. \A p \in Object : SameObject(p)
  <2>1. q' = [q EXCEPT ![o].recv = Rest(@)]
    BY DEF Peek
  <2>2. q[o] \in QState(o) /\ DOMAIN q = Object
    BY <1>1, <1>2, ObjectIs DEF Types
  <2> HIDE DEF o
  <2> QED
    BY <1>2, <2>1, <2>2 DEF QState, SameObject
<1> HIDE DEF o
<1>6. Counts' = Counts /\ Owners' = Owners
  BY <1>5, ObjectsStay
<1>7. Wants[t] # NULL /\ Wants[t].op = "peek" /\ Counts[Wants[t].obj] > 0
  BY <1>2, <1>4
<1> QED
  BY <1>3, <1>6, <1>7 DEF Objects!GrantPeek, Counts, Owners, Wants

\* Objects that do not change
LEMMA SameObjects ==
    ASSUME q' = q
    PROVE  \A o \in Object : SameObject(o)
BY DEF SameObject

\* A call that has no time left has waited its time
LEMMA TimeIsOver ==
    ASSUME NEW in, CallTime(in), in.left = 0, in.call.op \in Queueing,
           in.call.ticks \in 0 .. portMAX_DELAY, in.waited \in 0 .. portMAX_DELAY
    PROVE  in.waited >= in.call.ticks /\ in.call.ticks # portMAX_DELAY
<1>1. CASE in.timed
  BY <1>1 DEF CallTime
<1>2. CASE ~ in.timed
  <2>1. in.call.ticks = 0
    BY <1>2 DEF CallTime
  <2>2. portMAX_DELAY \in Nat /\ portMAX_DELAY # 0
    BY SchedulerAssumption DEF portMAX_DELAY
  <2> QED
    BY <2>1, <2>2
<1> QED
  BY <1>1, <1>2

\* so that, when it returns, it is refused
LEMMA OverIsRefused ==
    ASSUME WInv, TInv, NEW t \in Task, Op(t) \in Queueing, th[t].in.left = 0,
           th'[t].in = Outside, \A u \in Task : u # t => SameRequest(u),
           \A o \in Object : SameObject(o)
    PROVE  Objects!Refuse(t)
<1>1. Types /\ CallTime(th[t].in)
  BY DEF WInv, TInv, TaskTime
<1>2. /\ th[t].in.call.ticks \in 0 .. portMAX_DELAY
      /\ th[t].in.waited \in 0 .. portMAX_DELAY
  BY <1>1, InIs
<1>3. th[t].in.waited >= th[t].in.call.ticks /\ th[t].in.call.ticks # portMAX_DELAY
  BY <1>1, <1>2, TimeIsOver DEF Op
<1> QED
  BY <1>1, <1>3, Refused

\* Nothing there, or no room: the request is refused, or waits
LEMMA NotNowRefuses ==
    ASSUME WInv, TInv, NEW t \in Task, NotNow(t)
    PROVE  Objects!Refuse(t) \/ UNCHANGED Objects!vars
<1>1. Types /\ Blocked(t) /\ th[t].in \in ThreadType /\ \A o \in Object : SameObject(o)
  BY ThreadIs, SameObjects DEF WInv, NotNow
<1>2. CASE th[t].in.left = 0
  <2>1. Return(t)
    BY <1>2 DEF NotNow
  <2>2. Op(t) \in Queueing
    BY <1>1 DEF Blocked, Queueing, Receiving, Sending
  <2> QED
    BY <1>1, <1>2, <2>1, <2>2, Returned, OverIsRefused
<1>3. CASE th[t].in.left # 0
  <2> DEFINE at == IF th[t].in.timed THEN th[t].in.at ELSE k.tick
             in2 == [th[t].in EXCEPT !.pc = "suspend", !.timed = TRUE, !.at = at]
  <2>1. th' = [th EXCEPT ![t].in.pc = "suspend", ![t].in.timed = TRUE,
                         ![t].in.at = IF th[t].in.timed THEN @ ELSE k.tick]
    BY <1>3 DEF NotNow
  <2>2. th' = [th EXCEPT ![t].in = in2]
    BY ZenonT(40), <1>1, <2>1 DEF Types, Thread, ThreadType
  <2>3. in2.call = th[t].in.call /\ in2.waited = th[t].in.waited
    BY <1>1 DEF ThreadType
  <2> HIDE DEF in2
  <2>4. \A u \in Task : SameRequest(u)
    BY <1>1, <2>2, <2>3, OthersSame DEF SameRequest
  <2> QED
    BY <1>1, <2>4, Unseen
<1> QED
  BY <1>2, <1>3

\* The steps of a wait are unseen
LEMMA WaitIsUnseen ==
    ASSUME WInv, NEW t \in Task,
           \/ Suspend(t) \/ prvLockQueue(t) \/ UnlockTx(t) \/ UnlockRx(t) \/ Yield(t)
    PROVE  UNCHANGED Objects!vars
<1>1. Types
  BY DEF WInv
<1>2. \A u \in Task : SameRequest(u)
  <2>1. \E p : Goto(t, p)
    BY DEF Suspend, prvLockQueue, UnlockTx, UnlockRx, Yield
  <2> QED
    BY <1>1, <2>1, GoneOn
<1>3. \A o \in Object : SameObject(o)
  <2>1. DOMAIN q = Object /\ \A o \in Object : q[o] \in QState(o)
    BY <1>1 DEF Types
  <2>2. CASE Suspend(t) \/ Yield(t)
    BY <2>2, SameObjects DEF Suspend, Yield
  <2>3. CASE prvLockQueue(t)
    BY <2>1, <2>3 DEF prvLockQueue, QState, SameObject
  <2>4. CASE UnlockTx(t)
    <3>1. \E lock, list : q' = [q EXCEPT ![Obj(t)].txLock = lock, ![Obj(t)].recv = list]
      <4>1. q' = [q EXCEPT ![Obj(t)].txLock = UNLOCKED,
                  ![Obj(t)].recv = Without(q[Obj(t)].recv,
                                           Woken(q[Obj(t)].recv, q[Obj(t)].txLock))]
        BY <2>1, <2>4 DEF UnlockTx
      <4> QED
        BY <4>1
    <3> QED
      BY <2>1, <3>1 DEF QState, SameObject
  <2>5. CASE UnlockRx(t)
    <3>1. \E lock, list : q' = [q EXCEPT ![Obj(t)].rxLock = lock, ![Obj(t)].send = list]
      <4>1. q' = [q EXCEPT ![Obj(t)].rxLock = UNLOCKED,
                  ![Obj(t)].send = Without(q[Obj(t)].send,
                                           Woken(q[Obj(t)].send, q[Obj(t)].rxLock))]
        BY <2>1, <2>5 DEF UnlockRx
      <4> QED
        BY <4>1
    <3> QED
      BY <2>1, <3>1 DEF QState, SameObject
  <2> QED
    BY <2>2, <2>3, <2>4, <2>5
<1> QED
  BY <1>2, <1>3, Unseen

\* The look at the time and the second look at the object,
LEMMA LooksAreUnseen ==
    ASSUME WInv, NEW t \in Task, xTaskCheckForTimeOut(t) \/ Recheck(t) \/ Inherit(t)
    PROVE  UNCHANGED Objects!vars
<1>1. Types /\ th[t].in \in ThreadType /\ \A o \in Object : SameObject(o)
  BY ThreadIs, SameObjects DEF WInv, xTaskCheckForTimeOut, Recheck, Inherit
<1>2. \A u \in Task : SameRequest(u)
  <2> DEFINE in == th[t].in
  <2>1. CASE xTaskCheckForTimeOut(t)
    <3> DEFINE elapsed == (k.tick - in.at) % TickMod
               zero == 0
               a == [in EXCEPT !.pc = "recheck"]
               b == [in EXCEPT !.pc = "unlockTx", !.after = "expired"]
               c == [Restarted(in, elapsed) EXCEPT !.pc = "recheck"]
               d == [in EXCEPT !.pc = "unlockTx", !.after = "expired", !.left = zero]
    <3>1. \E in2 \in {a, b, c, d} : th' = [th EXCEPT ![t].in = in2]
      <4>1. \E P, Q, R :
              th' = [th EXCEPT ![t].in = CASE P -> a [] Q -> b [] R -> c [] OTHER -> d]
        BY <1>1, <2>1 DEF xTaskCheckForTimeOut, Types
      <4> HIDE DEF a, b, c, d
      <4> QED
        BY <4>1
    <3>2. \A in2 \in {a, b, c, d} : in2.call = in.call /\ in2.waited = in.waited
      <4> DEFINE left == in.left - elapsed
      <4>1. c = [in EXCEPT !.left = left, !.at = k.tick, !.wrapped = FALSE, !.pc = "recheck"]
        BY <1>1 DEF Restarted, ThreadType
      <4> HIDE DEF left, c, elapsed
      <4> QED
        BY <1>1, <4>1 DEF ThreadType
    <3> HIDE DEF a, b, c, d
    <3> QED
      BY <1>1, <3>1, <3>2, OthersSame DEF SameRequest
  <2>2. CASE Recheck(t)
    <3>1. CASE ~ Blocked(t)
      <4> DEFINE in2 == [in EXCEPT !.pc = "unlockTx", !.after = "retry"]
      <4>1. th' = [th EXCEPT ![t].in = in2]
        <5>1. th' = [th EXCEPT ![t].in.pc = "unlockTx", ![t].in.after = "retry"]
          BY <2>2, <3>1 DEF Recheck
        <5> QED
          BY ZenonT(40), <1>1, <5>1 DEF Types, Thread, ThreadType
      <4>2. in2.call = in.call /\ in2.waited = in.waited
        BY <1>1 DEF ThreadType
      <4> HIDE DEF in2
      <4> QED
        BY <1>1, <4>1, <4>2, OthersSame DEF SameRequest
    <3>2. CASE Blocked(t)
      <4>1. \E p : Goto(t, p)
        BY <2>2, <3>2 DEF Recheck
      <4> QED
        BY <1>1, <4>1, GoneOn
    <3> QED
      BY <3>1, <3>2
  <2>3. CASE Inherit(t)
    <3> DEFINE i == Inherits(k, q[Obj(t)].holder)
               in2 == [in EXCEPT !.pc = "place", !.inherited = i]
    <3>1. th' = [th EXCEPT ![t].in.pc = "place", ![t].in.inherited = i]
      BY <2>3 DEF Inherit
    <3> HIDE DEF i
    <3>2. th' = [th EXCEPT ![t].in = in2]
      BY <1>1, <3>1 DEF Types, Thread, ThreadType
    <3>3. in2.call = in.call /\ in2.waited = in.waited
      BY <1>1 DEF ThreadType
    <3> HIDE DEF in2
    <3> QED
      BY <1>1, <3>2, <3>3, OthersSame DEF SameRequest
  <2> QED
    BY <2>1, <2>2, <2>3
<1> QED
  BY <1>1, <1>2, Unseen

\* and going to sleep
LEMMA PlaceIsUnseen ==
    ASSUME WInv, NEW t \in Task, Place(t)
    PROVE  UNCHANGED Objects!vars
<1>1. Types /\ th[t].in \in ThreadType
  BY ThreadIs DEF WInv
<1>2. \A u \in Task : SameRequest(u)
  <2> DEFINE pc2 == IF Op(t) = "delay" THEN "resume" ELSE "unlockTx"
             in2 == [th[t].in EXCEPT !.pc = pc2, !.after = "block"]
  <2>1. th' = [th EXCEPT ![t].in.pc = pc2, ![t].in.after = "block"]
    BY DEF Place
  <2> HIDE DEF pc2
  <2>2. th' = [th EXCEPT ![t].in = in2]
    BY <1>1, <2>1 DEF Types, Thread, ThreadType
  <2>3. in2.call = th[t].in.call /\ in2.waited = th[t].in.waited
    BY <1>1 DEF ThreadType
  <2> HIDE DEF in2
  <2> QED
    BY <1>1, <2>2, <2>3, OthersSame DEF SameRequest
<1>3. \A o \in Object : SameObject(o)
  <2>1. DOMAIN q = Object /\ \A o \in Object : q[o] \in QState(o)
    BY <1>1 DEF Types
  <2>2. \/ q' = q
        \/ \E list : q' = [q EXCEPT ![Obj(t)].send = list]
        \/ \E list : q' = [q EXCEPT ![Obj(t)].recv = list]
    <3>1. \/ q' = q
          \/ q' = [q EXCEPT ![Obj(t)].send = PlaceInOrder(@, t)]
          \/ q' = [q EXCEPT ![Obj(t)].recv = PlaceInOrder(@, t)]
      BY DEF Place
    <3> QED
      BY <3>1
  <2> QED
    BY <2>1, <2>2, SameObjects DEF QState, SameObject
<1> QED
  BY <1>2, <1>3, Unseen

\* The scheduler is resumed: a sender whose time is over is refused
LEMMA ResumeRefuses ==
    ASSUME WInv, TInv, NEW t \in Task, Resume(t)
    PROVE  Objects!Refuse(t) \/ UNCHANGED Objects!vars
<1> DEFINE in == th[t].in
           g == Elapsed(k', 0)
           over == in.after = "expired" /\ Op(t) = "send"
<1>1. Types /\ CallTime(in)
  BY DEF WInv, TInv, TaskTime
<1>2. \A o \in Object : SameObject(o)
  <2>1. \A o \in Object : q[o] \in QState(o)
    BY <1>1 DEF Types
  <2>2. ASSUME NEW o \in Object
        PROVE  \E a, b : q'[o] = [q[o] EXCEPT !.recv = a, !.send = b]
    BY DEF Resume, Listed
  <2> QED
    BY <2>1, <2>2 DEF QState, SameObject
<1>3. \A u \in Task : g[u].in.call = th[u].in.call /\ g[u].in.waited = th[u].in.waited
  <2> TAKE u \in Task
  <2> DEFINE none == 0
  <2>1. g[u] = Elapsed(k', none)[u] /\ th[u].in.waited + none = th[u].in.waited
    <3>1. th[u].in.waited \in Int
      BY <1>1, InIs
    <3> QED
      BY <3>1
  <2> HIDE DEF none, g
  <2> QED
    BY <1>1, <2>1, OlderIs
<1>4. g \in [Task -> Thread]
  <2> DEFINE none == 0
  <2>1. none \in Nat /\ \A u \in Task : th[u].in.waited + none \in 0 .. portMAX_DELAY
    BY <1>1, InIs
  <2>2. g = Elapsed(k', none)
    OBVIOUS
  <2> HIDE DEF none, g
  <2> QED
    BY <1>1, <2>1, <2>2, ElapsedIs
<1>5. ASSUME NEW in2, th' = [g EXCEPT ![t].in = in2]
      PROVE  th'[t].in = in2 /\ \A u \in Task : u # t => SameRequest(u)
  <2> HIDE DEF g
  <2> DEFINE x == [g[t] EXCEPT !.in = in2]
  <2>1. x.in = in2
    BY <1>4 DEF Thread
  <2>2. th' = [g EXCEPT ![t] = x]
    BY <1>5
  <2> HIDE DEF x
  <2> QED
    BY <1>3, <1>4, <2>1, <2>2 DEF SameRequest
<1>6. CASE over
  <2>1. th' = [g EXCEPT ![t].in = Outside]
    BY <1>6 DEF Resume
  <2>2. th'[t].in = Outside /\ \A u \in Task : u # t => SameRequest(u)
    BY <1>5, <2>1
  <2>3. in.left = 0 /\ Op(t) \in Queueing
    BY <1>1, <1>6 DEF CallTime, Queueing, Sending
  <2> QED
    BY <1>2, <2>2, <2>3, OverIsRefused
<1>7. CASE ~ over
  <2> DEFINE pc2 == CASE in.after = "expired" -> "expired"
                      [] in.after = "block" /\ ~ k'.yieldPending -> "yield"
                      [] OTHER -> Again(t)
             on == [g[t].in EXCEPT !.after = "", !.pc = pc2]
  <2>1. th' = [g EXCEPT ![t].in = on]
    BY <1>7 DEF Resume
  <2> HIDE DEF pc2, g
  <2>2. on.call = in.call /\ on.waited = in.waited
    <3>1. g[t].in \in ThreadType
      BY <1>4 DEF Thread
    <3> QED
      BY <1>3, <3>1 DEF ThreadType
  <2> HIDE DEF on
  <2>3. \A u \in Task : SameRequest(u)
    BY <1>5, <2>1, <2>2 DEF SameRequest
  <2> QED
    BY <1>2, <2>3, Unseen
<1> QED
  BY <1>6, <1>7

\* A delay is over,
LEMMA DelayedRefuses ==
    ASSUME WInv, TInv, NEW t \in Task, Delayed(t)
    PROVE  Objects!Refuse(t)
<1>1. /\ Types /\ At(t, "woken") /\ Op(t) = "delay" /\ Return(t)
      /\ \A o \in Object : SameObject(o)
  BY SameObjects DEF WInv, Delayed
<1>2. th[t].in.waited >= th[t].in.call.ticks
  <2>1. k.list[t] = "ready" /\ th[t].in.pc = "woken" /\ TaskTime(k, t, th[t])
    BY <1>1, AtReady
  <2> QED
    BY <1>1, <2>1 DEF TaskTime, ListTime, DelayedLists, Op
<1> QED
  BY <1>1, <1>2, Refused, Returned

\* and the last look at an empty object is
LEMMA ExpiredRefuses ==
    ASSUME WInv, TInv, NEW t \in Task, Expired(t) \/ Disinherit(t)
    PROVE  Objects!Refuse(t) \/ UNCHANGED Objects!vars
<1>1. Types /\ \A o \in Object : SameObject(o)
  BY SameObjects DEF WInv, Expired, Disinherit
<1>2. CASE Return(t)
  <2>1. PICK pc \in {"expired", "disinherit"} : At(t, pc)
    BY DEF Expired, Disinherit
  <2>2. th[t].in.pc = pc /\ CallPc(th[t].in) /\ CallTime(th[t].in)
    BY <2>1, AtIs DEF TInv, TaskTime
  <2>3. th[t].in.left = 0 /\ Op(t) \in Queueing
    BY <2>2 DEF CallTime, CallPc, Op
  <2> QED
    BY <1>1, <1>2, <2>3, OverIsRefused, Returned
<1>3. CASE ~ Return(t)
  <2>1. \E p : Goto(t, p)
    BY <1>3 DEF Expired, Disinherit
  <2> QED
    BY <1>1, <2>1, GoneOn, Unseen
<1> QED
  BY <1>2, <1>3

\* Notifications are unseen
LEMMA NotificationsAreUnseen ==
    ASSUME WInv, TInv, NEW t \in Task,
           NotifyTake(t) \/ Notified(t) \/ vTaskNotifyGiveFromISR(t)
    PROVE  UNCHANGED Objects!vars
<1>1. Types /\ th[t] \in Thread /\ th[t].in \in ThreadType
  BY ThreadIs DEF WInv
<1>2. \A o \in Object : SameObject(o)
  BY SameObjects DEF NotifyTake, Notified, vTaskNotifyGiveFromISR
<1>3. CASE NotifyTake(t)
  <2> DEFINE w == (th[t].notified = 0) \/ th[t].waiting
             in2 == [th[t].in EXCEPT !.pc = "woken"]
             x == [th[t] EXCEPT !.in = in2, !.waiting = w]
  <2>1. th' = [th EXCEPT ![t].in.pc = "woken", ![t].waiting = w]
    BY <1>3 DEF NotifyTake
  <2> HIDE DEF w
  <2>2. th' = [th EXCEPT ![t] = x]
    BY <1>1, <2>1 DEF Types, Thread, ThreadType
  <2>3. in2.call = th[t].in.call /\ in2.waited = th[t].in.waited
    BY <1>1 DEF ThreadType
  <2> HIDE DEF in2
  <2>4. x.in = in2
    BY <1>1 DEF Thread
  <2> HIDE DEF x
  <2>5. \A u \in Task : SameRequest(u)
    BY <1>1, <2>2, <2>3, <2>4 DEF Types, SameRequest
  <2> QED
    BY <1>2, <2>5, Unseen
<1>4. CASE Notified(t)
  <2> DEFINE zero == 0
             x == [th[t] EXCEPT !.in = Outside, !.notified = zero, !.waiting = FALSE]
  <2>1. th' = [th EXCEPT ![t].in = Outside, ![t].notified = zero, ![t].waiting = FALSE]
    BY <1>4 DEF Notified
  <2> HIDE DEF zero
  <2>2. th' = [th EXCEPT ![t] = x]
    BY <1>1, <2>1 DEF Types, Thread
  <2>3. x.in = Outside
    BY <1>1 DEF Thread
  <2> HIDE DEF x
  <2>4. th'[t].in = Outside /\ \A u \in Task : u # t => SameRequest(u)
    BY <1>1, <2>2, <2>3 DEF Types, SameRequest
  <2>5. Op(t) = "notifyTake"
    BY <1>4 DEF Notified
  <2>6. Wants' = Wants /\ Waiteds' = Waiteds
    BY <2>4, <2>5, OutsideTime DEF Wants, Waiteds, Op, SameRequest
  <2> QED
    BY <1>2, <2>6, ObjectsStay DEF Objects!vars, Counts, Owners, Wants, Waiteds
<1>5. CASE vTaskNotifyGiveFromISR(t)
  <2> DEFINE n == th[t].notified + 1
             x == [th[t] EXCEPT !.notified = n, !.waiting = FALSE]
  <2>1. th' = [th EXCEPT ![t].notified = n, ![t].waiting = FALSE]
    BY <1>1, <1>5 DEF vTaskNotifyGiveFromISR, Types, Thread
  <2> HIDE DEF n
  <2>2. th' = [th EXCEPT ![t] = x]
    BY <1>1, <2>1 DEF Types, Thread
  <2>3. x.in = th[t].in
    BY <1>1 DEF Thread
  <2> HIDE DEF x
  <2>4. \A u \in Task : SameRequest(u)
    BY <1>1, <2>2, <2>3 DEF Types, SameRequest
  <2> QED
    BY <1>2, <2>4, Unseen
<1> QED
  BY <1>3, <1>4, <1>5

\* An interrupt adds to or takes from an object that is no mutex
LEMMA IsrInterrupts ==
    ASSUME WInv, TInv, Isr
    PROVE  Objects!Interrupt \/ UNCHANGED Objects!vars
<1>1. Types
  BY DEF WInv
<1>2. PICK c \in IsrCalls : \/ c.op = "send" /\ SendFromISR(c.obj)
                            \/ c.op = "receive" /\ ReceiveFromISR(c.obj)
                            \/ c.op = "notify" /\ vTaskNotifyGiveFromISR(c.obj)
  BY DEF Isr
<1>3. c \in IsrCallSet
  BY <1>2, KernelAssumption
<1> DEFINE o == c.obj
<1>4. ASSUME o \in Object, NEW n \in {q[o].msgs - 1, q[o].msgs + 1} \cap 0 .. Length[o],
             UNCHANGED th, q'[o].msgs = n, q'[o].holder = q[o].holder,
             \A p \in Object : p # o => SameObject(p)
      PROVE  Objects!Interrupt
  <2>1. o \in Object \ {p \in Object : Type[p] = "mutex"}
    BY <1>4, KernelAssumption
  <2> HIDE DEF o
  <2>2. Counts' = [Counts EXCEPT ![o] = n] /\ Counts[o] = q[o].msgs
    BY <1>4, ObjectChanges DEF Counts
  <2>3. Owners' = Owners
    BY <1>4 DEF Owners, SameObject
  <2>4. Wants' = Wants /\ Waiteds' = Waiteds
    BY <1>4 DEF Wants, Waiteds, Op
  <2>5. n \in {Counts[o] - 1, Counts[o] + 1} \cap 0 .. Length[o]
    BY <1>4, <2>2
  <2>6. /\ \E p \in Object \ {p \in Object : Type[p] = "mutex"} :
             \E m \in {Counts[p] - 1, Counts[p] + 1} \cap 0 .. Length[p] :
               Counts' = [Counts EXCEPT ![p] = m]
        /\ UNCHANGED <<Owners, Wants, Waiteds>>
    BY <2>1, <2>2, <2>3, <2>4, <2>5
  <2> QED
    BY <2>6 DEF Objects!Interrupt, Counts, Owners, Wants, Waiteds
<1>5. CASE c.op = "send" /\ SendFromISR(o)
  <2>1. o \in Object
    BY <1>3, <1>5 DEF IsrCallSet
  <2>2. /\ q[o].msgs \in Nat /\ q[o].msgs <= Length[o] /\ Length[o] \in Nat
        /\ q[o] \in QState(o) /\ DOMAIN q = Object
    BY <1>1, <2>1, ObjectIs DEF Types
  <2>3. UNCHANGED th /\ q[o].msgs # Length[o]
    BY <1>5 DEF SendFromISR, Full
  <2>4. q[o].msgs + 1 \in {q[o].msgs - 1, q[o].msgs + 1} \cap 0 .. Length[o]
    BY <2>2, <2>3
  <2>5. PICK lock, list : q' = [q EXCEPT ![o].msgs = @ + 1,
                                         ![o].txLock = IF lock THEN @ + 1 ELSE @,
                                         ![o].recv = IF lock THEN @ ELSE list]
    BY <1>5 DEF SendFromISR
  <2>6. /\ q'[o].msgs = q[o].msgs + 1 /\ q'[o].holder = q[o].holder
        /\ \A p \in Object : p # o => SameObject(p)
    <3> HIDE DEF o
    <3> QED
      BY <2>1, <2>2, <2>5 DEF QState, SameObject
  <2> QED
    BY <1>4, <2>1, <2>3, <2>4, <2>6
<1>6. CASE c.op = "receive" /\ ReceiveFromISR(o)
  <2>1. o \in Object
    BY <1>3, <1>6 DEF IsrCallSet
  <2>2. /\ q[o].msgs \in Nat /\ q[o].msgs <= Length[o] /\ Length[o] \in Nat
        /\ q[o] \in QState(o) /\ DOMAIN q = Object
    BY <1>1, <2>1, ObjectIs DEF Types
  <2>3. UNCHANGED th /\ q[o].msgs # 0
    BY <1>6 DEF ReceiveFromISR, Empty
  <2>4. q[o].msgs - 1 \in {q[o].msgs - 1, q[o].msgs + 1} \cap 0 .. Length[o]
    BY <2>2, <2>3
  <2>5. PICK lock, list : q' = [q EXCEPT ![o].msgs = @ - 1,
                                         ![o].rxLock = IF lock THEN @ + 1 ELSE @,
                                         ![o].send = IF lock THEN @ ELSE list]
    BY <1>6 DEF ReceiveFromISR
  <2>6. /\ q'[o].msgs = q[o].msgs - 1 /\ q'[o].holder = q[o].holder
        /\ \A p \in Object : p # o => SameObject(p)
    <3> HIDE DEF o
    <3> QED
      BY <2>1, <2>2, <2>5 DEF QState, SameObject
  <2> QED
    BY <1>4, <2>1, <2>3, <2>4, <2>6
<1>7. CASE c.op = "notify" /\ vTaskNotifyGiveFromISR(o)
  <2>1. o \in Task
    BY <1>3, <1>7 DEF IsrCallSet
  <2> QED
    BY <1>7, <2>1, NotificationsAreUnseen
<1> QED
  BY <1>2, <1>5, <1>6, <1>7

\* A tick passes for requests that wait
LEMMA TickTicks ==
    ASSUME WInv, SysTick
    PROVE  Objects!Tick
<1> DEFINE ts == {u \in Task : Wants[u] # NULL /\ Times(th[u].in)}
           older == [u \in Task |-> IF u \in ts THEN Waiteds[u] + 1 ELSE Waiteds[u]]
<1>1. Types /\ q' = Listed(k') /\ th' = Elapsed(k', 1)
  BY DEF WInv, SysTick
<1>2. \A o \in Object : SameObject(o)
  <2>1. \A o \in Object : q[o] \in QState(o)
    BY <1>1 DEF Types
  <2>2. ASSUME NEW o \in Object
        PROVE  \E a, b : q'[o] = [q[o] EXCEPT !.recv = a, !.send = b]
    BY <1>1 DEF Listed
  <2> QED
    BY <2>1, <2>2 DEF QState, SameObject
<1>3. \A u \in Task :
        /\ th'[u].in.call = th[u].in.call
        /\ th'[u].in.waited = IF Times(th[u].in) THEN th[u].in.waited + 1
                              ELSE th[u].in.waited
  BY <1>1, OlderIs
<1>4. Wants' = Wants
  BY <1>3 DEF Wants, Op
<1>5. ASSUME NEW u \in Task
      PROVE  Op(u) # "notifyTake" /\ Times(th[u].in) => Wants[u] # NULL
  <2>1. th[u].in.call = NoCall \/ th[u].in.call \in CallSet
    BY <1>1, InIs
  <2>2. NoCall.ticks = 0
    BY DEF NoCall
  <2>3. \A c \in CallSet : c.op # "none" /\ c # NULL
    BY KernelAssumption DEF CallSet
  <2> QED
    BY <2>1, <2>2, <2>3 DEF Wants, Times, Op
<1>6. ASSUME NEW u \in Task
      PROVE  Op(u) = "notifyTake" => Wants[u] = NULL
  BY DEF Wants
<1>7. Waiteds' = older
  <2>1. Waiteds' = [u \in Task |-> IF Op(u) = "notifyTake" THEN 0 ELSE th'[u].in.waited]
    BY <1>3 DEF Waiteds, Op
  <2> QED
    BY <1>3, <1>5, <1>6, <2>1 DEF Waiteds
<1>8. ts \in SUBSET {u \in Task : Wants[u] # NULL}
  OBVIOUS
<1> HIDE DEF ts
<1>9. /\ \E s \in SUBSET {u \in Task : Wants[u] # NULL} :
            Waiteds' = [u \in Task |-> IF u \in s THEN Waiteds[u] + 1 ELSE Waiteds[u]]
      /\ UNCHANGED <<Counts, Owners, Wants>>
  BY <1>2, <1>4, <1>7, <1>8, ObjectsStay
<1> QED
  BY <1>9 DEF Objects!Tick, Counts, Owners, Wants, Waiteds

\* A step of a task is one step of its request, or none
LEMMA StepIsSeen ==
    ASSUME WInv, TInv, NEW t \in Task, Step(t) \/ Disinherit(t)
    PROVE  Objects!GrantTake(t) \/ Objects!GrantPeek(t) \/ Objects!Refuse(t)
           \/ UNCHANGED Objects!vars
<1>1. CASE Receive(t) \/ Peek(t)
  BY <1>1, ReceiveGrants, PeekGrants
<1>2. CASE NotNow(t) \/ Resume(t) \/ Delayed(t) \/ Expired(t) \/ Disinherit(t)
  BY <1>2, NotNowRefuses, ResumeRefuses, DelayedRefuses, ExpiredRefuses
<1>3. CASE \/ Suspend(t) \/ prvLockQueue(t) \/ UnlockTx(t) \/ UnlockRx(t) \/ Yield(t)
           \/ xTaskCheckForTimeOut(t) \/ Recheck(t) \/ Inherit(t) \/ Place(t)
  BY <1>3, WaitIsUnseen, LooksAreUnseen, PlaceIsUnseen
<1>4. CASE NotifyTake(t) \/ Notified(t)
  BY <1>4, NotificationsAreUnseen
<1> QED
  BY <1>1, <1>2, <1>3, <1>4 DEF Step

\* Every step of the system is one of the requests, or none
LEMMA NextIsSeen ==
    ASSUME WInv, TInv, [Next]_vars
    PROVE  [Objects!Next]_Objects!vars
<1>1. CASE \E t \in Task : Send(t)
  BY <1>1, SendGrants DEF Objects!Next
<1>2. CASE PendSV
  <2>1. q' = q /\ th' = th
    BY <1>2 DEF PendSV
  <2> QED
    BY <2>1, SameObjects, Unseen DEF SameRequest
<1>3. CASE \E t \in Task : Step(t) \/ Disinherit(t)
  BY <1>3, StepIsSeen DEF Objects!Next
<1>4. CASE \E t \in Task : \E c \in Calls[t] : Call(t, c)
  BY <1>4, CallAsks DEF Objects!Next
<1>5. CASE Isr
  BY <1>5, IsrInterrupts DEF Objects!Next
<1>6. CASE SysTick
  BY <1>6, TickTicks DEF Objects!Next
<1>7. CASE UNCHANGED vars
  <2>1. q' = q /\ th' = th
    BY <1>7 DEF vars
  <2> QED
    BY <2>1, SameObjects, Unseen DEF SameRequest
<1> QED
  BY <1>1, <1>2, <1>3, <1>4, <1>5, <1>6, <1>7 DEF Next

\* Nobody has asked for anything in the beginning
LEMMA InitIsSeen ==
    ASSUME Init
    PROVE  Objects!Init
<1>1. \A t \in Task : th[t].in = Outside
  BY DEF Init
<1>2. \A t \in Task : Op(t) = "none" /\ th[t].in.waited = 0
  BY <1>1, OutsideTime DEF Op
<1>3. \A o \in Object : q[o].msgs = (IF Type[o] = "mutex" THEN 1 ELSE 0) /\ q[o].holder = NULL
  BY DEF Init
<1>4. Counts = [o \in Object |-> IF o \in {p \in Object : Type[p] = "mutex"} THEN 1 ELSE 0]
  BY <1>3 DEF Counts
<1>5. Owners = [o \in Object |-> NULL]
  BY <1>3 DEF Owners
<1>6. Wants = [t \in Task |-> NULL] /\ Waiteds = [t \in Task |-> 0]
  BY <1>2 DEF Wants, Waiteds
<1> QED
  BY <1>4, <1>5, <1>6 DEF Objects!Init, Counts, Owners, Wants, Waiteds

---------------------------------------------------------------------------
(* The theorems *)

\* The inductive invariant holds, whatever the tasks call and the interrupts do
THEOREM Invariant == Spec => []WInv
<1>1. Init => WInv
  BY InvInit
<1>2. WInv /\ [Next]_vars => WInv'
  BY InvNext
<1> QED
  BY <1>1, <1>2, PTL DEF Spec

\* No task sleeps next to what it waits for: queue.c and tasks.c lose no wake-up,
\* with any number of tasks, queues and interrupts (NoLostWakeup)
THEOREM WakesWhoWaits == Spec => []NoLostWakeup
<1>1. WInv => NoLostWakeup
  BY WakesUp
<1> QED
  BY <1>1, Invariant, PTL

\* The times of the calls, the lists and the clock agree, whatever the tasks call
\* and the interrupts do
THEOREM Timing == Spec => [](WInv /\ TInv)
<1>1. Init => WInv /\ TInv
  BY InvInit, TimeInit
<1>2. WInv /\ TInv /\ [Next]_vars => (WInv /\ TInv)'
  BY InvNext, TimeNext
<1> QED
  BY <1>1, <1>2, PTL DEF Spec

\* A task in a delayed list has exactly the rest of its time before it, however
\* often it was woken in vain, and over the wrap of the tick count (WaitsExactly)
THEOREM ExactTimes == Spec => []WaitsExactly
<1>1. WInv /\ TInv => WaitsExactly
  BY ExactWait
<1> QED
  BY <1>1, Timing, PTL

\* A call with a time that ends empty-handed has waited that time (NeverEarly)
THEOREM NoEarlyReturn == Spec => NeverEarly
<1> DEFINE A == \A t \in Task :
                  (/\ th[t].in.pc \in {"expired", "disinherit", "woken", "resume"}
                   /\ th'[t].in.pc = "run"
                   /\ th[t].in.call.ticks # portMAX_DELAY
                   /\ Op(t) = "notifyTake" => th[t].notified = 0)
                    => th[t].in.waited >= th[t].in.call.ticks
<1>1. WInv /\ TInv /\ [Next]_vars => [A]_vars
  BY NotEarly
<1> QED
  BY <1>1, Timing, PTL DEF Spec, NeverEarly

\* Seen from outside the calls are atomic, exclusive and never early: the kernel
\* implements module BlockingObjects (AtomicObjects)
THEOREM ImplementsTheObjects == Spec => AtomicObjects
<1>1. Init => Objects!Init
  BY InitIsSeen
<1>2. WInv /\ TInv /\ [Next]_vars => [Objects!Next]_Objects!vars
  BY NextIsSeen
<1> QED
  BY <1>1, <1>2, Timing, PTL DEF Spec, AtomicObjects, Objects!Spec
=============================================================================
