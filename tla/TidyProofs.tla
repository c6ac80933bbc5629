----------------------------- MODULE TidyProofs -----------------------------
(***************************************************************************)
(* What Lists promises of commands one after the other, for any number of   *)
(* servers, subscriptions and commands: nobody is left behind, and a new    *)
(* order of the lines does not move the choice.                             *)
(*                                                                          *)
(* Both read what the job that runs has still to do, as ListsProofs does.   *)
(* What a filter, a sort or a merge returns, however long the list, comes   *)
(* from a set of positions that holds the first and climbs to the last      *)
(* (Climb): the functions they are built from are recursive.                *)
(***************************************************************************)
EXTENDS ListsProofs, FiniteSetTheorems, WellFoundedInduction

IsSeq(list) == list \in Seq(ToSet(list))
IsNodes(list) == IsSeq(list) /\ \A n \in ToSet(list) : n = Server(n.id, n.sub, n.print)
Has(todo, section) == \E n \in 1..Len(todo) : todo[n] = section

(* What no job does in this order.                                         *)
Wrong(x, y) ==
  \/ x = "show" /\ y \in {"resolve", "pick"}
  \/ x \in {"dropSub", "giveBack"} /\ y \in {"lookUp", "fetch", "merge"}
  \/ x \in {"fetch", "merge"} /\ y = "lookUp"
  \/ x = "pushSub" /\ y \in {"pushSub", "lookFree"}
  \/ x \in NodeChanges \cup {"pick"} /\ y \in {"sort", "reflow"}
  \/ x \in {"sort", "reflow"} /\ y \in {"pin", "saveUi"}
Straight(todo) == \A n, m \in 1..Len(todo) : n < m => ~Wrong(todo[n], todo[m])

Orderly(todo) ==
  /\ Covered(todo, NodeChanges \cup PinChanges, "show")
  /\ Covered(todo, NodeChanges \cup {"pin", "sortSubs"}, "resolve")
  /\ Covered(todo, {"dropSub"}, "dropNodes")
  /\ Straight(todo)
  /\ Has(todo, "giveBack") => Covered(todo, NodeChanges, "nothing")

(* The lists, and what the jobs work with, are what the code makes them.   *)
Proper(job) ==
  /\ Orderly(job.todo) /\ IsSeq(job.arg) /\ job.sub \in SubIds \cup {Own}
  /\ Has(job.todo, "pushSub") => job.sub \in SubIds
ShapeInv ==
  /\ IsNodes(nodes) /\ subs \in Seq(SubIds)
  /\ IsNodes(disk.servers) /\ disk.subs \in Seq(SubIds)
  /\ \A j \in Jobs : Proper(jobs[j])

Alone(j) == \A i \in Jobs \ {j} : jobs[i] = NoJob

(* What is shown is up to date, or will be.                                *)
Showing(todo, arg) ==
  /\ shown = Resolve \/ Owes(todo, "show")
  /\ Has(todo, "show") /\ ~Has(todo, "resolve") /\ ~Has(todo, "pick") => arg[1] = Resolve

(* Servers without a subscription are about to be dropped.                 *)
Kept(todo, sub) ==
  /\ \A n \in ToSet(nodes) :
       n.sub \notin ToSet(subs) \cup {Own} => n.sub = sub /\ Owes(todo, "dropNodes")
  /\ ~Has(todo, "lookUp") /\ (Has(todo, "fetch") \/ Has(todo, "merge")) => sub \in ToSet(subs)
  /\ Has(todo, "giveBack") => \A n \in ToSet(nodes) : n.sub # sub

OnePool(todo, sub) ==
  /\ \A p, q \in Pools : p = q
  /\ Has(todo, "pushSub") /\ ~Has(todo, "lookFree") /\ sub \in FreeIds => Pools = {}

Tidy(j) ==
  /\ Showing(jobs[j].todo, jobs[j].arg) /\ Kept(jobs[j].todo, jobs[j].sub)
  /\ OnePool(jobs[j].todo, jobs[j].sub)
NeatInv == hitch = "none" => \E j \in Jobs : Alone(j) /\ Tidy(j)

(* Until the lines are in their new order nothing else has moved.          *)
Ordering(todo) ==
  Has(todo, "sort") \/ Has(todo, "reflow") =>
    /\ disk.servers = nodes
    /\ ~Has(todo, "pin") => active \in IdsOf(nodes) \/ nodes = <<>>
    /\ ~Has(todo, "pin") /\ ~Has(todo, "saveUi") => disk.ui = active
OrderInv ==
  hitch # "overlap" => \E j \in Jobs : Alone(j) /\ Ordering(jobs[j].todo)

-----------------------------------------------------------------------------
(* Sequences: flattening, filtering, sorting.                              *)

LEMMA LeastOfNumbers ==
  ASSUME NEW T, T \subseteq Nat, T # {}
  PROVE  LET least == CHOOSE x \in T : \A y \in T : x =< y
         IN least \in T /\ \A y \in T : least =< y
<1> DEFINE R == OpToRel(<, Nat)
<1>1. \A i, j \in Nat : i < j => <<i, j>> \in R
  BY DEF OpToRel
<1>2. \E x \in T : \A y \in T : ~ (<<y, x>> \in R)
  BY NatLessThanWellFounded, WFMin, Zenon
<1> HIDE DEF R
<1>3. \E x \in T : \A y \in T : ~ (y < x)
  BY <1>1, <1>2
<1>4. \E x \in T : \A y \in T : x =< y
  BY <1>3
<1> QED
  BY <1>4

(* Whatever holds at the bottom and climbs, holds to the top.              *)
LEMMA Climb ==
  ASSUME NEW T, NEW low \in Nat, NEW high \in Nat, low \in T,
         \A n \in low..high : n \in T /\ n < high => n + 1 \in T
  PROVE  low..high \subseteq T
<1> DEFINE Missing == {n \in low..high : n \notin T}
           first == CHOOSE x \in Missing : \A y \in Missing : x =< y
<1> SUFFICES ASSUME Missing # {} PROVE FALSE
  OBVIOUS
<1>1. Missing \subseteq Nat
  OBVIOUS
<1>2. first \in Missing /\ \A y \in Missing : first =< y
  <2> HIDE DEF Missing
  <2> QED
    BY <1>1, LeastOfNumbers
<1> HIDE DEF first
<1>3. first # low /\ first - 1 \in low..high /\ first - 1 < high /\ (first - 1) + 1 = first
  BY <1>2
<1>4. first - 1 \in T
  BY <1>2, <1>3
<1> QED
  BY <1>2, <1>3, <1>4

Joins(f, seqs, n) == f[1] = seqs[1] /\ \A i \in 2..n : f[i] = f[i - 1] \o seqs[i]

LEMMA JoinOne == ASSUME NEW seqs PROVE \E f : Joins(f, seqs, 1)
<1> DEFINE f == [i \in {1} |-> seqs[1]]
<1>1. f[1] = seqs[1]
  OBVIOUS
<1> HIDE DEF f
<1>2. Joins(f, seqs, 1)
  BY <1>1 DEF Joins
<1> QED
  BY <1>2

LEMMA JoinMore ==
  ASSUME NEW seqs, NEW n \in Nat \ {0}, NEW f, Joins(f, seqs, n)
  PROVE  \E g : Joins(g, seqs, n + 1)
<1> DEFINE last == f[n] \o seqs[n + 1]
<1> HIDE DEF last
<1> DEFINE g == [i \in 1..(n + 1) |-> IF i = n + 1 THEN last ELSE f[i]]
<1>1. g[n + 1] = last /\ \A i \in 1..n : g[i] = f[i]
  OBVIOUS
<1> HIDE DEF g
<1>2. g[1] = seqs[1]
  BY <1>1 DEF Joins
<1>3. ASSUME NEW i \in 2..(n + 1) PROVE g[i] = g[i - 1] \o seqs[i]
  <2>1. CASE i = n + 1
    <3>1. g[n] = f[n] /\ i - 1 = n
      BY <1>1, <2>1
    <3> QED
      BY <1>1, <2>1, <3>1 DEF last
  <2>2. CASE i # n + 1
    <3>1. i \in 2..n /\ i \in 1..n /\ i - 1 \in 1..n
      BY <2>2
    <3>2. f[i] = f[i - 1] \o seqs[i] /\ g[i] = f[i] /\ g[i - 1] = f[i - 1]
      BY <1>1, <3>1 DEF Joins
    <3> QED
      BY <3>2
  <2> QED
    BY <2>1, <2>2
<1>4. Joins(g, seqs, n + 1)
  BY <1>2, <1>3 DEF Joins
<1> QED
  BY <1>4

LEMMA Joined == ASSUME NEW seqs, NEW n \in Nat \ {0} PROVE \E f : Joins(f, seqs, n)
<1> DEFINE T == {m \in 1..n : \E f : Joins(f, seqs, m)}
<1>1. 1 \in T
  BY JoinOne
<1>2. ASSUME NEW m \in 1..n, m \in T, m < n PROVE m + 1 \in T
  <2>1. PICK f : Joins(f, seqs, m)
    BY <1>2
  <2>2. \E g : Joins(g, seqs, m + 1)
    BY <2>1, JoinMore
  <2> QED
    BY <1>2, <2>2
<1>3. 1..n \subseteq T
  <2> HIDE DEF T
  <2> QED
    BY <1>1, <1>2, Climb
<1> QED
  BY <1>3

LEMMA FlattenedStepwise ==
  ASSUME NEW seqs, NEW N \in Nat \ {0}, Len(seqs) = N
  PROVE  \E f : Joins(f, seqs, N) /\ FlattenSeq(seqs) = f[N]
<1> DEFINE body(f) == [i \in 1..N |-> IF i = 1 THEN seqs[i] ELSE f[i - 1] \o seqs[i]]
           flat == CHOOSE f : f = body(f)
<1>1. PICK f : Joins(f, seqs, N)
  BY Joined
<1> DEFINE h == [i \in 1..N |-> f[i]]
<1>2. h = body(h)
  <2>1. ASSUME NEW i \in 1..N PROVE h[i] = IF i = 1 THEN seqs[i] ELSE h[i - 1] \o seqs[i]
    <3>1. i # 1 => i \in 2..N /\ i - 1 \in 1..N
      OBVIOUS
    <3> QED
      BY <1>1, <3>1 DEF Joins
  <2> QED
    BY <2>1
<1>3. flat = body(flat)
  <2>1. \E k : k = body(k)
    BY <1>2
  <2> HIDE DEF body
  <2> QED
    BY <2>1
<1>4. FlattenSeq(seqs) = flat[N]
  BY DEF FlattenSeq
<1> HIDE DEF flat
<1>5. \A i \in 1..N : flat[i] = IF i = 1 THEN seqs[i] ELSE flat[i - 1] \o seqs[i]
  <2>1. \A i \in 1..N : body(flat)[i] = IF i = 1 THEN seqs[i] ELSE flat[i - 1] \o seqs[i]
    OBVIOUS
  <2> HIDE DEF body
  <2> QED
    BY <1>3, <2>1
<1>6. flat[1] = seqs[1] /\ \A i \in 2..N : flat[i] = flat[i - 1] \o seqs[i]
  <2>1. flat[1] = seqs[1]
    BY <1>5, 1 \in 1..N
  <2>2. ASSUME NEW i \in 2..N PROVE flat[i] = flat[i - 1] \o seqs[i]
    BY <1>5, i \in 1..N, i # 1
  <2> QED
    BY <2>1, <2>2
<1>7. Joins(flat, seqs, N)
  BY <1>6 DEF Joins
<1> QED
  BY <1>4, <1>7

LEMMA ToSetFacts ==
  ASSUME NEW S
  PROVE  /\ ToSet(<< >>) = {} /\ \A x \in S : ToSet(<<x>>) = {x}
         /\ \A s \in Seq(S) : ToSet(s) \subseteq S /\ s \in Seq(ToSet(s))
                              /\ ToSet(s) = {s[i] : i \in 1..Len(s)}
         /\ \A s, t \in Seq(S) : s \o t \in Seq(S) /\ ToSet(s \o t) = ToSet(s) \cup ToSet(t)
<1>1. ToSet(<< >>) = {} /\ \A x \in S : ToSet(<<x>>) = {x}
  BY DEF ToSet
<1>2. ASSUME NEW s \in Seq(S)
      PROVE  ToSet(s) \subseteq S /\ s \in Seq(ToSet(s)) /\ ToSet(s) = {s[i] : i \in 1..Len(s)}
  BY DEF ToSet
<1>3. ASSUME NEW s \in Seq(S), NEW t \in Seq(S)
      PROVE  s \o t \in Seq(S) /\ ToSet(s \o t) = ToSet(s) \cup ToSet(t)
  <2>1. /\ s \o t \in Seq(S) /\ Len(s \o t) = Len(s) + Len(t)
        /\ Len(s) \in Nat /\ Len(t) \in Nat
        /\ \A i \in 1..Len(s) : (s \o t)[i] = s[i]
        /\ \A i \in 1..Len(t) : (s \o t)[Len(s) + i] = t[i]
    BY ConcatProperties
  <2> DEFINE u == s \o t
  <2>2. u \in Seq(S) /\ Len(u) = Len(s) + Len(t)
    BY <2>1
  <2>3. ToSet(u) = {u[i] : i \in 1..Len(u)}
    BY <1>2, <2>2
  <2>4. ToSet(s) = {s[i] : i \in 1..Len(s)} /\ ToSet(t) = {t[i] : i \in 1..Len(t)}
    BY <1>2
  <2>5. ASSUME NEW x \in ToSet(u) PROVE x \in ToSet(s) \cup ToSet(t)
    <3>1. PICK i \in 1..Len(u) : x = u[i]
      BY <2>3
    <3>2. i \in 1..Len(s) \/ (i - Len(s) \in 1..Len(t) /\ i = Len(s) + (i - Len(s)))
      BY <2>1, <2>2
    <3> QED
      BY <2>1, <2>4, <3>1, <3>2
  <2>6. ASSUME NEW x \in ToSet(s) PROVE x \in ToSet(u)
    <3>1. PICK i \in 1..Len(s) : x = s[i]
      BY <2>4
    <3>2. i \in 1..Len(u) /\ u[i] = x
      BY <2>1, <2>2, <3>1
    <3> QED
      BY <2>3, <3>2
  <2>7. ASSUME NEW x \in ToSet(t) PROVE x \in ToSet(u)
    <3>1. PICK i \in 1..Len(t) : x = t[i]
      BY <2>4
    <3>2. Len(s) + i \in 1..Len(u) /\ u[Len(s) + i] = x
      BY <2>1, <2>2, <3>1
    <3> QED
      BY <2>3, <3>2
  <2> QED
    BY <2>1, <2>5, <2>6, <2>7
<1> QED
  BY <1>1, <1>2, <1>3

LEMMA Flattened ==
  ASSUME NEW S, NEW seqs \in Seq(Seq(S))
  PROVE  /\ FlattenSeq(seqs) \in Seq(S)
         /\ ToSet(FlattenSeq(seqs)) = UNION {ToSet(seqs[i]) : i \in 1..Len(seqs)}
<1>1. CASE Len(seqs) = 0
  <2>1. seqs = << >> /\ 1..Len(seqs) = {}
    BY <1>1
  <2>2. FlattenSeq(seqs) = << >>
    BY <1>1, <2>1 DEF FlattenSeq
  <2>3. << >> \in Seq(S) /\ ToSet(<< >>) = {}
    BY ToSetFacts
  <2>4. UNION {ToSet(seqs[i]) : i \in 1..Len(seqs)} = {}
    BY <2>1
  <2> QED
    BY <2>2, <2>3, <2>4
<1>2. CASE Len(seqs) # 0
  <2> DEFINE N == Len(seqs)
  <2>1. N \in Nat \ {0} /\ \A i \in 1..N : seqs[i] \in Seq(S)
    BY <1>2
  <2> HIDE DEF N
  <2>2. PICK f : Joins(f, seqs, N) /\ FlattenSeq(seqs) = f[N]
    BY <2>1, FlattenedStepwise DEF N
  <2> DEFINE Good(n) == f[n] \in Seq(S) /\ ToSet(f[n]) = UNION {ToSet(seqs[i]) : i \in 1..n}
             T == {n \in 1..N : Good(n)}
  <2>3. 1 \in T
    <3>1. f[1] = seqs[1] /\ 1 \in 1..N /\ 1..1 = {1}
      BY <2>1, <2>2 DEF Joins
    <3>2. UNION {ToSet(seqs[i]) : i \in {1}} = ToSet(seqs[1])
      OBVIOUS
    <3> QED
      BY <2>1, <3>1, <3>2
  <2>4. ASSUME NEW n \in 1..N, n \in T, n < N PROVE n + 1 \in T
    <3>1. n + 1 \in 2..N /\ n + 1 \in 1..N /\ (n + 1) - 1 = n /\ 1..(n + 1) = (1..n) \cup {n + 1}
      BY <2>1, <2>4
    <3>2. f[n + 1] = f[n] \o seqs[n + 1]
      BY <2>2, <3>1 DEF Joins
    <3>3. f[n + 1] \in Seq(S) /\ ToSet(f[n + 1]) = ToSet(f[n]) \cup ToSet(seqs[n + 1])
      BY <2>1, <2>4, <3>1, <3>2, ToSetFacts
    <3>4. UNION {ToSet(seqs[i]) : i \in (1..n) \cup {n + 1}}
            = (UNION {ToSet(seqs[i]) : i \in 1..n}) \cup ToSet(seqs[n + 1])
      OBVIOUS
    <3> QED
      BY <2>4, <3>1, <3>3, <3>4
  <2>5. 1..N \subseteq T
    <3> HIDE DEF T
    <3> QED
      BY <2>1, <2>3, <2>4, Climb
  <2>6. Good(N)
    <3>1. N \in T
      <4> HIDE DEF T
      <4> QED
        BY <2>1, <2>5
    <3> HIDE DEF Good
    <3> QED
      BY <3>1
  <2> QED
    BY <2>2, <2>6 DEF N
<1> QED
  BY <1>1, <1>2

(* A filter keeps what is wanted of a list.                                *)
LEMMA OnlyFacts ==
  ASSUME NEW S, NEW list \in Seq(S), NEW wanted
  PROVE  Only(list, wanted) \in Seq(S) /\ ToSet(Only(list, wanted)) = ToSet(list) \cap wanted
<1> DEFINE part(n) == IF list[n] \in wanted THEN <<list[n]>> ELSE << >>
           parts == [n \in DOMAIN list |-> part(n)]
<1>1. DOMAIN list = 1..Len(list) /\ Len(list) \in Nat /\ \A n \in 1..Len(list) : list[n] \in S
  OBVIOUS
<1>2. \A n \in 1..Len(list) : part(n) \in Seq(S) /\ ToSet(part(n)) = {list[n]} \cap wanted
  <2> TAKE n \in 1..Len(list)
  <2>1. list[n] \in S
    BY <1>1
  <2>2. /\ <<list[n]>> \in Seq(S) /\ << >> \in Seq(S)
        /\ ToSet(<<list[n]>>) = {list[n]} /\ ToSet(<< >>) = {}
    BY <2>1, ToSetFacts, TupleInSeq
  <2> QED
    BY <2>2
<1>3. parts \in Seq(Seq(S)) /\ Len(parts) = Len(list)
  <2> HIDE DEF part
  <2> QED
    BY <1>1, <1>2
<1>4. \A n \in 1..Len(list) : parts[n] = part(n)
  BY <1>1
<1>5. Only(list, wanted) = FlattenSeq(parts)
  BY DEF Only
<1> HIDE DEF parts
<1>6. /\ FlattenSeq(parts) \in Seq(S)
      /\ ToSet(FlattenSeq(parts)) = UNION {ToSet(parts[i]) : i \in 1..Len(list)}
  BY <1>3, Flattened
<1> HIDE DEF part
<1>7. UNION {ToSet(parts[i]) : i \in 1..Len(list)} = {list[n] : n \in 1..Len(list)} \cap wanted
  BY <1>2, <1>4
<1>8. ToSet(list) = {list[n] : n \in 1..Len(list)}
  BY ToSetFacts
<1> QED
  BY <1>5, <1>6, <1>7, <1>8

(* A sort loses nobody and adds nobody.                                    *)
LEMMA SortFacts ==
  ASSUME NEW S, NEW list \in Seq(S), NEW T, NEW order \in Seq(T), NEW key
  PROVE  SortBy(list, order, key) \in Seq(S) /\ ToSet(SortBy(list, order, key)) = ToSet(list)
<1> DEFINE of(k) == {x \in ToSet(list) : key[x] = order[k]}
           rest == {x \in ToSet(list) : key[x] \notin ToSet(order)}
           parts == [k \in DOMAIN order |-> Only(list, of(k))]
<1>1. DOMAIN order = 1..Len(order) /\ Len(order) \in Nat
      /\ ToSet(order) = {order[k] : k \in 1..Len(order)}
  BY ToSetFacts
<1>2. \A k \in 1..Len(order) : Only(list, of(k)) \in Seq(S) /\ ToSet(Only(list, of(k))) = of(k)
  <2> TAKE k \in 1..Len(order)
  <2>1. of(k) \subseteq ToSet(list)
    OBVIOUS
  <2> HIDE DEF of
  <2>2. ToSet(list) \cap of(k) = of(k)
    BY <2>1
  <2>3. Only(list, of(k)) \in Seq(S) /\ ToSet(Only(list, of(k))) = ToSet(list) \cap of(k)
    BY OnlyFacts
  <2> QED
    BY <2>2, <2>3
<1>3. Only(list, rest) \in Seq(S) /\ ToSet(Only(list, rest)) = rest
  <2>1. rest \subseteq ToSet(list)
    OBVIOUS
  <2> HIDE DEF rest
  <2>2. ToSet(list) \cap rest = rest
    BY <2>1
  <2>3. Only(list, rest) \in Seq(S) /\ ToSet(Only(list, rest)) = ToSet(list) \cap rest
    BY OnlyFacts
  <2> QED
    BY <2>2, <2>3
<1>4. /\ parts \in Seq(Seq(S)) /\ Len(parts) = Len(order)
      /\ \A k \in 1..Len(order) : parts[k] = Only(list, of(k))
  <2> HIDE DEF of
  <2> QED
    BY <1>1, <1>2
<1>5. SortBy(list, order, key) = FlattenSeq(parts) \o Only(list, rest)
  BY DEF SortBy
<1> HIDE DEF parts
<1>6. /\ FlattenSeq(parts) \in Seq(S)
      /\ ToSet(FlattenSeq(parts)) = UNION {of(k) : k \in 1..Len(order)}
  <2> HIDE DEF of
  <2>1. /\ FlattenSeq(parts) \in Seq(S)
        /\ ToSet(FlattenSeq(parts)) = UNION {ToSet(parts[i]) : i \in 1..Len(parts)}
    BY <1>4, Flattened
  <2> QED
    BY <1>2, <1>4, <2>1
<1>7. (UNION {of(k) : k \in 1..Len(order)}) \cup rest = ToSet(list)
  BY <1>1
<1> HIDE DEF of, rest
<1>8. /\ FlattenSeq(parts) \o Only(list, rest) \in Seq(S)
      /\ ToSet(FlattenSeq(parts) \o Only(list, rest))
           = ToSet(FlattenSeq(parts)) \cup ToSet(Only(list, rest))
  BY <1>3, <1>6, ToSetFacts
<1> QED
  BY <1>3, <1>5, <1>6, <1>7, <1>8

-----------------------------------------------------------------------------
(* Merging.                                                                *)

Claims(f, existing, incoming, sub, n) ==
  /\ f[0] = [merged |-> << >>, incoming |-> incoming]
  /\ \A i \in 1..n : f[i] = Claim(sub, f[i - 1], existing[i])

LEMMA ClaimMore ==
  ASSUME NEW existing, NEW incoming, NEW sub, NEW n \in Nat, NEW f,
         Claims(f, existing, incoming, sub, n)
  PROVE  \E g : Claims(g, existing, incoming, sub, n + 1)
<1> DEFINE last == Claim(sub, f[n], existing[n + 1])
<1> HIDE DEF last
<1> DEFINE g == [i \in 0..(n + 1) |-> IF i = n + 1 THEN last ELSE f[i]]
<1>1. g[n + 1] = last /\ \A i \in 0..n : g[i] = f[i]
  OBVIOUS
<1> HIDE DEF g
<1>2. g[0] = [merged |-> << >>, incoming |-> incoming]
  BY <1>1, 0 \in 0..n DEF Claims
<1>3. ASSUME NEW i \in 1..(n + 1) PROVE g[i] = Claim(sub, g[i - 1], existing[i])
  <2>1. CASE i = n + 1
    <3>1. g[n] = f[n] /\ i - 1 = n
      BY <1>1, <2>1
    <3> QED
      BY <1>1, <2>1, <3>1 DEF last
  <2>2. CASE i # n + 1
    <3>1. i \in 1..n /\ i \in 0..n /\ i - 1 \in 0..n
      BY <2>2
    <3>2. f[i] = Claim(sub, f[i - 1], existing[i]) /\ g[i] = f[i] /\ g[i - 1] = f[i - 1]
      BY <1>1, <3>1 DEF Claims
    <3> QED
      BY <3>2
  <2> QED
    BY <2>1, <2>2
<1>4. Claims(g, existing, incoming, sub, n + 1)
  BY <1>2, <1>3 DEF Claims
<1> QED
  BY <1>4

LEMMA ClaimedAll ==
  ASSUME NEW existing, NEW incoming, NEW sub, NEW n \in Nat
  PROVE  \E f : Claims(f, existing, incoming, sub, n)
<1> DEFINE T == {m \in 0..n : \E f : Claims(f, existing, incoming, sub, m)}
<1>1. 0 \in T
  <2> DEFINE f == [i \in {0} |-> [merged |-> << >>, incoming |-> incoming]]
  <2>1. f[0] = [merged |-> << >>, incoming |-> incoming] /\ 1..0 = {}
    OBVIOUS
  <2> HIDE DEF f
  <2>2. Claims(f, existing, incoming, sub, 0)
    BY <2>1 DEF Claims
  <2> QED
    BY <2>2
<1>2. ASSUME NEW m \in 0..n, m \in T, m < n PROVE m + 1 \in T
  <2>1. PICK f : Claims(f, existing, incoming, sub, m)
    BY <1>2
  <2>2. \E g : Claims(g, existing, incoming, sub, m + 1)
    BY <2>1, ClaimMore
  <2> QED
    BY <1>2, <2>2
<1>3. 0..n \subseteq T
  <2> HIDE DEF T
  <2> QED
    BY <1>1, <1>2, Climb
<1> QED
  BY <1>3

LEMMA MergedStepwise ==
  ASSUME NEW existing, NEW incoming, NEW sub, NEW N \in Nat, Len(existing) = N
  PROVE  \E f : /\ Claims(f, existing, incoming, sub, N)
                /\ MergeSubscriptionNodes(existing, incoming, sub) = f[N].merged \o f[N].incoming
<1> DEFINE zero == [merged |-> << >>, incoming |-> incoming]
           body(f) == [n \in 0..N |-> IF n = 0 THEN zero ELSE Claim(sub, f[n - 1], existing[n])]
           after == CHOOSE f : f = body(f)
<1>1. PICK f : Claims(f, existing, incoming, sub, N)
  BY ClaimedAll
<1> DEFINE h == [n \in 0..N |-> f[n]]
<1>2. h = body(h)
  <2>1. ASSUME NEW n \in 0..N PROVE h[n] = IF n = 0 THEN zero ELSE Claim(sub, h[n - 1], existing[n])
    <3>1. n # 0 => n \in 1..N /\ n - 1 \in 0..N
      OBVIOUS
    <3>2. n # 0 => f[n] = Claim(sub, f[n - 1], existing[n])
      BY <1>1, <3>1 DEF Claims
    <3>3. f[0] = zero /\ h[n] = f[n] /\ (n # 0 => h[n - 1] = f[n - 1])
      BY <1>1, <3>1 DEF Claims
    <3> HIDE DEF zero, h
    <3> QED
      BY <3>2, <3>3
  <2> HIDE DEF zero
  <2> QED
    BY <2>1
<1>3. after = body(after)
  <2>1. \E k : k = body(k)
    BY <1>2
  <2> HIDE DEF body
  <2> QED
    BY <2>1
<1>4. MergeSubscriptionNodes(existing, incoming, sub) = after[N].merged \o after[N].incoming
  BY DEF MergeSubscriptionNodes
<1> HIDE DEF after
<1>5. \A n \in 0..N : after[n] = IF n = 0 THEN zero ELSE Claim(sub, after[n - 1], existing[n])
  <2> HIDE DEF zero
  <2>1. \A n \in 0..N :
          body(after)[n] = IF n = 0 THEN zero ELSE Claim(sub, after[n - 1], existing[n])
    OBVIOUS
  <2> HIDE DEF body
  <2> QED
    BY <1>3, <2>1
<1>6. Claims(after, existing, incoming, sub, N)
  <2>1. after[0] = zero
    BY <1>5, 0 \in 0..N
  <2>2. ASSUME NEW i \in 1..N PROVE after[i] = Claim(sub, after[i - 1], existing[i])
    BY <1>5, i \in 0..N, i # 0
  <2> QED
    BY <2>1, <2>2 DEF Claims
<1> QED
  BY <1>4, <1>6

LEMMA Removed ==
  ASSUME NEW S, NEW s \in Seq(S), NEW i \in 1..Len(s)
  PROVE  RemoveAt(s, i) \in Seq(S) /\ Len(RemoveAt(s, i)) = Len(s) - 1
<1> DEFINE front == SubSeq(s, 1, i - 1)
           back == SubSeq(s, i + 1, Len(s))
<1>1. /\ front \in Seq(S) /\ back \in Seq(S)
      /\ Len(front) = i - 1 /\ Len(back) = Len(s) - i /\ Len(s) \in Nat
  OBVIOUS
<1>2. RemoveAt(s, i) = front \o back
  BY DEF RemoveAt
<1> HIDE DEF front, back
<1>3. front \o back \in Seq(S) /\ Len(front \o back) = Len(front) + Len(back)
  BY <1>1, ConcatProperties
<1> QED
  BY <1>1, <1>2, <1>3

Halves(acc, Merged, Incoming) ==
  \E m \in Seq(Merged), i \in Seq(Incoming) : acc = [merged |-> m, incoming |-> i]

(* One claim: a server of another subscription stays as it is, one of this  *)
(* subscription becomes an incoming one under its old number, or goes.     *)
LEMMA ClaimFacts ==
  ASSUME NEW Others, NEW New, NEW sub, NEW node, NEW merged \in Seq(Others \cup New),
         NEW incoming \in Seq(New),
         node.sub # sub => node \in Others,
         \A n \in New : [n EXCEPT !.id = node.id] \in New
  PROVE  Halves(Claim(sub, [merged |-> merged, incoming |-> incoming], node), Others \cup New, New)
<1> DEFINE acc == [merged |-> merged, incoming |-> incoming]
           hits == {i \in DOMAIN acc.incoming : acc.incoming[i].print = node.print}
<1>1. acc.merged = merged /\ acc.incoming = incoming
  OBVIOUS
<1>2. CASE node.sub # sub
  <2> DEFINE longer == Append(merged, node)
  <2>1. Claim(sub, acc, node) = [acc EXCEPT !.merged = longer]
    BY <1>1, <1>2 DEF Claim
  <2>2. longer \in Seq(Others \cup New)
    BY <1>2
  <2> HIDE DEF longer
  <2>3. [acc EXCEPT !.merged = longer] = [merged |-> longer, incoming |-> incoming]
    OBVIOUS
  <2> QED
    BY <2>1, <2>2, <2>3 DEF Halves
<1>3. CASE node.sub = sub /\ hits = {}
  <2>1. Claim(sub, acc, node) = acc
    BY <1>3 DEF Claim
  <2> QED
    BY <2>1 DEF Halves
<1>4. CASE node.sub = sub /\ hits # {}
  <2>1. Min(hits) \in hits
    <3>1. hits \subseteq Nat
      BY <1>1
    <3> HIDE DEF hits
    <3> QED
      BY <1>4, <3>1, LeastOfNumbers DEF Min
  <2>2. Min(hits) \in 1..Len(incoming)
    BY <1>1, <2>1
  <2> DEFINE claimed == [incoming[Min(hits)] EXCEPT !.id = node.id]
  <2>3. claimed \in New
    <3>1. incoming[Min(hits)] \in New
      BY <2>2
    <3> QED
      BY <3>1
  <2>4. RemoveAt(incoming, Min(hits)) \in Seq(New)
    BY <2>2, Removed
  <2>5. Claim(sub, acc, node)
          = [merged |-> Append(acc.merged, [acc.incoming[Min(hits)] EXCEPT !.id = node.id]),
             incoming |-> RemoveAt(acc.incoming, Min(hits))]
    BY <1>4 DEF Claim
  <2>6. Claim(sub, acc, node)
          = [merged |-> Append(merged, claimed), incoming |-> RemoveAt(incoming, Min(hits))]
    BY <1>1, <2>5
  <2> HIDE DEF claimed, hits
  <2>7. Append(merged, claimed) \in Seq(Others \cup New)
    BY <2>3
  <2> QED
    BY <2>4, <2>6, <2>7 DEF Halves
<1> QED
  BY <1>2, <1>3, <1>4

LEMMA MergeFacts ==
  ASSUME NEW Others, NEW New, NEW sub, NEW existing, NEW incoming \in Seq(New), IsSeq(existing),
         \A o \in ToSet(existing) :
           /\ o.sub # sub => o \in Others
           /\ \A n \in New : [n EXCEPT !.id = o.id] \in New
  PROVE  MergeSubscriptionNodes(existing, incoming, sub) \in Seq(Others \cup New)
<1> DEFINE N == Len(existing)
<1>1. N \in Nat /\ \A i \in 1..N : existing[i] \in ToSet(existing)
  BY DEF IsSeq
<1> HIDE DEF N
<1>2. PICK f : /\ Claims(f, existing, incoming, sub, N)
               /\ MergeSubscriptionNodes(existing, incoming, sub) = f[N].merged \o f[N].incoming
  BY <1>1, MergedStepwise DEF N
<1> DEFINE T == {n \in 0..N : Halves(f[n], Others \cup New, New)}
<1>3. 0 \in T
  <2>1. << >> \in Seq(Others \cup New)
    OBVIOUS
  <2>2. f[0] = [merged |-> << >>, incoming |-> incoming]
    BY <1>2 DEF Claims
  <2>3. Halves(f[0], Others \cup New, New)
    BY <2>1, <2>2 DEF Halves
  <2> QED
    BY <1>1, <2>3
<1>4. ASSUME NEW n \in 0..N, n \in T, n < N PROVE n + 1 \in T
  <2>1. PICK m \in Seq(Others \cup New), i \in Seq(New) : f[n] = [merged |-> m, incoming |-> i]
    BY <1>4 DEF Halves
  <2>2. n + 1 \in 1..N /\ (n + 1) - 1 = n /\ n + 1 \in 0..N
    BY <1>1, <1>4
  <2>3. f[n + 1] = Claim(sub, f[n], existing[n + 1])
    BY <1>2, <2>2 DEF Claims
  <2> DEFINE node == existing[n + 1]
  <2>4. node \in ToSet(existing)
    BY <1>1, <2>2
  <2> HIDE DEF node
  <2>5. Halves(Claim(sub, [merged |-> m, incoming |-> i], node), Others \cup New, New)
    BY <2>4, ClaimFacts
  <2>6. Halves(f[n + 1], Others \cup New, New)
    BY <2>1, <2>3, <2>5 DEF node
  <2> QED
    BY <2>2, <2>6
<1>5. 0..N \subseteq T
  <2> HIDE DEF T
  <2> QED
    BY <1>1, <1>3, <1>4, Climb
<1>6. Halves(f[N], Others \cup New, New)
  <2>1. N \in T
    <3> HIDE DEF T
    <3> QED
      BY <1>1, <1>5
  <2> QED
    BY <2>1
<1>7. PICK m \in Seq(Others \cup New), i \in Seq(New) : f[N] = [merged |-> m, incoming |-> i]
  BY <1>6 DEF Halves
<1>8. m \o i \in Seq(Others \cup New)
  <2>1. i \in Seq(Others \cup New)
    OBVIOUS
  <2> QED
    BY <2>1, ConcatProperties
<1> QED
  BY <1>2, <1>7, <1>8

-----------------------------------------------------------------------------
(* Along a list of sections.                                               *)

LEMMA TailFacts ==
  ASSUME NEW todo \in Seq(Steps), todo # << >>
  PROVE  /\ Head(todo) = todo[1] /\ Head(todo) \in Steps /\ Tail(todo) \in Seq(Steps)
         /\ Len(Tail(todo)) = Len(todo) - 1 /\ Len(todo) \in Nat /\ Len(todo) > 0
         /\ \A k \in 1..Len(Tail(todo)) : Tail(todo)[k] = todo[k + 1]
  OBVIOUS

LEMMA HasLater ==
  ASSUME NEW todo \in Seq(Steps), todo # << >>
  PROVE  /\ Has(todo, Head(todo))
         /\ \A x : Has(todo, x) <=> x = Head(todo) \/ Has(Tail(todo), x)
<1>1. Has(todo, Head(todo))
  BY TailFacts DEF Has
<1>2. ASSUME NEW x, Has(Tail(todo), x) PROVE Has(todo, x)
  <2>1. PICK n \in 1..Len(Tail(todo)) : Tail(todo)[n] = x
    BY <1>2 DEF Has
  <2>2. n + 1 \in 1..Len(todo) /\ todo[n + 1] = x
    BY <2>1, TailFacts
  <2> QED
    BY <2>2 DEF Has
<1>3. ASSUME NEW x, Has(todo, x), x # Head(todo) PROVE Has(Tail(todo), x)
  <2>1. PICK n \in 1..Len(todo) : todo[n] = x
    BY <1>3 DEF Has
  <2>2. n - 1 \in 1..Len(Tail(todo)) /\ Tail(todo)[n - 1] = x
    <3>1. n # 1
      BY <1>3, <2>1, TailFacts
    <3>2. n - 1 \in 1..Len(Tail(todo)) /\ (n - 1) + 1 = n
      BY <3>1, TailFacts
    <3> QED
      BY <2>1, <3>2, TailFacts
  <2> QED
    BY <2>2 DEF Has
<1> QED
  BY <1>1, <1>2, <1>3

LEMMA OwesHas == ASSUME NEW todo, NEW x, Owes(todo, x) PROVE Has(todo, x)
  BY DEF Owes, Has

LEMMA StraightLater ==
  ASSUME NEW todo \in Seq(Steps), todo # << >>, Straight(todo)
  PROVE  /\ Straight(Tail(todo))
         /\ \A x : Has(Tail(todo), x) => ~Wrong(Head(todo), x)
<1>1. ASSUME NEW n \in 1..Len(Tail(todo)), NEW m \in 1..Len(Tail(todo)), n < m
      PROVE  ~Wrong(Tail(todo)[n], Tail(todo)[m])
  <2>1. /\ n + 1 \in 1..Len(todo) /\ m + 1 \in 1..Len(todo) /\ n + 1 < m + 1
        /\ Tail(todo)[n] = todo[n + 1] /\ Tail(todo)[m] = todo[m + 1]
    BY <1>1, TailFacts
  <2> QED
    BY <2>1 DEF Straight
<1>2. ASSUME NEW x, Has(Tail(todo), x) PROVE ~Wrong(Head(todo), x)
  <2>1. PICK n \in 1..Len(Tail(todo)) : Tail(todo)[n] = x
    BY <1>2 DEF Has
  <2>2. n + 1 \in 1..Len(todo) /\ todo[n + 1] = x /\ 1 \in 1..Len(todo) /\ 1 < n + 1
    BY <2>1, TailFacts
  <2>3. ~Wrong(todo[1], todo[n + 1])
    BY <2>2 DEF Straight
  <2> QED
    BY <2>2, <2>3, TailFacts
<1> QED
  BY <1>1, <1>2 DEF Straight

LEMMA OrderlyLater ==
  ASSUME NEW todo \in Seq(Steps), todo # << >>, Orderly(todo), Head(todo) # "fetch"
  PROVE  Orderly(Tail(todo))
<1>1. /\ Covered(Tail(todo), NodeChanges \cup PinChanges, "show")
      /\ Covered(Tail(todo), NodeChanges \cup {"pin", "sortSubs"}, "resolve")
      /\ Covered(Tail(todo), {"dropSub"}, "dropNodes")
  BY CoveredLater DEF Orderly
<1>2. Straight(Tail(todo))
  BY StraightLater DEF Orderly
<1>3. Has(Tail(todo), "giveBack") => Covered(Tail(todo), NodeChanges, "nothing")
  BY CoveredLater, HasLater DEF Orderly
<1> QED
  BY <1>1, <1>2, <1>3 DEF Orderly

(* What the head of an orderly job has behind it.                          *)
LEMMA Behind ==
  ASSUME NEW todo \in Seq(Steps), todo # << >>, Orderly(todo)
  PROVE  /\ Head(todo) \in NodeChanges \cup PinChanges => Owes(Tail(todo), "show")
         /\ Head(todo) \in NodeChanges \cup {"pin", "sortSubs"} => Has(Tail(todo), "resolve")
         /\ Head(todo) = "dropSub" => Owes(Tail(todo), "dropNodes")
         /\ Has(todo, "giveBack") => Head(todo) \notin NodeChanges
         /\ \A x : Has(Tail(todo), x) => ~Wrong(Head(todo), x)
<1>1. /\ Head(todo) \in NodeChanges \cup PinChanges => Owes(Tail(todo), "show")
      /\ Head(todo) = "dropSub" => Owes(Tail(todo), "dropNodes")
  BY CoveredLater DEF Orderly
<1>2. Head(todo) \in NodeChanges \cup {"pin", "sortSubs"} => Owes(Tail(todo), "resolve")
  BY CoveredLater DEF Orderly
<1>3. ASSUME Has(todo, "giveBack"), Head(todo) \in NodeChanges PROVE FALSE
  <2>1. Owes(Tail(todo), "nothing")
    BY <1>3, CoveredLater DEF Orderly
  <2>2. PICK n \in 1..Len(Tail(todo)) : Tail(todo)[n] = "nothing"
    BY <2>1 DEF Owes
  <2>3. Tail(todo)[n] \in Steps
    BY <2>2, TailFacts
  <2> QED
    BY <2>2, <2>3 DEF Steps
<1> QED
  BY <1>1, <1>2, <1>3, OwesHas, StraightLater DEF Orderly

-----------------------------------------------------------------------------
(* The plans.                                                              *)
Tame(todo) ==
  /\ todo \in Seq(Steps) /\ Straight(todo) /\ ~Has(todo, "giveBack")
  /\ Covered(todo, NodeChanges \cup PinChanges, "show")
  /\ Covered(todo, NodeChanges \cup {"pin", "sortSubs"}, "resolve")
  /\ Covered(todo, {"dropSub"}, "dropNodes")

LEMMA StraightCat ==
  ASSUME NEW s \in Seq(Steps), NEW t \in Seq(Steps), Straight(s), Straight(t),
         \A x \in ToSet(s), y \in ToSet(t) : ~Wrong(x, y)
  PROVE  Straight(s \o t)
<1> DEFINE u == s \o t
<1>1. /\ u \in Seq(Steps) /\ Len(u) = Len(s) + Len(t) /\ Len(s) \in Nat /\ Len(t) \in Nat
      /\ \A k \in 1..Len(s) : u[k] = s[k]
      /\ \A k \in 1..Len(t) : u[Len(s) + k] = t[k]
  BY ConcatProperties
<1> HIDE DEF u
<1>2. /\ \A k \in 1..Len(s) : s[k] \in ToSet(s)
      /\ \A k \in 1..Len(t) : t[k] \in ToSet(t)
  BY ToSetFacts
<1>3. ASSUME NEW n \in 1..Len(u), NEW m \in 1..Len(u), n < m PROVE ~Wrong(u[n], u[m])
  <2>1. CASE m \in 1..Len(s)
    <3>1. n \in 1..Len(s)
      BY <1>1, <1>3, <2>1
    <3> QED
      BY <1>1, <1>3, <2>1, <3>1 DEF Straight
  <2>2. CASE m \notin 1..Len(s)
    <3> DEFINE d == m - Len(s)
    <3>1. d \in 1..Len(t) /\ m = Len(s) + d
      BY <1>1, <2>2
    <3> HIDE DEF d
    <3>2. u[m] = t[d]
      BY <1>1, <3>1
    <3>3. CASE n \in 1..Len(s)
      BY <1>1, <1>2, <3>1, <3>2, <3>3
    <3>4. CASE n \notin 1..Len(s)
      <4> DEFINE e == n - Len(s)
      <4>1. e \in 1..Len(t) /\ n = Len(s) + e /\ e < d
        BY <1>1, <1>3, <3>1, <3>4
      <4> HIDE DEF e
      <4>2. u[n] = t[e]
        BY <1>1, <4>1
      <4> QED
        BY <3>1, <3>2, <4>1, <4>2 DEF Straight
    <3> QED
      BY <3>3, <3>4
  <2> QED
    BY <2>1, <2>2
<1> QED
  BY <1>3 DEF Straight, u

LEMMA HasIsIn == ASSUME NEW s \in Seq(Steps), NEW x PROVE Has(s, x) <=> x \in ToSet(s)
<1>1. ToSet(s) = {s[i] : i \in 1..Len(s)}
  BY ToSetFacts
<1> QED
  BY <1>1 DEF Has

LEMMA TameCat ==
  ASSUME NEW s, NEW t, Tame(s), Tame(t), \A x \in ToSet(s), y \in ToSet(t) : ~Wrong(x, y)
  PROVE  Tame(s \o t) /\ ToSet(s \o t) = ToSet(s) \cup ToSet(t)
<1>1. s \in Seq(Steps) /\ t \in Seq(Steps)
  BY DEF Tame
<1>2. s \o t \in Seq(Steps) /\ ToSet(s \o t) = ToSet(s) \cup ToSet(t)
  BY <1>1, ToSetFacts
<1>3. Straight(s \o t)
  BY <1>1, StraightCat DEF Tame
<1>4. ~Has(s \o t, "giveBack")
  BY <1>1, <1>2, HasIsIn DEF Tame
<1>5. /\ Covered(s \o t, NodeChanges \cup PinChanges, "show")
      /\ Covered(s \o t, NodeChanges \cup {"pin", "sortSubs"}, "resolve")
      /\ Covered(s \o t, {"dropSub"}, "dropNodes")
  BY <1>1, CoveredCat DEF Tame
<1> QED
  BY <1>2, <1>3, <1>4, <1>5 DEF Tame

LEMMA TameIsOrderly == ASSUME NEW t, Tame(t) PROVE Orderly(t)
  BY DEF Tame, Orderly

(* What emit_nodes ends covers every change before it that nothing cancels. *)
Sure(todo, changes) ==
  \A n, k \in 1..Len(todo) : n < k /\ todo[n] \in changes => todo[k] \notin Aborting

LEMMA EmitFacts ==
  /\ EmitNodes \in Seq(Steps) /\ Len(EmitNodes) = 2
  /\ EmitNodes[1] = "resolve" /\ EmitNodes[2] = "show" /\ ToSet(EmitNodes) = {"resolve", "show"}
<1>1. EmitNodes \in Seq(Steps)
  BY StepNames, TupleInSeq DEF EmitNodes
<1>2. Len(EmitNodes) = 2 /\ EmitNodes[1] = "resolve" /\ EmitNodes[2] = "show"
  BY DEF EmitNodes
<1>3. ToSet(EmitNodes) = {EmitNodes[i] : i \in 1..2}
  BY <1>1, <1>2, ToSetFacts
<1>4. ToSet(EmitNodes) = {"resolve", "show"}
  BY <1>2, <1>3, 1..2 = {1, 2}
<1> QED
  BY <1>1, <1>2, <1>4

LEMMA EmitCovers ==
  ASSUME NEW s \in Seq(Steps), NEW changes, Sure(s, changes),
         {"resolve", "show"} \cap changes = {}, NEW last \in {"resolve", "show"}
  PROVE  Covered(s \o EmitNodes, changes, last)
<1> DEFINE u == s \o EmitNodes
<1>1. /\ u \in Seq(Steps) /\ Len(u) = Len(s) + 2 /\ Len(s) \in Nat
      /\ \A k \in 1..Len(s) : u[k] = s[k]
      /\ \A k \in 1..2 : u[Len(s) + k] = EmitNodes[k]
  <2>1. /\ u \in Seq(Steps) /\ Len(u) = Len(s) + Len(EmitNodes)
        /\ \A k \in 1..Len(s) : u[k] = s[k]
        /\ \A k \in 1..Len(EmitNodes) : u[Len(s) + k] = EmitNodes[k]
    <3>1. EmitNodes \in Seq(Steps)
      BY EmitFacts
    <3> QED
      BY <3>1, ConcatProperties
  <2> HIDE DEF u
  <2> QED
    BY <2>1, EmitFacts
<1> HIDE DEF u
<1>2. u[Len(s) + 1] = "resolve" /\ u[Len(s) + 2] = "show"
  BY <1>1, EmitFacts
<1>3. ASSUME NEW n \in 1..Len(u), u[n] \in changes
      PROVE  \E m \in (n + 1)..Len(u) :
               u[m] = last /\ \A k \in (n + 1)..(m - 1) : u[k] \notin Aborting
  <2>1. n # Len(s) + 1 /\ n # Len(s) + 2
    BY <1>2, <1>3
  <2>2. n \in 1..Len(s) /\ s[n] \in changes
    <3>1. n \in 1..Len(s)
      BY <1>1, <2>1
    <3> QED
      BY <1>1, <1>3, <3>1
  <2>3. ASSUME NEW k \in (n + 1)..(Len(s) + 1) PROVE u[k] \notin Aborting
    <3>1. k \in 1..Len(s) \/ k = Len(s) + 1
      BY <1>1, <2>2
    <3>2. CASE k \in 1..Len(s)
      BY <1>1, <2>2, <2>3, <3>2 DEF Sure
    <3>3. CASE k = Len(s) + 1
      BY <1>2, <3>3 DEF Aborting
    <3> QED
      BY <3>1, <3>2, <3>3
  <2>4. CASE last = "resolve"
    <3>1. Len(s) + 1 \in (n + 1)..Len(u) /\ (Len(s) + 1) - 1 = Len(s)
      BY <1>1, <2>2
    <3>2. \A k \in (n + 1)..((Len(s) + 1) - 1) : u[k] \notin Aborting
      BY <1>1, <2>2, <2>3
    <3> QED
      BY <1>2, <2>4, <3>1, <3>2
  <2>5. CASE last = "show"
    <3>1. Len(s) + 2 \in (n + 1)..Len(u) /\ (Len(s) + 2) - 1 = Len(s) + 1
      BY <1>1, <2>2
    <3>2. \A k \in (n + 1)..((Len(s) + 2) - 1) : u[k] \notin Aborting
      BY <1>1, <2>2, <2>3
    <3> QED
      BY <1>2, <2>5, <3>1, <3>2
  <2> QED
    BY <2>4, <2>5
<1> QED
  BY <1>3 DEF Covered, u

LEMMA TameEmit ==
  ASSUME NEW s \in Seq(Steps), Straight(s), ~Has(s, "giveBack"), ~Has(s, "show"),
         Sure(s, NodeChanges \cup PinChanges \cup {"sortSubs"}),
         Covered(s, {"dropSub"}, "dropNodes")
  PROVE  /\ s \o EmitNodes \in Seq(Steps) /\ Tame(s \o EmitNodes)
         /\ ToSet(s \o EmitNodes) = ToSet(s) \cup {"resolve", "show"}
<1>1. /\ s \o EmitNodes \in Seq(Steps)
      /\ ToSet(s \o EmitNodes) = ToSet(s) \cup {"resolve", "show"}
  BY EmitFacts, ToSetFacts
<1>2. "giveBack" \notin ToSet(s) /\ "show" \notin ToSet(s)
  BY HasIsIn
<1>3. ~Has(s \o EmitNodes, "giveBack")
  <2>1. "giveBack" \notin ToSet(s \o EmitNodes)
    BY <1>1, <1>2
  <2> QED
    BY <1>1, <2>1, HasIsIn
<1>4. Straight(s \o EmitNodes)
  <2>1. Straight(EmitNodes)
    <3>1. ~Wrong("resolve", "show")
      BY DEF Wrong, NodeChanges
    <3> QED
      BY <3>1, EmitFacts DEF Straight
  <2>2. \A x \in ToSet(s), y \in ToSet(EmitNodes) : ~Wrong(x, y)
    BY <1>2, EmitFacts DEF Wrong
  <2> QED
    BY <2>1, <2>2, EmitFacts, StraightCat
<1>5. Covered(s \o EmitNodes, NodeChanges \cup PinChanges, "show")
  <2>1. Sure(s, NodeChanges \cup PinChanges)
    BY DEF Sure
  <2>2. {"resolve", "show"} \cap (NodeChanges \cup PinChanges) = {}
    BY DEF NodeChanges, PinChanges
  <2> QED
    BY <2>1, <2>2, EmitCovers
<1>6. Covered(s \o EmitNodes, NodeChanges \cup {"pin", "sortSubs"}, "resolve")
  <2>1. Sure(s, NodeChanges \cup {"pin", "sortSubs"})
    BY DEF Sure, PinChanges
  <2>2. {"resolve", "show"} \cap (NodeChanges \cup {"pin", "sortSubs"}) = {}
    BY DEF NodeChanges
  <2> QED
    BY <2>1, <2>2, EmitCovers
<1>7. Covered(s \o EmitNodes, {"dropSub"}, "dropNodes")
  <2>1. Covered(EmitNodes, {"dropSub"}, "dropNodes")
    BY EmitFacts DEF Covered
  <2> QED
    BY <2>1, EmitFacts, CoveredCat
<1> QED
  BY <1>1, <1>3, <1>4, <1>5, <1>6, <1>7 DEF Tame

LEMMA TameBefore ==
  /\ Tame(<<"merge", "saveNodes", "saveSubs">> \o EmitNodes)
     /\ ToSet(<<"merge", "saveNodes", "saveSubs">> \o EmitNodes) =
          {"merge", "saveNodes", "saveSubs", "resolve", "show"}
  /\ Tame(<<"push", "saveNodes">> \o EmitNodes)
     /\ ToSet(<<"push", "saveNodes">> \o EmitNodes) = {"push", "saveNodes", "resolve", "show"}
  /\ Tame(<<"dropSub", "dropNodes", "saveSubs", "saveNodes">> \o EmitNodes)
     /\ ToSet(<<"dropSub", "dropNodes", "saveSubs", "saveNodes">> \o EmitNodes) =
          {"dropSub", "dropNodes", "saveSubs", "saveNodes", "resolve", "show"}
  /\ Tame(<<"dropNode", "saveNodes", "saveUi">> \o EmitNodes)
     /\ ToSet(<<"dropNode", "saveNodes", "saveUi">> \o EmitNodes) =
          {"dropNode", "saveNodes", "saveUi", "resolve", "show"}
  /\ Tame(<<"replace", "saveNodes">> \o EmitNodes)
     /\ ToSet(<<"replace", "saveNodes">> \o EmitNodes) =
          {"replace", "saveNodes", "resolve", "show"}
  /\ Tame(<<"pin", "saveUi", "sort", "saveNodes">> \o EmitNodes)
     /\ ToSet(<<"pin", "saveUi", "sort", "saveNodes">> \o EmitNodes) =
          {"pin", "saveUi", "sort", "saveNodes", "resolve", "show"}
  /\ Tame(<<"pin", "saveUi", "sortSubs", "reflow", "saveSubs", "saveNodes">> \o EmitNodes)
     /\ ToSet(<<"pin", "saveUi", "sortSubs", "reflow", "saveSubs", "saveNodes">> \o EmitNodes) =
          {"pin", "saveUi", "sortSubs", "reflow", "saveSubs", "saveNodes", "resolve", "show"}
<1>1. /\ Tame(<<"merge", "saveNodes", "saveSubs">> \o EmitNodes)
      /\ ToSet(<<"merge", "saveNodes", "saveSubs">> \o EmitNodes) =
           {"merge", "saveNodes", "saveSubs", "resolve", "show"}
  <2> DEFINE s == <<"merge", "saveNodes", "saveSubs">>
  <2>1. s \in Seq(Steps)
    BY StepNames, TupleInSeq
  <2>2. Len(s) = 3 /\ s[1] = "merge" /\ s[2] = "saveNodes" /\ s[3] = "saveSubs"
    OBVIOUS
  <2> HIDE DEF s
  <2>3. Straight(s)
    BY <2>2 DEF Straight, Wrong, NodeChanges
  <2>4. ~Has(s, "giveBack") /\ ~Has(s, "show")
    BY <2>2 DEF Has
  <2>5. Sure(s, NodeChanges \cup PinChanges \cup {"sortSubs"})
    BY <2>2 DEF Sure, NodeChanges, PinChanges, Aborting
  <2>6. Covered(s, {"dropSub"}, "dropNodes")
    BY <2>2 DEF Covered
  <2>7. ToSet(s) = {"merge", "saveNodes", "saveSubs"}
    <3>1. ToSet(s) = {s[i] : i \in 1..Len(s)}
      BY <2>1, ToSetFacts
    <3>2. ToSet(s) = {s[i] : i \in 1..3}
      BY <2>2, <3>1
    <3> QED
      BY <2>2, <3>2
  <2> QED
    BY <2>1, <2>3, <2>4, <2>5, <2>6, <2>7, TameEmit DEF s
<1>2. /\ Tame(<<"push", "saveNodes">> \o EmitNodes)
      /\ ToSet(<<"push", "saveNodes">> \o EmitNodes) = {"push", "saveNodes", "resolve", "show"}
  <2> DEFINE s == <<"push", "saveNodes">>
  <2>1. s \in Seq(Steps)
    BY StepNames, TupleInSeq
  <2>2. Len(s) = 2 /\ s[1] = "push" /\ s[2] = "saveNodes"
    OBVIOUS
  <2> HIDE DEF s
  <2>3. Straight(s)
    BY <2>2 DEF Straight, Wrong, NodeChanges
  <2>4. ~Has(s, "giveBack") /\ ~Has(s, "show")
    BY <2>2 DEF Has
  <2>5. Sure(s, NodeChanges \cup PinChanges \cup {"sortSubs"})
    BY <2>2 DEF Sure, NodeChanges, PinChanges, Aborting
  <2>6. Covered(s, {"dropSub"}, "dropNodes")
    BY <2>2 DEF Covered
  <2>7. ToSet(s) = {"push", "saveNodes"}
    <3>1. ToSet(s) = {s[i] : i \in 1..Len(s)}
      BY <2>1, ToSetFacts
    <3>2. ToSet(s) = {s[i] : i \in 1..2}
      BY <2>2, <3>1
    <3> QED
      BY <2>2, <3>2
  <2> QED
    BY <2>1, <2>3, <2>4, <2>5, <2>6, <2>7, TameEmit DEF s
<1>3. /\ Tame(<<"dropSub", "dropNodes", "saveSubs", "saveNodes">> \o EmitNodes)
      /\ ToSet(<<"dropSub", "dropNodes", "saveSubs", "saveNodes">> \o EmitNodes) =
           {"dropSub", "dropNodes", "saveSubs", "saveNodes", "resolve", "show"}
  <2> DEFINE s == <<"dropSub", "dropNodes", "saveSubs", "saveNodes">>
  <2>1. s \in Seq(Steps)
    BY StepNames, TupleInSeq
  <2>2. /\ Len(s) = 4 /\ s[1] = "dropSub" /\ s[2] = "dropNodes"
        /\ s[3] = "saveSubs" /\ s[4] = "saveNodes"
    OBVIOUS
  <2> HIDE DEF s
  <2>3. Straight(s)
    BY <2>2 DEF Straight, Wrong, NodeChanges
  <2>4. ~Has(s, "giveBack") /\ ~Has(s, "show")
    BY <2>2 DEF Has
  <2>5. Sure(s, NodeChanges \cup PinChanges \cup {"sortSubs"})
    BY <2>2 DEF Sure, NodeChanges, PinChanges, Aborting
  <2>6. Covered(s, {"dropSub"}, "dropNodes")
    BY <2>2 DEF Covered, Aborting
  <2>7. ToSet(s) = {"dropSub", "dropNodes", "saveSubs", "saveNodes"}
    <3>1. ToSet(s) = {s[i] : i \in 1..Len(s)}
      BY <2>1, ToSetFacts
    <3>2. ToSet(s) = {s[i] : i \in 1..4}
      BY <2>2, <3>1
    <3> QED
      BY <2>2, <3>2
  <2> QED
    BY <2>1, <2>3, <2>4, <2>5, <2>6, <2>7, TameEmit DEF s
<1>4. /\ Tame(<<"dropNode", "saveNodes", "saveUi">> \o EmitNodes)
      /\ ToSet(<<"dropNode", "saveNodes", "saveUi">> \o EmitNodes) =
           {"dropNode", "saveNodes", "saveUi", "resolve", "show"}
  <2> DEFINE s == <<"dropNode", "saveNodes", "saveUi">>
  <2>1. s \in Seq(Steps)
    BY StepNames, TupleInSeq
  <2>2. Len(s) = 3 /\ s[1] = "dropNode" /\ s[2] = "saveNodes" /\ s[3] = "saveUi"
    OBVIOUS
  <2> HIDE DEF s
  <2>3. Straight(s)
    BY <2>2 DEF Straight, Wrong, NodeChanges
  <2>4. ~Has(s, "giveBack") /\ ~Has(s, "show")
    BY <2>2 DEF Has
  <2>5. Sure(s, NodeChanges \cup PinChanges \cup {"sortSubs"})
    BY <2>2 DEF Sure, NodeChanges, PinChanges, Aborting
  <2>6. Covered(s, {"dropSub"}, "dropNodes")
    BY <2>2 DEF Covered
  <2>7. ToSet(s) = {"dropNode", "saveNodes", "saveUi"}
    <3>1. ToSet(s) = {s[i] : i \in 1..Len(s)}
      BY <2>1, ToSetFacts
    <3>2. ToSet(s) = {s[i] : i \in 1..3}
      BY <2>2, <3>1
    <3> QED
      BY <2>2, <3>2
  <2> QED
    BY <2>1, <2>3, <2>4, <2>5, <2>6, <2>7, TameEmit DEF s
<1>5. /\ Tame(<<"replace", "saveNodes">> \o EmitNodes)
      /\ ToSet(<<"replace", "saveNodes">> \o EmitNodes) =
           {"replace", "saveNodes", "resolve", "show"}
  <2> DEFINE s == <<"replace", "saveNodes">>
  <2>1. s \in Seq(Steps)
    BY StepNames, TupleInSeq
  <2>2. Len(s) = 2 /\ s[1] = "replace" /\ s[2] = "saveNodes"
    OBVIOUS
  <2> HIDE DEF s
  <2>3. Straight(s)
    BY <2>2 DEF Straight, Wrong, NodeChanges
  <2>4. ~Has(s, "giveBack") /\ ~Has(s, "show")
    BY <2>2 DEF Has
  <2>5. Sure(s, NodeChanges \cup PinChanges \cup {"sortSubs"})
    BY <2>2 DEF Sure, NodeChanges, PinChanges, Aborting
  <2>6. Covered(s, {"dropSub"}, "dropNodes")
    BY <2>2 DEF Covered
  <2>7. ToSet(s) = {"replace", "saveNodes"}
    <3>1. ToSet(s) = {s[i] : i \in 1..Len(s)}
      BY <2>1, ToSetFacts
    <3>2. ToSet(s) = {s[i] : i \in 1..2}
      BY <2>2, <3>1
    <3> QED
      BY <2>2, <3>2
  <2> QED
    BY <2>1, <2>3, <2>4, <2>5, <2>6, <2>7, TameEmit DEF s
<1>6. /\ Tame(<<"pin", "saveUi", "sort", "saveNodes">> \o EmitNodes)
      /\ ToSet(<<"pin", "saveUi", "sort", "saveNodes">> \o EmitNodes) =
           {"pin", "saveUi", "sort", "saveNodes", "resolve", "show"}
  <2> DEFINE s == <<"pin", "saveUi", "sort", "saveNodes">>
  <2>1. s \in Seq(Steps)
    BY StepNames, TupleInSeq
  <2>2. Len(s) = 4 /\ s[1] = "pin" /\ s[2] = "saveUi" /\ s[3] = "sort" /\ s[4] = "saveNodes"
    OBVIOUS
  <2> HIDE DEF s
  <2>3. Straight(s)
    BY <2>2 DEF Straight, Wrong, NodeChanges
  <2>4. ~Has(s, "giveBack") /\ ~Has(s, "show")
    BY <2>2 DEF Has
  <2>5. Sure(s, NodeChanges \cup PinChanges \cup {"sortSubs"})
    BY <2>2 DEF Sure, NodeChanges, PinChanges, Aborting
  <2>6. Covered(s, {"dropSub"}, "dropNodes")
    BY <2>2 DEF Covered
  <2>7. ToSet(s) = {"pin", "saveUi", "sort", "saveNodes"}
    <3>1. ToSet(s) = {s[i] : i \in 1..Len(s)}
      BY <2>1, ToSetFacts
    <3>2. ToSet(s) = {s[i] : i \in 1..4}
      BY <2>2, <3>1
    <3> QED
      BY <2>2, <3>2
  <2> QED
    BY <2>1, <2>3, <2>4, <2>5, <2>6, <2>7, TameEmit DEF s
<1>7. /\ Tame(<<"pin", "saveUi", "sortSubs", "reflow", "saveSubs", "saveNodes">> \o EmitNodes)
      /\ ToSet(<<"pin", "saveUi", "sortSubs", "reflow", "saveSubs", "saveNodes">> \o EmitNodes) =
           {"pin", "saveUi", "sortSubs", "reflow", "saveSubs", "saveNodes", "resolve", "show"}
  <2> DEFINE s == <<"pin", "saveUi", "sortSubs", "reflow", "saveSubs", "saveNodes">>
  <2>1. s \in Seq(Steps)
    BY StepNames, TupleInSeq
  <2>2. /\ Len(s) = 6 /\ s[1] = "pin" /\ s[2] = "saveUi" /\ s[3] = "sortSubs"
        /\ s[4] = "reflow" /\ s[5] = "saveSubs" /\ s[6] = "saveNodes"
    OBVIOUS
  <2> HIDE DEF s
  <2>3. Straight(s)
    BY <2>2 DEF Straight, Wrong, NodeChanges
  <2>4. ~Has(s, "giveBack") /\ ~Has(s, "show")
    BY <2>2 DEF Has
  <2>5. Sure(s, NodeChanges \cup PinChanges \cup {"sortSubs"})
    BY <2>2 DEF Sure, NodeChanges, PinChanges, Aborting
  <2>6. Covered(s, {"dropSub"}, "dropNodes")
    BY <2>2 DEF Covered
  <2>7. ToSet(s) = {"pin", "saveUi", "sortSubs", "reflow", "saveSubs", "saveNodes"}
    <3>1. ToSet(s) = {s[i] : i \in 1..Len(s)}
      BY <2>1, ToSetFacts
    <3>2. ToSet(s) = {s[i] : i \in 1..6}
      BY <2>2, <3>1
    <3> QED
      BY <2>2, <3>2
  <2> QED
    BY <2>1, <2>3, <2>4, <2>5, <2>6, <2>7, TameEmit DEF s
<1> QED
  BY <1>1, <1>2, <1>3, <1>4, <1>5, <1>6, <1>7

LEMMA TameAlone ==
  /\ Tame(<< >>) /\ ToSet(<< >>) = {}
  /\ Tame(<<"lookUp", "fetch">>) /\ ToSet(<<"lookUp", "fetch">>) = {"lookUp", "fetch"}
  /\ Tame(<<"pushSub", "saveSubs">>)
     /\ ToSet(<<"pushSub", "saveSubs">>) = {"pushSub", "saveSubs"}
  /\ Tame(<<"lookFree", "pushSub", "saveSubs">>)
     /\ ToSet(<<"lookFree", "pushSub", "saveSubs">>) = {"lookFree", "pushSub", "saveSubs"}
  /\ Tame(<<"pick", "saveUi", "show">>)
     /\ ToSet(<<"pick", "saveUi", "show">>) = {"pick", "saveUi", "show"}
  /\ Tame(<<"saveSubs">>) /\ ToSet(<<"saveSubs">>) = {"saveSubs"}
<1>1. Tame(<< >>) /\ ToSet(<< >>) = {}
  <2> DEFINE s == << >>
  <2>1. s \in Seq(Steps)
    BY StepNames, TupleInSeq
  <2>2. Len(s) = 0
    OBVIOUS
  <2> HIDE DEF s
  <2>3. Straight(s)
    BY <2>2 DEF Straight, Wrong, NodeChanges
  <2>4. ~Has(s, "giveBack")
    BY <2>2 DEF Has
  <2>5. /\ Covered(s, NodeChanges \cup PinChanges, "show")
        /\ Covered(s, NodeChanges \cup {"pin", "sortSubs"}, "resolve")
        /\ Covered(s, {"dropSub"}, "dropNodes")
    BY <2>2 DEF Covered, NodeChanges, PinChanges, Aborting
  <2>6. ToSet(s) = {}
    <3>1. ToSet(s) = {s[i] : i \in 1..Len(s)}
      BY <2>1, ToSetFacts
    <3>2. ToSet(s) = {s[i] : i \in 1..0}
      BY <2>2, <3>1
    <3> QED
      BY <2>2, <3>2
  <2>7. Tame(s) /\ ToSet(s) = {}
    BY <2>1, <2>3, <2>4, <2>5, <2>6 DEF Tame
  <2> QED
    BY <2>7 DEF s
<1>2. Tame(<<"lookUp", "fetch">>) /\ ToSet(<<"lookUp", "fetch">>) = {"lookUp", "fetch"}
  <2> DEFINE s == <<"lookUp", "fetch">>
  <2>1. s \in Seq(Steps)
    BY StepNames, TupleInSeq
  <2>2. Len(s) = 2 /\ s[1] = "lookUp" /\ s[2] = "fetch"
    OBVIOUS
  <2> HIDE DEF s
  <2>3. Straight(s)
    BY <2>2 DEF Straight, Wrong, NodeChanges
  <2>4. ~Has(s, "giveBack")
    BY <2>2 DEF Has
  <2>5. /\ Covered(s, NodeChanges \cup PinChanges, "show")
        /\ Covered(s, NodeChanges \cup {"pin", "sortSubs"}, "resolve")
        /\ Covered(s, {"dropSub"}, "dropNodes")
    BY <2>2 DEF Covered, NodeChanges, PinChanges, Aborting
  <2>6. ToSet(s) = {"lookUp", "fetch"}
    <3>1. ToSet(s) = {s[i] : i \in 1..Len(s)}
      BY <2>1, ToSetFacts
    <3>2. ToSet(s) = {s[i] : i \in 1..2}
      BY <2>2, <3>1
    <3> QED
      BY <2>2, <3>2
  <2>7. Tame(s) /\ ToSet(s) = {"lookUp", "fetch"}
    BY <2>1, <2>3, <2>4, <2>5, <2>6 DEF Tame
  <2> QED
    BY <2>7 DEF s
<1>3. /\ Tame(<<"pushSub", "saveSubs">>)
      /\ ToSet(<<"pushSub", "saveSubs">>) = {"pushSub", "saveSubs"}
  <2> DEFINE s == <<"pushSub", "saveSubs">>
  <2>1. s \in Seq(Steps)
    BY StepNames, TupleInSeq
  <2>2. Len(s) = 2 /\ s[1] = "pushSub" /\ s[2] = "saveSubs"
    OBVIOUS
  <2> HIDE DEF s
  <2>3. Straight(s)
    BY <2>2 DEF Straight, Wrong, NodeChanges
  <2>4. ~Has(s, "giveBack")
    BY <2>2 DEF Has
  <2>5. /\ Covered(s, NodeChanges \cup PinChanges, "show")
        /\ Covered(s, NodeChanges \cup {"pin", "sortSubs"}, "resolve")
        /\ Covered(s, {"dropSub"}, "dropNodes")
    BY <2>2 DEF Covered, NodeChanges, PinChanges, Aborting
  <2>6. ToSet(s) = {"pushSub", "saveSubs"}
    <3>1. ToSet(s) = {s[i] : i \in 1..Len(s)}
      BY <2>1, ToSetFacts
    <3>2. ToSet(s) = {s[i] : i \in 1..2}
      BY <2>2, <3>1
    <3> QED
      BY <2>2, <3>2
  <2>7. Tame(s) /\ ToSet(s) = {"pushSub", "saveSubs"}
    BY <2>1, <2>3, <2>4, <2>5, <2>6 DEF Tame
  <2> QED
    BY <2>7 DEF s
<1>4. /\ Tame(<<"lookFree", "pushSub", "saveSubs">>)
      /\ ToSet(<<"lookFree", "pushSub", "saveSubs">>) = {"lookFree", "pushSub", "saveSubs"}
  <2> DEFINE s == <<"lookFree", "pushSub", "saveSubs">>
  <2>1. s \in Seq(Steps)
    BY StepNames, TupleInSeq
  <2>2. Len(s) = 3 /\ s[1] = "lookFree" /\ s[2] = "pushSub" /\ s[3] = "saveSubs"
    OBVIOUS
  <2> HIDE DEF s
  <2>3. Straight(s)
    BY <2>2 DEF Straight, Wrong, NodeChanges
  <2>4. ~Has(s, "giveBack")
    BY <2>2 DEF Has
  <2>5. /\ Covered(s, NodeChanges \cup PinChanges, "show")
        /\ Covered(s, NodeChanges \cup {"pin", "sortSubs"}, "resolve")
        /\ Covered(s, {"dropSub"}, "dropNodes")
    BY <2>2 DEF Covered, NodeChanges, PinChanges, Aborting
  <2>6. ToSet(s) = {"lookFree", "pushSub", "saveSubs"}
    <3>1. ToSet(s) = {s[i] : i \in 1..Len(s)}
      BY <2>1, ToSetFacts
    <3>2. ToSet(s) = {s[i] : i \in 1..3}
      BY <2>2, <3>1
    <3> QED
      BY <2>2, <3>2
  <2>7. Tame(s) /\ ToSet(s) = {"lookFree", "pushSub", "saveSubs"}
    BY <2>1, <2>3, <2>4, <2>5, <2>6 DEF Tame
  <2> QED
    BY <2>7 DEF s
<1>5. /\ Tame(<<"pick", "saveUi", "show">>)
      /\ ToSet(<<"pick", "saveUi", "show">>) = {"pick", "saveUi", "show"}
  <2> DEFINE s == <<"pick", "saveUi", "show">>
  <2>1. s \in Seq(Steps)
    BY StepNames, TupleInSeq
  <2>2. Len(s) = 3 /\ s[1] = "pick" /\ s[2] = "saveUi" /\ s[3] = "show"
    OBVIOUS
  <2> HIDE DEF s
  <2>3. Straight(s)
    BY <2>2 DEF Straight, Wrong, NodeChanges
  <2>4. ~Has(s, "giveBack")
    BY <2>2 DEF Has
  <2>5. /\ Covered(s, NodeChanges \cup PinChanges, "show")
        /\ Covered(s, NodeChanges \cup {"pin", "sortSubs"}, "resolve")
        /\ Covered(s, {"dropSub"}, "dropNodes")
    BY <2>2 DEF Covered, NodeChanges, PinChanges, Aborting
  <2>6. ToSet(s) = {"pick", "saveUi", "show"}
    <3>1. ToSet(s) = {s[i] : i \in 1..Len(s)}
      BY <2>1, ToSetFacts
    <3>2. ToSet(s) = {s[i] : i \in 1..3}
      BY <2>2, <3>1
    <3> QED
      BY <2>2, <3>2
  <2>7. Tame(s) /\ ToSet(s) = {"pick", "saveUi", "show"}
    BY <2>1, <2>3, <2>4, <2>5, <2>6 DEF Tame
  <2> QED
    BY <2>7 DEF s
<1>6. Tame(<<"saveSubs">>) /\ ToSet(<<"saveSubs">>) = {"saveSubs"}
  <2> DEFINE s == <<"saveSubs">>
  <2>1. s \in Seq(Steps)
    BY StepNames, TupleInSeq
  <2>2. Len(s) = 1 /\ s[1] = "saveSubs"
    OBVIOUS
  <2> HIDE DEF s
  <2>3. Straight(s)
    BY <2>2 DEF Straight, Wrong, NodeChanges
  <2>4. ~Has(s, "giveBack")
    BY <2>2 DEF Has
  <2>5. /\ Covered(s, NodeChanges \cup PinChanges, "show")
        /\ Covered(s, NodeChanges \cup {"pin", "sortSubs"}, "resolve")
        /\ Covered(s, {"dropSub"}, "dropNodes")
    BY <2>2 DEF Covered, NodeChanges, PinChanges, Aborting
  <2>6. ToSet(s) = {"saveSubs"}
    <3>1. ToSet(s) = {s[i] : i \in 1..Len(s)}
      BY <2>1, ToSetFacts
    <3>2. ToSet(s) = {s[i] : i \in 1..1}
      BY <2>2, <3>1
    <3> QED
      BY <2>2, <3>2
  <2>7. Tame(s) /\ ToSet(s) = {"saveSubs"}
    BY <2>1, <2>3, <2>4, <2>5, <2>6 DEF Tame
  <2> QED
    BY <2>7 DEF s
<1> QED
  BY <1>1, <1>2, <1>3, <1>4, <1>5, <1>6

Plan(todo, sections) == todo \in Seq(Steps) /\ Orderly(todo) /\ ToSet(todo) = sections

LEMMA MergePlan ==
  /\ Tame(MergeSections)
  /\ ToSet(MergeSections) = {"merge", "saveNodes", "saveSubs", "resolve", "show"}
  BY TameBefore DEF MergeSections

LEMMA RefreshPlan ==
  /\ Tame(RefreshSections)
  /\ ToSet(RefreshSections) =
       {"lookUp", "fetch", "merge", "saveNodes", "saveSubs", "resolve", "show"}
<1> DEFINE s == <<"lookUp", "fetch">>
<1>1. Tame(s) /\ ToSet(s) = {"lookUp", "fetch"}
  BY TameAlone
<1> HIDE DEF s
<1>2. \A x \in ToSet(s), y \in ToSet(MergeSections) : ~Wrong(x, y)
  BY <1>1, MergePlan DEF Wrong, NodeChanges
<1>3. Tame(s \o MergeSections) /\ ToSet(s \o MergeSections) = ToSet(s) \cup ToSet(MergeSections)
  BY <1>1, <1>2, MergePlan, TameCat
<1> QED
  BY <1>1, <1>3, MergePlan DEF s, RefreshSections

LEMMA PoolPlan ==
  LET todo == <<"lookFree", "pushSub", "saveSubs">> \o RefreshSections \o <<"giveBack">>
  IN Plan(todo, {"lookFree", "pushSub", "saveSubs", "lookUp", "fetch", "merge", "saveNodes",
                 "resolve", "show", "giveBack"})
<1> DEFINE first == <<"lookFree", "pushSub", "saveSubs">>
           s == first \o RefreshSections
           last == <<"giveBack">>
<1>1. Tame(first) /\ ToSet(first) = {"lookFree", "pushSub", "saveSubs"}
  BY TameAlone
<1>2. /\ last \in Seq(Steps) /\ Len(last) = 1 /\ last[1] = "giveBack" /\ ToSet(last) = {"giveBack"}
  <2>1. last \in Seq(Steps) /\ ToSet(last) = {"giveBack"}
    BY StepNames, TupleInSeq, ToSetFacts
  <2> QED
    BY <2>1
<1>3. Covered(first, NodeChanges, "nothing")
  <2>1. Len(first) = 3 /\ first[1] = "lookFree" /\ first[2] = "pushSub" /\ first[3] = "saveSubs"
    OBVIOUS
  <2> HIDE DEF first
  <2> QED
    BY <2>1 DEF Covered, NodeChanges
<1>4. Covered(RefreshSections, NodeChanges, "nothing")
  <2> DEFINE two == <<"lookUp", "fetch">>
  <2>1. two \in Seq(Steps)
    BY StepNames, TupleInSeq
  <2>2. Len(two) = 2 /\ two[1] = "lookUp" /\ two[2] = "fetch"
    OBVIOUS
  <2> HIDE DEF two
  <2>3. Covered(two, NodeChanges, "nothing") /\ \E k \in 1..Len(two) : two[k] = "fetch"
    BY <2>2 DEF Covered, NodeChanges
  <2>4. MergeSections \in Seq(Steps)
    BY MergePlan DEF Tame
  <2>5. Covered(two \o MergeSections, NodeChanges, "nothing")
    BY <2>1, <2>3, <2>4, CoveredCat
  <2> QED
    BY <2>5 DEF RefreshSections, two
<1> HIDE DEF first, last
<1>5. \A x \in ToSet(first), y \in ToSet(RefreshSections) : ~Wrong(x, y)
  BY <1>1, RefreshPlan DEF Wrong, NodeChanges
<1>6. Tame(s) /\ ToSet(s) = ToSet(first) \cup ToSet(RefreshSections)
  BY <1>1, <1>5, RefreshPlan, TameCat
<1>7. Covered(s, NodeChanges, "nothing")
  BY <1>1, <1>3, <1>4, RefreshPlan, CoveredCat DEF Tame
<1> HIDE DEF s
<1>8. s \o last \in Seq(Steps) /\ ToSet(s \o last) = ToSet(s) \cup ToSet(last)
  BY <1>2, <1>6, ToSetFacts DEF Tame
<1>9. Straight(s \o last)
  <2>1. Straight(last)
    BY <1>2 DEF Straight
  <2>2. \A x \in ToSet(s), y \in ToSet(last) : ~Wrong(x, y)
    BY <1>2 DEF Wrong
  <2> QED
    BY <1>2, <1>6, <2>1, <2>2, StraightCat DEF Tame
<1>10. /\ Covered(last, NodeChanges \cup PinChanges, "show")
       /\ Covered(last, NodeChanges \cup {"pin", "sortSubs"}, "resolve")
       /\ Covered(last, {"dropSub"}, "dropNodes")
       /\ Covered(last, NodeChanges, "nothing")
  BY <1>2 DEF Covered, NodeChanges, PinChanges
<1>11. /\ Covered(s \o last, NodeChanges \cup PinChanges, "show")
       /\ Covered(s \o last, NodeChanges \cup {"pin", "sortSubs"}, "resolve")
       /\ Covered(s \o last, {"dropSub"}, "dropNodes")
       /\ Covered(s \o last, NodeChanges, "nothing")
  BY <1>2, <1>6, <1>7, <1>10, CoveredCat DEF Tame
<1>12. Orderly(s \o last)
  BY <1>9, <1>11 DEF Orderly
<1>13. ToSet(s \o last) = {"lookFree", "pushSub", "saveSubs", "lookUp", "fetch", "merge",
                           "saveNodes", "resolve", "show", "giveBack"}
  BY <1>1, <1>2, <1>6, <1>8, RefreshPlan
<1> QED
  BY <1>8, <1>12, <1>13 DEF Plan, s, first, last

LEMMA GiveBackPlans ==
  /\ Plan(<<"saveSubs", "giveBack", "saveSubs">>, {"saveSubs", "giveBack"})
  /\ Plan(<<"giveBack", "saveSubs">>, {"saveSubs", "giveBack"})
<1>1. ASSUME NEW s \in Seq(Steps),
             \/ Len(s) = 2 /\ s[1] = "giveBack" /\ s[2] = "saveSubs"
             \/ Len(s) = 3 /\ s[1] = "saveSubs" /\ s[2] = "giveBack" /\ s[3] = "saveSubs"
      PROVE  Plan(s, {"saveSubs", "giveBack"})
  <2>1. /\ Covered(s, NodeChanges \cup PinChanges, "show")
        /\ Covered(s, NodeChanges \cup {"pin", "sortSubs"}, "resolve")
        /\ Covered(s, {"dropSub"}, "dropNodes")
        /\ Covered(s, NodeChanges, "nothing")
    BY <1>1 DEF Covered, NodeChanges, PinChanges
  <2>2. Straight(s)
    BY <1>1 DEF Straight, Wrong, NodeChanges
  <2>3. ToSet(s) = {s[i] : i \in 1..Len(s)}
    BY ToSetFacts
  <2>4. ToSet(s) = {"saveSubs", "giveBack"}
    BY <1>1, <2>3
  <2> QED
    BY <2>1, <2>2, <2>4 DEF Plan, Orderly
<1>2. /\ <<"saveSubs", "giveBack", "saveSubs">> \in Seq(Steps)
      /\ <<"giveBack", "saveSubs">> \in Seq(Steps)
  BY StepNames, TupleInSeq
<1> QED
  BY <1>1, <1>2

LEMMA TamePlan == ASSUME NEW s, NEW names, Tame(s), ToSet(s) = names PROVE Plan(s, names)
  BY TameIsOrderly DEF Plan, Tame

(* What a job sets out to do, and what is left of it when a refresh fails.  *)
LEMMA Plans ==
  /\ Plan(<<"push", "saveNodes">> \o EmitNodes, {"push", "saveNodes", "resolve", "show"})
  /\ Plan(<<"pushSub", "saveSubs">> \o RefreshSections,
          {"pushSub", "saveSubs", "lookUp", "fetch", "merge", "saveNodes", "resolve", "show"})
  /\ Plan(RefreshSections,
          {"lookUp", "fetch", "merge", "saveNodes", "saveSubs", "resolve", "show"})
  /\ Plan(MergeSections, {"merge", "saveNodes", "saveSubs", "resolve", "show"})
  /\ Plan(DeleteSections, {"dropSub", "dropNodes", "saveSubs", "saveNodes", "resolve", "show"})
  /\ Plan(<<"dropNode", "saveNodes", "saveUi">> \o EmitNodes,
          {"dropNode", "saveNodes", "saveUi", "resolve", "show"})
  /\ Plan(<<"replace", "saveNodes">> \o EmitNodes, {"replace", "saveNodes", "resolve", "show"})
  /\ Plan(<<"pin", "saveUi", "sort", "saveNodes">> \o EmitNodes,
          {"pin", "saveUi", "sort", "saveNodes", "resolve", "show"})
  /\ Plan(<<"pin", "saveUi", "sortSubs", "reflow", "saveSubs", "saveNodes">> \o EmitNodes,
          {"pin", "saveUi", "sortSubs", "reflow", "saveSubs", "saveNodes", "resolve", "show"})
  /\ Plan(<<"pick", "saveUi", "show">>, {"pick", "saveUi", "show"})
  /\ Plan(<<"saveSubs">>, {"saveSubs"})
  /\ Plan(<< >>, {})
<1>1. /\ Tame(<<"pushSub", "saveSubs">> \o RefreshSections)
      /\ ToSet(<<"pushSub", "saveSubs">> \o RefreshSections) =
           {"pushSub", "saveSubs", "lookUp", "fetch", "merge", "saveNodes", "resolve", "show"}
  <2> DEFINE s == <<"pushSub", "saveSubs">>
  <2>1. Tame(s) /\ ToSet(s) = {"pushSub", "saveSubs"}
    BY TameAlone
  <2> HIDE DEF s
  <2>2. \A x \in ToSet(s), y \in ToSet(RefreshSections) : ~Wrong(x, y)
    BY <2>1, RefreshPlan DEF Wrong, NodeChanges
  <2>3. /\ Tame(s \o RefreshSections)
        /\ ToSet(s \o RefreshSections) = ToSet(s) \cup ToSet(RefreshSections)
    BY <2>1, <2>2, RefreshPlan, TameCat
  <2> QED
    BY <2>1, <2>3, RefreshPlan DEF s
<1>2. /\ Tame(DeleteSections)
      /\ ToSet(DeleteSections) =
           {"dropSub", "dropNodes", "saveSubs", "saveNodes", "resolve", "show"}
  BY TameBefore DEF DeleteSections
<1>3. Plan(<<"push", "saveNodes">> \o EmitNodes,
          {"push", "saveNodes", "resolve", "show"})
  BY TamePlan, TameBefore
<1>4. Plan(<<"pushSub", "saveSubs">> \o RefreshSections,
          {"pushSub", "saveSubs", "lookUp", "fetch", "merge", "saveNodes", "resolve", "show"})
  BY TamePlan, <1>1
<1>5. Plan(RefreshSections,
          {"lookUp", "fetch", "merge", "saveNodes", "saveSubs", "resolve", "show"})
  BY TamePlan, RefreshPlan
<1>6. Plan(MergeSections, {"merge", "saveNodes", "saveSubs", "resolve", "show"})
  BY TamePlan, MergePlan
<1>7. Plan(DeleteSections,
          {"dropSub", "dropNodes", "saveSubs", "saveNodes", "resolve", "show"})
  BY TamePlan, <1>2
<1>8. Plan(<<"dropNode", "saveNodes", "saveUi">> \o EmitNodes,
          {"dropNode", "saveNodes", "saveUi", "resolve", "show"})
  BY TamePlan, TameBefore
<1>9. Plan(<<"replace", "saveNodes">> \o EmitNodes,
          {"replace", "saveNodes", "resolve", "show"})
  BY TamePlan, TameBefore
<1>10. Plan(<<"pin", "saveUi", "sort", "saveNodes">> \o EmitNodes,
          {"pin", "saveUi", "sort", "saveNodes", "resolve", "show"})
  BY TamePlan, TameBefore
<1>11. Plan(<<"pin", "saveUi", "sortSubs", "reflow", "saveSubs", "saveNodes">> \o EmitNodes,
          {"pin", "saveUi", "sortSubs", "reflow", "saveSubs", "saveNodes", "resolve", "show"})
  BY TamePlan, TameBefore
<1>12. Plan(<<"pick", "saveUi", "show">>, {"pick", "saveUi", "show"})
  BY TamePlan, TameAlone
<1>13. Plan(<<"saveSubs">>, {"saveSubs"})
  BY TamePlan, TameAlone
<1>14. Plan(<< >>, {})
  BY TamePlan, TameAlone
<1> QED
  BY <1>3, <1>4, <1>5, <1>6, <1>7, <1>8, <1>9, <1>10, <1>11, <1>12, <1>13, <1>14

LEMMA FailingPlans ==
  ASSUME NEW j, NEW todo \in {Failing(j), Tail(Failing(j))}
  PROVE  \E names \in SUBSET {"saveSubs", "giveBack"} :
           Plan(todo, names) /\ ("giveBack" \in names => "giveBack" \in ToSet(jobs[j].todo))
<1>1. /\ Tail(<<"saveSubs", "giveBack", "saveSubs">>) = <<"giveBack", "saveSubs">>
      /\ Tail(<<"saveSubs">>) = << >>
  OBVIOUS
<1>2. CASE "giveBack" \in ToSet(jobs[j].todo)
  <2>1. todo = <<"saveSubs", "giveBack", "saveSubs">> \/ todo = <<"giveBack", "saveSubs">>
    BY <1>1, <1>2 DEF Failing
  <2>2. Plan(todo, {"saveSubs", "giveBack"})
    BY <2>1, GiveBackPlans
  <2> QED
    BY <1>2, <2>2
<1>3. CASE "giveBack" \notin ToSet(jobs[j].todo)
  <2>1. todo = <<"saveSubs">> \/ todo = << >>
    BY <1>1, <1>3 DEF Failing
  <2>2. Plan(todo, {"saveSubs"}) \/ Plan(todo, {})
    BY <2>1, Plans
  <2> QED
    BY <2>2
<1> QED
  BY <1>2, <1>3

-----------------------------------------------------------------------------
(* What a section does, seen from outside.                                 *)
Frame(x) ==
  /\ x \notin NodeChanges => nodes' = nodes
  /\ x \notin SubChanges => subs' = subs
  /\ x \notin PinChanges => active' = active
  /\ x # "show" => shown' = shown
  /\ disk'.servers = (IF x = "saveNodes" THEN nodes ELSE disk.servers)
  /\ disk'.subs = (IF x = "saveSubs" THEN subs ELSE disk.subs)
  /\ disk'.ui = (IF x = "saveUi" THEN active ELSE disk.ui)
  /\ hitch' = hitch

NodesEffect(x, sub) ==
  /\ IsNodes(nodes')
  /\ \A n \in ToSet(nodes') :
       \/ n \in ToSet(nodes)
       \/ x = "push" /\ n.sub = Own
       \/ x = "merge" /\ n.sub = sub
       \/ x = "replace" /\ \E m \in ToSet(nodes) : n.sub = m.sub
  /\ x = "dropNodes" => \A n \in ToSet(nodes') : n.sub # sub
  /\ x \in {"sort", "reflow"} => ToSet(nodes') = ToSet(nodes)

SubsEffect(x, sub) ==
  /\ subs' \in Seq(SubIds)
  /\ ToSet(subs') = (IF x = "pushSub" THEN ToSet(subs) \cup {sub}
                     ELSE IF x \in {"giveBack", "dropSub"} THEN ToSet(subs) \ {sub}
                     ELSE ToSet(subs))
  /\ x = "lookFree" => Pools = {}
  /\ x = "lookUp" => sub \in ToSet(subs)

ShownEffect(x, arg, next) ==
  /\ IsSeq(next)
  /\ x \notin {"resolve", "sortSubs"} => next = arg
  /\ x = "pin" => active' = Resolve
  /\ x = "pick" => Resolve' = arg[1]
  /\ x = "resolve" => next[1] = Resolve
  /\ x = "show" => shown' = arg[1]

Forward(j, job) ==
  LET x == Head(jobs[j].todo) IN
  /\ x # "fetch" /\ job.todo = Tail(jobs[j].todo) /\ job.sub = jobs[j].sub
  /\ Frame(x) /\ NodesEffect(x, job.sub) /\ SubsEffect(x, job.sub)
  /\ ShownEffect(x, jobs[j].arg, job.arg)

Detour(j, job) ==
  LET x == Head(jobs[j].todo) IN
  /\ x \in Aborting /\ UNCHANGED <<lists, shown, disk, hitch>>
  /\ \/ job = NoJob
     \/ x = "lookFree" /\ job.todo = RefreshSections /\ job.sub \in Pools /\ job.arg = << >>
     \/ x = "fetch" /\ job.todo = MergeSections /\ job.sub = jobs[j].sub /\ job.arg \in Seq(Prints)
     \/ /\ job.todo \in {Failing(j), Tail(Failing(j))}
        /\ job.sub = jobs[j].sub /\ job.arg = << >>

LEMMA NodesFrom ==
  ASSUME NEW S, NEW list \in Seq(S), \A n \in S : n = Server(n.id, n.sub, n.print)
  PROVE  IsNodes(list) /\ ToSet(list) \subseteq S
  BY ToSetFacts DEF IsNodes, IsSeq

LEMMA ServerFields ==
  ASSUME NEW id, NEW sub, NEW print
  PROVE  LET n == Server(id, sub, print)
         IN n = Server(n.id, n.sub, n.print) /\ n.id = id /\ n.sub = sub /\ n.print = print
  BY DEF Server

LEMMA PushDoes ==
  ASSUME NEW j, IsNodes(nodes), IsSeq(jobs[j].arg), PushNodes(j)
  PROVE  NodesEffect("push", jobs[j].sub)
<1> DEFINE fresh == Only(jobs[j].arg, {p \in Prints : ~Known(p)})
           ids == NewIds(Len(fresh))
           new == [i \in DOMAIN fresh |-> Server(ids[i], Own, fresh[i])]
           S == ToSet(nodes) \cup {Server(ids[i], Own, fresh[i]) : i \in DOMAIN fresh}
<1>1. nodes' = nodes \o new
  BY DEF PushNodes
<1>2. fresh \in Seq(ToSet(jobs[j].arg))
  BY OnlyFacts DEF IsSeq
<1> HIDE DEF fresh, ids
<1>3. new \in Seq(S)
  <2>1. DOMAIN fresh = 1..Len(fresh) /\ Len(fresh) \in Nat
    BY <1>2
  <2>2. \A i \in 1..Len(fresh) : Server(ids[i], Own, fresh[i]) \in S
    BY <2>1
  <2> HIDE DEF S
  <2> QED
    BY <2>1, <2>2
<1>4. nodes \in Seq(S)
  <2>1. nodes \in Seq(ToSet(nodes))
    BY DEF IsNodes, IsSeq
  <2> QED
    BY <2>1
<1>5. \A n \in S : n \in ToSet(nodes) \/ n.sub = Own
  BY ServerFields
<1>6. \A n \in S : n = Server(n.id, n.sub, n.print)
  BY ServerFields DEF IsNodes
<1> HIDE DEF new, S
<1>7. nodes \o new \in Seq(S)
  BY <1>3, <1>4, ToSetFacts
<1>8. IsNodes(nodes') /\ ToSet(nodes') \subseteq S
  BY <1>1, <1>6, <1>7, NodesFrom
<1> QED
  BY <1>5, <1>8 DEF NodesEffect

LEMMA MergeDoes ==
  ASSUME NEW j, IsNodes(nodes), IsSeq(jobs[j].arg), Merge(j)
  PROVE  NodesEffect("merge", jobs[j].sub)
<1> DEFINE served == jobs[j].arg
           sub == jobs[j].sub
           ids == NewIds(Len(served))
           incoming == [i \in DOMAIN served |-> Server(ids[i], sub, served[i])]
           Numbers == {ids[i] : i \in DOMAIN served} \cup {n.id : n \in ToSet(nodes)}
           New == {Server(id, sub, p) : id \in Numbers, p \in ToSet(served)}
           Others == {n \in ToSet(nodes) : n.sub # sub}
<1>1. nodes' = MergeSubscriptionNodes(nodes, incoming, sub)
  BY DEF Merge
<1>2. served \in Seq(ToSet(served))
  BY DEF IsSeq
<1> HIDE DEF served, sub, ids
<1>3. incoming \in Seq(New)
  <2>1. DOMAIN served = 1..Len(served) /\ Len(served) \in Nat
        /\ \A i \in 1..Len(served) : served[i] \in ToSet(served)
    BY <1>2, ToSetFacts
  <2>2. \A i \in 1..Len(served) : Server(ids[i], sub, served[i]) \in New
    BY <2>1
  <2> HIDE DEF New
  <2> QED
    BY <2>1, <2>2
<1>4. ASSUME NEW o \in ToSet(nodes), NEW n \in New PROVE [n EXCEPT !.id = o.id] \in New
  <2>1. PICK id \in Numbers, p \in ToSet(served) : n = Server(id, sub, p)
    BY <1>4
  <2>2. [n EXCEPT !.id = o.id] = Server(o.id, sub, p)
    BY <2>1 DEF Server
  <2>3. o.id \in Numbers
    OBVIOUS
  <2> QED
    BY <2>2, <2>3
<1>5. \A o \in ToSet(nodes) : o.sub # sub => o \in Others
  OBVIOUS
<1>6. \A n \in Others \cup New : n = Server(n.id, n.sub, n.print)
  BY ServerFields DEF IsNodes
<1>7. \A n \in Others \cup New : n \in ToSet(nodes) \/ n.sub = sub
  BY ServerFields
<1> HIDE DEF incoming, New, Others
<1>8. nodes' \in Seq(Others \cup New)
  <2>1. IsSeq(nodes)
    BY DEF IsNodes
  <2> QED
    BY <1>1, <1>3, <1>4, <1>5, <2>1, MergeFacts
<1>9. IsNodes(nodes') /\ ToSet(nodes') \subseteq Others \cup New
  BY <1>6, <1>8, NodesFrom
<1> QED
  BY <1>7, <1>9 DEF NodesEffect, sub

LEMMA ReplaceDoes ==
  ASSUME NEW j, IsNodes(nodes), Replace(j)
  PROVE  NodesEffect("replace", jobs[j].sub)
<1>1. CASE nodes' = nodes
  BY <1>1 DEF NodesEffect
<1>2. CASE nodes' # nodes
  <2> DEFINE id == jobs[j].arg[1]
             print == jobs[j].arg[2]
             S == ToSet(nodes) \cup {Server(n.id, n.sub, print) : n \in ToSet(nodes)}
  <2>1. nodes' = [i \in DOMAIN nodes |->
                    IF nodes[i].id = id THEN [nodes[i] EXCEPT !.print = print] ELSE nodes[i]]
    BY <1>2 DEF Replace
  <2> HIDE DEF id, print
  <2>2. /\ DOMAIN nodes = 1..Len(nodes) /\ Len(nodes) \in Nat
        /\ \A i \in 1..Len(nodes) : nodes[i] \in ToSet(nodes)
    BY ToSetFacts DEF IsNodes, IsSeq
  <2>3. ASSUME NEW i \in 1..Len(nodes)
        PROVE  (IF nodes[i].id = id THEN [nodes[i] EXCEPT !.print = print] ELSE nodes[i]) \in S
    <3>1. nodes[i] = Server(nodes[i].id, nodes[i].sub, nodes[i].print) /\ nodes[i] \in ToSet(nodes)
      BY <2>2 DEF IsNodes
    <3>2. [nodes[i] EXCEPT !.print = print] = Server(nodes[i].id, nodes[i].sub, print)
      BY <3>1 DEF Server
    <3> QED
      BY <3>1, <3>2
  <2>4. \A n \in S : n \in ToSet(nodes) \/ \E m \in ToSet(nodes) : n.sub = m.sub
    BY ServerFields
  <2>5. \A n \in S : n = Server(n.id, n.sub, n.print)
    BY ServerFields DEF IsNodes
  <2> HIDE DEF S
  <2>6. nodes' \in Seq(S)
    BY <2>1, <2>2, <2>3
  <2>7. IsNodes(nodes') /\ ToSet(nodes') \subseteq S
    BY <2>5, <2>6, NodesFrom
  <2> QED
    BY <2>4, <2>7 DEF NodesEffect
<1> QED
  BY <1>1, <1>2

LEMMA NodesStay ==
  ASSUME NEW x, NEW sub, IsNodes(nodes), nodes' = nodes, x # "dropNodes"
  PROVE  NodesEffect(x, sub)
  BY DEF NodesEffect

LEMMA SubsStay ==
  ASSUME NEW x, NEW sub, subs \in Seq(SubIds), subs' = subs,
         x \notin {"pushSub", "giveBack", "dropSub", "lookFree", "lookUp"}
  PROVE  SubsEffect(x, sub)
  BY DEF SubsEffect

LEMMA DropDoes ==
  ASSUME NEW j, IsNodes(nodes)
  PROVE  /\ DropNodes(j) => NodesEffect("dropNodes", jobs[j].sub)
         /\ DropNode(j) => NodesEffect("dropNode", jobs[j].sub)
<1> DEFINE S == ToSet(nodes)
<1>1. nodes \in Seq(S) /\ \A n \in S : n = Server(n.id, n.sub, n.print)
  BY DEF IsNodes, IsSeq
<1>2. ASSUME NEW wanted, nodes' = Only(nodes, wanted)
      PROVE  IsNodes(nodes') /\ ToSet(nodes') = S \cap wanted
  <2> HIDE DEF S
  <2>1. Only(nodes, wanted) \in Seq(S) /\ ToSet(Only(nodes, wanted)) = ToSet(nodes) \cap wanted
    BY <1>1, OnlyFacts
  <2>2. IsNodes(Only(nodes, wanted))
    BY <1>1, <2>1, NodesFrom
  <2> QED
    BY <1>2, <2>1, <2>2 DEF S
<1>3. ASSUME DropNodes(j) PROVE NodesEffect("dropNodes", jobs[j].sub)
  <2>1. nodes' = Only(nodes, {n \in S : n.sub # jobs[j].sub})
    BY <1>3 DEF DropNodes
  <2>2. IsNodes(nodes') /\ ToSet(nodes') = S \cap {n \in S : n.sub # jobs[j].sub}
    BY <1>2, <2>1
  <2> QED
    BY <2>2 DEF NodesEffect
<1>4. ASSUME DropNode(j) PROVE NodesEffect("dropNode", jobs[j].sub)
  <2>1. nodes' = Only(nodes, {n \in S : n.id # jobs[j].arg[1]})
    BY <1>4 DEF DropNode
  <2>2. IsNodes(nodes') /\ ToSet(nodes') = S \cap {n \in S : n.id # jobs[j].arg[1]}
    BY <1>2, <2>1
  <2> QED
    BY <2>2 DEF NodesEffect
<1> QED
  BY <1>3, <1>4

LEMMA OrderDoes ==
  ASSUME NEW j, IsNodes(nodes), subs \in Seq(SubIds), IsSeq(jobs[j].arg)
  PROVE  /\ SortNodes(j) => NodesEffect("sort", jobs[j].sub)
         /\ Reflow(j) => NodesEffect("reflow", jobs[j].sub)
         /\ SortSubs(j) => SubsEffect("sortSubs", jobs[j].sub)
<1> DEFINE S == ToSet(nodes)
           T == ToSet(jobs[j].arg)
<1>1. nodes \in Seq(S) /\ (\A n \in S : n = Server(n.id, n.sub, n.print)) /\ jobs[j].arg \in Seq(T)
  BY DEF IsNodes, IsSeq
<1> HIDE DEF S, T
<1>2. ASSUME NEW key, nodes' = SortBy(nodes, jobs[j].arg, key)
      PROVE  IsNodes(nodes') /\ ToSet(nodes') = ToSet(nodes)
  BY <1>1, <1>2, SortFacts, NodesFrom
<1>3. ASSUME SortNodes(j) PROVE NodesEffect("sort", jobs[j].sub)
  <2>1. PICK key : key = [n \in ToSet(nodes) |-> n.id]
    OBVIOUS
  <2>2. nodes' = SortBy(nodes, jobs[j].arg, key)
    BY <1>3, <2>1 DEF SortNodes
  <2>3. IsNodes(nodes') /\ ToSet(nodes') = ToSet(nodes)
    BY <1>2, <2>2
  <2> QED
    BY <2>3 DEF NodesEffect
<1>4. ASSUME Reflow(j) PROVE NodesEffect("reflow", jobs[j].sub)
  <2>1. PICK key : key = [n \in ToSet(nodes) |-> n.sub]
    OBVIOUS
  <2>2. nodes' = SortBy(nodes, jobs[j].arg, key)
    BY <1>4, <2>1 DEF Reflow
  <2>3. IsNodes(nodes') /\ ToSet(nodes') = ToSet(nodes)
    BY <1>2, <2>2
  <2> QED
    BY <2>3 DEF NodesEffect
<1>5. ASSUME SortSubs(j) PROVE SubsEffect("sortSubs", jobs[j].sub)
  <2>1. PICK key : key = [s \in ToSet(subs) |-> s]
    OBVIOUS
  <2>2. subs' = SortBy(subs, jobs[j].arg, key)
    BY <1>5, <2>1 DEF SortSubs
  <2>3. subs' \in Seq(SubIds) /\ ToSet(subs') = ToSet(subs)
    BY <1>1, <2>2, SortFacts
  <2> QED
    BY <2>3 DEF SubsEffect
<1> QED
  BY <1>3, <1>4, <1>5

LEMMA SubsDo ==
  ASSUME NEW j, subs \in Seq(SubIds), jobs[j].sub \in SubIds \/ ~PushSub(j)
  PROVE  /\ PushSub(j) => SubsEffect("pushSub", jobs[j].sub)
         /\ GiveBack(j) => SubsEffect("giveBack", jobs[j].sub)
         /\ DropSub(j) => SubsEffect("dropSub", jobs[j].sub)
<1>1. ASSUME PushSub(j) PROVE SubsEffect("pushSub", jobs[j].sub)
  <2>1. subs' = Append(subs, jobs[j].sub) /\ jobs[j].sub \in SubIds
    BY <1>1 DEF PushSub
  <2>2. PICK s \in SubIds : s = jobs[j].sub
    BY <2>1
  <2>3. Append(subs, s) = subs \o <<s>> /\ <<s>> \in Seq(SubIds)
    OBVIOUS
  <2>4. subs \o <<s>> \in Seq(SubIds) /\ ToSet(subs \o <<s>>) = ToSet(subs) \cup {s}
    <3>1. ToSet(<<s>>) = {s}
      BY ToSetFacts
    <3>2. PICK one \in Seq(SubIds) : one = <<s>>
      BY <2>3
    <3>3. subs \o one \in Seq(SubIds) /\ ToSet(subs \o one) = ToSet(subs) \cup ToSet(one)
      BY ToSetFacts
    <3> QED
      BY <3>1, <3>2, <3>3
  <2> QED
    BY <2>1, <2>2, <2>3, <2>4 DEF SubsEffect
<1>2. ASSUME subs' = Only(subs, SubIds \ {jobs[j].sub})
      PROVE  SubsEffect("giveBack", jobs[j].sub) /\ SubsEffect("dropSub", jobs[j].sub)
  <2>1. ToSet(subs) \subseteq SubIds
    BY ToSetFacts
  <2>2. subs' \in Seq(SubIds) /\ ToSet(subs') = ToSet(subs) \cap (SubIds \ {jobs[j].sub})
    BY <1>2, OnlyFacts
  <2>3. ToSet(subs') = ToSet(subs) \ {jobs[j].sub}
    BY <2>1, <2>2
  <2> QED
    BY <2>2, <2>3 DEF SubsEffect
<1> QED
  BY <1>1, <1>2 DEF GiveBack, DropSub

LEMMA BoundedIsSeq ==
  ASSUME NEW S, NEW n \in Nat, NEW s \in BoundedSeq(S, n)
  PROVE  s \in Seq(S)
<1>1. PICK m \in 0..n : s \in [1..m -> S]
  BY DEF BoundedSeq, SeqOf
<1>2. m \in Nat
  OBVIOUS
<1> QED
  BY <1>1, <1>2

(* Every section goes forward, or drops what it had planned.               *)
LEMMA SectionWays ==
  ASSUME DiskInv, ShapeInv, NEW j \in Jobs, Section(j)
  PROVE  \E job : Goto(j, job) /\ (Forward(j, job) \/ Detour(j, job))
<1> DEFINE todo == jobs[j].todo
           old == jobs[j].arg
           sub == jobs[j].sub
           x == Head(todo)
           Next(t, a) == [todo |-> t, sub |-> sub, arg |-> a]
<1>1. IsNodes(nodes) /\ subs \in Seq(SubIds) /\ IsSeq(old) /\ IsSeq(subs)
  <2>1. Proper(jobs[j]) /\ IsNodes(nodes) /\ subs \in Seq(SubIds)
    BY DEF ShapeInv
  <2> QED
    BY <2>1, ToSetFacts DEF Proper, IsSeq
<1>2. sub \in SubIds \/ ~PushSub(j)
  <2>1. ASSUME PushSub(j) PROVE Has(todo, "pushSub")
    <3>1. todo # << >> /\ Head(todo) = "pushSub" /\ todo \in Seq(Steps)
      BY <2>1 DEF PushSub, Now, DiskInv, IsJob, Careful
    <3> QED
      BY <3>1, HasLater
  <2> QED
    BY <2>1 DEF ShapeInv, Proper
<1>4. ASSUME NEW a, GoOn(j, Tail(todo), a), x # "fetch",
             Frame(x), NodesEffect(x, sub), SubsEffect(x, sub), ShownEffect(x, old, a)
      PROVE  \E job : Goto(j, job) /\ (Forward(j, job) \/ Detour(j, job))
  <2>1. PICK job : job = Next(Tail(todo), a)
    OBVIOUS
  <2>2. Goto(j, job) /\ job.todo = Tail(todo) /\ job.sub = sub /\ job.arg = a
    BY <1>4, <2>1 DEF GoOn
  <2>3. Forward(j, job)
    BY <1>4, <2>2 DEF Forward
  <2> QED
    BY <2>2, <2>3
<1>5. CASE PushNodes(j)
  <2>1. x = "push" /\ GoOn(j, Tail(todo), old)
    BY <1>5 DEF PushNodes, Now, Advance, AdvanceWith
  <2>2. Frame("push")
    BY <1>5 DEF PushNodes, Frame, NodeChanges, SubChanges, PinChanges, lists, bounds
  <2>3. NodesEffect("push", sub)
    BY <1>1, <1>5, PushDoes
  <2>4. SubsEffect("push", sub)
    BY <1>1, <2>2, SubsStay DEF Frame, SubChanges
  <2>5. ShownEffect("push", old, old)
    BY <1>1, <1>5 DEF ShownEffect, PushNodes
  <2> QED
    BY <1>4, <2>1, <2>2, <2>3, <2>4, <2>5
<1>6. CASE PushSub(j)
  <2>1. x = "pushSub" /\ GoOn(j, Tail(todo), old)
    BY <1>6 DEF PushSub, Now, Advance, AdvanceWith
  <2>2. Frame("pushSub")
    BY <1>6 DEF PushSub, Frame, NodeChanges, SubChanges, PinChanges, lists, bounds
  <2>3. NodesEffect("pushSub", sub)
    BY <1>1, <2>2, NodesStay DEF Frame, NodeChanges
  <2>4. SubsEffect("pushSub", sub)
    BY <1>1, <1>2, <1>6, SubsDo
  <2>5. ShownEffect("pushSub", old, old)
    BY <1>1, <1>6 DEF ShownEffect, PushSub
  <2> QED
    BY <1>4, <2>1, <2>2, <2>3, <2>4, <2>5
<1>7. CASE GiveBack(j)
  <2>1. x = "giveBack" /\ GoOn(j, Tail(todo), old)
    BY <1>7 DEF GiveBack, Now, Advance, AdvanceWith
  <2>2. Frame("giveBack")
    BY <1>7 DEF GiveBack, Frame, NodeChanges, SubChanges, PinChanges, lists, bounds
  <2>3. NodesEffect("giveBack", sub)
    BY <1>1, <2>2, NodesStay DEF Frame, NodeChanges
  <2>4. SubsEffect("giveBack", sub)
    BY <1>1, <1>2, <1>7, SubsDo
  <2>5. ShownEffect("giveBack", old, old)
    BY <1>1, <1>7 DEF ShownEffect, GiveBack
  <2> QED
    BY <1>4, <2>1, <2>2, <2>3, <2>4, <2>5
<1>8. CASE Merge(j)
  <2>1. x = "merge" /\ GoOn(j, Tail(todo), old)
    BY <1>8 DEF Merge, Now, Advance, AdvanceWith
  <2>2. Frame("merge")
    BY <1>8 DEF Merge, Frame, NodeChanges, SubChanges, PinChanges, lists, bounds
  <2>3. NodesEffect("merge", sub)
    BY <1>1, <1>8, MergeDoes
  <2>4. SubsEffect("merge", sub)
    BY <1>1, <2>2, SubsStay DEF Frame, SubChanges
  <2>5. ShownEffect("merge", old, old)
    BY <1>1, <1>8 DEF ShownEffect, Merge
  <2> QED
    BY <1>4, <2>1, <2>2, <2>3, <2>4, <2>5
<1>9. CASE DropSub(j)
  <2>1. x = "dropSub" /\ GoOn(j, Tail(todo), old)
    BY <1>9 DEF DropSub, Now, Advance, AdvanceWith
  <2>2. Frame("dropSub")
    BY <1>9 DEF DropSub, Frame, NodeChanges, SubChanges, PinChanges, lists, bounds
  <2>3. NodesEffect("dropSub", sub)
    BY <1>1, <2>2, NodesStay DEF Frame, NodeChanges
  <2>4. SubsEffect("dropSub", sub)
    BY <1>1, <1>2, <1>9, SubsDo
  <2>5. ShownEffect("dropSub", old, old)
    BY <1>1, <1>9 DEF ShownEffect, DropSub
  <2> QED
    BY <1>4, <2>1, <2>2, <2>3, <2>4, <2>5
<1>10. CASE DropNodes(j)
  <2>1. x = "dropNodes" /\ GoOn(j, Tail(todo), old)
    BY <1>10 DEF DropNodes, Now, Advance, AdvanceWith
  <2>2. Frame("dropNodes")
    BY <1>10 DEF DropNodes, Frame, NodeChanges, SubChanges, PinChanges, lists, bounds
  <2>3. NodesEffect("dropNodes", sub)
    BY <1>1, <1>10, DropDoes
  <2>4. SubsEffect("dropNodes", sub)
    BY <1>1, <2>2, SubsStay DEF Frame, SubChanges
  <2>5. ShownEffect("dropNodes", old, old)
    BY <1>1, <1>10 DEF ShownEffect, DropNodes
  <2> QED
    BY <1>4, <2>1, <2>2, <2>3, <2>4, <2>5
<1>11. CASE DropNode(j)
  <2>1. x = "dropNode" /\ GoOn(j, Tail(todo), old)
    BY <1>11 DEF DropNode, Now, Advance, AdvanceWith
  <2>2. Frame("dropNode")
    BY <1>11 DEF DropNode, Frame, NodeChanges, SubChanges, PinChanges, lists, bounds
  <2>3. NodesEffect("dropNode", sub)
    BY <1>1, <1>11, DropDoes
  <2>4. SubsEffect("dropNode", sub)
    BY <1>1, <2>2, SubsStay DEF Frame, SubChanges
  <2>5. ShownEffect("dropNode", old, old)
    BY <1>1, <1>11 DEF ShownEffect, DropNode
  <2> QED
    BY <1>4, <2>1, <2>2, <2>3, <2>4, <2>5
<1>12. CASE PinActive(j)
  <2>1. x = "pin" /\ GoOn(j, Tail(todo), old)
    BY <1>12 DEF PinActive, Now, Advance, AdvanceWith
  <2>2. Frame("pin")
    BY <1>12 DEF PinActive, Frame, NodeChanges, SubChanges, PinChanges, lists, bounds
  <2>3. NodesEffect("pin", sub)
    BY <1>1, <2>2, NodesStay DEF Frame, NodeChanges
  <2>4. SubsEffect("pin", sub)
    BY <1>1, <2>2, SubsStay DEF Frame, SubChanges
  <2>5. ShownEffect("pin", old, old)
    BY <1>1, <1>12 DEF ShownEffect, PinActive, Pinned
  <2> QED
    BY <1>4, <2>1, <2>2, <2>3, <2>4, <2>5
<1>13. CASE SortNodes(j)
  <2>1. x = "sort" /\ GoOn(j, Tail(todo), old)
    BY <1>13 DEF SortNodes, Now, Advance, AdvanceWith
  <2>2. Frame("sort")
    BY <1>13 DEF SortNodes, Frame, NodeChanges, SubChanges, PinChanges, lists, bounds
  <2>3. NodesEffect("sort", sub)
    BY <1>1, <1>13, OrderDoes
  <2>4. SubsEffect("sort", sub)
    BY <1>1, <2>2, SubsStay DEF Frame, SubChanges
  <2>5. ShownEffect("sort", old, old)
    BY <1>1, <1>13 DEF ShownEffect, SortNodes
  <2> QED
    BY <1>4, <2>1, <2>2, <2>3, <2>4, <2>5
<1>14. CASE SortSubs(j)
  <2>1. x = "sortSubs" /\ GoOn(j, Tail(todo), subs')
    BY <1>14 DEF SortSubs, Now, Advance, AdvanceWith
  <2>2. Frame("sortSubs")
    BY <1>14 DEF SortSubs, Frame, NodeChanges, SubChanges, PinChanges, lists, bounds
  <2>3. NodesEffect("sortSubs", sub)
    BY <1>1, <2>2, NodesStay DEF Frame, NodeChanges
  <2>4. SubsEffect("sortSubs", sub)
    BY <1>1, <1>2, <1>14, OrderDoes
  <2>5. ShownEffect("sortSubs", old, subs')
    <3>1. subs' \in Seq(SubIds)
      BY <2>4 DEF SubsEffect
    <3> QED
      BY <3>1, ToSetFacts DEF ShownEffect, IsSeq
  <2>6. PICK a : a = subs'
    OBVIOUS
  <2> QED
    BY <1>4, <2>1, <2>2, <2>3, <2>4, <2>5, <2>6
<1>15. CASE Reflow(j)
  <2>1. x = "reflow" /\ GoOn(j, Tail(todo), old)
    BY <1>15 DEF Reflow, Now, Advance, AdvanceWith
  <2>2. Frame("reflow")
    BY <1>15 DEF Reflow, Frame, NodeChanges, SubChanges, PinChanges, lists, bounds
  <2>3. NodesEffect("reflow", sub)
    BY <1>1, <1>15, OrderDoes
  <2>4. SubsEffect("reflow", sub)
    BY <1>1, <2>2, SubsStay DEF Frame, SubChanges
  <2>5. ShownEffect("reflow", old, old)
    BY <1>1, <1>15 DEF ShownEffect, Reflow
  <2> QED
    BY <1>4, <2>1, <2>2, <2>3, <2>4, <2>5
<1>16. CASE ResolveShown(j)
  <2>1. x = "resolve" /\ GoOn(j, Tail(todo), <<Resolve>>)
    BY <1>16 DEF ResolveShown, Now, Advance, AdvanceWith
  <2>2. Frame("resolve")
    BY <1>16 DEF ResolveShown, Frame, NodeChanges, SubChanges, PinChanges, lists, bounds
  <2>3. NodesEffect("resolve", sub)
    BY <1>1, <2>2, NodesStay DEF Frame, NodeChanges
  <2>4. SubsEffect("resolve", sub)
    BY <1>1, <2>2, SubsStay DEF Frame, SubChanges
  <2>5. ShownEffect("resolve", old, <<Resolve>>)
    <3>1. <<Resolve>> \in Seq({Resolve}) /\ <<Resolve>>[1] = Resolve
      OBVIOUS
    <3> QED
      BY <3>1, ToSetFacts DEF ShownEffect, IsSeq
  <2> QED
    BY <1>4, <2>1, <2>2, <2>3, <2>4, <2>5
<1>17. CASE Show(j)
  <2>1. x = "show" /\ GoOn(j, Tail(todo), old)
    BY <1>17 DEF Show, Now, Advance, AdvanceWith
  <2>2. Frame("show")
    BY <1>17 DEF Show, Frame, NodeChanges, SubChanges, PinChanges, lists, bounds
  <2>3. NodesEffect("show", sub)
    BY <1>1, <2>2, NodesStay DEF Frame, NodeChanges
  <2>4. SubsEffect("show", sub)
    BY <1>1, <2>2, SubsStay DEF Frame, SubChanges
  <2>5. ShownEffect("show", old, old)
    BY <1>1, <1>17 DEF ShownEffect, Show
  <2> QED
    BY <1>4, <2>1, <2>2, <2>3, <2>4, <2>5
<1>18. CASE SaveNodes(j)
  <2>1. x = "saveNodes" /\ GoOn(j, Tail(todo), old)
    BY <1>18 DEF SaveNodes, Now, Advance, AdvanceWith
  <2>2. Frame("saveNodes")
    BY <1>18 DEF SaveNodes, Frame, NodeChanges, SubChanges, PinChanges, lists, bounds, DiskInv
  <2>3. NodesEffect("saveNodes", sub)
    BY <1>1, <2>2, NodesStay DEF Frame, NodeChanges
  <2>4. SubsEffect("saveNodes", sub)
    BY <1>1, <2>2, SubsStay DEF Frame, SubChanges
  <2>5. ShownEffect("saveNodes", old, old)
    BY <1>1, <1>18 DEF ShownEffect, SaveNodes
  <2> QED
    BY <1>4, <2>1, <2>2, <2>3, <2>4, <2>5
<1>19. CASE SaveSubs(j)
  <2>1. x = "saveSubs" /\ GoOn(j, Tail(todo), old)
    BY <1>19 DEF SaveSubs, Now, Advance, AdvanceWith
  <2>2. Frame("saveSubs")
    BY <1>19 DEF SaveSubs, Frame, NodeChanges, SubChanges, PinChanges, lists, bounds, DiskInv
  <2>3. NodesEffect("saveSubs", sub)
    BY <1>1, <2>2, NodesStay DEF Frame, NodeChanges
  <2>4. SubsEffect("saveSubs", sub)
    BY <1>1, <2>2, SubsStay DEF Frame, SubChanges
  <2>5. ShownEffect("saveSubs", old, old)
    BY <1>1, <1>19 DEF ShownEffect, SaveSubs
  <2> QED
    BY <1>4, <2>1, <2>2, <2>3, <2>4, <2>5
<1>20. CASE SaveUi(j)
  <2>1. x = "saveUi" /\ GoOn(j, Tail(todo), old)
    BY <1>20 DEF SaveUi, Now, Advance, AdvanceWith
  <2>2. Frame("saveUi")
    BY <1>20 DEF SaveUi, Frame, NodeChanges, SubChanges, PinChanges, lists, bounds, DiskInv
  <2>3. NodesEffect("saveUi", sub)
    BY <1>1, <2>2, NodesStay DEF Frame, NodeChanges
  <2>4. SubsEffect("saveUi", sub)
    BY <1>1, <2>2, SubsStay DEF Frame, SubChanges
  <2>5. ShownEffect("saveUi", old, old)
    BY <1>1, <1>20 DEF ShownEffect, SaveUi
  <2> QED
    BY <1>4, <2>1, <2>2, <2>3, <2>4, <2>5
<1>21. CASE LookFree(j)
  <2>0. x = "lookFree" /\ UNCHANGED <<nodes, subs, active, shown, disk, hitch>>
    BY <1>21 DEF LookFree, Now, lists, bounds
  <2>1. CASE Pools = {} /\ Advance(j)
    <3>1. Frame(x)
      BY <2>0 DEF Frame
    <3>2. NodesEffect(x, sub) /\ SubsEffect(x, sub) /\ ShownEffect(x, old, old)
      BY <1>1, <2>0, <2>1 DEF NodesEffect, SubsEffect, ShownEffect
    <3> QED
      BY <1>4, <2>0, <2>1, <3>1, <3>2 DEF Advance, AdvanceWith
  <2>2. ASSUME NEW s \in Pools, Goto(j, [todo |-> RefreshSections, sub |-> s, arg |-> << >>])
        PROVE  \E job : Goto(j, job) /\ (Forward(j, job) \/ Detour(j, job))
    <3>1. Detour(j, [todo |-> RefreshSections, sub |-> s, arg |-> << >>])
      BY <2>0, <2>2 DEF Detour, Aborting, lists
    <3> QED
      BY <2>2, <3>1
  <2> QED
    BY <1>21, <2>1, <2>2 DEF LookFree
<1>22. CASE LookUp(j)
  <2>0. x = "lookUp" /\ UNCHANGED <<nodes, subs, active, shown, disk, hitch>>
    BY <1>22 DEF LookUp, Now, lists, bounds
  <2>1. CASE sub \in ToSet(subs) /\ Advance(j)
    <3>1. Frame(x)
      BY <2>0 DEF Frame
    <3>2. NodesEffect(x, sub) /\ SubsEffect(x, sub) /\ ShownEffect(x, old, old)
      BY <1>1, <2>0, <2>1 DEF NodesEffect, SubsEffect, ShownEffect
    <3> QED
      BY <1>4, <2>0, <2>1, <3>1, <3>2 DEF Advance, AdvanceWith
  <2>2. CASE GoOn(j, Tail(Failing(j)), << >>)
    <3>1. PICK job : job = Next(Tail(Failing(j)), << >>)
      OBVIOUS
    <3>2. Goto(j, job) /\ job.todo = Tail(Failing(j)) /\ job.sub = sub /\ job.arg = << >>
      BY <2>2, <3>1 DEF GoOn
    <3>3. Detour(j, job)
      BY <2>0, <3>2 DEF Detour, Aborting, lists
    <3> QED
      BY <3>2, <3>3
  <2> QED
    BY <1>22, <2>1, <2>2 DEF LookUp
<1>23. CASE Fetch(j)
  <2>0. x = "fetch" /\ UNCHANGED <<nodes, subs, active, shown, disk, hitch>>
    BY <1>23 DEF Fetch, Now, lists, bounds
  <2>1. ASSUME NEW served \in BoundedSeq(Prints, MaxServed), GoOn(j, MergeSections, served)
        PROVE  \E job : Goto(j, job) /\ (Forward(j, job) \/ Detour(j, job))
    <3>1. PICK job : job = Next(MergeSections, served)
      OBVIOUS
    <3>2. Goto(j, job) /\ job.todo = MergeSections /\ job.sub = sub /\ job.arg = served
      BY <2>1, <3>1 DEF GoOn
    <3>3. served \in Seq(Prints)
      BY BoundedIsSeq, ListsAssumption
    <3>4. Detour(j, job)
      BY <2>0, <3>2, <3>3 DEF Detour, Aborting, lists
    <3> QED
      BY <3>2, <3>4
  <2>2. CASE GoOn(j, Failing(j), << >>)
    <3>1. PICK job : job = Next(Failing(j), << >>)
      OBVIOUS
    <3>2. Goto(j, job) /\ job.todo = Failing(j) /\ job.sub = sub /\ job.arg = << >>
      BY <2>2, <3>1 DEF GoOn
    <3>3. Detour(j, job)
      BY <2>0, <3>2 DEF Detour, Aborting, lists
    <3> QED
      BY <3>2, <3>3
  <2> QED
    BY <1>23, <2>1, <2>2 DEF Fetch
<1>24. CASE Replace(j)
  <2>0. x = "replace" /\ UNCHANGED <<subs, active, shown, disk, hitch>>
    BY <1>24 DEF Replace, Now, bounds
  <2>1. CASE Advance(j)
    <3>1. Frame(x)
      BY <2>0 DEF Frame, NodeChanges
    <3>2. NodesEffect(x, sub) /\ SubsEffect(x, sub)
      BY <1>1, <1>24, <2>0, ReplaceDoes, SubsStay
    <3>3. ShownEffect(x, old, old)
      BY <1>1, <2>0 DEF ShownEffect
    <3> QED
      BY <1>4, <2>0, <2>1, <3>1, <3>2, <3>3 DEF Advance, AdvanceWith
  <2>2. CASE UNCHANGED nodes /\ Goto(j, NoJob)
    <3>1. Detour(j, NoJob)
      BY <2>0, <2>2 DEF Detour, Aborting, lists
    <3> QED
      BY <2>2, <3>1
  <2> QED
    BY <1>24, <2>1, <2>2 DEF Replace
<1>25. CASE Pick(j)
  <2>0. x = "pick" /\ UNCHANGED <<nodes, subs, shown, disk, hitch>>
    BY <1>25 DEF Pick, Now, bounds
  <2>1. CASE old[1] \in IdsOf(nodes) /\ active' = old[1] /\ Advance(j)
    <3>1. Frame(x)
      BY <2>0 DEF Frame, PinChanges
    <3>2. NodesEffect(x, sub) /\ SubsEffect(x, sub)
      BY <1>1, <2>0, NodesStay, SubsStay
    <3>3. Resolve' = old[1]
      BY <2>0, <2>1 DEF Resolve
    <3>4. ShownEffect(x, old, old)
      BY <1>1, <2>0, <3>3 DEF ShownEffect
    <3> QED
      BY <1>4, <2>0, <2>1, <3>1, <3>2, <3>4 DEF Advance, AdvanceWith
  <2>2. CASE UNCHANGED active /\ Goto(j, NoJob)
    <3>1. Detour(j, NoJob)
      BY <2>0, <2>2 DEF Detour, Aborting, lists
    <3> QED
      BY <2>2, <3>1
  <2> QED
    BY <1>25, <2>1, <2>2 DEF Pick
<1> QED
  BY <1>5, <1>6, <1>7, <1>8, <1>9, <1>10, <1>11, <1>12, <1>13, <1>14, <1>15,
     <1>16, <1>17, <1>18, <1>19, <1>20, <1>21, <1>22, <1>23, <1>24, <1>25 DEF Section

LEMMA Lands ==
  ASSUME DiskInv, NEW j \in Jobs, NEW job, Goto(j, job)
  PROVE  /\ jobs'[j] = (IF job.todo = << >> THEN NoJob ELSE job)
         /\ \A i \in Jobs : i # j => jobs'[i] = jobs[i]
  BY DEF DiskInv, Goto

LEMMA NothingHas == \A x : ~Has(<< >>, x) /\ ~Owes(<< >>, x)
  BY DEF Has, Owes

(* The section at the head of a job, and what is behind it.                *)
Ahead(j, x, rest) ==
  /\ jobs[j].todo \in Seq(Steps) /\ jobs[j].todo # << >> /\ Orderly(jobs[j].todo)
  /\ x = Head(jobs[j].todo) /\ rest = Tail(jobs[j].todo) /\ rest \in Seq(Steps)
  /\ \A y : Has(jobs[j].todo, y) <=> y = x \/ Has(rest, y)
  /\ \A y : Has(rest, y) => ~Wrong(x, y)
  /\ \A y : Owes(jobs[j].todo, y) /\ y # x => Owes(rest, y) /\ x \notin Aborting
  /\ x \in NodeChanges \cup PinChanges => Owes(rest, "show")
  /\ x \in NodeChanges \cup {"pin", "sortSubs"} => Has(rest, "resolve")
  /\ x = "dropSub" => Owes(rest, "dropNodes")
  /\ x = "pin" => Has(rest, "saveUi")
  /\ Has(jobs[j].todo, "giveBack") => x \notin NodeChanges

LEMMA LookAhead ==
  ASSUME DiskInv, ShapeInv, NEW j \in Jobs, jobs[j].todo # << >>
  PROVE  \E x, rest : Ahead(j, x, rest)
<1> DEFINE todo == jobs[j].todo
<1>1. /\ todo \in Seq(Steps) /\ Orderly(todo) /\ Covered(todo, PinChanges, "saveUi")
      /\ todo # << >>
  BY DEF DiskInv, IsJob, Careful, ShapeInv, Proper
<1> HIDE DEF todo
<1>2. Tail(todo) \in Seq(Steps)
  BY <1>1, TailFacts
<1>3. \A y : Owes(todo, y) /\ y # Head(todo) => Owes(Tail(todo), y) /\ Head(todo) \notin Aborting
  BY <1>1, OwesLater
<1>4. Head(todo) = "pin" => Has(Tail(todo), "saveUi")
  <2>1. Head(todo) = "pin" => Owes(Tail(todo), "saveUi")
    BY <1>1, CoveredLater DEF PinChanges
  <2> QED
    BY <2>1, OwesHas
<1>5. \A y : Has(todo, y) <=> y = Head(todo) \/ Has(Tail(todo), y)
  BY <1>1, HasLater
<1>6. Ahead(j, Head(todo), Tail(todo))
  BY <1>1, <1>2, <1>3, <1>4, <1>5, Behind DEF Ahead, todo
<1> QED
  BY <1>6

LEMMA ForwardProper ==
  ASSUME NEW j, NEW x, NEW rest, Ahead(j, x, rest), Proper(jobs[j]), NEW job, Forward(j, job)
  PROVE  Proper(job)
<1>1. /\ x # "fetch" /\ job.todo = rest /\ job.sub = jobs[j].sub /\ IsSeq(job.arg)
  BY DEF Forward, Ahead, ShownEffect
<1>2. Orderly(rest)
  <2>1. PICK todo \in Seq(Steps) : todo = jobs[j].todo /\ todo # << >>
    BY DEF Ahead
  <2>2. Orderly(Tail(todo))
    BY <1>1, <2>1, OrderlyLater DEF Ahead
  <2> QED
    BY <2>1, <2>2 DEF Ahead
<1>3. Has(rest, "pushSub") => Has(jobs[j].todo, "pushSub")
  BY DEF Ahead
<1> QED
  BY <1>1, <1>2, <1>3 DEF Proper

LEMMA ForwardShowing ==
  ASSUME NEW j, NEW x, NEW rest, Ahead(j, x, rest), NEW job, Forward(j, job),
         Showing(jobs[j].todo, jobs[j].arg)
  PROVE  Showing(job.todo, job.arg)'
<1>1. /\ job.todo = rest /\ Frame(x) /\ ShownEffect(x, jobs[j].arg, job.arg)
  BY DEF Forward, Ahead
<1>2. x \notin NodeChanges \cup PinChanges => Resolve' = Resolve
  BY <1>1 DEF Frame, Resolve, IdsOf
<1>3. x = "show" => ~Has(rest, "resolve") /\ ~Has(rest, "pick")
  BY DEF Ahead, Wrong
<1>4. shown' = Resolve' \/ Owes(rest, "show")
  <2>1. CASE x \in NodeChanges \cup PinChanges
    BY <2>1 DEF Ahead
  <2>2. CASE x = "show"
    <3>1. /\ Has(jobs[j].todo, "show") /\ ~Has(jobs[j].todo, "resolve")
          /\ ~Has(jobs[j].todo, "pick")
      BY <1>3, <2>2 DEF Ahead
    <3>2. jobs[j].arg[1] = Resolve
      BY <3>1 DEF Showing
    <3>3. x \notin NodeChanges \cup PinChanges
      BY <2>2 DEF NodeChanges, PinChanges
    <3> QED
      BY <1>1, <1>2, <2>2, <3>2, <3>3 DEF ShownEffect
  <2>3. CASE x \notin NodeChanges \cup PinChanges /\ x # "show"
    <3>1. shown' = shown /\ Resolve' = Resolve
      BY <1>1, <1>2, <2>3 DEF Frame
    <3>2. Owes(jobs[j].todo, "show") => Owes(rest, "show")
      BY <2>3 DEF Ahead
    <3> QED
      BY <3>1, <3>2 DEF Showing
  <2> QED
    BY <2>1, <2>2, <2>3
<1>5. ASSUME Has(rest, "show"), ~Has(rest, "resolve"), ~Has(rest, "pick")
      PROVE  job.arg[1] = Resolve'
  <2>1. x \notin NodeChanges \cup {"pin", "sortSubs"}
    BY <1>5 DEF Ahead
  <2>2. CASE x = "resolve"
    <3>1. job.arg[1] = Resolve
      BY <1>1, <2>2 DEF ShownEffect
    <3>2. Resolve' = Resolve
      BY <1>2, <2>2 DEF NodeChanges, PinChanges
    <3> QED
      BY <3>1, <3>2
  <2>3. CASE x = "pick"
    BY <1>1, <2>3 DEF ShownEffect
  <2>4. CASE x # "resolve" /\ x # "pick"
    <3>1. Has(jobs[j].todo, "show") /\ ~Has(jobs[j].todo, "resolve") /\ ~Has(jobs[j].todo, "pick")
      BY <1>5, <2>4 DEF Ahead
    <3>2. jobs[j].arg[1] = Resolve
      BY <3>1 DEF Showing
    <3>3. job.arg = jobs[j].arg
      BY <1>1, <2>1, <2>4 DEF ShownEffect
    <3>4. Resolve' = Resolve
      BY <1>2, <2>1, <2>4 DEF PinChanges
    <3> QED
      BY <3>2, <3>3, <3>4
  <2> QED
    BY <2>2, <2>3, <2>4
<1> QED
  BY <1>1, <1>4, <1>5 DEF Showing, Owes, Has

LEMMA ForwardKept ==
  ASSUME NEW j, NEW x, NEW rest, Ahead(j, x, rest), NEW job, Forward(j, job),
         Kept(jobs[j].todo, jobs[j].sub)
  PROVE  Kept(job.todo, job.sub)'
<1> DEFINE sub == jobs[j].sub
<1>1. /\ job.todo = rest /\ job.sub = sub /\ Frame(x) /\ NodesEffect(x, sub) /\ SubsEffect(x, sub)
  BY DEF Forward, Ahead
<1>2. ASSUME NEW n \in ToSet(nodes'), n.sub \notin ToSet(subs') \cup {Own}
      PROVE  n.sub = sub /\ Owes(rest, "dropNodes")
  <2>1. x # "push" /\ x # "merge" =>
          \E m \in ToSet(nodes) : n.sub = m.sub
    BY <1>1 DEF NodesEffect
  <2>2. CASE \E m \in ToSet(nodes) : n.sub = m.sub
    <3>1. PICK m \in ToSet(nodes) : n.sub = m.sub
      BY <2>2
    <3>2. CASE m.sub \notin ToSet(subs)
      <4>1. m.sub = sub /\ Owes(jobs[j].todo, "dropNodes")
        BY <1>2, <3>1, <3>2 DEF Kept
      <4>2. x # "dropNodes"
        BY <1>1, <1>2, <3>1, <4>1 DEF NodesEffect
      <4> QED
        BY <3>1, <4>1, <4>2 DEF Ahead
    <3>3. CASE m.sub \in ToSet(subs)
      <4>1. x \in {"giveBack", "dropSub"} /\ m.sub = sub
        BY <1>1, <1>2, <3>1, <3>3 DEF SubsEffect
      <4>2. CASE x = "giveBack"
        <5>1. Has(jobs[j].todo, "giveBack")
          BY <4>2 DEF Ahead
        <5> QED
          BY <4>1, <5>1 DEF Kept
      <4>3. CASE x = "dropSub"
        BY <3>1, <4>1, <4>3 DEF Ahead
      <4> QED
        BY <4>1, <4>2, <4>3
    <3> QED
      BY <3>2, <3>3
  <2>3. CASE n \in ToSet(nodes)
    BY <2>2, <2>3
  <2>4. CASE x = "push" /\ n \notin ToSet(nodes)
    BY <1>1, <1>2, <2>4 DEF NodesEffect
  <2>5. CASE x = "merge" /\ n \notin ToSet(nodes)
    <3>1. n.sub = sub /\ ToSet(subs') = ToSet(subs)
      BY <1>1, <2>5 DEF NodesEffect, SubsEffect
    <3>2. Has(jobs[j].todo, "merge") /\ ~Has(jobs[j].todo, "lookUp")
      BY <2>5 DEF Ahead, Wrong
    <3> QED
      BY <1>2, <3>1, <3>2 DEF Kept
  <2> QED
    BY <2>1, <2>2, <2>3, <2>4, <2>5
<1>3. ASSUME ~Has(rest, "lookUp"), Has(rest, "fetch") \/ Has(rest, "merge")
      PROVE  sub \in ToSet(subs')
  <2>1. x \notin {"dropSub", "giveBack"}
    BY <1>3 DEF Ahead, Wrong
  <2>2. CASE x = "lookUp"
    BY <1>1, <2>1, <2>2 DEF SubsEffect
  <2>3. CASE x # "lookUp"
    <3>1. sub \in ToSet(subs)
      BY <1>3, <2>3 DEF Ahead, Kept
    <3> QED
      BY <1>1, <2>1, <3>1 DEF SubsEffect
  <2> QED
    BY <2>2, <2>3
<1>4. ASSUME Has(rest, "giveBack") PROVE \A n \in ToSet(nodes') : n.sub # sub
  <2>1. Has(jobs[j].todo, "giveBack") /\ nodes' = nodes
    BY <1>1, <1>4 DEF Ahead, Frame
  <2> QED
    BY <2>1 DEF Kept
<1> QED
  BY <1>1, <1>2, <1>3, <1>4 DEF Kept, Owes, Has, ToSet

LEMMA ForwardPool ==
  ASSUME NEW j, NEW x, NEW rest, Ahead(j, x, rest), NEW job, Forward(j, job),
         OnePool(jobs[j].todo, jobs[j].sub)
  PROVE  OnePool(job.todo, job.sub)'
<1> DEFINE sub == jobs[j].sub
<1>1. job.todo = rest /\ job.sub = sub /\ SubsEffect(x, sub)
  BY DEF Forward, Ahead
<1>2. Pools' = ToSet(subs') \cap FreeIds /\ Pools = ToSet(subs) \cap FreeIds
  BY DEF Pools, ToSet
<1>3. x # "pushSub" => Pools' \subseteq Pools
  BY <1>1, <1>2 DEF SubsEffect
<1>4. \A p, q \in Pools' : p = q
  <2>1. CASE x = "pushSub" /\ sub \in FreeIds
    <3>1. Has(jobs[j].todo, "pushSub") /\ ~Has(jobs[j].todo, "lookFree")
      BY <2>1 DEF Ahead, Wrong
    <3>2. Pools = {}
      BY <2>1, <3>1 DEF OnePool
    <3> QED
      BY <1>1, <1>2, <2>1, <3>2 DEF SubsEffect
  <2>2. CASE x = "pushSub" /\ sub \notin FreeIds
    <3>1. Pools' = Pools
      BY <1>1, <1>2, <2>2 DEF SubsEffect
    <3> QED
      BY <3>1 DEF OnePool
  <2>3. CASE x # "pushSub"
    BY <1>3, <2>3 DEF OnePool
  <2> QED
    BY <2>1, <2>2, <2>3
<1>5. ASSUME Has(rest, "pushSub"), ~Has(rest, "lookFree"), sub \in FreeIds PROVE Pools' = {}
  <2>1. x # "pushSub" /\ Has(jobs[j].todo, "pushSub")
    BY <1>5 DEF Ahead, Wrong
  <2>2. CASE x = "lookFree"
    BY <1>1, <1>2, <2>2 DEF SubsEffect
  <2>3. CASE x # "lookFree"
    <3>1. Pools = {}
      BY <1>5, <2>1, <2>3 DEF Ahead, OnePool
    <3> QED
      BY <1>3, <2>1, <3>1
  <2> QED
    BY <2>2, <2>3
<1> QED
  BY <1>1, <1>4, <1>5 DEF OnePool, Has

LEMMA ForwardOrdering ==
  ASSUME NEW j, NEW x, NEW rest, Ahead(j, x, rest), NEW job, Forward(j, job),
         IsNodes(nodes), Ordering(jobs[j].todo)
  PROVE  Ordering(job.todo)'
<1>1. job.todo = rest /\ Frame(x) /\ ShownEffect(x, jobs[j].arg, job.arg)
  BY DEF Forward, Ahead
<1>2. ASSUME Has(rest, "sort") \/ Has(rest, "reflow")
      PROVE  /\ disk'.servers = nodes'
             /\ ~Has(rest, "pin") => active' \in IdsOf(nodes') \/ nodes' = << >>
             /\ ~Has(rest, "pin") /\ ~Has(rest, "saveUi") => disk'.ui = active'
  <2>1. x \notin NodeChanges \cup {"pick"}
    BY <1>2 DEF Ahead, Wrong
  <2>2. nodes' = nodes /\ disk.servers = nodes
    BY <1>1, <1>2, <2>1 DEF Ahead, Frame, Ordering
  <2>3. CASE x = "pin"
    <3>1. active' = Resolve /\ Has(rest, "saveUi")
      BY <1>1, <2>3 DEF Ahead, ShownEffect
    <3>2. Resolve \in IdsOf(nodes) \/ nodes = << >>
      <4>1. nodes # << >> => 1 \in DOMAIN nodes /\ Head(nodes) = nodes[1]
        BY DEF IsNodes, IsSeq
      <4>2. nodes # << >> => Head(nodes).id \in IdsOf(nodes)
        BY <4>1 DEF IdsOf
      <4> QED
        BY <4>2 DEF Resolve
    <3> QED
      BY <1>1, <2>2, <2>3, <3>1, <3>2 DEF Frame
  <2>4. CASE x # "pin"
    <3>1. active' = active
      BY <1>1, <2>1, <2>4 DEF Frame, PinChanges
    <3>2. ~Has(rest, "pin") => active \in IdsOf(nodes) \/ nodes = << >>
      BY <1>2, <2>4 DEF Ahead, Ordering
    <3>3. ~Has(rest, "pin") /\ ~Has(rest, "saveUi") => x = "saveUi" \/ disk.ui = active
      BY <1>2, <2>4 DEF Ahead, Ordering
    <3> QED
      BY <1>1, <2>2, <3>1, <3>2, <3>3 DEF Frame
  <2> QED
    BY <2>3, <2>4
<1> QED
  BY <1>1, <1>2 DEF Ordering, Has, IdsOf

-----------------------------------------------------------------------------
(* Where a detour leads to.                                                *)
LEMMA DetourPlan ==
  ASSUME NEW j, NEW x, NEW rest, Ahead(j, x, rest), NEW job, Detour(j, job)
  PROVE  \E names :
           /\ Plan(job.todo, names) /\ IsSeq(job.arg)
           /\ names \cap {"pushSub", "pick", "sort", "reflow"} = {}
           /\ "show" \in names => "resolve" \in names
           /\ names \cap {"fetch", "merge"} # {} /\ "lookUp" \notin names
                => x = "fetch" /\ job.sub = jobs[j].sub
           /\ "giveBack" \in names => Has(jobs[j].todo, "giveBack") /\ job.sub = jobs[j].sub
<1>1. IsSeq(<< >>)
  <2>1. << >> \in Seq({})
    OBVIOUS
  <2> QED
    BY <2>1, ToSetFacts DEF IsSeq
<1>2. CASE job = NoJob
  <2>1. job.todo = << >> /\ job.arg = << >>
    BY <1>2 DEF NoJob
  <2>2. Plan(<< >>, {})
    BY Plans
  <2> QED
    BY <1>1, <2>1, <2>2
<1>3. CASE job.todo = RefreshSections /\ job.arg = << >>
  <2>1. Plan(job.todo, {"lookUp", "fetch", "merge", "saveNodes", "saveSubs", "resolve", "show"})
    BY <1>3, Plans
  <2> QED
    BY <1>1, <1>3, <2>1
<1>4. CASE /\ x = "fetch" /\ job.todo = MergeSections /\ job.sub = jobs[j].sub
           /\ job.arg \in Seq(Prints)
  <2>1. Plan(job.todo, {"merge", "saveNodes", "saveSubs", "resolve", "show"})
    BY <1>4, Plans
  <2>2. IsSeq(job.arg)
    BY <1>4, ToSetFacts DEF IsSeq
  <2> QED
    BY <1>4, <2>1, <2>2
<1>5. CASE job.todo \in {Failing(j), Tail(Failing(j))} /\ job.sub = jobs[j].sub /\ job.arg = << >>
  <2>1. "giveBack" \in ToSet(jobs[j].todo) <=> Has(jobs[j].todo, "giveBack")
    BY HasIsIn DEF Ahead
  <2>2. PICK names : /\ Plan(job.todo, names) /\ names \subseteq {"saveSubs", "giveBack"}
                     /\ "giveBack" \in names => "giveBack" \in ToSet(jobs[j].todo)
    BY <1>5, FailingPlans
  <2> QED
    BY <1>1, <1>5, <2>1, <2>2
<1> QED
  BY <1>2, <1>3, <1>4, <1>5 DEF Detour, Ahead

LEMMA PlanHas ==
  ASSUME NEW todo, NEW names, Plan(todo, names)
  PROVE  \A y : Has(todo, y) <=> y \in names
  BY HasIsIn DEF Plan

LEMMA DetourFacts ==
  ASSUME ShapeInv, NEW j \in Jobs, NEW x, NEW rest, Ahead(j, x, rest), NEW job, Detour(j, job)
  PROVE  /\ Proper(job)
         /\ Showing(jobs[j].todo, jobs[j].arg) => Showing(job.todo, job.arg)'
         /\ Kept(jobs[j].todo, jobs[j].sub) => Kept(job.todo, job.sub)'
         /\ OnePool(jobs[j].todo, jobs[j].sub) => OnePool(job.todo, job.sub)'
         /\ Ordering(job.todo)'
<1>1. PICK names :
        /\ Plan(job.todo, names) /\ IsSeq(job.arg)
        /\ names \cap {"pushSub", "pick", "sort", "reflow"} = {}
        /\ "show" \in names => "resolve" \in names
        /\ names \cap {"fetch", "merge"} # {} /\ "lookUp" \notin names
             => x = "fetch" /\ job.sub = jobs[j].sub
        /\ "giveBack" \in names => Has(jobs[j].todo, "giveBack") /\ job.sub = jobs[j].sub
  BY DetourPlan
<1>2. \A y : Has(job.todo, y) <=> y \in names
  BY <1>1, PlanHas
<1>3. /\ x \in Aborting /\ nodes' = nodes /\ subs' = subs /\ active' = active /\ shown' = shown
      /\ Resolve' = Resolve /\ Pools' = Pools
  <2>1. x \in Aborting /\ nodes' = nodes /\ subs' = subs /\ active' = active /\ shown' = shown
    BY DEF Detour, Ahead, lists
  <2> QED
    BY <2>1 DEF Resolve, IdsOf, Pools, ToSet
<1>4. ~Owes(jobs[j].todo, "show") /\ ~Owes(jobs[j].todo, "dropNodes")
  BY <1>3 DEF Ahead, Aborting
<1>5. Proper(job)
  <2>1. job.sub \in SubIds \cup {Own}
    <3>1. job = NoJob => job.sub = Own
      BY DEF NoJob
    <3>2. Pools \subseteq SubIds
      BY ToSetFacts DEF ShapeInv, Pools
    <3> QED
      BY <3>1, <3>2 DEF Detour, ShapeInv, Proper
  <2> QED
    BY <1>1, <1>2, <2>1 DEF Proper, Plan
<1>6. ASSUME Showing(jobs[j].todo, jobs[j].arg) PROVE Showing(job.todo, job.arg)'
  BY <1>1, <1>2, <1>3, <1>4, <1>6 DEF Showing, Has
<1>7. ASSUME Kept(jobs[j].todo, jobs[j].sub) PROVE Kept(job.todo, job.sub)'
  <2>1. \A n \in ToSet(nodes) : n.sub \in ToSet(subs) \cup {Own}
    BY <1>4, <1>7 DEF Kept
  <2>2. ASSUME ~Has(job.todo, "lookUp"), Has(job.todo, "fetch") \/ Has(job.todo, "merge")
        PROVE  job.sub \in ToSet(subs)
    <3>1. x = "fetch" /\ job.sub = jobs[j].sub
      BY <1>1, <1>2, <2>2
    <3>2. Has(jobs[j].todo, "fetch") /\ ~Has(jobs[j].todo, "lookUp")
      BY <3>1 DEF Ahead, Wrong
    <3> QED
      BY <1>7, <3>1, <3>2 DEF Kept
  <2>3. ASSUME Has(job.todo, "giveBack") PROVE \A n \in ToSet(nodes) : n.sub # job.sub
    BY <1>1, <1>2, <1>7, <2>3 DEF Kept
  <2> QED
    BY <1>3, <2>1, <2>2, <2>3 DEF Kept, Has, ToSet
<1>8. ASSUME OnePool(jobs[j].todo, jobs[j].sub) PROVE OnePool(job.todo, job.sub)'
  BY <1>1, <1>2, <1>3, <1>8 DEF OnePool, Has
<1>9. Ordering(job.todo)'
  BY <1>1, <1>2 DEF Ordering, Has
<1> QED
  BY <1>5, <1>6, <1>7, <1>8, <1>9

(* One section of a job.                                                   *)
LEMMA SectionHead ==
  ASSUME NEW j, Section(j)
  PROVE  jobs[j].todo # << >>
  BY DEF Section, Now, PushNodes, LookFree, PushSub, LookUp, Fetch, GiveBack, Merge, DropSub,
         DropNodes, DropNode, Replace, PinActive, SortNodes, SortSubs, Reflow, Pick,
         ResolveShown, Show, SaveNodes, SaveSubs, SaveUi

LEMMA AtRestAll ==
  /\ Proper(NoJob)
  /\ \A job : job.todo = << >> =>
       /\ Showing(job.todo, job.arg)' => Showing(NoJob.todo, NoJob.arg)'
       /\ Kept(job.todo, job.sub)' => Kept(NoJob.todo, NoJob.sub)'
       /\ OnePool(job.todo, job.sub)' => OnePool(NoJob.todo, NoJob.sub)'
       /\ Ordering(job.todo)' => Ordering(NoJob.todo)'
<1>1. NoJob.todo = << >> /\ NoJob.arg = << >> /\ NoJob.sub = Own
  BY DEF NoJob
<1>2. Proper(NoJob)
  <2>1. Orderly(<< >>)
    BY Plans DEF Plan
  <2>2. IsSeq(<< >>)
    <3>1. << >> \in Seq({})
      OBVIOUS
    <3> QED
      BY <3>1, ToSetFacts DEF IsSeq
  <2> QED
    BY <1>1, <2>1, <2>2, NothingHas DEF Proper
<1>3. ASSUME NEW job, job.todo = << >>
      PROVE  /\ Showing(job.todo, job.arg)' => Showing(NoJob.todo, NoJob.arg)'
             /\ Kept(job.todo, job.sub)' => Kept(NoJob.todo, NoJob.sub)'
             /\ OnePool(job.todo, job.sub)' => OnePool(NoJob.todo, NoJob.sub)'
             /\ Ordering(job.todo)' => Ordering(NoJob.todo)'
  BY <1>1, <1>3, NothingHas DEF Showing, Kept, OnePool, Ordering
<1> QED
  BY <1>2, <1>3

LEMMA SectionTidies ==
  ASSUME DiskInv, ShapeInv, NEW j \in Jobs, Section(j)
  PROVE  /\ \A i \in Jobs : i # j => jobs'[i] = jobs[i]
         /\ Proper(jobs'[j])
         /\ Tidy(j) => Tidy(j)'
         /\ Ordering(jobs[j].todo) => Ordering(jobs[j].todo)'
<1>1. PICK x, rest : Ahead(j, x, rest)
  BY SectionHead, LookAhead
<1>2. PICK job : Goto(j, job) /\ (Forward(j, job) \/ Detour(j, job))
  BY SectionWays
<1>3. /\ jobs'[j] = (IF job.todo = << >> THEN NoJob ELSE job)
      /\ \A i \in Jobs : i # j => jobs'[i] = jobs[i]
  BY <1>2, Lands
<1>4. Proper(job)
  BY <1>1, <1>2, ForwardProper, DetourFacts DEF ShapeInv
<1>5. Tidy(j) => /\ Showing(job.todo, job.arg)' /\ Kept(job.todo, job.sub)'
                 /\ OnePool(job.todo, job.sub)'
  BY <1>1, <1>2, ForwardShowing, ForwardKept, ForwardPool, DetourFacts DEF Tidy
<1>6. Ordering(jobs[j].todo) => Ordering(job.todo)'
  BY <1>1, <1>2, ForwardOrdering, DetourFacts DEF ShapeInv
<1>7. CASE job.todo = << >>
  <2>1. jobs'[j] = NoJob
    BY <1>3, <1>7
  <2> QED
    BY <1>3, <1>5, <1>6, <1>7, <2>1, AtRestAll DEF Tidy
<1>8. CASE job.todo # << >>
  <2>1. jobs'[j] = job
    BY <1>3, <1>8
  <2> QED
    BY <1>3, <1>4, <1>5, <1>6, <2>1 DEF Tidy
<1> QED
  BY <1>7, <1>8

-----------------------------------------------------------------------------
(* What a command begins with.                                             *)
Begins(todo, sub, arg, names) ==
  /\ Plan(todo, names) /\ IsSeq(arg) /\ sub \in SubIds \cup {Own}
  /\ "pushSub" \in names => sub \in SubIds /\ ("lookFree" \in names \/ sub \notin FreeIds)
  /\ "show" \in names => "resolve" \in names \/ "pick" \in names
  /\ "fetch" \in names \/ "merge" \in names => "lookUp" \in names
  /\ "giveBack" \in names => \A n \in ToSet(nodes) : n.sub # sub
  /\ "sort" \in names \/ "reflow" \in names => "pin" \in names

LEMMA ShortSeqs ==
  /\ IsSeq(<< >>) /\ (\A a : IsSeq(<<a>>)) /\ (\A a, b : IsSeq(<<a, b>>))
  /\ \A S : \A s \in Seq(S) : IsSeq(s)
<1>1. ASSUME NEW S, NEW s \in Seq(S) PROVE IsSeq(s)
  BY ToSetFacts DEF IsSeq
<1>2. ASSUME NEW a, NEW b PROVE IsSeq(<< >>) /\ IsSeq(<<a>>) /\ IsSeq(<<a, b>>)
  <2>1. << >> \in Seq({a, b}) /\ <<a>> \in Seq({a, b}) /\ <<a, b>> \in Seq({a, b})
    OBVIOUS
  <2> QED
    BY <1>1, <2>1
<1> QED
  BY <1>1, <1>2

LEMMA NewOrders ==
  ASSUME IsNodes(nodes), subs \in Seq(SubIds)
  PROVE  /\ IsSeq(Reverse(subs))
         /\ \A i, k \in DOMAIN nodes :
              LET seen == [n \in DOMAIN nodes |-> nodes[n].id]
              IN IsSeq(InsertAt(RemoveAt(seen, i), k, seen[i]))
<1>1. Reverse(subs) \in Seq(SubIds)
  BY DEF Reverse
<1> DEFINE seen == [n \in DOMAIN nodes |-> nodes[n].id]
           S == {nodes[n].id : n \in DOMAIN nodes}
<1>2. DOMAIN nodes = 1..Len(nodes) /\ Len(nodes) \in Nat
  BY DEF IsNodes, IsSeq
<1>3. seen \in Seq(S) /\ Len(seen) = Len(nodes)
  BY <1>2
<1> HIDE DEF seen, S
<1>4. ASSUME NEW i \in DOMAIN nodes, NEW k \in DOMAIN nodes
      PROVE  IsSeq(InsertAt(RemoveAt(seen, i), k, seen[i]))
  <2>1. i \in 1..Len(seen) /\ k \in 1..Len(seen) /\ Len(seen) \in Nat /\ seen[i] \in S
    BY <1>2, <1>3
  <2>2. PICK r : r = RemoveAt(seen, i)
    OBVIOUS
  <2>3. r \in Seq(S) /\ Len(r) = Len(seen) - 1
    BY <1>3, <2>1, <2>2, Removed
  <2> DEFINE front == SubSeq(r, 1, k - 1)
             back == SubSeq(r, k, Len(r))
             one == <<seen[i]>>
  <2>4. front \in Seq(S) /\ back \in Seq(S) /\ one \in Seq(S)
    BY <2>1, <2>3
  <2>5. InsertAt(r, k, seen[i]) = front \o one \o back
    BY DEF InsertAt
  <2> HIDE DEF front, back, one
  <2>6. front \o one \in Seq(S)
    BY <2>4, ToSetFacts
  <2>7. (front \o one) \o back \in Seq(S)
    BY <2>4, <2>6, ToSetFacts
  <2> QED
    BY <2>2, <2>5, <2>7, ShortSeqs
<1> QED
  BY <1>1, <1>4, ShortSeqs DEF seen

LEMMA CommandBegins ==
  ASSUME ShapeInv, NEW j, Command(j)
  PROVE  \E todo, sub, arg, names : Start(j, todo, sub, arg) /\ Begins(todo, sub, arg, names)
<1>1. IsNodes(nodes) /\ subs \in Seq(SubIds) /\ ToSet(subs) \subseteq SubIds
  BY ToSetFacts DEF ShapeInv
<1>2. FreeIds \subseteq SubIds /\ MaxOwn \in Nat
  BY ListsAssumption
<1>3. ASSUME NEW s, NewSub(s) PROVE \A n \in ToSet(nodes) : n.sub # s
  <2>1. ToSet(nodes) = {nodes[i] : i \in 1..Len(nodes)} /\ DOMAIN nodes = 1..Len(nodes)
    BY <1>1, ToSetFacts DEF IsNodes, IsSeq
  <2> QED
    BY <1>3, <2>1 DEF NewSub
<1>4. CASE AddLinks(j)
  <2>1. PICK pasted \in BoundedSeq(Prints, MaxOwn) :
          Start(j, <<"push", "saveNodes">> \o EmitNodes, Own, pasted)
    BY <1>4 DEF AddLinks
  <2>2. IsSeq(pasted)
    BY <1>2, BoundedIsSeq, ShortSeqs
  <2>3. Begins(<<"push", "saveNodes">> \o EmitNodes, Own, pasted,
               {"push", "saveNodes", "resolve", "show"})
    BY <2>2, Plans DEF Begins
  <2> QED
    BY <2>1, <2>3
<1>5. CASE AddSubscription(j)
  <2>1. PICK s \in SubIds \ FreeIds :
          Start(j, <<"pushSub", "saveSubs">> \o RefreshSections, s, << >>)
    BY <1>5 DEF AddSubscription
  <2>2. Begins(<<"pushSub", "saveSubs">> \o RefreshSections, s, << >>,
          {"pushSub", "saveSubs", "lookUp", "fetch", "merge", "saveNodes", "resolve", "show"})
    BY ShortSeqs, Plans DEF Begins
  <2> QED
    BY <2>1, <2>2
<1>6. CASE AddFreePool(j)
  <2> DEFINE todo == <<"lookFree", "pushSub", "saveSubs">> \o RefreshSections \o <<"giveBack">>
  <2>1. PICK s \in FreeIds : NewSub(s) /\ Start(j, todo, s, << >>)
    BY <1>6 DEF AddFreePool
  <2>2. Plan(todo, {"lookFree", "pushSub", "saveSubs", "lookUp", "fetch", "merge", "saveNodes",
                    "resolve", "show", "giveBack"})
    BY PoolPlan
  <2> HIDE DEF todo
  <2>3. Begins(todo, s, << >>, {"lookFree", "pushSub", "saveSubs", "lookUp", "fetch", "merge",
                                "saveNodes", "resolve", "show", "giveBack"})
    BY <1>2, <1>3, <2>1, <2>2, ShortSeqs DEF Begins
  <2> QED
    BY <2>1, <2>3
<1>7. CASE Refresh(j)
  <2>1. PICK s \in ToSet(subs) : Start(j, RefreshSections, s, << >>)
    BY <1>7 DEF Refresh
  <2>2. Begins(RefreshSections, s, << >>,
          {"lookUp", "fetch", "merge", "saveNodes", "saveSubs", "resolve", "show"})
    BY <1>1, ShortSeqs, Plans DEF Begins
  <2> QED
    BY <2>1, <2>2
<1>8. CASE DeleteSubscription(j)
  <2>1. PICK s \in ToSet(subs) : Start(j, DeleteSections, s, << >>)
    BY <1>8 DEF DeleteSubscription
  <2>2. Begins(DeleteSections, s, << >>,
          {"dropSub", "dropNodes", "saveSubs", "saveNodes", "resolve", "show"})
    BY <1>1, ShortSeqs, Plans DEF Begins
  <2> QED
    BY <2>1, <2>2
<1>9. CASE DeleteServer(j)
  <2>1. PICK id : Start(j, <<"dropNode", "saveNodes", "saveUi">> \o EmitNodes, Own, <<id>>)
    BY <1>9 DEF DeleteServer
  <2>2. Begins(<<"dropNode", "saveNodes", "saveUi">> \o EmitNodes, Own, <<id>>,
          {"dropNode", "saveNodes", "saveUi", "resolve", "show"})
    BY ShortSeqs, Plans DEF Begins
  <2> QED
    BY <2>1, <2>2
<1>10. CASE UpdateServer(j)
  <2>1. PICK id, print : Start(j, <<"replace", "saveNodes">> \o EmitNodes, Own, <<id, print>>)
    BY <1>10 DEF UpdateServer
  <2>2. Begins(<<"replace", "saveNodes">> \o EmitNodes, Own, <<id, print>>,
          {"replace", "saveNodes", "resolve", "show"})
    BY ShortSeqs, Plans DEF Begins
  <2> QED
    BY <2>1, <2>2
<1>11. CASE ReorderServers(j)
  <2>1. PICK order : /\ IsSeq(order)
                     /\ Start(j, <<"pin", "saveUi", "sort", "saveNodes">> \o EmitNodes, Own, order)
    BY <1>1, <1>11, NewOrders DEF ReorderServers
  <2>2. Begins(<<"pin", "saveUi", "sort", "saveNodes">> \o EmitNodes, Own, order,
          {"pin", "saveUi", "sort", "saveNodes", "resolve", "show"})
    BY <2>1, Plans DEF Begins
  <2> QED
    BY <2>1, <2>2
<1>12. CASE ReorderSubscriptions(j)
  <2> DEFINE todo == <<"pin", "saveUi", "sortSubs", "reflow", "saveSubs", "saveNodes">> \o EmitNodes
             names == {"pin", "saveUi", "sortSubs", "reflow", "saveSubs", "saveNodes",
                       "resolve", "show"}
  <2>1. Start(j, todo, Own, Reverse(subs)) /\ IsSeq(Reverse(subs))
    BY <1>1, <1>12, NewOrders DEF ReorderSubscriptions
  <2>2. Begins(todo, Own, Reverse(subs), names)
    BY <2>1, Plans DEF Begins
  <2> HIDE DEF todo, names
  <2> QED
    BY <2>1, <2>2
<1>13. CASE SetActiveServer(j)
  <2>1. PICK id : Start(j, <<"pick", "saveUi", "show">>, Own, <<id>>)
    BY <1>13 DEF SetActiveServer
  <2>2. Begins(<<"pick", "saveUi", "show">>, Own, <<id>>, {"pick", "saveUi", "show"})
    BY ShortSeqs, Plans DEF Begins
  <2> QED
    BY <2>1, <2>2
<1> QED
  BY <1>4, <1>5, <1>6, <1>7, <1>8, <1>9, <1>10, <1>11, <1>12, <1>13 DEF Command

(* With no command in flight nobody is left behind.                        *)
LEMMA AtRestTidy ==
  ASSUME NeatInv, hitch = "none", Quiet
  PROVE  /\ shown = Resolve /\ \A n \in ToSet(nodes) : n.sub \in ToSet(subs) \cup {Own}
         /\ \A p, q \in Pools : p = q
<1>1. PICK i \in Jobs : Tidy(i)
  BY DEF NeatInv
<1>2. jobs[i].todo = << >>
  BY DEF Quiet, NoJob
<1> QED
  BY <1>1, <1>2, NothingHas DEF Tidy, Showing, Kept, OnePool

LEMMA StartTidies ==
  ASSUME DiskInv, ShapeInv, NEW j \in Jobs, NEW todo, NEW sub, NEW arg, NEW names,
         Start(j, todo, sub, arg), Begins(todo, sub, arg, names)
  PROVE  /\ \A i \in Jobs : i # j => jobs'[i] = jobs[i]
         /\ Proper(jobs'[j]) /\ jobs[j] = NoJob
         /\ hitch # "overlap" => Quiet /\ Ordering(jobs[j].todo)'
         /\ NeatInv /\ hitch = "none" => Tidy(j)'
<1>1. /\ jobs'[j] = [todo |-> todo, sub |-> sub, arg |-> arg] /\ jobs[j] = NoJob
      /\ \A i \in Jobs : i # j => jobs'[i] = jobs[i]
      /\ hitch # "overlap" => Quiet
      /\ nodes' = nodes /\ subs' = subs /\ active' = active /\ shown' = shown /\ disk' = disk
      /\ hitch' = hitch
  BY DEF Start, DiskInv, lists
<1>2. jobs'[j].todo = todo /\ jobs'[j].sub = sub /\ jobs'[j].arg = arg
  BY <1>1
<1>3. \A y : Has(todo, y) <=> y \in names
  BY PlanHas DEF Begins
<1>4. Proper(jobs'[j])
  BY <1>2, <1>3 DEF Begins, Plan, Proper
<1>5. /\ Resolve' = Resolve /\ Pools' = Pools
  BY <1>1 DEF Resolve, IdsOf, Pools, ToSet
<1>6. ASSUME hitch # "overlap" PROVE Ordering(todo)'
  <2>1. disk.servers = nodes
    BY <1>1, <1>6, DiskAtRest DEF DiskCatchesUp
  <2>2. Has(todo, "sort") \/ Has(todo, "reflow") => Has(todo, "pin")
    BY <1>3 DEF Begins
  <2> QED
    BY <1>1, <2>1, <2>2 DEF Ordering, Has
<1>7. ASSUME NeatInv, hitch = "none"
      PROVE  Showing(todo, arg)' /\ Kept(todo, sub)' /\ OnePool(todo, sub)'
  <2>1. /\ shown = Resolve /\ \A n \in ToSet(nodes) : n.sub \in ToSet(subs) \cup {Own}
        /\ \A p, q \in Pools : p = q
    BY <1>1, <1>7, AtRestTidy
  <2>2. Showing(todo, arg)'
    BY <1>1, <1>3, <1>5, <2>1 DEF Showing, Has, Begins
  <2>3. Kept(todo, sub)'
    BY <1>1, <1>3, <2>1 DEF Kept, Has, Begins, ToSet
  <2>4. OnePool(todo, sub)'
    BY <1>3, <1>5, <2>1 DEF OnePool, Has, Begins
  <2> QED
    BY <2>2, <2>3, <2>4
<1>8. hitch # "overlap" => Ordering(jobs[j].todo)'
  BY <1>2, <1>6
<1>9. NeatInv /\ hitch = "none" => Tidy(j)'
  BY <1>2, <1>7 DEF Tidy
<1> QED
  BY <1>1, <1>4, <1>8, <1>9

-----------------------------------------------------------------------------
LEMMA ShapeStep ==
  ASSUME DiskInv, ShapeInv, [ListsNext]_listsVars
  PROVE  ShapeInv'
<1>1. CASE UNCHANGED listsVars
  BY <1>1 DEF ShapeInv, listsVars, lists, IsNodes, IsSeq, ToSet
<1>2. CASE Restart
  BY <1>2, AtRestAll DEF Restart, ShapeInv, IsNodes, IsSeq, ToSet
<1>3. ASSUME NEW j \in Jobs, Section(j) PROVE ShapeInv'
  <2>1. PICK x, rest : Ahead(j, x, rest)
    BY <1>3, SectionHead, LookAhead
  <2>2. PICK job : Goto(j, job) /\ (Forward(j, job) \/ Detour(j, job))
    BY <1>3, SectionWays
  <2>3. /\ IsNodes(nodes') /\ subs' \in Seq(SubIds)
        /\ disk'.servers \in {disk.servers, nodes} /\ disk'.subs \in {disk.subs, subs}
    <3>1. CASE Forward(j, job)
      BY <3>1 DEF Forward, Frame, NodesEffect, SubsEffect
    <3>2. CASE Detour(j, job)
      BY <3>2 DEF Detour, lists, ShapeInv
    <3> QED
      BY <2>2, <3>1, <3>2
  <2>4. \A i \in Jobs : Proper(jobs'[i])
    BY <1>3, SectionTidies DEF ShapeInv
  <2> QED
    BY <2>3, <2>4 DEF ShapeInv
<1>4. ASSUME NEW j \in Jobs, Command(j) PROVE ShapeInv'
  <2>1. PICK todo, sub, arg, names : Start(j, todo, sub, arg) /\ Begins(todo, sub, arg, names)
    BY <1>4, CommandBegins
  <2>2. \A i \in Jobs : Proper(jobs'[i])
    BY <2>1, StartTidies DEF ShapeInv
  <2>3. nodes' = nodes /\ subs' = subs /\ disk' = disk
    BY <2>1 DEF Start, lists
  <2> QED
    BY <2>2, <2>3 DEF ShapeInv
<1> QED
  BY <1>1, <1>2, <1>3, <1>4 DEF ListsNext

(* Where commands wait for each other, the one that moves is the only one.  *)
LEMMA OneMoves ==
  ASSUME DiskInv, ShapeInv, NEW j \in Jobs, Section(j), NEW i \in Jobs, Alone(i)
  PROVE  i = j /\ Alone(j)'
<1>1. jobs[j] # NoJob
  BY SectionHead DEF NoJob
<1>2. i = j
  BY <1>1 DEF Alone
<1> QED
  BY <1>2, SectionTidies DEF Alone

LEMMA OneStarts ==
  ASSUME Quiet, NEW j \in Jobs, \A i \in Jobs : i # j => jobs'[i] = jobs[i]
  PROVE  Alone(j)'
  BY DEF Quiet, Alone

LEMMA OrderStep ==
  ASSUME DiskInv, ShapeInv, OrderInv, [ListsNext]_listsVars
  PROVE  OrderInv'
<1>1. CASE UNCHANGED listsVars
  BY <1>1 DEF OrderInv, Ordering, Alone, Has, IdsOf, listsVars, lists, bounds
<1>2. CASE Restart
  <2>1. PICK i \in Jobs : Alone(i)
    BY <1>2 DEF Restart, OrderInv
  <2>2. jobs' = [k \in Jobs |-> NoJob]
    BY <1>2 DEF Restart
  <2>3. Alone(i)' /\ jobs'[i].todo = << >>
    BY <2>2 DEF Alone, NoJob
  <2>4. Ordering(jobs[i].todo)'
    BY <2>3, NothingHas DEF Ordering, Has
  <2> QED
    BY <2>3, <2>4 DEF OrderInv
<1>3. ASSUME NEW j \in Jobs, Section(j), hitch' # "overlap"
      PROVE  Alone(j)' /\ Ordering(jobs[j].todo)'
  <2>1. hitch' = hitch
    <3>1. PICK x, rest : Ahead(j, x, rest)
      BY <1>3, SectionHead, LookAhead
    <3>2. PICK job : Forward(j, job) \/ Detour(j, job)
      BY <1>3, SectionWays
    <3> QED
      BY <3>2 DEF Forward, Frame, Detour
  <2>2. PICK i \in Jobs : Alone(i) /\ Ordering(jobs[i].todo)
    BY <1>3, <2>1 DEF OrderInv
  <2> QED
    BY <1>3, <2>2, OneMoves, SectionTidies
<1>4. ASSUME NEW j \in Jobs, Command(j), hitch' # "overlap"
      PROVE  Alone(j)' /\ Ordering(jobs[j].todo)'
  <2>1. PICK todo, sub, arg, names : Start(j, todo, sub, arg) /\ Begins(todo, sub, arg, names)
    BY <1>4, CommandBegins
  <2>2. hitch' = hitch
    BY <2>1 DEF Start
  <2> QED
    BY <1>4, <2>1, <2>2, StartTidies, OneStarts
<1> QED
  BY <1>1, <1>2, <1>3, <1>4 DEF ListsNext, OrderInv

LEMMA NeatStep ==
  ASSUME DiskInv, ShapeInv, NeatInv, [ListsNext]_listsVars
  PROVE  NeatInv'
<1>1. CASE UNCHANGED listsVars
  BY <1>1 DEF NeatInv, Tidy, Showing, Kept, OnePool, Pools, Resolve, IdsOf, Owes, Has, Alone,
              ToSet, listsVars, lists, bounds
<1>2. CASE Restart
  BY <1>2 DEF Restart, NeatInv, bounds
<1>3. ASSUME NEW j \in Jobs, Section(j), hitch' = "none" PROVE Alone(j)' /\ Tidy(j)'
  <2>1. hitch' = hitch
    <3>1. PICK job : Forward(j, job) \/ Detour(j, job)
      BY <1>3, SectionWays
    <3> QED
      BY <3>1 DEF Forward, Frame, Detour
  <2>2. PICK i \in Jobs : Alone(i) /\ Tidy(i)
    BY <1>3, <2>1 DEF NeatInv
  <2> QED
    BY <1>3, <2>2, OneMoves, SectionTidies
<1>4. ASSUME NEW j \in Jobs, Command(j), hitch' = "none" PROVE Alone(j)' /\ Tidy(j)'
  <2>1. PICK todo, sub, arg, names : Start(j, todo, sub, arg) /\ Begins(todo, sub, arg, names)
    BY <1>4, CommandBegins
  <2>2. hitch' = hitch
    BY <2>1 DEF Start
  <2> QED
    BY <1>4, <2>1, <2>2, StartTidies, OneStarts
<1> QED
  BY <1>1, <1>2, <1>3, <1>4 DEF ListsNext, NeatInv

LEMMA InitiallyInShape ==
  ASSUME ListsInit
  PROVE  ShapeInv /\ OrderInv /\ Quiet
<1>1. disk \in [servers : Seq([id : Ids, sub : SubIds \cup {Own}, print : Prints]),
                subs : Seq(SubIds), ui : Ids \cup {NoId}]
  BY ListsAssumption DEF ListsInit
<1>2. \A n \in [id : Ids, sub : SubIds \cup {Own}, print : Prints] :
        n = Server(n.id, n.sub, n.print)
  BY DEF Server
<1>3. IsNodes(disk.servers) /\ disk.subs \in Seq(SubIds)
  BY <1>1, <1>2, NodesFrom
<1>4. \A j \in Jobs : jobs[j] = NoJob
  BY DEF ListsInit
<1>5. ShapeInv
  BY <1>3, <1>4, AtRestAll DEF ListsInit, ShapeInv
<1>6. OrderInv
  <2>1. PICK j \in Jobs : TRUE
    BY ListsAssumption
  <2>2. Alone(j) /\ jobs[j].todo = << >>
    BY <1>4 DEF Alone, NoJob
  <2>3. Ordering(jobs[j].todo)
    BY <2>2, NothingHas DEF Ordering
  <2> QED
    BY <2>2, <2>3 DEF OrderInv
<1> QED
  BY <1>4, <1>5, <1>6 DEF Quiet

(* A new order has the same servers in it.                                 *)
LEMMA ChoiceStays ==
  ASSUME IsNodes(nodes), IsNodes(nodes'), ToSet(nodes') = ToSet(nodes), active' = active,
         active \in IdsOf(nodes) \/ nodes = << >>
  PROVE  Resolve' = Resolve
<1>1. /\ ToSet(nodes) = {nodes[i] : i \in DOMAIN nodes}
      /\ ToSet(nodes') = {nodes'[i] : i \in DOMAIN nodes'}
  BY DEF ToSet
<1>2. IdsOf(nodes) = {n.id : n \in ToSet(nodes)} /\ IdsOf(nodes') = {n.id : n \in ToSet(nodes')}
  BY <1>1 DEF IdsOf
<1>3. nodes = << >> => nodes' = << >>
  <2>1. nodes' # << >> => 1 \in DOMAIN nodes'
    BY DEF IsNodes, IsSeq
  <2>2. nodes = << >> => ToSet(nodes) = {}
    BY DEF ToSet
  <2>3. nodes = << >> => nodes' \in Seq({})
    BY <2>2 DEF IsNodes, IsSeq
  <2> QED
    BY <2>3
<1>4. CASE active \in IdsOf(nodes)
  BY <1>2, <1>4 DEF Resolve
<1>5. CASE nodes = << >>
  <2>1. nodes' = << >>
    BY <1>3, <1>5
  <2> QED
    BY <1>5, <2>1 DEF Resolve
<1> QED
  BY <1>4, <1>5

Choosing(j) ==
  (Now(j, "sort") \/ Now(j, "reflow")) /\ jobs'[j] # jobs[j]
    /\ (hitch = "overlap" => active \in IdsOf(nodes))

LEMMA OrderKeepsChoice ==
  ASSUME DiskInv, ShapeInv, OrderInv, [ListsNext]_listsVars, NEW j \in Jobs, Choosing(j)
  PROVE  Resolve' = Resolve
<1>1. PICK x, rest : Ahead(j, x, rest)
  BY LookAhead DEF Choosing, Now
<1>2. x \in {"sort", "reflow"}
  BY <1>1 DEF Choosing, Now, Ahead
<1>3. jobs[j] # NoJob
  BY <1>1 DEF Ahead, NoJob
<1>4. ASSUME hitch # "overlap" PROVE Ordering(jobs[j].todo)
  BY <1>3, <1>4 DEF OrderInv, Alone
<1>5. Has(jobs[j].todo, "sort") \/ Has(jobs[j].todo, "reflow")
  BY <1>1, <1>2 DEF Ahead
<1>6. ~Has(jobs[j].todo, "pin") /\ ~Has(jobs[j].todo, "saveUi")
  BY <1>1, <1>2 DEF Ahead, Wrong
<1>7. active \in IdsOf(nodes) \/ nodes = << >>
  BY <1>4, <1>5, <1>6 DEF Choosing, Ordering
<1>8. CASE Restart
  <2>1. Ordering(jobs[j].todo)
    BY <1>4, <1>8 DEF Restart
  <2>2. nodes' = nodes /\ active' = active
    BY <1>5, <1>6, <1>8, <2>1 DEF Restart, Ordering
  <2> QED
    BY <2>2 DEF Resolve, IdsOf
<1>9. ASSUME NEW i \in Jobs, Section(i) PROVE Resolve' = Resolve
  <2>1. i = j
    BY <1>9, SectionTidies DEF Choosing
  <2>2. PICK job : Forward(j, job) \/ Detour(j, job)
    BY <1>9, <2>1, SectionWays
  <2>3. Forward(j, job)
    BY <1>1, <1>2, <2>2 DEF Detour, Ahead, Aborting
  <2>4. Frame(x) /\ NodesEffect(x, job.sub)
    BY <1>1, <2>3 DEF Forward, Ahead
  <2>5. IsNodes(nodes') /\ ToSet(nodes') = ToSet(nodes) /\ active' = active
    BY <1>2, <2>4 DEF Frame, NodesEffect, PinChanges
  <2> QED
    BY <1>7, <2>5, ChoiceStays DEF ShapeInv
<1>10. ASSUME NEW i \in Jobs, Command(i) PROVE FALSE
  <2>1. PICK todo, sub, arg, names : Start(i, todo, sub, arg) /\ Begins(todo, sub, arg, names)
    BY <1>10, CommandBegins
  <2>2. i = j /\ jobs[i] = NoJob
    BY <2>1, StartTidies DEF Choosing
  <2> QED
    BY <1>3, <2>2
<1>11. CASE UNCHANGED listsVars
  BY <1>11 DEF Choosing, listsVars
<1> QED
  BY <1>8, <1>9, <1>10, <1>11 DEF ListsNext

(* A new order of the servers, or of the subscriptions they follow, is no   *)
(* reason to connect to another one: the choice was made explicit before.   *)
THEOREM OrderKeepsTheChoice == ListsSpec => OrderChoosesNothing
<1> DEFINE Good == DiskInv /\ ShapeInv /\ OrderInv
           Stays == \A j \in Jobs : Now(j, "sort") \/ Now(j, "reflow") =>
                      (jobs'[j] # jobs[j] /\ (hitch = "overlap" => active \in IdsOf(nodes))
                         => Resolve' = Resolve)
<1>1. ListsInit => Good
  BY InitiallyOnDisk, InitiallyInShape
<1>2. Good /\ [ListsNext]_listsVars => Good'
  BY DiskStep, ShapeStep, OrderStep
<1>3. Good /\ [ListsNext]_listsVars => Stays
  BY OrderKeepsChoice DEF Choosing
<1>4. Good /\ [ListsNext]_listsVars => [Stays]_listsVars
  BY <1>3
<1> QED
  BY <1>1, <1>2, <1>4, PTL DEF ListsSpec, OrderChoosesNothing

(* Lists in which nobody is left behind already.                           *)
NoneAstray(start) ==
  /\ \A n \in ToSet(start.servers) : n.sub \in ToSet(start.subs) \cup {Own}
  /\ \A p, q \in ToSet(start.subs) \cap FreeIds : p = q

LEMMA InitiallyNeat ==
  ASSUME ListsInit, \A start \in Starts : NoneAstray(start)
  PROVE  NeatInv
<1>1. shown = Resolve /\ NoneAstray(disk) /\ nodes = disk.servers /\ subs = disk.subs
  BY DEF ListsInit
<1>2. PICK j \in Jobs : TRUE
  BY ListsAssumption
<1>3. Alone(j) /\ jobs[j].todo = << >>
  BY DEF ListsInit, Alone, NoJob
<1>4. Tidy(j)
  BY <1>1, <1>3, NothingHas DEF NoneAstray, Tidy, Showing, Kept, OnePool, Pools
<1> QED
  BY <1>3, <1>4 DEF NeatInv

LEMMA OnePoolAtMost == ASSUME \A p, q \in Pools : p = q PROVE Cardinality(Pools) <= 1
<1>1. CASE Pools = {}
  BY <1>1, FS_EmptySet
<1>2. ASSUME NEW p \in Pools PROVE Cardinality(Pools) <= 1
  <2>1. Pools = {p}
    OBVIOUS
  <2> QED
    BY <2>1, FS_Singleton
<1> QED
  BY <1>1, <1>2

(* Commands that wait for each other leave nobody behind: no server of a    *)
(* subscription that is gone, no second pool, no other server shown than a  *)
(* connect would choose.                                                    *)
THEOREM NobodyIsLeftBehind ==
  ASSUME \A start \in Starts : NoneAstray(start)
  PROVE  ListsSpec => []NoStrays
<1> DEFINE Good == DiskInv /\ ShapeInv /\ NeatInv
<1>1. ListsInit => Good
  BY InitiallyOnDisk, InitiallyInShape, InitiallyNeat
<1>2. Good /\ [ListsNext]_listsVars => Good'
  BY DiskStep, ShapeStep, NeatStep
<1>3. Good => NoStrays
  <2> SUFFICES ASSUME Good, hitch = "none", Quiet
               PROVE  /\ \A i \in DOMAIN nodes : nodes[i].sub \in ToSet(subs) \cup {Own}
                      /\ Cardinality(Pools) <= 1 /\ shown = Resolve
    BY DEF NoStrays
  <2>1. /\ shown = Resolve /\ \A n \in ToSet(nodes) : n.sub \in ToSet(subs) \cup {Own}
        /\ \A p, q \in Pools : p = q
    BY AtRestTidy
  <2>2. \A i \in DOMAIN nodes : nodes[i] \in ToSet(nodes)
    BY DEF ToSet
  <2> QED
    BY <2>1, <2>2, OnePoolAtMost
<1> QED
  BY <1>1, <1>2, <1>3, PTL DEF ListsSpec
=============================================================================
