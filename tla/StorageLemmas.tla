--------------------------- MODULE StorageLemmas ----------------------------
(***************************************************************************)
(* The parts of the device in memory: which slots the ports have, what a   *)
(* save writes of them and what a restart makes of that, for every number  *)
(* of slots, ports and peripherals.  StorageProofs rests on it.            *)
(*                                                                         *)
(* A call that changes the parts of the device is a fold of smaller steps, *)
(* over the fields of a request or the ports of a peripheral.  Each fold   *)
(* has an instance of FoldInduction: its step, and what holds after any    *)
(* number of steps.                                                        *)
(***************************************************************************)
EXTENDS Storage, SequenceTheorems, FiniteSetTheorems, NaturalsInduction, WellFoundedInduction, TLAPS

-----------------------------------------------------------------------------
(***************************************************************************)
(* Sequences, of members of whatever kind.                                 *)
(***************************************************************************)
LEMMA SeqIs ==
    ASSUME NEW s, IsSeq(s)
    PROVE  /\ Len(s) \in Nat /\ DOMAIN s = 1..Len(s)
           /\ Range(s) = {s[i] : i \in 1..Len(s)}
           /\ s = [i \in 1..Len(s) |-> s[i]]
<1> DEFINE S == Range(s)
<1>1. s \in Seq(S)
  BY DEF IsSeq
<1> HIDE DEF S
<1>2. Len(s) \in Nat /\ DOMAIN s = 1..Len(s) /\ s = [i \in 1..Len(s) |-> s[i]]
  BY <1>1
<1> QED
  BY <1>2 DEF Range

LEMMA FunctionIsSeq ==
    ASSUME NEW n \in Nat, NEW s, s = [i \in 1..n |-> s[i]]
    PROVE  IsSeq(s) /\ Len(s) = n
<1> DEFINE S == Range(s)
<1>1. \A i \in 1..n : s[i] \in S
  BY DEF Range
<1>2. s \in [1..n -> S]
  <2> HIDE DEF S
  <2> QED
    BY <1>1
<1>3. s \in Seq(S) /\ Len(s) = n
  <2> HIDE DEF S
  <2> QED
    BY <1>2
<1> QED
  BY <1>3 DEF IsSeq

LEMMA TypedIsSeq ==
    ASSUME NEW S, NEW s \in Seq(S)
    PROVE  IsSeq(s) /\ s = [i \in 1..Len(s) |-> s[i]]
<1>1. s = [i \in 1..Len(s) |-> s[i]] /\ Len(s) \in Nat
  OBVIOUS
<1> QED
  BY <1>1, FunctionIsSeq

LEMMA EmptyIsSeq == IsSeq(<<>>) /\ Len(<<>>) = 0
BY DEF IsSeq

LEMMA AppendIsSeq ==
    ASSUME NEW s, IsSeq(s), NEW e
    PROVE  /\ IsSeq(Append(s, e)) /\ Len(Append(s, e)) = Len(s) + 1
           /\ \A i \in 1..Len(s) : Append(s, e)[i] = s[i]
           /\ Append(s, e)[Len(s) + 1] = e
           /\ Range(Append(s, e)) = Range(s) \cup {e}
<1> DEFINE S == Range(s) \cup {e}
<1>1. s \in Seq(S) /\ e \in S
  <2>1. s = [i \in 1..Len(s) |-> s[i]] /\ Len(s) \in Nat /\ \A i \in 1..Len(s) : s[i] \in S
    BY SeqIs
  <2> HIDE DEF S
  <2>2. s \in [1..Len(s) -> S]
    BY <2>1
  <2>3. e \in S
    BY DEF S
  <2> QED
    BY <2>1, <2>2, <2>3
<1> HIDE DEF S
<1>2. Append(s, e) \in Seq(S) /\ Len(Append(s, e)) = Len(s) + 1 /\ Len(s) \in Nat
  BY <1>1
<1>3. (\A i \in 1..Len(s) : Append(s, e)[i] = s[i]) /\ Append(s, e)[Len(s) + 1] = e
  BY <1>1
<1>4. IsSeq(Append(s, e))
  BY <1>2, TypedIsSeq
<1>6. Range(Append(s, e)) = {Append(s, e)[i] : i \in 1..(Len(s) + 1)} /\ Range(s) = {s[i] : i \in 1..Len(s)}
  BY <1>2, <1>4, SeqIs
<1>5. 1..(Len(s) + 1) = 1..Len(s) \cup {Len(s) + 1}
  BY <1>2
<1>7. Range(Append(s, e)) = Range(s) \cup {e}
  BY <1>3, <1>5, <1>6
<1> QED
  BY <1>2, <1>3, <1>4, <1>7

LEMMA RemoveIsSeq ==
    ASSUME NEW s, IsSeq(s), NEW i \in 1..Len(s)
    PROVE  /\ IsSeq(RemoveAt(s, i)) /\ Len(RemoveAt(s, i)) = Len(s) - 1
           /\ \A k \in 1..(Len(s) - 1) : RemoveAt(s, i)[k] = s[IF k < i THEN k ELSE k + 1]
<1> DEFINE S == Range(s)
           t == RemoveAt(s, i)
<1>1. s \in Seq(S)
  BY DEF IsSeq
<1> HIDE DEF S
<1>2. Len(s) \in Nat /\ i \in Nat /\ 1 <= i /\ i <= Len(s)
  BY <1>1
<1> DEFINE u == SubSeq(s, 1, i - 1)
           v == SubSeq(s, i + 1, Len(s))
<1>3. u \in Seq(S) /\ Len(u) = i - 1 /\ \A k \in 1..(i - 1) : u[k] = s[k]
  BY <1>1, <1>2
<1>4. v \in Seq(S) /\ Len(v) = Len(s) - i /\ \A k \in 1..(Len(s) - i) : v[k] = s[i + k]
  BY <1>1, <1>2
<1>5. t = u \o v
  BY DEF RemoveAt
<1> HIDE DEF t, u, v
<1>6. Len(t) = Len(s) - 1 /\ t \in Seq(S)
  <2>1. Len(t) = Len(u) + Len(v) /\ t \in Seq(S)
    <3>1. ASSUME NEW x \in Seq(S), NEW y \in Seq(S) PROVE x \o y \in Seq(S) /\ Len(x \o y) = Len(x) + Len(y)
      OBVIOUS
    <3> QED
      BY <1>3, <1>4, <1>5, <3>1
  <2> QED
    BY <1>2, <1>3, <1>4, <2>1
<1>7. ASSUME NEW k \in 1..(Len(s) - 1) PROVE t[k] = s[IF k < i THEN k ELSE k + 1]
  <2>1. CASE k < i
    BY <1>2, <1>3, <1>4, <1>5, <2>1
  <2>2. CASE k >= i
    <3>1. k > Len(u) /\ k <= Len(u) + Len(v) /\ k - Len(u) \in 1..(Len(s) - i)
      BY <1>2, <1>3, <1>4, <2>2
    <3>2. t[k] = v[k - Len(u)]
      BY <1>2, <1>3, <1>4, <1>5, <3>1
    <3>3. v[k - Len(u)] = s[i + (k - Len(u))]
      BY <1>4, <3>1
    <3>4. i + (k - Len(u)) = k + 1
      BY <1>2, <1>3
    <3> QED
      BY <2>2, <3>2, <3>3, <3>4
  <2> QED
    BY <1>2, <2>1, <2>2
<1>8. IsSeq(t)
  BY <1>6, TypedIsSeq
<1> QED
  BY <1>6, <1>7, <1>8 DEF t

\* There is a least member of a set of numbers.
LEMMA MinIs ==
    ASSUME NEW S \in SUBSET Nat, S # {}
    PROVE  Min(S) \in S /\ \A n \in S : Min(S) <= n
<1>1. PICK m \in S : \A n \in S : ~(<<n, m>> \in OpToRel(<, Nat))
  BY NatLessThanWellFounded, WFMin
<1>2. \A n \in S : ~(n < m)
  BY <1>1 DEF OpToRel
<1>3. \A n \in S : m <= n
  BY <1>2
<1> QED
  BY <1>3 DEF Min

\* The members of a sequence that are not in a set, in order.
DropStep(a, kept, x) == IF x \notin a[2] THEN Append(kept, x) ELSE kept

Distinct(s) == \A i, j \in 1..Len(s) : s[i] = s[j] => i = j

DropGood(a, k, kept) ==
    /\ IsSeq(kept) /\ Distinct(kept)
    /\ Range(kept) = {x \in {a[1][i] : i \in 1..k} : x \notin a[2]}

Drop == INSTANCE FoldInduction WITH Step <- DropStep, Good <- DropGood

LEMMA ThoseLeft ==
    ASSUME NEW seq, IsSeq(seq), Distinct(seq), NEW removed
    PROVE  LET left == Those(LAMBDA x : x \notin removed, seq)
           IN  IsSeq(left) /\ Distinct(left) /\ Range(left) = Range(seq) \ removed
<1> DEFINE a    == <<seq, removed>>
           left == Those(LAMBDA x : x \notin removed, seq)
           n    == Len(seq)
<1>1. left = Drop!Fold(a, <<>>, seq)
  BY DEF Those, Drop!Fold, DropStep, FoldLeft, MapThenFoldSet, Max,
         Drop!MapThenFoldSet, Drop!Largest
<1>2. n \in Nat /\ DOMAIN seq = 1..n /\ Range(seq) = {seq[i] : i \in 1..n}
  BY SeqIs
<1>0. a[1] = seq /\ a[2] = removed
  OBVIOUS
<1> HIDE DEF a
<1>3. DropGood(a, 0, <<>>)
  <2>1. Range(<<>>) = {} /\ 1..0 = {}
    BY DEF Range
  <2> QED
    BY <2>1, EmptyIsSeq DEF DropGood, Distinct
<1>4. ASSUME NEW k \in 0..(n - 1), NEW kept, DropGood(a, k, kept)
      PROVE  DropGood(a, k + 1, DropStep(a, kept, seq[k + 1]))
  <2> DEFINE x == seq[k + 1]
  <2>1. k + 1 \in 1..n /\ 1..(k + 1) = 1..k \cup {k + 1} /\ k + 1 \notin 1..k
    BY <1>2
  <2>2. {seq[i] : i \in 1..(k + 1)} = {seq[i] : i \in 1..k} \cup {x}
    BY <2>1
  <2>3. CASE x \in removed
    BY <1>0, <1>4, <2>2, <2>3 DEF DropGood, DropStep
  <2>4. CASE x \notin removed
    <3>1. DropStep(a, kept, x) = Append(kept, x)
      BY <1>0, <2>4 DEF DropStep
    <3>2. \A i \in 1..k : seq[i] # x
      BY <1>2, <2>1 DEF Distinct
    <3>3. x \notin Range(kept)
      BY <1>0, <1>4, <3>2 DEF DropGood
    <3>4. Range(Append(kept, x)) = {y \in {seq[i] : i \in 1..(k + 1)} : y \notin removed}
      <4>1. Range(Append(kept, x)) = Range(kept) \cup {x}
        BY <1>4, AppendIsSeq DEF DropGood
      <4>2. Range(kept) = {y \in {seq[i] : i \in 1..k} : y \notin removed}
        BY <1>0, <1>4 DEF DropGood
      <4> HIDE DEF x
      <4> QED
        BY <2>2, <2>4, <4>1, <4>2
    <3>5. Distinct(Append(kept, x))
      <4>1. \A i \in 1..Len(kept) : kept[i] # x
        <5>1. IsSeq(kept)
          BY <1>4 DEF DropGood
        <5>2. Range(kept) = {kept[i] : i \in 1..Len(kept)}
          BY <5>1, SeqIs
        <5> HIDE DEF x
        <5> QED
          BY <3>3, <5>2
      <4> QED
        BY <1>4, <4>1, AppendIsSeq, SeqIs DEF DropGood, Distinct
    <3> QED
      BY <1>0, <1>4, <3>1, <3>4, <3>5, AppendIsSeq DEF DropGood
  <2> QED
    BY <2>3, <2>4
<1>5. DropGood(a, n, Drop!Fold(a, <<>>, seq))
  BY <1>2, <1>3, <1>4, Drop!FoldKeeps
<1> QED
  BY <1>0, <1>1, <1>2, <1>5 DEF DropGood

-----------------------------------------------------------------------------
(***************************************************************************)
(* Ports that have slots of their own.                                     *)
(***************************************************************************)
PortFields == {"slot", "id", "peripheral", "flags", "value", "display_name", "integer"}

\* A port that has no id yet.
BarePortOk(p) ==
    /\ DOMAIN p = PortFields /\ p.slot \in Slots /\ (p.slot \in VirtualSlots <=> IsVirtual(p))
    /\ IsVirtual(p) <=> p.peripheral = 0
    /\ IsVirtual(p) => "writable" \in p.flags

IdOk(p) == p.id = NoString => DummyId(p.slot) = NoString

PortOk(p) == BarePortOk(p) /\ IdOk(p)

PortsOk(ports) ==
    /\ IsSeq(ports)
    /\ \A i \in 1..Len(ports) : PortOk(ports[i])
    /\ \A i, j \in 1..Len(ports) : ports[i].slot = ports[j].slot => i = j

SlotsIn(ports) == {ports[i].slot : i \in 1..Len(ports)}

LEMMA PortsAppended ==
    ASSUME NEW ports, PortsOk(ports), NEW p, PortOk(p), p.slot \notin SlotsIn(ports)
    PROVE  PortsOk(Append(ports, p)) /\ SlotsIn(Append(ports, p)) = SlotsIn(ports) \cup {p.slot}
<1> DEFINE all == Append(ports, p)
           n   == Len(ports)
<1>1. IsSeq(ports) /\ n \in Nat /\ 1..(n + 1) = 1..n \cup {n + 1}
  BY SeqIs DEF PortsOk
<1>2. IsSeq(all) /\ Len(all) = n + 1 /\ all[n + 1] = p /\ \A i \in 1..n : all[i] = ports[i]
  BY <1>1, AppendIsSeq
<1> HIDE DEF all
<1>3. SlotsIn(all) = SlotsIn(ports) \cup {p.slot}
  BY <1>1, <1>2 DEF SlotsIn
<1>4. \A i \in 1..(n + 1) : PortOk(all[i])
  BY <1>1, <1>2 DEF PortsOk
<1>5. ASSUME NEW i \in 1..(n + 1), NEW j \in 1..(n + 1), all[i].slot = all[j].slot PROVE i = j
  <2>1. CASE i \in 1..n /\ j \in 1..n
    BY <1>2, <1>5, <2>1 DEF PortsOk
  <2>2. CASE i = n + 1 /\ j \in 1..n
    BY <1>2, <1>5, <2>2 DEF SlotsIn
  <2>3. CASE j = n + 1 /\ i \in 1..n
    BY <1>2, <1>5, <2>3 DEF SlotsIn
  <2> QED
    BY <1>1, <2>1, <2>2, <2>3
<1> QED
  BY <1>2, <1>3, <1>4, <1>5 DEF PortsOk, all

LEMMA PortsRemoved ==
    ASSUME NEW ports, PortsOk(ports), NEW i \in 1..Len(ports)
    PROVE  /\ PortsOk(RemoveAt(ports, i))
           /\ SlotsIn(RemoveAt(ports, i)) = SlotsIn(ports) \ {ports[i].slot}
<1> DEFINE left == RemoveAt(ports, i)
           n    == Len(ports)
           At(k) == IF k < i THEN k ELSE k + 1
<1>1. IsSeq(ports) /\ n \in Nat
  BY SeqIs DEF PortsOk
<1>2. IsSeq(left) /\ Len(left) = n - 1 /\ \A k \in 1..(n - 1) : left[k] = ports[At(k)]
  BY <1>1, RemoveIsSeq
<1> HIDE DEF left
<1>3. /\ \A k \in 1..(n - 1) : At(k) \in 1..n \ {i}
      /\ \A k, l \in 1..(n - 1) : At(k) = At(l) => k = l
      /\ \A m \in 1..n \ {i} : \E k \in 1..(n - 1) : m = At(k)
  <2>1. \A k \in 1..(n - 1) : At(k) \in 1..n \ {i}
    BY <1>1
  <2>2. \A k, l \in 1..(n - 1) : At(k) = At(l) => k = l
    BY <1>1
  <2>3. ASSUME NEW m \in 1..n \ {i} PROVE \E k \in 1..(n - 1) : m = At(k)
    <3>1. CASE m < i
      BY <1>1, <3>1
    <3>2. CASE m > i
      <4>1. m - 1 \in 1..(n - 1) /\ m = At(m - 1)
        BY <1>1, <3>2
      <4> QED
        BY <4>1
    <3> QED
      BY <1>1, <3>1, <3>2
  <2> QED
    BY <2>1, <2>2, <2>3
<1> HIDE DEF At
<1>4. SlotsIn(left) = SlotsIn(ports) \ {ports[i].slot}
  <2>1. SlotsIn(left) \subseteq SlotsIn(ports) \ {ports[i].slot}
    <3>1. ASSUME NEW k \in 1..(n - 1)
          PROVE  left[k].slot \in SlotsIn(ports) /\ left[k].slot # ports[i].slot
      <4>1. At(k) \in 1..n /\ At(k) # i /\ left[k] = ports[At(k)]
        BY <1>2, <1>3
      <4> QED
        BY <4>1 DEF SlotsIn, PortsOk
    <3>2. SlotsIn(left) = {left[k].slot : k \in 1..(n - 1)}
      BY <1>2 DEF SlotsIn
    <3> QED
      BY <3>1, <3>2
  <2>2. ASSUME NEW m \in 1..n, ports[m].slot # ports[i].slot PROVE ports[m].slot \in SlotsIn(left)
    <3>1. PICK k \in 1..(n - 1) : m = At(k)
      BY <1>3, <2>2
    <3> QED
      BY <1>2, <3>1 DEF SlotsIn
  <2> QED
    BY <2>1, <2>2 DEF SlotsIn
<1> QED
  BY <1>2, <1>3, <1>4 DEF PortsOk, left

\* Ports in the same slots.
LEMMA PortsChanged ==
    ASSUME NEW ports, PortsOk(ports), NEW changed, changed = [i \in 1..Len(ports) |-> changed[i]],
           \A i \in 1..Len(ports) : PortOk(changed[i]) /\ changed[i].slot = ports[i].slot
    PROVE  PortsOk(changed) /\ SlotsIn(changed) = SlotsIn(ports)
<1>1. Len(ports) \in Nat
  BY SeqIs DEF PortsOk
<1>2. IsSeq(changed) /\ Len(changed) = Len(ports)
  BY <1>1, FunctionIsSeq
<1> QED
  BY <1>2 DEF PortsOk, SlotsIn

LEMMA PortsLeft ==
    ASSUME NEW ports, PortsOk(ports), NEW removed
    PROVE  LET left == Those(LAMBDA p : p \notin removed, ports)
           IN  /\ PortsOk(left) /\ Range(left) = Range(ports) \ removed
               /\ SlotsIn(left) = SlotsIn(ports) \ {p.slot : p \in removed \cap Range(ports)}
<1> DEFINE left == Those(LAMBDA p : p \notin removed, ports)
<1>1. IsSeq(ports) /\ Distinct(ports) /\ Range(ports) = {ports[i] : i \in 1..Len(ports)}
  BY SeqIs DEF PortsOk, Distinct
<1>2. IsSeq(left) /\ Distinct(left) /\ Range(left) = Range(ports) \ removed
  BY <1>1, ThoseLeft
<1> HIDE DEF left
<1>3. Range(left) = {left[i] : i \in 1..Len(left)}
  BY <1>2, SeqIs
<1>4. \A p, q \in Range(ports) : p.slot = q.slot => p = q
  BY <1>1 DEF PortsOk
<1>5. \A p \in Range(ports) : PortOk(p)
  BY <1>1 DEF PortsOk
<1>6. \A i \in 1..Len(left) : left[i] \in Range(ports)
  BY <1>2, <1>3
<1>7. SlotsIn(left) = {p.slot : p \in Range(left)} /\ SlotsIn(ports) = {p.slot : p \in Range(ports)}
  BY <1>1, <1>3 DEF SlotsIn
<1>8. SlotsIn(left) = SlotsIn(ports) \ {p.slot : p \in removed \cap Range(ports)}
  BY <1>2, <1>4, <1>7
<1>9. PortsOk(left)
  BY <1>2, <1>4, <1>5, <1>6 DEF PortsOk, Distinct
<1> QED
  BY <1>2, <1>8, <1>9 DEF left

-----------------------------------------------------------------------------
(***************************************************************************)
(* Which of the ports are those that the peripherals made, and in which    *)
(* order: f has the index of each.                                         *)
(***************************************************************************)
Alike(p, q) ==
    /\ ~IsVirtual(p)
    /\ p.slot = q.slot /\ p.id = q.id /\ p.peripheral = q.peripheral
    /\ q.flags \subseteq p.flags \cap DriverFlags

Placed(f, ports, made) ==
    /\ \A m \in 1..Len(made) : f[m] \in 1..Len(ports) /\ Alike(ports[f[m]], made[m])
    /\ \A l, m \in 1..Len(made) : l < m => f[l] < f[m]
    /\ \A j \in 1..Len(ports) : ~IsVirtual(ports[j]) => \E m \in 1..Len(made) : f[m] = j

Matches(ports, made) == \E f : Placed(f, ports, made)

LEMMA VirtualAppended ==
    ASSUME NEW ports, IsSeq(ports), NEW made, Matches(ports, made), NEW p, IsVirtual(p)
    PROVE  Matches(Append(ports, p), made)
<1> DEFINE all == Append(ports, p)
<1>1. PICK f : Placed(f, ports, made)
  BY DEF Matches
<1>2. /\ Len(ports) \in Nat /\ Len(all) = Len(ports) + 1 /\ all[Len(ports) + 1] = p
      /\ \A i \in 1..Len(ports) : all[i] = ports[i]
  BY AppendIsSeq, SeqIs
<1> HIDE DEF all
<1>3. Placed(f, all, made)
  <2>1. ASSUME NEW m \in 1..Len(made) PROVE f[m] \in 1..Len(all) /\ Alike(all[f[m]], made[m])
    <3>1. f[m] \in 1..Len(ports) /\ Alike(ports[f[m]], made[m])
      BY <1>1 DEF Placed
    <3> QED
      BY <1>2, <3>1
  <2>2. ASSUME NEW j \in 1..Len(all), ~IsVirtual(all[j]) PROVE \E m \in 1..Len(made) : f[m] = j
    <3>1. j \in 1..Len(ports) /\ ~IsVirtual(ports[j])
      BY <1>2, <2>2
    <3> QED
      BY <1>1, <3>1 DEF Placed
  <2>3. \A l, m \in 1..Len(made) : l < m => f[l] < f[m]
    BY <1>1 DEF Placed
  <2> QED
    BY <2>1, <2>2, <2>3 DEF Placed
<1> QED
  BY <1>3 DEF Matches, all

LEMMA MadeAppended ==
    ASSUME NEW ports, IsSeq(ports), NEW made, IsSeq(made), Matches(ports, made), NEW p, NEW q, Alike(p, q)
    PROVE  Matches(Append(ports, p), Append(made, q))
<1> DEFINE all == Append(ports, p)
           now == Append(made, q)
           n   == Len(ports)
           c   == Len(made)
<1>1. PICK f : Placed(f, ports, made)
  BY DEF Matches
<1>2. n \in Nat /\ Len(all) = n + 1 /\ all[n + 1] = p /\ \A i \in 1..n : all[i] = ports[i]
  BY AppendIsSeq, SeqIs
<1>3. c \in Nat /\ Len(now) = c + 1 /\ now[c + 1] = q /\ \A i \in 1..c : now[i] = made[i]
  BY AppendIsSeq, SeqIs
<1> HIDE DEF all, now
<1> DEFINE g == [m \in 1..(c + 1) |-> IF m = c + 1 THEN n + 1 ELSE f[m]]
<1>4. g[c + 1] = n + 1 /\ \A m \in 1..c : g[m] = f[m]
  BY <1>3
<1> HIDE DEF g
<1>5. ASSUME NEW m \in 1..(c + 1) PROVE g[m] \in 1..(n + 1) /\ Alike(all[g[m]], now[m])
  <2>1. CASE m = c + 1
    BY <1>2, <1>3, <1>4, <2>1
  <2>2. CASE m \in 1..c
    BY <1>1, <1>2, <1>3, <1>4, <2>2 DEF Placed
  <2> QED
    BY <1>3, <2>1, <2>2
<1>6. ASSUME NEW l \in 1..(c + 1), NEW m \in 1..(c + 1), l < m PROVE g[l] < g[m]
  <2>1. l \in 1..c
    BY <1>3, <1>6
  <2>2. f[l] \in 1..n /\ g[l] = f[l]
    BY <1>1, <1>4, <2>1 DEF Placed
  <2>3. CASE m = c + 1
    BY <1>2, <1>4, <2>2, <2>3
  <2>4. CASE m \in 1..c
    BY <1>1, <1>4, <1>6, <2>1, <2>4 DEF Placed
  <2> QED
    BY <1>3, <2>3, <2>4
<1>7. ASSUME NEW j \in 1..(n + 1), ~IsVirtual(all[j]) PROVE \E m \in 1..(c + 1) : g[m] = j
  <2>1. CASE j = n + 1
    BY <1>3, <1>4, <2>1
  <2>2. CASE j \in 1..n
    BY <1>1, <1>2, <1>3, <1>4, <1>7, <2>2 DEF Placed
  <2> QED
    BY <1>2, <2>1, <2>2
<1>8. Placed(g, all, now)
  BY <1>2, <1>3, <1>5, <1>6, <1>7 DEF Placed
<1> QED
  BY <1>8 DEF Matches, all, now

LEMMA VirtualRemoved ==
    ASSUME NEW ports, IsSeq(ports), NEW made, Matches(ports, made), NEW i \in 1..Len(ports), IsVirtual(ports[i])
    PROVE  Matches(RemoveAt(ports, i), made)
<1> DEFINE left == RemoveAt(ports, i)
           n    == Len(ports)
           c    == Len(made)
<1>1. PICK f : Placed(f, ports, made)
  BY DEF Matches
<1>2. n \in Nat /\ Len(left) = n - 1 /\ \A k \in 1..(n - 1) : left[k] = ports[IF k < i THEN k ELSE k + 1]
  BY RemoveIsSeq, SeqIs
<1> HIDE DEF left
<1> DEFINE g == [m \in 1..c |-> IF f[m] < i THEN f[m] ELSE f[m] - 1]
<1>3. \A m \in 1..c : f[m] \in 1..n /\ f[m] # i /\ Alike(ports[f[m]], made[m])
  BY <1>1 DEF Placed, Alike
<1>4. \A m \in 1..c : g[m] = IF f[m] < i THEN f[m] ELSE f[m] - 1
  OBVIOUS
<1> HIDE DEF g
<1>5. ASSUME NEW m \in 1..c PROVE g[m] \in 1..(n - 1) /\ left[g[m]] = ports[f[m]]
  <2>1. CASE f[m] < i
    BY <1>2, <1>3, <1>4, <2>1
  <2>2. CASE f[m] > i
    <3>1. g[m] = f[m] - 1 /\ f[m] - 1 \in 1..(n - 1) /\ ~(f[m] - 1 < i) /\ (f[m] - 1) + 1 = f[m]
      BY <1>2, <1>3, <1>4, <2>2
    <3> QED
      BY <1>2, <3>1
  <2> QED
    BY <1>3, <2>1, <2>2
<1>6. ASSUME NEW l \in 1..c, NEW m \in 1..c, l < m PROVE g[l] < g[m]
  <2>1. f[l] < f[m]
    BY <1>1, <1>6 DEF Placed
  <2>2. f[l] \in Int /\ f[m] \in Int /\ f[l] # i /\ f[m] # i /\ i \in Int
    BY <1>2, <1>3
  <2> QED
    BY <1>4, <2>1, <2>2
<1>7. ASSUME NEW j \in 1..(n - 1), ~IsVirtual(left[j]) PROVE \E m \in 1..c : g[m] = j
  <2> DEFINE k == IF j < i THEN j ELSE j + 1
  <2>1. k \in 1..n /\ left[j] = ports[k]
    <3>1. k \in 1..n
      BY <1>2
    <3>2. left[j] = ports[IF j < i THEN j ELSE j + 1]
      BY <1>2
    <3> QED
      BY <3>1, <3>2
  <2>2. PICK m \in 1..c : f[m] = k
    BY <1>1, <1>7, <2>1 DEF Placed
  <2>3. CASE j < i
    <3>1. f[m] = j
      BY <2>2, <2>3
    <3> QED
      BY <1>4, <2>3, <3>1
  <2>4. CASE ~(j < i)
    <3>1. f[m] = j + 1 /\ ~(j + 1 < i) /\ (j + 1) - 1 = j
      BY <1>2, <2>2, <2>4
    <3> QED
      BY <1>4, <3>1
  <2> QED
    BY <2>3, <2>4
<1>8. Placed(g, left, made)
  BY <1>2, <1>3, <1>5, <1>6, <1>7 DEF Placed
<1> QED
  BY <1>8 DEF Matches, left

LEMMA MadeChanged ==
    ASSUME NEW ports, IsSeq(ports), NEW made, Matches(ports, made),
           NEW changed, changed = [i \in 1..Len(ports) |-> changed[i]],
           \A i \in 1..Len(ports) :
               /\ changed[i].slot = ports[i].slot /\ changed[i].id = ports[i].id
               /\ changed[i].peripheral = ports[i].peripheral
               /\ changed[i].flags \cap DriverFlags = ports[i].flags \cap DriverFlags
    PROVE  Matches(changed, made)
<1>1. PICK f : Placed(f, ports, made)
  BY DEF Matches
<1>2. Len(changed) = Len(ports)
  BY FunctionIsSeq, SeqIs
<1>3. \A i \in 1..Len(ports) : IsVirtual(changed[i]) <=> IsVirtual(ports[i])
  BY DEF IsVirtual, DriverFlags
<1>4. \A i \in 1..Len(ports) : \A q : Alike(ports[i], q) => Alike(changed[i], q)
  BY <1>3 DEF Alike
<1>5. Placed(f, changed, made)
  BY <1>1, <1>2, <1>3, <1>4 DEF Placed
<1> QED
  BY <1>5 DEF Matches

\* The ports that are not virtual, up to what can be changed of them.
Identities(ports) ==
    {[id |-> p.id, slot |-> p.slot, peripheral |-> p.peripheral] : p \in {q \in Range(ports) : ~IsVirtual(q)}}

LEMMA MadeIdentities ==
    ASSUME NEW ports, IsSeq(ports), NEW made, Matches(ports, made)
    PROVE  Identities(ports) =
               {[id |-> made[m].id, slot |-> made[m].slot, peripheral |-> made[m].peripheral] : m \in 1..Len(made)}
<1> DEFINE Identity(p) == [id |-> p.id, slot |-> p.slot, peripheral |-> p.peripheral]
<1>1. PICK f : Placed(f, ports, made)
  BY DEF Matches
<1>2. Range(ports) = {ports[i] : i \in 1..Len(ports)}
  BY SeqIs
<1>3. \A m \in 1..Len(made) : /\ f[m] \in 1..Len(ports) /\ ~IsVirtual(ports[f[m]])
                              /\ Identity(ports[f[m]]) = Identity(made[m])
  BY <1>1 DEF Placed, Alike
<1>4. Identities(ports) = {Identity(ports[j]) : j \in {k \in 1..Len(ports) : ~IsVirtual(ports[k])}}
  BY <1>2 DEF Identities
<1>5. \A j \in 1..Len(ports) : ~IsVirtual(ports[j]) => \E m \in 1..Len(made) : f[m] = j
  BY <1>1 DEF Placed
<1> HIDE DEF Identity
<1>6. Identities(ports) = {Identity(made[m]) : m \in 1..Len(made)}
  BY <1>3, <1>4, <1>5
<1> QED
  BY <1>6 DEF Identity

\* The ports of one peripheral, in order: g has the index of each.
OwnedStep(a, kept, p) == IF p.peripheral = a.index THEN Append(kept, p) ELSE kept

OwnedGood(a, k, kept) ==
    /\ IsSeq(kept) /\ Len(kept) \in 0..a.n
    /\ \A x \in 1..Len(kept) : kept[x] = a.seq[a.g[x]]
    /\ \A x \in 1..a.n : x <= Len(kept) <=> a.g[x] <= k

Owned == INSTANCE FoldInduction WITH Step <- OwnedStep, Good <- OwnedGood

OwnedPorts(seq, index) == Those(LAMBDA p : p.peripheral = index, seq)

Enumerates(g, n, seq, index) ==
    /\ n \in Nat /\ \A x \in 1..n : g[x] \in 1..Len(seq) /\ seq[g[x]].peripheral = index
    /\ \A x, y \in 1..n : x < y => g[x] < g[y]
    /\ \A i \in 1..Len(seq) : seq[i].peripheral = index => \E x \in 1..n : g[x] = i

LEMMA OwnedAre ==
    ASSUME NEW seq, IsSeq(seq), NEW index, NEW n, NEW g, Enumerates(g, n, seq, index)
    PROVE  LET owned == OwnedPorts(seq, index)
           IN  IsSeq(owned) /\ Len(owned) = n /\ \A x \in 1..n : owned[x] = seq[g[x]]
<1> USE DEF Enumerates
<1> DEFINE a     == [index |-> index, n |-> n, g |-> g, seq |-> seq]
           owned == OwnedPorts(seq, index)
           l     == Len(seq)
<1>1. owned = Owned!Fold(a, <<>>, seq)
  BY DEF OwnedPorts, Those, Owned!Fold, OwnedStep, FoldLeft, MapThenFoldSet, Max,
         Owned!MapThenFoldSet, Owned!Largest
<1>2. l \in Nat /\ DOMAIN seq = 1..l
  BY SeqIs
<1>3. a.index = index /\ a.n = n /\ a.g = g /\ a.seq = seq
  OBVIOUS
<1> HIDE DEF a, owned
<1>4. OwnedGood(a, 0, <<>>)
  <2>1. \A x \in 1..n : ~(x <= 0) /\ ~(g[x] <= 0)
    BY <1>2
  <2> QED
    BY <1>3, <2>1, EmptyIsSeq DEF OwnedGood
<1>5. ASSUME NEW k \in 0..(l - 1), NEW kept, OwnedGood(a, k, kept)
      PROVE  OwnedGood(a, k + 1, OwnedStep(a, kept, seq[k + 1]))
  <2> DEFINE d == Len(kept)
             p == seq[k + 1]
  <2>1. /\ IsSeq(kept) /\ d \in 0..n /\ \A x \in 1..d : kept[x] = seq[g[x]]
        /\ \A x \in 1..n : x <= d <=> g[x] <= k
    BY <1>3, <1>5 DEF OwnedGood
  <2>2. k \in Nat /\ k + 1 \in 1..l /\ \A x \in 1..n : g[x] \in Nat
    BY <1>2
  <2>3. CASE p.peripheral = index
    <3>1. PICK x \in 1..n : g[x] = k + 1
      BY <2>2, <2>3
    <3>2. x = d + 1
      <4>1. x > d
        BY <2>1, <2>2, <3>1
      <4>2. CASE d + 1 < x
        <5>1. d + 1 \in 1..n /\ g[d + 1] < k + 1
          BY <2>1, <3>1, <4>2
        <5>2. g[d + 1] <= k
          BY <2>2, <5>1
        <5>3. d + 1 <= d
          BY <2>1, <5>1, <5>2
        <5> QED
          BY <2>1, <5>3
      <4> QED
        BY <2>1, <4>1, <4>2
    <3>3. OwnedStep(a, kept, p) = Append(kept, p)
      BY <1>3, <2>3 DEF OwnedStep
    <3> DEFINE now == Append(kept, p)
    <3>4. IsSeq(now) /\ Len(now) = d + 1 /\ now[d + 1] = p /\ \A y \in 1..d : now[y] = kept[y]
      BY <2>1, AppendIsSeq
    <3> HIDE DEF now
    <3>5. \A y \in 1..(d + 1) : now[y] = seq[g[y]]
      BY <2>1, <3>1, <3>2, <3>4
    <3>6. ASSUME NEW y \in 1..n PROVE y <= d + 1 <=> g[y] <= k + 1
      <4>1. CASE y <= d
        BY <2>1, <2>2, <4>1
      <4>2. CASE y = d + 1
        BY <2>1, <2>2, <3>1, <3>2, <4>2
      <4>3. CASE y > d + 1
        <5>1. g[y] > k + 1
          BY <2>2, <3>1, <3>2, <4>3
        <5> QED
          BY <2>1, <2>2, <4>3, <5>1
      <4> QED
        BY <2>1, <4>1, <4>2, <4>3
    <3>7. d + 1 \in 0..n
      BY <2>1, <3>2
    <3>8. OwnedGood(a, k + 1, now)
      BY <1>3, <3>4, <3>5, <3>6, <3>7 DEF OwnedGood
    <3> QED
      BY <3>3, <3>8 DEF now
  <2>4. CASE p.peripheral # index
    <3>1. OwnedStep(a, kept, p) = kept
      BY <1>3, <2>4 DEF OwnedStep
    <3>2. \A y \in 1..n : g[y] # k + 1
      BY <2>4
    <3>3. \A y \in 1..n : g[y] <= k + 1 <=> g[y] <= k
      BY <2>2, <3>2
    <3> QED
      BY <1>3, <2>1, <3>1, <3>3 DEF OwnedGood
  <2> QED
    BY <2>3, <2>4
<1>6. OwnedGood(a, l, owned)
  BY <1>1, <1>2, <1>4, <1>5, Owned!FoldKeeps
<1>7. Len(owned) = n
  <2>1. \A x \in 1..n : x <= Len(owned)
    BY <1>2, <1>3, <1>6 DEF OwnedGood
  <2>2. Len(owned) \in 0..n
    BY <1>3, <1>6 DEF OwnedGood
  <2>3. CASE n = 0
    BY <2>2, <2>3
  <2>4. CASE n > 0
    <3>1. n \in 1..n
      BY <2>4
    <3> QED
      BY <2>1, <2>2, <3>1
  <2> QED
    BY <2>3, <2>4
<1> QED
  BY <1>3, <1>6, <1>7 DEF OwnedGood, owned

-----------------------------------------------------------------------------
(***************************************************************************)
(* How the ports of peripherals are made: a port's slot is determined by   *)
(* those of the ports that were made before it.                            *)
(***************************************************************************)
WantedSlot(r, p) == IF p.slot >= 0 /\ ~Busy(r, p.slot) THEN p.slot ELSE ports_next_slot(r)

MadePort(r, p, index, id) ==
    LET slot == WantedSlot(r, p)
    IN  [slot |-> slot, id |-> IF id = NoString THEN DummyId(slot) ELSE id,
         peripheral |-> index, flags |-> p.flags]

\* The slots that are busy when m of the ports are made.
Before(made, m) == [used_slots |-> {made[x].slot : x \in 1..m}]

\* c has, for each peripheral, the number of ports that it and those before it made.
LaidGroup(c, i, type, made) ==
    LET n == c[i] - c[i - 1]
    IN  /\ n \in 0..Len(PortsOf[type])
        /\ n < Len(PortsOf[type]) => FreeSlots(Before(made, c[i])) = {}
        /\ \A j \in 1..n :
               LET m == c[i - 1] + j
               IN  /\ FreeSlots(Before(made, m - 1)) # {}
                   /\ made[m] = MadePort(Before(made, m - 1), PortsOf[type][j], i, made[m].id)

Laid(c, ps, made) ==
    /\ c[0] = 0 /\ c[Len(ps)] = Len(made)
    /\ \A i \in 0..Len(ps) : c[i] \in Nat /\ c[i] <= Len(made)
    /\ \A i \in 1..Len(ps) : LaidGroup(c, i, ps[i].type, made)
    /\ \A m \in 1..Len(made) :
           LET i == made[m].peripheral IN i \in 1..Len(ps) /\ c[i - 1] < m /\ m <= c[i]

LEMMA SameSlot ==
    ASSUME NEW r, NEW t, FreeSlots(r) = FreeSlots(t), NEW p, p.slot \in -1..(Virtual0 - 1)
    PROVE  WantedSlot(r, p) = WantedSlot(t, p)
<1>1. p.slot >= 0 => p.slot \in 0..(Virtual0 - 1)
  BY StorageAssumption
<1>2. p.slot >= 0 => (Busy(r, p.slot) <=> Busy(t, p.slot))
  BY <1>1 DEF FreeSlots, Busy
<1>3. ports_next_slot(r) = ports_next_slot(t)
  BY DEF ports_next_slot
<1> QED
  BY <1>2, <1>3 DEF WantedSlot

\* The slots that are free for peripherals are those that no port of one has.
LEMMA FreeAre ==
    ASSUME NEW ports, PortsOk(ports), NEW r, r.used_slots = SlotsIn(ports),
           NEW made, IsSeq(made), Matches(ports, made)
    PROVE  FreeSlots(r) = FreeSlots(Before(made, Len(made)))
<1> DEFINE c == Len(made)
           U == {made[x].slot : x \in 1..c}
<1>1. PICK f : Placed(f, ports, made)
  BY DEF Matches
<1>2. ASSUME NEW s \in 0..(Virtual0 - 1) PROVE s \in SlotsIn(ports) <=> s \in U
  <2>1. ASSUME NEW i \in 1..Len(ports), ports[i].slot = s PROVE s \in U
    <3>1. ~IsVirtual(ports[i])
      BY <2>1, StorageAssumption DEF PortsOk, PortOk, BarePortOk, VirtualSlots
    <3>2. PICK m \in 1..c : f[m] = i
      BY <1>1, <3>1 DEF Placed
    <3> QED
      BY <1>1, <2>1, <3>2 DEF Placed, Alike
  <2>2. ASSUME NEW m \in 1..c, made[m].slot = s PROVE s \in SlotsIn(ports)
    BY <1>1, <2>2 DEF Placed, Alike, SlotsIn
  <2> QED
    BY <2>1, <2>2 DEF SlotsIn
<1>3. Before(made, c).used_slots = U
  BY DEF Before
<1> HIDE DEF U
<1> QED
  BY <1>2, <1>3 DEF FreeSlots

\* Only the first m of what was made matter to what is busy then.
LEMMA SameBefore ==
    ASSUME NEW made, NEW more, NEW m \in Nat, \A x \in 1..m : more[x] = made[x]
    PROVE  Before(more, m) = Before(made, m)
BY DEF Before

\* The ports of a further peripheral.
LEMMA LaidMore ==
    ASSUME NEW c, NEW ps, IsSeq(ps), NEW made, IsSeq(made), Laid(c, ps, made),
           NEW peripheral, NEW more, IsSeq(more), NEW n \in Nat, Len(more) = Len(made) + n,
           \A x \in 1..Len(made) : more[x] = made[x],
           n <= Len(PortsOf[peripheral.type]), Len(PortsOf[peripheral.type]) \in Nat,
           n < Len(PortsOf[peripheral.type]) => FreeSlots(Before(more, Len(more))) = {},
           \A j \in 1..n :
               /\ FreeSlots(Before(more, Len(made) + j - 1)) # {}
               /\ more[Len(made) + j] = MadePort(Before(more, Len(made) + j - 1), PortsOf[peripheral.type][j],
                                                 Len(ps) + 1, more[Len(made) + j].id)
    PROVE  \E d : Laid(d, Append(ps, peripheral), more)
<1> DEFINE l   == Len(ps)
           all == Append(ps, peripheral)
           d   == [i \in 0..(l + 1) |-> IF i = l + 1 THEN Len(more) ELSE c[i]]
<1>1. l \in Nat /\ Len(made) \in Nat /\ Len(more) \in Nat
  BY SeqIs
<1>2. Len(all) = l + 1 /\ all[l + 1] = peripheral /\ \A i \in 1..l : all[i] = ps[i]
  BY AppendIsSeq
<1>3. d[l + 1] = Len(more) /\ \A i \in 0..l : d[i] = c[i]
  BY <1>1
<1> HIDE DEF all, d
<1>4. c[0] = 0 /\ c[l] = Len(made) /\ \A i \in 0..l : c[i] \in Nat /\ c[i] <= Len(made)
  BY DEF Laid
<1>5. d[0] = 0 /\ d[l + 1] = Len(more) /\ \A i \in 0..(l + 1) : d[i] \in Nat /\ d[i] <= Len(more)
  <2>1. ASSUME NEW i \in 0..(l + 1) PROVE d[i] \in Nat /\ d[i] <= Len(more)
    <3>1. CASE i = l + 1
      BY <1>1, <1>3, <3>1
    <3>2. CASE i \in 0..l
      <4>1. c[i] \in Nat /\ c[i] <= Len(made) /\ d[i] = c[i]
        BY <1>3, <1>4, <3>2
      <4> QED
        BY <1>1, <4>1
    <3> QED
      BY <1>1, <3>1, <3>2
  <2>2. d[0] = 0
    BY <1>1, <1>3, <1>4
  <2> QED
    BY <1>3, <2>1, <2>2
<1>6. ASSUME NEW i \in 1..(l + 1) PROVE LaidGroup(d, i, all[i].type, more)
  <2>1. CASE i = l + 1
    <3>1. d[i] = Len(more) /\ d[i - 1] = Len(made) /\ d[i] - d[i - 1] = n /\ all[i] = peripheral
      <4>1. i - 1 = l /\ l \in 0..l
        BY <1>1, <2>1
      <4>2. d[i] = Len(more) /\ d[i - 1] = Len(made)
        BY <1>3, <1>4, <2>1, <4>1
      <4> QED
        BY <1>1, <1>2, <2>1, <4>2
    <3> DEFINE w == PortsOf[peripheral.type]
    <3>2. n \in 0..Len(w)
      OBVIOUS
    <3> QED
      BY <2>1, <3>1, <3>2 DEF LaidGroup
  <2>2. CASE i \in 1..l
    <3>1. LaidGroup(c, i, ps[i].type, made)
      BY <2>2 DEF Laid
    <3>2. all[i] = ps[i] /\ d[i] = c[i] /\ d[i - 1] = c[i - 1] /\ c[i] \in Nat /\ c[i - 1] \in Nat /\ c[i] <= Len(made)
      BY <1>1, <1>2, <1>3, <1>4, <2>2
    <3>3. \A m \in 0..c[i] : Before(more, m) = Before(made, m)
      <4> TAKE m \in 0..c[i]
      <4>1. m \in Nat /\ \A x \in 1..m : more[x] = made[x]
        BY <1>1, <3>2
      <4> QED
        BY <4>1, SameBefore
    <3> DEFINE k == c[i] - c[i - 1]
    <3>5. FreeSlots(Before(more, c[i])) = FreeSlots(Before(made, c[i]))
      <4>1. c[i] \in 0..c[i]
        BY <3>2
      <4>2. Before(more, c[i]) = Before(made, c[i])
        BY <3>3, <4>1
      <4> QED
        BY <4>2
    <3>6. ASSUME NEW j \in 1..k
          PROVE  LET m == c[i - 1] + j
                 IN  /\ FreeSlots(Before(more, m - 1)) # {}
                     /\ more[m] = MadePort(Before(more, m - 1), PortsOf[ps[i].type][j], i, more[m].id)
      <4> DEFINE m == c[i - 1] + j
      <4>1. m \in 1..Len(made) /\ m - 1 \in 0..c[i]
        <5>1. \A p, q, h, e \in Nat : e \in 1..(p - q) /\ p <= h => q + e \in 1..h /\ (q + e) - 1 \in 0..p
          OBVIOUS
        <5>2. j \in Nat /\ j \in 1..(c[i] - c[i - 1])
          OBVIOUS
        <5>3. Len(made) \in Nat
          BY <1>1
        <5>4. c[i - 1] + j \in 1..Len(made) /\ (c[i - 1] + j) - 1 \in 0..c[i]
          BY <3>2, <5>1, <5>2, <5>3
        <5> QED
          BY <5>4
      <4> HIDE DEF m
      <4>2. more[m] = made[m] /\ Before(more, m - 1) = Before(made, m - 1)
        BY <3>3, <4>1
      <4>3. /\ FreeSlots(Before(made, m - 1)) # {}
            /\ made[m] = MadePort(Before(made, m - 1), PortsOf[ps[i].type][j], i, made[m].id)
        BY <3>1 DEF LaidGroup, m
      <4> QED
        BY <4>2, <4>3 DEF m
    <3> QED
      BY <3>1, <3>2, <3>5, <3>6 DEF LaidGroup
  <2> QED
    BY <1>1, <2>1, <2>2
<1>7. ASSUME NEW m \in 1..Len(more)
      PROVE  LET i == more[m].peripheral IN i \in 1..(l + 1) /\ d[i - 1] < m /\ m <= d[i]
  <2>1. CASE m \in 1..Len(made)
    <3> DEFINE i == made[m].peripheral
    <3>1. i \in 1..l /\ c[i - 1] < m /\ m <= c[i]
      BY <2>1 DEF Laid
    <3> HIDE DEF i
    <3>3. i \in 0..l /\ i - 1 \in 0..l /\ i \in 1..(l + 1)
      BY <1>1, <3>1
    <3>2. d[i] = c[i] /\ d[i - 1] = c[i - 1] /\ i \in 1..(l + 1)
      BY <1>3, <3>3
    <3> QED
      BY <2>1, <3>1, <3>2 DEF i
  <2>2. CASE m > Len(made)
    <3>1. m - Len(made) \in 1..n /\ Len(made) + (m - Len(made)) = m
      BY <1>1, <2>2
    <3> DEFINE j == m - Len(made)
    <3>2. more[m] = MadePort(Before(more, m - 1), PortsOf[peripheral.type][j], l + 1, more[m].id)
      BY <3>1
    <3>3. more[m].peripheral = l + 1
      BY <3>2 DEF MadePort
    <3>4. d[l] = Len(made) /\ (l + 1) - 1 = l
      BY <1>1, <1>3, <1>4
    <3> QED
      BY <1>1, <1>3, <2>2, <3>3, <3>4
  <2> QED
    BY <1>1, <2>1, <2>2
<1>8. Laid(d, all, more)
  BY <1>2, <1>5, <1>6, <1>7 DEF Laid
<1> QED
  BY <1>8 DEF all
\* No peripheral, and no port of one.
LEMMA NothingPlaced ==
    ASSUME NEW ports, \A i \in 1..Len(ports) : IsVirtual(ports[i])
    PROVE  Matches(ports, <<>>)
<1>1. Placed([m \in {} |-> 0], ports, <<>>)
  BY EmptyIsSeq DEF Placed
<1> QED
  BY <1>1 DEF Matches

LEMMA NothingLaid == \E c : Laid(c, <<>>, <<>>)
<1> DEFINE c == [i \in {0} |-> 0]
<1>1. c[0] = 0 /\ Len(<<>>) = 0 /\ 0..0 = {0} /\ 1..0 = {}
  BY EmptyIsSeq
<1> HIDE DEF c
<1>2. Laid(c, <<>>, <<>>)
  BY <1>1 DEF Laid
<1> QED
  BY <1>2

-----------------------------------------------------------------------------
(***************************************************************************)
(* What is in memory, and the ports that are added to it.                  *)
(***************************************************************************)
RamFields == {"ports", "used_slots", "peripherals", "device", "system", "system_slot",
              "provisioning", "needs_saving", "connected"}

DeviceStrings == {"name", "display_name", "config_name"}

DeviceOk(device) ==
    /\ device = [field \in DOMAIN device |-> device[field]] /\ DOMAIN device = DeviceStrings \cup {"version"}
    /\ \A field \in DeviceStrings : device[field] # NoString

PeripheralOk(p) == p # NoPart /\ p.type \in DOMAIN PortsOf

PeripheralsOk(ps) ==
    IsSeq(ps) /\ Len(ps) <= PeripheralMax /\ \A i \in 1..Len(ps) : PeripheralOk(ps[i])

RamOk(r) ==
    /\ DOMAIN r = RamFields
    /\ PortsOk(r.ports) /\ r.used_slots = SlotsIn(r.ports)
    /\ PeripheralsOk(r.peripherals) /\ DeviceOk(r.device)

\* The ports of peripherals are those that were made, in order.
Made(r, made) == RamOk(r) /\ IsSeq(made) /\ Matches(r.ports, made)

\* RamOk is about the ports, their slots, the peripherals and the device.
LEMMA SameParts ==
    ASSUME NEW r, NEW made, Made(r, made), NEW t, DOMAIN t = RamFields,
           t.ports = r.ports, t.used_slots = r.used_slots, t.peripherals = r.peripherals, DeviceOk(t.device)
    PROVE  Made(t, made)
BY DEF RamOk, Made

LEMMA VirtualSlotsAre == VirtualSlots \subseteq Slots /\ 0..(Virtual0 - 1) = Slots \ VirtualSlots
BY StorageAssumption DEF VirtualSlots, Slots

\* The port that is registered, with its id.
WithId(p) == IF p.id = NoString THEN [p EXCEPT !.id = DummyId(p.slot)] ELSE p

LEMMA Registered ==
    ASSUME NEW r, RamOk(r), NEW p, BarePortOk(p), p.slot \notin r.used_slots
    PROVE  LET s == port_register(r, p)
           IN  /\ RamOk(s) /\ s.peripherals = r.peripherals /\ s.device = r.device
               /\ s.ports = Append(r.ports, WithId(p))
               /\ s.used_slots = r.used_slots \cup {p.slot}
<1> DEFINE q == WithId(p)
           s == port_register(r, p)
<1>1. PortOk(q) /\ q.slot = p.slot
  BY DEF PortOk, BarePortOk, IdOk, PortFields, IsVirtual, WithId
<1>2. s = [r EXCEPT !.ports = Append(@, q), !.used_slots = @ \cup {p.slot}]
  BY DEF port_register, WithId
<1> HIDE DEF q, s
<1>3. /\ DOMAIN s = RamFields /\ s.ports = Append(r.ports, q) /\ s.peripherals = r.peripherals
      /\ s.used_slots = r.used_slots \cup {p.slot} /\ s.device = r.device
  BY <1>2 DEF RamOk, RamFields
<1>4. PortsOk(s.ports) /\ SlotsIn(s.ports) = r.used_slots \cup {p.slot}
  BY <1>1, <1>3, PortsAppended DEF RamOk
<1> QED
  BY <1>3, <1>4 DEF RamOk, s, q

LEMMA SlotFound ==
    ASSUME NEW r, FreeSlots(r) # {}
    PROVE  ports_next_slot(r) \in FreeSlots(r)
<1> DEFINE extra == {s \in FreeSlots(r) : s >= Extra0}
           S     == IF extra = {} THEN FreeSlots(r) ELSE extra
<1>1. S \in SUBSET Nat /\ S # {} /\ S \subseteq FreeSlots(r)
  BY StorageAssumption DEF FreeSlots
<1>2. ports_next_slot(r) = Min(S)
  BY DEF ports_next_slot
<1> HIDE DEF S
<1> QED
  BY <1>1, <1>2, MinIs

\* A port as it is made.
PortOf(m) == [port_new EXCEPT !.slot = m.slot, !.id = m.id, !.peripheral = m.peripheral, !.flags = m.flags]

\* There are no other ports than those that were made, and they are as they were made.
AllNew(ports, made) == Len(ports) = Len(made) /\ \A x \in 1..Len(made) : ports[x] = PortOf(made[x])

LEMMA NewAppended ==
    ASSUME NEW ports, IsSeq(ports), NEW made, IsSeq(made), AllNew(ports, made), NEW m
    PROVE  AllNew(Append(ports, PortOf(m)), Append(made, m))
<1> DEFINE n == Len(ports)
           p == PortOf(m)
           all == Append(ports, p)
           now == Append(made, m)
<1>1. n \in Nat /\ Len(made) = n
  BY SeqIs DEF AllNew
<1> HIDE DEF p
<1>2. Len(all) = n + 1 /\ all[n + 1] = p /\ \A x \in 1..n : all[x] = ports[x]
  BY AppendIsSeq
<1>3. Len(now) = n + 1 /\ now[n + 1] = m /\ \A x \in 1..n : now[x] = made[x]
  BY <1>1, AppendIsSeq
<1> HIDE DEF all, now
<1>4. \A x \in 1..(n + 1) : x = n + 1 \/ x \in 1..n
  BY <1>1
<1>5. \A x \in 1..n : all[x] = PortOf(now[x])
  BY <1>1, <1>2, <1>3 DEF AllNew
<1>6. all[n + 1] = PortOf(now[n + 1])
  BY <1>2, <1>3 DEF p
<1>7. \A x \in 1..(n + 1) : all[x] = PortOf(now[x])
  BY <1>4, <1>5, <1>6
<1> QED
  BY <1>2, <1>3, <1>7 DEF AllNew, all, now, p

DriverPortOk(p) == p.slot \in -1..(Virtual0 - 1) /\ p.flags \subseteq DriverFlags \ {"virtual"}

\* A port of a peripheral, if there is a slot for it.
LEMMA PortMade ==
    ASSUME NEW r, NEW made, Made(r, made), FreeSlots(r) # {}, NEW p, DriverPortOk(p),
           NEW index \in Nat \ {0}, NEW id
    PROVE  LET s == RegisterPort(r, p, index, id)
               m == MadePort(r, p, index, id)
           IN  /\ Made(s, Append(made, m)) /\ s.peripherals = r.peripherals /\ s.device = r.device
               /\ s.ports = Append(r.ports, PortOf(m))
               /\ s.used_slots \cap VirtualSlots = r.used_slots \cap VirtualSlots
<1> DEFINE slot == WantedSlot(r, p)
           q    == [port_new EXCEPT !.slot = slot, !.id = id, !.peripheral = index, !.flags = p.flags]
           s    == RegisterPort(r, p, index, id)
           m    == MadePort(r, p, index, id)
           w    == WithId(q)
<1>0. RamOk(r) /\ IsSeq(made) /\ Matches(r.ports, made)
  BY DEF Made
<1>1. s = port_register(r, q)
  BY DEF RegisterPort, WantedSlot
<1>2. slot \in 0..(Virtual0 - 1) /\ slot \notin r.used_slots
  <2>1. CASE p.slot >= 0 /\ ~Busy(r, p.slot)
    BY <2>1, StorageAssumption DEF Busy, WantedSlot, DriverPortOk
  <2>2. CASE ~(p.slot >= 0 /\ ~Busy(r, p.slot))
    BY <2>2, SlotFound DEF FreeSlots, WantedSlot
  <2> QED
    BY <2>1, <2>2
<1>3. m = [slot |-> slot, id |-> IF id = NoString THEN DummyId(slot) ELSE id, peripheral |-> index, flags |-> p.flags]
  BY DEF MadePort
<1> HIDE DEF slot, m
<1>4. DOMAIN q = PortFields /\ q.slot = slot /\ q.flags = p.flags /\ q.id = id /\ q.peripheral = index
  BY DEF port_new, PortFields
<1> HIDE DEF q
<1>5. BarePortOk(q)
  <2>1. ~IsVirtual(q)
    BY <1>4 DEF IsVirtual, DriverPortOk
  <2>2. q.slot \in Slots /\ q.slot \notin VirtualSlots
    BY <1>2, <1>4, VirtualSlotsAre
  <2> QED
    BY <1>4, <2>1, <2>2 DEF BarePortOk
<1>6. Alike(w, m)
  <2>1. w.slot = slot /\ w.flags = p.flags /\ w.peripheral = index /\ w.id = IF id = NoString THEN DummyId(slot) ELSE id
    BY <1>4 DEF WithId, PortFields
  <2> HIDE DEF w
  <2> QED
    BY <1>3, <2>1 DEF Alike, IsVirtual, DriverPortOk
<1>11. w = PortOf(m)
  <2>1. q = [port_new EXCEPT !.slot = slot, !.id = id, !.peripheral = index, !.flags = p.flags]
    BY DEF q
  <2> QED
    BY <1>3, <2>1 DEF WithId, PortOf, port_new
<1> HIDE DEF w, s
<1>7. /\ RamOk(s) /\ s.peripherals = r.peripherals /\ s.ports = Append(r.ports, w) /\ s.device = r.device
      /\ s.used_slots = r.used_slots \cup {slot}
  BY <1>0, <1>1, <1>2, <1>4, <1>5, Registered DEF w
<1>8. IsSeq(Append(made, m))
  BY <1>0, AppendIsSeq
<1>9. Matches(s.ports, Append(made, m))
  BY <1>0, <1>6, <1>7, MadeAppended DEF RamOk, PortsOk
<1>10. s.used_slots \cap VirtualSlots = r.used_slots \cap VirtualSlots
  BY <1>2, <1>7, VirtualSlotsAre
<1> QED
  BY <1>7, <1>8, <1>9, <1>10, <1>11 DEF Made, s, m

-----------------------------------------------------------------------------
(***************************************************************************)
(* The ports of a peripheral, after those that were made before: as many   *)
(* as there are slots for, in the slots that these leave.                  *)
(***************************************************************************)
Id(ids, j) == IF j <= Len(ids) THEN ids[j] ELSE NoString

\* more has the first of the ports of the type, n of k, after those made.
Grown(more, n, k, made, index, type, ids) ==
    /\ IsSeq(more) /\ Len(more) = Len(made) + n /\ \A x \in 1..Len(made) : more[x] = made[x]
    /\ n \in 0..k
    /\ n < k => FreeSlots(Before(more, Len(more))) = {}
    /\ \A j \in 1..n :
           LET before == Before(more, Len(made) + j - 1)
           IN  /\ FreeSlots(before) # {}
               /\ more[Len(made) + j] = MadePort(before, PortsOf[type][j], index, Id(ids, j))

LEMMA GrownMore ==
    ASSUME NEW made, IsSeq(made), NEW n, NEW k \in Nat, NEW index, NEW type, NEW ids,
           NEW more, Grown(more, n, k, made, index, type, ids), n = k,
           FreeSlots(Before(more, Len(more))) # {},
           NEW q, q = MadePort(Before(more, Len(more)), PortsOf[type][k + 1], index, Id(ids, k + 1))
    PROVE  Grown(Append(more, q), n + 1, k + 1, made, index, type, ids)
<1> DEFINE all == Append(more, q)
           l   == Len(made)
<1>1. IsSeq(more) /\ Len(more) = l + n /\ n \in Nat /\ l \in Nat /\ \A x \in 1..l : more[x] = made[x]
  BY SeqIs DEF Grown
<1>2. IsSeq(all) /\ Len(all) = l + n + 1 /\ all[l + n + 1] = q /\ \A x \in 1..(l + n) : all[x] = more[x]
  BY <1>1, AppendIsSeq
<1> HIDE DEF all
<1>3. \A x \in 1..l : all[x] = made[x]
  BY <1>1, <1>2
<1>4. ASSUME NEW m \in 0..(l + n) PROVE Before(all, m) = Before(more, m)
  <2>1. m \in Nat /\ \A x \in 1..m : all[x] = more[x]
    BY <1>1, <1>2
  <2> QED
    BY <2>1, SameBefore
<1>5. ASSUME NEW j \in 1..(n + 1)
      PROVE  LET before == Before(all, l + j - 1)
             IN  /\ FreeSlots(before) # {}
                 /\ all[l + j] = MadePort(before, PortsOf[type][j], index, Id(ids, j))
  <2>1. l + j - 1 \in 0..(l + n) /\ j \in Nat
    BY <1>1
  <2>2. Before(all, l + j - 1) = Before(more, l + j - 1)
    BY <1>4, <2>1
  <2>3. CASE j = n + 1
    <3>1. l + j - 1 = l + n /\ l + j = l + n + 1
      BY <1>1, <2>3
    <3>2. Before(all, l + j - 1) = Before(more, Len(more)) /\ all[l + j] = q
      BY <1>1, <1>2, <2>2, <3>1
    <3> QED
      BY <2>3, <3>2
  <2>4. CASE j \in 1..n
    <3>1. l + j \in 1..(l + n)
      BY <1>1, <2>4
    <3>2. all[l + j] = more[l + j]
      BY <1>2, <3>1
    <3>3. /\ FreeSlots(Before(more, l + j - 1)) # {}
          /\ more[l + j] = MadePort(Before(more, l + j - 1), PortsOf[type][j], index, Id(ids, j))
      BY <2>4 DEF Grown
    <3> QED
      BY <2>2, <3>2, <3>3
  <2> QED
    BY <1>1, <2>3, <2>4
<1>6. n + 1 \in 0..(k + 1) /\ ~(n + 1 < k + 1) /\ Len(all) = l + (n + 1)
  BY <1>1, <1>2
<1> QED
  BY <1>2, <1>3, <1>5, <1>6 DEF Grown, all

MakeStep(a, s, i) ==
    RegisterPort(s, PortsOf[a.type][i], a.index, IF i <= Len(a.ids) THEN a.ids[i] ELSE NoString)

MakeGood(a, k, s) ==
    /\ s.peripherals = a.r.peripherals /\ s.device = a.r.device
    /\ s.used_slots \cap VirtualSlots = a.r.used_slots \cap VirtualSlots
    /\ \E more, n : /\ Made(s, more) /\ Grown(more, n, k, a.made, a.index, a.type, a.ids)
                    /\ AllNew(a.r.ports, a.made) => AllNew(s.ports, more)

Make == INSTANCE FoldInduction WITH Step <- MakeStep, Good <- MakeGood

LEMMA TypeIs ==
    ASSUME NEW type \in DOMAIN PortsOf
    PROVE  LET n == Len(PortsOf[type])
           IN  n \in Nat /\ DOMAIN PortsOf[type] = 1..n /\ \A i \in 1..n : DriverPortOk(PortsOf[type][i])
BY SeqIs, RequestsAssumption DEF DriverPortOk

LEMMA PortsMade ==
    ASSUME NEW r, NEW made, Made(r, made), NEW index \in Nat \ {0}, NEW type \in DOMAIN PortsOf, NEW ids
    PROVE  LET s == peripheral_make_ports(r, index, type, ids)
           IN  /\ s.peripherals = r.peripherals /\ s.device = r.device
               /\ s.used_slots \cap VirtualSlots = r.used_slots \cap VirtualSlots
               /\ \E more, n : /\ Made(s, more) /\ Grown(more, n, Len(PortsOf[type]), made, index, type, ids)
                               /\ AllNew(r.ports, made) => AllNew(s.ports, more)
<1> DEFINE a   == [index |-> index, type |-> type, ids |-> ids, r |-> r, made |-> made]
           s   == peripheral_make_ports(r, index, type, ids)
           w   == Len(PortsOf[type])
           seq == [i \in DOMAIN PortsOf[type] |-> i]
<1>1. s = Make!Fold(a, r, seq)
  BY DEF peripheral_make_ports, Make!Fold, MakeStep, FoldLeftDomain, FoldLeft, MapThenFoldSet, Max,
         Make!MapThenFoldSet, Make!Largest
<1>2. w \in Nat /\ DOMAIN PortsOf[type] = 1..w /\ \A i \in 1..w : DriverPortOk(PortsOf[type][i])
  BY TypeIs
<1>3. DOMAIN seq = 1..w /\ \A k \in 0..(w - 1) : seq[k + 1] = k + 1
  BY <1>2
<1>4. a.type = type /\ a.r = r /\ a.index = index /\ a.ids = ids /\ a.made = made
  OBVIOUS
<1> HIDE DEF a, s, seq
<1>5. MakeGood(a, 0, r)
  <2>1. Grown(made, 0, 0, made, index, type, ids)
    <3>1. IsSeq(made) /\ Len(made) \in Nat
      BY SeqIs DEF Made
    <3> QED
      BY <3>1 DEF Grown
  <2> QED
    BY <1>4, <2>1 DEF MakeGood
<1>6. ASSUME NEW k \in 0..(w - 1), NEW t, MakeGood(a, k, t)
      PROVE  MakeGood(a, k + 1, MakeStep(a, t, seq[k + 1]))
  <2> DEFINE p  == PortsOf[type][k + 1]
             id == Id(ids, k + 1)
  <2>1. DriverPortOk(p) /\ k \in Nat
    BY <1>2
  <2>2. MakeStep(a, t, seq[k + 1]) = RegisterPort(t, p, index, id)
    BY <1>3, <1>4 DEF MakeStep, Id
  <2>3. PICK more, n : /\ Made(t, more) /\ Grown(more, n, k, made, index, type, ids)
                       /\ AllNew(r.ports, made) => AllNew(t.ports, more)
    BY <1>4, <1>6 DEF MakeGood
  <2>4. IsSeq(more) /\ n \in 0..k /\ Len(more) \in Nat
    BY <2>3, SeqIs DEF Grown
  <2>5. FreeSlots(t) = FreeSlots(Before(more, Len(more)))
    BY <2>3, FreeAre DEF Made, RamOk
  <2>6. CASE FreeSlots(t) = {}
    <3>1. RegisterPort(t, p, index, id) = t
      BY <2>6 DEF RegisterPort
    <3>2. n \in 0..(k + 1)
      BY <2>4
    <3>3. Grown(more, n, k + 1, made, index, type, ids)
      BY <2>3, <2>5, <2>6, <3>2 DEF Grown
    <3> QED
      BY <1>4, <1>6, <2>2, <2>3, <3>1, <3>3 DEF MakeGood
  <2>7. CASE FreeSlots(t) # {}
    <3> DEFINE q   == MadePort(t, p, index, id)
               all == Append(more, q)
               u   == RegisterPort(t, p, index, id)
    <3>1. Made(u, all) /\ u.peripherals = t.peripherals /\ u.device = t.device
          /\ u.used_slots \cap VirtualSlots = t.used_slots \cap VirtualSlots
          /\ u.ports = Append(t.ports, PortOf(q))
      BY <2>1, <2>3, <2>7, PortMade
    <3>2. n = k
      BY <2>3, <2>4, <2>5, <2>7 DEF Grown
    <3>3. q = MadePort(Before(more, Len(more)), p, index, id)
      <4>1. WantedSlot(t, p) = WantedSlot(Before(more, Len(more)), p)
        BY <2>1, <2>5, SameSlot DEF DriverPortOk
      <4> QED
        BY <4>1 DEF MadePort
    <3> HIDE DEF q
    <3>4. Grown(all, n + 1, k + 1, made, index, type, ids)
      <4>1. IsSeq(made)
        BY DEF Made
      <4> QED
        BY <2>1, <2>3, <2>5, <2>7, <3>2, <3>3, <4>1, GrownMore
    <3>6. AllNew(r.ports, made) => AllNew(u.ports, all)
      <4>1. IsSeq(t.ports)
        BY <2>3 DEF Made, RamOk, PortsOk
      <4> HIDE DEF u
      <4>2. AllNew(t.ports, more) => AllNew(u.ports, Append(more, q))
        BY <2>4, <3>1, <4>1, NewAppended
      <4> QED
        BY <2>3, <4>2
    <3> HIDE DEF all, u
    <3>5. MakeGood(a, k + 1, u)
      BY <1>4, <1>6, <3>1, <3>4, <3>6 DEF MakeGood
    <3> QED
      BY <2>2, <3>5 DEF u
  <2> QED
    BY <2>6, <2>7
<1>7. MakeGood(a, w, s)
  BY <1>1, <1>2, <1>3, <1>5, <1>6, Make!FoldKeeps
<1> QED
  BY <1>4, <1>7 DEF MakeGood, s

\* A virtual port, in a slot that it has or in a free one.
VirtualPort(r, p) ==
    [p EXCEPT !.slot = IF p.slot < 0 THEN virtual_find_unused_slot(r) ELSE p.slot,
              !.flags = @ \cup {"virtual", "writable"}]

LEMMA VirtualRegistered ==
    ASSUME NEW r, NEW made, Made(r, made), NEW p, DOMAIN p = PortFields, p.peripheral = 0, p.slot \in Int,
           IF p.slot < 0 THEN ~(VirtualSlots \subseteq r.used_slots) ELSE p.slot \in VirtualSlots \ r.used_slots
    PROVE  LET s == RegisterVirtual(r, p)
           IN  /\ Made(s, made) /\ s.peripherals = r.peripherals /\ s.device = r.device
               /\ s.ports = Append(r.ports, WithId(VirtualPort(r, p)))
               /\ p.slot >= 0 => s.used_slots = r.used_slots \cup {p.slot}
<1> DEFINE slot == IF p.slot < 0 THEN virtual_find_unused_slot(r) ELSE p.slot
           q    == VirtualPort(r, p)
           s    == RegisterVirtual(r, p)
<1>0. RamOk(r) /\ IsSeq(made) /\ Matches(r.ports, made)
  BY DEF Made
<1>1. s = port_register(r, q)
  BY DEF RegisterVirtual, VirtualPort
<1>2. slot \in VirtualSlots \ r.used_slots
  <2>1. CASE p.slot < 0
    <3>1. VirtualSlots \ r.used_slots \in SUBSET Nat /\ VirtualSlots \ r.used_slots # {}
      BY <2>1, StorageAssumption DEF VirtualSlots
    <3>2. Min(VirtualSlots \ r.used_slots) \in VirtualSlots \ r.used_slots
      BY <3>1, MinIs
    <3> QED
      BY <2>1, <3>2 DEF virtual_find_unused_slot
  <2>2. CASE ~(p.slot < 0)
    BY <2>2
  <2> QED
    BY <2>1, <2>2
<1>3. p.slot >= 0 => slot = p.slot
  OBVIOUS
<1> HIDE DEF slot
<1>4. DOMAIN q = PortFields /\ q.slot = slot /\ {"virtual", "writable"} \subseteq q.flags /\ q.peripheral = 0
  BY DEF PortFields, VirtualPort, slot
<1> HIDE DEF q
<1>5. BarePortOk(q)
  BY <1>2, <1>4, VirtualSlotsAre DEF BarePortOk, IsVirtual
<1> HIDE DEF s
<1>6. /\ RamOk(s) /\ s.peripherals = r.peripherals /\ s.ports = Append(r.ports, WithId(q)) /\ s.device = r.device
      /\ s.used_slots = r.used_slots \cup {slot}
  BY <1>0, <1>1, <1>2, <1>4, <1>5, Registered
<1>7. IsVirtual(WithId(q))
  BY <1>4 DEF IsVirtual, WithId, PortFields
<1>8. Matches(s.ports, made)
  BY <1>0, <1>6, <1>7, VirtualAppended DEF RamOk, PortsOk
<1> QED
  BY <1>0, <1>3, <1>6, <1>8 DEF Made, s, q

-----------------------------------------------------------------------------
(***************************************************************************)
(* Loading.                                                                *)
(***************************************************************************)
ImageFields == {"peripherals", "flags", "value", "version", "offset", "pool", "strings_offs", "fits"}

\* Every offset is that of a string in the pool, or 0.
PoolOk(img) ==
    /\ img.offset = [l \in Locations |-> img.offset[l]] /\ \A l \in Locations : img.offset[l] \in 0..PoolSize
    /\ img.pool = [o \in 1..PoolSize |-> img.pool[o]]
    /\ img.strings_offs \in 1..(PoolSize + 1)

ImageOk(img) ==
    /\ DOMAIN img = ImageFields
    /\ img.peripherals = [i \in 1..PeripheralMax |-> img.peripherals[i]]
    /\ \A i \in 1..PeripheralMax : img.peripherals[i] # NoPart => img.peripherals[i].type \in DOMAIN PortsOf
    /\ img.flags = [s \in Slots |-> img.flags[s]]
    /\ \A s \in Slots \ VirtualSlots : "virtual" \notin img.flags[s]
    /\ img.value = [s \in Slots |-> img.value[s]]
    /\ PoolOk(img)

\* The number of peripherals before the first index without one.
LEMMA Counted ==
    ASSUME NEW ps
    PROVE  LET count == Cardinality({i \in 1..PeripheralMax : \A j \in 1..i : ps[j] # NoPart})
           IN  /\ count \in 0..PeripheralMax /\ \A i \in 1..count : ps[i] # NoPart
               /\ count < PeripheralMax => ps[count + 1] = NoPart
<1> DEFINE P == {i \in 1..PeripheralMax : \A j \in 1..i : ps[j] # NoPart}
           Without == {i \in 1..PeripheralMax : ps[i] = NoPart}
<1>1. PeripheralMax \in Nat
  BY StorageAssumption
<1>2. \E c \in 0..PeripheralMax : P = 1..c
  <2>1. CASE Without = {}
    <3>1. P = 1..PeripheralMax
      BY <1>1, <2>1
    <3> QED
      BY <1>1, <3>1
  <2>2. CASE Without # {}
    <3>1. PICK m \in Without : \A i \in Without : m <= i
      <4>1. Without \in SUBSET Nat
        OBVIOUS
      <4> HIDE DEF Without
      <4> QED
        BY <2>2, <4>1, MinIs
    <3>2. m \in 1..PeripheralMax /\ ps[m] = NoPart /\ \A i \in 1..(m - 1) : ps[i] # NoPart
      BY <1>1, <3>1
    <3>3. ASSUME NEW i \in 1..PeripheralMax PROVE i \in P <=> i \in 1..(m - 1)
      <4>1. CASE i >= m
        BY <1>1, <3>2, <4>1
      <4>2. CASE i < m
        BY <1>1, <3>2, <4>2
      <4> QED
        BY <1>1, <3>2, <4>1, <4>2
    <3>4. m - 1 \in 0..PeripheralMax /\ 1..(m - 1) \subseteq 1..PeripheralMax /\ P \subseteq 1..PeripheralMax
      BY <1>1, <3>2
    <3>5. P = 1..(m - 1)
      BY <3>3, <3>4
    <3> QED
      BY <3>4, <3>5
  <2> QED
    BY <2>1, <2>2
<1>3. PICK c \in 0..PeripheralMax : P = 1..c
  BY <1>2
<1>4. Cardinality(P) = c
  <2>1. Cardinality(1..c) = c
    BY <1>1, FS_Interval
  <2> HIDE DEF P
  <2> QED
    BY <1>3, <2>1
<1>5. \A i \in 1..c : ps[i] # NoPart
  <2>1. \A i \in P : i \in 1..i /\ \A j \in 1..i : ps[j] # NoPart
    OBVIOUS
  <2> QED
    BY <1>3, <2>1
<1>6. c < PeripheralMax => ps[c + 1] = NoPart
  <2> SUFFICES ASSUME c < PeripheralMax, ps[c + 1] # NoPart PROVE FALSE
    OBVIOUS
  <2>1. c + 1 \in 1..PeripheralMax /\ 1..(c + 1) = 1..c \cup {c + 1} /\ c + 1 \notin 1..c
    BY <1>1
  <2>2. \A j \in 1..(c + 1) : ps[j] # NoPart
    BY <1>5, <2>1
  <2>3. c + 1 \in P
    BY <2>1, <2>2
  <2> QED
    BY <1>3, <2>1, <2>3
<1> QED
  BY <1>4, <1>5, <1>6

LEMMA MadeAgain ==
    ASSUME NEW b, NEW p, NEW index, NEW id
    PROVE  LET q == MadePort(b, p, index, id) IN q = MadePort(b, p, index, q.id)
BY DEF MadePort

LEMMA PeripheralRegistered ==
    ASSUME NEW r, NEW made, Made(r, made), NEW p, PeripheralOk(p), Len(r.peripherals) < PeripheralMax
    PROVE  LET s == peripheral_register(r, p)
           IN  /\ Made(s, made) /\ s.peripherals = Append(r.peripherals, p)
               /\ s.ports = r.ports /\ s.used_slots = r.used_slots /\ s.device = r.device
<1> DEFINE s == peripheral_register(r, p)
<1>1. /\ DOMAIN s = RamFields /\ s.ports = r.ports /\ s.used_slots = r.used_slots
      /\ s.peripherals = Append(r.peripherals, p) /\ s.device = r.device
  BY DEF peripheral_register, RamOk, RamFields, Made
<1> HIDE DEF s
<1>2. PeripheralsOk(s.peripherals)
  <2>1. IsSeq(r.peripherals) /\ Len(r.peripherals) \in Nat /\ PeripheralMax \in Nat
    BY SeqIs, StorageAssumption DEF RamOk, PeripheralsOk, Made
  <2>2. Len(s.peripherals) <= PeripheralMax
    BY <1>1, <2>1, AppendIsSeq
  <2> QED
    BY <1>1, <2>1, <2>2, AppendIsSeq DEF RamOk, PeripheralsOk, Made
<1> QED
  BY <1>1, <1>2 DEF RamOk, Made, s

\* A further peripheral, with its ports.
LEMMA PeripheralMade ==
    ASSUME NEW r, NEW made, Made(r, made), NEW c, Laid(c, r.peripherals, made),
           NEW p, PeripheralOk(p), Len(r.peripherals) < PeripheralMax, NEW ids
    PROVE  LET s == peripheral_make_ports(peripheral_register(r, p), Len(r.peripherals) + 1, p.type, ids)
           IN  /\ s.peripherals = Append(r.peripherals, p) /\ s.device = r.device
               /\ s.used_slots \cap VirtualSlots = r.used_slots \cap VirtualSlots
               /\ \E more, d : /\ Made(s, more) /\ Laid(d, s.peripherals, more)
                               /\ AllNew(r.ports, made) => AllNew(s.ports, more)
<1> DEFINE l == Len(r.peripherals)
           w == Len(PortsOf[p.type])
           t == peripheral_register(r, p)
           s == peripheral_make_ports(t, l + 1, p.type, ids)
<1>1. IsSeq(r.peripherals) /\ l \in Nat /\ l + 1 \in Nat \ {0} /\ IsSeq(made)
  BY SeqIs DEF Made, RamOk, PeripheralsOk
<1>2. /\ Made(t, made) /\ t.peripherals = Append(r.peripherals, p)
      /\ t.ports = r.ports /\ t.used_slots = r.used_slots /\ t.device = r.device
  BY PeripheralRegistered
<1>3. w \in Nat /\ p.type \in DOMAIN PortsOf
  BY TypeIs DEF PeripheralOk
<1> HIDE DEF t
<1>4. /\ s.peripherals = t.peripherals /\ s.device = t.device
      /\ s.used_slots \cap VirtualSlots = t.used_slots \cap VirtualSlots
      /\ \E more, n : /\ Made(s, more) /\ Grown(more, n, w, made, l + 1, p.type, ids)
                      /\ AllNew(t.ports, made) => AllNew(s.ports, more)
  BY <1>1, <1>2, <1>3, PortsMade
<1> HIDE DEF s
<1>5. PICK more, n : /\ Made(s, more) /\ Grown(more, n, w, made, l + 1, p.type, ids)
                     /\ AllNew(t.ports, made) => AllNew(s.ports, more)
  BY <1>4
<1>6. ASSUME NEW j \in 1..n
      PROVE  /\ FreeSlots(Before(more, Len(made) + j - 1)) # {}
             /\ more[Len(made) + j] = MadePort(Before(more, Len(made) + j - 1), PortsOf[p.type][j],
                                               l + 1, more[Len(made) + j].id)
  <2> DEFINE b == Before(more, Len(made) + j - 1)
             q == more[Len(made) + j]
  <2>1. FreeSlots(b) # {} /\ q = MadePort(b, PortsOf[p.type][j], l + 1, Id(ids, j))
    BY <1>5 DEF Grown
  <2> HIDE DEF b, q
  <2>2. q = MadePort(b, PortsOf[p.type][j], l + 1, q.id)
    BY <2>1, MadeAgain
  <2> QED
    BY <2>1, <2>2 DEF b, q
<1>7. \E d : Laid(d, Append(r.peripherals, p), more)
  <2>1. /\ IsSeq(more) /\ n \in Nat /\ Len(more) = Len(made) + n /\ \A x \in 1..Len(made) : more[x] = made[x]
        /\ n <= w /\ (n < w => FreeSlots(Before(more, Len(more))) = {})
    BY <1>3, <1>5 DEF Grown
  <2> HIDE DEF l, w
  <2> QED
    BY <1>1, <1>3, <1>6, <2>1, LaidMore DEF l, w
<1> QED
  BY <1>2, <1>4, <1>5, <1>7 DEF s, t

PeripheralStep(a, s, i) ==
    peripheral_make_ports(peripheral_register(s, a.peripherals[i]), i, a.peripherals[i].type, <<>>)

\* The first k of the peripherals have been made, and nothing else.
OnlyFirst(a, k, s) ==
    /\ s.device = a.device /\ s.used_slots \cap VirtualSlots = {}
    /\ Len(s.peripherals) = k /\ \A i \in 1..k : s.peripherals[i] = a.peripherals[i]
    /\ \E made, c : Made(s, made) /\ Laid(c, s.peripherals, made) /\ AllNew(s.ports, made)

Peripherals == INSTANCE FoldInduction WITH Step <- PeripheralStep, Good <- OnlyFirst

Count(ps) == Cardinality({i \in 1..PeripheralMax : \A j \in 1..i : ps[j] # NoPart})

LEMMA PeripheralsLoaded ==
    ASSUME NEW img, ImageOk(img), NEW r, OnlyFirst([peripherals |-> img.peripherals, device |-> r.device], 0, r)
    PROVE  OnlyFirst([peripherals |-> img.peripherals, device |-> r.device], Count(img.peripherals),
                     peripherals_init(r, img))
<1> DEFINE n   == Count(img.peripherals)
           a   == [peripherals |-> img.peripherals, device |-> r.device]
           seq == [i \in DOMAIN SubSeq(img.peripherals, 1, n) |-> i]
<1>1. peripherals_init(r, img) = Peripherals!Fold(a, r, seq)
  BY DEF peripherals_init, Count, Peripherals!Fold, PeripheralStep, FoldLeftDomain, FoldLeft, MapThenFoldSet, Max,
         Peripherals!MapThenFoldSet, Peripherals!Largest
<1>2. n \in 0..PeripheralMax /\ \A i \in 1..n : img.peripherals[i] # NoPart
  BY Counted DEF Count
<1>0. a.peripherals = img.peripherals
  OBVIOUS
<1> HIDE DEF n, a
<1>3. n \in Nat /\ n <= PeripheralMax /\ PeripheralMax \in Nat
  BY <1>2, StorageAssumption
<1>4. DOMAIN seq = 1..n
  <2>1. IsSeq(img.peripherals) /\ Len(img.peripherals) = PeripheralMax
    BY <1>3, FunctionIsSeq DEF ImageOk
  <2>2. DOMAIN SubSeq(img.peripherals, 1, n) = 1..n
    <3> DEFINE S == Range(img.peripherals)
    <3>1. img.peripherals \in Seq(S)
      BY <2>1 DEF IsSeq
    <3> HIDE DEF S
    <3>2. SubSeq(img.peripherals, 1, n) \in Seq(S) /\ Len(SubSeq(img.peripherals, 1, n)) = n
      BY <1>3, <2>1, <3>1
    <3> QED
      BY <3>2
  <2> QED
    BY <2>2
<1>5. \A k \in 0..(n - 1) : seq[k + 1] = k + 1
  BY <1>3, <1>4
<1> HIDE DEF seq
<1>6. OnlyFirst(a, 0, r)
  BY DEF a
<1>7. ASSUME NEW k \in 0..(n - 1), NEW s, OnlyFirst(a, k, s)
      PROVE  OnlyFirst(a, k + 1, PeripheralStep(a, s, seq[k + 1]))
  <2> DEFINE p == img.peripherals[k + 1]
             t == peripheral_make_ports(peripheral_register(s, p), k + 1, p.type, <<>>)
  <2>1. PeripheralOk(p)
    <3>1. k + 1 \in 1..n /\ k + 1 \in 1..PeripheralMax
      BY <1>3
    <3> QED
      BY <1>2, <3>1 DEF ImageOk, PeripheralOk
  <2>2. PeripheralStep(a, s, seq[k + 1]) = t
    BY <1>0, <1>5 DEF PeripheralStep
  <2>3. PICK made, c : Made(s, made) /\ Laid(c, s.peripherals, made) /\ AllNew(s.ports, made)
    BY <1>7 DEF OnlyFirst
  <2>4. Len(s.peripherals) = k /\ k \in Nat /\ k < PeripheralMax
    BY <1>3, <1>7 DEF OnlyFirst
  <2> HIDE DEF p
  <2>5. /\ t.peripherals = Append(s.peripherals, p) /\ t.device = s.device
        /\ t.used_slots \cap VirtualSlots = s.used_slots \cap VirtualSlots
        /\ \E more, d : /\ Made(t, more) /\ Laid(d, t.peripherals, more)
                        /\ AllNew(s.ports, made) => AllNew(t.ports, more)
    <3> DEFINE u == peripheral_make_ports(peripheral_register(s, p), Len(s.peripherals) + 1, p.type, <<>>)
    <3>1. t = u
      BY <2>4
    <3>2. Len(s.peripherals) < PeripheralMax
      BY <2>4
    <3>3. /\ u.peripherals = Append(s.peripherals, p) /\ u.device = s.device
          /\ u.used_slots \cap VirtualSlots = s.used_slots \cap VirtualSlots
          /\ \E more, d : /\ Made(u, more) /\ Laid(d, u.peripherals, more)
                          /\ AllNew(s.ports, made) => AllNew(u.ports, more)
      BY <2>1, <2>3, <3>2, PeripheralMade
    <3> HIDE DEF t, u
    <3> QED
      BY <3>1, <3>3
  <2> HIDE DEF t
  <2>6. Len(t.peripherals) = k + 1 /\ \A i \in 1..(k + 1) : t.peripherals[i] = a.peripherals[i]
    <3>1. IsSeq(s.peripherals)
      BY <2>3 DEF Made, RamOk, PeripheralsOk
    <3>2. Len(t.peripherals) = k + 1 /\ t.peripherals[k + 1] = p /\ \A i \in 1..k : t.peripherals[i] = s.peripherals[i]
      BY <2>4, <2>5, <3>1, AppendIsSeq
    <3>3. \A i \in 1..k : t.peripherals[i] = a.peripherals[i]
      BY <1>7, <3>2 DEF OnlyFirst
    <3>4. \A i \in 1..(k + 1) : i = k + 1 \/ i \in 1..k
      BY <2>4
    <3> QED
      BY <1>0, <3>2, <3>3, <3>4 DEF p
  <2>7. OnlyFirst(a, k + 1, t)
    BY <1>7, <2>3, <2>5, <2>6 DEF OnlyFirst
  <2> QED
    BY <2>2, <2>7
<1>8. OnlyFirst(a, n, Peripherals!Fold(a, r, seq))
  BY <1>3, <1>4, <1>6, <1>7, Peripherals!FoldKeeps
<1> QED
  BY <1>1, <1>8 DEF n, a

\* The virtual port that the image has for a slot.
Virtual(img, slot) ==
    WithId([port_new EXCEPT !.slot = slot, !.flags = (img.flags[slot] \cap {"number"}) \cup {"virtual", "writable"},
                            !.integer = "integer" \in img.flags[slot]])

VirtualStep(a, s, slot) == IF "virtual" \in a.img.flags[slot] THEN init_virtual_port(s, a.img, slot) ELSE s

\* A port as it is when it is added to those of a device that starts.
NewPort(p, img, made) ==
    \/ p.slot \notin VirtualSlots /\ \E x \in 1..Len(made) : p = PortOf(made[x])
    \/ p.slot \in VirtualSlots /\ p = Virtual(img, p.slot)

VirtualGood(a, k, s) ==
    /\ Made(s, a.made) /\ s.peripherals = a.r.peripherals /\ s.device = a.r.device
    /\ s.used_slots \cap VirtualSlots
           = {slot \in VirtualSlots : slot < Virtual0 + k /\ "virtual" \in a.img.flags[slot]}
    /\ \A i \in 1..Len(s.ports) : NewPort(s.ports[i], a.img, a.made)

Virtuals == INSTANCE FoldInduction WITH Step <- VirtualStep, Good <- VirtualGood

LEMMA VirtualsLoaded ==
    ASSUME NEW r, NEW made, Made(r, made), AllNew(r.ports, made), r.used_slots \cap VirtualSlots = {}, NEW img
    PROVE  VirtualGood([r |-> r, made |-> made, img |-> img], VirtualMax, virtual_ports_init(r, img))
<1> DEFINE seq == [n \in 1..VirtualMax |-> Virtual0 + n - 1]
           a   == [r |-> r, made |-> made, img |-> img]
<1>1. virtual_ports_init(r, img) = Virtuals!Fold(a, r, seq)
  BY DEF virtual_ports_init, Virtuals!Fold, VirtualStep, FoldLeft, MapThenFoldSet, Max,
         Virtuals!MapThenFoldSet, Virtuals!Largest
<1>2. VirtualMax \in Nat /\ Virtual0 \in Nat
  BY StorageAssumption
<1>3. DOMAIN seq = 1..VirtualMax /\ \A k \in 0..(VirtualMax - 1) : seq[k + 1] = Virtual0 + k
  BY <1>2
<1>0. a.r = r /\ a.made = made /\ a.img = img
  OBVIOUS
<1> HIDE DEF seq, a
<1>4. VirtualGood(a, 0, r)
  <2>1. \A slot \in VirtualSlots : ~(slot < Virtual0 + 0)
    BY <1>2 DEF VirtualSlots
  <2>2. \A i \in 1..Len(r.ports) : NewPort(r.ports[i], img, made)
    <3>1. \A i \in 1..Len(r.ports) : r.ports[i].slot \notin VirtualSlots
      BY DEF Made, RamOk, SlotsIn
    <3> QED
      BY <3>1 DEF NewPort, AllNew
  <2>3. r.used_slots \cap VirtualSlots = {slot \in VirtualSlots : slot < Virtual0 + 0 /\ "virtual" \in img.flags[slot]}
    BY <2>1
  <2> QED
    BY <1>0, <2>2, <2>3 DEF VirtualGood
<1>5. ASSUME NEW k \in 0..(VirtualMax - 1), NEW s, VirtualGood(a, k, s)
      PROVE  VirtualGood(a, k + 1, VirtualStep(a, s, seq[k + 1]))
  <2> DEFINE slot == Virtual0 + k
             p    == [port_new EXCEPT !.slot = slot, !.flags = img.flags[slot] \cap {"number"},
                                      !.integer = "integer" \in img.flags[slot]]
             U(m) == {x \in VirtualSlots : x < Virtual0 + m /\ "virtual" \in img.flags[x]}
  <2>0. /\ Made(s, made) /\ s.peripherals = r.peripherals /\ s.device = r.device
        /\ s.used_slots \cap VirtualSlots = U(k)
        /\ \A i \in 1..Len(s.ports) : NewPort(s.ports[i], img, made)
    BY <1>0, <1>5 DEF VirtualGood
  <2>1. slot \in VirtualSlots /\ slot \in Int /\ slot >= 0 /\ slot \notin s.used_slots
    <3>1. slot \in VirtualSlots /\ slot \in Int /\ slot >= 0 /\ ~(slot < Virtual0 + k)
      BY <1>2 DEF VirtualSlots
    <3> QED
      BY <2>0, <3>1
  <2>2. \A x \in VirtualSlots : x < Virtual0 + (k + 1) <=> (x < Virtual0 + k \/ x = slot)
    BY <1>2 DEF VirtualSlots
  <2>3. CASE "virtual" \in img.flags[slot]
    <3> DEFINE t == RegisterVirtual(s, p)
    <3>1. VirtualStep(a, s, seq[k + 1]) = t
      BY <1>0, <1>3, <2>3 DEF VirtualStep, init_virtual_port
    <3>2. DOMAIN p = PortFields /\ p.slot = slot /\ p.peripheral = 0
      BY DEF port_new, PortFields
    <3>3. WithId(VirtualPort(s, p)) = Virtual(img, slot)
      <4>1. ~(slot < 0)
        BY <2>1
      <4>2. VirtualPort(s, p) = [port_new EXCEPT !.slot = slot,
                                     !.flags = (img.flags[slot] \cap {"number"}) \cup {"virtual", "writable"},
                                     !.integer = "integer" \in img.flags[slot]]
        BY <4>1 DEF VirtualPort, port_new
      <4> QED
        BY <4>2 DEF Virtual
    <3> HIDE DEF p
    <3>4. /\ Made(t, made) /\ t.peripherals = s.peripherals /\ t.device = s.device
          /\ t.used_slots = s.used_slots \cup {slot}
          /\ t.ports = Append(s.ports, Virtual(img, slot))
      <4> HIDE DEF slot
      <4> QED
        BY <2>0, <2>1, <3>2, <3>3, VirtualRegistered
    <3>5. NewPort(Virtual(img, slot), img, made)
      <4>1. Virtual(img, slot).slot = slot
        BY DEF Virtual, WithId, port_new
      <4> QED
        BY <2>1, <4>1 DEF NewPort
    <3> HIDE DEF t
    <3>6. \A i \in 1..Len(t.ports) : NewPort(t.ports[i], img, made)
      <4>1. IsSeq(s.ports) /\ Len(s.ports) \in Nat
        BY <2>0, SeqIs DEF Made, RamOk, PortsOk
      <4>2. /\ Len(t.ports) = Len(s.ports) + 1 /\ t.ports[Len(s.ports) + 1] = Virtual(img, slot)
            /\ \A i \in 1..Len(s.ports) : t.ports[i] = s.ports[i]
        BY <3>4, <4>1, AppendIsSeq
      <4>3. \A i \in 1..(Len(s.ports) + 1) : i = Len(s.ports) + 1 \/ i \in 1..Len(s.ports)
        BY <4>1
      <4> HIDE DEF slot
      <4> QED
        BY <2>0, <3>5, <4>2, <4>3
    <3>7. t.used_slots \cap VirtualSlots = U(k + 1)
      <4>1. U(k + 1) = U(k) \cup {slot}
        BY <2>1, <2>2, <2>3
      <4> HIDE DEF U, slot
      <4> QED
        BY <2>0, <2>1, <3>4, <4>1
    <3> HIDE DEF slot
    <3>8. VirtualGood(a, k + 1, t)
      BY <1>0, <2>0, <3>4, <3>6, <3>7 DEF VirtualGood
    <3> QED
      BY <3>1, <3>8
  <2>4. CASE "virtual" \notin img.flags[slot]
    <3>1. VirtualStep(a, s, seq[k + 1]) = s
      BY <1>0, <1>3, <2>4 DEF VirtualStep
    <3>2. U(k + 1) = U(k)
      BY <2>2, <2>4
    <3> QED
      BY <1>0, <2>0, <3>1, <3>2 DEF VirtualGood
  <2> QED
    BY <2>3, <2>4
<1>6. VirtualGood(a, VirtualMax, Virtuals!Fold(a, r, seq))
  BY <1>2, <1>3, <1>4, <1>5, Virtuals!FoldKeeps
<1> QED
  BY <1>1, <1>6 DEF a

\* What the image has of a port is loaded into it.
LoadedPort(p, img, made) ==
    /\ LET id == string_pool_read(img, <<p.slot, "id">>) IN p.id = IF id = NoString THEN DummyId(p.slot) ELSE id
    /\ p.display_name = string_pool_read(img, <<p.slot, "display_name">>)
    /\ p.value = IF {"persisted", "writable"} \subseteq p.flags THEN img.value[p.slot] ELSE Undefined
    /\ IF p.slot \in VirtualSlots
       THEN p.peripheral = 0 /\ p.flags = {"virtual", "writable"} \cup img.flags[p.slot]
       ELSE \E x \in 1..Len(made) : /\ made[x].slot = p.slot /\ made[x].peripheral = p.peripheral
                                    /\ p.flags = made[x].flags \cup img.flags[p.slot]

LEMMA PortLoaded ==
    ASSUME NEW p, PortOk(p), NEW img, ImageOk(img), NEW made, NewPort(p, img, made)
    PROVE  LET q == InitialValue(port_load(p, img))
           IN  /\ PortOk(q) /\ q.slot = p.slot /\ q.peripheral = p.peripheral
               /\ p.flags \subseteq q.flags /\ (IsVirtual(q) <=> IsVirtual(p))
               /\ LoadedPort(q, img, made)
<1> DEFINE loaded == port_load(p, img)
           q      == InitialValue(loaded)
           id     == string_pool_read(img, <<p.slot, "id">>)
           name   == string_pool_read(img, <<p.slot, "display_name">>)
<1>0. DOMAIN p = PortFields /\ p.slot \in Slots /\ (p.slot \in VirtualSlots <=> IsVirtual(p))
  BY DEF PortOk, BarePortOk
<1>1. /\ DOMAIN loaded = PortFields /\ loaded.slot = p.slot /\ loaded.flags = p.flags \cup img.flags[p.slot]
      /\ loaded.id = (IF id = NoString THEN DummyId(p.slot) ELSE id) /\ loaded.display_name = name
      /\ loaded.peripheral = p.peripheral
      /\ loaded.value = IF "persisted" \in p.flags \cup img.flags[p.slot] THEN img.value[p.slot] ELSE p.value
  BY <1>0 DEF port_load, PortFields
<1>3. "virtual" \in img.flags[p.slot] => p.slot \in VirtualSlots
  BY <1>0 DEF ImageOk
<1> HIDE DEF loaded, id, name
<1>4. /\ DOMAIN q = PortFields /\ q.slot = p.slot /\ q.flags = p.flags \cup img.flags[p.slot]
      /\ q.id = (IF id = NoString THEN DummyId(p.slot) ELSE id) /\ q.display_name = name
      /\ q.peripheral = p.peripheral
      /\ q.value = IF "writable" \in q.flags THEN loaded.value ELSE Undefined
  BY <1>1 DEF InitialValue, PortFields
<1> HIDE DEF q
<1>5. IsVirtual(q) <=> IsVirtual(p)
  BY <1>0, <1>3, <1>4 DEF IsVirtual
<1>6. PortOk(q)
  <2>1. BarePortOk(q)
    BY <1>0, <1>4, <1>5 DEF PortOk, BarePortOk
  <2>2. IdOk(q)
    BY <1>4 DEF IdOk
  <2> QED
    BY <2>1, <2>2 DEF PortOk
<1>7. p.value = Undefined
  BY DEF NewPort, PortOf, Virtual, WithId, port_new
<1>8. q.value = IF {"persisted", "writable"} \subseteq q.flags THEN img.value[p.slot] ELSE Undefined
  BY <1>1, <1>4, <1>7
<1>9. IF p.slot \in VirtualSlots
      THEN q.peripheral = 0 /\ q.flags = {"virtual", "writable"} \cup img.flags[p.slot]
      ELSE \E x \in 1..Len(made) : /\ made[x].slot = p.slot /\ made[x].peripheral = p.peripheral
                                   /\ q.flags = made[x].flags \cup img.flags[p.slot]
  <2>1. CASE p.slot \in VirtualSlots /\ p = Virtual(img, p.slot)
    <3>1. p.flags = (img.flags[p.slot] \cap {"number"}) \cup {"virtual", "writable"} /\ p.peripheral = 0
      <4> DEFINE s == p.slot
                 f == (img.flags[s] \cap {"number"}) \cup {"virtual", "writable"}
      <4>1. Virtual(img, s).flags = f /\ Virtual(img, s).peripheral = 0
        BY DEF Virtual, WithId, port_new
      <4> QED
        BY <2>1, <4>1
    <3> QED
      BY <1>4, <2>1, <3>1
  <2>2. CASE p.slot \notin VirtualSlots /\ \E x \in 1..Len(made) : p = PortOf(made[x])
    <3>1. PICK x \in 1..Len(made) : p = PortOf(made[x])
      BY <2>2
    <3>2. made[x].slot = p.slot /\ made[x].peripheral = p.peripheral /\ made[x].flags = p.flags
      BY <3>1 DEF PortOf, port_new
    <3> QED
      BY <1>4, <2>2, <3>2
  <2> QED
    BY <2>1, <2>2 DEF NewPort
<1> QED
  BY <1>4, <1>5, <1>6, <1>8, <1>9 DEF LoadedPort, q, loaded, id, name

\* Made ports with other ids.
Renamed(made, ids) ==
    [m \in 1..Len(made) |-> [slot |-> made[m].slot, id |-> ids[m], peripheral |-> made[m].peripheral,
                             flags |-> made[m].flags]]

LEMMA LaidRenamed ==
    ASSUME NEW c, NEW ps, IsSeq(ps), NEW made, IsSeq(made), Laid(c, ps, made), NEW ids,
           \A m \in 1..Len(made) : ids[m] = NoString => DummyId(made[m].slot) = NoString
    PROVE  /\ IsSeq(Renamed(made, ids)) /\ Len(Renamed(made, ids)) = Len(made)
           /\ Laid(c, ps, Renamed(made, ids))
<1> DEFINE now == Renamed(made, ids)
           l   == Len(made)
<1>1. l \in Nat /\ Len(ps) \in Nat
  BY SeqIs
<1>2. /\ now = [m \in 1..l |-> now[m]]
      /\ \A m \in 1..l : now[m] = [slot |-> made[m].slot, id |-> ids[m], peripheral |-> made[m].peripheral,
                                  flags |-> made[m].flags]
  BY DEF Renamed
<1> HIDE DEF now
<1>3. IsSeq(now) /\ Len(now) = l
  BY <1>1, <1>2, FunctionIsSeq
<1>4. ASSUME NEW m \in 0..l PROVE Before(now, m) = Before(made, m)
  <2>1. \A x \in 1..m : x \in 1..l
    BY <1>1
  <2>2. \A x \in 1..m : now[x].slot = made[x].slot
    BY <1>2, <2>1
  <2> QED
    BY <2>2 DEF Before
<1>5. ASSUME NEW i \in 1..Len(ps) PROVE LaidGroup(c, i, ps[i].type, now)
  <2> DEFINE p == c[i - 1]
             n == c[i] - p
  <2>1. LaidGroup(c, i, ps[i].type, made) /\ c[i] \in 0..l /\ p \in 0..l
    <3>1. i \in 0..Len(ps) /\ i - 1 \in 0..Len(ps)
      BY <1>1
    <3> QED
      BY <1>1, <3>1 DEF Laid
  <2>2. Before(now, c[i]) = Before(made, c[i])
    BY <1>4, <2>1
  <2>3. ASSUME NEW j \in 1..n
        PROVE  LET m == p + j
               IN  /\ FreeSlots(Before(now, m - 1)) # {}
                   /\ now[m] = MadePort(Before(now, m - 1), PortsOf[ps[i].type][j], i, now[m].id)
    <3> DEFINE m == p + j
               b == Before(made, m - 1)
               w == PortsOf[ps[i].type][j]
    <3>1. FreeSlots(b) # {} /\ made[m] = MadePort(b, w, i, made[m].id)
      BY <2>1 DEF LaidGroup
    <3>2. m - 1 \in 0..l /\ m \in 1..l
      <4>1. \A q, e, h \in Nat : \A y \in 1..(q - e) : q <= h => e + y - 1 \in 0..h /\ e + y \in 1..h
        OBVIOUS
      <4>2. c[i] \in Nat /\ p \in Nat /\ c[i] <= l
        BY <1>1, <2>1
      <4> HIDE DEF p
      <4> QED
        BY <1>1, <4>1, <4>2
    <3>3. Before(now, m - 1) = b
      BY <1>4, <3>2
    <3> HIDE DEF b, m, w
    <3>4. now[m] = [slot |-> WantedSlot(b, w), id |-> ids[m], peripheral |-> i, flags |-> w.flags]
      BY <1>2, <3>1, <3>2 DEF MadePort
    <3>5. ids[m] = NoString => DummyId(WantedSlot(b, w)) = NoString
      BY <3>1, <3>2 DEF MadePort
    <3>6. now[m] = MadePort(b, w, i, now[m].id)
      BY <3>4, <3>5 DEF MadePort
    <3> QED
      BY <3>1, <3>3, <3>6 DEF m, w
  <2> QED
    BY <2>1, <2>2, <2>3 DEF LaidGroup
<1>6. \A m \in 1..l : now[m].peripheral = made[m].peripheral
  BY <1>2
<1>7. Laid(c, ps, now)
  BY <1>3, <1>5, <1>6 DEF Laid
<1> QED
  BY <1>3, <1>7 DEF now

\* What the device makes of an image: its peripherals, their ports in the slots
\* that are theirs, and the virtual ports, each with what the image has of it.
LoadedIs(img, r, made) ==
    /\ Made(r, made) /\ \E c : Laid(c, r.peripherals, made)
    /\ Len(r.peripherals) = Count(img.peripherals)
    /\ \A i \in 1..Len(r.peripherals) : r.peripherals[i] = img.peripherals[i]
    /\ r.device = device_load(img)
    /\ r.used_slots \cap VirtualSlots = {slot \in VirtualSlots : "virtual" \in img.flags[slot]}
    /\ \A i \in 1..Len(r.ports) : LoadedPort(r.ports[i], img, made)

LEMMA DeviceLoaded == ASSUME NEW img PROVE DeviceOk(device_load(img))
<1> DEFINE Read(field) == string_pool_read(img, <<Device, field>>)
           name   == IF Read("name") = NoString THEN Default ELSE Read("name")
           shown  == IF Read("display_name") = NoString THEN "" ELSE Read("display_name")
           config == IF Read("config_name") = NoString THEN "" ELSE Read("config_name")
           d      == device_load(img)
<1>1. d = [name |-> name, display_name |-> shown, config_name |-> config, version |-> img.version]
  BY DEF device_load
<1>2. Default # NoString /\ "" # NoString
  BY DEF Default, NoString
<1> HIDE DEF Read
<1>3. name # NoString /\ shown # NoString /\ config # NoString
  BY <1>2
<1>6. d = [field \in DOMAIN d |-> d[field]]
  BY <1>1
<1> HIDE DEF name, shown, config, d
<1>4. DOMAIN d = {"name", "display_name", "config_name", "version"}
  BY <1>1
<1>5. d["name"] = name /\ d["display_name"] = shown /\ d["config_name"] = config
  BY <1>1
<1> QED
  BY <1>3, <1>4, <1>5, <1>6 DEF DeviceOk, DeviceStrings, d

LEMMA LoadedOk ==
    ASSUME NEW img, ImageOk(img), NEW slot
    PROVE  \E made : LoadedIs(img, Loaded(img, slot), made)
<1> DEFINE empty == [ports |-> <<>>, used_slots |-> {}, peripherals |-> <<>>,
                     device |-> device_load(img), system |-> slot, system_slot |-> slot,
                     provisioning |-> FALSE, needs_saving |-> FALSE, connected |-> FALSE]
           some  == peripherals_init(empty, img)
           all   == virtual_ports_init(some, img)
           a     == [peripherals |-> img.peripherals, device |-> device_load(img)]
           n     == Count(img.peripherals)
<1>1. OnlyFirst(a, 0, empty) /\ empty.device = device_load(img)
  <2>1. PortsOk(<<>>) /\ SlotsIn(<<>>) = {} /\ PeripheralsOk(<<>>)
    BY EmptyIsSeq, StorageAssumption DEF PortsOk, SlotsIn, PeripheralsOk
  <2>2. /\ DOMAIN empty = RamFields /\ empty.ports = <<>> /\ empty.used_slots = {} /\ empty.peripherals = <<>>
        /\ empty.device = device_load(img)
    BY DEF RamFields
  <2> HIDE DEF empty
  <2>3. RamOk(empty)
    BY <2>1, <2>2, DeviceLoaded DEF RamOk
  <2>4. Matches(<<>>, <<>>)
    BY EmptyIsSeq, NothingPlaced
  <2>5. Made(empty, <<>>)
    BY <2>2, <2>3, <2>4, EmptyIsSeq DEF Made
  <2>6. AllNew(<<>>, <<>>)
    BY EmptyIsSeq DEF AllNew
  <2>7. Len(<<>>) = 0
    BY EmptyIsSeq
  <2> QED
    BY <2>2, <2>5, <2>6, <2>7, NothingLaid DEF OnlyFirst
<1> HIDE DEF empty
<1>2. OnlyFirst(a, n, some)
  BY <1>1, PeripheralsLoaded
<1> HIDE DEF some
<1>3. PICK old, c : Made(some, old) /\ Laid(c, some.peripherals, old) /\ AllNew(some.ports, old)
  BY <1>2 DEF OnlyFirst
<1>4. VirtualGood([r |-> some, made |-> old, img |-> img], VirtualMax, all)
  BY <1>2, <1>3, VirtualsLoaded DEF OnlyFirst
<1> HIDE DEF all
<1>5. /\ Made(all, old) /\ all.peripherals = some.peripherals /\ all.device = some.device
      /\ all.used_slots \cap VirtualSlots = {s \in VirtualSlots : "virtual" \in img.flags[s]}
      /\ \A i \in 1..Len(all.ports) : NewPort(all.ports[i], img, old)
  <2>1. \A s \in VirtualSlots : s < Virtual0 + VirtualMax
    BY StorageAssumption DEF VirtualSlots
  <2> QED
    BY <1>4, <2>1 DEF VirtualGood
<1> DEFINE ports == [i \in DOMAIN all.ports |-> InitialValue(port_load(all.ports[i], img))]
           r     == Loaded(img, slot)
<1>6. r = [all EXCEPT !.ports = ports]
  BY DEF Loaded, ports_init, all, some, empty
<1>7. IsSeq(all.ports) /\ DOMAIN all.ports = 1..Len(all.ports) /\ Len(all.ports) \in Nat
  BY <1>5, SeqIs DEF Made, RamOk, PortsOk
<1>8. ports = [i \in 1..Len(all.ports) |-> ports[i]]
  BY <1>7
<1>9. ASSUME NEW i \in 1..Len(all.ports)
      PROVE  LET p == all.ports[i] q == ports[i]
             IN  /\ PortOk(q) /\ q.slot = p.slot /\ q.peripheral = p.peripheral
                 /\ p.flags \subseteq q.flags /\ (IsVirtual(q) <=> IsVirtual(p))
                 /\ LoadedPort(q, img, old)
  <2>1. PortOk(all.ports[i]) /\ ports[i] = InitialValue(port_load(all.ports[i], img))
    BY <1>5, <1>7 DEF Made, RamOk, PortsOk
  <2> HIDE DEF ports
  <2> QED
    BY <1>5, <2>1, PortLoaded
<1> HIDE DEF ports, r
<1>10. PortsOk(ports) /\ SlotsIn(ports) = SlotsIn(all.ports) /\ Len(ports) = Len(all.ports)
  BY <1>5, <1>7, <1>8, <1>9, PortsChanged, FunctionIsSeq DEF Made, RamOk
<1>11. DOMAIN r = RamFields /\ r.ports = ports /\ r.used_slots = all.used_slots /\ r.peripherals = all.peripherals
       /\ r.device = all.device
  BY <1>5, <1>6 DEF Made, RamOk, RamFields
<1>12. RamOk(r)
  BY <1>5, <1>10, <1>11 DEF RamOk, Made
<1>13. PICK f : Placed(f, all.ports, old)
  BY <1>5 DEF Made, Matches
<1> DEFINE ids == [m \in 1..Len(old) |-> ports[f[m]].id]
           now == Renamed(old, ids)
<1>14. \A m \in 1..Len(old) : ids[m] = NoString => DummyId(old[m].slot) = NoString
  BY <1>9, <1>13 DEF Placed, Alike, PortOk, IdOk
<1>15. \A m \in 1..Len(old) : ids[m] = ports[f[m]].id
  OBVIOUS
<1> HIDE DEF ids
<1>16. IsSeq(now) /\ Len(now) = Len(old) /\ Laid(c, r.peripherals, now)
  BY <1>3, <1>5, <1>11, <1>14, LaidRenamed DEF Made, RamOk, PeripheralsOk
<1>17. \A m \in 1..Len(old) : /\ now[m].slot = old[m].slot /\ now[m].id = ids[m]
                              /\ now[m].peripheral = old[m].peripheral /\ now[m].flags = old[m].flags
  BY DEF Renamed
<1> HIDE DEF now
<1>18. Matches(ports, now)
  <2>1. ASSUME NEW m \in 1..Len(now) PROVE f[m] \in 1..Len(ports) /\ Alike(ports[f[m]], now[m])
    <3>1. f[m] \in 1..Len(ports) /\ Alike(all.ports[f[m]], old[m])
      BY <1>10, <1>13, <1>16 DEF Placed
    <3>2. LET p == all.ports[f[m]] q == ports[f[m]]
          IN  q.slot = p.slot /\ q.peripheral = p.peripheral /\ p.flags \subseteq q.flags /\ (IsVirtual(q) <=> IsVirtual(p))
      BY <1>9, <1>10, <3>1
    <3>3. /\ now[m].slot = old[m].slot /\ now[m].id = ports[f[m]].id
          /\ now[m].peripheral = old[m].peripheral /\ now[m].flags = old[m].flags
      BY <1>15, <1>16, <1>17
    <3> QED
      BY <3>1, <3>2, <3>3 DEF Alike
  <2>2. Placed(f, ports, now)
    BY <1>9, <1>10, <1>13, <1>16, <2>1 DEF Placed
  <2> QED
    BY <2>2 DEF Matches
<1>19. \A i \in 1..Len(ports) : LoadedPort(ports[i], img, now)
  <2>1. \A x \in 1..Len(old) : /\ now[x].slot = old[x].slot /\ now[x].peripheral = old[x].peripheral
                              /\ now[x].flags = old[x].flags
    BY <1>17
  <2>2. ASSUME NEW i \in 1..Len(ports) PROVE LoadedPort(ports[i], img, now)
    <3>1. LoadedPort(ports[i], img, old)
      BY <1>9, <1>10
    <3> QED
      BY <1>16, <2>1, <3>1 DEF LoadedPort
  <2> QED
    BY <2>2
<1>20. Made(r, now)
  BY <1>11, <1>12, <1>16, <1>18 DEF Made
<1>21. /\ Len(r.peripherals) = n /\ r.device = device_load(img)
       /\ \A i \in 1..n : r.peripherals[i] = img.peripherals[i]
  BY <1>1, <1>2, <1>5, <1>11 DEF OnlyFirst
<1>22. LoadedIs(img, r, now)
  BY <1>5, <1>11, <1>16, <1>19, <1>20, <1>21 DEF LoadedIs
<1> QED
  BY <1>22 DEF r

-----------------------------------------------------------------------------
(***************************************************************************)
(* Saving.                                                                 *)
(***************************************************************************)
\* The string at a location, below where the next one is written.
Holds(img, location, string) ==
    string_pool_read(img, location) = string /\ img.offset[location] < img.strings_offs

LEMMA StringWritten ==
    ASSUME NEW img, ImageOk(img), NEW location \in Locations, NEW string
    PROVE  LET w == string_pool_write(img, location, string)
           IN  /\ ImageOk(w)
               /\ w.peripherals = img.peripherals /\ w.flags = img.flags
               /\ w.value = img.value /\ w.version = img.version
               /\ w.fits => img.fits /\ Holds(w, location, string)
               /\ \A l \in Locations : \A s : l # location /\ Holds(img, l, s) => Holds(w, l, s)
<1> DEFINE w == string_pool_write(img, location, string)
           o == img.strings_offs
<1>1. /\ DOMAIN img = ImageFields /\ PoolOk(img)
      /\ DOMAIN img.offset = Locations /\ DOMAIN img.pool = 1..PoolSize
      /\ o \in Nat /\ 1 <= o /\ o <= PoolSize + 1 /\ PoolSize \in Nat
      /\ \A l \in Locations : img.offset[l] \in 0..PoolSize
  <2>1. /\ img.offset = [l \in Locations |-> img.offset[l]] /\ \A l \in Locations : img.offset[l] \in 0..PoolSize
        /\ img.pool = [x \in 1..PoolSize |-> img.pool[x]]
        /\ o \in 1..(PoolSize + 1) /\ DOMAIN img = ImageFields /\ PoolOk(img)
    BY DEF ImageOk, PoolOk
  <2> QED
    BY <2>1, StorageAssumption
\* What is not about the pool is as it was.
<1>2. ASSUME NEW v, DOMAIN v = ImageFields, PoolOk(v), v.peripherals = img.peripherals,
             v.flags = img.flags, v.value = img.value
      PROVE  ImageOk(v)
  BY <1>2 DEF ImageOk
<1>3. CASE string = NoString
  <2>1. w = [img EXCEPT !.offset[location] = 0]
    BY <1>3 DEF string_pool_write
  <2> HIDE DEF w
  <2>2. /\ DOMAIN w = ImageFields /\ w.flags = img.flags /\ w.peripherals = img.peripherals
        /\ w.value = img.value /\ w.version = img.version /\ w.fits = img.fits
        /\ w.pool = img.pool /\ w.strings_offs = o
        /\ w.offset = [img.offset EXCEPT ![location] = 0]
    BY <1>1, <2>1 DEF ImageFields
  <2>3. w.offset[location] = 0 /\ \A l \in Locations : l # location => w.offset[l] = img.offset[l]
    BY <1>1, <2>2
  <2>4. PoolOk(w)
    <3>1. \A l \in Locations : w.offset[l] \in 0..PoolSize
      <4> TAKE l \in Locations
      <4>1. CASE l = location
        BY <1>1, <2>3, <4>1
      <4>2. CASE l # location
        BY <1>1, <2>3, <4>2
      <4> QED
        BY <4>1, <4>2
    <3>2. w.offset = [l \in Locations |-> w.offset[l]]
      BY <1>1, <2>2
    <3> QED
      BY <1>1, <2>2, <3>1, <3>2 DEF PoolOk
  <2>5. ImageOk(w)
    BY <1>2, <2>2, <2>4
  <2>6. Holds(w, location, string)
    BY <1>1, <1>3, <2>2, <2>3 DEF Holds, string_pool_read
  <2>7. \A l \in Locations : \A s : l # location /\ Holds(img, l, s) => Holds(w, l, s)
    BY <2>2, <2>3 DEF Holds, string_pool_read
  <2> QED
    BY <2>2, <2>5, <2>6, <2>7 DEF w
<1>4. CASE string # NoString /\ o > PoolSize
  <2>1. w = [img EXCEPT !.fits = FALSE]
    BY <1>4 DEF string_pool_write
  <2> HIDE DEF w
  <2>2. /\ DOMAIN w = ImageFields /\ w.flags = img.flags /\ w.peripherals = img.peripherals
        /\ w.value = img.value /\ w.version = img.version /\ w.fits = FALSE
        /\ w.pool = img.pool /\ w.strings_offs = o /\ w.offset = img.offset
    BY <1>1, <2>1 DEF ImageFields
  <2>3. PoolOk(w)
    BY <1>1, <2>2 DEF PoolOk
  <2>4. ImageOk(w)
    BY <1>2, <2>2, <2>3
  <2>5. \A l \in Locations : \A s : Holds(img, l, s) => Holds(w, l, s)
    BY <2>2 DEF Holds, string_pool_read
  <2> QED
    BY <2>2, <2>4, <2>5 DEF w
<1>5. CASE string # NoString /\ ~(o > PoolSize)
  <2>1. w = [img EXCEPT !.offset[location] = o, !.pool[o] = string, !.strings_offs = @ + 1]
    BY <1>5 DEF string_pool_write
  <2> HIDE DEF w
  <2>2. /\ DOMAIN w = ImageFields /\ w.flags = img.flags /\ w.peripherals = img.peripherals
        /\ w.value = img.value /\ w.version = img.version /\ w.fits = img.fits
        /\ w.strings_offs = o + 1
        /\ w.pool = [img.pool EXCEPT ![o] = string]
        /\ w.offset = [img.offset EXCEPT ![location] = o]
    BY <1>1, <2>1 DEF ImageFields
  <2>3. /\ w.offset[location] = o /\ \A l \in Locations : l # location => w.offset[l] = img.offset[l]
        /\ w.pool[o] = string /\ \A x \in 1..PoolSize : x # o => w.pool[x] = img.pool[x]
        /\ o \in 1..PoolSize
    BY <1>1, <1>5, <2>2
  <2>4. PoolOk(w)
    <3>1. \A l \in Locations : w.offset[l] \in 0..PoolSize
      <4> TAKE l \in Locations
      <4>1. CASE l = location
        BY <1>1, <2>3, <4>1
      <4>2. CASE l # location
        BY <1>1, <2>3, <4>2
      <4> QED
        BY <4>1, <4>2
    <3>2. w.offset = [l \in Locations |-> w.offset[l]]
      BY <1>1, <2>2
    <3>3. w.pool = [x \in 1..PoolSize |-> w.pool[x]]
      BY <1>1, <2>2
    <3>4. w.strings_offs \in 1..(PoolSize + 1)
      BY <1>1, <2>2, <2>3
    <3> QED
      BY <3>1, <3>2, <3>3, <3>4 DEF PoolOk
  <2>5. ImageOk(w)
    BY <1>2, <2>2, <2>4
  <2>6. Holds(w, location, string)
    <3>1. w.offset[location] = o /\ o # 0 /\ w.pool[o] = string /\ o < w.strings_offs
      BY <1>1, <2>2, <2>3
    <3> QED
      BY <3>1 DEF Holds, string_pool_read
  <2>7. ASSUME NEW l \in Locations, NEW s, l # location, Holds(img, l, s) PROVE Holds(w, l, s)
    <3>1. w.offset[l] = img.offset[l] /\ img.offset[l] \in 0..PoolSize /\ img.offset[l] < o
      BY <1>1, <2>3, <2>7 DEF Holds
    <3>2. img.offset[l] # 0 => w.pool[img.offset[l]] = img.pool[img.offset[l]]
      BY <1>1, <2>3, <3>1
    <3>3. w.offset[l] < w.strings_offs
      BY <1>1, <2>2, <3>1
    <3> QED
      BY <2>7, <3>1, <3>2, <3>3 DEF Holds, string_pool_read
  <2> QED
    BY <2>2, <2>5, <2>6, <2>7 DEF w
<1> QED
  BY <1>3, <1>4, <1>5

\* What the image has of a port.
PortHeld(img, p) ==
    /\ img.flags[p.slot] = p.flags /\ img.value[p.slot] = p.value
    /\ Holds(img, <<p.slot, "id">>, p.id) /\ Holds(img, <<p.slot, "display_name">>, p.display_name)

LEMMA PortSaved ==
    ASSUME NEW img, ImageOk(img), NEW p, PortOk(p)
    PROVE  LET w == port_save(img, p)
           IN  /\ ImageOk(w) /\ w.peripherals = img.peripherals
               /\ w.fits => img.fits /\ PortHeld(w, p)
               /\ \A q : q.slot \in Slots /\ q.slot # p.slot /\ PortHeld(img, q) => PortHeld(w, q)
<1> DEFINE s  == p.slot
           j  == [img EXCEPT !.flags[s] = p.flags, !.value[s] = p.value]
           l1 == <<s, "id">>
           l2 == <<s, "display_name">>
           k  == string_pool_write(j, l1, p.id)
           w  == string_pool_write(k, l2, p.display_name)
<1>1. s \in Slots /\ (s \in VirtualSlots <=> "virtual" \in p.flags)
  BY DEF PortOk, BarePortOk, IsVirtual
<1>2. /\ DOMAIN j = ImageFields /\ j.peripherals = img.peripherals
      /\ j.flags = [img.flags EXCEPT ![s] = p.flags] /\ j.value = [img.value EXCEPT ![s] = p.value]
      /\ j.offset = img.offset /\ j.pool = img.pool /\ j.strings_offs = img.strings_offs /\ j.fits = img.fits
  BY DEF ImageOk, ImageFields
<1>3. port_save(img, p) = w
  BY DEF port_save
<1>4. \A t \in Slots : <<t, "id">> \in Locations /\ <<t, "display_name">> \in Locations
  BY DEF Locations
<1> HIDE DEF j
<1>5. DOMAIN img.flags = Slots /\ DOMAIN img.value = Slots
  <2>1. img.flags = [t \in Slots |-> img.flags[t]] /\ img.value = [t \in Slots |-> img.value[t]]
    BY DEF ImageOk
  <2> QED
    BY <2>1
<1>6. /\ j.flags[s] = p.flags /\ \A t \in Slots : t # s => j.flags[t] = img.flags[t]
      /\ j.value[s] = p.value /\ \A t \in Slots : t # s => j.value[t] = img.value[t]
  BY <1>1, <1>2, <1>5
<1>7. ImageOk(j)
  <2>1. PoolOk(j)
    BY <1>2 DEF ImageOk, PoolOk
  <2>2. j.flags = [t \in Slots |-> j.flags[t]] /\ j.value = [t \in Slots |-> j.value[t]]
    BY <1>2, <1>5
  <2>3. \A t \in Slots \ VirtualSlots : "virtual" \notin j.flags[t]
    BY <1>1, <1>6 DEF ImageOk
  <2> QED
    BY <1>2, <2>1, <2>2, <2>3 DEF ImageOk
<1>8. \A l \in Locations : \A x : Holds(img, l, x) => Holds(j, l, x)
  BY <1>2 DEF Holds, string_pool_read
<1>9. l1 \in Locations /\ l2 \in Locations /\ l1 # l2
  BY <1>1, <1>4
<1> HIDE DEF l1, l2
<1>10. /\ ImageOk(k) /\ k.peripherals = j.peripherals /\ k.flags = j.flags /\ k.value = j.value
       /\ k.fits => j.fits /\ Holds(k, l1, p.id)
       /\ \A l \in Locations : \A x : l # l1 /\ Holds(j, l, x) => Holds(k, l, x)
  BY <1>7, <1>9, StringWritten
<1> HIDE DEF k
<1>11. /\ ImageOk(w) /\ w.peripherals = k.peripherals /\ w.flags = k.flags /\ w.value = k.value
       /\ w.fits => k.fits /\ Holds(w, l2, p.display_name)
       /\ \A l \in Locations : \A x : l # l2 /\ Holds(k, l, x) => Holds(w, l, x)
  BY <1>9, <1>10, StringWritten
<1> HIDE DEF w
<1>12. w.fits => img.fits /\ PortHeld(w, p)
  <2> SUFFICES ASSUME w.fits PROVE img.fits /\ PortHeld(w, p)
    OBVIOUS
  <2>1. Holds(w, l1, p.id) /\ Holds(w, l2, p.display_name)
    BY <1>9, <1>10, <1>11
  <2>2. w.flags[p.slot] = p.flags /\ w.value[p.slot] = p.value
    BY <1>6, <1>10, <1>11
  <2> QED
    BY <1>2, <1>10, <1>11, <2>1, <2>2 DEF PortHeld, l1, l2
<1>13. ASSUME NEW q, q.slot \in Slots, q.slot # s, PortHeld(img, q) PROVE PortHeld(w, q)
  <2> DEFINE m1 == <<q.slot, "id">>
             m2 == <<q.slot, "display_name">>
  <2>1. m1 \in Locations /\ m2 \in Locations /\ m1 \notin {l1, l2} /\ m2 \notin {l1, l2}
    BY <1>4, <1>13 DEF l1, l2
  <2>2. Holds(img, m1, q.id) /\ Holds(img, m2, q.display_name)
    BY <1>13 DEF PortHeld
  <2> HIDE DEF m1, m2
  <2>3. Holds(w, m1, q.id)
    BY <1>8, <1>10, <1>11, <2>1, <2>2
  <2>4. Holds(w, m2, q.display_name)
    BY <1>8, <1>10, <1>11, <2>1, <2>2
  <2>5. w.flags[q.slot] = q.flags /\ w.value[q.slot] = q.value
    BY <1>6, <1>10, <1>11, <1>13 DEF PortHeld
  <2> QED
    BY <2>3, <2>4, <2>5 DEF PortHeld, m1, m2
<1>14. w.peripherals = img.peripherals
  BY <1>2, <1>10, <1>11
<1> QED
  BY <1>3, <1>11, <1>12, <1>13, <1>14 DEF w

SaveStep(a, img, p) == port_save(img, p)

SaveGood(a, k, img) ==
    /\ ImageOk(img) /\ img.peripherals = a.peripherals
    /\ img.fits => \A i \in 1..k : PortHeld(img, a.ports[i])

SavePorts == INSTANCE FoldInduction WITH Step <- SaveStep, Good <- SaveGood

LEMMA PortsSaved ==
    ASSUME NEW ports, PortsOk(ports), NEW img, ImageOk(img)
    PROVE  LET w == FoldLeft(port_save, img, ports)
           IN  /\ ImageOk(w) /\ w.peripherals = img.peripherals
               /\ w.fits => \A i \in 1..Len(ports) : PortHeld(w, ports[i])
<1> DEFINE a == [ports |-> ports, peripherals |-> img.peripherals]
           w == FoldLeft(port_save, img, ports)
           n == Len(ports)
<1>1. w = SavePorts!Fold(a, img, ports)
  BY DEF SavePorts!Fold, SaveStep, FoldLeft, MapThenFoldSet, Max,
         SavePorts!MapThenFoldSet, SavePorts!Largest
<1>2. n \in Nat /\ DOMAIN ports = 1..n
  BY SeqIs DEF PortsOk
<1>3. a.ports = ports /\ a.peripherals = img.peripherals
  OBVIOUS
<1> HIDE DEF a, w
<1>4. SaveGood(a, 0, img)
  BY <1>3 DEF SaveGood
<1>5. ASSUME NEW k \in 0..(n - 1), NEW i, SaveGood(a, k, i)
      PROVE  SaveGood(a, k + 1, SaveStep(a, i, ports[k + 1]))
  <2> DEFINE p == ports[k + 1]
             v == port_save(i, p)
  <2>1. k + 1 \in 1..n /\ PortOk(p) /\ \A x \in 1..(k + 1) : x = k + 1 \/ (x \in 1..k /\ x \in 1..n /\ x # k + 1)
    BY <1>2 DEF PortsOk
  <2>2. \A x \in 1..k : ports[x].slot \in Slots /\ ports[x].slot # p.slot
    <3>1. \A x \in 1..k : x \in 1..n /\ x # k + 1
      BY <1>2
    <3> QED
      BY <2>1, <3>1 DEF PortsOk, PortOk, BarePortOk
  <2> HIDE DEF p
  <2>3. /\ ImageOk(v) /\ v.peripherals = i.peripherals
        /\ v.fits => i.fits /\ PortHeld(v, p)
        /\ \A q : q.slot \in Slots /\ q.slot # p.slot /\ PortHeld(i, q) => PortHeld(v, q)
    BY <1>5, <2>1, PortSaved DEF SaveGood
  <2> HIDE DEF v
  <2>4. ASSUME v.fits, NEW x \in 1..(k + 1) PROVE PortHeld(v, ports[x])
    <3>1. CASE x = k + 1
      BY <2>3, <2>4, <3>1 DEF p
    <3>2. CASE x \in 1..k
      <4>1. PortHeld(i, ports[x])
        BY <1>3, <1>5, <2>3, <2>4, <3>2 DEF SaveGood
      <4>2. ports[x].slot \in Slots /\ ports[x].slot # p.slot
        BY <2>2, <3>2
      <4> QED
        BY <2>3, <4>1, <4>2
    <3> QED
      BY <2>1, <3>1, <3>2
  <2>5. SaveGood(a, k + 1, v)
    BY <1>3, <1>5, <2>3, <2>4 DEF SaveGood
  <2> QED
    BY <2>5 DEF SaveStep, v, p
<1>6. SaveGood(a, n, w)
  BY <1>1, <1>2, <1>4, <1>5, SavePorts!FoldKeeps
<1> QED
  BY <1>3, <1>6 DEF SaveGood, w

StringFields == <<"name", "display_name", "config_name">>

DeviceStep(a, img, field) == string_pool_write(img, <<Device, field>>, a.device[field])

DeviceGood(a, k, img) ==
    /\ ImageOk(img) /\ img.peripherals = a.img.peripherals /\ img.flags = a.img.flags
    /\ img.version = a.img.version
    /\ img.fits => /\ \A i \in 1..Len(a.ports) : PortHeld(img, a.ports[i])
                   /\ \A j \in 1..k : Holds(img, <<Device, StringFields[j]>>, a.device[StringFields[j]])

SaveDevice == INSTANCE FoldInduction WITH Step <- DeviceStep, Good <- DeviceGood

\* What can be read in the image of a port.
PortRead(img, p) ==
    /\ img.flags[p.slot] = p.flags /\ img.value[p.slot] = p.value
    /\ string_pool_read(img, <<p.slot, "id">>) = p.id
    /\ string_pool_read(img, <<p.slot, "display_name">>) = p.display_name

\* The image has all that is to be saved of r.
SavedIs(img, r) ==
    /\ \A i \in 1..PeripheralMax :
           img.peripherals[i] = IF i <= Len(r.peripherals) THEN r.peripherals[i] ELSE NoPart
    /\ {s \in VirtualSlots : "virtual" \in img.flags[s]} = r.used_slots \cap VirtualSlots
    /\ \A i \in 1..Len(r.ports) : PortRead(img, r.ports[i])
    /\ img.version = r.device.version
    /\ \A field \in DeviceStrings : string_pool_read(img, <<Device, field>>) = r.device[field]

SaveStrings(device, img) ==
    FoldLeft(LAMBDA i, field : string_pool_write(i, <<Device, field>>, device[field]),
             img, <<"name", "display_name", "config_name">>)

LEMMA DeviceSaved ==
    ASSUME NEW r, RamOk(r), NEW img, ImageOk(img), img.version = r.device.version,
           img.fits => \A i \in 1..Len(r.ports) : PortHeld(img, r.ports[i])
    PROVE  DeviceGood([ports |-> r.ports, device |-> r.device, img |-> img], 3, SaveStrings(r.device, img))
<1> DEFINE a == [ports |-> r.ports, device |-> r.device, img |-> img]
           w == SaveStrings(r.device, img)
<1>1. w = SaveDevice!Fold(a, img, StringFields)
  BY DEF StringFields, SaveStrings, SaveDevice!Fold, DeviceStep, FoldLeft, MapThenFoldSet, Max,
         SaveDevice!MapThenFoldSet, SaveDevice!Largest
<1>2. /\ DOMAIN StringFields = 1..3
      /\ StringFields[1] = "name" /\ StringFields[2] = "display_name" /\ StringFields[3] = "config_name"
  BY DEF StringFields
<1>3. a.ports = r.ports /\ a.device = r.device /\ a.img = img
  OBVIOUS
<1> HIDE DEF a, w
<1>4. DeviceGood(a, 0, img)
  BY <1>3 DEF DeviceGood
<1>5. ASSUME NEW k \in 0..(3 - 1), NEW i, DeviceGood(a, k, i)
      PROVE  DeviceGood(a, k + 1, DeviceStep(a, i, StringFields[k + 1]))
  <2> DEFINE l == <<Device, StringFields[k + 1]>>
             s == r.device[StringFields[k + 1]]
             v == string_pool_write(i, l, s)
  <2>1. k + 1 \in 1..3 /\ k \in {0, 1, 2}
    OBVIOUS
  <2>2. \A j \in 1..3 : <<Device, StringFields[j]>> \in Locations
    BY <1>2 DEF Locations
  <2>3. \A j \in 1..k : j \in 1..3 /\ <<Device, StringFields[j]>> # l
    BY <1>2, <2>1
  <2>4. l \in Locations
    BY <2>1, <2>2
  <2> HIDE DEF l, s
  <2>5. /\ ImageOk(v) /\ v.peripherals = i.peripherals /\ v.flags = i.flags
        /\ v.value = i.value /\ v.version = i.version
        /\ v.fits => i.fits /\ Holds(v, l, s)
        /\ \A x \in Locations : \A y : x # l /\ Holds(i, x, y) => Holds(v, x, y)
    BY <1>5, <2>4, StringWritten DEF DeviceGood
  <2> HIDE DEF v
  <2>6. ASSUME v.fits, NEW j \in 1..(k + 1)
        PROVE  Holds(v, <<Device, StringFields[j]>>, r.device[StringFields[j]])
    <3>1. CASE j = k + 1
      BY <2>5, <2>6, <3>1 DEF l, s
    <3>2. CASE j \in 1..k
      <4>1. Holds(i, <<Device, StringFields[j]>>, r.device[StringFields[j]])
        BY <1>3, <1>5, <2>5, <2>6, <3>2 DEF DeviceGood
      <4> QED
        BY <2>2, <2>3, <2>5, <3>2, <4>1
    <3> QED
      BY <2>1, <3>1, <3>2
  <2>7. ASSUME v.fits, NEW x \in 1..Len(r.ports) PROVE PortHeld(v, r.ports[x])
    <3> DEFINE p  == r.ports[x]
               m1 == <<p.slot, "id">>
               m2 == <<p.slot, "display_name">>
    <3>1. PortHeld(i, p) /\ p.slot \in Slots
      BY <1>3, <1>5, <2>5, <2>7 DEF DeviceGood, RamOk, PortsOk, PortOk, BarePortOk
    <3>2. p.slot # Device
      BY <3>1, StorageAssumption DEF Slots, Device
    <3>3. m1 \in Locations /\ m2 \in Locations /\ m1 # l /\ m2 # l
      BY <3>1, <3>2 DEF Locations, l
    <3> HIDE DEF m1, m2, p
    <3>4. Holds(v, m1, p.id) /\ Holds(v, m2, p.display_name)
      BY <2>5, <3>1, <3>3 DEF PortHeld, m1, m2
    <3>5. PortHeld(v, p)
      BY <2>5, <3>1, <3>4 DEF PortHeld, m1, m2
    <3> QED
      BY <3>5 DEF p
  <2>8. DeviceGood(a, k + 1, v)
    BY <1>3, <1>5, <2>5, <2>6, <2>7 DEF DeviceGood
  <2> QED
    BY <1>3, <2>8 DEF DeviceStep, v, l, s
<1>6. DeviceGood(a, 3, w)
  BY <1>1, <1>2, <1>4, <1>5, SaveDevice!FoldKeeps
<1> QED
  BY <1>6 DEF a, w

\* A save, over whatever the image held, leaves there what r is, if its strings fit.
LEMMA SavedOk ==
    ASSUME NEW r, RamOk(r), NEW img, ImageOk(img)
    PROVE  ImageOk(Saved(r, img)) /\ (Saved(r, img).fits => SavedIs(Saved(r, img), r))
<1> DEFINE one   == peripherals_save(r, img)
           two   == FoldLeft(port_save, one, r.ports)
           three == virtual_ports_save(r, two)
           four  == [three EXCEPT !.version = r.device.version]
           all   == SaveStrings(r.device, four)
<1>0. Saved(r, img) = all
  BY DEF Saved, ports_save, device_save, SaveStrings
<1> HIDE DEF all
<1> DEFINE Listed(ps) == \A i \in 1..PeripheralMax : ps[i] = IF i <= Len(r.peripherals) THEN r.peripherals[i] ELSE NoPart
<1>1. ImageOk(one) /\ Listed(one.peripherals)
  <2>1. /\ DOMAIN one = ImageFields /\ one.flags = img.flags /\ one.value = img.value /\ one.offset = img.offset
        /\ one.pool = img.pool /\ one.strings_offs = img.strings_offs
    BY DEF peripherals_save, ImageOk, ImageFields
  <2>2. one.peripherals = [i \in 1..PeripheralMax |->
                              IF i <= Len(r.peripherals) THEN r.peripherals[i] ELSE NoPart]
    BY DEF peripherals_save, ImageOk, ImageFields
  <2>3. \A i \in 1..PeripheralMax : one.peripherals[i] # NoPart => one.peripherals[i].type \in DOMAIN PortsOf
    <3>1. Len(r.peripherals) \in Nat /\ \A i \in 1..Len(r.peripherals) : r.peripherals[i].type \in DOMAIN PortsOf
      BY SeqIs DEF RamOk, PeripheralsOk, PeripheralOk
    <3>2. \A i \in 1..PeripheralMax : i <= Len(r.peripherals) => i \in 1..Len(r.peripherals)
      BY <3>1, StorageAssumption
    <3> HIDE DEF one
    <3> QED
      BY <2>2, <3>1, <3>2
  <2> HIDE DEF one
  <2>4. one.peripherals = [i \in 1..PeripheralMax |-> one.peripherals[i]]
    BY <2>2
  <2>5. PoolOk(one)
    BY <2>1 DEF ImageOk, PoolOk
  <2>6. Listed(one.peripherals)
    BY <2>2
  <2> QED
    BY <2>1, <2>3, <2>4, <2>5, <2>6 DEF ImageOk
<1> HIDE DEF one, Listed
<1>2. /\ ImageOk(two) /\ two.peripherals = one.peripherals
      /\ two.fits => \A i \in 1..Len(r.ports) : PortHeld(two, r.ports[i])
  BY <1>1, PortsSaved DEF RamOk
<1> HIDE DEF two
<1>3. /\ ImageOk(three) /\ three.peripherals = two.peripherals
      /\ {s \in VirtualSlots : "virtual" \in three.flags[s]} = r.used_slots \cap VirtualSlots
      /\ three.fits => \A i \in 1..Len(r.ports) : PortHeld(three, r.ports[i])
  <2>1. /\ DOMAIN three = ImageFields /\ three.peripherals = two.peripherals /\ three.value = two.value
        /\ three.offset = two.offset /\ three.pool = two.pool /\ three.strings_offs = two.strings_offs
        /\ three.fits = two.fits
    BY <1>2 DEF virtual_ports_save, ImageOk, ImageFields
  <2>2. three.flags = [s \in Slots |-> IF s \notin VirtualSlots THEN two.flags[s]
                                       ELSE IF Busy(r, s) THEN two.flags[s] \cup {"virtual"}
                                       ELSE two.flags[s] \ {"virtual"}]
    <3>1. two.flags = [s \in Slots |-> two.flags[s]]
      BY <1>2 DEF ImageOk
    <3>2. DOMAIN two.flags = Slots
      BY <3>1
    <3> QED
      BY <1>2, <3>2 DEF virtual_ports_save, ImageOk, ImageFields
  <2> HIDE DEF three
  <2>3. \A s \in Slots \ VirtualSlots : "virtual" \notin three.flags[s]
    BY <1>2, <2>2 DEF ImageOk
  <2>4. three.flags = [s \in Slots |-> three.flags[s]]
    BY <2>2
  <2>5. ImageOk(three)
    <3>1. PoolOk(three)
      BY <1>2, <2>1 DEF ImageOk, PoolOk
    <3> QED
      BY <1>2, <2>1, <2>3, <2>4, <3>1 DEF ImageOk
  <2>6. \A s \in VirtualSlots : "virtual" \in three.flags[s] <=> s \in r.used_slots
    BY <2>2, VirtualSlotsAre DEF Busy
  <2>7. ASSUME three.fits, NEW i \in 1..Len(r.ports) PROVE PortHeld(three, r.ports[i])
    <3> DEFINE p == r.ports[i]
    <3>1. PortHeld(two, p) /\ PortOk(p) /\ p.slot \in r.used_slots
      BY <1>2, <2>1, <2>7 DEF RamOk, PortsOk, SlotsIn
    <3> HIDE DEF p
    <3>2. three.flags[p.slot] = two.flags[p.slot]
      <4> DEFINE s == p.slot
      <4>1. s \in Slots /\ (s \in VirtualSlots => Busy(r, s) /\ "virtual" \in two.flags[s])
        BY <3>1 DEF PortHeld, PortOk, BarePortOk, IsVirtual, Busy
      <4> HIDE DEF s
      <4>2. three.flags[s] = IF s \notin VirtualSlots THEN two.flags[s] ELSE two.flags[s] \cup {"virtual"}
        BY <2>2, <4>1
      <4>3. three.flags[s] = two.flags[s]
        BY <4>1, <4>2
      <4> QED
        BY <4>3 DEF s
    <3>3. PortHeld(three, p)
      BY <2>1, <3>1, <3>2 DEF PortHeld, Holds, string_pool_read
    <3> QED
      BY <3>3 DEF p
  <2> QED
    BY <2>1, <2>5, <2>6, <2>7
<1> HIDE DEF three
<1>4. /\ ImageOk(four) /\ four.peripherals = three.peripherals /\ four.flags = three.flags
      /\ four.version = r.device.version
      /\ four.fits => \A i \in 1..Len(r.ports) : PortHeld(four, r.ports[i])
  <2>1. /\ DOMAIN four = ImageFields /\ four.flags = three.flags /\ four.peripherals = three.peripherals
        /\ four.value = three.value /\ four.offset = three.offset /\ four.pool = three.pool
        /\ four.strings_offs = three.strings_offs /\ four.fits = three.fits /\ four.version = r.device.version
    BY <1>3 DEF ImageOk, ImageFields
  <2> HIDE DEF four
  <2>2. PoolOk(four)
    BY <1>3, <2>1 DEF ImageOk, PoolOk
  <2>3. ImageOk(four)
    BY <1>3, <2>1, <2>2 DEF ImageOk
  <2>4. \A p : PortHeld(three, p) => PortHeld(four, p)
    BY <2>1 DEF PortHeld, Holds, string_pool_read
  <2> QED
    BY <1>3, <2>1, <2>3, <2>4
<1> HIDE DEF four
<1>5. DeviceGood([ports |-> r.ports, device |-> r.device, img |-> four], 3, all)
  BY <1>4, DeviceSaved DEF all
<1>6. /\ ImageOk(all) /\ all.peripherals = four.peripherals /\ all.flags = four.flags /\ all.version = four.version
      /\ all.fits => /\ \A i \in 1..Len(r.ports) : PortHeld(all, r.ports[i])
                     /\ \A j \in 1..3 : Holds(all, <<Device, StringFields[j]>>, r.device[StringFields[j]])
  BY <1>5 DEF DeviceGood
<1>7. ASSUME all.fits PROVE SavedIs(all, r)
  <2>1. \A field \in DeviceStrings : string_pool_read(all, <<Device, field>>) = r.device[field]
    <3>1. 1 \in 1..3 /\ 2 \in 1..3 /\ 3 \in 1..3
      OBVIOUS
    <3>2. StringFields[1] = "name" /\ StringFields[2] = "display_name" /\ StringFields[3] = "config_name"
      BY DEF StringFields
    <3>3. \A j \in 1..3 : Holds(all, <<Device, StringFields[j]>>, r.device[StringFields[j]])
      BY <1>6, <1>7
    <3> QED
      BY <3>1, <3>2, <3>3 DEF DeviceStrings, Holds
  <2>2. Listed(all.peripherals)
    BY <1>1, <1>2, <1>3, <1>4, <1>6
  <2>3. {s \in VirtualSlots : "virtual" \in all.flags[s]} = r.used_slots \cap VirtualSlots
    BY <1>3, <1>4, <1>6
  <2>4. \A i \in 1..Len(r.ports) : PortRead(all, r.ports[i])
    BY <1>6, <1>7 DEF PortHeld, PortRead, Holds
  <2> QED
    BY <1>4, <1>6, <2>1, <2>2, <2>3, <2>4 DEF SavedIs, Listed
<1> QED
  BY <1>0, <1>6, <1>7

-----------------------------------------------------------------------------
(***************************************************************************)
(* The same peripherals make the same ports, whatever their ids.           *)
(***************************************************************************)
Same(p, q) == p.slot = q.slot /\ p.peripheral = q.peripheral /\ p.flags = q.flags

LEMMA SameBusy ==
    ASSUME NEW made, NEW now, NEW m \in Nat, \A x \in 1..m : Same(now[x], made[x])
    PROVE  Before(now, m) = Before(made, m)
BY DEF Before, Same

\* As many ports of a peripheral as both layouts have are the same.
LEMMA SamePart ==
    ASSUME NEW c, NEW d, NEW i, NEW type, NEW made, NEW now,
           LaidGroup(c, i, type, made), LaidGroup(d, i, type, now),
           NEW p \in Nat, c[i - 1] = p, d[i - 1] = p, c[i] \in Nat, d[i] \in Nat,
           \A x \in 1..p : Same(now[x], made[x]),
           NEW n \in Nat, p + n <= c[i], p + n <= d[i]
    PROVE  \A x \in 1..(p + n) : Same(now[x], made[x])
<1> DEFINE T == {k \in 0..n : \A x \in 1..(p + k) : Same(now[x], made[x])}
<1>1. 0 \in T
  OBVIOUS
<1>2. ASSUME NEW k \in 0..(n - 1), k \in T PROVE k + 1 \in T
  <2> DEFINE m == p + (k + 1)
             b == Before(made, m - 1)
             w == PortsOf[type][k + 1]
  <2>1. /\ k + 1 \in 0..n /\ m - 1 = p + k /\ m - 1 \in Nat
        /\ \A x \in 1..m : x = m \/ x \in 1..(p + k)
    OBVIOUS
  <2>2. k + 1 \in 1..(c[i] - p) /\ k + 1 \in 1..(d[i] - p)
    OBVIOUS
  <2>3. \A x \in 1..(m - 1) : Same(now[x], made[x])
    BY <1>2, <2>1
  <2>4. Before(now, m - 1) = b
    BY <2>1, <2>3, SameBusy
  <2>5. made[m] = MadePort(b, w, i, made[m].id)
    BY <2>2 DEF LaidGroup
  <2>6. now[m] = MadePort(Before(now, m - 1), w, i, now[m].id)
    BY <2>2 DEF LaidGroup
  <2> HIDE DEF m, b, w
  <2>7. Same(now[m], made[m])
    BY <2>4, <2>5, <2>6 DEF MadePort, Same
  <2>8. \A x \in 1..m : Same(now[x], made[x])
    BY <1>2, <2>1, <2>7
  <2> QED
    BY <2>1, <2>8 DEF m
<1> HIDE DEF T
<1>3. n \in T
  BY <1>1, <1>2, Make!NumbersUpTo
<1> QED
  BY <1>3 DEF T

LEMMA NotShorter ==
    ASSUME NEW c, NEW d, NEW i, NEW type, NEW made, NEW now,
           LaidGroup(c, i, type, made), LaidGroup(d, i, type, now), Len(PortsOf[type]) \in Nat,
           NEW p \in Nat, c[i - 1] = p, d[i - 1] = p, c[i] \in Nat, d[i] \in Nat,
           \A x \in 1..p : Same(now[x], made[x])
    PROVE  d[i] <= c[i]
<1> SUFFICES ASSUME c[i] < d[i] PROVE FALSE
  OBVIOUS
<1> DEFINE n == c[i] - p
           m == p + (n + 1)
<1>1. n \in 0..Len(PortsOf[type]) /\ d[i] - p \in 0..Len(PortsOf[type])
  BY DEF LaidGroup
<1>2. p + n <= c[i] /\ p + n <= d[i] /\ n \in Nat /\ n < Len(PortsOf[type]) /\ n + 1 \in 1..(d[i] - p)
  BY <1>1
<1>3. \A x \in 1..(p + n) : Same(now[x], made[x])
  <2> HIDE DEF n
  <2> QED
    BY <1>2, SamePart
<1>4. FreeSlots(Before(made, c[i])) = {}
  BY <1>2 DEF LaidGroup
<1>5. FreeSlots(Before(now, m - 1)) # {}
  BY <1>2 DEF LaidGroup
<1>6. m - 1 = p + n /\ c[i] = p + n
  BY <1>2
<1>7. Before(now, p + n) = Before(made, p + n)
  BY <1>2, <1>3, SameBusy
<1> QED
  BY <1>4, <1>5, <1>6, <1>7

LEMMA SameGroup ==
    ASSUME NEW c, NEW d, NEW i, NEW type, NEW made, NEW now,
           LaidGroup(c, i, type, made), LaidGroup(d, i, type, now), Len(PortsOf[type]) \in Nat,
           NEW p \in Nat, c[i - 1] = p, d[i - 1] = p, c[i] \in Nat, d[i] \in Nat,
           \A x \in 1..p : Same(now[x], made[x])
    PROVE  d[i] = c[i] /\ \A x \in 1..c[i] : Same(now[x], made[x])
<1>1. d[i] <= c[i]
  BY NotShorter
<1>2. c[i] <= d[i]
  <2>1. \A x \in 1..p : Same(made[x], now[x])
    BY DEF Same
  <2> QED
    BY <2>1, NotShorter
<1>3. d[i] = c[i]
  BY <1>1, <1>2
<1> DEFINE n == c[i] - p
<1>4. n \in Nat /\ p + n = c[i] /\ p + n <= c[i] /\ p + n <= d[i]
  BY <1>3 DEF LaidGroup
<1> HIDE DEF n
<1>5. \A x \in 1..(p + n) : Same(now[x], made[x])
  BY <1>4, SamePart
<1> QED
  BY <1>3, <1>4, <1>5

LEMMA SameLayout ==
    ASSUME NEW ps, PeripheralsOk(ps), NEW c, NEW made, Laid(c, ps, made), NEW d, NEW now, Laid(d, ps, now)
    PROVE  Len(now) = Len(made) /\ \A x \in 1..Len(made) : Same(now[x], made[x])
<1> DEFINE l == Len(ps)
           T == {k \in 0..l : d[k] = c[k] /\ \A x \in 1..c[k] : Same(now[x], made[x])}
<1>1. l \in Nat /\ \A k \in 1..l : Len(PortsOf[ps[k].type]) \in Nat
  BY SeqIs, TypeIs DEF PeripheralsOk, PeripheralOk
<1>2. 0 \in T
  BY <1>1 DEF Laid
<1>3. ASSUME NEW k \in 0..(l - 1), k \in T PROVE k + 1 \in T
  <2> DEFINE i == k + 1
             type == ps[i].type
  <2>1. i \in 1..l /\ i - 1 = k /\ k \in 0..l /\ i \in 0..l
    BY <1>1
  <2>2. /\ LaidGroup(c, i, type, made) /\ LaidGroup(d, i, type, now) /\ Len(PortsOf[type]) \in Nat
        /\ c[k] \in Nat /\ c[i] \in Nat /\ d[i] \in Nat /\ d[k] = c[k]
    BY <1>1, <1>3, <2>1 DEF Laid
  <2>3. \A x \in 1..c[k] : Same(now[x], made[x])
    BY <1>3
  <2> HIDE DEF i, type
  <2>4. d[i] = c[i] /\ \A x \in 1..c[i] : Same(now[x], made[x])
    BY <2>1, <2>2, <2>3, SameGroup
  <2> QED
    BY <2>1, <2>4 DEF i
<1> HIDE DEF T
<1>4. l \in T
  BY <1>1, <1>2, <1>3, Make!NumbersUpTo
<1> QED
  BY <1>4 DEF T, Laid

-----------------------------------------------------------------------------
(***************************************************************************)
(* What was saved is restored.                                             *)
(***************************************************************************)
LEMMA FlashOk ==
    ASSUME NEW img, ImageOk(img)
    PROVE  /\ ImageOk(Flash(img))
           /\ \A r : SavedIs(img, r) => SavedIs(Flash(img), r)
           /\ device_load(Flash(img)) = device_load(img)
<1> DEFINE w == Flash(img)
<1>1. /\ DOMAIN w = ImageFields /\ w.peripherals = img.peripherals /\ w.flags = img.flags
      /\ w.value = img.value /\ w.version = img.version /\ w.offset = img.offset /\ w.pool = img.pool
      /\ w.strings_offs = 1
  BY DEF Flash, ImageOk, ImageFields
<1>2. 1 \in 1..(PoolSize + 1)
  BY StorageAssumption
<1> HIDE DEF w
<1>3. PoolOk(w)
  BY <1>1, <1>2 DEF PoolOk, ImageOk
<1>4. ImageOk(w)
  BY <1>1, <1>3 DEF ImageOk
<1>5. \A l : string_pool_read(w, l) = string_pool_read(img, l)
  BY <1>1 DEF string_pool_read
<1>6. ASSUME NEW r, SavedIs(img, r) PROVE SavedIs(w, r)
  <2>1. \A i \in 1..Len(r.ports) : PortRead(w, r.ports[i])
    BY <1>1, <1>5, <1>6 DEF SavedIs, PortRead
  <2>2. \A field \in DeviceStrings : string_pool_read(w, <<Device, field>>) = r.device[field]
    BY <1>5, <1>6 DEF SavedIs
  <2> QED
    BY <1>1, <1>6, <2>1, <2>2 DEF SavedIs
<1>7. device_load(w) = device_load(img)
  <2>1. /\ string_pool_read(w, <<Device, "name">>) = string_pool_read(img, <<Device, "name">>)
        /\ string_pool_read(w, <<Device, "display_name">>) = string_pool_read(img, <<Device, "display_name">>)
        /\ string_pool_read(w, <<Device, "config_name">>) = string_pool_read(img, <<Device, "config_name">>)
    BY <1>5
  <2> QED
    BY <1>1, <2>1 DEF device_load
<1> QED
  BY <1>4, <1>6, <1>7 DEF w

LEMMA ZerosOk == ImageOk(Zeros)
<1>1. DOMAIN Zeros = ImageFields /\ Zeros.flags = [s \in Slots |-> {}]
  BY DEF Zeros, ImageFields
<1>2. Zeros.peripherals = [i \in 1..PeripheralMax |-> NoPart] /\ Zeros.value = [s \in Slots |-> Undefined]
  BY DEF Zeros
<1>3. /\ Zeros.offset = [l \in Locations |-> 0] /\ Zeros.pool = [o \in 1..PoolSize |-> NoString]
      /\ Zeros.strings_offs = 1
  BY DEF Zeros
<1>4. 0 \in 0..PoolSize /\ 1 \in 1..(PoolSize + 1)
  BY StorageAssumption
<1>5. PoolOk(Zeros)
  BY <1>3, <1>4 DEF PoolOk
<1> QED
  BY <1>1, <1>2, <1>5 DEF ImageOk

\* An image with neither peripherals nor virtual ports.
BlankIs(img) ==
    /\ ImageOk(img) /\ \A i \in 1..PeripheralMax : img.peripherals[i] = NoPart
    /\ \A s \in Slots : img.flags[s] = {}

LEMMA BlankLoaded ==
    ASSUME NEW img, BlankIs(img), NEW slot
    PROVE  Content(Loaded(img, slot)) = [ports |-> {}, peripherals |-> <<>>, device |-> device_load(img)]
<1> DEFINE u == Loaded(img, slot)
<1>1. PICK now : LoadedIs(img, u, now)
  BY LoadedOk DEF BlankIs
<1> HIDE DEF u
<1>2. Count(img.peripherals) = 0
  <2>1. Count(img.peripherals) \in 0..PeripheralMax
        /\ \A i \in 1..Count(img.peripherals) : img.peripherals[i] # NoPart
    BY Counted DEF Count
  <2>2. PeripheralMax \in Nat
    BY StorageAssumption
  <2>3. Count(img.peripherals) > 0 => 1 \in 1..Count(img.peripherals) /\ 1 \in 1..PeripheralMax
    BY <2>1, <2>2
  <2> QED
    BY <2>1, <2>3 DEF BlankIs
<1>3. Len(u.peripherals) = 0 /\ u.peripherals = <<>>
  <2>1. IsSeq(u.peripherals) /\ Len(u.peripherals) = 0
    BY <1>1, <1>2 DEF LoadedIs, Made, RamOk, PeripheralsOk
  <2> QED
    BY <2>1, SeqIs, EmptyIsSeq
<1>4. Len(now) = 0
  <2>1. PICK c : Laid(c, u.peripherals, now)
    BY <1>1 DEF LoadedIs
  <2> QED
    BY <1>3, <2>1 DEF Laid
<1>5. IsSeq(u.ports) /\ PortsOk(u.ports) /\ u.used_slots = SlotsIn(u.ports) /\ Matches(u.ports, now)
  BY <1>1 DEF LoadedIs, Made, RamOk, PortsOk
<1>6. ASSUME NEW i \in 1..Len(u.ports) PROVE FALSE
  <2>1. CASE ~IsVirtual(u.ports[i])
    BY <1>4, <1>5, <2>1 DEF Matches, Placed
  <2>2. CASE IsVirtual(u.ports[i])
    <3>1. u.ports[i].slot \in VirtualSlots /\ u.ports[i].slot \in u.used_slots /\ u.ports[i].slot \in Slots
      BY <1>5, <1>6, <2>2 DEF PortsOk, PortOk, BarePortOk, SlotsIn
    <3> QED
      BY <1>1, <3>1 DEF LoadedIs, BlankIs
  <2> QED
    BY <2>1, <2>2
<1>7. Range(u.ports) = {}
  BY <1>5, <1>6, SeqIs
<1>8. u.device = device_load(img)
  BY <1>1 DEF LoadedIs
<1> QED
  BY <1>3, <1>7, <1>8 DEF Content, u

LEMMA FactoryIs ==
    ASSUME NEW r, DeviceOk(r.device)
    PROVE  LET img == FactoryImage(r)
           IN  /\ BlankIs(img)
               /\ device_load(img) = [name |-> Default, display_name |-> "", version |-> 0,
                                      config_name |-> r.device.config_name]
<1> DEFINE at   == <<Device, "config_name">>
           name == r.device.config_name
           w    == string_pool_write(Zeros, at, name)
<1>1. at \in Locations /\ <<Device, "name">> \in Locations /\ <<Device, "display_name">> \in Locations
  BY DEF Locations
<1>2. name # NoString
  BY DEF DeviceOk, DeviceStrings
<1>3. /\ Zeros.offset = [l \in Locations |-> 0] /\ Zeros.pool = [o \in 1..PoolSize |-> NoString]
      /\ Zeros.strings_offs = 1 /\ DOMAIN Zeros = ImageFields /\ Zeros.version = 0
      /\ Zeros.peripherals = [i \in 1..PeripheralMax |-> NoPart] /\ Zeros.flags = [s \in Slots |-> {}]
  BY DEF Zeros, ImageFields
<1>4. ImageOk(w) /\ w.peripherals = Zeros.peripherals /\ w.flags = Zeros.flags /\ w.version = 0
  BY <1>1, <1>3, ZerosOk, StringWritten
<1>5. BlankIs(w)
  BY <1>3, <1>4 DEF BlankIs
<1>6. PoolSize \in Nat /\ ~(1 > PoolSize) /\ 1 \in 1..PoolSize
  BY StorageAssumption
<1>7. w = [Zeros EXCEPT !.offset[at] = 1, !.pool[1] = name, !.strings_offs = @ + 1]
  BY <1>2, <1>3, <1>6 DEF string_pool_write
<1>8. w.offset = [Zeros.offset EXCEPT ![at] = 1] /\ w.pool = [Zeros.pool EXCEPT ![1] = name]
  BY <1>3, <1>7 DEF ImageFields
<1>9. w.offset[at] = 1 /\ w.pool[1] = name /\ w.offset[<<Device, "name">>] = 0
      /\ w.offset[<<Device, "display_name">>] = 0
  BY <1>1, <1>3, <1>6, <1>8
<1>10. /\ string_pool_read(w, at) = name /\ string_pool_read(w, <<Device, "name">>) = NoString
       /\ string_pool_read(w, <<Device, "display_name">>) = NoString
  BY <1>9 DEF string_pool_read
<1>11. FactoryImage(r) = Flash(w)
  BY DEF FactoryImage
<1> HIDE DEF w, name
<1>12. device_load(w) = [name |-> Default, display_name |-> "", version |-> 0, config_name |-> name]
  BY <1>2, <1>4, <1>10 DEF device_load
<1>13. BlankIs(Flash(w))
  <2>1. Flash(w).peripherals = w.peripherals /\ Flash(w).flags = w.flags
    BY <1>4 DEF Flash, ImageOk, ImageFields
  <2> QED
    BY <1>5, <2>1, FlashOk DEF BlankIs
<1> QED
  BY <1>4, <1>11, <1>12, <1>13, FlashOk DEF name

\* The slots of the ports that are not virtual are those of the ports that were made.
BySlot(ports, made) ==
    /\ \A i \in 1..Len(ports) : ~IsVirtual(ports[i]) =>
           \E x \in 1..Len(made) : made[x].slot = ports[i].slot
    /\ \A x \in 1..Len(made) : \E i \in 1..Len(ports) : ports[i].slot = made[x].slot
    /\ \A i \in 1..Len(ports), x \in 1..Len(made) :
           made[x].slot = ports[i].slot =>
               made[x].peripheral = ports[i].peripheral /\ made[x].flags \subseteq ports[i].flags

LEMMA MadeSlots ==
    ASSUME NEW ports, PortsOk(ports), NEW made, Matches(ports, made)
    PROVE  BySlot(ports, made)
<1>1. PICK f : Placed(f, ports, made)
  BY DEF Matches
<1>2. ASSUME NEW i \in 1..Len(ports), ~IsVirtual(ports[i])
      PROVE  \E x \in 1..Len(made) : made[x].slot = ports[i].slot
  <2>1. PICK x \in 1..Len(made) : f[x] = i
    BY <1>1, <1>2 DEF Placed
  <2>2. Alike(ports[f[x]], made[x])
    BY <1>1 DEF Placed
  <2> QED
    BY <2>1, <2>2 DEF Alike
<1>3. ASSUME NEW x \in 1..Len(made) PROVE \E i \in 1..Len(ports) : ports[i].slot = made[x].slot
  BY <1>1 DEF Placed, Alike
<1>4. ASSUME NEW i \in 1..Len(ports), NEW x \in 1..Len(made), made[x].slot = ports[i].slot
      PROVE  made[x].peripheral = ports[i].peripheral /\ made[x].flags \subseteq ports[i].flags
  <2>1. f[x] \in 1..Len(ports) /\ Alike(ports[f[x]], made[x])
    BY <1>1 DEF Placed
  <2>2. f[x] = i
    BY <1>4, <2>1 DEF Alike, PortsOk
  <2> QED
    BY <2>1, <2>2 DEF Alike
<1> QED
  BY <1>2, <1>3, <1>4 DEF BySlot

PortContent(p) ==
    [slot |-> p.slot, id |-> p.id, peripheral |-> p.peripheral, flags |-> p.flags,
     display_name |-> p.display_name,
     value |-> IF {"persisted", "writable"} \subseteq p.flags THEN p.value ELSE Undefined]

LEMMA SamePort ==
    ASSUME NEW p, NEW q, PortOk(p), q.slot = p.slot, NEW img, PortRead(img, p), NEW now, LoadedPort(q, img, now),
           p.slot \in VirtualSlots
               \/ \A x \in 1..Len(now) : now[x].slot = p.slot =>
                      now[x].peripheral = p.peripheral /\ now[x].flags \subseteq p.flags
    PROVE  PortContent(q) = PortContent(p)
<1>1. q.id = p.id
  BY DEF PortRead, LoadedPort, PortOk, IdOk
<1>2. q.display_name = p.display_name
  BY DEF PortRead, LoadedPort
<1>3. q.flags = p.flags /\ q.peripheral = p.peripheral
  <2>1. CASE p.slot \in VirtualSlots
    <3>1. p.peripheral = 0 /\ "virtual" \in p.flags /\ "writable" \in p.flags
      BY <2>1 DEF PortOk, BarePortOk, IsVirtual
    <3>2. q.peripheral = 0 /\ q.flags = {"virtual", "writable"} \cup p.flags
      BY <2>1 DEF PortRead, LoadedPort
    <3> QED
      BY <3>1, <3>2
  <2>2. CASE p.slot \notin VirtualSlots
    <3>1. PICK x \in 1..Len(now) : /\ now[x].slot = p.slot /\ now[x].peripheral = q.peripheral
                                   /\ q.flags = now[x].flags \cup p.flags
      BY <2>2 DEF PortRead, LoadedPort
    <3>2. now[x].peripheral = p.peripheral /\ now[x].flags \subseteq p.flags
      BY <2>2, <3>1
    <3> QED
      BY <3>1, <3>2
  <2> QED
    BY <2>1, <2>2
<1>4. (IF {"persisted", "writable"} \subseteq q.flags THEN q.value ELSE Undefined)
      = IF {"persisted", "writable"} \subseteq p.flags THEN p.value ELSE Undefined
  BY <1>3 DEF PortRead, LoadedPort
<1> QED
  BY <1>1, <1>2, <1>3, <1>4 DEF PortContent

LEMMA Restored ==
    ASSUME NEW img, NEW r, SavedIs(img, r), NEW made, Made(r, made), NEW c, Laid(c, r.peripherals, made),
           NEW u, NEW now, LoadedIs(img, u, now)
    PROVE  Content(u) = Content(r)
<1> DEFINE n == Len(r.peripherals)
           k == Count(img.peripherals)
<1>1. /\ PortsOk(r.ports) /\ r.used_slots = SlotsIn(r.ports) /\ PeripheralsOk(r.peripherals)
      /\ DeviceOk(r.device) /\ IsSeq(made) /\ Matches(r.ports, made)
  BY DEF Made, RamOk
<1>2. /\ PortsOk(u.ports) /\ u.used_slots = SlotsIn(u.ports) /\ PeripheralsOk(u.peripherals)
      /\ DeviceOk(u.device) /\ IsSeq(now) /\ Matches(u.ports, now)
  BY DEF LoadedIs, Made, RamOk
<1>3. k = n
  <2>1. /\ k \in 0..PeripheralMax /\ \A i \in 1..k : img.peripherals[i] # NoPart
        /\ k < PeripheralMax => img.peripherals[k + 1] = NoPart
    BY Counted DEF Count
  <2>2. n \in Nat /\ n <= PeripheralMax /\ PeripheralMax \in Nat /\ \A i \in 1..n : r.peripherals[i] # NoPart
    BY <1>1, SeqIs, StorageAssumption DEF PeripheralsOk, PeripheralOk
  <2>3. \A i \in 1..PeripheralMax : img.peripherals[i] # NoPart <=> i <= n
    BY <2>2 DEF SavedIs
  <2> HIDE DEF k, n
  <2>4. ~(k < n)
    BY <2>1, <2>2, <2>3
  <2>5. ~(k > n)
    <3>1. k > n => k \in 1..k /\ k \in 1..PeripheralMax
      BY <2>1, <2>2
    <3> QED
      BY <2>1, <2>2, <2>3, <3>1
  <2> QED
    BY <2>1, <2>2, <2>4, <2>5
<1>4. u.peripherals = r.peripherals
  <2>1. Len(u.peripherals) = n /\ \A i \in 1..n : u.peripherals[i] = img.peripherals[i]
    BY <1>3 DEF LoadedIs
  <2>2. n \in Nat /\ n <= PeripheralMax /\ PeripheralMax \in Nat
    BY <1>1, SeqIs, StorageAssumption DEF PeripheralsOk
  <2>3. \A i \in 1..n : img.peripherals[i] = r.peripherals[i]
    BY <2>2 DEF SavedIs
  <2>4. u.peripherals = [i \in 1..n |-> u.peripherals[i]] /\ r.peripherals = [i \in 1..n |-> r.peripherals[i]]
    BY <1>1, <1>2, <2>1, SeqIs DEF PeripheralsOk
  <2> HIDE DEF n
  <2> QED
    BY <2>1, <2>3, <2>4
<1>5. u.device = r.device
  <2>1. u.device = device_load(img)
    BY DEF LoadedIs
  <2>2. ASSUME NEW field \in DeviceStrings
        PROVE  string_pool_read(img, <<Device, field>>) = r.device[field] /\ r.device[field] # NoString
    BY <1>1 DEF SavedIs, DeviceOk
  <2>3. /\ device_load(img).name = r.device.name /\ device_load(img).display_name = r.device.display_name
        /\ device_load(img).config_name = r.device.config_name
    BY <2>2 DEF device_load, DeviceStrings
  <2>4. device_load(img).version = r.device.version
    BY DEF device_load, SavedIs
  <2>5. /\ u.device = [field \in DeviceStrings \cup {"version"} |-> u.device[field]]
        /\ r.device = [field \in DeviceStrings \cup {"version"} |-> r.device[field]]
    BY <1>1, <1>2 DEF DeviceOk
  <2> QED
    BY <2>1, <2>3, <2>4, <2>5 DEF DeviceStrings
<1>6. Len(now) = Len(made) /\ \A x \in 1..Len(made) : Same(now[x], made[x])
  <2>1. PICK d : Laid(d, u.peripherals, now)
    BY DEF LoadedIs
  <2> QED
    BY <1>1, <1>4, <2>1, SameLayout
<1>14. /\ \A i \in 1..Len(r.ports) : ~IsVirtual(r.ports[i]) =>
              \E x \in 1..Len(made) : made[x].slot = r.ports[i].slot
       /\ \A x \in 1..Len(made) : \E i \in 1..Len(r.ports) : r.ports[i].slot = made[x].slot
       /\ \A i \in 1..Len(r.ports), x \in 1..Len(made) :
              made[x].slot = r.ports[i].slot =>
                  made[x].peripheral = r.ports[i].peripheral /\ made[x].flags \subseteq r.ports[i].flags
  <2>1. BySlot(r.ports, made)
    BY <1>1, MadeSlots
  <2> QED
    BY <2>1 DEF BySlot
<1>15. /\ \A i \in 1..Len(u.ports) : ~IsVirtual(u.ports[i]) =>
              \E x \in 1..Len(now) : now[x].slot = u.ports[i].slot
       /\ \A x \in 1..Len(now) : \E i \in 1..Len(u.ports) : u.ports[i].slot = now[x].slot
  <2>1. PortsOk(u.ports) /\ Matches(u.ports, now)
    BY <1>2
  <2>2. BySlot(u.ports, now)
    BY <2>1, MadeSlots
  <2> QED
    BY <2>2 DEF BySlot
<1>16. /\ \A x \in 1..Len(made) : now[x].slot = made[x].slot
       /\ \A x \in 1..Len(made) : now[x].peripheral = made[x].peripheral /\ now[x].flags = made[x].flags
  BY <1>6 DEF Same
<1>7. ASSUME NEW i \in 1..Len(r.ports), NEW j \in 1..Len(u.ports), u.ports[j].slot = r.ports[i].slot
      PROVE  PortContent(u.ports[j]) = PortContent(r.ports[i])
  <2>1. PortOk(r.ports[i]) /\ PortRead(img, r.ports[i]) /\ LoadedPort(u.ports[j], img, now)
    BY <1>1 DEF PortsOk, SavedIs, LoadedIs
  <2>2. ASSUME NEW x \in 1..Len(now), now[x].slot = r.ports[i].slot
        PROVE  now[x].peripheral = r.ports[i].peripheral /\ now[x].flags \subseteq r.ports[i].flags
    <3>1. x \in 1..Len(made) /\ made[x].slot = r.ports[i].slot
      BY <1>6, <1>16, <2>2
    <3>2. made[x].peripheral = r.ports[i].peripheral /\ made[x].flags \subseteq r.ports[i].flags
      BY <1>14, <3>1
    <3> QED
      BY <1>16, <3>1, <3>2
  <2> QED
    BY <1>7, <2>1, <2>2, SamePort
<1>8. {s \in VirtualSlots : s \in u.used_slots} = {s \in VirtualSlots : s \in r.used_slots}
  BY DEF LoadedIs, SavedIs
<1>9. ASSUME NEW i \in 1..Len(r.ports) PROVE \E j \in 1..Len(u.ports) : u.ports[j].slot = r.ports[i].slot
  <2>1. CASE IsVirtual(r.ports[i])
    <3>1. r.ports[i].slot \in VirtualSlots /\ r.ports[i].slot \in r.used_slots
      BY <1>1, <2>1 DEF PortsOk, PortOk, BarePortOk, SlotsIn
    <3>2. r.ports[i].slot \in u.used_slots
      BY <1>8, <3>1
    <3> QED
      BY <1>2, <3>2 DEF SlotsIn
  <2>2. CASE ~IsVirtual(r.ports[i])
    <3>1. PICK x \in 1..Len(made) : made[x].slot = r.ports[i].slot
      BY <1>14, <2>2
    <3>2. x \in 1..Len(now) /\ now[x].slot = r.ports[i].slot
      BY <1>6, <1>16, <3>1
    <3> QED
      BY <1>15, <3>2
  <2> QED
    BY <2>1, <2>2
<1>10. ASSUME NEW j \in 1..Len(u.ports) PROVE \E i \in 1..Len(r.ports) : u.ports[j].slot = r.ports[i].slot
  <2>1. CASE IsVirtual(u.ports[j])
    <3>1. u.ports[j].slot \in VirtualSlots /\ u.ports[j].slot \in u.used_slots
      BY <1>2, <2>1 DEF PortsOk, PortOk, BarePortOk, SlotsIn
    <3>2. u.ports[j].slot \in r.used_slots
      BY <1>8, <3>1
    <3> QED
      BY <1>1, <3>2 DEF SlotsIn
  <2>2. CASE ~IsVirtual(u.ports[j])
    <3>1. PICK x \in 1..Len(now) : now[x].slot = u.ports[j].slot
      BY <1>15, <2>2
    <3>2. x \in 1..Len(made) /\ made[x].slot = u.ports[j].slot
      BY <1>6, <1>16, <3>1
    <3> QED
      BY <1>14, <3>2
  <2> QED
    BY <2>1, <2>2
<1>11. /\ Range(r.ports) = {r.ports[i] : i \in 1..Len(r.ports)}
       /\ Range(u.ports) = {u.ports[j] : j \in 1..Len(u.ports)}
  BY <1>1, <1>2, SeqIs DEF PortsOk
<1>12. {PortContent(p) : p \in Range(u.ports)} = {PortContent(p) : p \in Range(r.ports)}
  <2>1. ASSUME NEW p \in Range(u.ports) PROVE \E q \in Range(r.ports) : PortContent(p) = PortContent(q)
    <3>1. PICK j \in 1..Len(u.ports) : p = u.ports[j]
      BY <1>11
    <3>2. PICK i \in 1..Len(r.ports) : u.ports[j].slot = r.ports[i].slot
      BY <1>10
    <3> QED
      BY <1>7, <1>11, <3>1, <3>2
  <2>2. ASSUME NEW q \in Range(r.ports) PROVE \E p \in Range(u.ports) : PortContent(p) = PortContent(q)
    <3>1. PICK i \in 1..Len(r.ports) : q = r.ports[i]
      BY <1>11
    <3>2. PICK j \in 1..Len(u.ports) : u.ports[j].slot = r.ports[i].slot
      BY <1>9
    <3> QED
      BY <1>7, <1>11, <3>1, <3>2
  <2> QED
    BY <2>1, <2>2
<1>13. ASSUME NEW t
       PROVE  Content(t) = [ports |-> {PortContent(p) : p \in Range(t.ports)},
                            peripherals |-> t.peripherals, device |-> t.device]
  BY DEF Content, PortContent
<1> QED
  BY <1>4, <1>5, <1>12, <1>13

=============================================================================
