--------------------------- MODULE GroupInboxProofs ---------------------------
(***************************************************************************)
(* Proofs about GroupInbox, for any groups, messages, upsets and number of *)
(* replacements: no group message falls between the server's queue and the *)
(* history; nothing waits for a key that is there; a device that was never *)
(* replaced gets the key first; a connected app is subscribed to all it    *)
(* has pseudonyms for.                                                     *)
(*                                                                         *)
(* The second part is about sequences.  The library's induction theorems   *)
(* take a predicate, which the provers cannot instantiate; the existence   *)
(* of least numbers in sets takes a set, and serves as well.               *)
(***************************************************************************)
EXTENDS GroupInbox, FiniteSetTheorems, WellFoundedInduction, TLAPS

(* Rows in a hand on their way to the history; rows that no longer depend   *)
(* on the queue, and those that wait in the buffer as well.                 *)
Held == ToSet(app.hand.save) \cup ToSet(ext.hand.save) \cup ToSet(ext.got)
Handled == Held \cup dev.history \cup Gone
Safe == Handled \cup ToSet(dev.buffer)

(* Rows that were sent. *)
Known == past.sent \cup {dm \in Dm : dm.id <= past.dms}

(* A delivery in hand. *)
HandFits(h) ==
    /\ h.at = "idle" => h = Free
    /\ h.at = "save" <=> h.save # <<>>
    /\ h.at = "key" => h.row.kind = "key"
    /\ h.at = "buffer" => h.row \in GroupRow
    /\ h.row \in Dm => h.row.id \in dev.opened
    /\ h.row \in GroupRow => h.row \in past.sent
    /\ ToSet(h.save) \subseteq Known

(* What the extension holds at each stage of its poll. *)
ExtFits ==
    /\ ext.at \in {"idle", "groups", "rows", "failed"} => ext.hand = Free
    /\ ext.at \notin {"rows", "failed"} => ext.got = <<>>
    /\ ext.at \in {"rows", "failed"} =>
          ToSet(ext.batch) \cup ToSet(ext.left) \cup ToSet(ext.got) \subseteq past.sent
    /\ ext.at = "save" => ext.hand.row = NoRow /\ ext.hand.at # "key"

(* The direct messages it has polled are the head of the queue, but for     *)
(* those the app has been through; what it has been through is opened.     *)
ExtDms ==
    ext.at = "dms" =>
        /\ ToSet(ext.batch) \subseteq Dm /\ ToSet(ext.left) \subseteq ToSet(ext.batch)
        /\ \A dm \in ToSet(ext.batch) : dm \in ToSet(dmq) \/ dm.id \in dev.opened
        /\ ext.hand.at # "idle" => ext.left # <<>> /\ ext.hand.row = Head(ext.left)
        /\ \A dm \in ToSet(ext.batch) : dm \in ToSet(ext.left) \/ dm.id \in dev.opened
        /\ \A dm \in ToSet(dmq), n \in DOMAIN ext.left :
              dm.id \notin dev.opened /\ dm.id < ext.left[n].id =>
                  \E m \in 1..(n - 1) : ext.left[m] = dm

(* What the store holds has been sent, and the queue numbers its rows. *)
StoreFits ==
    /\ ToSet(dev.buffer) \subseteq past.sent /\ dev.history \subseteq Known
    /\ \A a, b \in past.sent : a.id = b.id => a = b
    /\ \A a \in past.sent : FirstRow <= a.id /\ a.id < FirstRow + Cardinality(past.sent)

(* The direct messages wait in order, and so do the keys among them. *)
DmqFits ==
    /\ \A i \in DOMAIN dmq : dmq[i].id \in 1..past.dms
    /\ \A i, j \in DOMAIN dmq : i < j => dmq[i].id < dmq[j].id
    /\ \A i, j \in DOMAIN dmq :
          i < j /\ dmq[i].kind = "key" /\ dmq[j].kind = "key" /\ dmq[i].group = dmq[j].group
              => dmq[i].iter <= dmq[j].iter

(* No key is ahead of the peer's chain. *)
KeysFit ==
    /\ \A i \in DOMAIN dmq : dmq[i].kind = "key" => dmq[i].iter <= peer.chain[dmq[i].group]
    /\ \A p \in {"app", "ext"} : Hand(p).at = "key" => Hand(p).row.iter <= peer.chain[Hand(p).row.group]
    /\ \A g \in Groups : \A i \in dev.key[g] : i <= peer.chain[g]
    /\ \A x \in past.keyed : x[2] <= reg

(* A key of g that is installed, in a hand or still to come opens from i on *)
(* at the latest; and so it must be for what was sent and what will be.     *)
(* With two keys in the two hands one of them does, and if the other is     *)
(* installed first, that is among the accidents.                           *)
AtKey(g) == {p \in {"app", "ext"} : Hand(p).at = "key" /\ Hand(p).row.group = g}
Waiting(g) == {dm \in ToSet(dmq) : dm.kind = "key" /\ dm.group = g /\ dm.id \notin dev.opened}
Coming(g, i) ==
    IF dev.key[g] # {} THEN \A s \in dev.key[g] : s <= i
    ELSE IF AtKey(g) # {} THEN \E p \in AtKey(g) : Hand(p).row.iter <= i
    ELSE \E dm \in Waiting(g) : dm.iter <= i
Due(g, i) ==
    \/ <<g, reg>> \in past.keyed /\ i = peer.chain[g]
    \/ \E row \in past.sent \ Gone : row.group = g /\ row.iter = i
KeysCome == ~past.keyLost => \A g \in Groups, i \in Nat : Due(g, i) => Coming(g, i)

(* What waits in the buffer waits for its key, or was put there beside it. *)
Awaits ==
    /\ \A row \in ToSet(dev.buffer) : Opens(dev, row) => row \in past.raced
    /\ ext.at = "failed" => ext.left # <<>>

(* What has left the queue, or is about to, is safe, and what a key has     *)
(* opened does not wait in the buffer only.                                *)
Safely ==
    ~past.keyLost =>
        /\ past.sent \subseteq ToSet(gq) \cup Safe
        /\ dev.used \subseteq Handled
        /\ app.hand.row \in GroupRow /\ app.hand.at # "buffer" => app.hand.row \in Safe
        /\ ext.at \in {"rows", "failed"} => ToSet(ext.batch) \subseteq ToSet(ext.left) \cup Safe

(* The last set of pseudonyms sent to the server, if not all of them, is    *)
(* not the last to be sent.                                                *)
Latest == IF net.wire = <<>> THEN net.subs ELSE net.wire[Len(net.wire)]
Subscribes ==
    net.up =>
        /\ \A i \in DOMAIN net.wire : net.wire[i] \subseteq dev.bound
        /\ net.subs \subseteq dev.bound
        /\ net.listed = {} /\ ~app.nudge => Latest = dev.bound
        /\ \A l \in net.listed :
              net.listed = {l} /\ l \subseteq dev.bound /\ (~app.nudge => l = dev.bound)

(* What the peer owes to a device never replaced. *)
Shares ==
    reg = 1 /\ ~past.faulty =>
        /\ past.keyless = {} /\ \A g \in peer.shared : <<g, 1>> \in past.keyed
        /\ peer.at = "endorse" /\ peer.group \in peer.knows => peer.group \in peer.shared

Flow ==
    /\ HandFits(app.hand) /\ HandFits(ext.hand) /\ ExtFits /\ ExtDms
    /\ StoreFits /\ DmqFits /\ KeysFit /\ KeysCome /\ Awaits /\ Safely
InboxInv == TypeOK /\ Subscribes /\ Shares /\ Flow

----------------------------------------------------------------------------
(* Sequences *)

Below == {ss \in Nat \X Nat : ss[1] < ss[2]}

LEMMA LeastNat ==
  ASSUME NEW T \in SUBSET Nat, T # {}
  PROVE  \E n \in T : \A m \in T : n <= m
<1>1. IsWellFoundedOn(Below, Nat)
  BY NatLessThanWellFounded DEF OpToRel, Below
<1>2. PICK n \in T : \A m \in T : ~(<<m, n>> \in Below)
  BY <1>1, WFMin
<1>3. ASSUME NEW m \in T  PROVE n <= m
  <2>1. <<m, n>> \notin Below  BY <1>2
  <2>2. <<m, n>> \in Nat \X Nat /\ <<m, n>>[1] = m /\ <<m, n>>[2] = n  OBVIOUS
  <2>3. ~(m < n)  BY <2>1, <2>2 DEF Below
  <2> QED  BY <2>3
<1> QED  BY <1>3

LEMMA UpTo ==
  ASSUME NEW N \in Nat, NEW T, 0 \in T,
         \A n \in 0..N : n < N /\ n \in T => n + 1 \in T
  PROVE  \A n \in 0..N : n \in T
<1> DEFINE Out == {n \in 0..N : n \notin T}
<1>1. SUFFICES ASSUME Out # {}  PROVE FALSE
  OBVIOUS
<1>2. PICK n \in Out : \A m \in Out : n <= m
  <2> Out \in SUBSET Nat  OBVIOUS
  <2> HIDE DEF Out
  <2> QED  BY <1>1, LeastNat
<1>3. n \in Nat /\ n # 0 /\ n - 1 \in 0..N /\ n - 1 < N  OBVIOUS
<1>4. n - 1 \in T  BY <1>2, <1>3
<1> QED  BY <1>3, <1>4

(* What Only counts up to n. *)
Picked(q, keep, n, s) ==
    /\ Len(s) \in Nat /\ DOMAIN s = 1..Len(s) /\ s = [i \in 1..Len(s) |-> s[i]]
    /\ \A i \in 1..Len(s) : s[i] \in keep /\ \E a \in 1..n : s[i] = q[a]
    /\ \A a \in 1..n : q[a] \in keep => \E i \in 1..Len(s) : s[i] = q[a]
    /\ \A i, j \in 1..Len(s) : i < j =>
          \E a, b \in 1..n : a < b /\ s[i] = q[a] /\ s[j] = q[b]

LEMMA PickedNext ==
  ASSUME NEW S, NEW q \in Seq(S), NEW keep, NEW n \in Nat, n + 1 <= Len(q),
         NEW s \in Seq(S), Picked(q, keep, n, s)
  PROVE  LET t == IF q[n + 1] \in keep THEN Append(s, q[n + 1]) ELSE s
         IN  t \in Seq(S) /\ Picked(q, keep, n + 1, t)
<1>1. CASE q[n + 1] \notin keep
  <2>1. 1..n \subseteq 1..(n + 1) /\ \A a \in 1..(n + 1) : a \in 1..n \/ a = n + 1
    OBVIOUS
  <2>2. \A i \in 1..Len(s) : s[i] \in keep /\ \E a \in 1..(n + 1) : s[i] = q[a]
    BY <2>1 DEF Picked
  <2>3. \A a \in 1..(n + 1) : q[a] \in keep => \E i \in 1..Len(s) : s[i] = q[a]
    BY <1>1, <2>1 DEF Picked
  <2>4. \A i, j \in 1..Len(s) : i < j =>
           \E a, b \in 1..(n + 1) : a < b /\ s[i] = q[a] /\ s[j] = q[b]
    <3> SUFFICES ASSUME NEW i \in 1..Len(s), NEW j \in 1..Len(s), i < j
                 PROVE  \E a, b \in 1..(n + 1) : a < b /\ s[i] = q[a] /\ s[j] = q[b]
      OBVIOUS
    <3>1. PICK a \in 1..n, b \in 1..n : a < b /\ s[i] = q[a] /\ s[j] = q[b]
      BY DEF Picked
    <3> QED  BY <2>1, <3>1
  <2>5. Picked(q, keep, n + 1, s)  BY <2>2, <2>3, <2>4 DEF Picked
  <2> QED  BY <1>1, <2>5
<1>2. CASE q[n + 1] \in keep
  <2> DEFINE x == q[n + 1]  t == Append(s, x)
  <2>1. /\ t \in Seq(S) /\ Len(t) = Len(s) + 1 /\ t[Len(s) + 1] = x
        /\ \A i \in 1..Len(s) : t[i] = s[i]
    OBVIOUS
  <2>2. Len(s) \in Nat /\ DOMAIN t = 1..Len(t) /\ t = [i \in 1..Len(t) |-> t[i]]
    BY <2>1
  <2> HIDE DEF t
  <2>3. \A i \in 1..Len(t) : i \in 1..Len(s) \/ i = Len(s) + 1  BY <2>1, <2>2
  <2>4. \A a \in 1..(n + 1) : a \in 1..n \/ a = n + 1  OBVIOUS
  <2>5. \A i \in 1..Len(t) : t[i] \in keep /\ \E a \in 1..(n + 1) : t[i] = q[a]
    <3> SUFFICES ASSUME NEW i \in 1..Len(t)
                 PROVE  t[i] \in keep /\ \E a \in 1..(n + 1) : t[i] = q[a]
      OBVIOUS
    <3>1. CASE i \in 1..Len(s)
      <4>1. PICK a \in 1..n : s[i] = q[a]  BY <3>1 DEF Picked
      <4>2. a \in 1..(n + 1) /\ t[i] = s[i] /\ s[i] \in keep  BY <2>1, <3>1 DEF Picked
      <4> QED  BY <4>1, <4>2
    <3>2. CASE i = Len(s) + 1
      <4>1. n + 1 \in 1..(n + 1)  OBVIOUS
      <4> QED  BY <1>2, <2>1, <3>2, <4>1
    <3> QED  BY <2>3, <3>1, <3>2
  <2>6. \A a \in 1..(n + 1) : q[a] \in keep => \E i \in 1..Len(t) : t[i] = q[a]
    <3> SUFFICES ASSUME NEW a \in 1..(n + 1), q[a] \in keep
                 PROVE  \E i \in 1..Len(t) : t[i] = q[a]
      OBVIOUS
    <3>1. CASE a \in 1..n
      <4>1. PICK i \in 1..Len(s) : s[i] = q[a]  BY <3>1 DEF Picked
      <4> QED  BY <2>1, <2>2, <4>1
    <3>2. CASE a = n + 1
      BY <2>1, <2>2, <3>2
    <3> QED  BY <2>4, <3>1, <3>2
  <2>7. ASSUME NEW i \in 1..Len(t), NEW j \in 1..Len(t), i < j
        PROVE  \E a, b \in 1..(n + 1) : a < b /\ t[i] = q[a] /\ t[j] = q[b]
    <3>1. i \in 1..Len(s)  BY <2>1, <2>2, <2>7
    <3>2. CASE j \in 1..Len(s)
      <4>1. PICK a \in 1..n, b \in 1..n : a < b /\ s[i] = q[a] /\ s[j] = q[b]
        BY <2>7, <3>1, <3>2 DEF Picked
      <4>2. a \in 1..(n + 1) /\ b \in 1..(n + 1)  OBVIOUS
      <4> QED  BY <2>1, <3>1, <3>2, <4>1, <4>2
    <3>3. CASE j = Len(s) + 1
      <4>1. PICK a \in 1..n : s[i] = q[a]  BY <3>1 DEF Picked
      <4>2. a \in 1..(n + 1) /\ n + 1 \in 1..(n + 1) /\ a < n + 1  OBVIOUS
      <4> QED  BY <2>1, <3>1, <3>3, <4>1, <4>2
    <3> QED  BY <2>3, <3>2, <3>3
  <2>8. Picked(q, keep, n + 1, t)
    BY <2>1, <2>2, <2>5, <2>6, <2>7 DEF Picked
  <2> QED  BY <1>2, <2>1, <2>8 DEF t
<1> QED  BY <1>1, <1>2

LEMMA OnlyPicks ==
  ASSUME NEW S, NEW q \in Seq(S), NEW keep
  PROVE  Only(q, keep) \in Seq(S) /\ Picked(q, keep, Len(q), Only(q, keep))
<1> DEFINE N == Len(q)
           Add(s, n) == IF q[n] \in keep THEN Append(s, q[n]) ELSE s
           Eqn(k) == k = [n \in 0..N |-> IF n = 0 THEN <<>> ELSE
                           IF q[n] \in keep THEN Append(k[n - 1], q[n]) ELSE k[n - 1]]
           Good(n, f) == /\ f \in [0..n -> Seq(S)] /\ f[0] = <<>>
                         /\ \A m \in 1..n : f[m] = Add(f[m - 1], m)
           Some == {n \in 0..N : \E f : Good(n, f)}
<1>1. N \in Nat /\ \A n \in 1..N : q[n] \in S  OBVIOUS
<1>2. \A s \in Seq(S), n \in 1..N : Add(s, n) \in Seq(S)  BY <1>1
<1> HIDE DEF N, Add
<1>3. 0 \in Some
  <2> DEFINE f0 == [i \in 0..0 |-> <<>>]
  <2>1. Good(0, f0)  OBVIOUS
  <2> HIDE DEF f0, Good
  <2>2. \E f : Good(0, f)  BY <2>1
  <2> QED  BY <1>1, <2>2
<1>4. ASSUME NEW n \in 0..N, n < N, n \in Some  PROVE n + 1 \in Some
  <2>0. \E f : Good(n, f)
    <3> HIDE DEF Good
    <3> QED  BY <1>4
  <2>1. PICK f : Good(n, f)  BY <2>0
  <2> DEFINE g == [i \in 0..(n + 1) |-> IF i = n + 1 THEN Add(f[n], n + 1) ELSE f[i]]
  <2>2. f[n] \in Seq(S) /\ n + 1 \in 1..N  BY <1>1, <1>4, <2>1
  <2>3. Add(f[n], n + 1) \in Seq(S)  BY <1>2, <2>2
  <2>4. g \in [0..(n + 1) -> Seq(S)] /\ g[0] = <<>>  BY <2>1, <2>3
  <2>5. \A m \in 1..(n + 1) : g[m] = Add(g[m - 1], m)
    <3> SUFFICES ASSUME NEW m \in 1..(n + 1)  PROVE g[m] = Add(g[m - 1], m)
      OBVIOUS
    <3>1. CASE m = n + 1  BY <3>1
    <3>2. CASE m \in 1..n
      <4>1. f[m] = Add(f[m - 1], m)  BY <2>1, <3>2
      <4>2. g[m] = f[m] /\ g[m - 1] = f[m - 1]  BY <3>2
      <4> QED  BY <4>1, <4>2
    <3> QED  BY <3>1, <3>2
  <2> HIDE DEF g
  <2>6. Good(n + 1, g)  BY <2>4, <2>5
  <2> HIDE DEF Good
  <2>7. \E f1 : Good(n + 1, f1)  BY <2>6
  <2>8. n + 1 \in 0..N  BY <1>1, <1>4
  <2> QED  BY <2>7, <2>8
<1>5. \E f : Good(N, f)
  <2> HIDE DEF Some
  <2>1. \A n \in 0..N : n \in Some  BY <1>1, <1>3, <1>4, UpTo
  <2>2. N \in Some  BY <1>1, <2>1
  <2> USE DEF Some
  <2> HIDE DEF Good
  <2> QED  BY <2>2
<1>6. \E k : Eqn(k)
  <2>1. PICK f : Good(N, f)  BY <1>5
  <2>2. \A n \in 0..N : n # 0 => n \in 1..N  BY <1>1
  <2>3. Eqn(f)  BY <2>1, <2>2 DEF Add
  <2> QED  BY <2>3
<1> DEFINE kept == CHOOSE k : Eqn(k)
<1>7. Eqn(kept)  BY <1>6
<1>8. Only(q, keep) = kept[N]  BY DEF Only, N
<1> HIDE DEF kept
<1>9. /\ kept[0] = <<>>
      /\ \A n \in 0..N : n < N => kept[n + 1] = Add(kept[n], n + 1)
  <2>1. kept[0] = <<>>
    <3>1. 0 \in 0..N  BY <1>1
    <3> QED  BY <1>7, <3>1
  <2>2. ASSUME NEW n \in 0..N, n < N  PROVE kept[n + 1] = Add(kept[n], n + 1)
    <3>1. n + 1 \in 0..N /\ n + 1 # 0 /\ (n + 1) - 1 = n  BY <1>1, <2>2
    <3>2. kept[n + 1] = IF q[n + 1] \in keep THEN Append(kept[(n + 1) - 1], q[n + 1])
                        ELSE kept[(n + 1) - 1]
      BY <1>7, <3>1
    <3> QED  BY <3>1, <3>2 DEF Add
  <2> QED  BY <2>1, <2>2
<1> DEFINE T == {n \in 0..N : kept[n] \in Seq(S) /\ Picked(q, keep, n, kept[n])}
<1>10. 0 \in T
  <2>1. Picked(q, keep, 0, <<>>)  BY DEF Picked
  <2>2. kept[0] \in Seq(S)  BY <1>9
  <2>3. Picked(q, keep, 0, kept[0])  BY <1>9, <2>1
  <2>4. 0 \in 0..N  BY <1>1
  <2> QED  BY <2>2, <2>3, <2>4
<1>11. ASSUME NEW n \in 0..N, n < N, n \in T  PROVE n + 1 \in T
  <2>1. n \in Nat /\ n + 1 <= Len(q) /\ n + 1 \in 0..N  BY <1>1, <1>11 DEF N
  <2>2. kept[n] \in Seq(S) /\ Picked(q, keep, n, kept[n])  BY <1>11
  <2>3. Add(kept[n], n + 1) \in Seq(S) /\ Picked(q, keep, n + 1, Add(kept[n], n + 1))
    BY <2>1, <2>2, PickedNext DEF Add
  <2> QED  BY <1>9, <1>11, <2>1, <2>3
<1>12. N \in T
  <2> HIDE DEF T
  <2>1. \A n \in 0..N : n \in T  BY <1>1, <1>10, <1>11, UpTo
  <2> QED  BY <1>1, <2>1
<1> QED  BY <1>8, <1>12 DEF N

LEMMA OnlyIs ==
  ASSUME NEW S, NEW q \in Seq(S), NEW keep
  PROVE  /\ Only(q, keep) \in Seq(S)
         /\ ToSet(Only(q, keep)) = ToSet(q) \cap keep
         /\ \A i, j \in DOMAIN Only(q, keep) : i < j =>
               \E a, b \in DOMAIN q : a < b /\ Only(q, keep)[i] = q[a] /\ Only(q, keep)[j] = q[b]
<1> DEFINE s == Only(q, keep)
<1>1. s \in Seq(S) /\ Picked(q, keep, Len(q), s)  BY OnlyPicks
<1> HIDE DEF s
<1>2. DOMAIN s = 1..Len(s) /\ DOMAIN q = 1..Len(q)  BY <1>1
<1>3. ToSet(s) = ToSet(q) \cap keep
  BY <1>1, <1>2 DEF ToSet, Picked
<1>4. \A i, j \in DOMAIN s : i < j =>
        \E a, b \in DOMAIN q : a < b /\ s[i] = q[a] /\ s[j] = q[b]
  BY <1>1, <1>2 DEF Picked
<1> QED  BY <1>1, <1>3, <1>4 DEF s

LEMMA SeqSets ==
  ASSUME NEW S, NEW s \in Seq(S)
  PROVE  /\ ToSet(s) \subseteq S /\ DOMAIN s = 1..Len(s) /\ Len(s) \in Nat
         /\ \A i \in DOMAIN s : s[i] \in ToSet(s)
         /\ \A x : Contains(s, x) <=> x \in ToSet(s)
  BY DEF ToSet, Contains

LEMMA EmptySet == ToSet(<<>>) = {} /\ \A x : ~Contains(<<>>, x)
  BY DEF ToSet, Contains

LEMMA AppendSet ==
  ASSUME NEW S, NEW s \in Seq(S), NEW x \in S
  PROVE  /\ Append(s, x) \in Seq(S) /\ ToSet(Append(s, x)) = ToSet(s) \cup {x}
         /\ DOMAIN Append(s, x) = 1..(Len(s) + 1) /\ Append(s, x) # <<>>
         /\ \A i \in DOMAIN s : Append(s, x)[i] = s[i]
         /\ Append(s, x)[Len(s) + 1] = x
<1> DEFINE t == Append(s, x)
<1>1. /\ t \in Seq(S) /\ Len(t) = Len(s) + 1 /\ Len(s) \in Nat /\ t[Len(s) + 1] = x /\ t # <<>>
      /\ DOMAIN t = 1..(Len(s) + 1) /\ DOMAIN s = 1..Len(s)
      /\ \A i \in 1..Len(s) : t[i] = s[i]
  OBVIOUS
<1> HIDE DEF t
<1>2. \A y \in ToSet(t) : y \in ToSet(s) \cup {x}
  <2> SUFFICES ASSUME NEW i \in 1..(Len(s) + 1)  PROVE t[i] \in ToSet(s) \cup {x}
    BY <1>1 DEF ToSet
  <2>1. i \in 1..Len(s) \/ i = Len(s) + 1  BY <1>1
  <2> QED  BY <1>1, <2>1 DEF ToSet
<1>3. \A y \in ToSet(s) : y \in ToSet(t)
  <2> SUFFICES ASSUME NEW i \in 1..Len(s)  PROVE s[i] \in ToSet(t)
    BY <1>1 DEF ToSet
  <2>1. i \in 1..(Len(s) + 1) /\ t[i] = s[i]  BY <1>1
  <2> QED  BY <1>1, <2>1 DEF ToSet
<1>4. x \in ToSet(t)
  <2>1. Len(s) + 1 \in 1..(Len(s) + 1)  BY <1>1
  <2> QED  BY <1>1, <2>1 DEF ToSet
<1> QED  BY <1>1, <1>2, <1>3, <1>4 DEF t

LEMMA HeadTailSet ==
  ASSUME NEW S, NEW s \in Seq(S), s # <<>>
  PROVE  /\ Head(s) \in S /\ Tail(s) \in Seq(S) /\ Head(s) = s[1] /\ 1 \in DOMAIN s
         /\ ToSet(s) = {Head(s)} \cup ToSet(Tail(s))
         /\ Len(Tail(s)) = Len(s) - 1 /\ DOMAIN Tail(s) = 1..(Len(s) - 1)
         /\ \A i \in DOMAIN Tail(s) : i + 1 \in DOMAIN s /\ Tail(s)[i] = s[i + 1]
<1> DEFINE t == Tail(s)
<1>1. /\ Head(s) \in S /\ t \in Seq(S) /\ Head(s) = s[1] /\ 1 \in DOMAIN s
      /\ Len(s) \in Nat /\ Len(t) = Len(s) - 1 /\ DOMAIN t = 1..(Len(s) - 1)
      /\ DOMAIN s = 1..Len(s) /\ \A i \in 1..(Len(s) - 1) : t[i] = s[i + 1]
  OBVIOUS
<1> HIDE DEF t
<1>2. \A i \in DOMAIN t : i + 1 \in DOMAIN s /\ t[i] = s[i + 1]
  BY <1>1
<1>3. \A y \in ToSet(t) : y \in ToSet(s)
  BY <1>2 DEF ToSet
<1>4. \A y \in ToSet(s) : y = s[1] \/ y \in ToSet(t)
  <2> SUFFICES ASSUME NEW i \in DOMAIN s, i # 1  PROVE s[i] \in ToSet(t)
    BY DEF ToSet
  <2>1. i - 1 \in 1..(Len(s) - 1)  BY <1>1
  <2>2. i - 1 \in DOMAIN t /\ t[i - 1] = s[(i - 1) + 1] /\ (i - 1) + 1 = i
    BY <1>1, <2>1
  <2> QED  BY <2>2 DEF ToSet
<1>5. s[1] \in ToSet(s)  BY <1>1 DEF ToSet
<1> QED  BY <1>1, <1>2, <1>3, <1>4, <1>5 DEF t

LEMMA ConcatSet ==
  ASSUME NEW S, NEW s \in Seq(S), NEW u \in Seq(S)
  PROVE  s \o u \in Seq(S) /\ ToSet(s \o u) = ToSet(s) \cup ToSet(u)
<1> DEFINE t == s \o u
<1>1. /\ t \in Seq(S) /\ Len(t) = Len(s) + Len(u) /\ Len(s) \in Nat /\ Len(u) \in Nat
      /\ DOMAIN t = 1..(Len(s) + Len(u)) /\ DOMAIN s = 1..Len(s) /\ DOMAIN u = 1..Len(u)
      /\ \A i \in 1..(Len(s) + Len(u)) : t[i] = IF i <= Len(s) THEN s[i] ELSE u[i - Len(s)]
  OBVIOUS
<1> HIDE DEF t
<1>2. \A y \in ToSet(t) : y \in ToSet(s) \cup ToSet(u)
  <2> SUFFICES ASSUME NEW i \in DOMAIN t  PROVE t[i] \in ToSet(s) \cup ToSet(u)
    BY DEF ToSet
  <2>1. CASE i <= Len(s)
    <3>1. i \in DOMAIN s /\ t[i] = s[i]  BY <1>1, <2>1
    <3> QED  BY <3>1 DEF ToSet
  <2>2. CASE ~(i <= Len(s))
    <3>1. i - Len(s) \in DOMAIN u /\ t[i] = u[i - Len(s)]  BY <1>1, <2>2
    <3> QED  BY <3>1 DEF ToSet
  <2> QED  BY <2>1, <2>2
<1>3. \A y \in ToSet(s) : y \in ToSet(t)
  <2> SUFFICES ASSUME NEW i \in DOMAIN s  PROVE s[i] \in ToSet(t)
    BY DEF ToSet
  <2>1. i \in DOMAIN t /\ t[i] = s[i]  BY <1>1
  <2> QED  BY <2>1 DEF ToSet
<1>4. \A y \in ToSet(u) : y \in ToSet(t)
  <2> SUFFICES ASSUME NEW i \in DOMAIN u  PROVE u[i] \in ToSet(t)
    BY DEF ToSet
  <2>1. i + Len(s) \in DOMAIN t /\ (i + Len(s)) - Len(s) = i /\ ~(i + Len(s) <= Len(s))
    BY <1>1
  <2>2. t[i + Len(s)] = u[i]  BY <1>1, <2>1
  <2> QED  BY <2>1, <2>2 DEF ToSet
<1> QED  BY <1>1, <1>2, <1>3, <1>4 DEF t

LEMMA WithoutIs ==
  ASSUME NEW S, NEW q \in Seq(S), NEW rows
  PROVE  /\ Without(q, rows) \in Seq(S) /\ ToSet(Without(q, rows)) = ToSet(q) \ rows
         /\ \A i, j \in DOMAIN Without(q, rows) : i < j =>
               \E a, b \in DOMAIN q : a < b /\ Without(q, rows)[i] = q[a] /\ Without(q, rows)[j] = q[b]
<1> DEFINE keep == ToSet(q) \ rows
<1> HIDE DEF keep
<1>1. /\ Only(q, keep) \in Seq(S)
      /\ ToSet(Only(q, keep)) = ToSet(q) \cap keep
  BY OnlyIs
<1>3. \A i, j \in DOMAIN Only(q, keep) : i < j =>
        \E a, b \in DOMAIN q : a < b /\ Only(q, keep)[i] = q[a] /\ Only(q, keep)[j] = q[b]
  BY OnlyIs
<1>2. ToSet(q) \cap keep = ToSet(q) \ rows  BY DEF keep
<1> QED  BY <1>1, <1>2, <1>3 DEF Without, keep

LEMMA OfGroupsIs ==
  ASSUME NEW S, NEW q \in Seq(S), NEW gs
  PROVE  OfGroups(q, gs) \in Seq(S) /\ ToSet(OfGroups(q, gs)) \subseteq ToSet(q)
<1> DEFINE keep == {row \in ToSet(q) : row.group \in gs}
<1>1. ASSUME NEW k  PROVE Only(q, k) \in Seq(S) /\ ToSet(Only(q, k)) = ToSet(q) \cap k
  BY OnlyIs
<1> HIDE DEF keep
<1>2. ToSet(q) \cap keep \subseteq ToSet(q)  OBVIOUS
<1> QED  BY <1>1, <1>2 DEF OfGroups, keep

----------------------------------------------------------------------------
(* Rows and hands *)

Rows == Dm \cup GroupRow

LEMMA RowKinds ==
  /\ NoRow \notin Rows /\ NoRow.kind = "none" /\ NoRow.id = 0
  /\ \A r \in Dm : r \notin GroupRow /\ r.kind \in {"text", "key"} /\ r.id \in Nat /\ r.iter \in Nat
  /\ \A r \in Dm : r.kind = "key" => r.group \in Groups
  /\ \A r \in GroupRow : r \notin Dm /\ r.kind = "group" /\ r.id \in Nat /\ r.iter \in Nat /\ r.group \in Groups
  /\ \A n, i \in Nat, g \in Groups : Row(n, "group", g, i) \in GroupRow /\ Row(n, "key", g, i) \in Dm
  /\ \A n \in Nat : Row(n, "text", "none", 0) \in Dm
  BY DEF Dm, GroupRow, NoRow, Rows, Row

LEMMA HandTypes ==
  /\ Free \in Hands /\ Free.at = "idle" /\ Free.row = NoRow /\ Free.save = <<>>
  BY DEF Free, Hands, NoRow

LEMMA HoldingIs ==
  ASSUME NEW row \in Rows \cup {NoRow}, NEW rows \in Seq(Rows)
  PROVE  /\ Holding(row, rows) \in Hands
         /\ Holding(row, rows).row = row /\ Holding(row, rows).save = rows
         /\ rows = <<>> => Holding(row, rows).at = "ack"
         /\ rows # <<>> => Holding(row, rows).at = "save"
  BY DEF Hands, Holding, NoRow, Rows

LEMMA HandParts ==
  ASSUME NEW h \in Hands
  PROVE  h.row \in Rows \cup {NoRow} /\ h.save \in Seq(Rows)
         /\ h.at \in {"idle", "key", "buffer", "save", "ack"}
  BY DEF Hands, Rows

LEMMA PutsIs ==
  ASSUME TypeOK, NEW p \in {"app", "ext"}, NEW h \in Hands, Puts(p, h)
  PROVE  /\ app' \in Apps /\ ext' \in Exts /\ Hand(p)' = h
         /\ p = "app" => ext' = ext /\ app' = [app EXCEPT !.hand = h]
         /\ p = "ext" => app' = app /\ ext' = [ext EXCEPT !.hand = h]
         /\ app'.awake = app.awake /\ app'.nudge = app.nudge
         /\ ext'.at = ext.at /\ ext'.batch = ext.batch /\ ext'.left = ext.left
         /\ ext'.got = ext.got /\ ext'.todo = ext.todo
         /\ app'.hand = IF p = "app" THEN h ELSE app.hand
         /\ ext'.hand = IF p = "ext" THEN h ELSE ext.hand
<1>1. app \in Apps /\ ext \in Exts  BY DEF TypeOK
<1>2. CASE p = "app"
  <2>1. app' = [app EXCEPT !.hand = h] /\ ext' = ext  BY <1>2 DEF Puts
  <2>2. app' \in Apps /\ app'.awake = app.awake /\ app'.nudge = app.nudge /\ app'.hand = h
    BY <1>1, <2>1 DEF Apps
  <2> QED  BY <1>1, <1>2, <2>1, <2>2 DEF Hand
<1>3. CASE p = "ext"
  <2>1. ext' = [ext EXCEPT !.hand = h] /\ app' = app  BY <1>3 DEF Puts
  <2>2. /\ ext' \in Exts /\ ext'.at = ext.at /\ ext'.batch = ext.batch /\ ext'.left = ext.left
        /\ ext'.got = ext.got /\ ext'.todo = ext.todo /\ ext'.hand = h
    BY <1>1, <2>1 DEF Exts
  <2> QED  BY <1>1, <1>3, <2>1, <2>2 DEF Hand
<1> QED  BY <1>2, <1>3

LEMMA PutsHolding ==
  ASSUME NEW p, NEW row \in Rows \cup {NoRow}, NEW rows \in Seq(Rows), Puts(p, Holding(row, rows))
  PROVE  \E h \in Hands :
            /\ Puts(p, h) /\ h.row = row /\ h.save = rows /\ h.at \in {"ack", "save"}
            /\ h.at = "save" <=> rows # <<>>
<1> DEFINE h == Holding(row, rows)
<1>1. /\ h \in Hands /\ h.row = row /\ h.save = rows
      /\ rows = <<>> => h.at = "ack"
      /\ rows # <<>> => h.at = "save"
  BY HoldingIs
<1>2. Puts(p, h)  OBVIOUS
<1> HIDE DEF h
<1> QED  BY <1>1, <1>2

LEMMA HeldIs == TypeOK => \A row : InHand(row) <=> row \in Held
<1> SUFFICES ASSUME TypeOK, NEW row  PROVE InHand(row) <=> row \in Held
  OBVIOUS
<1>1. app.hand.save \in Seq(Rows) /\ ext.hand.save \in Seq(Rows) /\ ext.got \in Seq(GroupRow)
  BY DEF TypeOK, Apps, Exts, Hands, Rows
<1>2. /\ Contains(app.hand.save, row) <=> row \in ToSet(app.hand.save)
      /\ Contains(ext.hand.save, row) <=> row \in ToSet(ext.hand.save)
      /\ Contains(ext.got, row) <=> row \in ToSet(ext.got)
  BY <1>1, SeqSets
<1> QED  BY <1>2 DEF InHand, Held, Hand

----------------------------------------------------------------------------
(* What leaves the flow of messages alone *)

LEMMA FlowStays ==
  ASSUME Flow, UNCHANGED <<dmq, gq, reg, ext, app.hand, peer.chain>>,
         UNCHANGED <<dev.key, dev.used, dev.opened, dev.buffer, dev.history>>,
         UNCHANGED <<past.sent, past.dms, past.keyed, past.keyless, past.spoilt, past.keyLost>>,
         past.shadowed \subseteq past'.shadowed, past.overtaken \subseteq past'.overtaken,
         past.raced \subseteq past'.raced
  PROVE  Flow'
<1>1. Known' = Known /\ Held' = Held  BY DEF Known, Held
<1>2. Gone \subseteq Gone' /\ Handled \subseteq Handled' /\ Safe \subseteq Safe'
  BY <1>1 DEF Handled, Gone, Safe
<1>3. HandFits(app.hand)' /\ HandFits(ext.hand)'
  BY <1>1 DEF Flow, HandFits
<1>4. ExtFits' /\ ExtDms'  BY DEF Flow, ExtFits, ExtDms
<1>5. StoreFits'  BY <1>1 DEF Flow, StoreFits
<1>6. DmqFits'  BY DEF Flow, DmqFits
<1>7. \A p \in {"app", "ext"} : Hand(p)' = Hand(p)  BY DEF Hand
<1>8. KeysFit'  BY <1>7 DEF Flow, KeysFit
<1>9. \A g, i : Coming(g, i)' <=> Coming(g, i)
  BY <1>7 DEF Coming, AtKey, Waiting
<1>10. KeysCome'  BY <1>2, <1>9 DEF Flow, KeysCome, Due
<1>11. \A row : Opens(dev, row)' <=> Opens(dev, row)  BY DEF Opens
<1>12. Awaits'  BY <1>11 DEF Flow, Awaits
<1>13. Safely'  BY <1>2 DEF Flow, Safely
<1> QED  BY <1>3, <1>4, <1>5, <1>6, <1>8, <1>10, <1>12, <1>13 DEF Flow

LEMMA PeerIs ==
  ASSUME TypeOK
  PROVE  /\ peer.chain \in [Groups -> Nat] /\ peer.shared \subseteq Groups /\ peer.session \in Nat
         /\ peer.knows \subseteq Groups /\ peer.saw \in Nat /\ reg \in Nat /\ reg >= 1
         /\ EnsureSession(peer) \in Peers
         /\ EnsureSession(peer).chain = peer.chain /\ EnsureSession(peer).session = reg
         /\ EnsureSession(peer).shared = (IF peer.session \in {0, reg} THEN peer.shared ELSE {})
         /\ EnsureSession(peer).knows = peer.knows /\ EnsureSession(peer).saw = peer.saw
         /\ EnsureSession(peer).at = peer.at /\ EnsureSession(peer).group = peer.group
<1>1. peer \in Peers /\ reg \in Nat /\ reg >= 1  BY DEF TypeOK
<1>2. /\ peer.chain \in [Groups -> Nat] /\ peer.shared \subseteq Groups /\ peer.session \in Nat
      /\ peer.knows \subseteq Groups /\ peer.saw \in Nat
  BY <1>1 DEF Peers
<1> DEFINE s == IF peer.session \in {0, reg} THEN peer.shared ELSE {}
<1>3. s \subseteq Groups  BY <1>2
<1>4. EnsureSession(peer) = [peer EXCEPT !.shared = s, !.session = reg]
  BY <1>1 DEF EnsureSession, Peers
<1> HIDE DEF s
<1>5. /\ EnsureSession(peer) \in Peers
      /\ EnsureSession(peer).chain = peer.chain /\ EnsureSession(peer).session = reg
      /\ EnsureSession(peer).shared = s
      /\ EnsureSession(peer).knows = peer.knows /\ EnsureSession(peer).saw = peer.saw
      /\ EnsureSession(peer).at = peer.at /\ EnsureSession(peer).group = peer.group
  BY <1>1, <1>3, <1>4 DEF Peers
<1> QED  BY <1>1, <1>2, <1>5 DEF s

LEMMA PeerSendsStep ==
  ASSUME InboxInv, NEW g \in Groups, PeerSends(g)
  PROVE  InboxInv'
<1>1. /\ peer' \in Peers /\ peer'.chain = peer.chain /\ peer'.shared = peer.shared
      /\ peer'.session = peer.session /\ peer'.saw = peer.saw /\ peer'.knows = peer.knows
      /\ peer'.at = "distribute" /\ peer'.group = g
  BY DEF InboxInv, TypeOK, Peers, PeerSends
<1>2. TypeOK'  BY <1>1 DEF InboxInv, TypeOK, PeerSends
<1>3. Subscribes'  BY DEF InboxInv, Subscribes, Latest, PeerSends
<1>4. Shares'  BY <1>1 DEF InboxInv, Shares, PeerSends
<1>6. Flow'  BY <1>1, FlowStays DEF InboxInv, PeerSends
<1> QED  BY <1>2, <1>3, <1>4, <1>6 DEF InboxInv

LEMMA MembershipStep ==
  ASSUME InboxInv, MembershipRefreshed
  PROVE  InboxInv'
<1>0. past.joined \subseteq Groups  BY DEF InboxInv, TypeOK, Pasts
<1>1. /\ peer' \in Peers /\ peer'.chain = peer.chain /\ peer'.shared = peer.shared
      /\ peer'.session = peer.session /\ peer'.saw = peer.saw /\ peer'.knows = past.joined
      /\ peer'.at = "distribute" /\ peer'.group = peer.group
  BY <1>0 DEF InboxInv, TypeOK, Peers, MembershipRefreshed, AfterRefresh
<1>2. TypeOK'  BY <1>1 DEF InboxInv, TypeOK, MembershipRefreshed
<1>3. Subscribes'  BY DEF InboxInv, Subscribes, Latest, MembershipRefreshed
<1>4. Shares'  BY <1>1 DEF InboxInv, Shares, MembershipRefreshed
<1>6. Flow'  BY <1>1, FlowStays DEF InboxInv, MembershipRefreshed
<1> QED  BY <1>2, <1>3, <1>4, <1>6 DEF InboxInv

LEMMA SendEndsStep ==
  ASSUME InboxInv, SendEnds
  PROVE  InboxInv'
<1>1. /\ peer' \in Peers /\ peer'.chain = peer.chain /\ peer'.shared = peer.shared
      /\ peer'.session = peer.session /\ peer'.saw = peer.saw /\ peer'.knows = peer.knows
      /\ peer'.at = "idle" /\ peer.at = "endorse"
  BY DEF InboxInv, TypeOK, Peers, SendEnds, EndsAt
<1>2. TypeOK'  BY <1>1 DEF InboxInv, TypeOK, SendEnds
<1>3. Subscribes'  BY DEF InboxInv, Subscribes, Latest, SendEnds
<1>4. Shares'  BY <1>1 DEF InboxInv, Shares, SendEnds
<1>6. Flow'  BY <1>1, FlowStays DEF InboxInv, SendEnds
<1> QED  BY <1>2, <1>3, <1>4, <1>6 DEF InboxInv

LEMMA PeerHearsStep ==
  ASSUME InboxInv, PeerHears
  PROVE  InboxInv'
<1>1. /\ peer' \in Peers /\ peer'.chain = peer.chain /\ peer'.shared = peer.shared
      /\ peer'.session = reg /\ peer'.saw = peer.saw /\ peer'.knows = peer.knows
      /\ peer'.at = "idle"
  BY DEF InboxInv, TypeOK, Peers, PeerHears
<1>2. /\ past' \in Pasts /\ past'.sent = past.sent /\ past'.dms = past.dms /\ past'.keyed = past.keyed
      /\ past'.keyless = past.keyless /\ past'.unshared = past.unshared /\ past'.spoilt = past.spoilt
      /\ past'.keyLost = past.keyLost /\ past'.faulty = past.faulty /\ past'.joined = past.joined
      /\ past'.shadowed = past.shadowed /\ past'.overtaken = past.overtaken /\ past'.raced = past.raced
  BY DEF InboxInv, TypeOK, Pasts, PeerHears
<1>3. TypeOK'  BY <1>1, <1>2, PeerIs DEF InboxInv, TypeOK, PeerHears
<1>4. Subscribes'  BY DEF InboxInv, Subscribes, Latest, PeerHears
<1>5. Shares'  BY <1>1, <1>2 DEF InboxInv, Shares, PeerHears
<1>7. Flow'  BY <1>1, <1>2, FlowStays DEF InboxInv, PeerHears
<1> QED  BY <1>3, <1>4, <1>5, <1>7 DEF InboxInv

LEMMA PushStep ==
  ASSUME InboxInv, PushGroupRow
  PROVE  InboxInv'
<1>1. /\ peer' \in Peers /\ peer'.chain = peer.chain /\ peer'.shared = peer.shared
      /\ peer'.session = peer.session /\ peer'.saw = peer.saw /\ peer'.knows = peer.knows
      /\ peer'.at = "idle"
  BY DEF InboxInv, TypeOK, Peers, PushGroupRow
<1>2. /\ net' \in Nets /\ net'.up = net.up /\ net'.subs = net.subs /\ net'.wire = net.wire
      /\ net'.listed = net.listed /\ ToSet(net'.frames) \subseteq past.sent
      /\ ~net'.up => net' = Offline
  <2>0. net \in Nets /\ net.frames \in Seq(GroupRow) /\ ToSet(net.frames) \subseteq past.sent
        /\ (~net.up => net = Offline) /\ Offline.subs = {}
    BY DEF InboxInv, TypeOK, Nets, Offline
  <2>1. CASE toPush # NoRow /\ toPush.group \in net.subs
    <3>0. toPush \in GroupRow \cup {NoRow} /\ toPush \in past.sent \cup {NoRow}
      BY DEF InboxInv, TypeOK
    <3>1. toPush \in GroupRow /\ toPush \in past.sent  BY <2>1, <3>0
    <3>2. /\ Append(net.frames, toPush) \in Seq(GroupRow)
          /\ ToSet(Append(net.frames, toPush)) = ToSet(net.frames) \cup {toPush}
      BY <2>0, <3>1, AppendSet
    <3>3. net' = [net EXCEPT !.frames = Append(@, toPush)]  BY <2>1 DEF PushGroupRow
    <3>4. net.up  BY <2>0, <2>1
    <3> QED  BY <2>0, <3>1, <3>2, <3>3, <3>4 DEF Nets
  <2>2. CASE ~(toPush # NoRow /\ toPush.group \in net.subs)
    BY <2>0, <2>2 DEF PushGroupRow
  <2> QED  BY <2>1, <2>2
<1>3. TypeOK'
  <2>1. toPush' = NoRow /\ UNCHANGED <<dmq, gq, reg, dev, app, ext, past>>  BY DEF PushGroupRow
  <2> QED  BY <1>1, <1>2, <2>1 DEF InboxInv, TypeOK
<1>4. Subscribes'  BY <1>2 DEF InboxInv, Subscribes, Latest, PushGroupRow
<1>5. Shares'  BY <1>1 DEF InboxInv, Shares, PushGroupRow
<1>7. Flow'  BY <1>1, FlowStays DEF InboxInv, PushGroupRow
<1> QED  BY <1>3, <1>4, <1>5, <1>7 DEF InboxInv

----------------------------------------------------------------------------
(* Subscriptions, sockets, sleep *)

LEMMA NetIs ==
  ASSUME TypeOK
  PROVE  /\ net \in Nets /\ net.up \in BOOLEAN /\ net.subs \subseteq Groups /\ net.wire \in Seq(SUBSET Groups)
         /\ net.frames \in Seq(GroupRow) /\ net.listed \subseteq SUBSET Groups
         /\ Offline \in Nets /\ Offline.subs = {} /\ Offline.wire = <<>> /\ Offline.frames = <<>>
         /\ ToSet(Offline.frames) = {}
         /\ ~Offline.up
  BY EmptySet DEF TypeOK, Nets, Offline

Keeps(q) ==
    /\ q \in Pasts /\ q.sent = past.sent /\ q.dms = past.dms /\ q.joined = past.joined
    /\ q.keyed = past.keyed /\ q.keyless = past.keyless /\ q.unshared = past.unshared
    /\ past.shadowed \subseteq q.shadowed /\ past.overtaken \subseteq q.overtaken
    /\ past.raced \subseteq q.raced

\* What came of a message stays so.
LEMMA GoneGrows ==
  ASSUME Keeps(past'), past.spoilt \subseteq past'.spoilt
  PROVE  Gone \subseteq Gone'
  BY DEF Keeps, Gone

LEMMA UpsetKeeps ==
  ASSUME TypeOK
  PROVE  /\ Keeps(Upsetting) /\ Upsetting.spoilt = past.spoilt /\ Upsetting.keyLost = past.keyLost
         /\ Upsetting.faulty = past.faulty
<1>1. past \in Pasts /\ past.upsets + 1 \in Nat  BY DEF TypeOK, Pasts
<1>2. Upsetting = [past EXCEPT !.upsets = past.upsets + 1]  BY DEF Upsetting
<1> QED  BY <1>1, <1>2 DEF Keeps, Pasts

LEMMA BesideKeeps ==
  ASSUME TypeOK, NEW both \in BOOLEAN, SideBySide(both)
  PROVE  /\ Keeps(past') /\ past'.spoilt = past.spoilt /\ past'.keyLost = past.keyLost
         /\ past'.faulty = past.faulty
<1>1. past \in Pasts /\ past.beside + 1 \in Nat  BY DEF TypeOK, Pasts
<1>2. past' = past \/ past' = [past EXCEPT !.beside = past.beside + 1]  BY DEF SideBySide
<1> QED  BY <1>1, <1>2 DEF Keeps, Pasts

LEMMA ExpiryKeeps ==
  ASSUME TypeOK, NEW rows \in SUBSET Rows
  PROVE  LET q == [Upsetting EXCEPT !.spoilt = @ \cup rows]
         IN  Keeps(q) /\ q.spoilt = past.spoilt \cup rows /\ q.keyLost = past.keyLost /\ q.faulty = past.faulty
<1> DEFINE q == [Upsetting EXCEPT !.spoilt = @ \cup rows]
<1>1. Upsetting \in Pasts  BY UpsetKeeps DEF Keeps
<1>2. q.spoilt = past.spoilt \cup rows /\ past.spoilt \in SUBSET Rows
  BY <1>1, UpsetKeeps DEF Pasts, Rows, TypeOK
<1> QED  BY <1>1, <1>2, UpsetKeeps DEF Keeps, Pasts, Rows

LEMMA FaultKeeps ==
  ASSUME TypeOK, NEW rows \in SUBSET Rows, NEW lost \in BOOLEAN
  PROVE  /\ Keeps(Faulty) /\ Faulty.spoilt = past.spoilt /\ Faulty.keyLost = past.keyLost /\ Faulty.faulty
         /\ LET q == [Faulty EXCEPT !.spoilt = @ \cup rows]
            IN  Keeps(q) /\ q.spoilt = past.spoilt \cup rows /\ q.keyLost = past.keyLost /\ q.faulty
         /\ LET q == [Faulty EXCEPT !.spoilt = @ \cup rows, !.keyLost = @ \/ lost]
            IN  Keeps(q) /\ q.spoilt = past.spoilt \cup rows /\ (q.keyLost <=> past.keyLost \/ lost) /\ q.faulty
<1>1. /\ Keeps(Faulty) /\ Faulty.spoilt = past.spoilt /\ Faulty.keyLost = past.keyLost /\ Faulty.faulty
  BY UpsetKeeps DEF Keeps, Pasts, Faulty
<1>2. Faulty \in Pasts /\ past.spoilt \in SUBSET Rows /\ past.keyLost \in BOOLEAN
  BY <1>1 DEF Keeps, Pasts, Rows, TypeOK
<1>3. past.spoilt \cup rows \in SUBSET Rows /\ (past.keyLost \/ lost) \in BOOLEAN  BY <1>2
<1>4. LET q == [Faulty EXCEPT !.spoilt = @ \cup rows]
      IN  Keeps(q) /\ q.spoilt = past.spoilt \cup rows /\ q.keyLost = past.keyLost /\ q.faulty
  BY <1>1, <1>2, <1>3 DEF Keeps, Pasts, Rows
<1>5. LET q == [Faulty EXCEPT !.spoilt = @ \cup rows, !.keyLost = @ \/ lost]
      IN  Keeps(q) /\ q.spoilt = past.spoilt \cup rows /\ (q.keyLost <=> past.keyLost \/ lost) /\ q.faulty
  BY <1>1, <1>2, <1>3 DEF Keeps, Pasts, Rows
<1> QED  BY <1>1, <1>4, <1>5

----------------------------------------------------------------------------
(* Subscriptions, whether or not the extension runs beside the app *)

(* The fields that say what the app is subscribed to. *)
Fields ==
    /\ "nudge" \in DOMAIN app /\ app.nudge \in BOOLEAN
    /\ "bound" \in DOMAIN dev /\ dev.bound \in SUBSET Groups
    /\ {"up", "subs", "wire", "listed"} \subseteq DOMAIN net
    /\ net.wire \in Seq(SUBSET Groups) /\ net.listed \subseteq SUBSET Groups
Listening == Fields /\ Subscribes

Same ==
    /\ DOMAIN app' = DOMAIN app /\ app'.nudge = app.nudge
    /\ DOMAIN dev' = DOMAIN dev /\ dev'.bound = dev.bound
    /\ DOMAIN net' = DOMAIN net /\ net'.up = net.up /\ net'.subs = net.subs
    /\ net'.wire = net.wire /\ net'.listed = net.listed

LEMMA FieldsHold == TypeOK => Fields
BY DEF TypeOK, Fields, Apps, Stores, Nets

\* A step that leaves them alone.
LEMMA ListeningStays == ASSUME Listening, Same PROVE Listening'
  BY DEF Listening, Fields, Subscribes, Latest, Same

\* A device that is not connected owes nothing.
LEMMA ListeningOffline ==
  ASSUME net' = Offline, "nudge" \in DOMAIN app', app'.nudge \in BOOLEAN,
         "bound" \in DOMAIN dev', dev'.bound \in SUBSET Groups
  PROVE  Listening'
<1>1. ~net'.up /\ {"up", "subs", "wire", "listed"} \subseteq DOMAIN net'
      /\ net'.wire \in Seq(SUBSET Groups) /\ net'.listed = {}
  BY DEF Offline
<1> QED  BY <1>1 DEF Listening, Fields, Subscribes

\* Putting a delivery in a hand.
LEMMA PutsSame ==
  ASSUME Fields, NEW p, NEW h, Puts(p, h)
  PROVE  DOMAIN app' = DOMAIN app /\ app'.nudge = app.nudge
BY DEF Puts, Fields

LEMMA OpenDmSame ==
  ASSUME Fields, NEW p, NEW dm, OpenDm(p, dm), UNCHANGED net
  PROVE  Same
<1>1. PICK h : Puts(p, h)  BY DEF OpenDm
<1>2. DOMAIN dev' = DOMAIN dev /\ dev'.bound = dev.bound  BY DEF OpenDm, Fields
<1> QED  BY <1>1, <1>2, PutsSame DEF Same

LEMMA HandsSame ==
  ASSUME Fields, NEW p, ProcessSkdm(p) \/ SaveIncoming(p) \/ SaveFails(p)
  PROVE  Same
<1>1. CASE ProcessSkdm(p)
  <2> DEFINE d == Installed(dev, Hand(p).row)
  <2>1. DOMAIN d = DOMAIN dev /\ d.bound = dev.bound  BY DEF Installed, Fields
  <2> HIDE DEF d
  <2>2. DOMAIN Retry(d).dev = DOMAIN dev /\ Retry(d).dev.bound = dev.bound
    BY <2>1 DEF Retry, Used, Fields
  <2>3. dev' = Retry(d).dev /\ Puts(p, Holding(Hand(p).row, Retry(d).rows)) /\ UNCHANGED net
    BY <1>1 DEF ProcessSkdm, d
  <2> QED  BY <2>2, <2>3, PutsSame DEF Same
<1>2. CASE SaveIncoming(p)
  <2>1. DOMAIN dev' = DOMAIN dev /\ dev'.bound = dev.bound  BY <1>2 DEF SaveIncoming, Saved, Fields
  <2>2. Puts(p, Holding(Hand(p).row, Tail(Hand(p).save))) /\ UNCHANGED net
    BY <1>2 DEF SaveIncoming
  <2> QED  BY <2>1, <2>2, PutsSame DEF Same
<1>3. CASE SaveFails(p)
  <2>1. Puts(p, Holding(Hand(p).row, Tail(Hand(p).save))) /\ UNCHANGED <<net, dev>>
    BY <1>3 DEF SaveFails
  <2> QED  BY <2>1, PutsSame DEF Same
<1> QED  BY <1>1, <1>2, <1>3

LEMMA BindListens ==
  ASSUME Listening, NEW g \in Groups, Bind(g)
  PROVE  Listening'
<1> DEFINE s == dev.bound \cup {g}
<1>1. dev.bound \subseteq s /\ s \in SUBSET Groups  BY DEF Listening, Fields
<1>2. "bound" \in DOMAIN dev' /\ dev'.bound = s  BY DEF Bind, Listening, Fields
<1>3. "nudge" \in DOMAIN app' /\ app'.nudge = TRUE  BY DEF Bind, Nudged, Listening, Fields
<1>4. net' = IF net.up THEN [net EXCEPT !.wire = Append(@, s)] ELSE net
  BY DEF Bind, FullSet
<1> HIDE DEF s
<1>5. net.wire \in Seq(SUBSET Groups)  BY DEF Listening, Fields
<1>6. /\ Append(net.wire, s) \in Seq(SUBSET Groups)
      /\ \A i \in DOMAIN Append(net.wire, s) : Append(net.wire, s)[i] = s
             \/ (i \in DOMAIN net.wire /\ Append(net.wire, s)[i] = net.wire[i])
  BY <1>1, <1>5
<1>7. /\ {"up", "subs", "wire", "listed"} \subseteq DOMAIN net' /\ net'.up = net.up
      /\ net'.subs = net.subs /\ net'.listed = net.listed
      /\ net'.wire = IF net.up THEN Append(net.wire, s) ELSE net.wire
  BY <1>4 DEF Listening, Fields
<1>8. Fields'  BY <1>1, <1>2, <1>3, <1>5, <1>6, <1>7 DEF Listening, Fields
<1>9. Subscribes'
  <2> SUFFICES ASSUME net.up
               PROVE  /\ \A i \in DOMAIN net'.wire : net'.wire[i] \subseteq s
                      /\ net.subs \subseteq s /\ \A l \in net.listed : net.listed = {l} /\ l \subseteq s
    BY <1>2, <1>3, <1>7 DEF Subscribes
  <2> QED  BY <1>1, <1>6, <1>7 DEF Listening, Subscribes
<1> QED  BY <1>8, <1>9 DEF Listening

LEMMA ConnectListens ==
  ASSUME Listening, Connect
  PROVE  Listening'
<1>1. UNCHANGED <<dev, app>> /\ dev.bound \in SUBSET Groups  BY DEF Connect, Listening, Fields
<1>2. /\ {"up", "subs", "wire", "listed"} \subseteq DOMAIN net' /\ net'.subs = {}
      /\ net'.wire = <<>> /\ net'.listed = {dev.bound}
  BY DEF Connect, Offline
<1> QED  BY <1>1, <1>2 DEF Listening, Fields, Subscribes

LEMMA ListListens ==
  ASSUME Listening, ListPseudonyms
  PROVE  Listening'
<1>1. UNCHANGED dev /\ dev.bound \in SUBSET Groups /\ net.up
  BY DEF ListPseudonyms, AtRest, Listening, Fields
<1>2. /\ {"up", "subs", "wire", "listed"} \subseteq DOMAIN net' /\ net'.subs = net.subs
      /\ net'.wire = net.wire /\ net'.listed = {dev.bound}
  BY DEF ListPseudonyms, Listening, Fields
<1>3. "nudge" \in DOMAIN app' /\ app'.nudge \in BOOLEAN  BY DEF ListPseudonyms, Listening, Fields
<1> QED  BY <1>1, <1>2, <1>3 DEF Listening, Fields, Subscribes

LEMMA SubscribeListens ==
  ASSUME Listening, SubscribeAll
  PROVE  Listening'
<1>1. PICK list \in net.listed :
         net' = [net EXCEPT !.listed = {}, !.wire = IF list = {} THEN @ ELSE Append(@, list)]
  BY DEF SubscribeAll
<1>2. UNCHANGED <<dev, app>> /\ net.up  BY DEF SubscribeAll, AtRest
<1>3. list \in SUBSET Groups /\ list \subseteq dev.bound /\ (~app.nudge => list = dev.bound)
  BY <1>2 DEF Listening, Fields, Subscribes
<1>4. net.wire \in Seq(SUBSET Groups)  BY DEF Listening, Fields
<1>5. /\ {"up", "subs", "wire", "listed"} \subseteq DOMAIN net' /\ net'.subs = net.subs
      /\ net'.listed = {} /\ net'.wire = IF list = {} THEN net.wire ELSE Append(net.wire, list)
  BY <1>1 DEF Listening, Fields
<1>6. /\ Append(net.wire, list) \in Seq(SUBSET Groups) /\ Append(net.wire, list) # <<>>
      /\ Append(net.wire, list)[Len(Append(net.wire, list))] = list
      /\ \A i \in DOMAIN Append(net.wire, list) : Append(net.wire, list)[i] = list
             \/ (i \in DOMAIN net.wire /\ Append(net.wire, list)[i] = net.wire[i])
  BY <1>3, <1>4
<1>7. Fields'  BY <1>2, <1>4, <1>5, <1>6 DEF Listening, Fields
<1>8. \A i \in DOMAIN net'.wire : net'.wire[i] \subseteq dev.bound
  BY <1>2, <1>3, <1>5, <1>6 DEF Listening, Subscribes
<1>9. ASSUME ~app.nudge  PROVE Latest' = dev.bound
  <2>1. CASE list = {}
    <3>1. Latest \subseteq dev.bound
      <4>1. net.wire # <<>> => Len(net.wire) \in DOMAIN net.wire  BY <1>4
      <4> QED  BY <1>2, <4>1 DEF Latest, Listening, Subscribes
    <3> QED  BY <1>3, <1>5, <1>9, <2>1, <3>1 DEF Latest
  <2>2. CASE list # {}  BY <1>3, <1>5, <1>6, <1>9, <2>2 DEF Latest
  <2> QED  BY <2>1, <2>2
<1> QED  BY <1>2, <1>5, <1>7, <1>8, <1>9 DEF Listening, Subscribes

LEMMA HandleListens ==
  ASSUME Listening, HandleSubscribe
  PROVE  Listening'
<1>1. net.wire \in Seq(SUBSET Groups) /\ net.wire # <<>> /\ net.up /\ UNCHANGED <<dev, app>>
  BY DEF HandleSubscribe, Listening, Fields
<1>2. /\ {"up", "subs", "wire", "listed"} \subseteq DOMAIN net' /\ net'.subs = Head(net.wire)
      /\ net'.listed = net.listed /\ net'.wire = Tail(net.wire)
  BY DEF HandleSubscribe, Listening, Fields
<1>3. /\ Tail(net.wire) \in Seq(SUBSET Groups) /\ Head(net.wire) = net.wire[1] /\ 1 \in DOMAIN net.wire
      /\ Len(Tail(net.wire)) = Len(net.wire) - 1 /\ Len(net.wire) \in Nat
      /\ \A i \in DOMAIN Tail(net.wire) : i + 1 \in DOMAIN net.wire /\ Tail(net.wire)[i] = net.wire[i + 1]
  BY <1>1, HeadTailSet
<1>4. Fields'  BY <1>1, <1>2, <1>3 DEF Listening, Fields
<1>5. Head(net.wire) \subseteq dev.bound
      /\ \A i \in DOMAIN Tail(net.wire) : Tail(net.wire)[i] \subseteq dev.bound
  BY <1>1, <1>3 DEF Listening, Subscribes
<1>6. Latest' = Latest
  <2>1. CASE Tail(net.wire) = <<>>
    <3>1. Len(Tail(net.wire)) = 0
      <4>1. \A u \in Seq(SUBSET Groups) : u = <<>> => Len(u) = 0  OBVIOUS
      <4> QED  BY <1>3, <2>1, <4>1
    <3>2. Len(net.wire) = 1  BY <1>3, <3>1
    <3> QED  BY <1>1, <1>2, <1>3, <2>1, <3>2 DEF Latest
  <2>2. CASE Tail(net.wire) # <<>>
    <3>1. Len(Tail(net.wire)) \in DOMAIN Tail(net.wire)
      <4>1. \A u \in Seq(SUBSET Groups) : u # <<>> => Len(u) \in DOMAIN u  OBVIOUS
      <4> QED  BY <1>3, <2>2, <4>1
    <3>2. Len(Tail(net.wire)) + 1 = Len(net.wire)  BY <1>3
    <3> QED  BY <1>1, <1>2, <1>3, <2>2, <3>1, <3>2 DEF Latest
  <2> QED  BY <2>1, <2>2
<1> QED  BY <1>1, <1>2, <1>4, <1>5, <1>6 DEF Listening, Subscribes

LEMMA PeerListens ==
  ASSUME Listening, PeerNext \/ ExpireRow
  PROVE  Listening'
<1>1. CASE UNCHANGED <<dev, app, net>>  BY <1>1, ListeningStays DEF Same
<1>2. CASE PushGroupRow
  <2>1. Same  BY <1>2 DEF PushGroupRow, Same, Listening, Fields
  <2> QED  BY <2>1, ListeningStays
<1> QED
  BY <1>1, <1>2 DEF PeerNext, PeerSends, DistributeSenderKey, MembershipRefreshed, SendEnds,
                    FanOut, PeerHears, ExpireRow

LEMMA AppListens ==
  ASSUME Listening, AppNext
  PROVE  Listening'
<1>0. Fields  BY DEF Listening
<1>1. CASE TakeDm
  <2>1. OpenDm("app", Head(dmq)) /\ UNCHANGED net  BY <1>1 DEF TakeDm
  <2> QED  BY <1>0, <2>1, OpenDmSame, ListeningStays
<1>2. CASE ProcessGroupDelivery
  <2>1. PICK h : Puts("app", h)  BY <1>2 DEF ProcessGroupDelivery
  <2>2. DOMAIN dev' = DOMAIN dev /\ dev'.bound = dev.bound
    BY <1>0, <1>2 DEF ProcessGroupDelivery, Used, Fields
  <2>3. net' = [net EXCEPT !.frames = Tail(@)]  BY <1>2 DEF ProcessGroupDelivery
  <2>4. Same  BY <1>0, <2>1, <2>2, <2>3, PutsSame DEF Same, Fields
  <2> QED  BY <2>4, ListeningStays
<1>8. CASE AppBuffers
  <2>1. PICK h : Puts("app", h)  BY <1>8 DEF AppBuffers
  <2>2. DOMAIN dev' = DOMAIN dev /\ dev'.bound = dev.bound /\ UNCHANGED net
    BY <1>0, <1>8 DEF AppBuffers, Buffers, Buffered, Fields
  <2>3. Same  BY <1>0, <2>1, <2>2, PutsSame DEF Same
  <2> QED  BY <2>3, ListeningStays
<1>3. CASE ProcessSkdm("app") \/ SaveIncoming("app") \/ SaveFails("app")
  BY <1>0, <1>3, HandsSame, ListeningStays
<1>4. CASE AppAcks
  <2>1. Puts("app", Free) /\ UNCHANGED <<dev, net>>  BY <1>4 DEF AppAcks
  <2> QED  BY <1>0, <2>1, PutsSame, ListeningStays DEF Same
<1>5. CASE Wake
  <2>1. Same  BY <1>0, <1>5 DEF Wake, Same, Fields
  <2> QED  BY <2>1, ListeningStays
<1>6. CASE Sleep
  <2>1. net' = Offline /\ app' = [app EXCEPT !.awake = FALSE] /\ dev' = dev  BY <1>6 DEF Sleep
  <2> QED  BY <1>0, <2>1, ListeningOffline DEF Fields
<1>7. CASE AppKilled
  <2>1. net' = Offline /\ app' = [awake |-> FALSE, nudge |-> FALSE, hand |-> Free] /\ dev' = dev
    BY <1>7 DEF AppKilled
  <2> QED  BY <1>0, <2>1, ListeningOffline DEF Fields
<1> QED
  BY <1>1, <1>2, <1>3, <1>4, <1>5, <1>6, <1>7, <1>8, BindListens, ConnectListens, ListListens, SubscribeListens
  DEF AppNext, AppSteps

LEMMA ExtListens ==
  ASSUME Listening, ExtNext
  PROVE  Listening'
<1>0. Fields  BY DEF Listening
<1>1. CASE UNCHANGED <<dev, app, net>>  BY <1>1, ListeningStays DEF Same
<1>2. CASE ExtTakesDm
  <2>1. OpenDm("ext", Head(ext.left)) /\ UNCHANGED net  BY <1>2 DEF ExtTakesDm
  <2> QED  BY <1>0, <2>1, OpenDmSame, ListeningStays
<1>3. CASE ProcessSkdm("ext") \/ SaveIncoming("ext") \/ SaveFails("ext")
  BY <1>0, <1>3, HandsSame, ListeningStays
<1>4. CASE ExtOpensRow \/ ExtBuffers
  <2>1. Same  BY <1>0, <1>4 DEF ExtOpensRow, ExtBuffers, Buffers, Used, Buffered, Same, Fields
  <2> QED  BY <2>1, ListeningStays
<1> QED
  BY <1>1, <1>2, <1>3, <1>4 DEF ExtNext, ExtSteps, ExtDmDone, ExtAcksDms, ExtFetches, ExtAcksRows,
                                ExtGroupDone, ExtEnds, ExtPollsDms, ExtKilled

LEMMA WorldListens ==
  ASSUME Listening, Cut \/ Replace
  PROVE  Listening'
<1>1. net' = Offline  BY DEF Cut, Replace
<1>2. CASE Cut
  <2>1. UNCHANGED <<dev, app>>  BY <1>2 DEF Cut
  <2> QED  BY <1>1, <2>1, ListeningOffline DEF Listening, Fields
<1>3. CASE Replace
  <2>1. dev' = NewStore /\ app' = [awake |-> TRUE, nudge |-> FALSE, hand |-> Free]
    BY <1>3 DEF Replace
  <2>2. "bound" \in DOMAIN dev' /\ dev'.bound \in SUBSET Groups  BY <2>1 DEF NewStore
  <2> QED  BY <1>1, <2>1, <2>2, ListeningOffline
<1> QED  BY <1>2, <1>3

LEMMA ListensAlways == Spec => []Listening
<1>1. Init => Listening
  <2> SUFFICES ASSUME Init  PROVE Listening  OBVIOUS
  <2>1. dev = NewStore /\ net = Offline /\ app = [awake |-> TRUE, nudge |-> FALSE, hand |-> Free]
    BY DEF Init
  <2> QED  BY <2>1 DEF Listening, Fields, Subscribes, NewStore, Offline
<1>2. Listening /\ [Next]_vars => Listening'
  <2>1. CASE UNCHANGED vars
    <3>1. UNCHANGED <<dev, app, net>>  BY <2>1 DEF vars
    <3> QED  BY <3>1, ListeningStays DEF Same
  <2> QED
    BY <2>1, PeerListens, HandleListens, AppListens, ExtListens, WorldListens DEF Next
<1> QED  BY <1>1, <1>2, PTL DEF Spec

----------------------------------------------------------------------------
(* The steps of the subscription, and of the world, keep the whole *)

LEMMA BindStep ==
  ASSUME InboxInv, NEW g \in Groups, Bind(g)
  PROVE  InboxInv'
<1>0. TypeOK /\ Subscribes /\ Shares /\ Flow  BY DEF InboxInv
<1> DEFINE s == dev.bound \cup {g}
<1>1. /\ dev' \in Stores /\ dev'.bound = s /\ dev'.key = dev.key /\ dev'.used = dev.used
      /\ dev'.opened = dev.opened /\ dev'.buffer = dev.buffer /\ dev'.history = dev.history
      /\ s \in SUBSET Groups
  <2>1. dev \in Stores /\ dev' = [dev EXCEPT !.bound = s]  BY <1>0 DEF TypeOK, Bind
  <2>2. s \in SUBSET Groups  BY <2>1 DEF Stores
  <2> HIDE DEF s
  <2> QED  BY <2>1, <2>2 DEF Stores
<1>2. /\ past' \in Pasts /\ past'.sent = past.sent /\ past'.dms = past.dms /\ past'.keyed = past.keyed
      /\ past'.keyless = past.keyless /\ past'.unshared = past.unshared /\ past'.spoilt = past.spoilt
      /\ past'.keyLost = past.keyLost /\ past'.faulty = past.faulty /\ past'.joined = past.joined \cup {g}
      /\ past'.shadowed = past.shadowed /\ past'.overtaken = past.overtaken /\ past'.raced = past.raced
  <2>1. past \in Pasts /\ past' = [past EXCEPT !.joined = @ \cup {g}, !.greeted = TRUE]
    BY <1>0 DEF TypeOK, Bind
  <2>2. past.joined \cup {g} \in SUBSET Groups  BY <2>1 DEF Pasts
  <2> QED  BY <2>1, <2>2 DEF Pasts
<1>3. app' \in Apps /\ app'.nudge /\ app'.hand = app.hand /\ app'.awake = app.awake
  BY <1>0 DEF TypeOK, Apps, Bind, Nudged
<1>4. /\ Append(net.wire, s) \in Seq(SUBSET Groups) /\ DOMAIN Append(net.wire, s) = 1..(Len(net.wire) + 1)
      /\ \A i \in DOMAIN net.wire : Append(net.wire, s)[i] = net.wire[i]
      /\ Append(net.wire, s)[Len(net.wire) + 1] = s
      /\ Len(net.wire) \in Nat /\ DOMAIN net.wire = 1..Len(net.wire)
  BY <1>0, <1>1, NetIs, AppendSet, SeqSets
<1> HIDE DEF s
<1>5. /\ net' \in Nets /\ net'.up = net.up /\ net'.subs = net.subs /\ net'.frames = net.frames
      /\ net'.listed = net.listed
      /\ net'.wire = IF net.up THEN Append(net.wire, s) ELSE net.wire
  <2>1. net' = IF net.up THEN [net EXCEPT !.wire = Append(@, s)] ELSE net
    BY DEF Bind, FullSet, s
  <2> QED  BY <1>0, <1>4, <2>1, NetIs DEF Nets
<1>6. ~net'.up => net' = Offline
  BY <1>0, <1>5 DEF Bind, TypeOK
<1>7. TypeOK'
  <2>1. dev.bound \subseteq s /\ s \subseteq past.joined \cup {g}  BY <1>0 DEF TypeOK, s
  <2>2. UNCHANGED <<peer, dmq, gq, toPush, reg, ext>>  BY DEF Bind
  <2> QED  BY <1>0, <1>1, <1>2, <1>3, <1>5, <1>6, <2>1, <2>2 DEF TypeOK
<1>8. Subscribes'  BY <1>0, FieldsHold, BindListens DEF Listening
<1>9. Shares'  BY <1>0, <1>2 DEF Shares, Bind
<1>11. Flow'  BY <1>0, <1>1, <1>2, <1>3, FlowStays DEF Bind
<1> QED  BY <1>7, <1>8, <1>9, <1>11 DEF InboxInv

LEMMA ConnectStep ==
  ASSUME InboxInv, Connect
  PROVE  InboxInv'
<1>0. TypeOK /\ Subscribes /\ Shares /\ Flow  BY DEF InboxInv
<1>1. /\ net' \in Nets /\ net'.up /\ net'.subs = {} /\ net'.wire = <<>> /\ net'.frames = <<>>
      /\ net'.listed = {dev.bound} /\ ToSet(net'.frames) = {}
  <2>1. dev.bound \in SUBSET Groups  BY <1>0 DEF TypeOK, Stores
  <2>2. net' = [Offline EXCEPT !.up = TRUE, !.listed = {dev.bound}]  BY DEF Connect
  <2>3. {dev.bound} \in SUBSET (SUBSET Groups)  BY <2>1
  <2>4. Offline \in Nets  BY <1>0, NetIs
  <2> QED  BY <2>2, <2>3, <2>4, EmptySet DEF Nets, Offline
<1>2. TypeOK'  BY <1>0, <1>1 DEF TypeOK, Connect
<1>3. Subscribes'  BY <1>1 DEF Subscribes, Connect
<1>4. Shares'  BY <1>0 DEF Shares, Connect
<1>6. Flow'  BY <1>0, FlowStays DEF Connect
<1> QED  BY <1>2, <1>3, <1>4, <1>6 DEF InboxInv

LEMMA ListStep ==
  ASSUME InboxInv, ListPseudonyms
  PROVE  InboxInv'
<1>0. TypeOK /\ Subscribes /\ Shares /\ Flow /\ net.up
  BY DEF InboxInv, ListPseudonyms, AtRest
<1>1. /\ net' \in Nets /\ net'.up = net.up /\ net'.subs = net.subs /\ net'.wire = net.wire
      /\ net'.frames = net.frames /\ net'.listed = {dev.bound}
  <2>1. dev.bound \in SUBSET Groups  BY <1>0 DEF TypeOK, Stores
  <2>2. net' = [net EXCEPT !.listed = {dev.bound}]  BY DEF ListPseudonyms
  <2> QED  BY <1>0, <2>1, <2>2, NetIs DEF Nets
<1>2. app' \in Apps /\ app'.hand = app.hand /\ app'.awake = app.awake
  BY <1>0 DEF TypeOK, Apps, ListPseudonyms
<1>3. TypeOK'  BY <1>0, <1>1, <1>2 DEF TypeOK, ListPseudonyms
<1>4. Subscribes'  BY <1>0, <1>1 DEF Subscribes, ListPseudonyms
<1>5. Shares'  BY <1>0 DEF Shares, ListPseudonyms
<1>7. Flow'  BY <1>0, <1>2, FlowStays DEF ListPseudonyms
<1> QED  BY <1>3, <1>4, <1>5, <1>7 DEF InboxInv

LEMMA SubscribeStep ==
  ASSUME InboxInv, SubscribeAll
  PROVE  InboxInv'
<1>0. TypeOK /\ Subscribes /\ Shares /\ Flow /\ net.up
  BY DEF InboxInv, SubscribeAll, AtRest
<1>1. PICK list \in net.listed :
         net' = [net EXCEPT !.listed = {}, !.wire = IF list = {} THEN @ ELSE Append(@, list)]
  BY DEF SubscribeAll
<1>2. /\ list \subseteq Groups /\ net.listed = {list} /\ list \subseteq dev.bound
      /\ ~app.nudge => list = dev.bound
  BY <1>0, NetIs DEF Subscribes
<1>3. /\ Append(net.wire, list) \in Seq(SUBSET Groups)
      /\ DOMAIN Append(net.wire, list) = 1..(Len(net.wire) + 1)
      /\ \A i \in DOMAIN net.wire : Append(net.wire, list)[i] = net.wire[i]
      /\ Append(net.wire, list)[Len(net.wire) + 1] = list
      /\ Len(net.wire) \in Nat /\ DOMAIN net.wire = 1..Len(net.wire)
      /\ Append(net.wire, list) # <<>> /\ Len(Append(net.wire, list)) = Len(net.wire) + 1
  BY <1>0, <1>2, NetIs, AppendSet, SeqSets
<1>4. /\ net' \in Nets /\ net'.up = net.up /\ net'.subs = net.subs /\ net'.frames = net.frames
      /\ net'.listed = {}
      /\ net'.wire = IF list = {} THEN net.wire ELSE Append(net.wire, list)
  BY <1>0, <1>1, <1>3, NetIs DEF Nets
<1>5. TypeOK'  BY <1>0, <1>4 DEF TypeOK, SubscribeAll
<1>6. Subscribes'  BY <1>0, FieldsHold, SubscribeListens DEF Listening
<1>7. Shares'  BY <1>0 DEF Shares, SubscribeAll
<1>9. Flow'  BY <1>0, FlowStays DEF SubscribeAll
<1> QED  BY <1>5, <1>6, <1>7, <1>9 DEF InboxInv

LEMMA HandleSubscribeStep ==
  ASSUME InboxInv, HandleSubscribe
  PROVE  InboxInv'
<1>0. TypeOK /\ Subscribes /\ Shares /\ Flow /\ net.up /\ net.wire # <<>>
  BY DEF InboxInv, HandleSubscribe
<1> DEFINE h == Head(net.wire)  d == Drained(h)
<1>1. /\ h \in SUBSET Groups /\ Tail(net.wire) \in Seq(SUBSET Groups) /\ h = net.wire[1] /\ 1 \in DOMAIN net.wire
      /\ Len(Tail(net.wire)) = Len(net.wire) - 1 /\ DOMAIN Tail(net.wire) = 1..(Len(net.wire) - 1)
      /\ \A i \in DOMAIN Tail(net.wire) : i + 1 \in DOMAIN net.wire /\ Tail(net.wire)[i] = net.wire[i + 1]
      /\ Len(net.wire) \in Nat
  BY <1>0, NetIs, HeadTailSet
<1>2. d \in Seq(GroupRow) /\ ToSet(d) \subseteq past.sent
  <2>1. gq \in Seq(GroupRow) /\ ToSet(gq) \subseteq past.sent  BY <1>0 DEF TypeOK
  <2>2. d \in Seq(GroupRow) /\ ToSet(d) \subseteq ToSet(gq)
    BY <2>1, OfGroupsIs DEF Drained
  <2> QED  BY <2>1, <2>2
<1> HIDE DEF d, h
<1>3. net.frames \o d \in Seq(GroupRow) /\ ToSet(net.frames \o d) = ToSet(net.frames) \cup ToSet(d)
  BY <1>0, <1>2, NetIs, ConcatSet
<1>4. /\ net' \in Nets /\ net'.up = net.up /\ net'.subs = h /\ net'.wire = Tail(net.wire)
      /\ net'.listed = net.listed /\ net'.frames = net.frames \o d
  <2>1. net' = [net EXCEPT !.subs = h, !.wire = Tail(@), !.frames = @ \o d]
    BY DEF HandleSubscribe, h, d
  <2> QED  BY <1>0, <1>1, <1>3, <2>1, NetIs DEF Nets
<1>5. h \subseteq dev.bound  BY <1>0, <1>1 DEF Subscribes
<1>6. ToSet(net'.frames) \subseteq past.sent /\ net'.up
  BY <1>0, <1>2, <1>3, <1>4 DEF TypeOK
<1>7. TypeOK'  BY <1>0, <1>4, <1>5, <1>6 DEF TypeOK, HandleSubscribe
<1>8. Subscribes'  BY <1>0, FieldsHold, HandleListens DEF Listening
<1>9. Shares'  BY <1>0 DEF Shares, HandleSubscribe
<1>11. Flow'  BY <1>0, FlowStays DEF HandleSubscribe
<1> QED  BY <1>7, <1>8, <1>9, <1>11 DEF InboxInv

LEMMA CutStep ==
  ASSUME InboxInv, Cut
  PROVE  InboxInv'
<1>0. TypeOK /\ Subscribes /\ Shares /\ Flow  BY DEF InboxInv
<1>1. Keeps(past') /\ past'.spoilt = past.spoilt /\ past'.keyLost = past.keyLost /\ past'.faulty = past.faulty
  BY <1>0, UpsetKeeps DEF Cut
<1>2. net' = Offline /\ toPush' = NoRow /\ UNCHANGED <<peer, dmq, gq, reg, dev, app, ext>>
  BY DEF Cut
<1>3. TypeOK'  BY <1>0, <1>1, <1>2, NetIs DEF TypeOK, Keeps
<1>4. Subscribes'  BY <1>0, <1>2, NetIs DEF Subscribes
<1>5. Shares'  BY <1>0, <1>1, <1>2 DEF Shares, Keeps
<1>7. Flow'  BY <1>0, <1>1, <1>2, FlowStays DEF Keeps
<1> QED  BY <1>3, <1>4, <1>5, <1>7 DEF InboxInv

LEMMA SleepStep ==
  ASSUME InboxInv, Sleep
  PROVE  InboxInv'
<1>0. TypeOK /\ Subscribes /\ Shares /\ Flow  BY DEF InboxInv
<1>1. Keeps(past') /\ past'.spoilt = past.spoilt /\ past'.keyLost = past.keyLost /\ past'.faulty = past.faulty
  BY <1>0, UpsetKeeps DEF Sleep
<1>2. net' = Offline /\ UNCHANGED <<peer, dmq, gq, toPush, reg, dev, ext>>
  BY DEF Sleep
<1>3. app' \in Apps /\ app'.hand = app.hand /\ ~app'.awake
  BY <1>0 DEF TypeOK, Apps, Sleep
<1>4. TypeOK'  BY <1>0, <1>1, <1>2, <1>3, NetIs DEF TypeOK, Keeps
<1>5. Subscribes'  BY <1>0, <1>2, NetIs DEF Subscribes
<1>6. Shares'  BY <1>0, <1>1, <1>2 DEF Shares, Keeps
<1>8. Flow'  BY <1>0, <1>1, <1>2, <1>3, FlowStays DEF Keeps
<1> QED  BY <1>4, <1>5, <1>6, <1>8 DEF InboxInv

LEMMA WakeStep ==
  ASSUME InboxInv, Wake
  PROVE  InboxInv'
<1>0. TypeOK /\ Subscribes /\ Shares /\ Flow  BY DEF InboxInv
<1>1. app' \in Apps /\ app'.hand = app.hand /\ app'.nudge = app.nudge
  BY <1>0 DEF TypeOK, Apps, Wake
<1>2. /\ Keeps(past') /\ past'.spoilt = past.spoilt /\ past'.keyLost = past.keyLost
      /\ past'.faulty = past.faulty
  BY <1>0, BesideKeeps DEF Wake
<1>3. UNCHANGED <<peer, dmq, gq, toPush, reg, dev, net, ext>>  BY DEF Wake
<1>4. TypeOK'  BY <1>0, <1>1, <1>2, <1>3 DEF TypeOK, Keeps
<1>5. Subscribes'  BY <1>0, <1>1, <1>3 DEF Subscribes, Latest
<1>6. Shares'  BY <1>0, <1>2, <1>3 DEF Shares, Keeps
<1>7. Flow'  BY <1>0, <1>1, <1>2, <1>3, FlowStays DEF Keeps
<1> QED  BY <1>4, <1>5, <1>6, <1>7 DEF InboxInv

----------------------------------------------------------------------------
(* The peer shares its key and sends *)

\* A key that is to come stays so as long as nothing takes it away.
LEMMA ComingStays ==
  ASSUME NEW g \in Groups, NEW i, Coming(g, i), dev'.key[g] = dev.key[g],
         \A p \in {"app", "ext"} : Hand(p)' = Hand(p), Waiting(g) \subseteq Waiting(g)'
  PROVE  Coming(g, i)'
<1>1. AtKey(g)' = AtKey(g) /\ AtKey(g) \subseteq {"app", "ext"}  BY DEF AtKey
<1>2. CASE dev.key[g] # {}  BY <1>2 DEF Coming
<1>3. CASE dev.key[g] = {} /\ AtKey(g) # {}  BY <1>1, <1>3 DEF Coming
<1>4. CASE dev.key[g] = {} /\ AtKey(g) = {}  BY <1>1, <1>4 DEF Coming
<1> QED  BY <1>2, <1>3, <1>4

LEMMA ComingGrows ==
  ASSUME TypeOK, NEW g \in Groups, NEW i \in Nat, NEW j \in Nat, i <= j, Coming(g, i)
  PROVE  Coming(g, j)
<1>1. \A s \in dev.key[g] : s \in Nat  BY DEF TypeOK, Stores
<1>2. \A p \in AtKey(g) : Hand(p).row.iter \in Nat
  <2>1. app.hand \in Hands /\ ext.hand \in Hands  BY DEF TypeOK, Apps, Exts
  <2>2. app.hand.row.iter \in Nat /\ ext.hand.row.iter \in Nat
    BY <2>1, HandParts, RowKinds DEF NoRow, Rows
  <2> QED  BY <2>2 DEF AtKey, Hand
<1>3. \A dm \in Waiting(g) : dm.iter \in Nat
  <2>1. ToSet(dmq) \subseteq Dm  BY SeqSets DEF TypeOK
  <2> QED  BY <2>1, RowKinds DEF Waiting
<1>4. CASE dev.key[g] # {}  BY <1>1, <1>4 DEF Coming
<1>5. CASE dev.key[g] = {} /\ AtKey(g) # {}  BY <1>2, <1>5 DEF Coming
<1>6. CASE dev.key[g] = {} /\ AtKey(g) = {}  BY <1>3, <1>6 DEF Coming
<1> QED  BY <1>4, <1>5, <1>6

LEMMA DistributeStep ==
  ASSUME InboxInv, NEW outcome \in Outcomes, DistributeSenderKey(outcome)
  PROVE  InboxInv'
<1>0. TypeOK /\ Subscribes /\ Shares /\ Flow  BY DEF InboxInv
<1>20. peer.group \in Groups  BY <1>0 DEF TypeOK, DistributeSenderKey
<1> PICK g \in Groups : g = peer.group  BY <1>20
<1> DEFINE p == IF g \in peer.knows THEN EnsureSession(peer) ELSE peer
           owed == g \in p.knows /\ g \notin p.shared
           out == owed /\ outcome # "failed"
           q == IF outcome = "sent" THEN past ELSE Faulty
           s == IF owed /\ outcome = "sent" THEN p.shared \cup {g} ELSE p.shared
           row == Row(past.dms + 1, "key", g, peer.chain[g])
<1>1. /\ peer.at = "distribute" /\ UNCHANGED <<gq, toPush, reg, dev, net, app, ext>>
      /\ peer' = [p EXCEPT !.at = "endorse", !.saw = reg, !.shared = s]
      /\ dmq' = IF out THEN Append(dmq, row) ELSE dmq
      /\ past' = IF out THEN [q EXCEPT !.dms = @ + 1, !.keyed = @ \cup {<<g, reg>>}] ELSE q
  <2>1. IF out THEN dmq' = Append(dmq, row) ELSE dmq' = dmq
    BY DEF DistributeSenderKey, EnqueueDm
  <2>2. peer' = [p EXCEPT !.at = "endorse", !.saw = reg,
                          !.shared = IF owed /\ outcome = "sent" THEN @ \cup {g} ELSE @]
    BY DEF DistributeSenderKey
  <2>3. p \in Peers  BY <1>0, PeerIs DEF TypeOK
  <2>4. peer' = [p EXCEPT !.at = "endorse", !.saw = reg, !.shared = s]
    <3> HIDE DEF p, owed
    <3> QED  BY <2>2, <2>3 DEF Peers
  <2> QED  BY <2>1, <2>4 DEF DistributeSenderKey
<1>2. g \in Groups /\ g = peer.group  OBVIOUS
<1>3. /\ p \in Peers /\ p.chain = peer.chain /\ p.knows = peer.knows /\ p.session \in 0..reg
      /\ p.group = g /\ p.shared \subseteq p.knows /\ p.shared \subseteq Groups
      /\ reg = 1 => p.shared = peer.shared
  <2>1. peer \in Peers /\ peer.session \in 0..reg /\ peer.shared \subseteq peer.knows
    BY <1>0 DEF TypeOK
  <2>2. reg \in Nat /\ reg >= 1 /\ peer.shared \subseteq Groups  BY <1>0, PeerIs
  <2>3. reg = 1 => peer.session \in {0, reg}  BY <2>1, <2>2
  <2>4. CASE g \in peer.knows
    <3>1. p = EnsureSession(peer)  BY <2>4
    <3> HIDE DEF p
    <3> QED  BY <1>0, <2>1, <2>2, <2>3, <3>1, PeerIs
  <2>5. CASE g \notin peer.knows
    BY <2>1, <2>2, <2>5
  <2> QED  BY <2>4, <2>5
<1> HIDE DEF p
<1>4. s \subseteq p.knows /\ s \subseteq Groups  BY <1>2, <1>3
<1> HIDE DEF s
<1>5. /\ peer' \in Peers /\ peer'.chain = peer.chain /\ peer'.knows = peer.knows /\ peer'.group = g
      /\ peer'.shared = s /\ peer'.at = "endorse" /\ peer'.session \in 0..reg /\ peer'.saw = reg
  BY <1>0, <1>1, <1>3, <1>4, PeerIs DEF Peers
<1>6. /\ Keeps(q) /\ q.spoilt = past.spoilt /\ q.keyLost = past.keyLost
      /\ outcome = "sent" => q.faulty = past.faulty
      /\ outcome # "sent" => q.faulty
  <2>1. Keeps(past)  BY <1>0 DEF TypeOK, Keeps
  <2> QED  BY <1>0, <2>1, FaultKeeps
<1> HIDE DEF q
<1>7. reg \in Nat /\ reg >= 1 /\ peer.chain \in [Groups -> Nat]  BY <1>0, PeerIs
<1>8. toPush = NoRow  BY <1>0, <1>1 DEF TypeOK
<1>9. Subscribes'  BY <1>0, <1>1 DEF Subscribes, Latest
<1>11. CASE ~out
  <2>1. dmq' = dmq /\ past' = q  BY <1>1, <1>11
  <2>2. TypeOK'
    BY <1>0, <1>1, <1>3, <1>4, <1>5, <1>6, <1>7, <1>8, <2>1 DEF TypeOK, Keeps
  <2>3. Shares'
    <3> SUFFICES ASSUME reg = 1, ~q.faulty
                 PROVE  /\ past.keyless = {} /\ \A x \in s : <<x, 1>> \in past.keyed
                        /\ g \in peer.knows => g \in s
      BY <1>1, <1>5, <1>6, <2>1 DEF Shares, Keeps
    <3>1. outcome = "sent" /\ ~past.faulty /\ ~owed  BY <1>6, <1>11
    <3>2. s = peer.shared /\ (g \in peer.knows => g \in s)  BY <1>3, <3>1 DEF s
    <3> QED  BY <1>0, <3>1, <3>2 DEF Shares
  <2>4. Flow'
    BY <1>0, <1>1, <1>5, <1>6, <2>1, FlowStays DEF Keeps
  <2> QED  BY <1>9, <2>2, <2>3, <2>4 DEF InboxInv
<1>12. CASE out
  <2>1. dmq' = Append(dmq, row) /\ past' = [q EXCEPT !.dms = @ + 1, !.keyed = @ \cup {<<g, reg>>}]
    BY <1>1, <1>12
  <2>2. g \in peer.knows /\ g \notin p.shared  BY <1>3, <1>12
  <2> HIDE DEF out, owed
  <2>3. /\ past' \in Pasts /\ past'.sent = past.sent /\ past'.dms = past.dms + 1 /\ past'.joined = past.joined
        /\ past'.keyed = past.keyed \cup {<<g, reg>>} /\ past'.keyless = past.keyless
        /\ past'.unshared = past.unshared /\ past'.spoilt = past.spoilt /\ past'.keyLost = past.keyLost
        /\ past'.faulty = q.faulty /\ past.shadowed \subseteq past'.shadowed
        /\ past.overtaken \subseteq past'.overtaken /\ past.raced \subseteq past'.raced
    <3>1. q \in Pasts /\ q.dms + 1 \in Nat /\ q.keyed \cup {<<g, reg>>} \in SUBSET (Groups \X Nat)
      BY <1>2, <1>6, <1>7 DEF Keeps, Pasts
    <3> QED  BY <1>6, <2>1, <3>1 DEF Keeps, Pasts
  <2>4. past.dms \in Nat /\ row \in Dm /\ row.id = past.dms + 1 /\ row.kind = "key" /\ row.group = g
        /\ row.iter = peer.chain[g] /\ peer.chain[g] \in Nat
    <3>1. past.dms \in Nat /\ peer.chain[g] \in Nat /\ past.dms + 1 \in Nat
      BY <1>0, <1>2, <1>7 DEF TypeOK, Pasts
    <3> QED  BY <1>2, <3>1, RowKinds DEF Row
  <2> HIDE DEF row
  <2>5. /\ dmq' \in Seq(Dm) /\ ToSet(dmq') = ToSet(dmq) \cup {row} /\ DOMAIN dmq' = 1..(Len(dmq) + 1)
        /\ \A i \in DOMAIN dmq : dmq'[i] = dmq[i]
        /\ dmq'[Len(dmq) + 1] = row
        /\ DOMAIN dmq = 1..Len(dmq) /\ Len(dmq) \in Nat /\ \A i \in DOMAIN dmq : dmq[i] \in ToSet(dmq)
        /\ ToSet(dmq) \subseteq Dm
    <3>1. dmq \in Seq(Dm)  BY <1>0 DEF TypeOK
    <3> QED  BY <2>1, <2>4, <3>1, AppendSet, SeqSets
  <2>6. \A i \in DOMAIN dmq' : i \in DOMAIN dmq \/ i = Len(dmq) + 1  BY <2>5
  <2>7. TypeOK'
    <3>1. dev.opened \subseteq 1..(past.dms + 1)  BY <1>0, <2>4 DEF TypeOK
    <3> QED  BY <1>0, <1>1, <1>3, <1>4, <1>5, <1>7, <1>8, <2>3, <2>5, <3>1 DEF TypeOK
  <2>8. Shares'
    <3> SUFFICES ASSUME reg = 1, ~q.faulty
                 PROVE  /\ past.keyless = {} /\ \A x \in s : <<x, 1>> \in past.keyed \cup {<<g, reg>>}
                        /\ g \in s
      BY <1>1, <1>5, <2>3 DEF Shares
    <3>1. outcome = "sent" /\ ~past.faulty  BY <1>6
    <3>2. s = peer.shared \cup {g}  BY <1>3, <1>12, <3>1 DEF s, out
    <3> QED  BY <1>0, <3>1, <3>2 DEF Shares
  <2>9. /\ Known \subseteq Known' /\ Handled \subseteq Handled' /\ Safe \subseteq Safe'
        /\ Gone \subseteq Gone'
    BY <1>1, <2>3, <2>4, RowKinds DEF Known, Held, Handled, Gone, Safe
  <2>10. HandFits(app.hand)' /\ HandFits(ext.hand)'
    BY <1>0, <1>1, <2>3, <2>9 DEF Flow, HandFits
  <2>11. ExtFits'  BY <1>0, <1>1, <2>3 DEF Flow, ExtFits
  <2>12. ExtDms'
    <3>1. ASSUME ext.at = "dms", NEW n \in DOMAIN ext.left  PROVE ~(row.id < ext.left[n].id)
      <4>1. ext.left[n] \in ToSet(ext.left)  BY DEF ToSet
      <4>2. ext.left[n] \in ToSet(dmq) \/ ext.left[n].id \in dev.opened
        BY <1>0, <3>1, <4>1 DEF Flow, ExtDms
      <4>3. ext.left[n].id \in 1..past.dms  BY <1>0, <4>2 DEF Flow, DmqFits, ToSet, TypeOK
      <4> QED  BY <2>4, <4>3
    <3> QED  BY <1>0, <1>1, <2>5, <3>1 DEF Flow, ExtDms
  <2>13. StoreFits'  BY <1>0, <1>1, <2>3, <2>9 DEF Flow, StoreFits
  <2>14. DmqFits'
    <3>1. \A i \in DOMAIN dmq' : dmq'[i].id \in 1..past'.dms
      BY <1>0, <2>3, <2>4, <2>5, <2>6 DEF Flow, DmqFits
    <3>2. \A i, j \in DOMAIN dmq' : i < j => i \in DOMAIN dmq /\ (j \in DOMAIN dmq \/ j = Len(dmq) + 1)
      BY <2>5
    <3>3. \A i, j \in DOMAIN dmq' : i < j => dmq'[i].id < dmq'[j].id
      <4> SUFFICES ASSUME NEW i \in DOMAIN dmq', NEW j \in DOMAIN dmq', i < j
                   PROVE  dmq'[i].id < dmq'[j].id
        OBVIOUS
      <4>1. dmq[i].id \in 1..past.dms /\ dmq'[i] = dmq[i]  BY <1>0, <2>5, <3>2 DEF Flow, DmqFits
      <4>2. CASE j \in DOMAIN dmq  BY <1>0, <2>5, <3>2, <4>2 DEF Flow, DmqFits
      <4>3. CASE j = Len(dmq) + 1  BY <2>4, <2>5, <4>1, <4>3
      <4> QED  BY <3>2, <4>2, <4>3
    <3>4. ASSUME NEW i \in DOMAIN dmq', NEW j \in DOMAIN dmq', i < j, dmq'[i].kind = "key",
                 dmq'[j].kind = "key", dmq'[i].group = dmq'[j].group
          PROVE  dmq'[i].iter <= dmq'[j].iter
      <4>1. CASE j \in DOMAIN dmq  BY <1>0, <2>5, <3>2, <3>4, <4>1 DEF Flow, DmqFits
      <4>2. CASE j = Len(dmq) + 1
        BY <1>0, <2>4, <2>5, <3>2, <3>4, <4>2 DEF Flow, KeysFit
      <4> QED  BY <3>2, <3>4, <4>1, <4>2
    <3> QED  BY <3>1, <3>3, <3>4 DEF DmqFits
  <2>15. \A h \in {"app", "ext"} : Hand(h)' = Hand(h)  BY <1>1 DEF Hand
  <2>16. KeysFit'
    <3>1. \A i \in DOMAIN dmq' : dmq'[i].kind = "key" => dmq'[i].iter <= peer'.chain[dmq'[i].group]
      BY <1>0, <1>5, <2>4, <2>5, <2>6 DEF Flow, KeysFit
    <3>2. \A x \in past'.keyed : x[2] <= reg  BY <1>0, <1>7, <2>3 DEF Flow, KeysFit
    <3> QED  BY <1>0, <1>1, <1>5, <2>15, <3>1, <3>2 DEF Flow, KeysFit
  <2>17. ASSUME NEW x \in Groups, NEW i, Coming(x, i)  PROVE Coming(x, i)'
    <3>1. Waiting(x) \subseteq Waiting(x)'  BY <1>1, <2>5 DEF Waiting
    <3> QED  BY <1>1, <2>15, <2>17, <3>1, ComingStays
  <2>18. ASSUME NEW i \in Nat, i = peer.chain[g]  PROVE Coming(g, i)'
    <3>1. row \in Waiting(g)'
      <4>1. row.id \notin dev.opened  BY <1>0, <2>4 DEF TypeOK
      <4> QED  BY <1>1, <2>4, <2>5, <4>1 DEF Waiting
    <3>2. CASE dev.key[g] # {}
      BY <1>0, <1>1, <2>18, <3>2 DEF Flow, KeysFit, Coming
    <3>3. CASE dev.key[g] = {} /\ AtKey(g)' # {}
      <4>1. \E h \in AtKey(g)' : Hand(h)'.row.iter <= i
        BY <1>0, <2>15, <2>18, <3>3 DEF Flow, KeysFit, AtKey
      <4> QED  BY <1>1, <3>3, <4>1 DEF Coming
    <3>4. CASE dev.key[g] = {} /\ AtKey(g)' = {}
      <4>1. row.iter <= i  BY <2>4, <2>18
      <4> QED  BY <1>1, <3>1, <3>4, <4>1 DEF Coming
    <3> QED  BY <3>2, <3>3, <3>4
  <2>19. KeysCome'
    <3> SUFFICES ASSUME ~past.keyLost, NEW x \in Groups, NEW i \in Nat, Due(x, i)'
                 PROVE  Coming(x, i)'
      BY <2>3 DEF KeysCome
    <3>1. CASE x = g /\ i = peer.chain[g]  BY <2>18, <3>1
    <3>2. CASE ~(x = g /\ i = peer.chain[g])
      <4>1. Due(x, i)  BY <1>1, <1>5, <2>3, <2>9, <3>2 DEF Due
      <4>2. Coming(x, i)  BY <1>0, <4>1 DEF Flow, KeysCome
      <4> QED  BY <2>17, <4>2
    <3> QED  BY <3>1, <3>2
  <2>20. Awaits'  BY <1>0, <1>1, <2>3 DEF Flow, Awaits, Opens
  <2>21. Safely'  BY <1>0, <1>1, <2>3, <2>9 DEF Flow, Safely
  <2>22. Flow'
    BY <2>10, <2>11, <2>12, <2>13, <2>14, <2>16, <2>19, <2>20, <2>21 DEF Flow
  <2> QED  BY <1>9, <2>7, <2>8, <2>22 DEF InboxInv
<1> QED  BY <1>11, <1>12

LEMMA FanOutStep ==
  ASSUME InboxInv, FanOut
  PROVE  InboxInv'
<1>0. TypeOK /\ Subscribes /\ Shares /\ Flow  BY DEF InboxInv
<1>1. peer.group \in Groups /\ peer.chain \in [Groups -> Nat]  BY <1>0, PeerIs DEF TypeOK, FanOut
<1> PICK g \in Groups : g = peer.group  BY <1>1
<1> PICK i \in Nat : i = peer.chain[g]  BY <1>1
<1> DEFINE row == Row(FirstRow + Cardinality(past.sent), "group", g, i)
           open == <<g, reg>> \in past.keyed
           ks == IF open THEN past.keyless ELSE past.keyless \cup {row}
           us == IF open \/ peer.saw # reg THEN past.unshared ELSE past.unshared \cup {row}
           at == IF g \in dev.bound THEN "push" ELSE "idle"
<1>2. /\ peer.at = "endorse" /\ g \in peer.knows /\ UNCHANGED <<dmq, reg, dev, net, app, ext>>
      /\ peer' = [EnsureSession(peer) EXCEPT !.chain[g] = @ + 1, !.at = at]
      /\ g \notin dev.bound => UNCHANGED <<gq, toPush, past>>
      /\ g \in dev.bound =>
            /\ gq' = Append(gq, row) /\ toPush' = row
            /\ past' = [past EXCEPT !.sent = @ \cup {row}, !.keyless = ks, !.unshared = us]
  <2>1. past \in Pasts  BY <1>0 DEF TypeOK
  <2>2. [past EXCEPT !.sent = @ \cup {row}, !.keyless = IF open THEN @ ELSE @ \cup {row},
                     !.unshared = IF open \/ peer.saw # reg THEN @ ELSE @ \cup {row}]
        = [past EXCEPT !.sent = @ \cup {row}, !.keyless = ks, !.unshared = us]
    <3> HIDE DEF open, row
    <3> QED  BY <2>1 DEF Pasts
  <2> QED  BY <2>2 DEF FanOut
<1> HIDE DEF ks, us, open
<1>3. /\ peer' \in Peers /\ peer'.knows = peer.knows /\ peer'.group = g /\ peer'.at = at
      /\ peer'.shared = EnsureSession(peer).shared /\ peer'.session = reg /\ peer'.saw = peer.saw
      /\ peer'.chain = [peer.chain EXCEPT ![g] = i + 1]
  <2>1. [peer.chain EXCEPT ![g] = i + 1] \in [Groups -> Nat]  BY <1>1
  <2>2. peer' = [EnsureSession(peer) EXCEPT !.chain = [peer.chain EXCEPT ![g] = i + 1], !.at = at]
    BY <1>0, <1>2, PeerIs DEF Peers
  <2>3. at \in {"push", "idle"}  OBVIOUS
  <2> HIDE DEF at
  <2> QED  BY <1>0, <2>1, <2>2, <2>3, PeerIs DEF Peers
<1>4. /\ reg \in Nat /\ reg >= 1 /\ peer'.shared \subseteq peer.shared /\ (reg = 1 => peer'.shared = peer.shared)
  BY <1>0, <1>3, PeerIs DEF TypeOK
<1>5. \A x \in Groups : peer.chain[x] \in Nat /\ peer'.chain[x] \in Nat /\ peer.chain[x] <= peer'.chain[x]
  BY <1>1, <1>3
<1>6. peer'.chain[g] = i + 1 /\ \A x \in Groups : x # g => peer'.chain[x] = peer.chain[x]
  BY <1>1, <1>3
<1>7. toPush = NoRow  BY <1>0, <1>2 DEF TypeOK
<1>8. Subscribes'  BY <1>0, <1>2 DEF Subscribes, Latest
<1>10. \A h \in {"app", "ext"} : Hand(h)' = Hand(h)  BY <1>2 DEF Hand
<1>18. past'.keyed = past.keyed /\ past'.dms = past.dms /\ past'.raced = past.raced
  <2>1. past \in Pasts  BY <1>0 DEF TypeOK
  <2>2. CASE g \in dev.bound
    <3>1. past' = [past EXCEPT !.sent = @ \cup {row}, !.keyless = ks, !.unshared = us]
      BY <1>2, <2>2
    <3> QED  BY <2>1, <3>1 DEF Pasts
  <2>3. CASE g \notin dev.bound  BY <1>2, <2>3
  <2> QED  BY <2>2, <2>3
<1>11. KeysFit'
  <2>1. /\ \A n \in DOMAIN dmq : dmq[n].kind = "key" => dmq[n].group \in Groups /\ dmq[n].iter \in Nat
        /\ \A h \in {"app", "ext"} : Hand(h).at = "key" => Hand(h).row.group \in Groups /\ Hand(h).row.iter \in Nat
        /\ \A x \in Groups : \A n \in dev.key[x] : n \in Nat
    <3>1. dmq \in Seq(Dm) /\ app.hand \in Hands /\ ext.hand \in Hands
      BY <1>0 DEF TypeOK, Apps, Exts
    <3>2. app.hand.row \in Rows \cup {NoRow} /\ ext.hand.row \in Rows \cup {NoRow}
      BY <3>1, HandParts
    <3>3. /\ app.hand.at = "key" => app.hand.row.kind = "key"
          /\ ext.hand.at = "key" => ext.hand.row.kind = "key"
      BY <1>0 DEF Flow, HandFits
    <3>4. \A r \in Rows \cup {NoRow} : r.kind = "key" => r.group \in Groups /\ r.iter \in Nat
      BY RowKinds DEF Rows
    <3>5. \A h \in {"app", "ext"} : Hand(h).at = "key" => Hand(h).row.group \in Groups /\ Hand(h).row.iter \in Nat
      BY <3>2, <3>3, <3>4 DEF Hand
    <3>6. \A n \in DOMAIN dmq : dmq[n].kind = "key" => dmq[n].group \in Groups /\ dmq[n].iter \in Nat
      BY <3>1, RowKinds
    <3> QED  BY <1>0, <3>5, <3>6 DEF TypeOK, Stores
  <2>2. past'.keyed = past.keyed  BY <1>18
  <2>3. \A n \in DOMAIN dmq : dmq[n].kind = "key" => dmq[n].iter <= peer'.chain[dmq[n].group]
    BY <1>0, <1>5, <2>1 DEF Flow, KeysFit
  <2>4. \A h \in {"app", "ext"} : Hand(h).at = "key" => Hand(h).row.iter <= peer'.chain[Hand(h).row.group]
    BY <1>0, <1>5, <2>1 DEF Flow, KeysFit
  <2>5. \A x \in Groups : \A n \in dev.key[x] : n <= peer'.chain[x]
    BY <1>0, <1>5, <2>1 DEF Flow, KeysFit
  <2>6. \A x \in past.keyed : x[2] <= reg  BY <1>0 DEF Flow, KeysFit
  <2> QED  BY <1>2, <1>10, <2>2, <2>3, <2>4, <2>5, <2>6 DEF KeysFit
<1>12. ASSUME NEW x \in Groups, NEW n, Coming(x, n)  PROVE Coming(x, n)'
  <2>1. Waiting(x) \subseteq Waiting(x)'  BY <1>2 DEF Waiting
  <2> QED  BY <1>2, <1>10, <1>12, <2>1, ComingStays
<1>13. ASSUME ~past.keyLost, open  PROVE Coming(g, i) /\ Coming(g, i + 1)
  <2>1. Coming(g, i)
    <3>1. Due(g, i)  BY <1>13 DEF Due, open
    <3> QED  BY <1>0, <1>13, <3>1 DEF Flow, KeysCome
  <2>2. i + 1 \in Nat /\ i <= i + 1  OBVIOUS
  <2> QED  BY <1>0, <2>1, <2>2, ComingGrows
<1>14. DmqFits' /\ ExtDms' /\ Awaits'
  <2> QED  BY <1>0, <1>2, <1>18 DEF Flow, DmqFits, ExtDms, Awaits, Opens
<1>15. reg = 1 /\ ~past.faulty => open
  BY <1>0, <1>2 DEF Shares, open
<1>16. CASE g \notin dev.bound
  <2>1. UNCHANGED <<gq, toPush, past>> /\ peer'.at = "idle"  BY <1>2, <1>3, <1>16
  <2>2. TypeOK'  BY <1>0, <1>2, <1>3, <1>4, <2>1 DEF TypeOK
  <2>3. Shares'  BY <1>0, <1>2, <1>4, <2>1 DEF Shares
  <2>4. Known' = Known /\ Handled' = Handled /\ Safe' = Safe
    BY <1>2, <2>1 DEF Known, Held, Handled, Gone, Safe
  <2>5. HandFits(app.hand)' /\ HandFits(ext.hand)' /\ ExtFits' /\ StoreFits' /\ Safely'
    BY <1>0, <1>2, <2>1, <2>4 DEF Flow, HandFits, ExtFits, StoreFits, Safely
  <2>6. KeysCome'
    <3> SUFFICES ASSUME ~past.keyLost, NEW x \in Groups, NEW n \in Nat, Due(x, n)'
                 PROVE  Coming(x, n)'
      BY <2>1 DEF KeysCome
    <3>1. CASE x = g /\ n = i + 1 /\ open
      BY <1>12, <1>13, <3>1
    <3>2. CASE ~(x = g /\ n = i + 1 /\ open)
      <4>1. Due(x, n)
        <5>1. Gone' = Gone  BY <2>1 DEF Gone
        <5> QED  BY <1>2, <1>6, <2>1, <3>2, <5>1 DEF Due, open
      <4>2. Coming(x, n)  BY <1>0, <4>1 DEF Flow, KeysCome
      <4> QED  BY <1>12, <4>2
    <3> QED  BY <3>1, <3>2
  <2>7. Flow'  BY <1>11, <1>14, <2>5, <2>6 DEF Flow
  <2> QED  BY <1>8, <2>2, <2>3, <2>7 DEF InboxInv
<1>17. CASE g \in dev.bound
  <2>0. /\ gq' = Append(gq, row) /\ toPush' = row /\ peer'.at = "push"
        /\ past' = [past EXCEPT !.sent = @ \cup {row}, !.keyless = ks, !.unshared = us]
    BY <1>2, <1>3, <1>17
  <2>1. /\ row \in GroupRow /\ row.id = FirstRow + Cardinality(past.sent) /\ row.group = g /\ row.iter = i
        /\ Cardinality(past.sent) \in Nat /\ FirstRow \in Nat
    <3>1. Cardinality(past.sent) \in Nat /\ FirstRow \in Nat
      BY <1>0, BoundsAssumption, FS_CardinalityType DEF TypeOK
    <3>2. FirstRow + Cardinality(past.sent) \in Nat  BY <3>1
    <3> QED  BY <3>1, <3>2, RowKinds DEF Row
  <2> HIDE DEF row
  <2>2. /\ past.sent \subseteq GroupRow /\ past.keyless \subseteq past.sent /\ past.unshared \subseteq past.keyless
        /\ IsFiniteSet(past.sent) /\ past \in Pasts
    BY <1>0 DEF TypeOK, Pasts
  <2>3. row \notin past.sent /\ \A a \in past.sent : a.id < row.id
    BY <1>0, <2>1, <2>2, RowKinds DEF Flow, StoreFits
  <2>4. /\ IsFiniteSet(past.sent \cup {row})
        /\ Cardinality(past.sent \cup {row}) = Cardinality(past.sent) + 1
    BY <2>2, <2>3, FS_AddElement
  <2>5. /\ ks \subseteq past.sent \cup {row} /\ us \subseteq ks /\ past.keyless \subseteq ks
        /\ (open => ks = past.keyless) /\ (row \notin ks => open)
    BY <2>2, <2>3 DEF ks, us
  <2>6. /\ past' \in Pasts /\ past'.sent = past.sent \cup {row} /\ past'.dms = past.dms
        /\ past'.joined = past.joined /\ past'.keyed = past.keyed /\ past'.keyless = ks /\ past'.unshared = us
        /\ past'.spoilt = past.spoilt /\ past'.keyLost = past.keyLost /\ past'.faulty = past.faulty
        /\ past'.shadowed = past.shadowed /\ past'.overtaken = past.overtaken
    <3>1. /\ past.sent \cup {row} \in SUBSET GroupRow /\ ks \in SUBSET GroupRow /\ us \in SUBSET GroupRow
      BY <2>1, <2>2, <2>5
    <3> QED  BY <2>0, <2>2, <3>1 DEF Pasts
  <2>7. /\ gq' \in Seq(GroupRow) /\ ToSet(gq') = ToSet(gq) \cup {row}
    BY <1>0, <2>0, <2>1, AppendSet DEF TypeOK
  <2>8. TypeOK'
    <3>1. /\ {peer'.session, peer'.saw} \subseteq 0..reg /\ peer'.shared \subseteq peer'.knows
          /\ peer'.knows \subseteq past'.joined /\ peer'.group \in Groups
      BY <1>0, <1>3, <1>4, <2>6 DEF TypeOK
    <3>2. /\ toPush' \in GroupRow /\ toPush' \in past'.sent
          /\ past'.unshared \subseteq past'.keyless /\ past'.keyless \subseteq past'.sent
          /\ IsFiniteSet(past'.sent)
      BY <2>0, <2>1, <2>4, <2>5, <2>6
    <3>3. /\ ToSet(gq') \subseteq past'.sent /\ dev.used \subseteq past'.sent
          /\ ToSet(net.frames) \subseteq past'.sent
      BY <1>0, <2>6, <2>7 DEF TypeOK
    <3> QED  BY <1>0, <1>2, <1>3, <2>0, <2>6, <2>7, <3>1, <3>2, <3>3 DEF TypeOK
  <2>9. Shares'
    BY <1>0, <1>2, <1>4, <1>15, <2>0, <2>5, <2>6 DEF Shares
  <2>10. /\ Known \subseteq Known' /\ Handled \subseteq Handled' /\ Safe \subseteq Safe'
         /\ Gone \subseteq Gone' /\ (row \notin Gone' => row \notin ks)
    BY <1>2, <2>5, <2>6 DEF Known, Held, Handled, Gone, Safe
  <2>11. HandFits(app.hand)' /\ HandFits(ext.hand)'
    BY <1>0, <1>2, <2>6, <2>10 DEF Flow, HandFits
  <2>12. ExtFits'  BY <1>0, <1>2, <2>6 DEF Flow, ExtFits
  <2>13. StoreFits'
    <3>1. \A a, b \in past.sent \cup {row} : a.id = b.id => a = b
      BY <1>0, <2>1, <2>2, <2>3, RowKinds DEF Flow, StoreFits
    <3>2. \A a \in past.sent \cup {row} :
             FirstRow <= a.id /\ a.id < FirstRow + (Cardinality(past.sent) + 1)
      BY <1>0, <2>1, <2>2, <2>3, RowKinds DEF Flow, StoreFits
    <3>3. ToSet(dev.buffer) \subseteq past.sent \cup {row} /\ dev.history \subseteq Known'
      BY <1>0, <2>10 DEF Flow, StoreFits
    <3> QED  BY <1>2, <2>4, <2>6, <3>1, <3>2, <3>3 DEF StoreFits
  <2>14. KeysCome'
    <3> SUFFICES ASSUME ~past.keyLost, NEW x \in Groups, NEW n \in Nat, Due(x, n)'
                 PROVE  Coming(x, n)'
      BY <2>6 DEF KeysCome
    <3>1. CASE x = g /\ n \in {i, i + 1} /\ open
      BY <1>12, <1>13, <3>1
    <3>2. CASE ~(x = g /\ n \in {i, i + 1} /\ open)
      <4>1. Due(x, n)
        <5>1. CASE <<x, reg>> \in past.keyed /\ n = peer'.chain[x]
          <6>1. x # g  BY <1>6, <3>2, <5>1 DEF open
          <6> QED  BY <1>6, <5>1, <6>1 DEF Due
        <5>2. CASE \E r \in past'.sent \ Gone' : r.group = x /\ r.iter = n
          <6>1. PICK r \in past'.sent \ Gone' : r.group = x /\ r.iter = n
            BY <5>2
          <6>2. r # row  BY <2>1, <2>5, <2>10, <3>2, <6>1
          <6> QED  BY <2>6, <2>10, <6>1, <6>2 DEF Due
        <5> QED  BY <1>2, <2>6, <5>1, <5>2 DEF Due
      <4>2. Coming(x, n)  BY <1>0, <4>1 DEF Flow, KeysCome
      <4> QED  BY <1>12, <4>2
    <3> QED  BY <3>1, <3>2
  <2>15. Safely'
    BY <1>0, <1>2, <2>6, <2>7, <2>10 DEF Flow, Safely
  <2>16. Flow'  BY <1>11, <1>14, <2>11, <2>12, <2>13, <2>14, <2>15 DEF Flow
  <2> QED  BY <1>8, <2>8, <2>9, <2>16 DEF InboxInv
<1> QED  BY <1>16, <1>17

----------------------------------------------------------------------------
(* Rows leave the queues, processes die *)

LEMMA QueueShrinks ==
  ASSUME TypeOK, DmqFits, KeysFit, NEW rows, dmq' = Without(dmq, rows), past'.dms = past.dms
  PROVE  /\ dmq' \in Seq(Dm) /\ ToSet(dmq') = ToSet(dmq) \ rows /\ DmqFits'
         /\ \A i \in DOMAIN dmq' : dmq'[i].kind = "key" => dmq'[i].iter <= peer.chain[dmq'[i].group]
<1>1. dmq \in Seq(Dm)  BY DEF TypeOK
<1>2. /\ dmq' \in Seq(Dm) /\ ToSet(dmq') = ToSet(dmq) \ rows
      /\ \A i, j \in DOMAIN dmq' : i < j =>
            \E a, b \in DOMAIN dmq : a < b /\ dmq'[i] = dmq[a] /\ dmq'[j] = dmq[b]
  BY <1>1, WithoutIs
<1>3. ASSUME NEW i \in DOMAIN dmq'  PROVE \E a \in DOMAIN dmq : dmq'[i] = dmq[a]
  <2>1. dmq'[i] \in ToSet(dmq')  BY DEF ToSet
  <2> QED  BY <1>2, <2>1 DEF ToSet
<1>4. ASSUME NEW i \in DOMAIN dmq', NEW j \in DOMAIN dmq', i < j
      PROVE  /\ dmq'[i].id < dmq'[j].id
             /\ dmq'[i].kind = "key" /\ dmq'[j].kind = "key" /\ dmq'[i].group = dmq'[j].group
                   => dmq'[i].iter <= dmq'[j].iter
  <2>1. PICK a \in DOMAIN dmq, b \in DOMAIN dmq : a < b /\ dmq'[i] = dmq[a] /\ dmq'[j] = dmq[b]
    BY <1>2, <1>4
  <2> QED  BY <2>1 DEF DmqFits
<1>5. DmqFits'
  BY <1>3, <1>4 DEF DmqFits
<1>6. \A i \in DOMAIN dmq' : dmq'[i].kind = "key" => dmq'[i].iter <= peer.chain[dmq'[i].group]
  BY <1>3 DEF KeysFit
<1> QED  BY <1>2, <1>5, <1>6

\* The extension turns to the next of what it has polled.
LEMMA ExtMoves ==
  ASSUME InboxInv, UNCHANGED <<peer, toPush, reg, dev, net, app>>, Keeps(past'),
         past'.spoilt = past.spoilt, past'.keyLost = past.keyLost, past'.faulty = past.faulty,
         ext' \in Exts, ext'.at \notin {"idle", "failed"} \/ ext' = Asleep,
         dmq' \in Seq(Dm), ToSet(dmq') \subseteq ToSet(dmq), DmqFits',
         \A dm \in ToSet(dmq) : dm.id \in dev.opened \/ dm \in ToSet(dmq'),
         gq' \in Seq(GroupRow), ToSet(gq') \subseteq ToSet(gq),
         ~past.keyLost => past.sent \subseteq ToSet(gq') \cup Safe,
         HandFits(ext.hand)', ExtFits', ExtDms',
         ext.hand.at # "key", ext'.hand.at # "key",
         ToSet(ext'.hand.save) \cup ToSet(ext'.got) = ToSet(ext.hand.save) \cup ToSet(ext.got),
         ext'.at = "rows" => ToSet(ext'.batch) \subseteq ToSet(ext'.left)
  PROVE  InboxInv'
<1>0. TypeOK /\ Subscribes /\ Shares /\ Flow  BY DEF InboxInv
<1>1. TypeOK'
  <2>1. ToSet(gq') \subseteq past.sent /\ (ext'.at = "idle" => ext' = Asleep)  BY <1>0 DEF TypeOK
  <2> QED  BY <1>0, <2>1 DEF TypeOK, Keeps
<1>2. Subscribes' /\ Shares'  BY <1>0 DEF Subscribes, Latest, Shares, Keeps
<1>3. Known' = Known /\ Held' = Held /\ Gone \subseteq Gone'
  BY GoneGrows DEF Known, Held, Keeps
<1>4. Handled \subseteq Handled' /\ Safe \subseteq Safe'  BY <1>3 DEF Handled, Safe
<1>5. HandFits(app.hand)' /\ StoreFits'  BY <1>0, <1>3 DEF Flow, HandFits, StoreFits, Keeps
<1>6. KeysFit'
  <2>1. ASSUME NEW i \in DOMAIN dmq', dmq'[i].kind = "key"  PROVE dmq'[i].iter <= peer.chain[dmq'[i].group]
    <3>1. dmq'[i] \in ToSet(dmq)  BY DEF ToSet
    <3>2. PICK j \in DOMAIN dmq : dmq'[i] = dmq[j]  BY <3>1 DEF ToSet
    <3> QED  BY <1>0, <2>1, <3>2 DEF Flow, KeysFit
  <2> QED  BY <1>0, <2>1 DEF Flow, KeysFit, Hand, Keeps
<1>7. ASSUME NEW g \in Groups, NEW i, Coming(g, i)  PROVE Coming(g, i)'
  <2>1. AtKey(g)' = AtKey(g) /\ AtKey(g) \subseteq {"app"} /\ Hand("app")' = Hand("app")
    BY DEF AtKey, Hand
  <2>2. Waiting(g) \subseteq Waiting(g)'  BY DEF Waiting
  <2>3. CASE dev.key[g] # {}  BY <1>7, <2>3 DEF Coming
  <2>4. CASE dev.key[g] = {} /\ AtKey(g) # {}  BY <1>7, <2>1, <2>4 DEF Coming
  <2>5. CASE dev.key[g] = {} /\ AtKey(g) = {}  BY <1>7, <2>1, <2>2, <2>5 DEF Coming
  <2> QED  BY <2>3, <2>4, <2>5
<1>8. KeysCome'  BY <1>0, <1>3, <1>7 DEF Flow, KeysCome, Due, Keeps
<1>9. Awaits'  BY <1>0 DEF Flow, Awaits, Opens, Asleep, Keeps
<1>10. Safely'
  <2>1. ext'.at \in {"rows", "failed"} => ext'.at = "rows"  BY DEF Asleep
  <2> QED  BY <1>0, <1>4, <2>1 DEF Flow, Safely, Keeps
<1> QED  BY <1>1, <1>2, <1>5, <1>6, <1>8, <1>9, <1>10 DEF InboxInv, Flow

LEMMA ExtIs ==
  ASSUME InboxInv
  PROVE  /\ ext \in Exts /\ ext.batch \in Seq(Rows) /\ ext.left \in Seq(Rows) /\ ext.got \in Seq(GroupRow)
         /\ ext.todo \subseteq Groups /\ ext.hand \in Hands /\ dev.bound \subseteq Groups
         /\ dmq \in Seq(Dm) /\ gq \in Seq(GroupRow) /\ ToSet(gq) \subseteq past.sent
         /\ dmq \in Seq(Rows) /\ gq \in Seq(Rows)
         /\ Asleep \in Exts /\ Asleep.at = "idle" /\ Asleep.hand = Free /\ Asleep.got = <<>>
         /\ Asleep.batch = <<>> /\ Asleep.left = <<>>
         /\ DmqFits /\ ToSet(Free.save) = {} /\ ToSet(<<>>) = {}
         /\ ExtFits /\ ExtDms /\ Safely /\ HandFits(ext.hand) /\ Keeps(past)
<1>1. ext \in Exts /\ dev \in Stores /\ dmq \in Seq(Dm) /\ gq \in Seq(GroupRow) /\ ToSet(gq) \subseteq past.sent
  BY DEF InboxInv, TypeOK
<1>2. dmq \in Seq(Rows) /\ gq \in Seq(Rows)  BY <1>1 DEF Rows
<1>3. /\ ext.batch \in Seq(Rows) /\ ext.left \in Seq(Rows) /\ ext.got \in Seq(GroupRow)
      /\ ext.todo \subseteq Groups /\ ext.hand \in Hands /\ dev.bound \subseteq Groups
  BY <1>1 DEF Exts, Rows, Stores
<1>4. Asleep \in Exts /\ Asleep.at = "idle" /\ Asleep.hand = Free /\ Asleep.got = <<>>
      /\ Asleep.batch = <<>> /\ Asleep.left = <<>>
  BY HandTypes DEF Asleep, Exts
<1>5. Keeps(past)  BY DEF InboxInv, TypeOK, Keeps
<1> QED  BY <1>1, <1>2, <1>3, <1>4, <1>5, HandTypes, EmptySet DEF InboxInv, Flow

LEMMA FreeFits == HandFits(Free)
  BY HandTypes, EmptySet, RowKinds DEF HandFits, Rows

LEMMA ExtPollsStep ==
  ASSUME InboxInv, ExtPollsDms
  PROVE  InboxInv'
<1>1. /\ ext.at = "idle" /\ ext' = Polls("dms", dmq)
      /\ UNCHANGED <<peer, dmq, gq, toPush, reg, dev, net, app>>
  BY DEF ExtPollsDms
<1>0. /\ Keeps(past') /\ past'.spoilt = past.spoilt /\ past'.keyLost = past.keyLost
      /\ past'.faulty = past.faulty
  BY BesideKeeps DEF ExtPollsDms, InboxInv
<1>2. /\ ext' \in Exts /\ ext'.at = "dms" /\ ext'.batch = dmq /\ ext'.left = dmq /\ ext'.got = <<>>
      /\ ext'.hand = ext.hand /\ ext.hand = Free /\ ext.got = <<>>
  BY <1>1, ExtIs DEF Polls, Exts, Rows, ExtFits
<1>3. ExtFits'  BY <1>2 DEF ExtFits
<1>4. HandFits(ext.hand)'  BY <1>2, HandTypes, EmptySet, RowKinds DEF HandFits, Rows
<1>5. ExtDms'
  <2>1. ASSUME NEW dm \in ToSet(dmq), NEW n \in DOMAIN dmq, dm.id < dmq[n].id
        PROVE  \E m \in 1..(n - 1) : dmq[m] = dm
    <3>1. PICK m \in DOMAIN dmq : dmq[m] = dm  BY DEF ToSet
    <3>2. dmq[m].id \in Nat /\ dmq[n].id \in Nat /\ m \in Nat /\ n \in Nat /\ m >= 1
      BY ExtIs, RowKinds
    <3>3. ~(n < m) /\ n # m  BY <2>1, <3>1, <3>2, ExtIs DEF DmqFits
    <3> QED  BY <3>1, <3>2, <3>3
  <2>2. ToSet(dmq) \subseteq Dm  BY ExtIs, SeqSets
  <2> QED  BY <1>1, <1>2, <2>1, <2>2, HandTypes DEF ExtDms
<1>6. ~past.keyLost => past.sent \subseteq ToSet(gq') \cup Safe
  BY <1>1, ExtIs DEF Safely
<1>7. DmqFits'  BY <1>0, <1>1, ExtIs DEF DmqFits, Keeps
<1>8. ext.hand.at # "key" /\ ext'.hand.at # "key" /\ ext'.at \notin {"idle", "failed", "rows"}
  BY <1>2, HandTypes
<1> QED  BY <1>0, <1>1, <1>2, <1>3, <1>4, <1>5, <1>6, <1>7, <1>8, ExtIs, ExtMoves

LEMMA ExtDmDoneStep ==
  ASSUME InboxInv, ExtDmDone
  PROVE  InboxInv'
<1>1. /\ ext.at = "dms" /\ ext.hand.at = "ack" /\ ext' = [ext EXCEPT !.hand = Free, !.left = Tail(@)]
      /\ UNCHANGED <<peer, dmq, gq, toPush, reg, dev, net, app, past>>
  BY DEF ExtDmDone
<1> DEFINE left == ext.left
<1>2. /\ left # <<>> /\ ext.hand.row = Head(left) /\ ext.hand.save = <<>> /\ ext.got = <<>>
  BY <1>1, ExtIs DEF ExtDms, HandFits, ExtFits
<1>3. /\ Head(left) \in Rows /\ Tail(left) \in Seq(Rows) /\ Head(left) = left[1] /\ 1 \in DOMAIN left
      /\ ToSet(left) = {Head(left)} \cup ToSet(Tail(left)) /\ DOMAIN Tail(left) = 1..(Len(left) - 1)
      /\ \A i \in DOMAIN Tail(left) : i + 1 \in DOMAIN left /\ Tail(left)[i] = left[i + 1]
  BY <1>2, ExtIs, HeadTailSet
<1>4. /\ ext' \in Exts /\ ext'.at = "dms" /\ ext'.batch = ext.batch /\ ext'.left = Tail(left)
      /\ ext'.got = <<>> /\ ext'.hand = Free
  <2> HIDE DEF left
  <2>1. ext' = [ext EXCEPT !.hand = Free, !.left = Tail(left)]  BY <1>1 DEF left
  <2>2. Tail(left) \in Seq(Dm \cup GroupRow)  BY <1>3 DEF Rows
  <2>3. ext \in Exts /\ Free \in Hands  BY ExtIs, HandTypes
  <2>4. ext' \in Exts  BY <2>1, <2>2, <2>3 DEF Exts
  <2> QED  BY <1>1, <1>2, <2>1, <2>3, <2>4 DEF Exts
<1>5. Head(left).id \in dev.opened
  <2>1. Head(left) \in Dm  BY <1>1, <1>3, ExtIs DEF ExtDms
  <2> QED  BY <1>2, <2>1, ExtIs DEF HandFits
<1>6. ExtFits'  BY <1>1, <1>4, ExtIs DEF ExtFits
<1>7. HandFits(ext.hand)'  BY <1>4, HandTypes, EmptySet, RowKinds DEF HandFits, Rows
<1>8. ExtDms'
  <2>1. ASSUME NEW dm \in ToSet(dmq), NEW n \in DOMAIN Tail(left), dm.id \notin dev.opened,
               dm.id < Tail(left)[n].id
        PROVE  \E m \in 1..(n - 1) : Tail(left)[m] = dm
    <3>1. n \in Nat /\ n >= 1 /\ n + 1 \in DOMAIN left /\ Tail(left)[n] = left[n + 1] /\ n <= Len(left) - 1
      BY <1>3
    <3>2. PICK m \in 1..((n + 1) - 1) : left[m] = dm  BY <1>1, <2>1, <3>1, ExtIs DEF ExtDms
    <3>3. m # 1  BY <1>3, <1>5, <2>1, <3>2
    <3>4. m - 1 \in 1..(n - 1) /\ m - 1 \in DOMAIN Tail(left) /\ (m - 1) + 1 = m
      BY <1>3, <3>1, <3>2, <3>3
    <3>5. Tail(left)[m - 1] = dm  BY <1>3, <3>2, <3>4
    <3> QED  BY <3>4, <3>5
  <2>2. \A dm \in ToSet(ext.batch) : dm \in ToSet(Tail(left)) \/ dm.id \in dev.opened
    BY <1>1, <1>3, <1>5, ExtIs DEF ExtDms
  <2>3. /\ ToSet(ext.batch) \subseteq Dm /\ ToSet(Tail(left)) \subseteq ToSet(ext.batch)
        /\ \A dm \in ToSet(ext.batch) : dm \in ToSet(dmq) \/ dm.id \in dev.opened
    BY <1>1, <1>3, ExtIs DEF ExtDms
  <2>4. Free.at = "idle" /\ UNCHANGED <<dmq, dev>>  BY <1>1, HandTypes
  <2> HIDE DEF left
  <2> QED  BY <1>4, <2>1, <2>2, <2>3, <2>4 DEF ExtDms
<1>9. ~past.keyLost => past.sent \subseteq ToSet(gq') \cup Safe
  BY <1>1, ExtIs DEF Safely
<1>10. DmqFits'  BY <1>1, ExtIs DEF DmqFits
<1>11. ext.hand.at # "key" /\ ext'.hand.at # "key" /\ ext'.at \notin {"idle", "failed", "rows"}
  BY <1>1, <1>4, HandTypes
<1>12. ToSet(ext'.hand.save) \cup ToSet(ext'.got) = ToSet(ext.hand.save) \cup ToSet(ext.got)
  BY <1>2, <1>4, HandTypes
<1> QED  BY <1>1, <1>4, <1>6, <1>7, <1>8, <1>9, <1>10, <1>11, <1>12, ExtIs, ExtMoves

LEMMA ExtAcksDmsStep ==
  ASSUME InboxInv, ExtAcksDms
  PROVE  InboxInv'
<1>1. /\ ext.at = "dms" /\ ext.hand.at = "idle" /\ ext.left = <<>> /\ dmq' = Without(dmq, ToSet(ext.batch))
      /\ ext' = [Polls("groups", <<>>) EXCEPT !.todo = dev.bound]
      /\ UNCHANGED <<peer, gq, toPush, reg, dev, net, app, past>>
  BY DEF ExtAcksDms
<1>2. ext.hand = Free /\ ext.got = <<>>  BY <1>1, ExtIs DEF HandFits, ExtFits
<1>3. /\ ext' \in Exts /\ ext'.at = "groups" /\ ext'.batch = <<>> /\ ext'.left = <<>>
      /\ ext'.got = <<>> /\ ext'.hand = Free
  <2>1. Polls("groups", <<>>) \in Exts
    BY ExtIs DEF Polls, Exts
  <2> QED  BY <1>1, <1>2, <2>1, ExtIs DEF Polls, Exts
<1>4. /\ dmq' \in Seq(Dm) /\ ToSet(dmq') = ToSet(dmq) \ ToSet(ext.batch) /\ DmqFits'
  <2>1. past'.dms = past.dms  BY <1>1
  <2> QED  BY <1>1, <2>1, QueueShrinks DEF InboxInv, Flow
<1>5. \A dm \in ToSet(dmq) : dm.id \in dev.opened \/ dm \in ToSet(dmq')
  BY <1>1, <1>4, ExtIs DEF ExtDms
<1>6. ExtFits' /\ ExtDms'  BY <1>1, <1>3, ExtIs DEF ExtFits, ExtDms
<1>7. HandFits(ext.hand)'  BY <1>3, HandTypes, EmptySet, RowKinds DEF HandFits, Rows
<1>8. ~past.keyLost => past.sent \subseteq ToSet(gq') \cup Safe
  BY <1>1, ExtIs DEF Safely
<1>9. ext.hand.at # "key" /\ ext'.hand.at # "key" /\ ext'.at \notin {"idle", "failed", "rows"}
  BY <1>1, <1>3, HandTypes
<1>10. ToSet(dmq') \subseteq ToSet(dmq) /\ ToSet(gq') \subseteq ToSet(gq)  BY <1>1, <1>4
<1>11. ToSet(ext'.hand.save) \cup ToSet(ext'.got) = ToSet(ext.hand.save) \cup ToSet(ext.got)
  BY <1>2, <1>3
<1> QED  BY <1>1, <1>3, <1>4, <1>5, <1>6, <1>7, <1>8, <1>9, <1>10, <1>11, ExtIs, ExtMoves

LEMMA ExtFetchesStep ==
  ASSUME InboxInv, NEW g \in Groups, ExtFetches(g)
  PROVE  InboxInv'
<1> DEFINE q == OfGroups(gq, {g})
<1>1. /\ ext.at = "groups" /\ ext' = [Polls("rows", q) EXCEPT !.todo = @ \ {g}]
      /\ UNCHANGED <<peer, dmq, gq, toPush, reg, dev, net, app, past>>
  BY DEF ExtFetches
<1>2. ext.hand = Free /\ ext.got = <<>>  BY <1>1, ExtIs DEF ExtFits
<1>3. q \in Seq(Rows) /\ ToSet(q) \subseteq past.sent
  <2>1. q \in Seq(Rows) /\ ToSet(q) \subseteq ToSet(gq)  BY ExtIs, OfGroupsIs
  <2> QED  BY <2>1, ExtIs
<1> HIDE DEF q
<1>4. /\ ext' \in Exts /\ ext'.at = "rows" /\ ext'.batch = q /\ ext'.left = q
      /\ ext'.got = <<>> /\ ext'.hand = Free
  <2>1. Polls("rows", q) \in Exts  BY <1>3, ExtIs DEF Polls, Exts, Rows
  <2> QED  BY <1>1, <1>2, <2>1, ExtIs DEF Polls, Exts
<1>5. ExtFits' /\ ExtDms'  BY <1>1, <1>3, <1>4, ExtIs DEF ExtFits, ExtDms
<1>6. HandFits(ext.hand)'  BY <1>4, HandTypes, EmptySet, RowKinds DEF HandFits, Rows
<1>7. ~past.keyLost => past.sent \subseteq ToSet(gq') \cup Safe
  BY <1>1, ExtIs DEF Safely
<1>8. DmqFits'  BY <1>1, ExtIs DEF DmqFits
<1>9. ext.hand.at # "key" /\ ext'.hand.at # "key" /\ ext'.at \notin {"idle", "failed"}
  BY <1>2, <1>4, HandTypes
<1>10. ToSet(ext'.hand.save) \cup ToSet(ext'.got) = ToSet(ext.hand.save) \cup ToSet(ext.got)
  BY <1>2, <1>4
<1>11. ToSet(ext'.batch) \subseteq ToSet(ext'.left)  BY <1>4
<1> QED  BY <1>1, <1>4, <1>5, <1>6, <1>7, <1>8, <1>9, <1>10, <1>11, ExtIs, ExtMoves

LEMMA ExtAcksRowsStep ==
  ASSUME InboxInv, ExtAcksRows
  PROVE  InboxInv'
<1> DEFINE h == Holding(NoRow, ext.got)
<1>1. /\ ext.at = "rows" /\ ext.left = <<>> /\ gq' = Without(gq, ToSet(ext.batch))
      /\ ext' = [ext EXCEPT !.at = "save", !.batch = <<>>, !.got = <<>>, !.hand = h]
      /\ UNCHANGED <<peer, dmq, toPush, reg, dev, net, app, past>>
  BY DEF ExtAcksRows
<1>2. ext.hand = Free /\ ext.got \in Seq(Rows) /\ ToSet(ext.got) \subseteq past.sent
  BY <1>1, ExtIs DEF ExtFits, Rows
<1>3. /\ h \in Hands /\ h.row = NoRow /\ h.save = ext.got
      /\ ext.got = <<>> => h.at = "ack"
      /\ ext.got # <<>> => h.at = "save"
  <2>1. NoRow \in Rows \cup {NoRow}  OBVIOUS
  <2>2. ASSUME NEW rows \in Seq(Rows)
        PROVE  /\ Holding(NoRow, rows) \in Hands /\ Holding(NoRow, rows).row = NoRow
               /\ Holding(NoRow, rows).save = rows
               /\ rows = <<>> => Holding(NoRow, rows).at = "ack"
               /\ rows # <<>> => Holding(NoRow, rows).at = "save"
    BY <2>1, HoldingIs
  <2> QED  BY <1>2, <2>2
<1> HIDE DEF h
<1>4. /\ ext' \in Exts /\ ext'.at = "save" /\ ext'.batch = <<>> /\ ext'.left = <<>>
      /\ ext'.got = <<>> /\ ext'.hand = h
  BY <1>1, <1>3, ExtIs DEF Exts
<1>5. /\ gq' \in Seq(GroupRow) /\ ToSet(gq') = ToSet(gq) \ ToSet(ext.batch)
  BY <1>1, ExtIs, WithoutIs
<1>6. ExtFits' /\ ExtDms'  BY <1>1, <1>3, <1>4, ExtIs DEF ExtFits, ExtDms
<1>7. HandFits(ext.hand)'
  BY <1>1, <1>2, <1>3, <1>4, RowKinds DEF HandFits, Known, Rows
<1>8. ~past.keyLost => past.sent \subseteq ToSet(gq') \cup Safe
  BY <1>1, <1>5, ExtIs DEF Safely
<1>9. DmqFits'  BY <1>1, ExtIs DEF DmqFits
<1>10. ext.hand.at # "key" /\ ext'.hand.at # "key" /\ ext'.at \notin {"idle", "failed", "rows"}
  BY <1>2, <1>3, <1>4, HandTypes
<1>11. ToSet(ext'.hand.save) \cup ToSet(ext'.got) = ToSet(ext.hand.save) \cup ToSet(ext.got)
  BY <1>2, <1>3, <1>4, ExtIs
<1>12. ToSet(gq') \subseteq ToSet(gq)  BY <1>5
<1> QED  BY <1>1, <1>4, <1>5, <1>6, <1>7, <1>8, <1>9, <1>10, <1>11, <1>12, ExtIs, ExtMoves

LEMMA ExtRestsStep ==
  ASSUME InboxInv, ExtGroupDone \/ ExtEnds
  PROVE  InboxInv'
<1>1. /\ UNCHANGED <<peer, dmq, gq, toPush, reg, dev, net, app, past>>
      /\ \/ ext.at = "save" /\ ext.hand.at = "ack" /\ ext' = [ext EXCEPT !.at = "groups", !.hand = Free]
         \/ ext.at = "groups" /\ ext' = Asleep
  BY DEF ExtGroupDone, ExtEnds
<1>2. /\ ext' \in Exts /\ ext'.at \in {"idle", "groups"} /\ ext'.got = <<>> /\ ext'.hand = Free
      /\ ext'.at = "idle" => ext' = Asleep
  <2>1. CASE ext.at = "save" /\ ext' = [ext EXCEPT !.at = "groups", !.hand = Free]
    <3>1. ext.got = <<>>  BY <2>1, ExtIs DEF ExtFits
    <3>2. ext \in Exts /\ Free \in Hands  BY ExtIs, HandTypes
    <3> QED  BY <2>1, <3>1, <3>2 DEF Exts
  <2>2. CASE ext' = Asleep  BY <2>2, ExtIs
  <2> QED  BY <1>1, <2>1, <2>2
<1>3. ext.got = <<>> /\ ext.hand.save = <<>> /\ ext.hand.at # "key"
  BY <1>1, ExtIs, HandTypes DEF ExtFits, HandFits
<1>4. ExtFits' /\ ExtDms'  BY <1>1, <1>2, ExtIs DEF ExtFits, ExtDms
<1>5. HandFits(ext.hand)'  BY <1>2, HandTypes, EmptySet, RowKinds DEF HandFits, Rows
<1>6. ~past.keyLost => past.sent \subseteq ToSet(gq') \cup Safe
  BY <1>1, ExtIs DEF Safely
<1>7. DmqFits'  BY <1>1, ExtIs DEF DmqFits
<1>8. ext'.hand.at # "key" /\ ext'.at \notin {"failed", "rows"}
  BY <1>2, HandTypes
<1>9. ToSet(ext'.hand.save) \cup ToSet(ext'.got) = ToSet(ext.hand.save) \cup ToSet(ext.got)
  BY <1>2, <1>3, HandTypes
<1> QED  BY <1>1, <1>2, <1>3, <1>4, <1>5, <1>6, <1>7, <1>8, <1>9, ExtIs, ExtMoves

LEMMA AppAcksStep ==
  ASSUME InboxInv, AppAcks
  PROVE  InboxInv'
<1>0. TypeOK /\ Subscribes /\ Shares /\ Flow  BY DEF InboxInv
<1> DEFINE done == IF net.up THEN {app.hand.row} ELSE {}
<1>1. /\ app.awake /\ app.hand.at = "ack" /\ dmq' = Without(dmq, done) /\ gq' = Without(gq, done)
      /\ Puts("app", Free) /\ UNCHANGED <<peer, toPush, reg, dev, net, past>>
  BY DEF AppAcks
<1>2. \A row \in done : row = app.hand.row  OBVIOUS
<1> HIDE DEF done
<1>3. /\ app' \in Apps /\ app'.hand = Free /\ app'.awake = app.awake /\ app'.nudge = app.nudge
      /\ ext' = ext /\ Hand("app")' = Free /\ Hand("ext")' = Hand("ext")
  BY <1>0, <1>1, HandTypes, PutsIs DEF Hand
<1>4. app.hand.save = <<>> /\ app.hand \in Hands
  BY <1>0, <1>1 DEF Flow, HandFits, TypeOK, Apps
<1>5. /\ dmq' \in Seq(Dm) /\ ToSet(dmq') = ToSet(dmq) \ done /\ DmqFits'
      /\ \A i \in DOMAIN dmq' : dmq'[i].kind = "key" => dmq'[i].iter <= peer.chain[dmq'[i].group]
  <2>1. past'.dms = past.dms  BY <1>1
  <2> QED  BY <1>0, <1>1, <2>1, QueueShrinks DEF Flow
<1>6. gq' \in Seq(GroupRow) /\ ToSet(gq') = ToSet(gq) \ done
  <2>1. gq \in Seq(GroupRow)  BY <1>0 DEF TypeOK
  <2> QED  BY <1>1, <2>1, WithoutIs
<1>7. TypeOK'
  <2>1. ToSet(gq') \subseteq past.sent  BY <1>0, <1>6 DEF TypeOK
  <2> QED  BY <1>0, <1>1, <1>3, <1>5, <1>6, <2>1 DEF TypeOK
<1>8. Subscribes' /\ Shares'  BY <1>0, <1>1, <1>3 DEF Subscribes, Latest, Shares
<1>9. Known' = Known /\ Handled' = Handled /\ Safe' = Safe
  BY <1>1, <1>3, <1>4, HandTypes DEF Known, Held, Handled, Gone, Safe
<1>10. HandFits(app.hand)' /\ HandFits(ext.hand)' /\ StoreFits'
  BY <1>0, <1>1, <1>3, <1>9, HandTypes, EmptySet, RowKinds DEF Flow, HandFits, StoreFits, Rows
<1>11. ExtFits' /\ ExtDms'
  <2>1. ASSUME NEW dm \in Dm, dm \in ToSet(dmq)  PROVE dm \in ToSet(dmq') \/ dm.id \in dev.opened
    BY <1>0, <1>2, <1>5, <2>1 DEF Flow, HandFits
  <2>2. ExtFits /\ ExtDms  BY <1>0 DEF Flow
  <2>3. ExtFits'  BY <1>1, <1>3, <2>2 DEF ExtFits
  <2>4. ToSet(dmq') \subseteq ToSet(dmq) /\ ext' = ext /\ dev' = dev  BY <1>1, <1>3, <1>5
  <2>5. ExtDms'  BY <2>1, <2>2, <2>4 DEF ExtDms
  <2> QED  BY <2>3, <2>5
<1>12. KeysFit'
  BY <1>0, <1>1, <1>3, <1>5, HandTypes DEF Flow, KeysFit
<1>13. ASSUME NEW g \in Groups, NEW i, Coming(g, i)  PROVE Coming(g, i)'
  <2>1. AtKey(g)' = AtKey(g) /\ AtKey(g) \subseteq {"ext"} /\ Hand("ext")' = Hand("ext")
    BY <1>1, <1>3, HandTypes DEF AtKey, Hand
  <2>2. Waiting(g) \subseteq Waiting(g)'
    <3>1. ASSUME NEW dm \in Waiting(g)  PROVE dm \notin done
      <4>1. dm \in Dm /\ dm.id \notin dev.opened
        BY <1>0, SeqSets DEF TypeOK, Waiting
      <4>2. app.hand.row \in Dm => app.hand.row.id \in dev.opened
        BY <1>0 DEF Flow, HandFits
      <4> QED  BY <1>2, <4>1, <4>2
    <3> QED  BY <1>1, <1>5, <3>1 DEF Waiting
  <2>3. dev' = dev  BY <1>1
  <2>4. CASE dev.key[g] # {}  BY <1>13, <2>3, <2>4 DEF Coming
  <2>5. CASE dev.key[g] = {} /\ AtKey(g) # {}  BY <1>13, <2>1, <2>3, <2>5 DEF Coming
  <2>6. CASE dev.key[g] = {} /\ AtKey(g) = {}  BY <1>13, <2>1, <2>2, <2>3, <2>6 DEF Coming
  <2> QED  BY <2>4, <2>5, <2>6
<1>14. KeysCome'
  <2>1. \A g, i : Due(g, i)' => Due(g, i)  BY <1>1 DEF Due, Gone
  <2>2. KeysCome /\ past' = past  BY <1>0, <1>1 DEF Flow
  <2> QED  BY <1>13, <2>1, <2>2 DEF KeysCome
<1>15. Awaits'  BY <1>0, <1>1, <1>3 DEF Flow, Awaits, Opens
<1>16. Safely'
  <2>1. ASSUME ~past.keyLost, NEW row \in past.sent  PROVE row \in ToSet(gq') \cup Safe
    <3>1. row \in GroupRow  BY <1>0 DEF TypeOK, Pasts
    <3>2. row \in done => row \in Safe  BY <1>0, <1>1, <1>2, <2>1, <3>1 DEF Flow, Safely
    <3> QED  BY <1>0, <1>6, <2>1, <3>2 DEF Flow, Safely
  <2>2. Free.row \notin GroupRow  BY HandTypes, RowKinds DEF Rows
  <2> QED  BY <1>0, <1>1, <1>3, <1>9, <2>1, <2>2 DEF Flow, Safely
<1> QED  BY <1>7, <1>8, <1>10, <1>11, <1>5, <1>12, <1>14, <1>15, <1>16 DEF InboxInv, Flow

LEMMA DroppedIs ==
  ASSUME TypeOK, NEW h \in Hands, NEW got \in Seq(Rows)
  PROVE  /\ Keeps(Dropped(h, got)) /\ Dropped(h, got).faulty
         /\ Dropped(h, got).spoilt = past.spoilt \cup ToSet(h.save) \cup ToSet(got)
         /\ Dropped(h, got).keyLost <=> past.keyLost \/ h.at = "key"
<1> DEFINE rows == ToSet(h.save) \cup ToSet(got)
           lost == h.at = "key"
<1>1. rows \in SUBSET Rows /\ lost \in BOOLEAN
  <2>1. ToSet(h.save) \subseteq Rows /\ ToSet(got) \subseteq Rows  BY HandParts, SeqSets
  <2> QED  BY <2>1
<1>2. Dropped(h, got) = [Faulty EXCEPT !.spoilt = @ \cup rows, !.keyLost = @ \/ lost]
  <2>1. Faulty \in Pasts  BY FaultKeeps, <1>1 DEF Keeps
  <2>2. past.spoilt \cup ToSet(h.save) \cup ToSet(got) = past.spoilt \cup rows  OBVIOUS
  <2>3. Faulty.spoilt = past.spoilt  BY FaultKeeps, <1>1
  <2>4. Faulty.spoilt \cup ToSet(h.save) \cup ToSet(got) = Faulty.spoilt \cup rows  OBVIOUS
  <2> HIDE DEF rows, lost
  <2> QED  BY <2>1, <2>4 DEF Dropped, Pasts, lost
<1> HIDE DEF lost
<1>3. LET q == [Faulty EXCEPT !.spoilt = @ \cup rows, !.keyLost = @ \/ lost]
      IN  Keeps(q) /\ q.spoilt = past.spoilt \cup rows /\ (q.keyLost <=> past.keyLost \/ lost) /\ q.faulty
  <2> HIDE DEF rows
  <2> QED  BY <1>1, FaultKeeps
<1> QED  BY <1>2, <1>3 DEF lost

\* A process dies with what it has in hand; the other goes on.
LEMMA Dies ==
  ASSUME InboxInv, NEW p \in {"app", "ext"}, UNCHANGED <<peer, dmq, gq, toPush, reg, dev>>,
         p = "app" => app' = [awake |-> FALSE, nudge |-> FALSE, hand |-> Free] /\ net' = Offline
                      /\ ext' = ext /\ past' = Dropped(app.hand, <<>>),
         p = "ext" => ext' = Asleep /\ UNCHANGED <<app, net>> /\ past' = Dropped(ext.hand, ext.got)
  PROVE  InboxInv'
<1>0. TypeOK /\ Subscribes /\ Shares /\ Flow  BY DEF InboxInv
<1>1. /\ app.hand \in Hands /\ ext.hand \in Hands /\ ext.got \in Seq(Rows) /\ <<>> \in Seq(Rows)
      /\ app \in Apps
  BY <1>0, ExtIs DEF TypeOK, Apps, Rows
<1>2. /\ Keeps(past') /\ past'.faulty
      /\ past.spoilt \subseteq past'.spoilt
      /\ past'.keyLost <=> past.keyLost \/ Hand(p).at = "key"
      /\ p = "app" => ToSet(app.hand.save) \subseteq past'.spoilt
      /\ p = "ext" => ToSet(ext.hand.save) \cup ToSet(ext.got) \subseteq past'.spoilt
  <2>1. CASE p = "app"
    <3>1. past' = Dropped(app.hand, <<>>)  BY <2>1
    <3>2. /\ Keeps(past') /\ past'.faulty /\ past'.spoilt = past.spoilt \cup ToSet(app.hand.save) \cup ToSet(<<>>)
          /\ past'.keyLost <=> past.keyLost \/ app.hand.at = "key"
      BY <1>0, <1>1, <3>1, DroppedIs
    <3> QED  BY <2>1, <3>2 DEF Hand
  <2>2. CASE p = "ext"
    <3>1. past' = Dropped(ext.hand, ext.got)  BY <2>2
    <3>2. /\ Keeps(past') /\ past'.faulty /\ past'.spoilt = past.spoilt \cup ToSet(ext.hand.save) \cup ToSet(ext.got)
          /\ past'.keyLost <=> past.keyLost \/ ext.hand.at = "key"
      BY <1>0, <1>1, <3>1, DroppedIs
    <3> QED  BY <2>2, <3>2 DEF Hand
  <2> QED  BY <2>1, <2>2
<1>3. /\ app' \in Apps /\ ext' \in Exts /\ net' \in Nets
      /\ app'.hand = IF p = "app" THEN Free ELSE app.hand
      /\ ext'.hand = IF p = "ext" THEN Free ELSE ext.hand
      /\ p = "ext" => ext' = Asleep /\ app' = app /\ net' = net
      /\ p = "app" => ~app'.awake /\ ext' = ext /\ net' = Offline
  <2>1. ext \in Exts /\ net \in Nets /\ Asleep \in Exts /\ Asleep.hand = Free /\ Offline \in Nets
    BY <1>0, ExtIs, NetIs
  <2>2. CASE p = "app"
    <3>1. app' = [awake |-> FALSE, nudge |-> FALSE, hand |-> Free] /\ net' = Offline /\ ext' = ext
      BY <2>2
    <3>2. app' \in Apps /\ app'.hand = Free /\ ~app'.awake  BY <3>1, HandTypes DEF Apps
    <3> QED  BY <2>1, <2>2, <3>1, <3>2
  <2>3. CASE p = "ext"  BY <1>1, <2>1, <2>3
  <2> QED  BY <2>2, <2>3
<1>4. Hand(p)' = Free /\ \A h \in {"app", "ext"} : h # p => Hand(h)' = Hand(h)
  BY <1>3 DEF Hand
<1>5. TypeOK'
  <2>1. ToSet(net'.frames) \subseteq past.sent /\ net'.subs \subseteq dev.bound
    BY <1>0, <1>3, NetIs DEF TypeOK
  <2>2. ~net'.up => net' = Offline  BY <1>0, <1>3 DEF TypeOK
  <2>3. ext'.at = "idle" => ext' = Asleep  BY <1>0, <1>3 DEF TypeOK
  <2> QED  BY <1>0, <1>2, <1>3, <2>1, <2>2, <2>3 DEF TypeOK, Keeps
<1>6. Subscribes' /\ Shares'
  BY <1>0, <1>2, <1>3, NetIs DEF Subscribes, Latest, Shares
<1>7. Known' = Known /\ Handled \subseteq Handled' /\ Safe \subseteq Safe'
  <2>1. Known' = Known  BY <1>2 DEF Known, Keeps
  <2>2. Held \subseteq Held' \cup past'.spoilt
    <3>1. CASE p = "app"  BY <1>2, <1>3, <3>1 DEF Held
    <3>2. CASE p = "ext"  BY <1>2, <1>3, <3>2 DEF Held
    <3> QED  BY <3>1, <3>2
  <2> QED  BY <1>2, <2>1, <2>2, GoneGrows DEF Handled, Gone, Safe
<1>8. HandFits(app.hand)' /\ HandFits(ext.hand)'
  <2>1. HandFits(app.hand) /\ HandFits(ext.hand)  BY <1>0 DEF Flow
  <2>2. CASE p = "app"
    BY <1>2, <1>3, <1>7, <2>1, <2>2, HandTypes, EmptySet, RowKinds DEF HandFits, Rows, Keeps
  <2>3. CASE p = "ext"
    BY <1>2, <1>3, <1>7, <2>1, <2>3, HandTypes, EmptySet, RowKinds DEF HandFits, Rows, Keeps
  <2> QED  BY <2>2, <2>3
<1>9. ExtFits' /\ ExtDms'
  <2>1. ExtFits /\ ExtDms  BY <1>0 DEF Flow
  <2>2. CASE p = "app"
    BY <1>2, <1>3, <2>1, <2>2 DEF ExtFits, ExtDms, Keeps
  <2>3. CASE p = "ext"
    BY <1>2, <1>3, <2>1, <2>3, ExtIs DEF ExtFits, ExtDms, Keeps
  <2> QED  BY <2>2, <2>3
<1>10. StoreFits' /\ DmqFits'
  BY <1>0, <1>2, <1>7 DEF Flow, StoreFits, DmqFits, Keeps
<1>11. KeysFit'  BY <1>0, <1>2, <1>4, HandTypes DEF Flow, KeysFit, Keeps
<1>12. ASSUME Hand(p).at # "key", NEW g \in Groups, NEW i, Coming(g, i)  PROVE Coming(g, i)'
  <2>1. AtKey(g)' = AtKey(g) /\ \A h \in AtKey(g) : Hand(h)' = Hand(h)
    BY <1>4, <1>12, HandTypes DEF AtKey
  <2>2. Waiting(g)' = Waiting(g)  BY DEF Waiting
  <2>3. CASE dev.key[g] # {}  BY <1>12, <2>3 DEF Coming
  <2>4. CASE dev.key[g] = {} /\ AtKey(g) # {}  BY <1>12, <2>1, <2>4 DEF Coming
  <2>5. CASE dev.key[g] = {} /\ AtKey(g) = {}  BY <1>12, <2>1, <2>2, <2>5 DEF Coming
  <2> QED  BY <2>3, <2>4, <2>5
<1>13. KeysCome'
  <2> SUFFICES ASSUME ~past.keyLost, Hand(p).at # "key", NEW g \in Groups, NEW i \in Nat, Due(g, i)'
               PROVE  Coming(g, i)'
    BY <1>2 DEF KeysCome
  <2>1. Due(g, i)  BY <1>2, GoneGrows DEF Due, Keeps
  <2> QED  BY <1>0, <1>12, <2>1 DEF Flow, KeysCome
<1>14. Awaits'
  <2>1. CASE p = "app"  BY <1>0, <1>2, <1>3, <2>1 DEF Flow, Awaits, Opens, Keeps
  <2>2. CASE p = "ext"  BY <1>0, <1>2, <1>3, <2>2, ExtIs DEF Flow, Awaits, Opens, Keeps
  <2> QED  BY <2>1, <2>2
<1>15. Safely'
  <2> SUFFICES ASSUME ~past.keyLost
               PROVE  /\ past.sent \subseteq ToSet(gq) \cup Safe' /\ dev.used \subseteq Handled'
                      /\ app'.hand.row \in GroupRow /\ app'.hand.at # "buffer" => app'.hand.row \in Safe'
                      /\ ext'.at \in {"rows", "failed"} => ToSet(ext'.batch) \subseteq ToSet(ext'.left) \cup Safe'
    BY <1>2 DEF Safely, Keeps
  <2>1. Safely  BY <1>0 DEF Flow
  <2>2. Free.row \notin GroupRow  BY HandTypes, RowKinds DEF Rows
  <2>3. app'.hand.row \in GroupRow /\ app'.hand.at # "buffer" => app'.hand.row \in Safe'
    BY <1>3, <1>7, <2>1, <2>2 DEF Safely
  <2>4. ext'.at \in {"rows", "failed"} => ToSet(ext'.batch) \subseteq ToSet(ext'.left) \cup Safe'
    <3>1. ext'.at \in {"rows", "failed"} => ext' = ext  BY <1>3, ExtIs
    <3> QED  BY <1>7, <2>1, <3>1 DEF Safely
  <2> QED  BY <1>7, <2>1, <2>3, <2>4 DEF Safely
<1> QED  BY <1>5, <1>6, <1>8, <1>9, <1>10, <1>11, <1>13, <1>14, <1>15 DEF InboxInv, Flow

LEMMA KilledStep ==
  ASSUME InboxInv, AppKilled \/ ExtKilled
  PROVE  InboxInv'
<1>1. CASE AppKilled
  <2>1. "app" \in {"app", "ext"} /\ "app" # "ext"  OBVIOUS
  <2> QED  BY <1>1, <2>1, Dies DEF AppKilled
<1>2. CASE ExtKilled
  <2>1. "ext" \in {"app", "ext"} /\ "app" # "ext"  OBVIOUS
  <2> QED  BY <1>2, <2>1, Dies DEF ExtKilled
<1> QED  BY <1>1, <1>2

LEMMA ExpireStep ==
  ASSUME InboxInv, ExpireRow
  PROVE  InboxInv'
<1>0. TypeOK /\ Subscribes /\ Shares /\ Flow  BY DEF InboxInv
<1>1. /\ gq # <<>> /\ gq' = Tail(gq) /\ past' = [Upsetting EXCEPT !.spoilt = @ \cup {Head(gq)}]
      /\ UNCHANGED <<peer, dmq, toPush, reg, dev, net, app, ext>>
  BY DEF ExpireRow
<1>2. Head(gq) \in GroupRow /\ Tail(gq) \in Seq(GroupRow) /\ ToSet(gq) = {Head(gq)} \cup ToSet(Tail(gq))
  BY <1>1, ExtIs, HeadTailSet
<1>3. /\ Keeps(past') /\ past'.spoilt = past.spoilt \cup {Head(gq)} /\ past'.keyLost = past.keyLost
      /\ past'.faulty = past.faulty
  <2>1. {Head(gq)} \in SUBSET Rows  BY <1>2 DEF Rows
  <2> QED  BY <1>0, <1>1, <2>1, ExpiryKeeps
<1>4. TypeOK'
  <2>1. gq' \in Seq(GroupRow) /\ ToSet(gq') \subseteq past.sent  BY <1>0, <1>1, <1>2 DEF TypeOK
  <2> QED  BY <1>0, <1>1, <1>3, <2>1 DEF TypeOK, Keeps
<1>5. Subscribes' /\ Shares'  BY <1>0, <1>1, <1>3 DEF Subscribes, Latest, Shares, Keeps
<1>6. Known' = Known /\ Handled \subseteq Handled' /\ Safe \subseteq Safe'
  BY <1>1, <1>3, GoneGrows DEF Known, Held, Handled, Safe, Keeps
<1>7. HandFits(app.hand)' /\ HandFits(ext.hand)'
  BY <1>0, <1>1, <1>3, <1>6 DEF Flow, HandFits, Keeps
<1>8. ExtFits' /\ ExtDms'
  BY <1>0, <1>1, <1>3 DEF Flow, ExtFits, ExtDms, Keeps
<1>9. StoreFits' /\ DmqFits'
  BY <1>0, <1>1, <1>3, <1>6 DEF Flow, StoreFits, DmqFits, Keeps
<1>10. \A h \in {"app", "ext"} : Hand(h)' = Hand(h)  BY <1>1 DEF Hand
<1>11. KeysFit'  BY <1>0, <1>1, <1>3, <1>10 DEF Flow, KeysFit, Keeps
<1>12. ASSUME NEW g \in Groups, NEW i, Coming(g, i)  PROVE Coming(g, i)'
  <2>1. Waiting(g) \subseteq Waiting(g)'  BY <1>1 DEF Waiting
  <2> QED  BY <1>1, <1>10, <1>12, <2>1, ComingStays
<1>13. \A g, i : Due(g, i)' => Due(g, i)  BY <1>1, <1>3, GoneGrows DEF Due, Keeps
<1>14. KeysCome'  BY <1>0, <1>3, <1>12, <1>13 DEF Flow, KeysCome
<1>15. Awaits'  BY <1>0, <1>1, <1>3 DEF Flow, Awaits, Opens, Keeps
<1>16. Safely'
  <2>1. Head(gq) \in Safe'  BY <1>3 DEF Safe, Handled, Gone
  <2> QED  BY <1>0, <1>1, <1>2, <1>3, <1>6, <2>1 DEF Flow, Safely, Keeps
<1> QED  BY <1>4, <1>5, <1>7, <1>8, <1>9, <1>11, <1>14, <1>15, <1>16 DEF InboxInv, Flow

LEMMA ReplaceStep ==
  ASSUME InboxInv, Replace
  PROVE  InboxInv'
<1>0. TypeOK /\ Subscribes /\ Shares /\ Flow  BY DEF InboxInv
<1>1. /\ reg' = reg + 1 /\ dev' = NewStore /\ dmq' = <<>> /\ gq' = <<>> /\ toPush' = NoRow
      /\ net' = Offline /\ ext' = Asleep /\ app' = [awake |-> TRUE, nudge |-> FALSE, hand |-> Free]
      /\ past' = [past EXCEPT !.spoilt = past.sent, !.greeted = FALSE] /\ UNCHANGED peer
  BY DEF Replace
<1>2. reg \in Nat /\ reg >= 1  BY <1>0, PeerIs
<1>3. /\ Keeps(past') /\ past'.spoilt = past.sent /\ past'.keyLost = past.keyLost
  <2>1. past \in Pasts /\ past.sent \in SUBSET (Dm \cup GroupRow)  BY <1>0 DEF TypeOK, Pasts
  <2> QED  BY <1>1, <2>1 DEF Keeps, Pasts
<1>4. /\ NewStore \in Stores /\ NewStore.bound = {} /\ NewStore.key = [g \in Groups |-> {}]
      /\ NewStore.used = {} /\ NewStore.opened = {} /\ NewStore.buffer = <<>> /\ NewStore.history = {}
  BY DEF NewStore, Stores
<1>5. app' \in Apps /\ app'.hand = Free  BY <1>1, HandTypes DEF Apps
<1>6. <<>> \in Seq(Dm) /\ <<>> \in Seq(GroupRow) /\ ToSet(<<>>) = {}  BY EmptySet
<1>7. Hand("app")' = Free /\ Hand("ext")' = Free  BY <1>1, <1>5, ExtIs DEF Hand
<1>8. TypeOK'
  <2>1. reg' \in Nat \ {0} /\ {peer.session, peer.saw} \subseteq 0..(reg + 1)
    BY <1>0, <1>1, <1>2 DEF TypeOK
  <2>2. /\ peer' = peer /\ ext' = Asleep /\ net' = Offline /\ ~Offline.up /\ Asleep.at = "idle"
        /\ Asleep \in Exts /\ Offline \in Nets /\ Offline.subs = {} /\ ToSet(Offline.frames) = {}
    BY <1>0, <1>1, ExtIs, NetIs
  <2> QED  BY <1>0, <1>1, <1>3, <1>4, <1>5, <1>6, <2>1, <2>2 DEF TypeOK, Keeps
<1>9. Subscribes'  BY <1>0, <1>1, NetIs DEF Subscribes
<1>10. Shares'  BY <1>1, <1>2 DEF Shares
<1>11. HandFits(app.hand)' /\ HandFits(ext.hand)'
  BY <1>1, <1>5, ExtIs, HandTypes, EmptySet, RowKinds DEF HandFits, Rows
<1>12. ExtFits' /\ ExtDms' /\ Awaits'
  BY <1>1, <1>4, <1>6, ExtIs DEF ExtFits, ExtDms, Awaits
<1>13. StoreFits' /\ DmqFits'
  BY <1>0, <1>1, <1>3, <1>4, <1>6 DEF Flow, StoreFits, DmqFits, Keeps
<1>14. KeysFit'
  <2>1. \A x \in past.keyed : x[2] <= reg + 1
    <3>1. \A x \in past.keyed : x[2] <= reg /\ x[2] \in Nat
      BY <1>0 DEF Flow, KeysFit, TypeOK, Pasts
    <3> QED  BY <1>2, <3>1
  <2> QED  BY <1>1, <1>3, <1>4, <1>7, <2>1, HandTypes DEF KeysFit, Keeps, Hand
<1>15. KeysCome'
  <2>1. \A g \in Groups, i \in Nat : ~Due(g, i)'
    <3>1. \A g \in Groups : <<g, reg + 1>> \notin past.keyed
      BY <1>0, <1>2 DEF Flow, KeysFit
    <3> QED  BY <1>1, <1>3, <3>1 DEF Due, Keeps, Gone
  <2> QED  BY <2>1 DEF KeysCome
<1>16. Safely'
  <2>1. Free.row \notin GroupRow  BY HandTypes, RowKinds DEF Rows
  <2>2. past'.sent \subseteq Safe'  BY <1>3 DEF Safe, Handled, Gone, Keeps
  <2> QED  BY <1>1, <1>4, <1>5, <2>1, <2>2, ExtIs DEF Safely
<1> QED  BY <1>8, <1>9, <1>10, <1>11, <1>12, <1>13, <1>14, <1>15, <1>16 DEF InboxInv, Flow

----------------------------------------------------------------------------
(* What either process does with a delivery *)

\* A process p at work: it puts h in the place of what it had in hand, and
\* changes the store.
WorksOn(p, h) ==
    /\ Turn(p) /\ Puts(p, h) /\ UNCHANGED <<peer, dmq, gq, toPush, reg>>
    /\ net' \in Nets /\ UNCHANGED <<net.up, net.subs, net.wire, net.listed>>
    /\ ToSet(net'.frames) \subseteq ToSet(net.frames)
    /\ ~net.up => net' = net
    /\ Keeps(past') /\ past.spoilt \subseteq past'.spoilt /\ past'.keyLost = past.keyLost
    /\ past.faulty => past'.faulty
    /\ dev' \in Stores /\ dev'.bound = dev.bound
    /\ dev'.opened \subseteq 1..past.dms /\ dev.opened \subseteq dev'.opened
    /\ dev'.used \subseteq past.sent /\ ToSet(dev'.buffer) \subseteq past.sent /\ dev'.history \subseteq Known
    /\ \A g \in Groups : \A i, j \in dev'.key[g] : i = j
    /\ \A g \in Groups : \A i \in dev'.key[g] : i <= peer.chain[g]
    /\ h.at # "idle"
    /\ h.at = "save" <=> h.save # <<>>
    /\ h.at = "key" => h.row.kind = "key" /\ h.row.iter <= peer.chain[h.row.group]
    /\ h.at = "buffer" => h.row \in GroupRow
    /\ h.row \in Dm => h.row.id \in dev'.opened
    /\ h.row \in GroupRow => h.row \in past.sent
    /\ ToSet(h.save) \subseteq Known
    /\ p = "ext" => \/ ext.at = "dms" /\ ext.left # <<>> /\ h.row = Head(ext.left)
                    \/ ext.at = "save" /\ h.row = NoRow /\ h.at # "key"
    /\ ~past.keyLost => \A g \in Groups, i \in Nat : Due(g, i)' /\ Coming(g, i) => Coming(g, i)'
    /\ \A row \in ToSet(dev'.buffer) : Opens(dev, row)' => row \in past'.raced
    /\ ~past.keyLost =>
          /\ \A row \in past.sent : row \in Handled => row \in Handled'
          /\ \A row \in past.sent : row \in Safe => row \in Safe'
          /\ dev'.used \subseteq dev.used \cup Handled'
          /\ p = "app" /\ h.row \in GroupRow /\ h.at # "buffer" => h.row \in Safe'

LEMMA Works ==
  ASSUME InboxInv, NEW p \in {"app", "ext"}, NEW h \in Hands, WorksOn(p, h)
  PROVE  InboxInv'
<1> USE DEF WorksOn
<1>0. TypeOK /\ Subscribes /\ Shares /\ Flow  BY DEF InboxInv
<1>1. /\ app' \in Apps /\ ext' \in Exts /\ Hand(p)' = h
      /\ app'.awake = app.awake /\ app'.nudge = app.nudge
      /\ ext'.at = ext.at /\ ext'.batch = ext.batch /\ ext'.left = ext.left
      /\ ext'.got = ext.got /\ ext'.todo = ext.todo
      /\ app'.hand = IF p = "app" THEN h ELSE app.hand
      /\ ext'.hand = IF p = "ext" THEN h ELSE ext.hand
      /\ p = "app" => ext' = ext
      /\ p = "ext" => app' = app
  BY <1>0, PutsIs
<1>2. p = "ext" => ext.at \in {"dms", "save"}  OBVIOUS
<1>3. \A q \in {"app", "ext"} : q # p => Hand(q)' = Hand(q)  BY <1>1 DEF Hand
<1>4. TypeOK'
  <2>1. ToSet(net'.frames) \subseteq past.sent /\ (~net'.up => net' = Offline)  BY <1>0 DEF TypeOK
  <2>2. ext'.at = "idle" => ext' = Asleep  BY <1>0, <1>1, <1>2 DEF TypeOK
  <2> QED  BY <1>0, <1>1, <2>1, <2>2 DEF TypeOK, Keeps
<1>5. Subscribes' /\ Shares'
  BY <1>0, <1>1 DEF Subscribes, Latest, Shares, Keeps
<1>6. Known' = Known  BY DEF Known, Keeps
<1>7. HandFits(app.hand)' /\ HandFits(ext.hand)'
  <2>1. HandFits(app.hand) /\ HandFits(ext.hand)  BY <1>0 DEF Flow
  <2>2. CASE p = "app"  BY <1>1, <1>6, <2>1, <2>2 DEF HandFits, Keeps
  <2>3. CASE p = "ext"  BY <1>1, <1>6, <2>1, <2>3 DEF HandFits, Keeps
  <2> QED  BY <2>2, <2>3
<1>9. ExtFits'
  <2>1. CASE p = "app"  BY <1>0, <1>1, <2>1 DEF Flow, ExtFits, Keeps
  <2>2. CASE p = "ext"  BY <1>0, <1>1, <1>2, <2>2 DEF Flow, ExtFits, Keeps
  <2> QED  BY <2>1, <2>2
<1>10. ExtDms'
  <2>1. CASE p = "app"
    <3>1. ExtDms /\ ext' = ext /\ dmq' = dmq  BY <1>0, <1>1, <2>1 DEF Flow
    <3> QED  BY <3>1 DEF ExtDms
  <2>2. CASE p = "ext"
    <3>1. ExtDms  BY <1>0 DEF Flow
    <3>2. ext.at = "dms" => ext.left # <<>> /\ h.row = Head(ext.left)  BY <2>2
    <3> QED  BY <1>1, <2>2, <3>1, <3>2 DEF ExtDms
  <2> QED  BY <2>1, <2>2
<1>11. StoreFits' /\ DmqFits'  BY <1>0, <1>6 DEF Flow, StoreFits, DmqFits, Keeps
<1>12. KeysFit'  BY <1>0, <1>1, <1>3 DEF Flow, KeysFit, Keeps
<1>13. \A g, i : Due(g, i)' => Due(g, i)
  <2>1. Gone \subseteq Gone'  BY GoneGrows
  <2> QED  BY <2>1 DEF Due, Keeps
<1>14. KeysCome'  BY <1>0, <1>13 DEF Flow, KeysCome
<1>15. Awaits'
  <2>1. Awaits  BY <1>0 DEF Flow
  <2>2. ext'.at = "failed" => ext'.left # <<>>  BY <1>1, <2>1 DEF Awaits
  <2>3. \A row \in ToSet(dev'.buffer) : Opens(dev, row)' => row \in past'.raced  OBVIOUS
  <2> QED  BY <2>2, <2>3 DEF Awaits
<1>16. Safely'
  <2> SUFFICES ASSUME ~past.keyLost
               PROVE  /\ past.sent \subseteq ToSet(gq) \cup Safe' /\ dev'.used \subseteq Handled'
                      /\ app'.hand.row \in GroupRow /\ app'.hand.at # "buffer" => app'.hand.row \in Safe'
                      /\ ext'.at \in {"rows", "failed"} =>
                            ToSet(ext'.batch) \subseteq ToSet(ext'.left) \cup Safe'
    BY DEF Safely, Keeps
  <2>1. Safely /\ dev.used \subseteq past.sent /\ HandFits(app.hand) /\ ExtFits
    BY <1>0 DEF Flow, TypeOK
  <2>2. past.sent \subseteq ToSet(gq) \cup Safe'  BY <2>1 DEF Safely
  <2>3. dev'.used \subseteq Handled'  BY <2>1 DEF Safely
  <2>4. app'.hand.row \in GroupRow /\ app'.hand.at # "buffer" => app'.hand.row \in Safe'
    <3>1. CASE p = "app"  BY <1>1, <3>1
    <3>2. CASE p = "ext"
      <4>1. app' = app  BY <1>1, <3>2
      <4>2. app.hand.row \in GroupRow => app.hand.row \in past.sent  BY <2>1 DEF HandFits
      <4>3. app.hand.row \in GroupRow /\ app.hand.at # "buffer" => app.hand.row \in Safe
        BY <2>1 DEF Safely
      <4> QED  BY <4>1, <4>2, <4>3
    <3> QED  BY <3>1, <3>2
  <2>5. ASSUME ext'.at \in {"rows", "failed"}
        PROVE  ToSet(ext'.batch) \subseteq ToSet(ext'.left) \cup Safe'
    <3>1. ext.at \in {"rows", "failed"} /\ ext'.batch = ext.batch /\ ext'.left = ext.left
      BY <1>1, <2>5
    <3>2. ToSet(ext.batch) \subseteq past.sent  BY <2>1, <3>1 DEF ExtFits
    <3>3. ToSet(ext.batch) \subseteq ToSet(ext.left) \cup Safe  BY <2>1, <3>1 DEF Safely
    <3> QED  BY <3>1, <3>2, <3>3
  <2> QED  BY <2>2, <2>3, <2>4, <2>5
<1> QED  BY <1>4, <1>5, <1>7, <1>9, <1>10, <1>11, <1>12, <1>14, <1>15, <1>16 DEF InboxInv, Flow

LEMMA DevIs ==
  ASSUME InboxInv
  PROVE  /\ dev \in Stores /\ dev.bound \subseteq Groups /\ dev.key \in [Groups -> SUBSET Nat]
         /\ dev.used \subseteq past.sent /\ dev.opened \subseteq 1..past.dms /\ dev.buffer \in Seq(GroupRow)
         /\ dev.history \subseteq Known /\ ToSet(dev.buffer) \subseteq past.sent
         /\ past.sent \subseteq GroupRow /\ past.dms \in Nat /\ past \in Pasts
         /\ \A g \in Groups : \A i, j \in dev.key[g] : i = j
         /\ \A g \in Groups : \A i \in dev.key[g] : i <= peer.chain[g]
         /\ \A row \in ToSet(dev.buffer) : Opens(dev, row) => row \in past.raced
         /\ Keeps(past) /\ net \in Nets /\ (~net.up => net = Offline)
         /\ dmq \in Seq(Dm) /\ DmqFits
  BY DEF InboxInv, Flow, TypeOK, Stores, Pasts, StoreFits, KeysFit, Awaits, Keeps

\* A direct message: opened once, and the first of those not opened yet.
LEMMA OpenStep ==
  ASSUME InboxInv, NEW p \in {"app", "ext"}, Turn(p), NEW dm \in Dm,
         dm \in ToSet(dmq) \/ dm.id \in dev.opened, OpenDm(p, dm), Hand(p) = Free, UNCHANGED <<peer, dmq, gq, toPush, reg, net, past>>,
         p = "ext" => ext.at = "dms" /\ ext.left # <<>> /\ dm = Head(ext.left),
         \A d \in ToSet(dmq) : d.id \notin dev.opened => ~(d.id < dm.id)
  PROVE  InboxInv'
<1>0. TypeOK /\ Flow  BY DEF InboxInv
<1>1. dm \in Dm /\ dm.id \in 1..past.dms /\ dm \in Rows /\ dm \notin GroupRow /\ dm.kind \in {"text", "key"}
  <2>1. dm \in Dm  OBVIOUS
  <2>2. dm.id \in 1..past.dms
    <3>1. CASE dm \in ToSet(dmq)  BY <1>0, <3>1 DEF Flow, DmqFits, ToSet
    <3>2. CASE dm.id \in dev.opened  BY <3>2, DevIs
    <3> QED  BY <3>1, <3>2
  <2> QED  BY <2>1, <2>2, RowKinds DEF Rows
<1> DEFINE ready == dm.id \notin dev.opened
           h == IF ~ready THEN Holding(dm, <<>>)
                ELSE IF dm.kind = "key" THEN [Free EXCEPT !.at = "key", !.row = dm]
                ELSE Holding(dm, <<dm>>)
           opened == dev.opened \cup {dm.id}
<1>2. /\ h \in Hands /\ h.row = dm
      /\ ~ready => h.at = "ack" /\ h.save = <<>>
      /\ ready /\ dm.kind = "key" => h.at = "key" /\ h.save = <<>>
      /\ ready /\ dm.kind # "key" => h.at = "save" /\ h.save = <<dm>>
  <2>1. <<>> \in Seq(Rows) /\ <<dm>> \in Seq(Rows) /\ <<dm>> # <<>>  BY <1>1
  <2>2. CASE ~ready
    <3>1. h = Holding(dm, <<>>)  BY <2>2
    <3> HIDE DEF h
    <3>2. h = [at |-> "ack", row |-> dm, save |-> <<>>]  BY <3>1 DEF Holding
    <3> QED  BY <1>1, <2>1, <2>2, <3>2 DEF Hands, Rows
  <2>3. CASE ready /\ dm.kind = "key"
    <3>1. h = [Free EXCEPT !.at = "key", !.row = dm]  BY <2>3
    <3>2. Free \in Hands /\ Free.save = <<>>  BY HandTypes
    <3> HIDE DEF h
    <3>3. h \in Hands /\ h.row = dm /\ h.at = "key" /\ h.save = Free.save
      BY <1>1, <3>1, <3>2 DEF Hands, Rows
    <3> QED  BY <2>3, <3>2, <3>3
  <2>4. CASE ready /\ dm.kind # "key"
    <3>1. h = Holding(dm, <<dm>>)  BY <2>4
    <3> HIDE DEF h
    <3> PICK one \in Seq(Rows) : one = <<dm>> /\ one # <<>>  BY <2>1
    <3>2. h = [at |-> "save", row |-> dm, save |-> one]  BY <3>1 DEF Holding
    <3>3. h \in Hands  BY <1>1, <3>2 DEF Hands, Rows
    <3> QED  BY <2>4, <3>2, <3>3
  <2> QED  BY <2>2, <2>3, <2>4
<1>3. Puts(p, h) /\ (ready => dev' = [dev EXCEPT !.opened = opened]) /\ (~ready => dev' = dev)
  <2>1. ready => dev' = [dev EXCEPT !.opened = opened]  BY DEF OpenDm
  <2> QED  BY <2>1 DEF OpenDm
<1> HIDE DEF h
<1>4. /\ dev' \in Stores /\ dev'.bound = dev.bound /\ dev'.key = dev.key /\ dev'.used = dev.used
      /\ dev'.buffer = dev.buffer /\ dev'.history = dev.history /\ dm.id \in dev'.opened
      /\ dev'.opened = dev.opened \cup {dm.id}
  <2>1. opened \in SUBSET Nat  BY <1>1, DevIs
  <2>2. CASE ready
    <3>1. dev' = [dev EXCEPT !.opened = opened]  BY <1>3, <2>2
    <3> QED  BY <2>1, <3>1, DevIs DEF Stores
  <2>3. CASE ~ready
    <3>1. dev' = dev  BY <1>3, <2>3
    <3> QED  BY <2>3, <3>1, DevIs
  <2> QED  BY <2>2, <2>3
<1>5. /\ app' \in Apps /\ ext' \in Exts /\ Hand(p)' = h /\ ext'.got = ext.got
      /\ app'.hand = IF p = "app" THEN h ELSE app.hand
      /\ ext'.hand = IF p = "ext" THEN h ELSE ext.hand
  BY <1>0, <1>2, <1>3, PutsIs
<1>6. \A q \in {"app", "ext"} : q # p => Hand(q)' = Hand(q)  BY <1>5 DEF Hand
<1>7. ASSUME NEW d \in ToSet(dmq), d.kind = "key", dm.kind = "key", d.group = dm.group,
             d.id \notin dev.opened, dm \in ToSet(dmq)
      PROVE  dm.iter <= d.iter
  <2>1. PICK a \in DOMAIN dmq, b \in DOMAIN dmq : dm = dmq[a] /\ d = dmq[b]  BY <1>7 DEF ToSet
  <2>2. a \in Nat /\ b \in Nat /\ d.iter \in Nat
    BY <2>1, DevIs, RowKinds
  <2>3. ~(b < a)  BY <1>7, <2>1, DevIs DEF DmqFits
  <2>4. CASE a = b  BY <2>1, <2>2, <2>4
  <2>5. CASE a < b  BY <1>7, <2>1, <2>5, DevIs DEF DmqFits
  <2> QED  BY <2>2, <2>3, <2>4, <2>5
<1>8. ASSUME NEW g \in Groups, NEW i \in Nat, Coming(g, i)  PROVE Coming(g, i)'
  <2>1. CASE dev.key[g] # {}  BY <1>4, <1>8, <2>1 DEF Coming
  <2>2. CASE dev.key[g] = {} /\ AtKey(g) # {}
    <3>1. PICK q \in AtKey(g) : Hand(q).row.iter <= i  BY <1>8, <2>2 DEF Coming
    <3>2. q # p  BY <3>1, HandTypes DEF AtKey
    <3>3. Hand(q)' = Hand(q)  BY <1>6, <3>1, <3>2 DEF AtKey
    <3>4. q \in AtKey(g)'  BY <3>1, <3>3 DEF AtKey
    <3> QED  BY <1>4, <2>2, <3>1, <3>3, <3>4 DEF Coming
  <2>3. CASE dev.key[g] = {} /\ AtKey(g) = {}
    <3>2. PICK d \in Waiting(g) : d.iter <= i  BY <1>8, <2>3 DEF Coming
    <3>3. d \in ToSet(dmq) /\ d.kind = "key" /\ d.group = g /\ d.id \notin dev.opened
      BY DEF Waiting
    <3>4. d \in Dm /\ d.iter \in Nat /\ dm.iter \in Nat  BY <1>1, <3>3, DevIs, SeqSets, RowKinds
    <3>5. CASE ready /\ dm.kind = "key" /\ dm.group = g
      <4>1. dm.iter <= d.iter
        <5>1. dm \in ToSet(dmq)  BY <3>5
        <5> QED  BY <1>7, <3>3, <3>5, <5>1
      <4>2. p \in AtKey(g)' /\ Hand(p)'.row.iter <= i
        BY <1>2, <1>5, <3>2, <3>4, <3>5, <4>1 DEF AtKey
      <4> QED  BY <1>4, <2>3, <4>2 DEF Coming
    <3>6. CASE ~(ready /\ dm.kind = "key" /\ dm.group = g)
      <4>0. Hand(p)'.at # "key" \/ Hand(p)'.row.group # g
        BY <1>1, <1>2, <1>5, <3>6
      <4>1. AtKey(g)' = {}
        <5>1. ASSUME NEW q \in {"app", "ext"}  PROVE q \notin AtKey(g)'
          <6>1. CASE q = p  BY <4>0, <6>1 DEF AtKey
          <6>2. CASE q # p
            <7>1. Hand(q)' = Hand(q) /\ q \notin AtKey(g)  BY <1>6, <2>3, <6>2
            <7> QED  BY <7>1 DEF AtKey
          <6> QED  BY <6>1, <6>2
        <5> QED  BY <5>1 DEF AtKey
      <4>2. d.id # dm.id
        <5>1. CASE ~ready  BY <3>3, <5>1
        <5>2. CASE ready
          <6>1. d # dm /\ dm \in ToSet(dmq)  BY <3>3, <3>6, <5>2
          <6>2. PICK a \in DOMAIN dmq, b \in DOMAIN dmq : dm = dmq[a] /\ d = dmq[b]
            BY <3>3, <6>1 DEF ToSet
          <6>3. a \in Nat /\ b \in Nat /\ a # b  BY <6>1, <6>2, DevIs
          <6>4. a < b \/ b < a  BY <6>3
          <6>5. d.id \in Nat /\ dm.id \in Nat  BY <1>1, <3>4, RowKinds
          <6> QED  BY <6>2, <6>4, <6>5, DevIs DEF DmqFits
        <5> QED  BY <5>1, <5>2
      <4>3. d \in Waiting(g)'  BY <1>4, <3>3, <4>2 DEF Waiting
      <4> QED  BY <1>4, <2>3, <3>2, <4>1, <4>3 DEF Coming
    <3> QED  BY <3>5, <3>6
  <2> QED  BY <2>1, <2>2, <2>3
<1>9. Handled \subseteq Handled' /\ Safe \subseteq Safe'
  <2>1. Held \subseteq Held'
    <3>1. ToSet(Hand(p).save) = {}  BY HandTypes, EmptySet
    <3> QED  BY <1>5, <3>1 DEF Held, Hand
  <2> QED  BY <1>4, <2>1 DEF Handled, Gone, Safe
<1>10. \A row \in ToSet(dev'.buffer) : Opens(dev, row)' => row \in past'.raced
  BY <1>4, DevIs DEF Opens
<1>11. ToSet(h.save) \subseteq Known
  <2>1. dm \in Known  BY <1>1, DevIs DEF Known
  <2>2. ToSet(<<dm>>) = {dm}  BY DEF ToSet
  <2> QED  BY <1>1, <1>2, <2>1, <2>2, EmptySet
<1>12. h.at = "key" => h.row.kind = "key" /\ h.row.iter <= peer.chain[h.row.group]
  <2>1. dm \in ToSet(dmq) /\ dm.kind = "key" => dm.iter <= peer.chain[dm.group]
    BY <1>0 DEF Flow, KeysFit, ToSet
  <2>2. h.at = "key" => ready /\ dm.kind = "key"  BY <1>1, <1>2
  <2> QED  BY <1>1, <1>2, <2>1, <2>2
<1>13. h.at # "idle" /\ h.at # "buffer" /\ (h.at = "save" <=> h.save # <<>>) /\ h.row = dm
  <2>1. <<dm>> # <<>>  OBVIOUS
  <2> QED  BY <1>1, <1>2, <2>1
<1>14. dev'.opened \subseteq 1..past.dms /\ dev.opened \subseteq dev'.opened
  BY <1>1, <1>4, DevIs
<1>15. /\ past' = past /\ net' = net /\ UNCHANGED <<peer, dmq, gq, toPush, reg>>  OBVIOUS
<1> HIDE DEF ready
<1>16. WorksOn(p, h)
  BY <1>1, <1>2, <1>3, <1>4, <1>8, <1>9, <1>10, <1>11, <1>12, <1>13, <1>14, <1>15, DevIs DEF WorksOn
<1> QED  BY <1>2, <1>16, Works

LEMMA TakeDmStep ==
  ASSUME InboxInv, TakeDm
  PROVE  InboxInv'
<1>1. /\ app.hand.at = "idle" /\ app.awake /\ dmq # <<>> /\ OpenDm("app", Head(dmq))
      /\ UNCHANGED <<peer, dmq, gq, toPush, reg, net, past>>
  BY DEF TakeDm, Ready, AtRest
<1>2. Head(dmq) \in Dm /\ Head(dmq) \in ToSet(dmq) /\ Head(dmq) = dmq[1] /\ 1 \in DOMAIN dmq
  BY <1>1, DevIs, HeadTailSet
<1>3. ASSUME NEW d \in ToSet(dmq)  PROVE ~(d.id < Head(dmq).id)
  <2>1. PICK j \in DOMAIN dmq : d = dmq[j]  BY DEF ToSet
  <2>2. j = 1 \/ 1 < j  BY DevIs
  <2>3. dmq[1].id \in Nat /\ dmq[j].id \in Nat  BY <1>2, DevIs, RowKinds
  <2> QED  BY <1>2, <2>1, <2>2, <2>3, DevIs DEF DmqFits
<1>4. Turn("app") /\ Hand("app") = Free
  BY <1>1 DEF Turn, Hand, InboxInv, Flow, HandFits
<1> HIDE DEF TakeDm
<1>5. "app" \in {"app", "ext"} /\ "app" # "ext"  OBVIOUS
<1> QED  BY <1>1, <1>2, <1>3, <1>4, <1>5, OpenStep

LEMMA ExtTakesDmStep ==
  ASSUME InboxInv, ExtTakesDm
  PROVE  InboxInv'
<1>1. /\ ext.at = "dms" /\ ext.hand.at = "idle" /\ ext.left # <<>> /\ OpenDm("ext", Head(ext.left))
      /\ UNCHANGED <<peer, dmq, gq, toPush, reg, net, past>>
  BY DEF ExtTakesDm
<1>2. Head(ext.left) \in ToSet(ext.left) /\ Head(ext.left) = ext.left[1] /\ 1 \in DOMAIN ext.left
  BY <1>1, ExtIs, HeadTailSet
<1>3. Head(ext.left) \in Dm /\ (Head(ext.left) \in ToSet(dmq) \/ Head(ext.left).id \in dev.opened)
  BY <1>1, <1>2, ExtIs DEF ExtDms
<1>4. ASSUME NEW d \in ToSet(dmq), d.id \notin dev.opened  PROVE ~(d.id < Head(ext.left).id)
  <2>1. SUFFICES ASSUME d.id < ext.left[1].id  PROVE FALSE
    BY <1>2
  <2>2. PICK m \in 1..(1 - 1) : ext.left[m] = d  BY <1>1, <1>2, <1>4, <2>1, ExtIs DEF ExtDms
  <2> QED  BY <2>2
<1>5. Turn("ext") /\ Hand("ext") = Free
  BY <1>1, ExtIs DEF Turn, Hand, HandFits
<1>6. "ext" \in {"app", "ext"} /\ "app" # "ext"  OBVIOUS
<1> QED  BY <1>1, <1>3, <1>4, <1>5, <1>6, OpenStep

\* A process at a delivery, and the hand it will have.
LEMMA AtWork ==
  ASSUME InboxInv, NEW p \in {"app", "ext"}, Turn(p), Hand(p).at # "idle"
  PROVE  /\ Hand(p) \in Hands /\ HandFits(Hand(p)) /\ Hand(p).row \in Rows \cup {NoRow}
         /\ Hand(p).save \in Seq(Rows)
         /\ p = "ext" => \/ ext.at = "dms" /\ ext.left # <<>> /\ Hand(p).row = Head(ext.left)
                         \/ ext.at = "save" /\ Hand(p).row = NoRow /\ Hand(p).at # "key"
<1>1. TypeOK /\ Flow  BY DEF InboxInv
<1>2. Hand(p) \in Hands /\ HandFits(Hand(p))
  BY <1>1, ExtIs DEF Hand, TypeOK, Apps, Flow
<1>3. Hand(p).row \in Rows \cup {NoRow} /\ Hand(p).save \in Seq(Rows)  BY <1>2, HandParts
<1>4. ASSUME p = "ext"
      PROVE  \/ ext.at = "dms" /\ ext.left # <<>> /\ Hand(p).row = Head(ext.left)
             \/ ext.at = "save" /\ Hand(p).row = NoRow /\ Hand(p).at # "key"
  <2>1. Hand(p) = ext.hand /\ ext.hand # Free  BY <1>4, HandTypes DEF Hand
  <2>2. ext.at \in {"idle", "dms", "groups", "rows", "failed", "save"}  BY ExtIs DEF Exts
  <2>3. ext.at \in {"dms", "save"}  BY <2>1, <2>2, ExtIs DEF ExtFits
  <2> QED  BY <2>1, <2>3, ExtIs DEF ExtFits, ExtDms
<1> QED  BY <1>2, <1>3, <1>4

LEMMA ComingBeside ==
  ASSUME NEW p \in {"app", "ext"}, Hand(p).at # "key", Hand(p)'.at # "key",
         \A q \in {"app", "ext"} : q # p => Hand(q)' = Hand(q),
         NEW g \in Groups, NEW i, Coming(g, i), dev'.key[g] = dev.key[g], Waiting(g) \subseteq Waiting(g)'
  PROVE  Coming(g, i)'
<1>1. AtKey(g)' = AtKey(g) /\ \A q \in AtKey(g) : Hand(q)' = Hand(q)  BY DEF AtKey
<1>2. CASE dev.key[g] # {}  BY <1>2 DEF Coming
<1>3. CASE dev.key[g] = {} /\ AtKey(g) # {}  BY <1>1, <1>3 DEF Coming
<1>4. CASE dev.key[g] = {} /\ AtKey(g) = {}  BY <1>1, <1>4 DEF Coming
<1> QED  BY <1>2, <1>3, <1>4

\* The next row of a hand: written, or lost to a failure.
LEMMA SaveStep ==
  ASSUME InboxInv, NEW p \in {"app", "ext"}, SaveIncoming(p) \/ SaveFails(p)
  PROVE  InboxInv'
<1>0. TypeOK /\ Flow  BY DEF InboxInv
<1>29. /\ Turn(p) /\ Hand(p).at = "save"
       /\ Puts(p, Holding(Hand(p).row, Tail(Hand(p).save)))
       /\ UNCHANGED <<peer, dmq, gq, toPush, reg, net>>
  BY DEF SaveIncoming, SaveFails
<1>31. \/ /\ dev' = Saved(dev, Head(Hand(p).save))
          /\ \/ Shadows(Head(Hand(p).save)) = {} /\ past' = past
             \/ past' = [past EXCEPT !.shadowed = @ \cup {Head(Hand(p).save)}]
       \/ dev' = dev /\ past' = [Faulty EXCEPT !.spoilt = @ \cup {Head(Hand(p).save)}]
  BY DEF SaveIncoming, SaveFails
<1>1. PICK was \in Hands : was = Hand(p)  BY <1>29, AtWork
<1>2. /\ HandFits(Hand(p)) /\ was.row \in Rows \cup {NoRow} /\ was.save \in Seq(Rows) /\ was.save # <<>>
      /\ was.at = "save" /\ ToSet(was.save) \subseteq Known
  BY <1>1, <1>29, AtWork DEF HandFits
<1>3. PICK row : row = Head(was.save)  OBVIOUS
<1>4. PICK rest : rest = Tail(was.save)  OBVIOUS
<1>5. /\ row \in Rows /\ rest \in Seq(Rows) /\ ToSet(was.save) = {row} \cup ToSet(rest)
  BY <1>2, <1>3, <1>4, HeadTailSet
<1>6. /\ was.row \in Rows \cup {NoRow} /\ rest \in Seq(Rows)
      /\ Puts(p, Holding(was.row, rest))
  BY <1>1, <1>2, <1>5, <1>4, <1>29
<1>7. PICK h \in Hands :
         /\ Puts(p, h) /\ h.row = was.row /\ h.save = rest /\ h.at \in {"ack", "save"}
         /\ h.at = "save" <=> rest # <<>>
  BY <1>6, PutsHolding
<1>8. Puts(p, h)  BY <1>7
<1>9. row \in Known /\ ToSet(rest) \subseteq Known  BY <1>2, <1>5
<1>10. /\ Keeps(past') /\ past.spoilt \subseteq past'.spoilt /\ past'.keyLost = past.keyLost
       /\ past.faulty => past'.faulty
  <2>1. {row} \in SUBSET Rows /\ TRUE \in BOOLEAN  BY <1>5
  <2>2. LET q == [Faulty EXCEPT !.spoilt = @ \cup {row}]
        IN  Keeps(q) /\ q.spoilt = past.spoilt \cup {row} /\ q.keyLost = past.keyLost /\ q.faulty
    BY <1>0, <2>1, FaultKeeps
  <2>3. LET q == [past EXCEPT !.shadowed = @ \cup {row}]
        IN  Keeps(q) /\ q.spoilt = past.spoilt /\ q.keyLost = past.keyLost
            /\ q.faulty = past.faulty /\ row \in q.shadowed
    <3>1. past \in Pasts  BY <1>0 DEF TypeOK
    <3>2. past.shadowed \cup {row} \in SUBSET (Dm \cup GroupRow)  BY <1>5, <3>1 DEF Pasts, Rows
    <3> QED  BY <3>1, <3>2 DEF Keeps, Pasts
  <2> QED  BY <1>1, <1>3, <1>31, <2>2, <2>3, DevIs
<1>11. /\ dev' \in Stores /\ dev'.bound = dev.bound /\ dev'.key = dev.key /\ dev'.used = dev.used
       /\ dev'.opened = dev.opened /\ dev'.buffer = dev.buffer /\ dev.history \subseteq dev'.history
       /\ dev'.history \subseteq dev.history \cup {row}
  <2>1. CASE dev' = Saved(dev, row)
    <3> DEFINE hist == IF \E r \in dev.history : r.id = row.id THEN dev.history
                       ELSE dev.history \cup {row}
    <3>1. hist \in SUBSET (Dm \cup GroupRow)  BY <1>5, DevIs DEF Stores, Rows
    <3>2. dev' = [dev EXCEPT !.history = hist]  BY <2>1 DEF Saved
    <3>3. dev.history \subseteq hist /\ hist \subseteq dev.history \cup {row}  OBVIOUS
    <3> HIDE DEF hist
    <3> QED  BY <3>1, <3>2, <3>3, DevIs DEF Stores
  <2>2. CASE dev' = dev  BY <2>2, DevIs
  <2> QED  BY <1>1, <1>3, <1>31, <2>1, <2>2
<1>12. row \in dev'.history \cup Gone'
  <2>1. CASE dev' = Saved(dev, row) /\ Shadows(row) = {}
    <3>1. \A r \in dev.history : r.id = row.id => r = row  BY <2>1 DEF Shadows
    <3>2. dev'.history = IF \E r \in dev.history : r.id = row.id THEN dev.history
                         ELSE dev.history \cup {row}
      BY <2>1, DevIs DEF Saved, Stores
    <3> QED  BY <3>1, <3>2
  <2>2. CASE past' = [past EXCEPT !.shadowed = @ \cup {row}]
    <3>1. past \in Pasts  BY <1>0 DEF TypeOK
    <3>2. row \in past'.shadowed  BY <2>2, <3>1 DEF Pasts
    <3> QED  BY <3>2 DEF Gone
  <2>3. CASE past' = [Faulty EXCEPT !.spoilt = @ \cup {row}]
    <3>1. {row} \in SUBSET Rows /\ TRUE \in BOOLEAN  BY <1>5
    <3>2. LET q == [Faulty EXCEPT !.spoilt = @ \cup {row}]
          IN  Keeps(q) /\ q.spoilt = past.spoilt \cup {row} /\ q.keyLost = past.keyLost /\ q.faulty
      BY <1>0, <3>1, FaultKeeps
    <3> QED  BY <2>3, <3>2 DEF Gone
  <2> QED  BY <1>1, <1>3, <1>31, <2>1, <2>2, <2>3
<1>13. /\ Hand(p)' = h /\ ext'.got = ext.got
       /\ app'.hand = IF p = "app" THEN h ELSE app.hand
       /\ ext'.hand = IF p = "ext" THEN h ELSE ext.hand
  BY <1>0, <1>7, <1>8, PutsIs
<1>14. \A q \in {"app", "ext"} : q # p => Hand(q)' = Hand(q)  BY <1>13 DEF Hand
<1>15. ASSUME NEW g \in Groups, NEW i \in Nat, Coming(g, i)  PROVE Coming(g, i)'
  <2>1. Waiting(g) \subseteq Waiting(g)'  BY <1>11, <1>29 DEF Waiting
  <2>2. Hand(p).at # "key" /\ Hand(p)'.at # "key"  BY <1>7, <1>13, <1>29
  <2>3. dev'.key[g] = dev.key[g]  BY <1>11
  <2> QED  BY <1>14, <1>15, <2>1, <2>2, <2>3, ComingBeside
<1>16. /\ \A r \in past.sent : r \in Handled => r \in Handled'
       /\ \A r \in past.sent : r \in Safe => r \in Safe'
  <2>1. Held \subseteq Held' \cup {row}
    <3>1. CASE p = "app"
      <4>1. app.hand = was /\ app'.hand = h /\ ext'.hand = ext.hand  BY <1>1, <1>13, <3>1 DEF Hand
      <4> QED  BY <1>5, <1>7, <1>13, <4>1 DEF Held
    <3>2. CASE p = "ext"
      <4>1. ext.hand = was /\ ext'.hand = h /\ app'.hand = app.hand  BY <1>1, <1>13, <3>2 DEF Hand
      <4> QED  BY <1>5, <1>7, <1>13, <4>1 DEF Held
    <3> QED  BY <3>1, <3>2
  <2>2. \A r \in past.sent : r \in Handled => r \in Handled'
    <3>1. Gone \subseteq Gone' /\ dev.history \subseteq dev'.history  BY <1>10, <1>11, GoneGrows
    <3>2. ASSUME NEW r \in past.sent, r \in Held  PROVE r \in Handled'
      BY <1>12, <2>1, <3>2 DEF Handled
    <3> QED  BY <3>1, <3>2 DEF Handled
  <2> QED  BY <1>11, <2>2 DEF Safe
<1>17. \A r \in ToSet(dev'.buffer) : Opens(dev, r)' => r \in past'.raced
  BY <1>10, <1>11, DevIs DEF Opens, Keeps
<1>18. dev'.history \subseteq Known  BY <1>9, <1>11, DevIs
<1>19. /\ h.row \in Dm => h.row.id \in dev'.opened
       /\ h.row \in GroupRow => h.row \in past.sent
       /\ p = "app" /\ h.row \in GroupRow => h.row = app.hand.row
  BY <1>1, <1>2, <1>7, <1>11 DEF HandFits, Hand
<1>20. ~past.keyLost /\ p = "app" /\ h.row \in GroupRow => h.row \in Safe'
  <2>1. p = "app" => app.hand.at # "buffer"  BY <1>29 DEF Hand
  <2> QED  BY <1>0, <1>16, <1>19, <2>1 DEF Flow, Safely
<1>21. p = "ext" => \/ ext.at = "dms" /\ ext.left # <<>> /\ h.row = Head(ext.left)
                    \/ ext.at = "save" /\ h.row = NoRow /\ h.at # "key"
  BY <1>1, <1>2, <1>7, <1>29, AtWork
<1>22. h.at # "idle" /\ h.at # "key" /\ h.at # "buffer" /\ (h.at = "save" <=> h.save # <<>>) /\ ToSet(h.save) \subseteq Known
  BY <1>7, <1>9
<1>23. /\ net' = net /\ net' \in Nets /\ UNCHANGED <<peer, dmq, gq, toPush, reg>>
       /\ dev'.opened \subseteq 1..past.dms /\ dev.opened \subseteq dev'.opened
       /\ dev'.used \subseteq past.sent /\ ToSet(dev'.buffer) \subseteq past.sent
       /\ dev'.used \subseteq dev.used
       /\ \A g \in Groups : \A i, j \in dev'.key[g] : i = j
       /\ \A g \in Groups : \A i \in dev'.key[g] : i <= peer.chain[g]
  BY <1>11, <1>29, DevIs
<1>24. h \in Hands /\ Puts(p, h)  BY <1>7
<1>25. /\ UNCHANGED <<net.up, net.subs, net.wire, net.listed>>
       /\ ToSet(net'.frames) \subseteq ToSet(net.frames) /\ (~net.up => net' = net)
       /\ h.row \in Dm => h.row.id \in dev'.opened
       /\ h.row \in GroupRow => h.row \in past.sent
  BY <1>19, <1>23
<1>26. /\ dev' \in Stores /\ dev'.bound = dev.bound /\ dev'.used \subseteq dev.used \cup Handled'
  BY <1>11
<1>27. ~past.keyLost => \A g \in Groups, i \in Nat : Due(g, i)' /\ Coming(g, i) => Coming(g, i)'
  BY <1>15
<1>28. ~past.keyLost =>
         /\ \A r \in past.sent : r \in Handled => r \in Handled'
         /\ \A r \in past.sent : r \in Safe => r \in Safe'
         /\ dev'.used \subseteq dev.used \cup Handled'
         /\ p = "app" /\ h.row \in GroupRow /\ h.at # "buffer" => h.row \in Safe'
  BY <1>16, <1>20, <1>26
<1>30. WorksOn(p, h)
  BY <1>10, <1>17, <1>18, <1>21, <1>22, <1>23, <1>24, <1>25, <1>26, <1>27, <1>28, <1>29 DEF WorksOn
<1> QED  BY <1>24, <1>30, Works

\* A group row pushed to the app is opened, or is to be kept for its key.
LEMMA GroupDeliveryStep ==
  ASSUME InboxInv, ProcessGroupDelivery
  PROVE  InboxInv'
<1>0. TypeOK /\ Flow  BY DEF InboxInv
<1> PICK row : row = Head(net.frames)  OBVIOUS
<1>1. /\ app.hand = Free /\ app.awake /\ net.frames # <<>>
      /\ net' = [net EXCEPT !.frames = Tail(@)]
      /\ \/ Opens(dev, row) /\ dev' = Used(dev, {row}) /\ Puts("app", Holding(row, <<row>>))
         \/ ~Opens(dev, row) /\ dev' = dev /\ Puts("app", [Free EXCEPT !.at = "buffer", !.row = row])
      /\ UNCHANGED <<peer, dmq, gq, toPush, reg, past>>
  <2>1. app.hand.at = "idle" /\ app.awake  BY DEF ProcessGroupDelivery, Ready, AtRest
  <2> QED  BY <1>0, <2>1 DEF ProcessGroupDelivery, Flow, HandFits
<1>2. /\ row \in past.sent /\ row \in GroupRow /\ row \in Rows /\ row \in Known /\ row \notin Dm
      /\ row.group \in Groups
  <2>1. net.frames \in Seq(GroupRow) /\ ToSet(net.frames) \subseteq past.sent
    BY <1>0 DEF TypeOK, Nets
  <2>2. row \in GroupRow /\ row \in ToSet(net.frames)  BY <1>1, <2>1, HeadTailSet
  <2> QED  BY <2>1, <2>2, RowKinds DEF Rows, Known
<1>3. /\ net' \in Nets /\ UNCHANGED <<net.up, net.subs, net.wire, net.listed>>
      /\ ToSet(net'.frames) \subseteq ToSet(net.frames) /\ (~net.up => net' = net)
  <2>1. /\ net.frames \in Seq(GroupRow) /\ Tail(net.frames) \in Seq(GroupRow)
        /\ ToSet(Tail(net.frames)) \subseteq ToSet(net.frames)
    <3>1. net.frames \in Seq(GroupRow)  BY <1>0 DEF TypeOK, Nets
    <3> QED  BY <1>1, <3>1, HeadTailSet
  <2>2. net.up  BY DEF ProcessGroupDelivery, Ready, AtRest
  <2> QED  BY <1>1, <2>1, <2>2, DevIs DEF Nets
<1>4. PICK h :
        /\ Puts("app", h) /\ h \in Hands /\ h.row = row /\ h.at \in {"buffer", "save"}
        /\ h.at = "save" <=> h.save # <<>>
        /\ h.at = "save" => Opens(dev, row)
        /\ ToSet(h.save) \subseteq {row}
        /\ Opens(dev, row) => row \in ToSet(h.save)
  <2>0. row \in Rows  BY <1>2
  <2>1. CASE Opens(dev, row)
    <3>0. <<row>> \in Seq(Rows) /\ <<row>> # <<>> /\ ToSet(<<row>>) = {row}  BY <2>0 DEF ToSet
    <3>1. PICK one \in Seq(Rows) : one = <<row>> /\ one # <<>> /\ ToSet(one) = {row}  BY <3>0
    <3>2. row \in Rows \cup {NoRow} /\ Puts("app", Holding(row, one))  BY <1>1, <2>0, <2>1, <3>1
    <3>3. PICK h \in Hands :
             /\ Puts("app", h) /\ h.row = row /\ h.save = one /\ h.at \in {"ack", "save"}
             /\ h.at = "save" <=> one # <<>>
      BY <3>2, PutsHolding
    <3>4. h.at = "save"  BY <3>1, <3>3
    <3> QED  BY <2>1, <3>1, <3>3, <3>4
  <2>2. CASE ~Opens(dev, row)
    <3>1. PICK h : h = [Free EXCEPT !.at = "buffer", !.row = row]  OBVIOUS
    <3>2. h \in Hands /\ h.row = row /\ h.at = "buffer" /\ h.save = <<>>
      BY <2>0, <3>1, HandTypes DEF Hands, Rows
    <3>3. Puts("app", h) /\ ToSet(h.save) = {}  BY <1>1, <2>2, <3>1, <3>2, EmptySet
    <3> QED  BY <2>2, <3>2, <3>3
  <2> QED  BY <2>1, <2>2
<1>5. /\ dev' \in Stores /\ dev'.bound = dev.bound /\ dev'.key = dev.key /\ dev'.opened = dev.opened
      /\ dev'.history = dev.history
      /\ Opens(dev, row) => dev'.used = dev.used \cup {row} /\ dev'.buffer = dev.buffer
      /\ ~Opens(dev, row) => dev'.used = dev.used /\ dev'.buffer = dev.buffer
  <2>1. CASE Opens(dev, row)
    <3>1. dev' = [dev EXCEPT !.used = @ \cup {row}]  BY <1>1, <2>1 DEF Used
    <3> QED  BY <1>2, <2>1, <3>1, DevIs DEF Stores
  <2>2. CASE ~Opens(dev, row)
    <3>1. dev' = dev  BY <1>1, <2>2
    <3> QED  BY <2>2, <3>1, DevIs
  <2> QED  BY <2>1, <2>2
<1>6. /\ app'.hand = h /\ ext' = ext /\ Hand("app")' = h /\ Hand("ext")' = Hand("ext")
  BY <1>0, <1>4, PutsIs DEF Hand
<1>7. ASSUME NEW g \in Groups, NEW i \in Nat, Coming(g, i)  PROVE Coming(g, i)'
  <2>1. Waiting(g) \subseteq Waiting(g)' /\ dev'.key[g] = dev.key[g]  BY <1>1, <1>5 DEF Waiting
  <2>2. Hand("app").at # "key" /\ Hand("app")'.at # "key"  BY <1>1, <1>4, <1>6, HandTypes DEF Hand
  <2>3. \A q \in {"app", "ext"} : q # "app" => Hand(q)' = Hand(q)  BY <1>6
  <2>4. "app" \in {"app", "ext"}  OBVIOUS
  <2> QED  BY <1>7, <2>1, <2>2, <2>3, <2>4, ComingBeside
<1>8. \A r \in ToSet(dev'.buffer) : Opens(dev, r)' => r \in past'.raced
  <2>1. \A r : Opens(dev, r)' => Opens(dev, r)  BY <1>5 DEF Opens
  <2>2. dev'.buffer = dev.buffer /\ past' = past  BY <1>1, <1>5
  <2> QED  BY <2>1, <2>2, DevIs
<1>9. /\ Handled \subseteq Handled' /\ Safe \subseteq Safe' /\ dev'.used \subseteq dev.used \cup Handled'
      /\ h.at # "buffer" => row \in Safe'
  <2>1. Held \subseteq Held' /\ (Opens(dev, row) => row \in Held')
    <3>1. ToSet(app.hand.save) = {}  BY <1>1, HandTypes, EmptySet
    <3> QED  BY <1>4, <1>6, <3>1 DEF Held
  <2>2. Handled \subseteq Handled' /\ (Opens(dev, row) => row \in Handled')
    BY <1>1, <1>5, <2>1 DEF Handled, Gone
  <2> QED  BY <1>4, <1>5, <2>2 DEF Safe
<1>10. /\ dev'.opened \subseteq 1..past.dms /\ dev.opened \subseteq dev'.opened
       /\ dev'.used \subseteq past.sent /\ ToSet(dev'.buffer) \subseteq past.sent
       /\ dev'.history \subseteq Known
       /\ \A g \in Groups : \A i, j \in dev'.key[g] : i = j
       /\ \A g \in Groups : \A i \in dev'.key[g] : i <= peer.chain[g]
  BY <1>2, <1>5, DevIs
<1>11. /\ Turn("app") /\ "app" \in {"app", "ext"} /\ "app" # "ext" /\ past' = past
       /\ h.at # "idle" /\ h.at # "key" /\ ToSet(h.save) \subseteq Known /\ h.row \notin Dm
       /\ h.row \in past.sent /\ h.row = row /\ h.row \in GroupRow
       /\ UNCHANGED <<peer, dmq, gq, toPush, reg>>
  BY <1>1, <1>2, <1>4 DEF Turn
<1>12. /\ Keeps(past') /\ past.spoilt \subseteq past'.spoilt /\ past'.keyLost = past.keyLost
       /\ past.faulty => past'.faulty
  BY <1>11, DevIs
<1>13. \A r \in past.sent : (r \in Handled => r \in Handled') /\ (r \in Safe => r \in Safe')
  BY <1>9
<1> HIDE DEF ProcessGroupDelivery
<1>14. WorksOn("app", h)
  BY <1>3, <1>4, <1>5, <1>7, <1>8, <1>9, <1>10, <1>11, <1>12, <1>13 DEF WorksOn
<1> QED  BY <1>4, <1>11, <1>14, Works

\* It is buffered; if it opens by now, that is among the accidents.
LEMMA BuffersIs ==
  ASSUME InboxInv, NEW row \in past.sent, Buffers(row)
  PROVE  /\ dev' \in Stores /\ dev'.bound = dev.bound /\ dev'.key = dev.key /\ dev'.opened = dev.opened
         /\ dev'.history = dev.history /\ dev'.used = dev.used
         /\ ToSet(dev'.buffer) = ToSet(dev.buffer) \cup {row}
         /\ Keeps(past') /\ past'.spoilt = past.spoilt /\ past'.keyLost = past.keyLost
         /\ past'.faulty = past.faulty
         /\ \A r \in ToSet(dev'.buffer) : Opens(dev, r)' => r \in past'.raced
<1>1. row \in GroupRow  BY DevIs
<1>2. PICK b \in Seq(GroupRow) : b = Append(dev.buffer, row) /\ ToSet(b) = ToSet(dev.buffer) \cup {row}
  <2>1. dev.buffer \in Seq(GroupRow)  BY DevIs
  <2>2. /\ Append(dev.buffer, row) \in Seq(GroupRow)
        /\ ToSet(Append(dev.buffer, row)) = ToSet(dev.buffer) \cup {row}
    BY <1>1, <2>1, AppendSet
  <2> QED  BY <2>2
<1>3. /\ dev' \in Stores /\ dev'.bound = dev.bound /\ dev'.key = dev.key /\ dev'.opened = dev.opened
      /\ dev'.history = dev.history /\ dev'.used = dev.used /\ dev'.buffer = b
  <2>1. dev' = [dev EXCEPT !.buffer = b]  BY <1>2 DEF Buffers, Buffered
  <2> QED  BY <2>1, DevIs DEF Stores
<1>4. /\ Keeps(past') /\ past'.spoilt = past.spoilt /\ past'.keyLost = past.keyLost
      /\ past'.faulty = past.faulty
      /\ Opens(dev, row) => row \in past'.raced
  <2>1. CASE Opens(dev, row)
    <3>1. past' = [past EXCEPT !.raced = @ \cup {row}]  BY <2>1 DEF Buffers
    <3>2. past.raced \cup {row} \in SUBSET GroupRow  BY <1>1, DevIs DEF Pasts
    <3> QED  BY <3>1, <3>2, DevIs DEF Keeps, Pasts
  <2>2. CASE ~Opens(dev, row)
    <3>1. past' = past  BY <2>2 DEF Buffers
    <3> QED  BY <2>2, <3>1, DevIs
  <2> QED  BY <2>1, <2>2
<1>5. \A r : Opens(dev, r)' <=> Opens(dev, r)  BY <1>3 DEF Opens
<1>6. \A r \in ToSet(dev'.buffer) : Opens(dev, r)' => r \in past'.raced
  <2>1. past.raced \subseteq past'.raced  BY <1>4 DEF Keeps
  <2> QED  BY <1>2, <1>3, <1>4, <1>5, <2>1, DevIs
<1> QED  BY <1>2, <1>3, <1>4, <1>6

LEMMA AppBuffersStep ==
  ASSUME InboxInv, AppBuffers
  PROVE  InboxInv'
<1>0. TypeOK /\ Flow  BY DEF InboxInv
<1>1. PICK row : row = app.hand.row  OBVIOUS
<1>2. /\ app.awake /\ app.hand.at = "buffer" /\ Buffers(row) /\ Puts("app", Holding(row, <<>>))
      /\ UNCHANGED <<peer, dmq, gq, toPush, reg, net>>
  BY <1>1 DEF AppBuffers
<1>3. row \in GroupRow /\ row \in past.sent /\ row \in Rows /\ row \notin Dm /\ app.hand.save = <<>>
  <2>1. HandFits(app.hand) /\ app.hand \in Hands  BY <1>0 DEF Flow, TypeOK, Apps
  <2>2. row \in GroupRow /\ row \in past.sent /\ app.hand.save = <<>>
    BY <1>1, <1>2, <2>1 DEF HandFits
  <2> QED  BY <2>2, RowKinds DEF Rows
<1>4. PICK h \in Hands :
         Puts("app", h) /\ h.row = row /\ h.save = <<>> /\ h.at = "ack"
  <2>1. <<>> \in Seq(Rows)  OBVIOUS
  <2>2. PICK none \in Seq(Rows) : none = <<>>  BY <2>1
  <2>3. row \in Rows \cup {NoRow} /\ Puts("app", Holding(row, none))  BY <1>2, <1>3, <2>2
  <2>4. PICK h \in Hands :
           /\ Puts("app", h) /\ h.row = row /\ h.save = none /\ h.at \in {"ack", "save"}
           /\ h.at = "save" <=> none # <<>>
    BY <2>3, PutsHolding
  <2> QED  BY <2>2, <2>4
<1>5. /\ dev' \in Stores /\ dev'.bound = dev.bound /\ dev'.key = dev.key /\ dev'.opened = dev.opened
      /\ dev'.history = dev.history /\ dev'.used = dev.used
      /\ ToSet(dev'.buffer) = ToSet(dev.buffer) \cup {row}
      /\ Keeps(past') /\ past'.spoilt = past.spoilt /\ past'.keyLost = past.keyLost
      /\ past'.faulty = past.faulty
      /\ \A r \in ToSet(dev'.buffer) : Opens(dev, r)' => r \in past'.raced
  BY <1>2, <1>3, BuffersIs
<1>6. /\ app'.hand = h /\ ext' = ext /\ Hand("app")' = h /\ Hand("ext")' = Hand("ext")
  BY <1>0, <1>4, PutsIs DEF Hand
<1>7. ASSUME NEW g \in Groups, NEW i \in Nat, Coming(g, i)  PROVE Coming(g, i)'
  <2>1. Waiting(g) \subseteq Waiting(g)' /\ dev'.key[g] = dev.key[g]  BY <1>2, <1>5 DEF Waiting
  <2>2. Hand("app").at # "key" /\ Hand("app")'.at # "key"  BY <1>2, <1>4, <1>6 DEF Hand
  <2>3. \A q \in {"app", "ext"} : q # "app" => Hand(q)' = Hand(q)  BY <1>6
  <2>4. "app" \in {"app", "ext"}  OBVIOUS
  <2> QED  BY <1>7, <2>1, <2>2, <2>3, <2>4, ComingBeside
<1>8. Handled \subseteq Handled' /\ Safe \subseteq Safe' /\ row \in Safe'
  <2>1. Held \subseteq Held'  BY <1>3, <1>6, EmptySet DEF Held
  <2>2. Gone \subseteq Gone'  BY <1>5, GoneGrows
  <2> QED  BY <1>5, <2>1, <2>2 DEF Handled, Safe
<1>9. /\ dev'.opened \subseteq 1..past.dms /\ dev.opened \subseteq dev'.opened
      /\ dev'.used \subseteq past.sent /\ ToSet(dev'.buffer) \subseteq past.sent
      /\ dev'.history \subseteq Known /\ dev'.used \subseteq dev.used \cup Handled'
      /\ \A g \in Groups : \A i, j \in dev'.key[g] : i = j
      /\ \A g \in Groups : \A i \in dev'.key[g] : i <= peer.chain[g]
  BY <1>3, <1>5, DevIs
<1>10. /\ Turn("app") /\ "app" \in {"app", "ext"} /\ "app" # "ext"
       /\ net' = net /\ net' \in Nets /\ ToSet(h.save) \subseteq Known
       /\ h.row \notin Dm /\ h.row \in past.sent /\ h.row = row /\ h.save = <<>>
  BY <1>2, <1>3, <1>4, DevIs, EmptySet DEF Turn
<1>11. /\ past.spoilt \subseteq past'.spoilt /\ (past.faulty => past'.faulty)
       /\ \A r \in past.sent : (r \in Handled => r \in Handled') /\ (r \in Safe => r \in Safe')
  BY <1>5, <1>8
<1>12. WorksOn("app", h)
  BY <1>2, <1>4, <1>5, <1>7, <1>8, <1>9, <1>10, <1>11 DEF WorksOn
<1> QED  BY <1>4, <1>10, <1>12, Works

\* What a retry takes from the buffer, and what it leaves there.
LEMMA RetryIs ==
  ASSUME NEW d \in Stores
  PROVE  /\ Recovered(d) \in Seq(Rows)
         /\ ToSet(Recovered(d)) = {row \in ToSet(d.buffer) : Opens(d, row)}
         /\ Kept(d) \in Seq(GroupRow)
         /\ ToSet(Kept(d)) = {row \in ToSet(d.buffer) : ~Opens(d, row) /\ ~Behind(d, row)}
<1>1. PICK b \in Seq(GroupRow) : b = d.buffer  BY DEF Stores
<1>2. PICK N \in Nat : N = Len(b)  BY <1>1
<1>3. DOMAIN b = 1..N /\ \A n \in 1..N : b[n] \in GroupRow  BY <1>2
<1>4. PICK first \in SUBSET (1..N) : first = Openable(d)  BY <1>1, <1>3 DEF Openable
<1>5. \A n \in 1..N : n \in first <=> Opens(d, b[n]) /\ \A i \in 1..(n - 1) : b[i] # b[n]
  BY <1>1, <1>3, <1>4 DEF Openable
<1>6. PICK all \in Seq(1..N) : all = [n \in 1..N |-> n]
  <2>1. [n \in 1..N |-> n] \in Seq(1..N)  OBVIOUS
  <2> QED  BY <2>1
<1>7. DOMAIN all = 1..N /\ (\A n \in 1..N : all[n] = n)  BY <1>6
<1>8. ToSet(all) = 1..N  BY <1>7 DEF ToSet
<1>9. PICK ns \in Seq(1..N) : ns = Only(all, first) /\ ToSet(ns) = first
  <2>1. Only(all, first) \in Seq(1..N) /\ ToSet(Only(all, first)) = ToSet(all) \cap first  BY OnlyIs
  <2> QED  BY <1>8, <2>1
<1>10. Recovered(d) = [k \in DOMAIN ns |-> b[ns[k]]]
  BY <1>1, <1>3, <1>4, <1>6, <1>9 DEF Recovered
<1>11. DOMAIN ns = 1..Len(ns) /\ Len(ns) \in Nat /\ \A k \in DOMAIN ns : ns[k] \in 1..N
  BY <1>9
<1>12. PICK rec : rec = Recovered(d)  OBVIOUS
<1>13. rec \in Seq(GroupRow) /\ DOMAIN rec = DOMAIN ns /\ \A k \in DOMAIN ns : rec[k] = b[ns[k]]
  BY <1>3, <1>10, <1>11, <1>12
<1>14. ASSUME NEW row \in ToSet(rec)  PROVE row \in ToSet(b) /\ Opens(d, row)
  <2>1. PICK k \in DOMAIN ns : row = b[ns[k]]  BY <1>13 DEF ToSet
  <2>2. ns[k] \in first /\ ns[k] \in 1..N  BY <1>9, <1>11 DEF ToSet
  <2> QED  BY <1>3, <1>5, <2>1, <2>2 DEF ToSet
<1>15. ASSUME NEW row \in ToSet(b), Opens(d, row)  PROVE row \in ToSet(rec)
  <2>0. {n \in 1..N : b[n] = row} \in SUBSET Nat  OBVIOUS
  <2>1. PICK T \in SUBSET Nat : T = {n \in 1..N : b[n] = row}  BY <2>0
  <2>2. T # {}  BY <1>3, <2>1 DEF ToSet
  <2>3. PICK n \in T : \A m \in T : n <= m  BY <2>2, LeastNat
  <2>4. n \in 1..N /\ b[n] = row  BY <2>1, <2>3
  <2>5. ASSUME NEW i \in 1..(n - 1)  PROVE b[i] # b[n]
    <3>1. i \in 1..N /\ ~(n <= i)  BY <2>4
    <3> QED  BY <2>1, <2>3, <2>4, <3>1
  <2>6. n \in first  BY <1>5, <1>15, <2>4, <2>5
  <2>7. PICK k \in DOMAIN ns : n = ns[k]  BY <1>9, <2>6 DEF ToSet
  <2>8. rec[k] = row /\ k \in DOMAIN rec  BY <1>13, <2>4, <2>7
  <2> QED  BY <2>8 DEF ToSet
<1>16. ToSet(rec) = {row \in ToSet(b) : Opens(d, row)}  BY <1>14, <1>15
<1>17. /\ Kept(d) \in Seq(GroupRow)
       /\ ToSet(Kept(d)) = ToSet(b) \cap {row \in ToSet(b) : ~Opens(d, row) /\ ~Behind(d, row)}
  <2>1. Kept(d) = Only(b, {row \in ToSet(b) : ~Opens(d, row) /\ ~Behind(d, row)})
    BY <1>1 DEF Kept
  <2> QED  BY <2>1, OnlyIs
<1>18. rec \in Seq(Rows)  BY <1>13 DEF Rows
<1> QED  BY <1>1, <1>12, <1>16, <1>17, <1>18

\* A key is installed, and with it opened what has waited for it.
LEMMA SkdmStep ==
  ASSUME InboxInv, NEW p \in {"app", "ext"}, ProcessSkdm(p)
  PROVE  InboxInv'
<1>0. TypeOK /\ Flow  BY DEF InboxInv
<1>1. /\ Turn(p) /\ Hand(p).at = "key" /\ UNCHANGED <<peer, dmq, gq, toPush, reg, net>>
      /\ past' = [past EXCEPT !.overtaken = @ \cup Overtaken(Hand(p).row)]
      /\ dev' = Retry(Installed(dev, Hand(p).row)).dev
      /\ Puts(p, Holding(Hand(p).row, Retry(Installed(dev, Hand(p).row)).rows))
  BY DEF ProcessSkdm
<1>2. /\ Hand(p).row \in Dm /\ Hand(p).row.kind = "key" /\ Hand(p).row.id \in dev.opened
      /\ Hand(p).save = <<>>
      /\ p = "ext" => ext.at = "dms" /\ ext.left # <<>> /\ Hand(p).row = Head(ext.left)
  <2>1. Hand(p).row \in Rows \cup {NoRow} /\ HandFits(Hand(p))  BY <1>1, AtWork
  <2>2. Hand(p).row.kind = "key" /\ Hand(p).save = <<>>  BY <1>1, <2>1 DEF HandFits
  <2>3. Hand(p).row \in Dm  BY <2>1, <2>2, RowKinds DEF Rows
  <2>4. p = "ext" => ext.at = "dms" /\ ext.left # <<>> /\ Hand(p).row = Head(ext.left)
    BY <1>1, AtWork
  <2> QED  BY <2>1, <2>2, <2>3, <2>4 DEF HandFits
<1>3. Hand(p).row.iter <= peer.chain[Hand(p).row.group]  BY <1>0, <1>1 DEF Flow, KeysFit
<1>4. PICK dm \in Dm : dm = Hand(p).row  BY <1>2
<1>5. PICK g0 \in Groups : g0 = dm.group  BY <1>2, <1>4, RowKinds
<1>6. dm.iter \in Nat /\ dm \in Rows /\ dm \notin GroupRow  BY RowKinds DEF Rows
<1>7. PICK d : d = Installed(dev, dm)  OBVIOUS
<1> DEFINE start == IF dev.key[g0] = {} THEN {dm.iter} ELSE dev.key[g0]
<1>8. /\ d \in Stores /\ d.bound = dev.bound /\ d.used = dev.used /\ d.opened = dev.opened
      /\ d.buffer = dev.buffer /\ d.history = dev.history
      /\ d.key[g0] = start /\ \A g \in Groups : g # g0 => d.key[g] = dev.key[g]
  <2>1. start \in SUBSET Nat  BY <1>6, DevIs
  <2>2. d = [dev EXCEPT !.key[g0] = start]  BY <1>5, <1>7 DEF Installed
  <2> HIDE DEF start
  <2>3. d = [dev EXCEPT !.key = [dev.key EXCEPT ![g0] = start]]  BY <2>2, DevIs DEF Stores
  <2>4. PICK k \in [Groups -> SUBSET Nat] : k = [dev.key EXCEPT ![g0] = start]  BY <2>1, DevIs
  <2>5. k[g0] = start /\ \A g \in Groups : g # g0 => k[g] = dev.key[g]  BY <2>4, DevIs
  <2>6. d = [dev EXCEPT !.key = k]  BY <2>3, <2>4
  <2>7. /\ d \in Stores /\ d.bound = dev.bound /\ d.used = dev.used /\ d.opened = dev.opened
        /\ d.buffer = dev.buffer /\ d.history = dev.history /\ d.key = k
    BY <2>6, DevIs DEF Stores
  <2> QED  BY <2>5, <2>7
<1>9. PICK rec \in Seq(Rows) : rec = Recovered(d) /\ ToSet(rec) = {row \in ToSet(dev.buffer) : Opens(d, row)}
  BY <1>8, RetryIs
<1>10. PICK kept \in Seq(GroupRow) :
          /\ kept = Kept(d)
          /\ ToSet(kept) = {row \in ToSet(dev.buffer) : ~Opens(d, row) /\ ~Behind(d, row)}
  BY <1>8, RetryIs
<1>11. ToSet(rec) \subseteq past.sent /\ ToSet(kept) \subseteq past.sent /\ past.sent \subseteq GroupRow
  BY <1>9, <1>10, DevIs
<1>12. /\ dev' \in Stores /\ dev'.bound = dev.bound /\ dev'.opened = dev.opened /\ dev'.history = dev.history
       /\ dev'.key = d.key /\ dev'.buffer = kept /\ dev'.used = dev.used \cup ToSet(rec)
  <2>1. dev' = [[d EXCEPT !.used = @ \cup ToSet(rec)] EXCEPT !.buffer = kept]
    BY <1>1, <1>4, <1>7, <1>9, <1>10 DEF Retry, Used
  <2>2. PICK used \in SUBSET GroupRow : used = dev.used \cup ToSet(rec)  BY <1>11, DevIs
  <2>3. dev' = [[d EXCEPT !.used = used] EXCEPT !.buffer = kept]  BY <1>8, <2>1, <2>2
  <2>4. /\ dev' \in Stores /\ dev'.bound = d.bound /\ dev'.opened = d.opened /\ dev'.history = d.history
        /\ dev'.key = d.key /\ dev'.buffer = kept /\ dev'.used = used
    BY <1>8, <2>3 DEF Stores
  <2> QED  BY <1>8, <2>2, <2>4
<1>13. dm \in Rows \cup {NoRow} /\ Puts(p, Holding(dm, rec))
  BY <1>1, <1>4, <1>6, <1>7, <1>9 DEF Retry
<1>14. PICK h \in Hands :
          /\ Puts(p, h) /\ h.row = dm /\ h.save = rec /\ h.at \in {"ack", "save"}
          /\ h.at = "save" <=> rec # <<>>
  BY <1>13, PutsHolding
<1>15. /\ Hand(p)' = h /\ ext'.got = ext.got
       /\ app'.hand = IF p = "app" THEN h ELSE app.hand
       /\ ext'.hand = IF p = "ext" THEN h ELSE ext.hand
  BY <1>0, <1>14, PutsIs
<1>16. \A q \in {"app", "ext"} : q # p => Hand(q)' = Hand(q)  BY <1>15 DEF Hand
<1>28. /\ Keeps(past') /\ past'.spoilt = past.spoilt /\ past'.keyLost = past.keyLost
       /\ past'.faulty = past.faulty /\ Overtaken(dm) \subseteq Gone'
  <2>1. Overtaken(dm) \in SUBSET GroupRow  BY <1>11 DEF Overtaken
  <2>2. past.overtaken \cup Overtaken(dm) \in SUBSET GroupRow  BY <2>1, DevIs DEF Pasts
  <2>3. past' = [past EXCEPT !.overtaken = past.overtaken \cup Overtaken(dm)]  BY <1>1, <1>4
  <2>4. past'.overtaken = past.overtaken \cup Overtaken(dm)  BY <2>3, DevIs DEF Pasts
  <2>5. /\ Keeps(past') /\ past'.spoilt = past.spoilt /\ past'.keyLost = past.keyLost
        /\ past'.faulty = past.faulty
    BY <2>2, <2>3, DevIs DEF Keeps, Pasts
  <2> QED  BY <2>4, <2>5 DEF Gone
\* If an earlier key is in the other hand, the rows in between are lost.
<1>29. ASSUME NEW i \in Nat, Due(g0, i)', Coming(g0, i), dev.key[g0] = {}  PROVE dm.iter <= i
  <2>0. p \in AtKey(g0)  BY <1>1, <1>4, <1>5 DEF AtKey
  <2>1. PICK q \in AtKey(g0) : Hand(q).row.iter <= i  BY <1>29, <2>0 DEF Coming
  <2>2. SUFFICES ASSUME i < dm.iter  PROVE FALSE  BY <1>6
  <2>3. CASE i = peer.chain[g0]
    <3>1. dm.iter <= peer.chain[g0]  BY <1>3, <1>4, <1>5
    <3> QED  BY <1>6, <2>2, <2>3, <3>1
  <2>4. CASE \E row \in past'.sent \ Gone' : row.group = g0 /\ row.iter = i
    <3>1. PICK row \in past'.sent \ Gone' : row.group = g0 /\ row.iter = i  BY <2>4
    <3>2. row \in past.sent  BY <1>28 DEF Keeps
    <3>3. q \in {"app", "ext"} /\ Hand(q).at = "key" /\ Hand(q).row.group = g0  BY <2>1 DEF AtKey
    <3>4. row \in Overtaken(dm)
      BY <1>5, <1>29, <2>1, <2>2, <3>1, <3>2, <3>3 DEF Overtaken
    <3> QED  BY <1>28, <3>1, <3>4
  <2>5. peer' = peer  BY <1>1
  <2> QED  BY <1>29, <2>3, <2>4, <2>5 DEF Due
<1>17. ASSUME NEW g \in Groups, NEW i \in Nat, Due(g, i)', Coming(g, i)  PROVE Coming(g, i)'
  <2>1. CASE g = g0
    <3>2. dev.key[g] = {} => dm.iter <= i  BY <1>17, <1>29, <2>1
    <3>3. dev'.key[g] = start  BY <1>8, <1>12, <2>1
    <3>4. CASE dev.key[g] = {}
      <4>1. dev'.key[g] = {dm.iter}  BY <2>1, <3>3, <3>4
      <4> QED  BY <3>2, <3>4, <4>1 DEF Coming
    <3>5. CASE dev.key[g] # {}
      <4>1. dev'.key[g] = dev.key[g]  BY <2>1, <3>3, <3>5
      <4> QED  BY <1>17, <3>5, <4>1 DEF Coming
    <3> QED  BY <3>4, <3>5
  <2>2. CASE g # g0
    <3>1. dev'.key[g] = dev.key[g] /\ Waiting(g)' = Waiting(g)
      BY <1>1, <1>8, <1>12, <2>2 DEF Waiting
    <3>2. AtKey(g)' = AtKey(g) /\ \A q \in AtKey(g) : Hand(q)' = Hand(q)
      <4>1. p \notin AtKey(g) /\ p \notin AtKey(g)'  BY <1>4, <1>5, <1>14, <1>15, <2>2 DEF AtKey
      <4> QED  BY <1>16, <4>1 DEF AtKey
    <3>3. CASE dev.key[g] # {}  BY <1>17, <3>1, <3>3 DEF Coming
    <3>4. CASE dev.key[g] = {} /\ AtKey(g) # {}  BY <1>17, <3>1, <3>2, <3>4 DEF Coming
    <3>5. CASE dev.key[g] = {} /\ AtKey(g) = {}  BY <1>17, <3>1, <3>2, <3>5 DEF Coming
    <3> QED  BY <3>3, <3>4, <3>5
  <2> QED  BY <2>1, <2>2
<1>18. ASSUME NEW row \in ToSet(dev'.buffer)  PROVE ~Opens(dev, row)'
  <2>1. ~Opens(d, row)  BY <1>10, <1>12
  <2> QED  BY <1>8, <1>12, <2>1 DEF Opens
<1>19. Held \subseteq Held' /\ ToSet(rec) \subseteq Held'
  <2>1. CASE p = "app"
    <3>1. app.hand.save = <<>>  BY <1>2, <2>1 DEF Hand
    <3> QED  BY <1>14, <1>15, <2>1, <3>1, EmptySet DEF Held
  <2>2. CASE p = "ext"
    <3>1. ext.hand.save = <<>>  BY <1>2, <2>2 DEF Hand
    <3> QED  BY <1>14, <1>15, <2>2, <3>1, EmptySet DEF Held
  <2> QED  BY <2>1, <2>2
<1>20. Handled \subseteq Handled' /\ ToSet(rec) \subseteq Handled'
  <2>1. Gone \subseteq Gone'  BY <1>28, GoneGrows
  <2> QED  BY <1>12, <1>19, <2>1 DEF Handled
<1>21. ASSUME ~past.keyLost, NEW row \in past.sent, row \in ToSet(dev.buffer)
       PROVE  row \in Safe'
  <2>1. row \in GroupRow /\ row.group \in Groups /\ row.iter \in Nat  BY <1>11, RowKinds
  <2>2. CASE Opens(d, row)
    <3>1. row \in ToSet(rec)  BY <1>9, <1>21, <2>2
    <3> QED  BY <1>20, <3>1 DEF Safe
  <2>3. CASE ~Opens(d, row) /\ ~Behind(d, row)
    <3>1. row \in ToSet(kept)  BY <1>10, <1>21, <2>3
    <3> QED  BY <1>12, <3>1 DEF Safe
  <2>4. CASE ~Opens(d, row) /\ Behind(d, row)
    <3>1. d.key[row.group] # {}  BY <2>4 DEF Behind
    <3>2. CASE row \in dev.used
      <4>1. row \in Handled  BY <1>0, <1>21, <3>2 DEF Flow, Safely
      <4> QED  BY <1>20, <4>1 DEF Safe
    <3>3. CASE row \in Gone'
      BY <3>3 DEF Handled, Safe
    <3>4. CASE row \notin dev.used /\ row \notin Gone'
      <4>0. Gone \subseteq Gone' /\ past'.sent = past.sent  BY <1>28, GoneGrows DEF Keeps
      <4>1. Due(row.group, row.iter) /\ Due(row.group, row.iter)'  BY <3>4, <4>0 DEF Due
      <4>2. Coming(row.group, row.iter)  BY <1>0, <1>21, <2>1, <4>1 DEF Flow, KeysCome
      <4>3. Coming(row.group, row.iter)'  BY <1>17, <2>1, <4>1, <4>2
      <4>4. PICK s \in d.key[row.group] : TRUE  BY <3>1
      <4>5. s <= row.iter /\ s \in Nat
        <5>1. d.key[row.group] \in SUBSET Nat  BY <1>8, <2>1 DEF Stores
        <5>2. \A x \in d.key[row.group] : x <= row.iter  BY <1>12, <3>1, <4>3 DEF Coming
        <5> QED  BY <4>4, <5>1, <5>2
      <4>6. row.iter >= s  BY <2>1, <4>5
      <4>7. Opens(d, row)  BY <1>8, <3>4, <4>4, <4>6 DEF Opens
      <4> QED  BY <2>4, <4>7
    <3> QED  BY <3>2, <3>3, <3>4
  <2> QED  BY <2>2, <2>3, <2>4
<1>22. ~past.keyLost =>
         /\ \A row \in past.sent : row \in Handled => row \in Handled'
         /\ \A row \in past.sent : row \in Safe => row \in Safe'
         /\ dev'.used \subseteq dev.used \cup Handled'
         /\ p = "app" /\ h.row \in GroupRow /\ h.at # "buffer" => h.row \in Safe'
  <2>1. SUFFICES ASSUME ~past.keyLost
                 PROVE  \A row \in past.sent : row \in Safe => row \in Safe'
    BY <1>6, <1>12, <1>14, <1>20
  <2>2. ASSUME NEW row \in past.sent, row \in Handled  PROVE row \in Safe'
    BY <1>20, <2>2 DEF Safe
  <2> QED  BY <1>21, <2>1, <2>2 DEF Safe
<1>23. /\ \A g \in Groups : \A i, j \in dev'.key[g] : i = j
       /\ \A g \in Groups : \A i \in dev'.key[g] : i <= peer.chain[g]
  <2>1. dev'.key[g0] = start /\ \A g \in Groups : g # g0 => dev'.key[g] = dev.key[g]
    BY <1>8, <1>12
  <2>2. dm.iter <= peer.chain[g0]  BY <1>3, <1>4, <1>5
  <2>3. ASSUME NEW g \in Groups
        PROVE  (\A i, j \in dev'.key[g] : i = j) /\ (\A i \in dev'.key[g] : i <= peer.chain[g])
    <3>1. CASE g = g0 /\ dev.key[g0] = {}
      <4>1. dev'.key[g] = {dm.iter}  BY <2>1, <3>1
      <4> QED  BY <2>2, <3>1, <4>1
    <3>2. CASE ~(g = g0 /\ dev.key[g0] = {})
      <4>1. dev'.key[g] = dev.key[g]  BY <2>1, <3>2
      <4> QED  BY <4>1, DevIs
    <3> QED  BY <3>1, <3>2
  <2> QED  BY <2>3
<1>24. /\ net' = net /\ net' \in Nets /\ UNCHANGED <<peer, dmq, gq, toPush, reg>>
       /\ Keeps(past') /\ past.spoilt \subseteq past'.spoilt /\ past'.keyLost = past.keyLost
       /\ past.faulty => past'.faulty
  BY <1>1, <1>28, DevIs
<1>25. /\ dev'.opened \subseteq 1..past.dms /\ dev.opened \subseteq dev'.opened
       /\ dev'.used \subseteq past.sent /\ ToSet(dev'.buffer) \subseteq past.sent /\ dev'.history \subseteq Known
  BY <1>11, <1>12, DevIs
<1>26. /\ h.at # "idle" /\ h.at # "key" /\ h.at # "buffer" /\ (h.at = "save" <=> h.save # <<>>)
       /\ h.row \notin GroupRow /\ h.row.id \in dev'.opened /\ ToSet(h.save) \subseteq Known
       /\ p = "ext" => ext.at = "dms" /\ ext.left # <<>> /\ h.row = Head(ext.left)
  BY <1>2, <1>4, <1>6, <1>11, <1>12, <1>14 DEF Known
<1>27. WorksOn(p, h)
  BY <1>1, <1>12, <1>14, <1>17, <1>18, <1>22, <1>23, <1>24, <1>25, <1>26 DEF WorksOn
<1> QED  BY <1>27, Works

----------------------------------------------------------------------------
(* The extension on the rows of one pseudonym *)

\* It turns to the next row, of which it has kept what it opened.
LEMMA ExtReads ==
  ASSUME InboxInv, UNCHANGED <<peer, dmq, gq, toPush, reg, net, app>>, Keeps(past'),
         past'.spoilt = past.spoilt, past'.keyLost = past.keyLost, past'.faulty = past.faulty,
         ext.at \in {"rows", "failed"}, ext' \in Exts, ext'.at \in {"rows", "failed"},
         ext'.hand = ext.hand, ext'.batch = ext.batch,
         ToSet(ext'.left) \subseteq ToSet(ext.left), ToSet(ext.got) \subseteq ToSet(ext'.got),
         ToSet(ext'.got) \subseteq past.sent,
         dev' \in Stores, dev'.bound = dev.bound, dev'.opened = dev.opened, dev'.key = dev.key,
         dev'.history = dev.history, dev.used \subseteq dev'.used, dev'.used \subseteq past.sent,
         dev'.used \subseteq dev.used \cup ToSet(ext'.got),
         ToSet(dev.buffer) \subseteq ToSet(dev'.buffer), ToSet(dev'.buffer) \subseteq past.sent,
         \A row \in ToSet(ext.left) : row \in ToSet(ext'.left) \/ row \in ToSet(ext'.got) \cup ToSet(dev'.buffer),
         \A row \in ToSet(dev'.buffer) : Opens(dev, row)' => row \in past'.raced,
         ext'.at = "failed" => ext'.left # <<>>
  PROVE  InboxInv'
<1>0. TypeOK /\ Subscribes /\ Shares /\ Flow  BY DEF InboxInv
<1>1. TypeOK'  BY <1>0 DEF TypeOK, Keeps
<1>2. Subscribes' /\ Shares'  BY <1>0 DEF Subscribes, Latest, Shares, Keeps
<1>3. ext.hand = Free  BY <1>0 DEF Flow, ExtFits
<1>4. Known' = Known /\ Held \subseteq Held' /\ Gone \subseteq Gone'
  BY GoneGrows DEF Known, Held, Keeps
<1>5. Handled \subseteq Handled' /\ Safe \subseteq Safe' /\ ToSet(ext'.got) \subseteq Handled'
  BY <1>4 DEF Handled, Safe, Held
<1>6. HandFits(app.hand)' /\ HandFits(ext.hand)'
  BY <1>0, <1>4 DEF Flow, HandFits, Keeps
<1>7. ExtFits'  BY <1>0, <1>3 DEF Flow, ExtFits, Keeps
<1>8. ExtDms'  BY DEF ExtDms
<1>9. StoreFits' /\ DmqFits'  BY <1>0, <1>4 DEF Flow, StoreFits, DmqFits, Keeps
<1>10. \A p \in {"app", "ext"} : Hand(p)' = Hand(p)  BY DEF Hand
<1>11. KeysFit'  BY <1>0, <1>10 DEF Flow, KeysFit, Keeps
<1>12. \A g, i : Coming(g, i)' <=> Coming(g, i)  BY <1>10 DEF Coming, AtKey, Waiting
<1>13. KeysCome'  BY <1>0, <1>4, <1>12 DEF Flow, KeysCome, Due, Keeps
<1>14. Awaits'  BY DEF Awaits
<1>15. Safely'
  <2> SUFFICES ASSUME ~past.keyLost
               PROVE  /\ past.sent \subseteq ToSet(gq) \cup Safe' /\ dev'.used \subseteq Handled'
                      /\ app.hand.row \in GroupRow /\ app.hand.at # "buffer" => app.hand.row \in Safe'
                      /\ ToSet(ext'.batch) \subseteq ToSet(ext'.left) \cup Safe'
    BY DEF Safely, Keeps
  <2>1. Safely  BY <1>0 DEF Flow
  <2>2. past.sent \subseteq ToSet(gq) \cup Safe'  BY <1>5, <2>1 DEF Safely
  <2>3. dev'.used \subseteq Handled'  BY <1>5, <2>1 DEF Safely
  <2>4. ToSet(ext'.got) \cup ToSet(dev'.buffer) \subseteq Safe'  BY <1>5 DEF Safe
  <2>5. ToSet(ext.batch) \subseteq ToSet(ext.left) \cup Safe  BY <2>1 DEF Safely
  <2>6. ToSet(ext'.batch) \subseteq ToSet(ext'.left) \cup Safe'  BY <1>5, <2>4, <2>5
  <2>7. app.hand.row \in GroupRow /\ app.hand.at # "buffer" => app.hand.row \in Safe'
    BY <1>5, <2>1 DEF Safely
  <2> QED  BY <2>2, <2>3, <2>6, <2>7
<1> QED  BY <1>1, <1>2, <1>6, <1>7, <1>8, <1>9, <1>11, <1>13, <1>14, <1>15 DEF InboxInv, Flow

\* The row at the head of what is left of the poll.
LEMMA ExtAtRow ==
  ASSUME InboxInv, ext.at \in {"rows", "failed"}, ext.left # <<>>
  PROVE  /\ Head(ext.left) \in past.sent /\ Head(ext.left) \in GroupRow /\ Head(ext.left) \in Rows
         /\ Tail(ext.left) \in Seq(Rows)
         /\ ToSet(ext.left) = {Head(ext.left)} \cup ToSet(Tail(ext.left))
         /\ ToSet(ext.got) \subseteq past.sent
<1>1. /\ Tail(ext.left) \in Seq(Rows) /\ ToSet(ext.left) = {Head(ext.left)} \cup ToSet(Tail(ext.left))
      /\ Head(ext.left) \in Rows
  BY ExtIs, HeadTailSet
<1>2. ToSet(ext.left) \subseteq past.sent /\ ToSet(ext.got) \subseteq past.sent
  BY ExtIs DEF ExtFits
<1> QED  BY <1>1, <1>2, DevIs

LEMMA ExtOpensStep ==
  ASSUME InboxInv, ExtOpensRow
  PROVE  InboxInv'
<1>1. /\ ext.at = "rows" /\ ext.left # <<>> /\ UNCHANGED <<peer, dmq, gq, toPush, reg, net, app, past>>
      /\ \/ /\ Opens(dev, Head(ext.left)) /\ dev' = Used(dev, {Head(ext.left)})
            /\ ext' = [ext EXCEPT !.got = Append(@, Head(ext.left)), !.left = Tail(@)]
         \/ ~Opens(dev, Head(ext.left)) /\ ext' = [ext EXCEPT !.at = "failed"] /\ UNCHANGED dev
  BY DEF ExtOpensRow
<1>2. PICK row \in GroupRow : row = Head(ext.left) /\ row \in past.sent  BY <1>1, ExtAtRow
<1>3. PICK rest \in Seq(Rows) :
         rest = Tail(ext.left) /\ ToSet(ext.left) = {row} \cup ToSet(rest) /\ ToSet(ext.got) \subseteq past.sent
  BY <1>1, <1>2, ExtAtRow
<1>4. CASE Opens(dev, row)
  <2>1. /\ dev' = [dev EXCEPT !.used = @ \cup {row}]
        /\ ext' = [ext EXCEPT !.got = Append(@, row), !.left = rest]
    BY <1>1, <1>2, <1>3, <1>4 DEF Used
  <2>2. PICK got \in Seq(GroupRow) : got = Append(ext.got, row) /\ ToSet(got) = ToSet(ext.got) \cup {row}
    <3>1. ext.got \in Seq(GroupRow)  BY ExtIs
    <3>2. Append(ext.got, row) \in Seq(GroupRow) /\ ToSet(Append(ext.got, row)) = ToSet(ext.got) \cup {row}
      BY <3>1, AppendSet
    <3> QED  BY <3>2
  <2>3. ext' = [ext EXCEPT !.got = got, !.left = rest]  BY <2>1, <2>2
  <2>4. /\ ext' \in Exts /\ ext'.at = ext.at /\ ext'.hand = ext.hand /\ ext'.batch = ext.batch
        /\ ext'.left = rest /\ ext'.got = got
    BY <2>3, ExtIs DEF Exts, Rows
  <2>5. /\ dev' \in Stores /\ dev'.bound = dev.bound /\ dev'.opened = dev.opened /\ dev'.key = dev.key
        /\ dev'.history = dev.history /\ dev'.used = dev.used \cup {row} /\ dev'.buffer = dev.buffer
    BY <2>1, DevIs DEF Stores
  <2>6. /\ \A r \in ToSet(dev'.buffer) : Opens(dev, r)' => r \in past'.raced
        /\ Keeps(past')
    <3>1. \A r : Opens(dev, r)' => Opens(dev, r)  BY <2>5 DEF Opens
    <3> QED  BY <1>1, <2>5, <3>1, DevIs
  <2>7. /\ ToSet(ext'.left) \subseteq ToSet(ext.left) /\ ToSet(ext.got) \subseteq ToSet(ext'.got)
        /\ ToSet(ext'.got) \subseteq past.sent
        /\ dev.used \subseteq dev'.used /\ dev'.used \subseteq past.sent
        /\ dev'.used \subseteq dev.used \cup ToSet(ext'.got)
        /\ ToSet(dev.buffer) \subseteq ToSet(dev'.buffer) /\ ToSet(dev'.buffer) \subseteq past.sent
        /\ \A r \in ToSet(ext.left) : r \in ToSet(ext'.left) \/ r \in ToSet(ext'.got) \cup ToSet(dev'.buffer)
    BY <1>2, <1>3, <2>2, <2>4, <2>5, DevIs
  <2> QED  BY <1>1, <2>4, <2>5, <2>6, <2>7, ExtReads
<1>5. CASE ~Opens(dev, row)
  <2>1. ext' = [ext EXCEPT !.at = "failed"] /\ dev' = dev  BY <1>1, <1>2, <1>5
  <2>2. /\ ext' \in Exts /\ ext'.at = "failed" /\ ext'.hand = ext.hand /\ ext'.batch = ext.batch
        /\ ext'.left = ext.left /\ ext'.got = ext.got
    BY <2>1, ExtIs DEF Exts
  <2>4. /\ \A r \in ToSet(dev'.buffer) : Opens(dev, r)' => r \in past'.raced
        /\ Keeps(past')
    BY <1>1, <2>1, DevIs DEF Opens
  <2>5. ToSet(dev.buffer) \subseteq past.sent /\ dev.used \subseteq past.sent /\ dev \in Stores
    BY DevIs
  <2> QED  BY <1>1, <1>3, <2>1, <2>2, <2>4, <2>5, ExtReads
<1> QED  BY <1>4, <1>5

LEMMA ExtBuffersStep ==
  ASSUME InboxInv, ExtBuffers
  PROVE  InboxInv'
<1>1. /\ ext.at = "failed" /\ UNCHANGED <<peer, dmq, gq, toPush, reg, net, app>>
      /\ Buffers(Head(ext.left))
      /\ ext' = [ext EXCEPT !.at = "rows", !.left = Tail(@)]
  BY DEF ExtBuffers
<1>2. ext.left # <<>>
  <2>1. Awaits  BY DEF InboxInv, Flow
  <2> QED  BY <1>1, <2>1 DEF Awaits
<1>3. PICK row \in GroupRow : row = Head(ext.left) /\ row \in past.sent
  BY <1>1, <1>2, ExtAtRow
<1>4. PICK rest \in Seq(Rows) :
         rest = Tail(ext.left) /\ ToSet(ext.left) = {row} \cup ToSet(rest) /\ ToSet(ext.got) \subseteq past.sent
  BY <1>1, <1>2, <1>3, ExtAtRow
<1>6. /\ dev' \in Stores /\ dev'.bound = dev.bound /\ dev'.opened = dev.opened /\ dev'.key = dev.key
      /\ dev'.history = dev.history /\ dev'.used = dev.used
      /\ ToSet(dev'.buffer) = ToSet(dev.buffer) \cup {row}
      /\ Keeps(past') /\ past'.spoilt = past.spoilt /\ past'.keyLost = past.keyLost
      /\ past'.faulty = past.faulty
      /\ \A r \in ToSet(dev'.buffer) : Opens(dev, r)' => r \in past'.raced
  BY <1>1, <1>3, BuffersIs
<1>7. /\ ext' \in Exts /\ ext'.at = "rows" /\ ext'.hand = ext.hand /\ ext'.batch = ext.batch
      /\ ext'.left = rest /\ ext'.got = ext.got
  <2>1. ext' = [ext EXCEPT !.at = "rows", !.left = rest]  BY <1>1, <1>4
  <2> QED  BY <2>1, ExtIs DEF Exts, Rows
<1>9. /\ ToSet(ext'.left) \subseteq ToSet(ext.left) /\ ToSet(ext.got) \subseteq ToSet(ext'.got)
      /\ ToSet(ext'.got) \subseteq past.sent
      /\ dev.used \subseteq dev'.used /\ dev'.used \subseteq past.sent
      /\ dev'.used \subseteq dev.used \cup ToSet(ext'.got)
      /\ ToSet(dev.buffer) \subseteq ToSet(dev'.buffer) /\ ToSet(dev'.buffer) \subseteq past.sent
      /\ \A r \in ToSet(ext.left) : r \in ToSet(ext'.left) \/ r \in ToSet(ext'.got) \cup ToSet(dev'.buffer)
  BY <1>3, <1>4, <1>6, <1>7, DevIs
<1>10. ext'.at # "failed" /\ ext.at \in {"rows", "failed"} /\ ext'.at \in {"rows", "failed"}
  BY <1>1, <1>7
<1> QED  BY <1>1, <1>6, <1>7, <1>9, <1>10, ExtReads

----------------------------------------------------------------------------
(* The invariant *)

LEMMA InboxBegins == Init => InboxInv
<1> SUFFICES ASSUME Init  PROVE InboxInv
  OBVIOUS
<1>1. PICK l \in Limits :
    /\ peer = [chain |-> [g \in Groups |-> 0], shared |-> {}, session |-> 0,
               knows |-> {}, at |-> "idle", group |-> "none", try |-> 1,
               saw |-> 0]
    /\ dmq = [n \in 1..l.texts |-> Row(n, "text", "none", 0)] /\ gq = <<>> /\ toPush = NoRow
    /\ reg = 1
    /\ dev = NewStore
    /\ net = Offline
    /\ app = [awake |-> TRUE, nudge |-> FALSE, hand |-> Free]
    /\ ext = Asleep
    /\ past = [limit |-> l, sent |-> {}, dms |-> l.texts, joined |-> {}, keyed |-> {},
               keyless |-> {}, unshared |-> {}, spoilt |-> {}, shadowed |-> {}, raced |-> {},
               overtaken |-> {}, keyLost |-> FALSE, greeted |-> FALSE,
               upsets |-> 0, beside |-> 0, faulty |-> FALSE]
  BY DEF Init
<1>2. l \in LimitType /\ l.texts \in Nat  BY BoundsAssumption DEF LimitType
<1>3. peer \in Peers /\ peer.at = "idle" /\ peer.shared = {} /\ peer.knows = {}
      /\ peer.session = 0 /\ peer.saw = 0 /\ peer.chain \in [Groups -> Nat]
  BY <1>1 DEF Peers
<1>4. /\ dmq \in Seq(Dm) /\ DOMAIN dmq = 1..l.texts
      /\ \A n \in 1..l.texts : dmq[n] = Row(n, "text", "none", 0)
  <2>1. \A n \in 1..l.texts : n \in Nat  BY <1>2
  <2>2. \A n \in 1..l.texts : Row(n, "text", "none", 0) \in Dm  BY <2>1, RowKinds
  <2>3. [n \in 1..l.texts |-> Row(n, "text", "none", 0)] \in Seq(Dm)  BY <1>2, <2>2
  <2> QED  BY <1>1, <1>2, <2>3
<1>5. ASSUME NEW m \in 1..l.texts  PROVE dmq[m].id = m /\ dmq[m].kind = "text"
  <2>1. dmq[m] = Row(m, "text", "none", 0)  BY <1>4
  <2>2. dmq[m] = [id |-> m, kind |-> "text", group |-> "none", iter |-> 0]  BY <2>1 DEF Row
  <2> QED  BY <2>2
<1>6. /\ dev \in Stores /\ dev.bound = {} /\ dev.key = [g \in Groups |-> {}] /\ dev.used = {}
      /\ dev.opened = {} /\ dev.buffer = <<>> /\ dev.history = {}
  BY <1>1 DEF NewStore, Stores
<1>7. app \in Apps /\ app.awake /\ app.hand = Free  BY <1>1, HandTypes DEF Apps
<1>8. /\ net \in Nets /\ net = Offline /\ ~net.up /\ net.subs = {} /\ net.frames = <<>>
  BY <1>1 DEF Offline, Nets
<1>9. /\ ext \in Exts /\ ext = Asleep /\ ext.at = "idle" /\ ext.hand = Free /\ ext.got = <<>>
      /\ ext.batch = <<>> /\ ext.left = <<>>
  BY <1>1, HandTypes DEF Asleep, Exts
<1>10. /\ past \in Pasts /\ past.sent = {} /\ past.dms = l.texts /\ past.keyed = {} /\ past.keyless = {}
       /\ past.unshared = {} /\ past.spoilt = {} /\ ~past.keyLost
  BY <1>1, <1>2 DEF Pasts
<1>11. TypeOK
  <2>1. IsFiniteSet({}) /\ ToSet(gq) = {} /\ gq \in Seq(GroupRow)  BY <1>1, EmptySet, FS_EmptySet
  <2>2. ToSet(net.frames) = {}  BY <1>8, EmptySet
  <2> QED  BY <1>1, <1>3, <1>4, <1>6, <1>7, <1>8, <1>9, <1>10, <2>1, <2>2 DEF TypeOK
<1>12. Subscribes  BY <1>8 DEF Subscribes
<1>13. Shares  BY <1>3, <1>10 DEF Shares
<1>14. HandFits(app.hand) /\ HandFits(ext.hand)  BY <1>7, <1>9, FreeFits
<1>15. ExtFits /\ ExtDms  BY <1>9, EmptySet DEF ExtFits, ExtDms
<1>16. StoreFits  BY <1>6, <1>10, EmptySet DEF StoreFits
<1>17. DmqFits  BY <1>2, <1>4, <1>5, <1>10 DEF DmqFits
<1>18. KeysFit
  <2>1. \A p \in {"app", "ext"} : Hand(p).at # "key"  BY <1>7, <1>9, HandTypes DEF Hand
  <2> QED  BY <1>4, <1>5, <1>6, <1>10, <2>1 DEF KeysFit
<1>19. KeysCome  BY <1>10 DEF KeysCome, Due
<1>20. Awaits  BY <1>6, <1>9, EmptySet DEF Awaits
<1>21. Safely
  <2>1. app.hand.row \notin GroupRow  BY <1>7, HandTypes, RowKinds DEF Rows
  <2> QED  BY <1>6, <1>9, <1>10, <2>1 DEF Safely
<1> QED  BY <1>11, <1>12, <1>13, <1>14, <1>15, <1>16, <1>17, <1>18, <1>19, <1>20, <1>21 DEF InboxInv, Flow

LEMMA InboxStays ==
  ASSUME InboxInv, UNCHANGED vars
  PROVE  InboxInv'
<1>1. UNCHANGED <<peer, dmq, gq, toPush, reg, dev, net, app, ext, past>>  BY DEF vars
<1>2. TypeOK'  BY <1>1 DEF InboxInv, TypeOK
<1>3. Subscribes' /\ Shares'  BY <1>1 DEF InboxInv, Subscribes, Latest, Shares
<1>5. Flow'  BY <1>1, FlowStays DEF InboxInv
<1> QED  BY <1>2, <1>3, <1>5 DEF InboxInv

LEMMA InboxStep ==
  ASSUME InboxInv, Next
  PROVE  InboxInv'
<1>1. past.limit.written \subseteq Groups  BY DEF InboxInv, TypeOK, Pasts, LimitType
<1>2. CASE PeerNext
  <2>1. CASE \E g \in past.limit.written : PeerSends(g)  BY <1>1, <2>1, PeerSendsStep
  <2>2. CASE \E o \in Outcomes : DistributeSenderKey(o)  BY <2>2, DistributeStep
  <2>3. CASE MembershipRefreshed  BY <2>3, MembershipStep
  <2>4. CASE SendEnds  BY <2>4, SendEndsStep
  <2>5. CASE FanOut  BY <2>5, FanOutStep
  <2>6. CASE PushGroupRow  BY <2>6, PushStep
  <2>7. CASE PeerHears  BY <2>7, PeerHearsStep
  <2> QED  BY <1>2, <2>1, <2>2, <2>3, <2>4, <2>5, <2>6, <2>7 DEF PeerNext
<1>3. CASE HandleSubscribe  BY <1>3, HandleSubscribeStep
<1>4. "app" \in {"app", "ext"} /\ "ext" \in {"app", "ext"}  OBVIOUS
<1>5. CASE AppNext
  <2>1. CASE Connect  BY <2>1, ConnectStep
  <2>2. CASE ListPseudonyms  BY <2>2, ListStep
  <2>3. CASE SubscribeAll  BY <2>3, SubscribeStep
  <2>4. CASE TakeDm  BY <2>4, TakeDmStep
  <2>5. CASE ProcessGroupDelivery  BY <2>5, GroupDeliveryStep
  <2>6. CASE ProcessSkdm("app")  BY <1>4, <2>6, SkdmStep
  <2>7. CASE SaveIncoming("app") \/ SaveFails("app")  BY <1>4, <2>7, SaveStep
  <2>8. CASE AppAcks  BY <2>8, AppAcksStep
  <2>9. CASE Wake  BY <2>9, WakeStep
  <2>10. CASE Sleep  BY <2>10, SleepStep
  <2>11. CASE AppKilled  BY <2>11, KilledStep
  <2>12. CASE \E g \in Groups : Bind(g)  BY <2>12, BindStep
  <2>13. CASE AppBuffers  BY <2>13, AppBuffersStep
  <2> QED
    BY <1>5, <2>1, <2>2, <2>3, <2>4, <2>5, <2>6, <2>7, <2>8, <2>9, <2>10, <2>11, <2>12, <2>13
    DEF AppNext, AppSteps
<1>6. CASE ExtNext
  <2>1. CASE ExtTakesDm  BY <2>1, ExtTakesDmStep
  <2>2. CASE ExtDmDone  BY <2>2, ExtDmDoneStep
  <2>3. CASE ExtAcksDms  BY <2>3, ExtAcksDmsStep
  <2>4. CASE \E g \in Groups : ExtFetches(g)  BY <2>4, ExtFetchesStep
  <2>5. CASE ExtOpensRow  BY <2>5, ExtOpensStep
  <2>6. CASE ExtBuffers  BY <2>6, ExtBuffersStep
  <2>7. CASE ExtAcksRows  BY <2>7, ExtAcksRowsStep
  <2>8. CASE ExtGroupDone \/ ExtEnds  BY <2>8, ExtRestsStep
  <2>9. CASE ProcessSkdm("ext")  BY <1>4, <2>9, SkdmStep
  <2>10. CASE SaveIncoming("ext") \/ SaveFails("ext")  BY <1>4, <2>10, SaveStep
  <2>11. CASE ExtPollsDms  BY <2>11, ExtPollsStep
  <2>12. CASE ExtKilled  BY <2>12, KilledStep
  <2> QED
    BY <1>6, <2>1, <2>2, <2>3, <2>4, <2>5, <2>6, <2>7, <2>8, <2>9, <2>10, <2>11, <2>12 DEF ExtNext, ExtSteps
<1>7. CASE Cut  BY <1>7, CutStep
<1>8. CASE ExpireRow  BY <1>8, ExpireStep
<1>9. CASE Replace  BY <1>9, ReplaceStep
<1> QED  BY <1>2, <1>3, <1>5, <1>6, <1>7, <1>8, <1>9 DEF Next

LEMMA InboxAlways == Spec => []InboxInv
<1>1. InboxInv /\ [Next]_vars => InboxInv'
  BY InboxStep, InboxStays
<1> QED  BY <1>1, InboxBegins, PTL DEF Spec

----------------------------------------------------------------------------
(* What it shows, also of an extension that works beside the app           *)

\* The parts of the inbox hold what they are made for; in particular an opened
\* direct message has come, and a pushed row has been committed.
THEOREM InboxTypeCorrect == Spec => []TypeOK
<1>1. InboxInv => TypeOK  BY DEF InboxInv
<1> QED  BY <1>1, InboxAlways, PTL

\* No group message falls between the queue, the hands of the app and of the
\* extension, the buffer and the history, but by an accident that Gone names: two
\* numberings of ids and two processes without a common lock are among them.
THEOREM MessagesStay == Spec => []NothingLost
<1>1. InboxInv => NothingLost
  <2> SUFFICES ASSUME InboxInv, NEW row \in past.sent
               PROVE  \/ Contains(gq, row) \/ InHand(row) \/ Contains(dev.buffer, row)
                      \/ row \in dev.history \/ Excused(row)
    BY DEF NothingLost
  <2>1. TypeOK /\ Safely  BY DEF InboxInv, Flow
  <2>2. CASE past.keyLost  BY <2>2 DEF Excused
  <2>3. CASE ~past.keyLost
    <3>1. row \in ToSet(gq) \cup Safe  BY <2>1, <2>3 DEF Safely
    <3>2. Contains(gq, row) <=> row \in ToSet(gq)
      <4>1. gq \in Seq(GroupRow)  BY <2>1 DEF TypeOK
      <4> QED  BY <4>1, SeqSets
    <3>3. Contains(dev.buffer, row) <=> row \in ToSet(dev.buffer)
      <4>1. dev.buffer \in Seq(GroupRow)  BY DevIs
      <4> QED  BY <4>1, SeqSets
    <3>4. InHand(row) <=> row \in Held  BY <2>1, HeldIs
    <3> QED  BY <3>1, <3>2, <3>3, <3>4 DEF Safe, Handled, Gone, Excused
  <2> QED  BY <2>2, <2>3
<1> QED  BY <1>1, InboxAlways, PTL

\* Nothing waits in pending_group_ciphertext for a key that is there, although
\* keys arrive in one process and rows in the other, but a row that was put there
\* while the other process installed its key.
THEOREM BufferWaitsForKeys == Spec => []BufferAwaitsKey
<1>1. InboxInv => BufferAwaitsKey
  BY DevIs DEF BufferAwaitsKey, ToSet
<1> QED  BY <1>1, InboxAlways, PTL

\* A device that was never replaced is sent nothing before the key, unless the
\* message with the key has failed.
THEOREM KeyComesFirst == Spec => []KeyFirst
<1>1. InboxInv => KeyFirst
  <2>1. ASSUME InboxInv  PROVE KeyFirst
    <3>1. Shares /\ reg \in Nat \ {0}  BY <2>1 DEF InboxInv, TypeOK
    <3> QED  BY <3>1 DEF KeyFirst, Shares
  <2> QED  BY <2>1
<1> QED  BY <1>1, InboxAlways, PTL

\* The three together, which the runs check: outside the accidents they name, a
\* message is kept, it waits only for a key that is not there, and the key is
\* queued before it.
THEOREM InboxIsSafe == Spec => []InboxHolds
<1>1. InboxHolds <=> NothingLost /\ BufferAwaitsKey /\ KeyFirst  BY DEF InboxHolds
<1> QED  BY <1>1, MessagesStay, BufferWaitsForKeys, KeyComesFirst, PTL

\* A connected app between events is subscribed to all its pseudonyms, whichever
\* of the two tasks that subscribe has been the last.
THEOREM SubscribedToEach == Spec => []SubscribedToAll
<1>1. Listening => SubscribedToAll
  BY DEF Listening, Subscribes, Latest, SubscribedToAll, AtRest
<1> QED  BY <1>1, ListensAlways, PTL

=============================================================================
