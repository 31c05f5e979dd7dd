------------------------ MODULE MessageHistoryProofs ------------------------
(***************************************************************************)
(* Proofs about MessageHistory, for any devices, messages, operations and   *)
(* failures: a check mark claims no more than happened, nothing undoes a    *)
(* deletion, and once all is delivered the devices show the same.           *)
(*                                                                         *)
(* What a device stores, and what is on its way to it, is judged against    *)
(* the messages composed (ms) and what has happened to them (p).  Both only *)
(* grow, so what was honest stays so; the operators that change a store are *)
(* shown once each to keep it honest, and every action applies one of them. *)
(*                                                                         *)
(* For agreement, ConvergeInv follows each message that no accident has     *)
(* spoilt through all queues: its text comes before its changes, a level    *)
(* one device shows is shown or awaited by every other, and all are to      *)
(* settle on the same reaction.                                            *)
(***************************************************************************)
EXTENDS MessageHistory, FiniteSetTheorems, SequenceTheorems, TLAPS

(* A row that is there is of a message composed; the check mark of an own   *)
(* message has its ground on a device of the other account, which has       *)
(* decrypted the message, or on which it was read.                          *)
RowHonest(ms, p, d, m, r) ==
    /\ ~r.has => r = NoRow
    /\ r.has => m \in 1..Len(ms)
    /\ m \in 1..Len(ms) /\ ms[m].from \in Own(d) =>
          /\ r.status = Delivered => \E e \in Others(d) : <<e, m>> \in p.decrypted
          /\ r.status = Read => \E e \in Others(d) : <<e, m>> \in p.reads

StoreHonest(ms, p, d, s) ==
    s \in Stores /\ \A m \in Texts : RowHonest(ms, p, d, m, s.row[m])

(* What may travel: a text comes from its author, a receipt from a device   *)
(* on which it happened.                                                   *)
Carried == {"text", "edit", "delete", "react"}
OpHonest(ms, p, op) ==
    /\ op.kind \in Carried \cup {"receipt"} => op.m \in 1..Len(ms)
    /\ op.kind = "text" => ms[op.m].from = op.from
    /\ op.kind = "edit" => op.n \in Times
    /\ op.kind = "react" => op.n \in {0, 1}
    /\ op.kind = "receipt" =>
          \/ op.n = Delivered /\ <<op.from, op.m>> \in p.decrypted
          \/ op.n = Read /\ <<op.from, op.m>> \in p.reads

(* And to whom: transcripts and read marks to siblings, receipts and timers *)
(* to the other account.                                                   *)
Mail(ms, p, d) ==
    {op \in OpType :
        /\ OpHonest(ms, p, op)
        /\ op.from \in Own(d) => op.kind \in Carried \cup {"mark"}
        /\ op.from \notin Own(d) => op.kind \in Carried \cup {"receipt", "timer"}}

StoresHonest == \A d \in Devices : StoreHonest(msgs, past, d, store[d])
MailHonest == \A d \in Devices : queue[d] \in Seq(Mail(msgs, past, d))

(* What a device has in hand. *)
HandHonest(d) ==
    /\ ~Free(d) => /\ lock[d].from = d /\ lock[d].kind \in Carried
                   /\ OpHonest(msgs, past, lock[d])
    /\ \A m \in sending[d] : msgs[m].from = d
    /\ \A m \in receipts[d] : <<d, m>> \in past.reads
HandsHonest == \A d \in Devices : HandHonest(d)

HistoryInv == TypeOK /\ StoresHonest /\ MailHonest /\ HandsHonest

(* What a device has decrypted is at the head of its queue, and a text that  *)
(* has been decrypted is stored, lost or about to be stored.                *)
HeadsHonest ==
    /\ \A d \in opened : queue[d] # <<>>
    /\ \A d \in Devices, m \in Texts :
          <<d, m>> \in past.decrypted =>
              <<d, m>> \in past.got \cup past.lost \/ Holds(d, m)

(* The messages and what happened to them only grow. *)
Grows(ms, p, ms2, p2) ==
    /\ Len(ms) \in Nat /\ Len(ms2) \in Nat /\ Len(ms) <= Len(ms2)
    /\ \A m \in 1..Len(ms) : ms2[m] = ms[m]
    /\ p.decrypted \subseteq p2.decrypted /\ p.reads \subseteq p2.reads

(* No tombstone of s is undone in t. *)
Stands(s, t) == \A m \in Texts : s.row[m].deleted /\ t.row[m].has => t.row[m].deleted

Messages == Seq([from : Devices, timed : BOOLEAN])

USE DEF Sending, SentOk, Delivered, Read, Failed, Blank

----------------------------------------------------------------------------
(* The operators on a store *)

LEMMA Accounts ==
  ASSUME NEW d \in Devices
  PROVE  /\ d \in Own(d) /\ Own(d) \in {Mine, Theirs} /\ Mine # Theirs
         /\ \A e \in Devices : e \in Own(d) <=> Own(e) = Own(d)
         /\ Siblings(d) \subseteq Devices /\ Others(d) \subseteq Devices
         /\ \A e \in Others(d) : e \in Devices /\ d \notin Own(e)
         /\ \A e \in Siblings(d) : e \in Devices /\ d \in Own(e)
  BY DevicesAssumption DEF Devices, Own, Siblings, Others

LEMMA RowsAre ==
  /\ NoRow \in RowsType /\ Texts \subseteq Nat
  /\ NoReactions \in [{Mine, Theirs} -> {0, 1}]
  BY BoundsAssumption DEF NoRow, RowsType, Texts, NoReactions

LEMMA RowMade ==
  ASSUME NEW status \in Sending..Failed, NEW read \in BOOLEAN, NEW timed \in BOOLEAN
  PROVE  NewRow(status, read, timed) \in RowsType
  BY DEF RowsType, NewRow

\* Edits keep a tombstone and a second save keeps the deletion: the upsert
\* leaves deleted_at alone.
LEMMA SavesHonest ==
  ASSUME NEW ms, NEW p, NEW d \in Devices, NEW s, StoreHonest(ms, p, d, s),
         NEW m \in Texts, m \in 1..Len(ms), NEW status \in {Sending, SentOk, Failed},
         NEW timed \in BOOLEAN
  PROVE  LET t == SaveMessage(s, m, status, timed)
         IN  StoreHonest(ms, p, d, t) /\ Stands(s, t) /\ t.timer = s.timer
<1> DEFINE old == s.row[m]  r == Upserted(old, status, timed)
<1>1. old \in RowsType /\ RowHonest(ms, p, d, m, old)
  BY DEF StoreHonest, Stores
<1>2. r \in RowsType
  <2>1. NewRow(status, TRUE, timed) \in RowsType
    <3> status \in Sending..Failed  OBVIOUS
    <3> QED  BY RowMade
  <2>2. [old EXCEPT !.body = 0, !.status = status, !.read = TRUE] \in RowsType
    <3> status \in Sending..Failed  OBVIOUS
    <3> HIDE DEF old
    <3> QED  BY <1>1 DEF RowsType
  <2> QED  BY <2>1, <2>2 DEF Upserted
<1>3. RowHonest(ms, p, d, m, r) /\ (old.deleted => r.deleted)
  BY <1>1 DEF RowHonest, Upserted, NewRow, NoRow, RowsType
<1>4. SaveMessage(s, m, status, timed) = [s EXCEPT !.row[m] = r]
  BY DEF SaveMessage, Put
<1> HIDE DEF r, old
<1>5. [s EXCEPT !.row[m] = r] \in Stores  BY <1>2 DEF StoreHonest, Stores
<1> QED  BY <1>3, <1>4, <1>5 DEF StoreHonest, Stores, Stands, old

LEMMA ArrivalsHonest ==
  ASSUME NEW ms, NEW p, NEW d \in Devices, NEW s, StoreHonest(ms, p, d, s),
         NEW m \in Texts, m \in 1..Len(ms), ms[m].from \notin Own(d),
         NEW timed \in BOOLEAN
  PROVE  LET t == SaveIncoming(s, m, timed)
         IN  StoreHonest(ms, p, d, t) /\ Stands(s, t)
<1> DEFINE r == NewRow(Delivered, FALSE, timed)
<1>1. r \in RowsType  BY DEF NewRow, RowsType
<1>2. RowHonest(ms, p, d, m, r)  BY DEF RowHonest, NewRow
<1>3. ~r.deleted  BY DEF NewRow
<1>4. CASE s.row[m].has
  BY <1>4 DEF SaveIncoming, Stands
<1>5. CASE ~s.row[m].has
  <2>1. SaveIncoming(s, m, timed) = [s EXCEPT !.row[m] = r]
    BY <1>5 DEF SaveIncoming, Put
  <2>2. ~s.row[m].deleted  BY <1>5 DEF StoreHonest, RowHonest, NoRow
  <2> HIDE DEF r
  <2> QED  BY <1>1, <1>2, <2>1, <2>2 DEF StoreHonest, Stores, Stands
<1> QED  BY <1>4, <1>5

LEMMA EditsHonest ==
  ASSUME NEW ms, NEW p, NEW d \in Devices, NEW s, StoreHonest(ms, p, d, s),
         NEW m \in Texts, NEW at \in Times
  PROVE  LET t == ApplyEdit(s, m, at)
         IN  StoreHonest(ms, p, d, t) /\ Stands(s, t)
<1> DEFINE old == s.row[m]  r == [old EXCEPT !.body = at]
<1>1. old \in RowsType /\ RowHonest(ms, p, d, m, old)
  BY DEF StoreHonest, Stores
<1>2. r \in RowsType  BY <1>1 DEF RowsType
<1>3. old.has => RowHonest(ms, p, d, m, r) /\ r.deleted = old.deleted
  BY <1>1 DEF RowHonest, RowsType
<1>4. ApplyEdit(s, m, at) = s \/ (old.has /\ ApplyEdit(s, m, at) = [s EXCEPT !.row[m] = r])
  <2> [s EXCEPT !.row[m].body = at] = [s EXCEPT !.row[m] = r]
    BY DEF StoreHonest, Stores
  <2> QED  BY DEF ApplyEdit
<1> HIDE DEF r, old
<1>5. [s EXCEPT !.row[m] = r] \in Stores  BY <1>2 DEF StoreHonest, Stores
<1> QED  BY <1>3, <1>4, <1>5 DEF StoreHonest, Stores, Stands, old

LEMMA ReactionsHonest ==
  ASSUME NEW ms, NEW p, NEW d \in Devices, NEW s, StoreHonest(ms, p, d, s),
         NEW m \in Texts
  PROVE  /\ \A acct \in {Mine, Theirs}, n \in {0, 1} :
                LET t == UpsertReaction(s, acct, m, n)
                IN  StoreHonest(ms, p, d, t) /\ Stands(s, t)
         /\ LET t == [s EXCEPT !.react[m] = NoReactions]
            IN  StoreHonest(ms, p, d, t) /\ Stands(s, t)
<1>1. ASSUME NEW c \in [Texts -> [{Mine, Theirs} -> {0, 1}]]
      PROVE  LET t == [s EXCEPT !.react = c]
             IN  StoreHonest(ms, p, d, t) /\ Stands(s, t)
  BY DEF StoreHonest, Stores, Stands
<1>2. s.react \in [Texts -> [{Mine, Theirs} -> {0, 1}]]
  BY DEF StoreHonest, Stores
<1>3. [s EXCEPT !.react[m] = NoReactions] = [s EXCEPT !.react = [s.react EXCEPT ![m] = NoReactions]]
  BY DEF StoreHonest, Stores
<1>4. ASSUME NEW acct \in {Mine, Theirs}, NEW n \in {0, 1}
      PROVE  LET t == UpsertReaction(s, acct, m, n)
             IN  StoreHonest(ms, p, d, t) /\ Stands(s, t)
  <2> DEFINE c == [s.react EXCEPT ![m] = [s.react[m] EXCEPT ![acct] = n]]
  <2>1. c \in [Texts -> [{Mine, Theirs} -> {0, 1}]]  BY <1>2
  <2>2. UpsertReaction(s, acct, m, n) = [s EXCEPT !.react = c]
    BY DEF UpsertReaction, StoreHonest, Stores
  <2> HIDE DEF c
  <2> QED  BY <1>1, <2>1, <2>2
<1>5. [s.react EXCEPT ![m] = NoReactions] \in [Texts -> [{Mine, Theirs} -> {0, 1}]]
  BY <1>2, RowsAre
<1> QED  BY <1>1, <1>3, <1>4, <1>5

LEMMA TombstonesHonest ==
  ASSUME NEW ms, NEW p, NEW d \in Devices, NEW s, StoreHonest(ms, p, d, s),
         NEW m \in Texts
  PROVE  LET t == Tombstone(s, m)
         IN  StoreHonest(ms, p, d, t) /\ Stands(s, t)
<1> DEFINE u == [s EXCEPT !.react[m] = NoReactions]
           old == s.row[m]
           r == [old EXCEPT !.deleted = TRUE, !.body = Blank]
<1>1. StoreHonest(ms, p, d, u) /\ Stands(s, u) /\ u.row = s.row
  BY ReactionsHonest DEF StoreHonest, Stores
<1>2. old \in RowsType /\ RowHonest(ms, p, d, m, old)
  BY DEF StoreHonest, Stores
<1>3. r \in RowsType /\ r.deleted  BY <1>2 DEF RowsType
<1>4. old.has => RowHonest(ms, p, d, m, r)  BY <1>2 DEF RowHonest, RowsType
<1> HIDE DEF u
<1>5. [u EXCEPT !.row[m].deleted = TRUE, !.row[m].body = Blank] = [u EXCEPT !.row[m] = r]
  BY <1>1, <1>2 DEF StoreHonest, Stores, RowsType
<1>6. Tombstone(s, m) = u \/ (old.has /\ Tombstone(s, m) = [u EXCEPT !.row[m] = r])
  BY <1>5 DEF Tombstone, u
<1> HIDE DEF r, old
<1>7. [u EXCEPT !.row[m] = r] \in Stores  BY <1>1, <1>3 DEF StoreHonest, Stores
<1> QED  BY <1>1, <1>3, <1>4, <1>6, <1>7 DEF StoreHonest, Stores, Stands, old

LEMMA RemovalsHonest ==
  ASSUME NEW ms, NEW p, NEW d \in Devices, NEW s, StoreHonest(ms, p, d, s),
         NEW m \in Texts
  PROVE  /\ StoreHonest(ms, p, d, Removed(s, m)) /\ Stands(s, Removed(s, m))
         /\ StoreHonest(ms, p, d, DeleteForMe(s, m)) /\ Stands(s, DeleteForMe(s, m))
<1>1. RowHonest(ms, p, d, m, NoRow) /\ ~NoRow.has
  BY DEF RowHonest, NoRow
<1> DEFINE t == [s EXCEPT !.row[m] = NoRow]
<1>2. t \in Stores  BY RowsAre DEF StoreHonest, Stores
<1>3. StoreHonest(ms, p, d, t) /\ Stands(s, t)
  BY <1>1, <1>2 DEF StoreHonest, Stores, Stands
<1>4. Removed(s, m) = t  BY DEF Removed, Put
<1> HIDE DEF t
<1>5. /\ StoreHonest(ms, p, d, [t EXCEPT !.react[m] = NoReactions])
      /\ Stands(t, [t EXCEPT !.react[m] = NoReactions])
  BY <1>3, ReactionsHonest
<1>6. [t EXCEPT !.react[m] = NoReactions].row = t.row
  BY <1>3 DEF StoreHonest, Stores
<1> QED  BY <1>3, <1>4, <1>5, <1>6 DEF DeleteForMe, Stands

LEMMA ReceiptsHonest ==
  ASSUME NEW ms, NEW p, NEW d \in Devices, NEW s, StoreHonest(ms, p, d, s),
         NEW m \in Texts, NEW e \in Others(d),
         NEW status \in {Delivered, Read},
         status = Delivered => <<e, m>> \in p.decrypted, status = Read => <<e, m>> \in p.reads
  PROVE  LET t == UpdateStatus(s, m, status)
         IN  StoreHonest(ms, p, d, t) /\ Stands(s, t)
<1> DEFINE r(k) == IF k \in Matches(s, m) /\ s.row[k].status < status
                   THEN [s.row[k] EXCEPT !.status = status] ELSE s.row[k]
           t == [s EXCEPT !.row = [k \in Texts |-> r(k)]]
<1>1. \A k \in Texts : s.row[k] \in RowsType /\ RowHonest(ms, p, d, k, s.row[k])
  BY DEF StoreHonest, Stores
<1>2. ASSUME NEW k \in Texts
      PROVE  r(k) \in RowsType /\ RowHonest(ms, p, d, k, r(k))
             /\ r(k).deleted = s.row[k].deleted
  <2>1. CASE k \in Matches(s, m) /\ s.row[k].status < status
    <3>1. k = m /\ s.row[k].has  BY <2>1 DEF Matches, Rows
    <3>2. r(k) = [s.row[k] EXCEPT !.status = status]  BY <2>1
    <3> HIDE DEF r
    <3>3. r(k) \in RowsType /\ r(k).status = status /\ r(k).has
          /\ r(k).deleted = s.row[k].deleted
      BY <1>1, <3>1, <3>2 DEF RowsType
    <3> QED  BY <1>1, <3>1, <3>3 DEF RowHonest
  <2>2. CASE ~(k \in Matches(s, m) /\ s.row[k].status < status)
    BY <1>1, <2>2
  <2> QED  BY <2>1, <2>2
<1>3. UpdateStatus(s, m, status) = t
  BY DEF UpdateStatus, StoreHonest, Stores
<1> HIDE DEF r
<1>4. t \in Stores /\ \A k \in Texts : t.row[k] = r(k)
  BY <1>2 DEF StoreHonest, Stores
<1> QED  BY <1>2, <1>3, <1>4 DEF StoreHonest, Stands

LEMMA MarksHonest ==
  ASSUME NEW ms, NEW p, NEW d \in Devices, NEW s, StoreHonest(ms, p, d, s), NEW upTo
  PROVE  LET t == MarkRead(s, upTo)
         IN  StoreHonest(ms, p, d, t) /\ Stands(s, t)
<1> DEFINE r(k) == IF k \in Unread(s, upTo)
                   THEN [s.row[k] EXCEPT !.read = TRUE, !.due = Deadline(s.row[k])]
                   ELSE s.row[k]
           t == [s EXCEPT !.row = [k \in Texts |-> r(k)]]
<1>1. \A k \in Texts : s.row[k] \in RowsType /\ RowHonest(ms, p, d, k, s.row[k])
  BY DEF StoreHonest, Stores
<1>2. ASSUME NEW k \in Texts
      PROVE  r(k) \in RowsType /\ RowHonest(ms, p, d, k, r(k))
             /\ r(k).deleted = s.row[k].deleted
  <2>1. CASE k \in Unread(s, upTo)
    <3>1. s.row[k].has /\ Deadline(s.row[k]) \in BOOLEAN
      BY <1>1, <2>1 DEF Unread, Rows, Deadline, RowsType
    <3>2. r(k) = [s.row[k] EXCEPT !.read = TRUE, !.due = Deadline(s.row[k])]  BY <2>1
    <3> HIDE DEF r
    <3>3. r(k) \in RowsType /\ r(k).status = s.row[k].status /\ r(k).has
          /\ r(k).deleted = s.row[k].deleted
      BY <1>1, <3>1, <3>2 DEF RowsType
    <3> QED  BY <1>1, <3>1, <3>3 DEF RowHonest
  <2>2. CASE k \notin Unread(s, upTo)
    BY <1>1, <2>2
  <2> QED  BY <2>1, <2>2
<1>3. MarkRead(s, upTo) = t
  BY DEF MarkRead, StoreHonest, Stores
<1> HIDE DEF r
<1>4. t \in Stores /\ \A k \in Texts : t.row[k] = r(k)
  BY <1>2 DEF StoreHonest, Stores
<1> QED  BY <1>2, <1>3, <1>4 DEF StoreHonest, Stands

----------------------------------------------------------------------------
(* What stays honest as messages are composed and things happen *)

LEMMA StoresStay ==
  ASSUME NEW ms, NEW p, NEW ms2, NEW p2, Grows(ms, p, ms2, p2),
         NEW d \in Devices, NEW s, StoreHonest(ms, p, d, s)
  PROVE  StoreHonest(ms2, p2, d, s)
<1> SUFFICES ASSUME NEW m \in Texts  PROVE RowHonest(ms2, p2, d, m, s.row[m])
  BY DEF StoreHonest
<1>1. RowHonest(ms, p, d, m, s.row[m])  BY DEF StoreHonest
<1>2. CASE s.row[m].has
  <2>1. m \in 1..Len(ms) /\ m \in 1..Len(ms2) /\ ms2[m] = ms[m]
    BY <1>1, <1>2 DEF RowHonest, Grows
  <2>2. p.decrypted \subseteq p2.decrypted /\ p.reads \subseteq p2.reads  BY DEF Grows
  <2> QED  BY <1>1, <1>2, <2>1, <2>2 DEF RowHonest
<1>3. CASE ~s.row[m].has
  BY <1>1, <1>3 DEF RowHonest, NoRow
<1> QED  BY <1>2, <1>3

LEMMA OpsStay ==
  ASSUME NEW ms, NEW p, NEW ms2, NEW p2, Grows(ms, p, ms2, p2),
         NEW op, OpHonest(ms, p, op)
  PROVE  OpHonest(ms2, p2, op)
<1>1. op.m \in 1..Len(ms) => op.m \in 1..Len(ms2) /\ ms2[op.m] = ms[op.m]
  BY DEF Grows
<1> QED  BY <1>1 DEF OpHonest, Grows, Carried

LEMMA MailStays ==
  ASSUME NEW ms, NEW p, NEW ms2, NEW p2, Grows(ms, p, ms2, p2),
         NEW d \in Devices, NEW q \in Seq(Mail(ms, p, d))
  PROVE  q \in Seq(Mail(ms2, p2, d))
<1>1. Mail(ms, p, d) \subseteq Mail(ms2, p2, d)  BY OpsStay DEF Mail
<1> DEFINE A == Mail(ms, p, d)  B == Mail(ms2, p2, d)
<1> HIDE DEF A, B
<1>2. A \subseteq B /\ q \in Seq(A)  BY <1>1 DEF A, B
<1>3. q \in [1..Len(q) -> B] /\ Len(q) \in Nat  BY <1>2
<1>4. q \in Seq(B)  BY <1>3
<1> QED  BY <1>4 DEF B

\* A request puts ops at the end of the queues of ds.
LEMMA Delivers ==
  ASSUME NEW ms, NEW p, NEW ds \in SUBSET Devices, NEW ops, NEW q,
         \A d \in Devices : q[d] \in Seq(Mail(ms, p, d)),
         \A d \in ds : ops \in Seq(Mail(ms, p, d))
  PROVE  /\ To(ds, ops, q) \in [Devices -> Seq(OpType)]
         /\ \A d \in Devices : To(ds, ops, q)[d] \in Seq(Mail(ms, p, d))
<1>1. ASSUME NEW d \in Devices
      PROVE  To(ds, ops, q)[d] \in Seq(Mail(ms, p, d)) /\ To(ds, ops, q)[d] \in Seq(OpType)
  <2> DEFINE A == Mail(ms, p, d)  u == To(ds, ops, q)[d]
  <2>1. A \subseteq OpType  BY DEF Mail
  <2>2. q[d] \in Seq(A) /\ (d \in ds => ops \in Seq(A))  OBVIOUS
  <2>3. u = IF d \in ds THEN q[d] \o ops ELSE q[d]  BY DEF To
  <2> HIDE DEF A, u
  <2>4. u \in Seq(A)  BY <2>2, <2>3
  <2>5. u \in [1..Len(u) -> OpType] /\ Len(u) \in Nat  BY <2>1, <2>4
  <2>6. u \in Seq(OpType)  BY <2>5
  <2> QED  BY <2>4, <2>6 DEF A, u
<1> QED  BY <1>1 DEF To

----------------------------------------------------------------------------
(* The state as it begins *)

LEMMA HistoryBegins == Init => HistoryInv
<1> SUFFICES ASSUME Init  PROVE HistoryInv  OBVIOUS
<1>1. /\ bound \in Plans /\ Len(msgs) = 0 /\ msgs \in Messages /\ bound.texts \in Nat
      /\ bound.timed \in BOOLEAN
  BY BoundsAssumption DEF Init, Plans, Messages
<1> DEFINE first == [row |-> [m \in Texts |-> NoRow], react |-> [m \in Texts |-> NoReactions],
                     timer |-> bound.timed]
<1>2. first \in Stores  BY <1>1, RowsAre DEF Stores
<1>3. \A d \in Devices : StoreHonest(msgs, past, d, first)
  BY <1>1, <1>2 DEF StoreHonest, RowHonest, NoRow
<1>4. \A d \in Devices : store[d] = first  BY DEF Init
<1> HIDE DEF first
<1>5. StoresHonest  BY <1>3, <1>4 DEF StoresHonest
<1>6. MailHonest
  <2> SUFFICES ASSUME NEW d \in Devices  PROVE <<>> \in Seq(Mail(msgs, past, d))
    BY DEF Init, MailHonest
  <2> QED  OBVIOUS
<1>7. HandsHonest  BY DEF Init, HandsHonest, HandHonest, Free
<1>8. TypeOK
  <2>1. past \in Accidents  BY DEF Init, Accidents
  <2>2. store \in [Devices -> Stores]  BY <1>2 DEF Init, first
  <2>3. \A d \in Devices : \A m \in Texts \ Rows(store[d]) : store[d].row[m] = NoRow
    BY <1>4 DEF first
  <2>4. queue \in [Devices -> Seq(OpType)]  BY DEF Init
  <2>5. /\ sending \in [Devices -> SUBSET Sent] /\ receipts \in [Devices -> SUBSET Sent]
        /\ resave \in [Devices -> SUBSET (Sent \X {SentOk, Failed})]
        /\ lock \in [Devices -> OpType \cup {NoOp}]
        /\ marks \in [Devices -> [pending : Nat, carried : Nat]]
        /\ opened \in SUBSET Devices
    BY DEF Init
  <2> QED  BY <1>1, <2>1, <2>2, <2>3, <2>4, <2>5 DEF TypeOK, Messages
<1> QED  BY <1>5, <1>6, <1>7, <1>8 DEF HistoryInv

----------------------------------------------------------------------------
(* A step.  Each action is shown to keep the store, the queues and what is   *)
(* in hand apart; for all three the messages and the past may have grown.    *)

Goes == Grows(msgs, past, msgs', past')

LEMMA Numbers ==
  ASSUME TypeOK
  PROVE  /\ Len(msgs) \in Nat /\ msgs \in Messages /\ bound.texts \in 0..MaxTexts
         /\ Sent \subseteq Texts
         /\ \A m \in Sent : msgs[m].from \in Devices /\ msgs[m].timed \in BOOLEAN
<1>1. bound.texts \in 0..MaxTexts  BY DEF TypeOK, Plans
<1>2. msgs \in Messages /\ Len(msgs) <= bound.texts  BY DEF TypeOK, Messages
<1> DEFINE Msg == [from : Devices, timed : BOOLEAN]
<1>3. Len(msgs) \in Nat /\ msgs \in [1..Len(msgs) -> Msg]
  <2> msgs \in Seq(Msg)  BY <1>2 DEF Messages
  <2> HIDE DEF Msg
  <2> QED  OBVIOUS
<1> QED  BY <1>1, <1>2, <1>3, BoundsAssumption DEF Sent, Texts

LEMMA SameMessages ==
  ASSUME UNCHANGED msgs, past.decrypted \subseteq past'.decrypted, past.reads \subseteq past'.reads,
         Len(msgs) \in Nat
  PROVE  Goes
  BY DEF Goes, Grows

\* Stores that are as they were are as honest as they were.
LEMMA OtherStores ==
  ASSUME StoresHonest, Goes, NEW d \in Devices,
         StoreHonest(msgs', past', d, store'[d]),
         \A e \in Devices \ {d} : store'[e] = store[e]
  PROVE  StoresHonest'
<1> SUFFICES ASSUME NEW e \in Devices  PROVE StoreHonest(msgs', past', e, store'[e])
  BY DEF StoresHonest
<1>1. CASE e = d  BY <1>1
<1>2. CASE e # d
  <2>1. StoreHonest(msgs, past, e, store[e]) /\ store'[e] = store[e]
    BY <1>2 DEF StoresHonest
  <2> QED  BY <2>1, StoresStay DEF Goes
<1> QED  BY <1>1, <1>2

\* A queue may have been added to, by ops its device may get.
LEMMA OtherMail ==
  ASSUME MailHonest, Goes,
         NEW ds \in SUBSET Devices, NEW ops,
         \A d \in ds : ops \in Seq(Mail(msgs', past', d)),
         queue' = To(ds, ops, queue)
  PROVE  MailHonest' /\ queue' \in [Devices -> Seq(OpType)]
<1>1. ASSUME NEW d \in Devices  PROVE queue[d] \in Seq(Mail(msgs', past', d))
  BY <1>1, MailStays DEF MailHonest, Goes
<1> QED  BY <1>1, Delivers DEF MailHonest

LEMMA SameMail ==
  ASSUME MailHonest, Goes, UNCHANGED queue
  PROVE  MailHonest'
  BY MailStays DEF MailHonest, Goes

\* A device that lets go of things is left with honest ones.
LEMMA OtherHand ==
  ASSUME TypeOK, Goes, NEW d \in Devices, HandHonest(d),
         lock'[d] \in {lock[d], NoOp},
         sending'[d] \subseteq sending[d], receipts'[d] \subseteq receipts[d]
  PROVE  HandHonest(d)'
<1>1. \A m \in sending[d] : msgs'[m] = msgs[m]
  BY DEF TypeOK, Sent, Goes, Grows
<1>2. OpHonest(msgs, past, lock[d]) => OpHonest(msgs', past', lock[d])
  BY OpsStay DEF Goes
<1> QED  BY <1>1, <1>2 DEF HandHonest, Free, Goes, Grows

\* The types of what all devices have, when msgs stays.
Undeleted == \A d \in Devices : Stands(store[d], store'[d])

LEMMA StoresTyped ==
  ASSUME TypeOK, NEW d \in Devices, NEW t, store' = [store EXCEPT ![d] = t],
         StoreHonest(msgs', past', d, t), Stands(store[d], t)
  PROVE  /\ store' \in [Devices -> Stores] /\ Undeleted
         /\ \A e \in Devices : \A m \in Texts \ Rows(store'[e]) : store'[e].row[m] = NoRow
<1>1. t \in Stores /\ \A m \in Texts : ~t.row[m].has => t.row[m] = NoRow
  BY DEF StoreHonest, RowHonest
<1>2. \A e \in Devices : Stands(store[e], store[e])  BY DEF Stands
<1>3. store' \in [Devices -> Stores] /\ Undeleted
  BY <1>1, <1>2 DEF TypeOK, Undeleted
<1>4. ASSUME NEW e \in Devices, NEW m \in Texts, m \notin Rows(store'[e])
      PROVE  store'[e].row[m] = NoRow
  <2>1. CASE e = d
    <3>1. store'[e] = t  BY <2>1 DEF TypeOK
    <3> QED  BY <1>1, <1>4, <3>1 DEF Rows
  <2>2. CASE e # d
    <3>1. store'[e] = store[e]  BY <2>2 DEF TypeOK
    <3> QED  BY <1>4, <3>1 DEF TypeOK
  <2> QED  BY <2>1, <2>2
<1> QED  BY <1>3, <1>4

LEMMA StoresUntouched ==
  ASSUME TypeOK, UNCHANGED store
  PROVE  Undeleted
  BY DEF Undeleted, Stands

----------------------------------------------------------------------------
(* The client sends a message *)

LEMMA ComposeHonest ==
  ASSUME HistoryInv, NEW d \in Devices, Compose(d)
  PROVE  HistoryInv' /\ Undeleted
<1> USE DEF HistoryInv
<1> DEFINE m == Len(msgs) + 1
           msg == [from |-> d, timed |-> store[d].timer]
           t == SaveMessage(store[d], m, Sending, store[d].timer)
<1>1. store[d] \in Stores /\ store[d].timer \in BOOLEAN  BY DEF TypeOK, Stores
<1>2. msgs' = Append(msgs, msg) /\ msgs' \in Messages
  BY <1>1, Numbers DEF Compose, Messages
<1>3. /\ Len(msgs') = m /\ m \in Nat /\ m <= bound.texts /\ m \in Texts
      /\ \A k \in 1..Len(msgs) : msgs'[k] = msgs[k]
      /\ msgs'[m] = msg
  BY <1>2, Numbers, BoundsAssumption DEF Compose, Texts, Messages
<1>4. Goes  BY <1>3, Numbers DEF Goes, Grows, Compose
<1>5. StoreHonest(msgs', past', d, store[d])
  BY <1>4, StoresStay DEF StoresHonest, Goes
<1>6. StoreHonest(msgs', past', d, t) /\ Stands(store[d], t)
  <2>1. \A ms, p : StoreHonest(ms, p, d, store[d]) /\ m \in 1..Len(ms) =>
            StoreHonest(ms, p, d, t) /\ Stands(store[d], t)
    BY <1>1, <1>3, SavesHonest
  <2> HIDE DEF t
  <2>2. m \in 1..Len(msgs')  BY <1>3
  <2> QED  BY <1>5, <2>1, <2>2
<1>7. store' = [store EXCEPT ![d] = t]  BY DEF Compose
<1> HIDE DEF t
<1>8. StoresHonest'
  BY <1>4, <1>6, <1>7, OtherStores DEF TypeOK
<1>9. MailHonest'
  BY <1>4, SameMail DEF Compose
<1>10. HandsHonest'
  <2> SUFFICES ASSUME NEW e \in Devices  PROVE HandHonest(e)'  BY DEF HandsHonest
  <2>1. CASE e # d
    BY <1>4, <2>1, OtherHand DEF Compose, HandsHonest, TypeOK
  <2>2. CASE e = d
    <3>1. lock'[d] = NoOp  BY DEF Compose, Free
    <3>2. sending'[d] = sending[d] \cup {m} /\ receipts'[d] = receipts[d]
      BY DEF Compose, TypeOK
    <3>3. \A k \in sending[d] : msgs'[k].from = d
      <4>1. sending[d] \subseteq 1..Len(msgs)  BY DEF TypeOK, Sent
      <4>2. \A k \in sending[d] : msgs[k].from = d  BY DEF HandsHonest, HandHonest
      <4> QED  BY <1>3, <4>1, <4>2
    <3>4. \A k \in receipts[d] : <<d, k>> \in past'.reads
      BY DEF HandsHonest, HandHonest, Compose
    <3> QED  BY <1>3, <2>2, <3>1, <3>2, <3>3, <3>4 DEF HandHonest, Free
  <2> QED  BY <2>1, <2>2
<1>11. TypeOK'
  <2>1. Sent \subseteq Sent' /\ m \in Sent'  BY <1>3, Numbers DEF Sent
  <2>2. /\ sending' \in [Devices -> SUBSET Sent'] /\ receipts' \in [Devices -> SUBSET Sent']
        /\ resave' \in [Devices -> SUBSET (Sent' \X {SentOk, Failed})]
    BY <2>1 DEF TypeOK, Compose
  <2>3. /\ store' \in [Devices -> Stores]
        /\ \A e \in Devices : \A k \in Texts \ Rows(store'[e]) : store'[e].row[k] = NoRow
    BY <1>6, <1>7, StoresTyped
  <2> QED  BY <1>2, <1>3, <2>2, <2>3 DEF TypeOK, Compose, Messages
<1> QED  BY <1>6, <1>7, <1>8, <1>9, <1>10, <1>11, StoresTyped

LEMMA PostHonest ==
  ASSUME TypeOK, MailHonest, HandsHonest, Goes, NEW d \in Devices, NEW op, NEW outcome,
         Post(d, op, outcome), op \in OpType, op.from = d, op.kind \in Carried,
         OpHonest(msgs', past', op),
         \A e \in Devices : sending'[e] \subseteq sending[e] /\ receipts'[e] \subseteq receipts[e]
  PROVE  /\ MailHonest' /\ queue' \in [Devices -> Seq(OpType)]
         /\ HandsHonest' /\ lock' \in [Devices -> OpType \cup {NoOp}]
<1>1. MailHonest' /\ queue' \in [Devices -> Seq(OpType)]
  <2>1. CASE outcome = "failed"
    <3>1. UNCHANGED queue  BY <2>1 DEF Post
    <3> QED  BY <3>1, SameMail DEF TypeOK
  <2>2. CASE outcome # "failed"
    <3>1. \A e \in Others(d) : op \in Mail(msgs', past', e)
      BY Accounts DEF Mail
    <3>2. \A e \in Others(d) : <<op>> \in Seq(Mail(msgs', past', e))
      BY <3>1
    <3>3. queue' = To(Others(d), <<op>>, queue)  BY <2>2 DEF Post
    <3> QED  BY <3>2, <3>3, OtherMail, Accounts
  <2> QED  BY <2>1, <2>2
<1>2. lock' = lock \/ lock' = [lock EXCEPT ![d] = op]  BY DEF Post
<1>3. lock' \in [Devices -> OpType \cup {NoOp}]
  <2>1. lock \in [Devices -> OpType \cup {NoOp}]  BY DEF TypeOK
  <2> QED  BY <1>2, <2>1
<1>4. HandsHonest'
  <2> SUFFICES ASSUME NEW e \in Devices  PROVE HandHonest(e)'  BY DEF HandsHonest
  <2>1. CASE lock'[e] = lock[e]
    BY <2>1, OtherHand DEF HandsHonest
  <2>2. CASE lock'[e] # lock[e]
    <3>1. e = d /\ lock'[e] = op  BY <1>2, <2>2 DEF TypeOK
    <3>2. \A m \in sending[d] : msgs'[m] = msgs[m]
      BY DEF TypeOK, Sent, Goes, Grows
    <3>3. \A m \in sending'[d] : msgs'[m].from = d
      BY <3>2 DEF HandsHonest, HandHonest
    <3>4. \A m \in receipts'[d] : <<d, m>> \in past'.reads
      BY DEF HandsHonest, HandHonest, Goes, Grows
    <3> QED  BY <3>1, <3>3, <3>4 DEF HandHonest
  <2> QED  BY <2>1, <2>2
<1> QED  BY <1>1, <1>3, <1>4

LEMMA Failures ==
  ASSUME TypeOK, MayFail
  PROVE  Failing \in Plans /\ Failing.texts = bound.texts
<1>1. bound \in Plans /\ bound.faults - 1 \in Nat
  BY DEF TypeOK, MayFail, Plans
<1> QED  BY <1>1 DEF Failing, Plans

LEMMA Spoiling ==
  ASSUME TypeOK, NEW ms \in SUBSET Texts
  PROVE  /\ Spoil(past, ms) \in Accidents
         /\ Spoil(past, ms).decrypted = past.decrypted /\ Spoil(past, ms).reads = past.reads
  BY DEF TypeOK, Accidents, Spoil

LEMMA OpsAre ==
  ASSUME NEW k \in {"text", "edit", "delete", "react", "receipt", "timer", "mark"},
         NEW d \in Devices, NEW m \in {0} \cup Texts, NEW n \in Nat
  PROVE  /\ Op(k, d, m, n) \in OpType /\ Op(k, d, m, n).kind = k /\ Op(k, d, m, n).from = d
         /\ Op(k, d, m, n).m = m /\ Op(k, d, m, n).n = n
  BY DEF Op, OpType

LEMMA SendTextHonest ==
  ASSUME HistoryInv, NEW d \in Devices, NEW m \in Texts, NEW outcome, SendText(d, m, outcome)
  PROVE  HistoryInv' /\ Undeleted
<1> USE DEF HistoryInv
<1> DEFINE op == Op("text", d, m, Bit(store[d].timer))
<1>1. m \in Sent /\ msgs[m].from = d
  BY DEF SendText, TypeOK, HandsHonest, HandHonest
<1>2. op \in OpType /\ op.kind = "text" /\ op.from = d /\ op.m = m
  <2>1. Bit(store[d].timer) \in Nat  BY DEF Bit
  <2> QED  BY <2>1, OpsAre
<1>3. Post(d, op, outcome)  BY DEF SendText
<1> HIDE DEF op
<1>4. past' \in Accidents /\ past'.decrypted = past.decrypted /\ past'.reads = past.reads
  BY Spoiling DEF SendText, TypeOK
<1>5. Goes  BY <1>4, SameMessages, Numbers DEF SendText
<1>6. UNCHANGED <<msgs, store, marks, receipts, opened>>  BY DEF SendText
<1>7. OpHonest(msgs', past', op)
  BY <1>1, <1>2, <1>6 DEF OpHonest, Sent
<1>8. sending' = [sending EXCEPT ![d] = @ \ {m}]  BY DEF SendText
<1>9. \A e \in Devices : sending'[e] \subseteq sending[e] /\ receipts'[e] \subseteq receipts[e]
  BY <1>6, <1>8 DEF TypeOK
<1>10. /\ MailHonest' /\ queue' \in [Devices -> Seq(OpType)]
       /\ HandsHonest' /\ lock' \in [Devices -> OpType \cup {NoOp}]
  <2> op.kind \in Carried  BY <1>2 DEF Carried
  <2> QED  BY <1>2, <1>3, <1>5, <1>7, <1>9, PostHonest
<1>11. StoresHonest'
  BY <1>5, <1>6, StoresStay DEF StoresHonest, Goes
<1>12. TypeOK'
  <2>1. bound' \in Plans /\ bound'.texts = bound.texts
    BY <1>3, Failures DEF SendText, Post, TypeOK
  <2>2. sending' \in [Devices -> SUBSET Sent']  BY <1>6, <1>8 DEF TypeOK, Sent
  <2>3. resave' \in [Devices -> SUBSET (Sent' \X {SentOk, Failed})]
    <3> DEFINE S == Sent \X {SentOk, Failed}  x == <<m, Failed>>
    <3>1. x \in S /\ S' = S  BY <1>1, <1>6 DEF Sent
    <3>2. resave' = resave \/ resave' = [resave EXCEPT ![d] = @ \cup {x}]
      BY DEF SendText
    <3>3. resave \in [Devices -> SUBSET S]  BY DEF TypeOK
    <3> HIDE DEF S, x
    <3>4. resave' \in [Devices -> SUBSET S]  BY <3>1, <3>2, <3>3
    <3> QED  BY <3>1, <3>4 DEF S
  <2> QED  BY <1>4, <1>6, <1>10, <2>1, <2>2, <2>3 DEF TypeOK, Sent, Rows
<1> QED  BY <1>6, <1>10, <1>11, <1>12, StoresUntouched

LEMMA MirrorHonest ==
  ASSUME HistoryInv, NEW d \in Devices, NEW ok \in BOOLEAN, Mirror(d, ok)
  PROVE  HistoryInv' /\ Undeleted
<1> USE DEF HistoryInv
<1> DEFINE op == lock[d]
<1>1. /\ op \in OpType /\ op.kind \in Carried /\ op.from = d /\ OpHonest(msgs, past, op)
      /\ op.m \in Sent
  BY DEF Mirror, TypeOK, HandsHonest, HandHonest, Free, OpHonest, Sent
<1>2. op.m \in Texts  BY <1>1, Numbers
<1> HIDE DEF op
<1>3. past' \in Accidents /\ past'.decrypted = past.decrypted /\ past'.reads = past.reads
  <2>1. past' = past \/ past' = Spoil(past, {op.m})  BY DEF Mirror, op
  <2> QED  BY <1>2, <2>1, Spoiling DEF TypeOK
<1>4. Goes  BY <1>3, SameMessages, Numbers DEF Mirror
<1>5. UNCHANGED <<msgs, store, sending, marks, receipts, opened>> /\ lock' = [lock EXCEPT ![d] = NoOp]
  BY DEF Mirror
<1>6. MailHonest' /\ queue' \in [Devices -> Seq(OpType)]
  <2>1. CASE ok
    <3>1. OpHonest(msgs', past', op)  BY <1>1, <1>4, OpsStay DEF Goes
    <3>2. \A e \in Siblings(d) : op \in Mail(msgs', past', e)
      BY <1>1, <3>1, Accounts DEF Mail
    <3>3. \A e \in Siblings(d) : <<op>> \in Seq(Mail(msgs', past', e))  BY <3>2
    <3>4. queue' = To(Siblings(d), <<op>>, queue)  BY <2>1 DEF Mirror, op
    <3>5. Siblings(d) \in SUBSET Devices  BY Accounts
    <3> QED  BY <1>4, <3>3, <3>4, <3>5, OtherMail
  <2>2. CASE ~ok
    BY <1>4, <2>2, SameMail DEF Mirror, TypeOK
  <2> QED  BY <2>1, <2>2
<1>7. HandsHonest'
  <2> SUFFICES ASSUME NEW e \in Devices  PROVE HandHonest(e)'  BY DEF HandsHonest
  <2> QED  BY <1>4, <1>5, OtherHand DEF HandsHonest, TypeOK
<1>8. StoresHonest'
  BY <1>4, <1>5, StoresStay DEF StoresHonest, Goes
<1>9. TypeOK'
  <2>1. bound' \in Plans /\ bound'.texts = bound.texts
    BY Failures DEF Mirror, TypeOK
  <2>2. lock' \in [Devices -> OpType \cup {NoOp}]  BY <1>5 DEF TypeOK
  <2>3. resave' \in [Devices -> SUBSET (Sent' \X {SentOk, Failed})]
    BY <1>1, <1>5 DEF Mirror, TypeOK, Sent, op
  <2> QED  BY <1>3, <1>5, <1>6, <2>1, <2>2, <2>3 DEF TypeOK, Sent, Rows
<1> QED  BY <1>5, <1>6, <1>7, <1>8, <1>9, StoresUntouched

LEMMA ResaveHonest ==
  ASSUME HistoryInv, NEW d \in Devices, NEW m \in Texts, NEW status \in {SentOk, Failed},
         Resave(d, m, status)
  PROVE  HistoryInv' /\ Undeleted
<1> USE DEF HistoryInv
<1> DEFINE t == SaveMessage(store[d], m, status, msgs[m].timed)
<1>1. m \in Sent /\ msgs[m].timed \in BOOLEAN
  BY Numbers DEF Resave, TypeOK
<1>2. StoreHonest(msgs, past, d, t) /\ Stands(store[d], t)
  BY <1>1, SavesHonest DEF StoresHonest, Sent
<1>3. store' = [store EXCEPT ![d] = t]  BY DEF Resave
<1> HIDE DEF t
<1>4. past' \in Accidents /\ past'.decrypted = past.decrypted /\ past'.reads = past.reads
  <2> DEFINE ms == IF store[d].row[m].has /\ (store[d].row[m].deleted \/ store[d].row[m].body = 0)
                   THEN {} ELSE {m}
  <2>1. ms \in SUBSET Texts /\ past' = Spoil(past, ms)  BY DEF Resave
  <2> HIDE DEF ms
  <2> QED  BY <2>1, Spoiling
<1>5. Goes  BY <1>4, SameMessages, Numbers DEF Resave
<1>6. UNCHANGED <<bound, msgs, queue, sending, lock, marks, receipts, opened>>  BY DEF Resave
<1>7. StoreHonest(msgs', past', d, t)  BY <1>2, <1>5, StoresStay DEF Goes
<1>8. StoresHonest'
  BY <1>3, <1>5, <1>7, OtherStores DEF TypeOK
<1>9. MailHonest'  BY <1>5, <1>6, SameMail
<1>10. HandsHonest'
  <2> SUFFICES ASSUME NEW e \in Devices  PROVE HandHonest(e)'  BY DEF HandsHonest
  <2> QED  BY <1>5, <1>6, OtherHand DEF HandsHonest
<1>11. TypeOK'
  <2>1. resave' \in [Devices -> SUBSET (Sent' \X {SentOk, Failed})]
    <3> DEFINE S == Sent \X {SentOk, Failed}
    <3>1. resave' = [resave EXCEPT ![d] = @ \ {<<m, status>>}] /\ S' = S
      BY <1>6 DEF Resave, Sent
    <3>2. resave \in [Devices -> SUBSET S]  BY DEF TypeOK
    <3> HIDE DEF S
    <3>3. resave' \in [Devices -> SUBSET S]  BY <3>1, <3>2
    <3> QED  BY <3>1, <3>3 DEF S
  <2>2. /\ store' \in [Devices -> Stores]
        /\ \A e \in Devices : \A k \in Texts \ Rows(store'[e]) : store'[e].row[k] = NoRow
    BY <1>2, <1>3, <1>7, StoresTyped
  <2> QED  BY <1>4, <1>6, <2>1, <2>2 DEF TypeOK, Sent
<1> QED  BY <1>2, <1>3, <1>7, <1>8, <1>9, <1>10, <1>11, StoresTyped

----------------------------------------------------------------------------
(* Edits, deletions, reactions, the timer; hiding and the reaper *)

LEMMA AmendHonest ==
  ASSUME HistoryInv, NEW d \in Devices, NEW t, NEW op, NEW outcome, NEW left,
         Amend(d, t, op, outcome, left),
         StoreHonest(msgs, past, d, t), Stands(store[d], t),
         op \in OpType, op.from = d, op.kind \in Carried \ {"text"}, OpHonest(msgs, past, op),
         left \in Plans, left.texts = bound.texts, left.faults = bound.faults,
         past' \in Accidents, past'.decrypted = past.decrypted, past'.reads = past.reads
  PROVE  HistoryInv' /\ Undeleted
<1> USE DEF HistoryInv
<1>1. store' = [store EXCEPT ![d] = t] /\ Post(d, op, outcome)  BY DEF Amend
<1>2. UNCHANGED <<msgs, sending, resave, marks, receipts, opened>>  BY DEF Amend
<1>3. Goes  BY <1>2, SameMessages, Numbers
<1>4. StoreHonest(msgs', past', d, t) /\ OpHonest(msgs', past', op)
  BY <1>3, StoresStay, OpsStay DEF Goes
<1>5. StoresHonest'
  BY <1>1, <1>3, <1>4, OtherStores DEF TypeOK
<1>6. /\ MailHonest' /\ queue' \in [Devices -> Seq(OpType)]
      /\ HandsHonest' /\ lock' \in [Devices -> OpType \cup {NoOp}]
  <2>1. \A e \in Devices : sending'[e] \subseteq sending[e] /\ receipts'[e] \subseteq receipts[e]
    BY <1>2
  <2> QED  BY <1>1, <1>3, <1>4, <2>1, PostHonest
<1>7. bound' \in Plans /\ bound'.texts = bound.texts
  <2>1. CASE outcome = "sent"
    BY <2>1 DEF Amend
  <2>2. CASE outcome # "sent"
    <3>1. bound' = [left EXCEPT !.faults = @ - 1] /\ left.faults - 1 \in Nat
      BY <2>2 DEF Amend, Post, MayFail, Plans
    <3> QED  BY <3>1 DEF Plans
  <2> QED  BY <2>1, <2>2
<1>8. /\ store' \in [Devices -> Stores]
      /\ \A e \in Devices : \A k \in Texts \ Rows(store'[e]) : store'[e].row[k] = NoRow
  BY <1>1, <1>4, StoresTyped
<1>9. TypeOK'
  BY <1>2, <1>6, <1>7, <1>8 DEF TypeOK, Sent
<1> QED  BY <1>1, <1>4, <1>5, <1>6, <1>9, StoresTyped

LEMMA SendEditHonest ==
  ASSUME HistoryInv, NEW d \in Devices, NEW m \in Texts, NEW at \in Times, NEW outcome,
         SendEdit(d, m, at, outcome)
  PROVE  HistoryInv' /\ Undeleted
<1> DEFINE op == Op("edit", d, m, at)  left == [bound EXCEPT !.edits = @ - 1]
           t == ApplyEdit(store[d], m, at)
<1>1. m \in Sent /\ Amend(d, t, op, outcome, left)  BY DEF SendEdit, Editable
<1>2. StoreHonest(msgs, past, d, t) /\ Stands(store[d], t)
  BY EditsHonest DEF HistoryInv, StoresHonest
<1>3. op \in OpType /\ op.kind = "edit" /\ op.from = d /\ op.m = m /\ op.n = at
  <2>1. at \in Nat  BY BoundsAssumption DEF Times
  <2> QED  BY <2>1 DEF Op, OpType
<1>4. left \in Plans /\ left.texts = bound.texts /\ left.faults = bound.faults
  <2>1. bound \in Plans /\ bound.edits - 1 \in Nat
    BY DEF SendEdit, HistoryInv, TypeOK, Plans
  <2> QED  BY <2>1 DEF Plans
<1>5. past' \in Accidents /\ past'.decrypted = past.decrypted /\ past'.reads = past.reads
  <2> DEFINE ms == Spoils(d, m, outcome)
  <2>1. ms \in SUBSET Texts  BY DEF Spoils
  <2>2. past' = [Spoil(past, ms) EXCEPT !.times = @ \cup {at}]  BY DEF SendEdit
  <2> HIDE DEF ms
  <2>3. /\ Spoil(past, ms) \in Accidents
        /\ Spoil(past, ms).decrypted = past.decrypted /\ Spoil(past, ms).reads = past.reads
    BY <2>1, Spoiling DEF HistoryInv
  <2> QED  BY <2>2, <2>3 DEF Accidents
<1>6. OpHonest(msgs, past, op) /\ op.kind \in Carried \ {"text"}
  BY <1>1, <1>3 DEF OpHonest, Carried, Sent
<1> HIDE DEF op, left, t
<1> QED  BY <1>1, <1>2, <1>3, <1>4, <1>5, <1>6, AmendHonest

LEMMA SendDeleteHonest ==
  ASSUME HistoryInv, NEW d \in Devices, NEW m \in Texts, NEW outcome,
         SendDelete(d, m, outcome)
  PROVE  HistoryInv' /\ Undeleted
<1> DEFINE op == Op("delete", d, m, 0)  left == [bound EXCEPT !.deletes = @ - 1]
           t == Tombstone(store[d], m)
<1>1. m \in Sent /\ Amend(d, t, op, outcome, left)  BY DEF SendDelete, Editable
<1>2. StoreHonest(msgs, past, d, t) /\ Stands(store[d], t)
  BY TombstonesHonest DEF HistoryInv, StoresHonest
<1>3. op \in OpType /\ op.kind = "delete" /\ op.from = d /\ op.m = m
  BY DEF Op, OpType
<1>4. left \in Plans /\ left.texts = bound.texts /\ left.faults = bound.faults
  <2>1. bound \in Plans /\ bound.deletes - 1 \in Nat
    BY DEF SendDelete, HistoryInv, TypeOK, Plans
  <2> QED  BY <2>1 DEF Plans
<1>5. past' \in Accidents /\ past'.decrypted = past.decrypted /\ past'.reads = past.reads
  <2> DEFINE ms == Spoils(d, m, outcome)
  <2>1. ms \in SUBSET Texts  BY DEF Spoils
  <2>2. past' = Spoil(past, ms)  BY DEF SendDelete
  <2> HIDE DEF ms
  <2> QED  BY <2>1, <2>2, Spoiling DEF HistoryInv
<1>6. OpHonest(msgs, past, op) /\ op.kind \in Carried \ {"text"}
  BY <1>1, <1>3 DEF OpHonest, Carried, Sent
<1> HIDE DEF op, left, t
<1> QED  BY <1>1, <1>2, <1>3, <1>4, <1>5, <1>6, AmendHonest

LEMMA SendReactionHonest ==
  ASSUME HistoryInv, NEW d \in Devices, NEW m \in Texts, NEW n \in {0, 1}, NEW outcome,
         SendReaction(d, m, n, outcome)
  PROVE  HistoryInv' /\ Undeleted
<1> DEFINE op == Op("react", d, m, n)  left == [bound EXCEPT !.reacts = @ - 1]
           t == UpsertReaction(store[d], Own(d), m, n)
<1>1. m \in Sent /\ Amend(d, t, op, outcome, left)  BY DEF SendReaction
<1>2. StoreHonest(msgs, past, d, t) /\ Stands(store[d], t)
  BY ReactionsHonest, Accounts DEF HistoryInv, StoresHonest
<1>3. op \in OpType /\ op.kind = "react" /\ op.from = d /\ op.m = m /\ op.n = n
  <2>1. n \in Nat  OBVIOUS
  <2> QED  BY <2>1 DEF Op, OpType
<1>4. left \in Plans /\ left.texts = bound.texts /\ left.faults = bound.faults
  <2>1. bound \in Plans /\ bound.reacts - 1 \in Nat
    BY DEF SendReaction, HistoryInv, TypeOK, Plans
  <2> QED  BY <2>1 DEF Plans
<1>5. past' \in Accidents /\ past'.decrypted = past.decrypted /\ past'.reads = past.reads
  <2> DEFINE ms == Spoils(d, m, outcome)  x == <<m, Own(d)>>
  <2>1. ms \in SUBSET Texts /\ x \in Texts \X {Mine, Theirs}  BY Accounts DEF Spoils
  <2>2. past' = [Spoil(past, ms) EXCEPT !.crossed = IF Crosses(d, m) THEN @ \cup {x} ELSE @]
    BY DEF SendReaction
  <2> HIDE DEF ms, x
  <2>3. /\ Spoil(past, ms) \in Accidents
        /\ Spoil(past, ms).decrypted = past.decrypted /\ Spoil(past, ms).reads = past.reads
    BY <2>1, Spoiling DEF HistoryInv
  <2> QED  BY <2>1, <2>2, <2>3 DEF Accidents
<1>6. OpHonest(msgs, past, op) /\ op.kind \in Carried \ {"text"}
  BY <1>1, <1>3 DEF OpHonest, Carried, Sent
<1> HIDE DEF op, left, t
<1> QED  BY <1>1, <1>2, <1>3, <1>4, <1>5, <1>6, AmendHonest
\* A step on the store of one device; what it has in hand stays, but for
\* receipts to be sent.
LEMMA StoreStep ==
  ASSUME HistoryInv, NEW d \in Devices, NEW t,
         UNCHANGED <<msgs, sending, resave, lock>>, opened' \in SUBSET Devices,
         past' \in Accidents, past.decrypted \subseteq past'.decrypted, past.reads \subseteq past'.reads,
         bound' \in Plans, bound'.texts = bound.texts,
         store' = [store EXCEPT ![d] = t], StoreHonest(msgs, past, d, t), Stands(store[d], t),
         MailHonest', queue' \in [Devices -> Seq(OpType)],
         marks' \in [Devices -> [pending : Nat, carried : Nat]],
         receipts' \in [Devices -> SUBSET Sent],
         \A e \in Devices : \A m \in receipts'[e] : <<e, m>> \in past'.reads
  PROVE  HistoryInv' /\ Undeleted
<1> USE DEF HistoryInv
<1>1. Goes  BY SameMessages, Numbers
<1>2. StoreHonest(msgs', past', d, t)  BY <1>1, StoresStay DEF Goes
<1>3. StoresHonest'  BY <1>1, <1>2, OtherStores DEF TypeOK
<1>4. HandsHonest'
  <2> SUFFICES ASSUME NEW e \in Devices  PROVE HandHonest(e)'  BY DEF HandsHonest
  <2>1. HandHonest(e)  BY DEF HandsHonest
  <2>2. OpHonest(msgs, past, lock[e]) => OpHonest(msgs', past', lock'[e])
    BY <1>1, OpsStay DEF Goes
  <2> QED  BY <2>1, <2>2 DEF HandHonest, Free
<1>5. /\ store' \in [Devices -> Stores]
      /\ \A e \in Devices : \A k \in Texts \ Rows(store'[e]) : store'[e].row[k] = NoRow
  BY <1>2, StoresTyped
<1>6. TypeOK'  BY <1>5 DEF TypeOK, Sent
<1> QED  BY <1>2, <1>3, <1>4, <1>6, StoresTyped

\* A step that leaves the messages and the stores alone, and lets go of things
\* in hand.
LEMMA KeepStep ==
  ASSUME HistoryInv, UNCHANGED <<msgs, store>>, opened' \in SUBSET Devices,
         past' \in Accidents, past.decrypted \subseteq past'.decrypted,
         past.reads \subseteq past'.reads,
         bound' \in Plans, bound'.texts = bound.texts,
         MailHonest', queue' \in [Devices -> Seq(OpType)],
         marks' \in [Devices -> [pending : Nat, carried : Nat]],
         lock' \in [Devices -> OpType \cup {NoOp}],
         sending' \in [Devices -> SUBSET Sent], receipts' \in [Devices -> SUBSET Sent],
         resave' \in [Devices -> SUBSET (Sent \X {SentOk, Failed})],
         \A e \in Devices : /\ lock'[e] \in {lock[e], NoOp}
                            /\ sending'[e] \subseteq sending[e]
                            /\ receipts'[e] \subseteq receipts[e]
  PROVE  HistoryInv' /\ Undeleted
<1> USE DEF HistoryInv
<1>1. Goes  BY SameMessages, Numbers
<1>2. StoresHonest'  BY <1>1, StoresStay DEF StoresHonest, Goes
<1>3. HandsHonest'
  <2> SUFFICES ASSUME NEW e \in Devices  PROVE HandHonest(e)'  BY DEF HandsHonest
  <2> QED  BY <1>1, OtherHand DEF HandsHonest
<1>4. TypeOK'  BY DEF TypeOK, Sent, Rows
<1> QED  BY <1>2, <1>3, <1>4, StoresUntouched

LEMMA HideHonest ==
  ASSUME HistoryInv, NEW d \in Devices, NEW m \in Texts, HideForMe(d, m)
  PROVE  HistoryInv' /\ Undeleted
<1> DEFINE t == DeleteForMe(store[d], m)
<1>1. StoreHonest(msgs, past, d, t) /\ Stands(store[d], t)
  BY RemovalsHonest DEF HistoryInv, StoresHonest
<1>2. store' = [store EXCEPT ![d] = t]  BY DEF HideForMe
<1> HIDE DEF t
<1>3. bound' \in Plans /\ bound'.texts = bound.texts
  <2>1. bound \in Plans /\ bound.hides - 1 \in Nat
    BY DEF HideForMe, HistoryInv, TypeOK, Plans
  <2> QED  BY <2>1 DEF HideForMe, Plans
<1>4. UNCHANGED <<msgs, queue, sending, resave, lock, marks, receipts, past, opened>>
  BY DEF HideForMe
<1>5. MailHonest'
  BY <1>4, SameMessages, SameMail, Numbers DEF HistoryInv
<1> QED
  BY <1>1, <1>2, <1>3, <1>4, <1>5, StoreStep DEF HistoryInv, TypeOK, HandsHonest, HandHonest

LEMMA ExpiryHonest ==
  ASSUME HistoryInv, NEW d \in Devices, NEW m \in Texts, DeleteExpired(d, m)
  PROVE  HistoryInv' /\ Undeleted
<1> DEFINE t == Removed(store[d], m)
<1>1. StoreHonest(msgs, past, d, t) /\ Stands(store[d], t)
  BY RemovalsHonest DEF HistoryInv, StoresHonest
<1>2. store' = [store EXCEPT ![d] = t]  BY DEF DeleteExpired
<1> HIDE DEF t
<1>3. UNCHANGED <<bound, msgs, queue, sending, resave, lock, marks, receipts, past, opened>>
  BY DEF DeleteExpired
<1>4. MailHonest'
  BY <1>3, SameMessages, SameMail, Numbers DEF HistoryInv
<1> QED
  BY <1>1, <1>2, <1>3, <1>4, StoreStep DEF HistoryInv, TypeOK, HandsHonest, HandHonest

LEMMA SetTimerHonest ==
  ASSUME HistoryInv, NEW d \in Devices, NEW outcome, SetTimer(d, outcome)
  PROVE  HistoryInv' /\ Undeleted
<1> DEFINE on == ~store[d].timer  t == [store[d] EXCEPT !.timer = on]
           op == Op("timer", d, 0, Bit(on))
<1>1. StoreHonest(msgs, past, d, store[d]) /\ store[d] \in Stores
  BY DEF HistoryInv, StoresHonest, StoreHonest
<1>2. StoreHonest(msgs, past, d, t) /\ Stands(store[d], t)
  BY <1>1 DEF StoreHonest, Stores, Stands
<1>3. store' = [store EXCEPT ![d] = t]
  BY DEF SetTimer, HistoryInv, TypeOK
<1>4. op \in OpType /\ op.kind = "timer" /\ op.from = d
  BY DEF Op, OpType, Bit
<1>5. UNCHANGED <<msgs, sending, resave, lock, marks, receipts, past, opened>>
  BY DEF SetTimer
<1>6. Goes  BY <1>5, SameMessages, Numbers DEF HistoryInv
<1>7. queue' = queue \/ queue' = To(Others(d), <<op>>, queue)  BY DEF SetTimer
<1> HIDE DEF op, t
<1>8. MailHonest' /\ queue' \in [Devices -> Seq(OpType)]
  <2>1. \A e \in Others(d) : op \in Mail(msgs', past', e)
    BY <1>4, Accounts DEF Mail, OpHonest, Carried
  <2>2. \A e \in Others(d) : <<op>> \in Seq(Mail(msgs', past', e))  BY <2>1
  <2>3. Others(d) \in SUBSET Devices  BY Accounts
  <2>4. CASE queue' = queue
    BY <1>6, <2>4, SameMail DEF HistoryInv, TypeOK
  <2>5. CASE queue' = To(Others(d), <<op>>, queue)
    BY <1>6, <2>2, <2>3, <2>5, OtherMail DEF HistoryInv
  <2> QED  BY <1>7, <2>4, <2>5
<1>9. bound' \in Plans /\ bound'.texts = bound.texts
  <2>1. bound \in Plans /\ bound.timers - 1 \in Nat
    BY DEF SetTimer, HistoryInv, TypeOK, Plans
  <2>2. CASE outcome = "sent"
    BY <2>1, <2>2 DEF SetTimer, Plans
  <2>3. CASE outcome # "sent"
    <3>1. /\ Failing \in Plans /\ Failing.texts = bound.texts /\ Failing.timers = bound.timers
      BY <2>3, Failures DEF SetTimer, HistoryInv, Failing, TypeOK, Plans
    <3>2. bound' = [Failing EXCEPT !.timers = @ - 1]  BY <2>3 DEF SetTimer
    <3> QED  BY <2>1, <3>1, <3>2 DEF Plans
  <2> QED  BY <2>2, <2>3
<1> QED
  BY <1>2, <1>3, <1>5, <1>8, <1>9, StoreStep DEF HistoryInv, TypeOK, HandsHonest, HandHonest
----------------------------------------------------------------------------
(* Receiving *)

LEMMA SameHonest ==
  ASSUME NEW s
  PROVE  Stands(s, s)
  BY DEF Stands

LEMMA PeersHonest ==
  ASSUME HistoryInv, NEW d \in Devices, NEW op \in Mail(msgs, past, d), op.from \notin Own(d)
  PROVE  LET t == AppliedFromPeer(store[d], op)
         IN  StoreHonest(msgs, past, d, t) /\ Stands(store[d], t)
<1> DEFINE s == store[d]
<1>1. StoreHonest(msgs, past, d, s) /\ s \in Stores
  BY DEF HistoryInv, StoresHonest, StoreHonest
<1>2. /\ op.kind \in {"text", "edit", "delete", "react", "receipt", "timer"}
      /\ op.from \in Others(d) /\ OpHonest(msgs, past, op)
  BY DEF Mail, OpType, Carried, Others
<1> HIDE DEF s
<1>3. op.kind # "timer" => op.m \in 1..Len(msgs) /\ op.m \in Texts
  BY <1>2, Numbers DEF HistoryInv, Sent, OpHonest, Carried
<1>4. CASE op.kind = "text"
  <2> DEFINE timed == op.n = 1  u == SaveIncoming(s, op.m, timed)
  <2>1. AppliedFromPeer(s, op) = u  BY <1>4 DEF AppliedFromPeer
  <2>2. msgs[op.m].from \notin Own(d)  BY <1>2, <1>4 DEF OpHonest
  <2>3. timed \in BOOLEAN  OBVIOUS
  <2> HIDE DEF timed
  <2>4. StoreHonest(msgs, past, d, u) /\ Stands(s, u)
    BY <1>1, <1>3, <1>4, <2>2, <2>3, ArrivalsHonest
  <2> QED  BY <2>1, <2>4 DEF s
<1>5. CASE op.kind = "edit"
  <2>1. AppliedFromPeer(s, op) \in {s, ApplyEdit(s, op.m, op.n)}
    BY <1>5 DEF AppliedFromPeer, InboundEdit
  <2>2. op.n \in Times  BY <1>2, <1>5 DEF OpHonest
  <2>3. StoreHonest(msgs, past, d, ApplyEdit(s, op.m, op.n)) /\ Stands(s, ApplyEdit(s, op.m, op.n))
    BY <1>1, <1>3, <1>5, <2>2, EditsHonest
  <2> QED  BY <1>1, <2>1, <2>3, SameHonest DEF s
<1>6. CASE op.kind = "delete"
  <2>1. AppliedFromPeer(s, op) \in {s, Tombstone(s, op.m)}
    BY <1>6 DEF AppliedFromPeer, InboundDelete
  <2>2. StoreHonest(msgs, past, d, Tombstone(s, op.m)) /\ Stands(s, Tombstone(s, op.m))
    BY <1>1, <1>3, <1>6, TombstonesHonest
  <2> QED  BY <1>1, <2>1, <2>2, SameHonest DEF s
<1>7. CASE op.kind = "react"
  <2>1. AppliedFromPeer(s, op) = UpsertReaction(s, Own(op.from), op.m, op.n)
    BY <1>7 DEF AppliedFromPeer, Reactor
  <2>2. op.n \in {0, 1}  BY <1>2, <1>7 DEF OpHonest
  <2>3. Own(op.from) \in {Mine, Theirs}  BY DEF Own
  <2> DEFINE u == UpsertReaction(s, Own(op.from), op.m, op.n)
  <2>4. StoreHonest(msgs, past, d, u) /\ Stands(s, u)
    BY <1>1, <1>3, <1>7, <2>2, <2>3, ReactionsHonest
  <2> QED  BY <2>1, <2>4 DEF s
<1>8. CASE op.kind = "receipt"
  <2>1. AppliedFromPeer(s, op) = UpdateStatus(s, op.m, op.n)
    BY <1>8 DEF AppliedFromPeer
  <2>2. /\ op.n \in {Delivered, Read}
        /\ op.n = Delivered => <<op.from, op.m>> \in past.decrypted
        /\ op.n = Read => <<op.from, op.m>> \in past.reads
    BY <1>2, <1>8 DEF OpHonest
  <2> DEFINE u == UpdateStatus(s, op.m, op.n)
  <2>3. StoreHonest(msgs, past, d, u) /\ Stands(s, u)
    BY <1>1, <1>2, <1>3, <1>8, <2>2, ReceiptsHonest
  <2> QED  BY <2>1, <2>3 DEF s
<1>9. CASE op.kind = "timer"
  <2>1. AppliedFromPeer(s, op) = [s EXCEPT !.timer = (op.n = 1)]
    BY <1>9 DEF AppliedFromPeer
  <2>2. /\ StoreHonest(msgs, past, d, [s EXCEPT !.timer = (op.n = 1)])
        /\ Stands(s, [s EXCEPT !.timer = (op.n = 1)])
    BY <1>1 DEF StoreHonest, Stores, Stands
  <2> QED  BY <2>1, <2>2 DEF s
<1> QED  BY <1>2, <1>4, <1>5, <1>6, <1>7, <1>8, <1>9

LEMMA SiblingsHonest ==
  ASSUME HistoryInv, NEW d \in Devices, NEW op \in Mail(msgs, past, d), op.from \in Own(d)
  PROVE  LET t == AppliedFromSibling(store[d], op)
         IN  StoreHonest(msgs, past, d, t) /\ Stands(store[d], t)
<1> DEFINE s == store[d]
<1>1. StoreHonest(msgs, past, d, s) /\ s \in Stores
  BY DEF HistoryInv, StoresHonest, StoreHonest
<1>2. op.kind \in {"text", "edit", "delete", "react", "mark"} /\ OpHonest(msgs, past, op)
  BY DEF Mail, OpType, Carried
<1> HIDE DEF s
<1>3. op.kind # "mark" => op.m \in 1..Len(msgs) /\ op.m \in Texts
  BY <1>2, Numbers DEF HistoryInv, Sent, OpHonest, Carried
<1>4. CASE op.kind = "text"
  <2> DEFINE timed == op.n = 1  u == SaveMessage(s, op.m, SentOk, timed)
  <2>1. AppliedFromSibling(s, op) = u  BY <1>4 DEF AppliedFromSibling
  <2>2. timed \in BOOLEAN /\ SentOk \in {Sending, SentOk, Failed}  OBVIOUS
  <2> HIDE DEF timed
  <2>3. StoreHonest(msgs, past, d, u) /\ Stands(s, u)
    BY <1>1, <1>3, <1>4, <2>2, SavesHonest
  <2> QED  BY <2>1, <2>3 DEF s
<1>5. CASE op.kind = "edit"
  <2>1. AppliedFromSibling(s, op) = ApplyEdit(s, op.m, op.n)
    BY <1>5 DEF AppliedFromSibling
  <2>2. op.n \in Times  BY <1>2, <1>5 DEF OpHonest
  <2> QED  BY <1>1, <1>3, <1>5, <2>1, <2>2, EditsHonest DEF s
<1>6. CASE op.kind = "delete"
  <2>1. AppliedFromSibling(s, op) = Tombstone(s, op.m)
    BY <1>6 DEF AppliedFromSibling
  <2> QED  BY <1>1, <1>3, <1>6, <2>1, TombstonesHonest DEF s
<1>7. CASE op.kind = "react"
  <2>1. AppliedFromSibling(s, op) = UpsertReaction(s, Own(op.from), op.m, op.n)
    BY <1>7 DEF AppliedFromSibling, Reactor
  <2>2. op.n \in {0, 1} /\ Own(op.from) \in {Mine, Theirs}
    BY <1>2, <1>7 DEF OpHonest, Own
  <2> DEFINE u == UpsertReaction(s, Own(op.from), op.m, op.n)
  <2>3. StoreHonest(msgs, past, d, u) /\ Stands(s, u)
    BY <1>1, <1>3, <1>7, <2>2, ReactionsHonest
  <2> QED  BY <2>1, <2>3 DEF s
<1>8. CASE op.kind = "mark"
  <2>1. AppliedFromSibling(s, op) = MarkRead(s, op.n)
    BY <1>8 DEF AppliedFromSibling, SyncRead
  <2> QED  BY <1>1, <2>1, MarksHonest DEF s
<1> QED  BY <1>2, <1>4, <1>5, <1>6, <1>7, <1>8

LEMMA OpenHonest ==
  ASSUME HistoryInv, NEW d \in Devices, NEW ok \in BOOLEAN, Open(d, ok)
  PROVE  HistoryInv' /\ Undeleted
<1> DEFINE op == Head(queue[d])  fresh == Fresh(d, op)
           rcpt == Op("receipt", d, op.m, Delivered)
<1>1. /\ UNCHANGED <<msgs, store, sending, resave, lock, marks, receipts>>
      /\ opened' = opened \cup {d}
      /\ past' = IF fresh THEN [past EXCEPT !.decrypted = @ \cup {<<d, op.m>>}] ELSE past
      /\ queue' = IF fresh /\ ok THEN To(Others(d), <<rcpt>>, queue) ELSE queue
      /\ bound' = IF ok THEN bound ELSE Failing
      /\ ok \/ MayFail
  BY DEF Open
<1>2. op \in Mail(msgs, past, d)
  <2> DEFINE M == Mail(msgs, past, d)
  <2>1. queue[d] \in Seq(M) /\ queue[d] # <<>>  BY DEF Open, HistoryInv, MailHonest
  <2> HIDE DEF M
  <2>2. Head(queue[d]) \in M  BY <2>1
  <2> QED  BY <2>2 DEF M
<1> HIDE DEF op
<1>3. fresh => op.m \in Sent /\ op.m \in Texts
  BY <1>2, Numbers DEF Mail, OpHonest, Carried, HistoryInv, Sent, Fresh
<1>4. /\ past' \in Accidents /\ past.decrypted \subseteq past'.decrypted
      /\ past.reads = past'.reads
      /\ fresh => <<d, op.m>> \in past'.decrypted
  <2> DEFINE x == <<d, op.m>>
  <2>1. past \in Accidents /\ (fresh => x \in Devices \X Texts)
    BY <1>3 DEF HistoryInv, TypeOK
  <2>2. past' = IF fresh THEN [past EXCEPT !.decrypted = @ \cup {x}] ELSE past  BY <1>1
  <2> HIDE DEF x, fresh
  <2>3. /\ past' \in Accidents /\ past.decrypted \subseteq past'.decrypted
        /\ past.reads = past'.reads
        /\ fresh => x \in past'.decrypted
    BY <2>1, <2>2 DEF Accidents
  <2> QED  BY <2>3 DEF x
<1>5. Goes  BY <1>1, <1>4, SameMessages, Numbers DEF HistoryInv
<1>6. fresh => \A e \in Others(d) : <<rcpt>> \in Seq(Mail(msgs', past', e))
  <2> SUFFICES ASSUME fresh, NEW e \in Others(d)  PROVE rcpt \in Mail(msgs', past', e)
    OBVIOUS
  <2>1. /\ rcpt \in OpType /\ rcpt.kind = "receipt" /\ rcpt.from = d /\ rcpt.m = op.m
        /\ rcpt.n = Delivered
    BY <1>3 DEF Op, OpType
  <2> HIDE DEF rcpt
  <2>2. OpHonest(msgs', past', rcpt)
    BY <1>1, <1>3, <1>4, <2>1 DEF OpHonest, Carried, Sent
  <2> QED  BY <2>1, <2>2, Accounts DEF Mail, Carried
<1> HIDE DEF rcpt
<1>7. MailHonest' /\ queue' \in [Devices -> Seq(OpType)]
  <2>1. Others(d) \in SUBSET Devices  BY Accounts
  <2>2. CASE fresh /\ ok
    BY <1>1, <1>5, <1>6, <2>1, <2>2, OtherMail DEF HistoryInv
  <2>3. CASE ~(fresh /\ ok)
    BY <1>1, <1>5, <2>3, SameMail DEF HistoryInv, TypeOK
  <2> QED  BY <2>2, <2>3
<1>8. bound' \in Plans /\ bound'.texts = bound.texts
  BY <1>1, Failures DEF HistoryInv, TypeOK
<1> HIDE DEF fresh
<1>9. /\ opened' \in SUBSET Devices /\ marks' \in [Devices -> [pending : Nat, carried : Nat]]
      /\ lock' \in [Devices -> OpType \cup {NoOp}]
      /\ sending' \in [Devices -> SUBSET Sent] /\ receipts' \in [Devices -> SUBSET Sent]
      /\ resave' \in [Devices -> SUBSET (Sent \X {SentOk, Failed})]
  BY <1>1 DEF HistoryInv, TypeOK
<1>10. UNCHANGED <<msgs, store>> /\ \A e \in Devices : /\ lock'[e] \in {lock[e], NoOp}
                                                     /\ sending'[e] \subseteq sending[e]
                                                     /\ receipts'[e] \subseteq receipts[e]
  BY <1>1
<1>11. past.reads \subseteq past'.reads  BY <1>4
<1> QED  BY <1>4, <1>7, <1>8, <1>9, <1>10, <1>11, KeepStep

\* The head of a queue, taken off or lost with the process.
LEMMA HeadTaken ==
  ASSUME HistoryInv, NEW d \in Devices, queue[d] # <<>>
  PROVE  LET rest == [queue EXCEPT ![d] = Tail(@)]
         IN  /\ Head(queue[d]) \in Mail(msgs, past, d)
             /\ rest \in [Devices -> Seq(OpType)]
             /\ \A e \in Devices : rest[e] \in Seq(Mail(msgs, past, e))
<1> DEFINE M == Mail(msgs, past, d)  rest == [queue EXCEPT ![d] = Tail(@)]
<1>1. queue[d] \in Seq(M) /\ queue[d] \in Seq(OpType)
  BY DEF HistoryInv, MailHonest, TypeOK
<1>2. Head(queue[d]) \in M /\ Tail(queue[d]) \in Seq(M) /\ Tail(queue[d]) \in Seq(OpType)
  <2> HIDE DEF M
  <2> QED  BY <1>1
<1>3. rest \in [Devices -> Seq(OpType)]  BY <1>2 DEF HistoryInv, TypeOK
<1>4. \A e \in Devices : rest[e] \in Seq(Mail(msgs, past, e))
  BY <1>2 DEF HistoryInv, MailHonest, TypeOK
<1> QED  BY <1>2, <1>3, <1>4

\* What is lost with an op that was decrypted and not applied.
LEMMA Losing ==
  ASSUME HistoryInv, NEW p \in Accidents, NEW d \in Devices, NEW op \in Mail(msgs, past, d)
  PROVE  /\ Lost(p, d, op) \in Accidents
         /\ Lost(p, d, op).decrypted = p.decrypted /\ Lost(p, d, op).reads = p.reads
         /\ Lost(p, d, op).got = p.got /\ p.lost \subseteq Lost(p, d, op).lost
         /\ p.spoilt \subseteq Lost(p, d, op).spoilt
         /\ Lost(p, d, op).crossed = p.crossed
         /\ Fresh(d, op) => <<d, op.m>> \in Lost(p, d, op).lost
         /\ op.kind \in {"edit", "delete", "react"} => op.m \in Lost(p, d, op).spoilt
<1>1. op.kind \in Carried => op.m \in Texts
  BY Numbers DEF HistoryInv, Mail, OpHonest, Sent, Carried
<1>2. op.from \in Devices  BY DEF Mail, OpType
<1>3. CASE Fresh(d, op)
  <2> DEFINE x == <<d, op.m>>
  <2>1. op.kind = "text" /\ op.m \in Texts  BY <1>1, <1>3 DEF Fresh, Carried
  <2>4. x \in Devices \X Texts  BY <2>1
  <2>2. Lost(p, d, op) = [p EXCEPT !.lost = @ \cup {x}]  BY <1>3, <2>1 DEF Lost
  <2> HIDE DEF x
  <2>3. /\ [p EXCEPT !.lost = @ \cup {x}] \in Accidents /\ x \in Lost(p, d, op).lost
        /\ op.kind = "text"
    BY <2>1, <2>2, <2>4 DEF Accidents
  <2> QED  BY <2>2, <2>3 DEF Accidents, x
<1>4. CASE ~Fresh(d, op) /\ op.kind \in {"edit", "delete", "react"}
  BY <1>1, <1>4 DEF Lost, Spoil, Accidents, Carried
<1>5. CASE ~Fresh(d, op) /\ op.kind \notin {"edit", "delete", "react"}
  BY <1>2, <1>5 DEF Lost, Accidents
<1> QED  BY <1>3, <1>4, <1>5

LEMMA ReceiveHonest ==
  ASSUME HistoryInv, HeadsHonest, NEW d \in Devices, NEW ok \in BOOLEAN, Receive(d, ok)
  PROVE  HistoryInv' /\ Undeleted
<1> DEFINE op == Head(queue[d])
           rest == [queue EXCEPT ![d] = Tail(@)]
           t == Stored(d, op)
<1>1. /\ op \in Mail(msgs, past, d) /\ rest \in [Devices -> Seq(OpType)]
      /\ \A e \in Devices : rest[e] \in Seq(Mail(msgs, past, e))
  BY HeadTaken DEF Receive, HeadsHonest
<1>2. /\ UNCHANGED <<msgs, sending, resave, lock, marks, receipts>>
      /\ opened' = opened \ {d} /\ queue' = rest
      /\ ok => /\ store' = [store EXCEPT ![d] = t] /\ bound' = bound
               /\ past' = IF Fresh(d, op) THEN [past EXCEPT !.got = @ \cup {<<d, op.m>>}]
                          ELSE past
      /\ ~ok => MayFail /\ bound' = Failing /\ past' = Lost(past, d, op) /\ store' = store
  BY DEF Receive
<1> HIDE DEF op, rest
<1>3. /\ past' \in Accidents /\ past.decrypted = past'.decrypted /\ past.reads = past'.reads
  <2>1. CASE ~ok
    <3>1. past \in Accidents  BY DEF HistoryInv, TypeOK
    <3>2. past' = Lost(past, d, op)  BY <1>2, <2>1
    <3>3. /\ Lost(past, d, op) \in Accidents
          /\ Lost(past, d, op).decrypted = past.decrypted
          /\ Lost(past, d, op).reads = past.reads
      BY <1>1, <3>1, Losing
    <3> QED  BY <3>2, <3>3
  <2>2. CASE ok /\ Fresh(d, op)
    <3> DEFINE x == <<d, op.m>>
    <3>1. x \in Devices \X Texts
      BY <1>1, <2>2, Numbers DEF HistoryInv, Mail, OpHonest, Sent, Carried, Fresh
    <3>2. past' = [past EXCEPT !.got = @ \cup {x}] /\ past \in Accidents
      BY <1>2, <2>2 DEF HistoryInv, TypeOK
    <3> HIDE DEF x
    <3> QED  BY <3>1, <3>2 DEF Accidents
  <2>3. CASE ok /\ ~Fresh(d, op)
    BY <1>2, <2>3 DEF HistoryInv, TypeOK
  <2> QED  BY <2>1, <2>2, <2>3
<1>4. Goes  BY <1>2, <1>3, SameMessages, Numbers DEF HistoryInv
<1>5. MailHonest' /\ queue' \in [Devices -> Seq(OpType)]
  BY <1>1, <1>2, <1>4, MailStays DEF Goes, MailHonest
<1>6. bound' \in Plans /\ bound'.texts = bound.texts
  BY <1>2, Failures DEF HistoryInv, TypeOK
<1>7. \A e \in Devices : \A m \in receipts'[e] : <<e, m>> \in past'.reads
  BY <1>2, <1>3 DEF HistoryInv, HandsHonest, HandHonest
<1>8. CASE ok
  <2>1. StoreHonest(msgs, past, d, t) /\ Stands(store[d], t)
    BY <1>1, PeersHonest, SiblingsHonest DEF Stored
  <2>2. store' = [store EXCEPT ![d] = t]  BY <1>2, <1>8
  <2> HIDE DEF t
  <2> QED
    BY <1>2, <1>3, <1>5, <1>6, <1>7, <2>1, <2>2, StoreStep DEF HistoryInv, TypeOK
<1>9. CASE ~ok
  BY <1>2, <1>3, <1>5, <1>6, <1>9, KeepStep DEF HistoryInv, TypeOK
<1> QED  BY <1>8, <1>9
----------------------------------------------------------------------------
(* Reading, and telling the account's other devices *)

LEMMA Merges ==
  ASSUME NEW a \in Nat, NEW b \in Nat
  PROVE  MergeMark(a, b) \in Nat
<1>1. \E x \in {a, b} : \A y \in {a, b} : x >= y
  <2>1. CASE a >= b  BY <2>1
  <2>2. CASE b >= a  BY <2>2
  <2> QED  BY <2>1, <2>2
<1>2. Max({a, b}) \in {a, b}  BY <1>1 DEF Max
<1> QED  BY <1>2 DEF MergeMark

LEMMA Listed ==
  ASSUME NEW S, IsFiniteSet(S)
  PROVE  Cardinality(S) \in Nat /\ SetToSeq(S) \in [1..Cardinality(S) -> S]
<1>1. Cardinality(S) \in Nat /\ ExistsBijection(1..Cardinality(S), S)
  BY FS_CardinalityType
<1>2. \E f \in [1..Cardinality(S) -> S] : IsInjective(f)
  BY <1>1 DEF ExistsBijection, Bijection, Injection
<1> QED  BY <1>1, <1>2 DEF SetToSeq

LEMMA ReadingHonest ==
  ASSUME HistoryInv, NEW d \in Devices, NEW upTo \in Nat, MarkMessagesRead(d, upTo)
  PROVE  HistoryInv' /\ Undeleted
<1> DEFINE t == MarkRead(store[d], upTo)  new == Unread(store[d], upTo)
<1>1. StoreHonest(msgs, past, d, store[d]) /\ StoreHonest(msgs, past, d, t)
      /\ Stands(store[d], t)
  BY MarksHonest DEF HistoryInv, StoresHonest
<1>2. new \subseteq Sent /\ new \subseteq Texts
  BY <1>1 DEF Unread, Rows, StoreHonest, RowHonest, Sent
<1>3. /\ store' = [store EXCEPT ![d] = t]
      /\ marks' = [marks EXCEPT ![d].pending = MergeMark(@, upTo)]
      /\ receipts' = [receipts EXCEPT ![d] = IF bound.curated THEN @ \cup new ELSE @]
      /\ past' = [past EXCEPT !.reads = @ \cup ({d} \X new)]
      /\ UNCHANGED <<msgs, queue, sending, resave, lock, opened>>
  BY DEF MarkMessagesRead
<1> HIDE DEF t, new
<1>4. bound' \in Plans /\ bound'.texts = bound.texts
  <2>1. bound \in Plans /\ bound.reads - 1 \in Nat
    BY DEF MarkMessagesRead, HistoryInv, TypeOK, Plans
  <2> QED  BY <2>1 DEF MarkMessagesRead, Plans
<1>5. /\ past' \in Accidents /\ past'.decrypted = past.decrypted /\ past.reads \subseteq past'.reads
      /\ \A m \in new : <<d, m>> \in past'.reads
  BY <1>2, <1>3 DEF HistoryInv, TypeOK, Accidents
<1>6. MailHonest'
  <2>1. Goes  BY <1>3, <1>5, SameMessages, Numbers DEF HistoryInv
  <2> QED  BY <1>3, <2>1, SameMail DEF HistoryInv
<1>7. marks' \in [Devices -> [pending : Nat, carried : Nat]]
  <2>1. /\ marks \in [Devices -> [pending : Nat, carried : Nat]] /\ marks[d].pending \in Nat
    BY DEF HistoryInv, TypeOK
  <2>2. MergeMark(marks[d].pending, upTo) \in Nat  BY <2>1, Merges
  <2> QED  BY <1>3, <2>1, <2>2
<1>8. receipts' \in [Devices -> SUBSET Sent]
  <2>1. receipts \in [Devices -> SUBSET Sent]  BY DEF HistoryInv, TypeOK
  <2> QED  BY <1>2, <1>3, <2>1
<1>9. \A e \in Devices : \A m \in receipts'[e] : <<e, m>> \in past'.reads
  <2> SUFFICES ASSUME NEW e \in Devices, NEW m \in receipts'[e]
               PROVE  <<e, m>> \in past'.reads
    OBVIOUS
  <2>1. m \in receipts[e] \/ (e = d /\ m \in new)  BY <1>3 DEF HistoryInv, TypeOK
  <2>2. m \in receipts[e] => <<e, m>> \in past.reads
    BY DEF HistoryInv, HandsHonest, HandHonest
  <2> QED  BY <1>5, <2>1, <2>2
<1> QED
  BY <1>1, <1>3, <1>4, <1>5, <1>6, <1>7, <1>8, <1>9, StoreStep DEF HistoryInv, TypeOK

LEMMA ReceiptsSentHonest ==
  ASSUME HistoryInv, NEW d \in Devices, NEW ok \in BOOLEAN, SendReadReceipts(d, ok)
  PROVE  HistoryInv' /\ Undeleted
<1> DEFINE S == receipts[d]  list == SetToSeq(S)
           ops == [i \in 1..Cardinality(S) |-> Op("receipt", d, list[i], Read)]
<1>1. /\ UNCHANGED <<msgs, store, sending, resave, lock, marks, past, opened>>
      /\ receipts' = [receipts EXCEPT ![d] = {}]
      /\ IF ok THEN bound' = bound /\ queue' = To(Others(d), ops, queue)
         ELSE MayFail /\ bound' = Failing /\ queue' = queue
  BY DEF SendReadReceipts
<1>2. S \subseteq Sent /\ \A m \in S : <<d, m>> \in past.reads
  BY DEF HistoryInv, TypeOK, HandsHonest, HandHonest
<1>3. Cardinality(S) \in Nat /\ list \in [1..Cardinality(S) -> S]
  <2>1. IsFiniteSet(Sent)  BY Numbers, FS_Interval DEF HistoryInv, Sent
  <2> HIDE DEF S
  <2>2. IsFiniteSet(S)  BY <1>2, <2>1, FS_Subset
  <2> QED  BY <2>2, Listed
<1> HIDE DEF S, list
<1>4. Goes  BY <1>1, SameMessages, Numbers DEF HistoryInv
<1>5. \A e \in Others(d) : ops \in Seq(Mail(msgs', past', e))
  <2> SUFFICES ASSUME NEW e \in Others(d)  PROVE ops \in Seq(Mail(msgs', past', e))
    OBVIOUS
  <2>1. ASSUME NEW m \in S  PROVE Op("receipt", d, m, Read) \in Mail(msgs', past', e)
    <3> DEFINE op == Op("receipt", d, m, Read)
    <3>1. m \in Sent /\ m \in Texts /\ <<d, m>> \in past'.reads
      BY <1>1, <1>2, Numbers DEF HistoryInv
    <3>2. /\ op \in OpType /\ op.kind = "receipt" /\ op.from = d /\ op.m = m /\ op.n = Read
      BY <3>1 DEF Op, OpType
    <3> HIDE DEF op
    <3>3. OpHonest(msgs', past', op)
      BY <1>1, <3>1, <3>2 DEF OpHonest, Carried, Sent
    <3>4. op \in Mail(msgs', past', e)  BY <3>2, <3>3, Accounts DEF Mail, Carried
    <3> QED  BY <3>4 DEF op
  <2> DEFINE A == Mail(msgs', past', e)
  <2>2. \A i \in 1..Cardinality(S) : ops[i] \in A  BY <1>3, <2>1
  <2> HIDE DEF A
  <2>3. ops \in [1..Cardinality(S) -> A]  BY <2>2
  <2> HIDE DEF ops
  <2>4. ops \in Seq(A)  BY <1>3, <2>3
  <2> QED  BY <2>4 DEF A
<1> HIDE DEF ops
<1>6. MailHonest' /\ queue' \in [Devices -> Seq(OpType)]
  <2>1. Others(d) \in SUBSET Devices  BY Accounts
  <2>2. CASE ok
    BY <1>1, <1>4, <1>5, <2>1, <2>2, OtherMail DEF HistoryInv
  <2>3. CASE ~ok
    BY <1>1, <1>4, <2>3, SameMail DEF HistoryInv, TypeOK
  <2> QED  BY <2>2, <2>3
<1>7. bound' \in Plans /\ bound'.texts = bound.texts
  BY <1>1, Failures DEF HistoryInv, TypeOK
<1>8. receipts' \in [Devices -> SUBSET Sent] /\ \A e \in Devices : receipts'[e] \subseteq receipts[e]
  BY <1>1 DEF HistoryInv, TypeOK
<1> QED  BY <1>1, <1>6, <1>7, <1>8, KeepStep DEF HistoryInv, TypeOK

LEMMA DrainHonest ==
  ASSUME HistoryInv, NEW d \in Devices, DrainMarks(d)
  PROVE  HistoryInv' /\ Undeleted
<1>1. UNCHANGED <<bound, msgs, store, queue, sending, resave, lock, receipts, past, opened>>
  BY DEF DrainMarks
<1>2. marks' \in [Devices -> [pending : Nat, carried : Nat]]
  BY DEF DrainMarks, HistoryInv, TypeOK
<1>3. MailHonest'
  <2>1. Goes  BY <1>1, SameMessages, Numbers DEF HistoryInv
  <2> QED  BY <1>1, <2>1, SameMail DEF HistoryInv
<1> QED  BY <1>1, <1>2, <1>3, KeepStep DEF HistoryInv, TypeOK

LEMMA ReadMarksHonest ==
  ASSUME HistoryInv, NEW d \in Devices, NEW ok \in BOOLEAN, SendReadMarks(d, ok)
  PROVE  HistoryInv' /\ Undeleted
<1> DEFINE op == Op("mark", d, 0, marks[d].carried)
<1>1. /\ UNCHANGED <<msgs, store, sending, resave, lock, receipts, past, opened>>
      /\ IF ok THEN bound' = bound /\ queue' = To(Siblings(d), <<op>>, queue)
         ELSE MayFail /\ bound' = Failing /\ queue' = queue
  BY DEF SendReadMarks
<1>2. /\ marks \in [Devices -> [pending : Nat, carried : Nat]]
      /\ marks[d].pending \in Nat /\ marks[d].carried \in Nat
  BY DEF HistoryInv, TypeOK
<1>3. op \in OpType /\ op.kind = "mark" /\ op.from = d
  BY <1>2 DEF Op, OpType
<1> HIDE DEF op
<1>4. Goes  BY <1>1, SameMessages, Numbers DEF HistoryInv
<1>5. \A e \in Siblings(d) : <<op>> \in Seq(Mail(msgs', past', e))
  <2>1. \A e \in Siblings(d) : op \in Mail(msgs', past', e)
    BY <1>3, Accounts DEF Mail, OpHonest, Carried
  <2> QED  BY <2>1
<1>6. MailHonest' /\ queue' \in [Devices -> Seq(OpType)]
  <2>1. Siblings(d) \in SUBSET Devices  BY Accounts
  <2>2. CASE ok
    BY <1>1, <1>4, <1>5, <2>1, <2>2, OtherMail DEF HistoryInv
  <2>3. CASE ~ok
    BY <1>1, <1>4, <2>3, SameMail DEF HistoryInv, TypeOK
  <2> QED  BY <2>2, <2>3
<1>7. marks' \in [Devices -> [pending : Nat, carried : Nat]]
  <2>1. MergedBack(marks[d]) \in Nat  BY <1>2, Merges DEF MergedBack
  <2> QED  BY <1>2, <2>1 DEF SendReadMarks
<1>8. bound' \in Plans /\ bound'.texts = bound.texts
  BY <1>1, Failures DEF HistoryInv, TypeOK
<1> QED  BY <1>1, <1>6, <1>7, <1>8, KeepStep DEF HistoryInv, TypeOK

LEMMA ExitHonest ==
  ASSUME HistoryInv, HeadsHonest, NEW d \in Devices, Exit(d)
  PROVE  HistoryInv' /\ Undeleted
<1> DEFINE rest == [queue EXCEPT ![d] = Tail(@)]
           ms == sending[d] \cup IF Free(d) THEN {} ELSE {lock[d].m}
           ds == IF marks[d].pending + marks[d].carried > 0 THEN {d} ELSE {}
           late == [Spoil(past, ms) EXCEPT !.forgot = @ \cup ds]
<1>1. /\ UNCHANGED <<msgs, store>> /\ MayFail /\ bound' = Failing
      /\ sending' = [sending EXCEPT ![d] = {}] /\ resave' = [resave EXCEPT ![d] = {}]
      /\ lock' = [lock EXCEPT ![d] = NoOp] /\ receipts' = [receipts EXCEPT ![d] = {}]
      /\ marks' = [marks EXCEPT ![d] = [pending |-> 0, carried |-> 0]]
      /\ opened' = opened \ {d}
      /\ queue' = IF d \in opened THEN rest ELSE queue
      /\ past' = IF d \in opened THEN Lost(late, d, Head(queue[d])) ELSE late
  BY DEF Exit
<1>0. /\ late \in Accidents /\ late.decrypted = past.decrypted /\ late.reads = past.reads
  <2>1. ms \in SUBSET Texts
    <3>1. sending[d] \subseteq Texts  BY Numbers DEF HistoryInv, TypeOK
    <3>2. ~Free(d) => lock[d].m \in Texts
      BY Numbers DEF HistoryInv, HandsHonest, HandHonest, OpHonest, Sent
    <3> QED  BY <3>1, <3>2
  <2>2. ds \in SUBSET Devices  OBVIOUS
  <2> HIDE DEF ms, ds
  <2>3. /\ Spoil(past, ms) \in Accidents
        /\ Spoil(past, ms).decrypted = past.decrypted /\ Spoil(past, ms).reads = past.reads
    BY <2>1, Spoiling DEF HistoryInv
  <2> QED  BY <2>2, <2>3 DEF Accidents
<1>9. d \in opened => /\ Head(queue[d]) \in Mail(msgs, past, d)
                      /\ rest \in [Devices -> Seq(OpType)]
                      /\ \A e \in Devices : rest[e] \in Seq(Mail(msgs, past, e))
  BY HeadTaken DEF HeadsHonest
<1> HIDE DEF rest, late
<1>2. past' \in Accidents /\ past'.decrypted = past.decrypted /\ past'.reads = past.reads
  BY <1>0, <1>1, <1>9, Losing
<1>8. Goes  BY <1>1, <1>2, SameMessages, Numbers DEF HistoryInv
<1>3. MailHonest' /\ queue' \in [Devices -> Seq(OpType)]
  <2>1. CASE d \in opened
    BY <1>1, <1>8, <1>9, <2>1, MailStays DEF Goes, MailHonest
  <2>2. CASE d \notin opened
    BY <1>1, <1>8, <2>2, SameMail DEF HistoryInv, TypeOK
  <2> QED  BY <2>1, <2>2
<1>4. bound' \in Plans /\ bound'.texts = bound.texts
  BY <1>1, Failures DEF HistoryInv
<1>5. /\ marks' \in [Devices -> [pending : Nat, carried : Nat]]
      /\ lock' \in [Devices -> OpType \cup {NoOp}]
      /\ sending' \in [Devices -> SUBSET Sent] /\ receipts' \in [Devices -> SUBSET Sent]
      /\ opened' \in SUBSET Devices
  BY <1>1 DEF HistoryInv, TypeOK
<1>6. resave' \in [Devices -> SUBSET (Sent \X {SentOk, Failed})]
  <2> DEFINE S == Sent \X {SentOk, Failed}
  <2>1. resave \in [Devices -> SUBSET S]  BY DEF HistoryInv, TypeOK
  <2> HIDE DEF S
  <2>2. resave' \in [Devices -> SUBSET S]  BY <1>1, <2>1
  <2> QED  BY <2>2 DEF S
<1>7. \A e \in Devices : /\ lock'[e] \in {lock[e], NoOp}
                         /\ sending'[e] \subseteq sending[e]
                         /\ receipts'[e] \subseteq receipts[e]
  BY <1>1 DEF HistoryInv, TypeOK
<1> QED  BY <1>1, <1>2, <1>3, <1>4, <1>5, <1>6, <1>7, KeepStep
----------------------------------------------------------------------------
(* Every step *)

LEMMA WorkHonest ==
  ASSUME HistoryInv, HeadsHonest, NEW d \in Devices, Work(d)
  PROVE  HistoryInv' /\ Undeleted
<1>1. CASE \E m \in Texts : SendText(d, m, "sent")
  BY <1>1, SendTextHonest
<1>2. CASE Mirror(d, TRUE)
  BY <1>2, MirrorHonest
<1>3. CASE \E m \in Texts, s \in {SentOk, Failed} : Resave(d, m, s)
  BY <1>3, ResaveHonest
<1>8. CASE Open(d, TRUE)
  BY <1>8, OpenHonest
<1>4. CASE Receive(d, TRUE)
  BY <1>4, ReceiveHonest
<1>5. CASE SendReadReceipts(d, TRUE)
  BY <1>5, ReceiptsSentHonest
<1>6. CASE DrainMarks(d)
  BY <1>6, DrainHonest
<1>7. CASE SendReadMarks(d, TRUE)
  BY <1>7, ReadMarksHonest
<1> QED  BY <1>1, <1>2, <1>3, <1>4, <1>5, <1>6, <1>7, <1>8 DEF Work

LEMMA UserHonest ==
  ASSUME HistoryInv, NEW d \in Devices, User(d)
  PROVE  HistoryInv' /\ Undeleted
<1>1. CASE Compose(d)
  BY <1>1, ComposeHonest
<1>2. ASSUME NEW m \in Texts, NEW o \in Outcomes, NEW at \in Times, SendEdit(d, m, at, o)
      PROVE  HistoryInv' /\ Undeleted
  BY <1>2, SendEditHonest
<1>3. ASSUME NEW m \in Texts, NEW o \in Outcomes, SendDelete(d, m, o)
      PROVE  HistoryInv' /\ Undeleted
  BY <1>3, SendDeleteHonest
<1>4. ASSUME NEW m \in Texts, NEW o \in Outcomes, NEW n \in {0, 1}, SendReaction(d, m, n, o)
      PROVE  HistoryInv' /\ Undeleted
  BY <1>4, SendReactionHonest
<1>5. CASE \E m \in Texts : HideForMe(d, m)
  BY <1>5, HideHonest
<1>6. CASE \E o \in Outcomes : SetTimer(d, o)
  BY <1>6, SetTimerHonest
<1>7. CASE \E upTo \in Sent : MarkMessagesRead(d, upTo)
  BY <1>7, ReadingHonest DEF Sent
<1> QED  BY <1>1, <1>2, <1>3, <1>4, <1>5, <1>6, <1>7 DEF User

LEMMA MishapHonest ==
  ASSUME HistoryInv, HeadsHonest, NEW d \in Devices, Mishap(d)
  PROVE  HistoryInv' /\ Undeleted
<1>1. CASE \E m \in Texts, o \in {"failed", "unconfirmed"} : SendText(d, m, o)
  BY <1>1, SendTextHonest
<1>2. CASE Mirror(d, FALSE)
  BY <1>2, MirrorHonest
<1>7. CASE Open(d, FALSE)
  BY <1>7, OpenHonest
<1>3. CASE Receive(d, FALSE)
  BY <1>3, ReceiveHonest
<1>4. CASE SendReadReceipts(d, FALSE)
  BY <1>4, ReceiptsSentHonest
<1>5. CASE SendReadMarks(d, FALSE)
  BY <1>5, ReadMarksHonest
<1>6. CASE Exit(d)
  BY <1>6, ExitHonest
<1> QED  BY <1>1, <1>2, <1>3, <1>4, <1>5, <1>6, <1>7 DEF Mishap

LEMMA HistoryStep == HistoryInv /\ HeadsHonest /\ [Next]_vars => HistoryInv' /\ Undeleted
<1> SUFFICES ASSUME HistoryInv, HeadsHonest, [Next]_vars  PROVE HistoryInv' /\ Undeleted
  OBVIOUS
<1>1. CASE UNCHANGED vars
  <2>1. UNCHANGED <<bound, msgs, store, queue, opened, sending, resave, lock, marks,
                    receipts, past>>
    BY <1>1 DEF vars
  <2>2. MailHonest'
    BY <2>1, SameMessages, SameMail, Numbers DEF HistoryInv
  <2> QED  BY <2>1, <2>2, KeepStep DEF HistoryInv, TypeOK
<1>2. ASSUME NEW d \in Devices, Work(d)  PROVE HistoryInv' /\ Undeleted
  BY <1>2, WorkHonest
<1>3. ASSUME NEW d \in Devices, User(d)  PROVE HistoryInv' /\ Undeleted
  BY <1>3, UserHonest
<1>4. ASSUME NEW d \in Devices, Mishap(d)  PROVE HistoryInv' /\ Undeleted
  BY <1>4, MishapHonest
<1>5. ASSUME NEW d \in Devices, Reap(d)  PROVE HistoryInv' /\ Undeleted
  BY <1>5, ExpiryHonest DEF Reap
<1> QED  BY <1>1, <1>2, <1>3, <1>4, <1>5 DEF Next

\* Others may write at the end of a queue, so what has been decrypted stays at
\* its head.
LEMMA HeadsStay ==
  ASSUME TypeOK, HeadsHonest, UNCHANGED opened,
         past'.decrypted = past.decrypted, past.got \subseteq past'.got,
         past.lost \subseteq past'.lost,
         UNCHANGED queue \/ \E ds \in SUBSET Devices, ops \in Seq(OpType) :
                                queue' = To(ds, ops, queue)
  PROVE  HeadsHonest'
<1>1. ASSUME NEW d \in Devices, queue[d] # <<>>
      PROVE  queue'[d] # <<>> /\ Head(queue'[d]) = Head(queue[d])
  <2>1. CASE UNCHANGED queue  BY <1>1, <2>1
  <2>2. ASSUME NEW ds \in SUBSET Devices, NEW ops \in Seq(OpType), queue' = To(ds, ops, queue)
        PROVE  queue'[d] # <<>> /\ Head(queue'[d]) = Head(queue[d])
    <3>1. queue'[d] = queue[d] \/ queue'[d] = queue[d] \o ops  BY <2>2 DEF To
    <3>2. queue[d] \in Seq(OpType)  BY DEF TypeOK
    <3> QED  BY <1>1, <3>1, <3>2
  <2> QED  BY <2>1, <2>2
<1>2. opened \subseteq Devices  BY DEF TypeOK
<1> QED  BY <1>1, <1>2 DEF HeadsHonest, Holds

\* An op that is applied, or lost, leaves the head.
LEMMA HeadsLeave ==
  ASSUME TypeOK, HeadsHonest, NEW d \in Devices, opened' = opened \ {d},
         past'.decrypted = past.decrypted, past.got \subseteq past'.got,
         past.lost \subseteq past'.lost,
         d \in opened => queue' = [queue EXCEPT ![d] = Tail(@)],
         d \notin opened => queue' = queue,
         d \in opened /\ Fresh(d, Head(queue[d])) =>
             <<d, Head(queue[d]).m>> \in past'.got \cup past'.lost
  PROVE  HeadsHonest'
<1>1. \A e \in Devices \ {d} : queue'[e] = queue[e]  BY DEF TypeOK
<1>2. opened \subseteq Devices  BY DEF TypeOK
<1>3. \A e \in opened' : queue'[e] # <<>>  BY <1>1, <1>2 DEF HeadsHonest
<1>4. ASSUME NEW e \in Devices, NEW m \in Texts, <<e, m>> \in past'.decrypted
      PROVE  <<e, m>> \in past'.got \cup past'.lost \/ Holds(e, m)'
  <2>1. <<e, m>> \in past.got \cup past.lost \/ Holds(e, m)  BY <1>4 DEF HeadsHonest
  <2>2. CASE e = d
    BY <2>1, <2>2 DEF Holds
  <2>3. CASE e # d
    BY <1>1, <2>1, <2>3 DEF Holds
  <2> QED  BY <2>2, <2>3
<1> QED  BY <1>3, <1>4 DEF HeadsHonest

LEMMA HeadsOpened ==
  ASSUME HistoryInv, HeadsHonest, NEW d \in Devices, NEW ok \in BOOLEAN, Open(d, ok)
  PROVE  HeadsHonest'
<1> DEFINE op == Head(queue[d])  rcpt == Op("receipt", d, op.m, Delivered)
<1>1. /\ queue[d] # <<>> /\ opened' = opened \cup {d}
      /\ queue' = queue \/ queue' = To(Others(d), <<rcpt>>, queue)
      /\ past'.got = past.got /\ past'.lost = past.lost
      /\ \/ past'.decrypted = past.decrypted
         \/ /\ Fresh(d, op)
            /\ past'.decrypted = past.decrypted \cup {<<d, op.m>>}
  <2>1. /\ queue[d] # <<>> /\ opened' = opened \cup {d}
        /\ queue' = queue \/ queue' = To(Others(d), <<rcpt>>, queue)
        /\ past' = IF Fresh(d, op) THEN [past EXCEPT !.decrypted = @ \cup {<<d, op.m>>}]
                   ELSE past
    BY DEF Open
  <2>2. past \in Accidents  BY DEF HistoryInv, TypeOK
  <2> HIDE DEF op, rcpt
  <2> QED  BY <2>1, <2>2 DEF Accidents
<1> HIDE DEF op, rcpt
<1>2. ASSUME NEW e \in Devices, queue[e] # <<>>
      PROVE  queue'[e] # <<>> /\ Head(queue'[e]) = Head(queue[e])
  <2>1. queue'[e] = queue[e] \/ queue'[e] = queue[e] \o <<rcpt>>  BY <1>1 DEF To
  <2>2. queue[e] \in Seq(OpType)  BY DEF HistoryInv, TypeOK
  <2>3. queue[e] \o <<rcpt>> # <<>> /\ Head(queue[e] \o <<rcpt>>) = Head(queue[e])
    BY <1>2, <2>2
  <2> QED  BY <1>2, <2>1, <2>3
<1>3. opened \subseteq Devices  BY DEF HistoryInv, TypeOK
<1>4. \A e \in opened' : queue'[e] # <<>>  BY <1>1, <1>2, <1>3 DEF HeadsHonest
<1>5. ASSUME NEW e \in Devices, NEW m \in Texts, <<e, m>> \in past'.decrypted
      PROVE  <<e, m>> \in past'.got \cup past'.lost \/ Holds(e, m)'
  <2>1. CASE <<e, m>> \in past.decrypted
    <3>1. <<e, m>> \in past.got \cup past.lost \/ Holds(e, m)  BY <2>1 DEF HeadsHonest
    <3>2. Holds(e, m) => queue[e] # <<>>  BY DEF Holds, HeadsHonest
    <3> QED  BY <1>1, <1>2, <3>1, <3>2 DEF Holds
  <2>2. CASE <<e, m>> \notin past.decrypted
    <3>1. e = d /\ m = op.m /\ Fresh(d, op)  BY <1>1, <1>5, <2>2
    <3> QED  BY <1>1, <1>2, <3>1 DEF Holds, op
  <2> QED  BY <2>1, <2>2
<1> QED  BY <1>4, <1>5 DEF HeadsHonest

LEMMA HeadsReceived ==
  ASSUME HistoryInv, HeadsHonest, NEW d \in Devices, NEW ok \in BOOLEAN, Receive(d, ok)
  PROVE  HeadsHonest'
<1> DEFINE op == Head(queue[d])
<1>1. op \in Mail(msgs, past, d)  BY HeadTaken DEF Receive, HeadsHonest
<1>2. /\ d \in opened /\ opened' = opened \ {d} /\ queue' = [queue EXCEPT ![d] = Tail(@)]
      /\ ok => past' = IF Fresh(d, op) THEN [past EXCEPT !.got = @ \cup {<<d, op.m>>}]
                       ELSE past
      /\ ~ok => past' = Lost(past, d, op)
  BY DEF Receive
<1> HIDE DEF op
<1>3. past \in Accidents  BY DEF HistoryInv, TypeOK
<1>4. /\ past'.decrypted = past.decrypted /\ past.got \subseteq past'.got
      /\ past.lost \subseteq past'.lost
      /\ Fresh(d, op) => <<d, op.m>> \in past'.got \cup past'.lost
  <2>1. CASE ok
    BY <1>2, <1>3, <2>1 DEF Accidents
  <2>2. CASE ~ok
    BY <1>1, <1>2, <1>3, <2>2, Losing
  <2> QED  BY <2>1, <2>2
<1> QED  BY <1>2, <1>4, HeadsLeave DEF HistoryInv, op

LEMMA HeadsExit ==
  ASSUME HistoryInv, HeadsHonest, NEW d \in Devices, Exit(d)
  PROVE  HeadsHonest'
<1> DEFINE op == Head(queue[d])
           ms == sending[d] \cup IF Free(d) THEN {} ELSE {lock[d].m}
           ds == IF marks[d].pending + marks[d].carried > 0 THEN {d} ELSE {}
           late == [Spoil(past, ms) EXCEPT !.forgot = @ \cup ds]
<1>1. /\ opened' = opened \ {d}
      /\ queue' = IF d \in opened THEN [queue EXCEPT ![d] = Tail(@)] ELSE queue
      /\ past' = IF d \in opened THEN Lost(late, d, op) ELSE late
  BY DEF Exit
<1>2. d \in opened => op \in Mail(msgs, past, d)  BY HeadTaken DEF HeadsHonest
<1>3. /\ late \in Accidents /\ late.decrypted = past.decrypted
      /\ late.got = past.got /\ late.lost = past.lost
  <2>1. ms \in SUBSET Texts
    <3>1. sending[d] \subseteq Texts  BY Numbers DEF HistoryInv, TypeOK
    <3>2. ~Free(d) => lock[d].m \in Texts
      BY Numbers DEF HistoryInv, HandsHonest, HandHonest, OpHonest, Sent
    <3> QED  BY <3>1, <3>2
  <2>2. ds \in SUBSET Devices  OBVIOUS
  <2> HIDE DEF ms, ds
  <2> QED  BY <2>1, <2>2 DEF HistoryInv, TypeOK, Accidents, Spoil
<1> HIDE DEF late, op
<1>4. /\ past'.decrypted = past.decrypted /\ past.got \subseteq past'.got
      /\ past.lost \subseteq past'.lost
      /\ d \in opened /\ Fresh(d, op) => <<d, op.m>> \in past'.got \cup past'.lost
  BY <1>1, <1>2, <1>3, Losing
<1> QED  BY <1>1, <1>4, HeadsLeave DEF HistoryInv, op

LEMMA HeadsPosted ==
  ASSUME HistoryInv, HeadsHonest, NEW d \in Devices, NEW op \in OpType, NEW outcome,
         Post(d, op, outcome), UNCHANGED opened, past'.decrypted = past.decrypted,
         past'.got = past.got, past'.lost = past.lost
  PROVE  HeadsHonest'
<1>1. Others(d) \in SUBSET Devices /\ <<op>> \in Seq(OpType)  BY Accounts
<1>2. UNCHANGED queue \/ queue' = To(Others(d), <<op>>, queue)  BY DEF Post
<1> QED  BY <1>1, <1>2, HeadsStay DEF HistoryInv

LEMMA HeadsKept == HistoryInv /\ HeadsHonest /\ [Next]_vars => HeadsHonest'
<1> SUFFICES ASSUME HistoryInv, HeadsHonest, [Next]_vars  PROVE HeadsHonest'
  OBVIOUS
<1>0. past \in Accidents /\ TypeOK  BY DEF HistoryInv, TypeOK
<1>1. CASE UNCHANGED vars
  BY <1>0, <1>1, HeadsStay DEF vars
<1>2. ASSUME NEW d \in Devices, NEW ok \in BOOLEAN,
             Open(d, ok) \/ Receive(d, ok) \/ Exit(d)
      PROVE  HeadsHonest'
  BY <1>2, HeadsOpened, HeadsReceived, HeadsExit
<1>3. ASSUME NEW d \in Devices,
             \/ Compose(d) \/ DrainMarks(d)
             \/ \E m \in Texts : HideForMe(d, m) \/ DeleteExpired(d, m)
             \/ \E upTo \in Sent : MarkMessagesRead(d, upTo)
             \/ \E m \in Texts, s \in {SentOk, Failed} : Resave(d, m, s)
      PROVE  HeadsHonest'
  <2>1. /\ UNCHANGED <<queue, opened>> /\ past'.decrypted = past.decrypted
        /\ past'.got = past.got /\ past'.lost = past.lost
    BY <1>0, <1>3 DEF Compose, DrainMarks, HideForMe, DeleteExpired, MarkMessagesRead, Resave,
                      Spoil, Accidents
  <2> QED  BY <1>0, <2>1, HeadsStay
<1>4. ASSUME NEW d \in Devices, NEW m \in Texts, NEW o \in Outcomes, SendText(d, m, o)
      PROVE  HeadsHonest'
  <2> DEFINE op == Op("text", d, m, Bit(store[d].timer))
  <2>1. op \in OpType  BY OpsAre DEF Bit
  <2>2. Post(d, op, o) /\ UNCHANGED opened  BY <1>4 DEF SendText
  <2>3. past'.decrypted = past.decrypted /\ past'.got = past.got /\ past'.lost = past.lost
    BY <1>0, <1>4 DEF SendText, Spoil, Accidents
  <2> HIDE DEF op
  <2> QED  BY <2>1, <2>2, <2>3, HeadsPosted
<1>5. ASSUME NEW d \in Devices, NEW ok \in BOOLEAN, Mirror(d, ok)  PROVE HeadsHonest'
  <2>1. lock[d] \in OpType  BY <1>0, <1>5 DEF Mirror, TypeOK, Free
  <2>2. <<lock[d]>> \in Seq(OpType) /\ Siblings(d) \in SUBSET Devices  BY <2>1, Accounts
  <2>3. /\ UNCHANGED opened /\ past'.decrypted = past.decrypted /\ past'.got = past.got
        /\ past'.lost = past.lost
    BY <1>0, <1>5 DEF Mirror, Spoil, Accidents
  <2>4. UNCHANGED queue \/ queue' = To(Siblings(d), <<lock[d]>>, queue)
    BY <1>5 DEF Mirror
  <2> QED  BY <1>0, <2>2, <2>3, <2>4, HeadsStay
<1>6. ASSUME NEW d \in Devices, NEW m \in Texts, NEW o \in Outcomes,
             \/ \E at \in Times : SendEdit(d, m, at, o)
             \/ SendDelete(d, m, o)
             \/ \E n \in {0, 1} : SendReaction(d, m, n, o)
      PROVE  HeadsHonest'
  <2>1. \E op \in OpType : Post(d, op, o)
    <3> Times \subseteq Nat  BY BoundsAssumption DEF Times
    <3>1. \A at \in Times : Op("edit", d, m, at) \in OpType  BY OpsAre
    <3>2. \A n \in Nat : Op("delete", d, m, n) \in OpType /\ Op("react", d, m, n) \in OpType
      BY OpsAre
    <3>3. Op("delete", d, m, 0) \in OpType /\ \A n \in {0, 1} : Op("react", d, m, n) \in OpType
      BY <3>2
    <3> QED  BY <1>6, <3>1, <3>3 DEF SendEdit, SendDelete, SendReaction, Amend
  <2>2. UNCHANGED opened  BY <1>6 DEF SendEdit, SendDelete, SendReaction, Amend
  <2>3. past'.decrypted = past.decrypted /\ past'.got = past.got /\ past'.lost = past.lost
    <3> DEFINE p == Spoil(past, Spoils(d, m, o))
    <3>1. p.decrypted = past.decrypted /\ p.got = past.got /\ p.lost = past.lost
      BY <1>0 DEF Spoil, Accidents
    <3>2. \/ \E x : past' = [p EXCEPT !.times = x]
          \/ past' = p
          \/ \E x : past' = [p EXCEPT !.crossed = x]
      BY <1>6 DEF SendEdit, SendDelete, SendReaction
    <3>3. DOMAIN p = DOMAIN past  BY <1>0 DEF Spoil, Accidents
    <3> HIDE DEF p
    <3> QED  BY <1>0, <3>1, <3>2, <3>3 DEF Accidents
  <2> QED  BY <2>1, <2>2, <2>3, HeadsPosted
<1>7. ASSUME NEW d \in Devices, NEW o \in Outcomes, SetTimer(d, o)  PROVE HeadsHonest'
  <2> DEFINE op == Op("timer", d, 0, Bit(~store[d].timer))
  <2>1. op \in OpType  BY OpsAre DEF Bit
  <2>2. UNCHANGED queue \/ queue' = To(Others(d), <<op>>, queue)  BY <1>7 DEF SetTimer
  <2>3. UNCHANGED <<opened, past>>  BY <1>7 DEF SetTimer
  <2> HIDE DEF op
  <2>4. <<op>> \in Seq(OpType) /\ Others(d) \in SUBSET Devices  BY <2>1, Accounts
  <2> QED  BY <1>0, <2>2, <2>3, <2>4, HeadsStay
<1>8. ASSUME NEW d \in Devices, NEW ok \in BOOLEAN, SendReadReceipts(d, ok)
      PROVE  HeadsHonest'
  <2> DEFINE S == receipts[d]  list == SetToSeq(S)
             ops == [i \in 1..Cardinality(S) |-> Op("receipt", d, list[i], Read)]
  <2>1. S \subseteq Texts /\ Cardinality(S) \in Nat /\ list \in [1..Cardinality(S) -> S]
    <3>1. IsFiniteSet(Sent) /\ Sent \subseteq Texts
      BY <1>0, Numbers, FS_Interval DEF Sent
    <3>2. S \subseteq Sent  BY <1>0 DEF TypeOK
    <3> HIDE DEF S
    <3> QED  BY <3>1, <3>2, FS_Subset, Listed
  <2>2. UNCHANGED queue \/ queue' = To(Others(d), ops, queue)
    BY <1>8 DEF SendReadReceipts
  <2> HIDE DEF S, list
  <2>3. \A k \in S : Op("receipt", d, k, Read) \in OpType  BY <2>1, OpsAre
  <2>4. ops \in [1..Cardinality(S) -> OpType]  BY <2>1, <2>3
  <2> HIDE DEF ops
  <2>5. ops \in Seq(OpType) /\ Others(d) \in SUBSET Devices  BY <2>1, <2>4, Accounts
  <2>6. UNCHANGED <<opened, past>>  BY <1>8 DEF SendReadReceipts
  <2> QED  BY <1>0, <2>2, <2>5, <2>6, HeadsStay
<1>9. ASSUME NEW d \in Devices, NEW ok \in BOOLEAN, SendReadMarks(d, ok)
      PROVE  HeadsHonest'
  <2> DEFINE op == Op("mark", d, 0, marks[d].carried)
  <2>1. op \in OpType  BY <1>0, OpsAre DEF TypeOK
  <2>2. UNCHANGED queue \/ queue' = To(Siblings(d), <<op>>, queue)  BY <1>9 DEF SendReadMarks
  <2>3. UNCHANGED <<opened, past>>  BY <1>9 DEF SendReadMarks
  <2> HIDE DEF op
  <2>4. <<op>> \in Seq(OpType) /\ Siblings(d) \in SUBSET Devices  BY <2>1, Accounts
  <2> QED  BY <1>0, <2>2, <2>3, <2>4, HeadsStay
<1> QED
  BY <1>1, <1>2, <1>3, <1>4, <1>5, <1>6, <1>7, <1>8, <1>9
     DEF Next, Work, User, Mishap, Reap, Outcomes

LEMMA ReceiptsHaveGround == HistoryInv /\ HeadsHonest => ReceiptsAreTrue
<1> SUFFICES ASSUME HistoryInv, HeadsHonest, NEW m \in Sent, NEW d \in Devices,
                    msgs[m].from \in Own(d)
             PROVE  /\ store[d].row[m].status = Delivered =>
                         \E e \in Others(d) : \/ <<e, m>> \in past.got \cup past.lost
                                              \/ Holds(e, m)
                    /\ store[d].row[m].status = Read =>
                         \E e \in Others(d) : <<e, m>> \in past.reads
  BY DEF ReceiptsAreTrue
<1>1. m \in Texts /\ RowHonest(msgs, past, d, m, store[d].row[m])
  BY Numbers DEF HistoryInv, StoresHonest, StoreHonest
<1> QED  BY <1>1, Accounts DEF RowHonest, HeadsHonest, Sent

LEMMA HistoryAlways == Spec => [](HistoryInv /\ HeadsHonest)
<1>1. HistoryInv /\ HeadsHonest /\ [Next]_vars => (HistoryInv /\ HeadsHonest)'
  BY HistoryStep, HeadsKept
<1>2. Init => HeadsHonest  BY DEF Init, HeadsHonest
<1> QED  BY <1>1, <1>2, HistoryBegins, PTL DEF Spec

(* The rows, reactions and timer of each device, what is on its way to it   *)
(* and what it has in hand have their types, whoever sends, reads, fails or *)
(* exits: a row that is gone has left nothing.  (messages.rs, messaging.rs) *)
THEOREM HistoryTypeCorrect == Spec => []TypeOK
<1>1. HistoryInv => TypeOK  BY DEF HistoryInv
<1> QED  BY <1>1, HistoryAlways, PTL

(* A sender's device shows delivered or read only if a device of the other  *)
(* account stored the message, is about to, or lost it to a failed write or *)
(* a kill, or its user read it there; and no edit, transcript or second     *)
(* save undoes a deletion.                                                  *)
(* (update_delivery_status, save_message, apply_edit, tombstone_message)    *)
THEOREM HistoryIsHonest == Spec => HistoryHonest
<1>1. HistoryInv /\ HeadsHonest /\ [Next]_vars =>
        [\A d \in Devices, m \in Texts :
            store[d].row[m].deleted /\ store'[d].row[m].has => store'[d].row[m].deleted]_vars
  BY HistoryStep DEF Undeleted, Stands
<1>2. HistoryInv /\ HeadsHonest => ReceiptsAreTrue  BY ReceiptsHaveGround
<1> QED
  BY <1>1, <1>2, HistoryAlways, PTL DEF Spec, HistoryHonest, DeletionsStand
----------------------------------------------------------------------------
(* Agreement.  A message that no accident has spoilt is followed through    *)
(* the queues of all devices.                                               *)

Text(op, m) == op.kind = "text" /\ op.m = m
Change(op, m) == op.kind \in {"edit", "delete"} /\ op.m = m
Reacts(op, m, acct) == op.kind = "react" /\ op.m = m /\ Own(op.from) = acct
Beside(op, m) == op.kind \notin Carried \/ op.m # m

(* How far a message has come: 0 as composed, the time of an edit, and Top  *)
(* once it is deleted.                                                      *)
Top == MaxTimes + 1
Level(r) == IF r.deleted THEN Top ELSE r.body
LevelOf(op) == IF op.kind = "delete" THEN Top ELSE op.n

(* What is on its way to a device: its queue, and what a sibling has sent   *)
(* to the other account and not yet mirrored.                               *)
Wire(x) == ToSet(queue[x])
Incoming(x) == Wire(x) \cup {lock[e] : e \in Siblings(x)}

(* A text that is still to be sent, or mirrored; that is still to arrive.   *)
Unsent(m) == m \in sending[msgs[m].from] \/ Text(lock[msgs[m].from], m)
Coming(x, m) ==
    LET f == msgs[m].from IN
    \/ x # f /\ m \in sending[f]
    \/ x \in Siblings(f) /\ Text(lock[f], m)
    \/ \E op \in Wire(x) : Text(op, m)

(* In a queue a text comes once, and before its edits and its deletion.     *)
Orderly(q, m) ==
    \A i, j \in DOMAIN q : i < j /\ Text(q[j], m) => ~Text(q[i], m) /\ ~Change(q[i], m)

TextFirst(m) ==
    LET f == msgs[m].from IN
    /\ Unsent(m) => \A x \in Devices :
          ~Change(lock[x], m) /\ \A op \in Wire(x) : ~Change(op, m)
    /\ m \in sending[f] =>
          ~Text(lock[f], m) /\ \A x \in Devices : \A op \in Wire(x) : ~Text(op, m)
    /\ Text(lock[f], m) => \A x \in Siblings(f) : \A op \in Wire(x) : ~Text(op, m)
    /\ \A x \in Devices :
          Orderly(queue[x], m) /\ (Coming(x, m) => x # f /\ ~store[x].row[m].has)

(* What one device shows or is told, each device that has the message, or   *)
(* will have it, shows or is told, or something newer.                      *)
Says(x, m, n) ==
    \/ store[x].row[m].has /\ Level(store[x].row[m]) = n
    \/ \E op \in Incoming(x) : Change(op, m) /\ LevelOf(op) = n
Knows(x, m, n) ==
    \/ ~Coming(x, m) /\ ~store[x].row[m].has
    \/ store[x].row[m].has /\ Level(store[x].row[m]) >= n
    \/ \E op \in Incoming(x) : Change(op, m) /\ LevelOf(op) >= n
LevelsSpread(m) ==
    \A n \in 1..Top : (\E x \in Devices : Says(x, m, n)) => \A y \in Devices : Knows(y, m, n)

(* The last reaction of an account to reach a device is v: the one a        *)
(* sibling holds, or else the last in its queue, or else the one it stores. *)
LastIs(q, m, acct, v) ==
    \A i \in DOMAIN q :
        Reacts(q[i], m, acct) /\ (\A j \in DOMAIN q : j > i => ~Reacts(q[j], m, acct)) => q[i].n = v
Comes(x, m, acct) == \E op \in Wire(x) : Reacts(op, m, acct)
Held(x, m, acct) == \E e \in Siblings(x) : Reacts(lock[e], m, acct)
SettlesOn(x, m, acct, v) ==
    /\ \A e \in Siblings(x) : Reacts(lock[e], m, acct) => lock[e].n = v
    /\ ~Held(x, m, acct) => LastIs(queue[x], m, acct, v)
    /\ ~Held(x, m, acct) /\ ~Comes(x, m, acct) => store[x].react[m][acct] = v
Counts(x, m) ==
    Coming(x, m) \/ (store[x].row[m].has /\ ~store[x].row[m].deleted)
ReactionsSpread(m) ==
    \A acct \in {Mine, Theirs} :
        <<m, acct>> \in past.crossed
        \/ \E v \in {0, 1} : \A x \in Devices : Counts(x, m) => SettlesOn(x, m, acct, v)

MessageFits(m) == TextFirst(m) /\ LevelsSpread(m) /\ ReactionsSpread(m)

(* A device hears only of others, a change of a message comes from its      *)
(* account, and a message not composed has no reactions.                    *)
StoreFits(ms, s) ==
    /\ \A m \in Texts : s.row[m].has => Level(s.row[m]) >= 0
    /\ \A m \in Texts \ (1..Len(ms)) : s.react[m] = NoReactions
Changes == {"edit", "delete"}
OpFits(ms, op) == op.kind \in Changes => op.m \in 1..Len(ms) /\ ms[op.m].from \in Own(op.from)
DeviceFits(x) ==
    /\ StoreFits(msgs, store[x]) /\ OpFits(msgs, lock[x])
    /\ \A op \in Wire(x) : op.from # x /\ OpFits(msgs, op)
ConvergeInv ==
    /\ \A m \in Sent \ past.spoilt : MessageFits(m)
    /\ \A x \in Devices : DeviceFits(x)

\* The queue r says of m what q does.
Alike(q, r, m) ==
    /\ \A op : ~Beside(op, m) => (op \in ToSet(q) <=> op \in ToSet(r))
    /\ Orderly(q, m) => Orderly(r, m)
    /\ \A acct \in {Mine, Theirs}, v \in {0, 1} :
          LastIs(q, m, acct, v) => LastIs(r, m, acct, v)

LEMMA WireAppend ==
  ASSUME NEW S, NEW q \in Seq(S), NEW r \in Seq(S)
  PROVE  /\ ToSet(q \o r) = ToSet(q) \cup ToSet(r)
         /\ DOMAIN (q \o r) = 1..(Len(q) + Len(r)) /\ Len(q) \in Nat /\ Len(r) \in Nat
         /\ DOMAIN q = 1..Len(q) /\ DOMAIN r = 1..Len(r)
         /\ \A i \in 1..Len(q) : (q \o r)[i] = q[i]
         /\ \A i \in 1..Len(r) : (q \o r)[Len(q) + i] = r[i]
         /\ \A i \in DOMAIN (q \o r) :
               (i \in 1..Len(q) /\ (q \o r)[i] = q[i])
               \/ (i - Len(q) \in 1..Len(r) /\ i > Len(q) /\ (q \o r)[i] = r[i - Len(q)])
<1>1. /\ Len(q) \in Nat /\ Len(r) \in Nat /\ DOMAIN q = 1..Len(q) /\ DOMAIN r = 1..Len(r)
      /\ DOMAIN (q \o r) = 1..(Len(q) + Len(r))
  OBVIOUS
<1>2. \A i \in 1..Len(q) : (q \o r)[i] = q[i]  OBVIOUS
<1>3. \A i \in 1..Len(r) : (q \o r)[Len(q) + i] = r[i]  OBVIOUS
<1>4. \A i \in DOMAIN (q \o r) :
               (i \in 1..Len(q) /\ (q \o r)[i] = q[i])
               \/ (i - Len(q) \in 1..Len(r) /\ i > Len(q) /\ (q \o r)[i] = r[i - Len(q)])
  BY <1>1
<1>5. ToSet(q \o r) = ToSet(q) \cup ToSet(r)
  <2>1. ToSet(q) \cup ToSet(r) \subseteq ToSet(q \o r)
    <3>1. \A i \in 1..Len(q) : i \in DOMAIN (q \o r)  BY <1>1
    <3>2. \A i \in 1..Len(r) : Len(q) + i \in DOMAIN (q \o r)  BY <1>1
    <3> QED  BY <1>1, <1>2, <1>3, <3>1, <3>2 DEF ToSet
  <2>2. ToSet(q \o r) \subseteq ToSet(q) \cup ToSet(r)
    BY <1>1, <1>4 DEF ToSet
  <2> QED  BY <2>1, <2>2
<1> QED  BY <1>1, <1>2, <1>3, <1>4, <1>5

LEMMA WireTail ==
  ASSUME NEW S, NEW q \in Seq(S), q # <<>>
  PROVE  /\ ToSet(q) = {Head(q)} \cup ToSet(Tail(q))
         /\ Len(q) \in Nat \ {0} /\ DOMAIN q = 1..Len(q) /\ DOMAIN Tail(q) = 1..(Len(q) - 1)
         /\ Head(q) = q[1] /\ \A i \in DOMAIN Tail(q) : Tail(q)[i] = q[i + 1]
<1>1. /\ Len(q) \in Nat \ {0} /\ DOMAIN q = 1..Len(q) /\ DOMAIN Tail(q) = 1..(Len(q) - 1)
      /\ Head(q) = q[1] /\ \A i \in DOMAIN Tail(q) : Tail(q)[i] = q[i + 1]
  OBVIOUS
<1>2. \A i \in DOMAIN q : i = 1 \/ (i - 1 \in DOMAIN Tail(q) /\ Tail(q)[i - 1] = q[i])
  BY <1>1
<1>3. \A i \in DOMAIN Tail(q) : i + 1 \in DOMAIN q  BY <1>1
<1>4. 1 \in DOMAIN q  BY <1>1
<1>5. ToSet(q) \subseteq {Head(q)} \cup ToSet(Tail(q))
  BY <1>1, <1>2 DEF ToSet
<1>6. {Head(q)} \cup ToSet(Tail(q)) \subseteq ToSet(q)
  BY <1>1, <1>3, <1>4 DEF ToSet
<1> QED  BY <1>1, <1>5, <1>6

LEMMA OrderlyAppend ==
  ASSUME NEW m, NEW q \in Seq(OpType), NEW r \in Seq(OpType), Orderly(q, m),
         \A i, j \in DOMAIN r : i < j => ~Text(r[j], m),
         \A op \in ToSet(r) : Text(op, m) => \A o \in ToSet(q) : ~Text(o, m) /\ ~Change(o, m)
  PROVE  Orderly(q \o r, m)
<1> DEFINE u == q \o r
<1> SUFFICES ASSUME NEW i \in DOMAIN u, NEW j \in DOMAIN u, i < j, Text(u[j], m)
             PROVE  ~Text(u[i], m) /\ ~Change(u[i], m)
  BY DEF Orderly
<1>1. DOMAIN u = 1..(Len(q) + Len(r)) /\ Len(q) \in Nat /\ Len(r) \in Nat  BY WireAppend
<1>2. CASE j \in 1..Len(q) /\ u[j] = q[j]
  <2>1. i \in 1..Len(q)  BY <1>1, <1>2
  <2>2. u[i] = q[i] /\ DOMAIN q = 1..Len(q)  BY <2>1, WireAppend
  <2> QED  BY <1>2, <2>1, <2>2 DEF Orderly
<1>3. CASE j - Len(q) \in 1..Len(r) /\ u[j] = r[j - Len(q)]
  <2>1. DOMAIN q = 1..Len(q) /\ DOMAIN r = 1..Len(r)  BY WireAppend
  <2>2. CASE i \in 1..Len(q) /\ u[i] = q[i]
    <3>1. q[i] \in ToSet(q) /\ r[j - Len(q)] \in ToSet(r)  BY <1>3, <2>1, <2>2 DEF ToSet
    <3> QED  BY <1>3, <2>2, <3>1
  <2>3. CASE i - Len(q) \in 1..Len(r)
    <3>1. i - Len(q) < j - Len(q)  BY <1>1
    <3> QED  BY <1>3, <2>1, <2>3, <3>1
  <2> QED  BY <2>2, <2>3, WireAppend
<1> QED  BY <1>2, <1>3, WireAppend

LEMMA LastAppend ==
  ASSUME NEW m, NEW acct, NEW v, NEW q \in Seq(OpType), NEW r \in Seq(OpType),
         LastIs(q, m, acct, v) \/ \E op \in ToSet(r) : Reacts(op, m, acct),
         \A op \in ToSet(r) : Reacts(op, m, acct) => op.n = v
  PROVE  LastIs(q \o r, m, acct, v)
<1> DEFINE u == q \o r
<1> SUFFICES ASSUME NEW i \in DOMAIN u, Reacts(u[i], m, acct),
                    \A j \in DOMAIN u : j > i => ~Reacts(u[j], m, acct)
             PROVE  u[i].n = v
  BY DEF LastIs
<1>1. /\ DOMAIN u = 1..(Len(q) + Len(r)) /\ Len(q) \in Nat /\ Len(r) \in Nat
      /\ DOMAIN q = 1..Len(q) /\ DOMAIN r = 1..Len(r)
  BY WireAppend
<1>2. CASE i \in 1..Len(q) /\ u[i] = q[i]
  <2>1. \A op \in ToSet(r) : ~Reacts(op, m, acct)
    <3> SUFFICES ASSUME NEW k \in DOMAIN r  PROVE ~Reacts(r[k], m, acct)  BY DEF ToSet
    <3>1. Len(q) + k \in DOMAIN u /\ Len(q) + k > i  BY <1>1, <1>2
    <3>2. u[Len(q) + k] = r[k]  BY <1>1, WireAppend
    <3> QED  BY <3>1, <3>2
  <2>2. \A j \in DOMAIN q : j > i => ~Reacts(q[j], m, acct)
    <3>1. \A j \in DOMAIN q : j \in DOMAIN u /\ u[j] = q[j]  BY <1>1, WireAppend
    <3> QED  BY <3>1
  <2> QED  BY <1>1, <1>2, <2>1, <2>2 DEF LastIs
<1>3. CASE i - Len(q) \in 1..Len(r) /\ u[i] = r[i - Len(q)]
  <2>1. u[i] \in ToSet(r)  BY <1>1, <1>3 DEF ToSet
  <2> QED  BY <2>1
<1> QED  BY <1>2, <1>3, WireAppend

LEMMA OrderlyTail ==
  ASSUME NEW m, NEW q \in Seq(OpType), q # <<>>, Orderly(q, m)
  PROVE  /\ Orderly(Tail(q), m)
         /\ \A op \in ToSet(Tail(q)) : Text(op, m) => ~Text(Head(q), m) /\ ~Change(Head(q), m)
<1> DEFINE u == Tail(q)
<1>1. /\ Len(q) \in Nat \ {0} /\ DOMAIN q = 1..Len(q) /\ DOMAIN u = 1..(Len(q) - 1)
      /\ Head(q) = q[1] /\ \A i \in DOMAIN u : u[i] = q[i + 1]
  BY WireTail
<1> HIDE DEF u
<1>2. \A i \in DOMAIN u : i + 1 \in DOMAIN q /\ 1 < i + 1 /\ 1 \in DOMAIN q  BY <1>1
<1>3. \A i, j \in DOMAIN u : i < j => i + 1 < j + 1  BY <1>1
<1>4. Orderly(u, m)  BY <1>1, <1>2, <1>3 DEF Orderly
<1>5. \A i \in DOMAIN u : Text(u[i], m) => ~Text(Head(q), m) /\ ~Change(Head(q), m)
  BY <1>1, <1>2 DEF Orderly
<1> QED  BY <1>4, <1>5 DEF ToSet, u

LEMMA LastTail ==
  ASSUME NEW m, NEW acct, NEW v, NEW q \in Seq(OpType), q # <<>>, LastIs(q, m, acct, v)
  PROVE  /\ LastIs(Tail(q), m, acct, v)
         /\ Reacts(Head(q), m, acct) /\ (\A op \in ToSet(Tail(q)) : ~Reacts(op, m, acct))
               => Head(q).n = v
<1> DEFINE u == Tail(q)
<1>1. /\ Len(q) \in Nat \ {0} /\ DOMAIN q = 1..Len(q) /\ DOMAIN u = 1..(Len(q) - 1)
      /\ Head(q) = q[1] /\ \A i \in DOMAIN u : u[i] = q[i + 1]
  BY WireTail
<1> HIDE DEF u
<1>2. 1 \in DOMAIN q /\ \A i \in DOMAIN u : i + 1 \in DOMAIN q  BY <1>1
<1>3. \A i \in DOMAIN q : \A j \in DOMAIN q : j > i => j - 1 \in DOMAIN u /\ u[j - 1] = q[j]
  BY <1>1
<1>4. LastIs(u, m, acct, v)
  <2> SUFFICES ASSUME NEW i \in DOMAIN u, Reacts(u[i], m, acct),
                      \A j \in DOMAIN u : j > i => ~Reacts(u[j], m, acct)
               PROVE  u[i].n = v
    BY DEF LastIs
  <2>1. \A j \in DOMAIN q : j > i + 1 => j - 1 > i  BY <1>1
  <2>2. \A j \in DOMAIN q : j > i + 1 => ~Reacts(q[j], m, acct)  BY <1>2, <1>3, <2>1
  <2> QED  BY <1>1, <1>2, <2>2 DEF LastIs
<1>5. ASSUME Reacts(q[1], m, acct), \A k \in DOMAIN u : ~Reacts(u[k], m, acct)
      PROVE  q[1].n = v
  <2>1. \A j \in DOMAIN q : j > 1 => ~Reacts(q[j], m, acct)  BY <1>2, <1>3, <1>5
  <2> QED  BY <1>2, <1>5, <2>1 DEF LastIs
<1> QED  BY <1>1, <1>4, <1>5 DEF ToSet, u

LEMMA AlikeAppend ==
  ASSUME NEW m, NEW q \in Seq(OpType), NEW r \in Seq(OpType), \A op \in ToSet(r) : Beside(op, m)
  PROVE  Alike(q, q \o r, m)
<1>1. \A op \in ToSet(r) : ~Text(op, m) /\ \A acct : ~Reacts(op, m, acct)
  BY DEF Beside, Carried, Text, Reacts
<1>2. \A j \in DOMAIN r : r[j] \in ToSet(r)  BY DEF ToSet
<1>3. Orderly(q, m) => Orderly(q \o r, m)  BY <1>1, <1>2, OrderlyAppend
<1>4. \A acct, v : LastIs(q, m, acct, v) => LastIs(q \o r, m, acct, v)  BY <1>1, LastAppend
<1>5. ToSet(q \o r) = ToSet(q) \cup ToSet(r)  BY WireAppend
<1> QED  BY <1>3, <1>4, <1>5 DEF Alike

LEMMA AlikeTail ==
  ASSUME NEW m, NEW q \in Seq(OpType), q # <<>>, Beside(Head(q), m)
  PROVE  Alike(q, Tail(q), m)
<1>1. ToSet(q) = {Head(q)} \cup ToSet(Tail(q))  BY WireTail
<1>2. Orderly(q, m) => Orderly(Tail(q), m)  BY OrderlyTail
<1>3. \A acct, v : LastIs(q, m, acct, v) => LastIs(Tail(q), m, acct, v)  BY LastTail
<1> QED  BY <1>1, <1>2, <1>3 DEF Alike

LEMMA AlikeItself == \A q, m : Alike(q, q, m)
  BY DEF Alike

LEMMA AlikeThrough ==
  ASSUME NEW q, NEW r, NEW u, NEW m, Alike(q, r, m), Alike(r, u, m)
  PROVE  Alike(q, u, m)
  BY DEF Alike

----------------------------------------------------------------------------
(* What a step must keep *)

\* What is on the wire and in hand, by HistoryInv.
OpOf(op) ==
    /\ op \in OpType
    /\ op.kind \in Carried => op.m \in Sent
    /\ op.kind = "text" => op.from = msgs[op.m].from
    /\ op.kind = "edit" => op.n \in Times
    /\ op.kind = "react" => op.n \in {0, 1}

LEMMA OnTheWire ==
  ASSUME HistoryInv, NEW x \in Devices
  PROVE  /\ queue[x] \in Seq(OpType) /\ \A op \in Wire(x) : OpOf(op)
         /\ Free(x) => \A m : Beside(lock[x], m) /\ ~Text(lock[x], m)
         /\ ~Free(x) => OpOf(lock[x]) /\ lock[x].from = x /\ lock[x].kind \in Carried
         /\ \A m : Text(lock[x], m) => msgs[m].from = x
         /\ store[x] \in Stores
<1>1. queue[x] \in Seq(OpType) /\ queue[x] \in Seq(Mail(msgs, past, x)) /\ store[x] \in Stores
      /\ lock[x] \in OpType \cup {NoOp}
  BY DEF HistoryInv, TypeOK, MailHonest
<1>2. ASSUME NEW op, op \in OpType, OpHonest(msgs, past, op)  PROVE OpOf(op)
  BY <1>2 DEF OpOf, OpHonest, Sent, Carried
<1>3. \A op \in Wire(x) : OpOf(op)
  <2> DEFINE M == Mail(msgs, past, x)
  <2>1. \A i \in DOMAIN queue[x] : queue[x][i] \in M
    <3> queue[x] \in Seq(M)  BY <1>1
    <3> HIDE DEF M
    <3> QED  OBVIOUS
  <2> QED  BY <1>2, <2>1 DEF Wire, ToSet, Mail
<1>4. Free(x) => \A m : Beside(lock[x], m) /\ ~Text(lock[x], m)
  BY DEF Free, NoOp, Beside, Carried, Text
<1>5. ~Free(x) => OpOf(lock[x]) /\ lock[x].from = x /\ lock[x].kind \in Carried
  BY <1>1, <1>2 DEF HistoryInv, HandsHonest, HandHonest, Free
<1>6. \A m : Text(lock[x], m) => msgs[m].from = x
  BY <1>4, <1>5 DEF OpOf, Text
<1> QED  BY <1>1, <1>3, <1>4, <1>5, <1>6

LEMMA AuthorOf ==
  ASSUME HistoryInv, NEW m \in Sent
  PROVE  m \in Texts /\ msgs[m].from \in Devices
  BY Numbers DEF HistoryInv

LEMMA LevelsAre ==
  ASSUME NEW r \in RowsType
  PROVE  /\ Level(r) \in -1..Top /\ MaxTimes \in Nat /\ Top \in Nat
         /\ r.deleted <=> Level(r) = Top
  BY BoundsAssumption DEF RowsType, Level, Top, Times

LEMMA LevelsOf ==
  ASSUME HistoryInv, NEW op, OpOf(op), NEW m, Change(op, m)
  PROVE  LevelOf(op) \in 1..Top
  BY BoundsAssumption DEF OpOf, Change, LevelOf, Top, Times

\* The text goes no way but on.
TextGoes(m) ==
    LET f == msgs[m].from IN
    /\ m \in sending'[f] => m \in sending[f]
    /\ Text(lock'[f], m) => Text(lock[f], m)
    /\ \A x \in Devices : \A op \in Wire(x)' : Text(op, m) => op \in Wire(x)
    /\ Unsent(m) => \A x \in Devices :
          ~Change(lock'[x], m) /\ \A op \in Wire(x)' : Change(op, m) => op \in Wire(x)
    /\ \A x \in Devices : Orderly(queue'[x], m)
    /\ \A x \in Devices : store'[x].row[m].has => store[x].row[m].has \/ ~Coming(x, m)'

LEMMA TextKept ==
  ASSUME NEW m, msgs'[m] = msgs[m], TextFirst(m), TextGoes(m)
  PROVE  TextFirst(m)' /\ \A x \in Devices : Coming(x, m)' => Coming(x, m)
<1> DEFINE f == msgs[m].from
<1>0. msgs'[m].from = f  OBVIOUS
<1>1. \A x \in Devices : Coming(x, m)' => Coming(x, m)
  BY <1>0 DEF Coming, TextGoes
<1>2. Unsent(m)' => Unsent(m)  BY <1>0 DEF Unsent, TextGoes
<1>3. Unsent(m)' => \A x \in Devices : ~Change(lock'[x], m) /\ \A op \in Wire(x)' : ~Change(op, m)
  BY <1>2 DEF TextFirst, TextGoes
<1>4. m \in sending'[f] =>
          ~Text(lock'[f], m) /\ \A x \in Devices : \A op \in Wire(x)' : ~Text(op, m)
  BY DEF TextFirst, TextGoes
<1>5. Text(lock'[f], m) => \A x \in Siblings(f) : \A op \in Wire(x)' : ~Text(op, m)
  <2>1. \A x \in Siblings(f) : x \in Devices  BY DEF Siblings, Own, Devices
  <2> QED  BY <2>1 DEF TextFirst, TextGoes
<1>6. \A x \in Devices :
          Orderly(queue'[x], m) /\ (Coming(x, m)' => x # f /\ ~store'[x].row[m].has)
  BY <1>1 DEF TextFirst, TextGoes
<1> QED  BY <1>0, <1>1, <1>3, <1>4, <1>5, <1>6 DEF TextFirst

LEMMA LevelsKept ==
  ASSUME NEW m, LevelsSpread(m),
         \A n \in 1..Top : \A x \in Devices : Says(x, m, n)' =>
             (\E z \in Devices : Says(z, m, n)) \/ \A y \in Devices : Knows(y, m, n)',
         \A n \in 1..Top : \A y \in Devices : Knows(y, m, n) => Knows(y, m, n)'
  PROVE  LevelsSpread(m)'
  BY DEF LevelsSpread

\* A device goes on knowing what it knows.
Excused(x, m) == ~Coming(x, m) /\ ~store[x].row[m].has
StillKnows(y, m) ==
    /\ Excused(y, m) => Excused(y, m)'
    /\ store[y].row[m].has =>
          \/ store'[y].row[m].has /\ Level(store'[y].row[m]) >= Level(store[y].row[m])
          \/ Excused(y, m)'
    /\ \A op \in Incoming(y) : Change(op, m) =>
          \/ op \in Incoming(y)'
          \/ store'[y].row[m].has /\ Level(store'[y].row[m]) >= LevelOf(op)
          \/ Excused(y, m)'

LEMMA IncomingIs ==
  ASSUME HistoryInv, NEW x \in Devices, NEW op \in Incoming(x), NEW m, ~Beside(op, m)
  PROVE  OpOf(op)
<1>1. CASE op \in Wire(x)  BY <1>1, OnTheWire
<1>2. CASE op \in {lock[e] : e \in Siblings(x)}
  <2>1. PICK e \in Siblings(x) : op = lock[e]  BY <1>2
  <2>2. e \in Devices  BY DEF Siblings, Own, Devices
  <2> QED  BY <2>1, <2>2, OnTheWire
<1> QED  BY <1>1, <1>2 DEF Incoming

LEMMA KnowsKept ==
  ASSUME HistoryInv, HistoryInv', NEW m \in Texts, NEW y \in Devices, StillKnows(y, m),
         NEW n \in 1..Top, Knows(y, m, n)
  PROVE  Knows(y, m, n)'
<1>0. /\ Level(store[y].row[m]) \in Int /\ Level(store'[y].row[m]) \in Int /\ Top \in Nat
      /\ n \in Int
  <2>1. store[y].row[m] \in RowsType /\ store'[y].row[m] \in RowsType
    BY DEF HistoryInv, TypeOK, Stores
  <2> QED  BY <2>1, LevelsAre
<1>1. CASE Excused(y, m)'  BY <1>1 DEF Excused, Knows
<1>2. CASE store[y].row[m].has /\ Level(store[y].row[m]) >= n
  <2>1. CASE store'[y].row[m].has /\ Level(store'[y].row[m]) >= Level(store[y].row[m])
    <3>1. Level(store'[y].row[m]) >= n  BY <1>0, <1>2, <2>1
    <3> QED  BY <2>1, <3>1 DEF Knows, Level
  <2> QED  BY <1>1, <1>2, <2>1 DEF StillKnows
<1>3. ASSUME NEW op \in Incoming(y), Change(op, m), LevelOf(op) >= n  PROVE Knows(y, m, n)'
  <2>1. LevelOf(op) \in Int
    <3>1. ~Beside(op, m)  BY <1>3 DEF Change, Beside, Carried
    <3>2. OpOf(op)  BY <3>1, IncomingIs
    <3> QED  BY <1>3, <3>2, LevelsOf
  <2>2. CASE store'[y].row[m].has /\ Level(store'[y].row[m]) >= LevelOf(op)
    <3>1. Level(store'[y].row[m]) >= n  BY <1>0, <1>3, <2>1, <2>2
    <3> QED  BY <2>2, <3>1 DEF Knows, Level
  <2>3. CASE op \in Incoming(y)'  BY <1>3, <2>3 DEF Knows
  <2> QED  BY <1>1, <1>3, <2>2, <2>3 DEF StillKnows
<1> QED  BY <1>1, <1>2, <1>3 DEF Knows, StillKnows, Excused

LEMMA ReactsKept ==
  ASSUME NEW m, ReactionsSpread(m), past.crossed \subseteq past'.crossed,
         \A x \in Devices : Counts(x, m)' => Counts(x, m),
         \A x \in Devices, acct \in {Mine, Theirs}, v \in {0, 1} :
             Counts(x, m)' /\ SettlesOn(x, m, acct, v) => SettlesOn(x, m, acct, v)'
  PROVE  ReactionsSpread(m)'
<1> SUFFICES ASSUME NEW acct \in {Mine, Theirs}, <<m, acct>> \notin past'.crossed
             PROVE  \E v \in {0, 1} : \A x \in Devices :
                        Counts(x, m)' => SettlesOn(x, m, acct, v)'
  BY DEF ReactionsSpread
<1>1. PICK v \in {0, 1} : \A x \in Devices : Counts(x, m) => SettlesOn(x, m, acct, v)
  BY DEF ReactionsSpread
<1> QED  BY <1>1

LEMMA SettlesKept ==
  ASSUME NEW x, NEW m, NEW acct, NEW v, SettlesOn(x, m, acct, v),
         \A e \in Siblings(x) :
             Reacts(lock[e], m, acct) \/ Reacts(lock'[e], m, acct) => lock'[e] = lock[e],
         LastIs(queue[x], m, acct, v) => LastIs(queue'[x], m, acct, v),
         Comes(x, m, acct) => Comes(x, m, acct)',
         store'[x].react[m][acct] = store[x].react[m][acct]
  PROVE  SettlesOn(x, m, acct, v)'
<1>1. Held(x, m, acct)' <=> Held(x, m, acct)  BY DEF Held
<1> QED  BY <1>1 DEF SettlesOn

\* What a store shows of m is as it was.
SameFace(s, t, m) ==
    /\ t.row[m].has = s.row[m].has /\ t.row[m].deleted = s.row[m].deleted
    /\ Level(t.row[m]) = Level(s.row[m]) /\ t.react[m] = s.react[m]

\* A step that has nothing to do with m.
Aside(m) ==
    /\ m \in sending'[msgs[m].from] <=> m \in sending[msgs[m].from]
    /\ \A x \in Devices :
          /\ SameFace(store[x], store'[x], m) /\ Alike(queue[x], queue'[x], m)
          /\ lock'[x] = lock[x] \/ (Beside(lock[x], m) /\ Beside(lock'[x], m))

LEMMA NotBeside ==
  ASSUME NEW op, NEW m
  PROVE  /\ Text(op, m) => ~Beside(op, m)
         /\ Change(op, m) => ~Beside(op, m)
         /\ \A acct : Reacts(op, m, acct) => ~Beside(op, m)
  BY DEF Text, Change, Reacts, Beside, Carried

LEMMA SiblingsAre ==
  ASSUME NEW x \in Devices
  PROVE  \A e \in Siblings(x) : e \in Devices /\ e # x
  BY DEF Siblings, Own, Devices

LEMMA AsideFits ==
  ASSUME HistoryInv, HistoryInv', NEW m \in Sent, msgs'[m] = msgs[m],
         MessageFits(m), Aside(m), past.crossed \subseteq past'.crossed
  PROVE  MessageFits(m)'
<1> DEFINE f == msgs[m].from
<1>0. m \in Texts /\ f \in Devices  BY AuthorOf
<1>1. \A x \in Devices : \A op : ~Beside(op, m) => (op \in Wire(x) <=> op \in Wire(x)')
  BY DEF Aside, Alike, Wire
<1>2. \A x \in Devices : \A op : ~Beside(op, m) => (op = lock[x] <=> op = lock'[x])
  BY DEF Aside
<1>3. \A x \in Devices : \A op : ~Beside(op, m) => (op \in Incoming(x) <=> op \in Incoming(x)')
  <2> SUFFICES ASSUME NEW x \in Devices, NEW op, ~Beside(op, m)
               PROVE  op \in Incoming(x) <=> op \in Incoming(x)'
    OBVIOUS
  <2>1. \A e \in Siblings(x) : op = lock[e] <=> op = lock'[e]  BY <1>2, SiblingsAre
  <2>2. op \in Wire(x) <=> op \in Wire(x)'  BY <1>1
  <2> QED  BY <2>1, <2>2 DEF Incoming
<1>4. TextFirst(m)' /\ \A x \in Devices : Coming(x, m)' => Coming(x, m)
  <2>1. Text(lock'[f], m) => Text(lock[f], m)  BY <1>0, <1>2, NotBeside
  <2>2. \A x \in Devices : \A op \in Wire(x)' : Text(op, m) => op \in Wire(x)
    BY <1>1, NotBeside
  <2>3. Unsent(m) => \A x \in Devices :
          ~Change(lock'[x], m) /\ \A op \in Wire(x)' : Change(op, m) => op \in Wire(x)
    BY <1>1, <1>2, NotBeside DEF MessageFits, TextFirst
  <2>4. \A x \in Devices : Orderly(queue'[x], m)
    BY DEF Aside, Alike, MessageFits, TextFirst
  <2>5. \A x \in Devices : store'[x].row[m].has => store[x].row[m].has \/ ~Coming(x, m)'
    BY DEF Aside, SameFace
  <2>6. TextGoes(m)  BY <2>1, <2>2, <2>3, <2>4, <2>5 DEF TextGoes, Aside
  <2> QED  BY <2>6, TextKept DEF MessageFits
<1>5. LevelsSpread(m)'
  <2>1. ASSUME NEW n \in 1..Top, NEW x \in Devices, Says(x, m, n)'  PROVE Says(x, m, n)
    BY <1>3, <2>1, NotBeside DEF Says, Aside, SameFace
  <2>2. ASSUME NEW n \in 1..Top, NEW y \in Devices, Knows(y, m, n)  PROVE Knows(y, m, n)'
    <3>1. Excused(y, m) => Excused(y, m)'  BY <1>4 DEF Excused, Aside, SameFace
    <3>2. store[y].row[m].has =>
             store'[y].row[m].has /\ Level(store'[y].row[m]) >= Level(store[y].row[m])
      <4>1. store[y].row[m] \in RowsType  BY <1>0 DEF HistoryInv, TypeOK, Stores
      <4>2. Level(store[y].row[m]) \in Int  BY <4>1, LevelsAre
      <4> QED  BY <4>2 DEF Aside, SameFace
    <3>3. StillKnows(y, m)  BY <1>3, <3>1, <3>2, NotBeside DEF StillKnows
    <3> QED  BY <1>0, <2>2, <3>3, KnowsKept
  <2>3. \A n \in 1..Top : \A x \in Devices : Says(x, m, n)' =>
             (\E z \in Devices : Says(z, m, n)) \/ \A y \in Devices : Knows(y, m, n)'
    BY <2>1
  <2>4. \A n \in 1..Top : \A y \in Devices : Knows(y, m, n) => Knows(y, m, n)'  BY <2>2
  <2> QED  BY <2>3, <2>4, LevelsKept DEF MessageFits
<1>6. ReactionsSpread(m)'
  <2>1. \A x \in Devices : Counts(x, m)' => Counts(x, m)
    BY <1>4 DEF Counts, Aside, SameFace
  <2>2. ASSUME NEW x \in Devices, NEW acct \in {Mine, Theirs}, NEW v \in {0, 1},
               SettlesOn(x, m, acct, v)
        PROVE  SettlesOn(x, m, acct, v)'
    <3>1. \A e \in Siblings(x) :
             Reacts(lock[e], m, acct) \/ Reacts(lock'[e], m, acct) => lock'[e] = lock[e]
      BY SiblingsAre, NotBeside DEF Aside
    <3>2. LastIs(queue[x], m, acct, v) => LastIs(queue'[x], m, acct, v)
      BY DEF Aside, Alike
    <3>3. Comes(x, m, acct) => Comes(x, m, acct)'  BY <1>1, NotBeside DEF Comes
    <3>4. store'[x].react[m][acct] = store[x].react[m][acct]  BY DEF Aside, SameFace
    <3> QED  BY <2>2, <3>1, <3>2, <3>3, <3>4, SettlesKept
  <2> QED  BY <2>1, <2>2, ReactsKept DEF MessageFits
<1> QED  BY <1>4, <1>5, <1>6 DEF MessageFits

----------------------------------------------------------------------------
(* What each operator on a store does to what it shows *)

LEMMA FaceItself == \A s, m : SameFace(s, s, m)
  BY DEF SameFace

LEMMA RowFace ==
  ASSUME NEW s \in Stores, NEW m \in Texts, NEW r
  PROVE  LET t == [s EXCEPT !.row[m] = r]
         IN  t.row[m] = r /\ t.react = s.react /\ \A k \in Texts \ {m} : SameFace(s, t, k)
  BY DEF Stores, SameFace

LEMMA SaveFace ==
  ASSUME NEW s \in Stores, NEW m \in Texts, NEW status, NEW timed
  PROVE  LET t == SaveMessage(s, m, status, timed)
         IN  /\ \A k \in Texts \ {m} : SameFace(s, t, k)
             /\ t.react = s.react /\ t.row[m].has
             /\ s.row[m].has => t.row[m].deleted = s.row[m].deleted
             /\ ~s.row[m].has => ~t.row[m].deleted
             /\ Level(t.row[m]) = IF t.row[m].deleted THEN Top ELSE 0
<1> DEFINE old == s.row[m]  r == Upserted(old, status, timed)
<1>1. old \in RowsType  BY DEF Stores
<1> HIDE DEF old
<1>2. /\ r.has /\ old.has => r.deleted = old.deleted
      /\ ~old.has => ~r.deleted
      /\ r.has /\ r.body = 0
  <2>1. CASE old.has
    <3>1. r = [old EXCEPT !.body = 0, !.status = status, !.read = TRUE]
      BY <2>1 DEF Upserted
    <3> HIDE DEF r
    <3> QED  BY <1>1, <2>1, <3>1 DEF RowsType
  <2>2. CASE ~old.has
    BY <2>2 DEF Upserted, NewRow
  <2> QED  BY <2>1, <2>2
<1> HIDE DEF r
<1>3. SaveMessage(s, m, status, timed) = [s EXCEPT !.row[m] = r]
  BY DEF SaveMessage, Put, r, old
<1> QED  BY <1>2, <1>3, RowFace DEF Level, old

LEMMA ArriveFace ==
  ASSUME NEW s \in Stores, NEW m \in Texts, NEW timed
  PROVE  LET t == SaveIncoming(s, m, timed)
         IN  /\ \A k \in Texts \ {m} : SameFace(s, t, k)
             /\ t.react = s.react /\ t.row[m].has
             /\ s.row[m].has => t = s
             /\ ~s.row[m].has => ~t.row[m].deleted /\ Level(t.row[m]) = 0
<1>1. CASE s.row[m].has
  BY <1>1, FaceItself DEF SaveIncoming
<1>2. CASE ~s.row[m].has
  <2> DEFINE r == NewRow(Delivered, FALSE, timed)
  <2>1. r.has /\ ~r.deleted /\ r.body = 0  BY DEF NewRow
  <2>2. SaveIncoming(s, m, timed) = [s EXCEPT !.row[m] = r]  BY <1>2 DEF SaveIncoming, Put
  <2> HIDE DEF r
  <2> QED  BY <1>2, <2>1, <2>2, RowFace DEF Level
<1> QED  BY <1>1, <1>2

LEMMA EditFace ==
  ASSUME NEW s \in Stores, NEW m \in Texts, NEW at \in Times
  PROVE  LET t == ApplyEdit(s, m, at)
         IN  /\ \A k \in Texts \ {m} : SameFace(s, t, k)
             /\ t.react = s.react /\ t.row[m].has = s.row[m].has
             /\ t.row[m].deleted = s.row[m].deleted
             /\ ~s.row[m].has => t = s
             /\ Level(t.row[m]) \in {Level(s.row[m]), at}
             /\ Level(t.row[m]) >= Level(s.row[m])
             /\ s.row[m].has => Level(t.row[m]) >= at
<1> DEFINE old == s.row[m]  r == [old EXCEPT !.body = at]
<1>1. old \in RowsType /\ at \in 1..MaxTimes /\ MaxTimes \in Nat
  BY BoundsAssumption DEF Stores, Times
<1>2. Level(old) \in -1..Top /\ (old.deleted => Level(old) = Top) /\ (~old.deleted => Level(old) = old.body)
  BY <1>1, LevelsAre DEF Level
<1>3. CASE old.has /\ ~old.deleted /\ at > old.body
  <2>1. ApplyEdit(s, m, at) = [s EXCEPT !.row[m] = r]
    BY <1>3 DEF ApplyEdit, Newer, Stores
  <2>2. r.has = old.has /\ r.deleted = old.deleted /\ r.body = at  BY <1>1 DEF RowsType
  <2>3. Level(r) = at /\ at >= Level(old) /\ at >= at  BY <1>1, <1>2, <1>3, <2>2 DEF Level, Top
  <2> DEFINE t == ApplyEdit(s, m, at)
  <2> HIDE DEF r
  <2>4. t.row[m] = r /\ t.react = s.react /\ \A k \in Texts \ {m} : SameFace(s, t, k)
    BY <2>1, RowFace
  <2> HIDE DEF t
  <2>5. Level(t.row[m]) = at /\ Level(t.row[m]) >= Level(old) /\ Level(t.row[m]) >= at
    BY <2>3, <2>4
  <2> QED  BY <1>3, <2>2, <2>4, <2>5 DEF t
<1>4. CASE ~(old.has /\ ~old.deleted /\ at > old.body)
  <2>1. ApplyEdit(s, m, at) = s  BY <1>4 DEF ApplyEdit, Newer
  <2>2. old.has => Level(old) >= at
    <3>1. CASE old.deleted  BY <1>1, <1>2, <3>1 DEF Top
    <3>2. CASE old.has /\ ~old.deleted
      <4>1. old.body \in Int /\ ~(at > old.body)  BY <1>1, <1>4, <3>2 DEF RowsType, Times
      <4> QED  BY <1>1, <1>2, <3>2, <4>1
    <3> QED  BY <3>1, <3>2
  <2>3. Level(old) >= Level(old)  BY <1>2
  <2> QED  BY <2>1, <2>2, <2>3, FaceItself
<1> QED  BY <1>3, <1>4

LEMMA TombFace ==
  ASSUME NEW s \in Stores, NEW m \in Texts
  PROVE  LET t == Tombstone(s, m)
         IN  /\ \A k \in Texts \ {m} : SameFace(s, t, k)
             /\ t.row[m].has = s.row[m].has
             /\ s.row[m].has => t.row[m].deleted /\ Level(t.row[m]) = Top
             /\ ~s.row[m].has => t.row[m] = s.row[m]
             /\ t.react[m] = NoReactions
<1> DEFINE u == [s EXCEPT !.react[m] = NoReactions]
           r == [s.row[m] EXCEPT !.deleted = TRUE, !.body = Blank]
<1>1. /\ u.row = s.row /\ u.react[m] = NoReactions
      /\ \A k \in Texts \ {m} : u.react[k] = s.react[k]
      /\ u \in Stores
  BY RowsAre DEF Stores
<1>2. s.row[m] \in RowsType  BY DEF Stores
<1>3. CASE s.row[m].has /\ ~s.row[m].deleted
  <2>1. Tombstone(s, m) = [u EXCEPT !.row[m].deleted = TRUE, !.row[m].body = Blank]
    BY <1>3 DEF Tombstone
  <2>2. [u EXCEPT !.row[m].deleted = TRUE, !.row[m].body = Blank] = [u EXCEPT !.row[m] = r]
    <3> HIDE DEF u
    <3> QED  BY <1>1, <1>2 DEF Stores, RowsType
  <2>3. r.has = s.row[m].has /\ r.deleted  BY <1>2 DEF RowsType
  <2> DEFINE t == Tombstone(s, m)
  <2> HIDE DEF u, r
  <2>4. t.row[m] = r /\ t.react = u.react /\ \A k \in Texts \ {m} : SameFace(u, t, k)
    <3>1. t = [u EXCEPT !.row[m] = r]  BY <2>1, <2>2
    <3> HIDE DEF t
    <3> QED  BY <1>1, <3>1, RowFace
  <2> HIDE DEF t
  <2>5. \A k \in Texts \ {m} : SameFace(s, t, k)  BY <1>1, <2>4 DEF SameFace
  <2>6. Level(t.row[m]) = Top  BY <2>3, <2>4 DEF Level
  <2> QED  BY <1>1, <1>3, <2>3, <2>4, <2>5, <2>6 DEF t
<1>4. CASE ~(s.row[m].has /\ ~s.row[m].deleted)
  <2>1. Tombstone(s, m) = u  BY <1>4 DEF Tombstone
  <2> HIDE DEF u
  <2> QED  BY <1>1, <1>4, <2>1 DEF Level, SameFace
<1> QED  BY <1>3, <1>4

LEMMA ReactFace ==
  ASSUME NEW s \in Stores, NEW m \in Texts, NEW acct \in {Mine, Theirs}, NEW n
  PROVE  LET t == UpsertReaction(s, acct, m, n)
         IN  /\ \A k \in Texts \ {m} : SameFace(s, t, k)
             /\ t.row = s.row /\ t.react[m][acct] = n
             /\ \A a \in {Mine, Theirs} \ {acct} : t.react[m][a] = s.react[m][a]
  BY DEF UpsertReaction, Stores, SameFace

LEMMA RemoveFace ==
  ASSUME NEW s \in Stores, NEW m \in Texts
  PROVE  /\ \A k \in Texts \ {m} : SameFace(s, Removed(s, m), k) /\ SameFace(s, DeleteForMe(s, m), k)
         /\ Removed(s, m).row[m] = NoRow /\ DeleteForMe(s, m).row[m] = NoRow /\ ~NoRow.has
         /\ Removed(s, m).react = s.react
<1> DEFINE t == [s EXCEPT !.row[m] = NoRow]
<1>1. Removed(s, m) = t  BY DEF Removed, Put
<1>2. t.row[m] = NoRow /\ t.react = s.react /\ \A k \in Texts \ {m} : SameFace(s, t, k)
  BY RowFace
<1>3. t \in Stores  BY RowsAre DEF Stores
<1> HIDE DEF t
<1>4. DeleteForMe(s, m) = [t EXCEPT !.react[m] = NoReactions]  BY <1>1 DEF DeleteForMe
<1>5. /\ DeleteForMe(s, m).row = t.row
      /\ \A k \in Texts \ {m} : DeleteForMe(s, m).react[k] = t.react[k]
  BY <1>3, <1>4 DEF Stores
<1>6. ~NoRow.has  BY DEF NoRow
<1> QED  BY <1>1, <1>2, <1>5, <1>6 DEF SameFace

LEMMA StatusFace ==
  ASSUME NEW s \in Stores, NEW m, NEW status
  PROVE  \A k \in Texts : SameFace(s, UpdateStatus(s, m, status), k)
<1> SUFFICES ASSUME NEW k \in Texts  PROVE SameFace(s, UpdateStatus(s, m, status), k)
  OBVIOUS
<1> DEFINE t == UpdateStatus(s, m, status)
<1>1. s.row[k] \in RowsType  BY DEF Stores
<1>2. t.react = s.react /\ t.row[k] \in {s.row[k], [s.row[k] EXCEPT !.status = status]}
  BY DEF UpdateStatus, Stores
<1> HIDE DEF t
<1>3. /\ t.row[k].has = s.row[k].has /\ t.row[k].deleted = s.row[k].deleted
      /\ t.row[k].body = s.row[k].body
  BY <1>1, <1>2 DEF RowsType
<1> QED  BY <1>2, <1>3 DEF SameFace, Level, t

LEMMA MarkFace ==
  ASSUME NEW s \in Stores, NEW upTo
  PROVE  \A k \in Texts : SameFace(s, MarkRead(s, upTo), k)
<1> SUFFICES ASSUME NEW k \in Texts  PROVE SameFace(s, MarkRead(s, upTo), k)
  OBVIOUS
<1> DEFINE t == MarkRead(s, upTo)
<1>1. s.row[k] \in RowsType  BY DEF Stores
<1>2. /\ t.react = s.react
      /\ t.row[k] \in {s.row[k], [s.row[k] EXCEPT !.read = TRUE, !.due = Deadline(s.row[k])]}
  BY DEF MarkRead, Stores
<1> HIDE DEF t
<1>3. /\ t.row[k].has = s.row[k].has /\ t.row[k].deleted = s.row[k].deleted
      /\ t.row[k].body = s.row[k].body
  BY <1>1, <1>2 DEF RowsType
<1> QED  BY <1>2, <1>3 DEF SameFace, Level, t

----------------------------------------------------------------------------
(* A step that is aside of most messages *)

LEMMA StoreFitsOn ==
  ASSUME NEW s, NEW t, NEW m \in Texts, NEW n \in Nat, NEW ms, Len(ms) = n, StoreFits(ms, s),
         \A k \in Texts \ {m} : SameFace(s, t, k),
         t.row[m].has => Level(t.row[m]) >= 0,
         m \in 1..n \/ t.react[m] = s.react[m]
  PROVE  StoreFits(ms, t)
<1>1. ASSUME NEW k \in Texts, t.row[k].has  PROVE Level(t.row[k]) >= 0
  BY <1>1 DEF StoreFits, SameFace
<1>2. ASSUME NEW k \in Texts \ (1..n)  PROVE t.react[k] = NoReactions
  BY <1>2 DEF StoreFits, SameFace
<1> QED  BY <1>1, <1>2 DEF StoreFits

LEMMA StoreFitsSame ==
  ASSUME NEW s, NEW t, NEW ms, StoreFits(ms, s), \A k \in Texts : SameFace(s, t, k)
  PROVE  StoreFits(ms, t)
  BY DEF StoreFits, SameFace

\* What is new on the wire and in hand comes from another device.
Apart(ms) ==
    /\ \A x \in Devices : StoreFits(ms, store'[x])
    /\ \A x \in Devices : \A op \in Wire(x)' : op \in Wire(x) \/ (op.from # x /\ OpFits(ms, op))
    /\ \A x \in Devices : lock'[x] \in {lock[x], NoOp} \/ OpFits(ms, lock'[x])

LEMMA OpFitsStays ==
  ASSUME NEW ms, NEW p, NEW ms2, NEW p2, Grows(ms, p, ms2, p2), NEW op, OpFits(ms, op)
  PROVE  OpFits(ms2, op)
  BY DEF OpFits, Grows

LEMMA DevicesKept ==
  ASSUME Goes, \A x \in Devices : DeviceFits(x), Apart(msgs')
  PROVE  \A x \in Devices : DeviceFits(x)'
<1> SUFFICES ASSUME NEW x \in Devices  PROVE DeviceFits(x)'  OBVIOUS
<1>1. \A op \in Wire(x)' : op.from # x /\ OpFits(msgs', op)
  <2>1. \A op \in Wire(x) : op.from # x /\ OpFits(msgs', op)
    BY OpFitsStays DEF DeviceFits, Goes
  <2> QED  BY <2>1 DEF Apart
<1>2. OpFits(msgs', NoOp)  BY DEF OpFits, NoOp, Changes
<1>3. OpFits(msgs', lock[x])  BY OpFitsStays DEF DeviceFits, Goes
<1>4. OpFits(msgs', lock'[x])  BY <1>2, <1>3 DEF Apart
<1> QED  BY <1>1, <1>4 DEF DeviceFits, Apart

LEMMA ConvergeStep ==
  ASSUME HistoryInv, HistoryInv', ConvergeInv, UNCHANGED msgs,
         past.spoilt \subseteq past'.spoilt, past.crossed \subseteq past'.crossed,
         past.decrypted \subseteq past'.decrypted, past.reads \subseteq past'.reads,
         \A m \in Sent \ past'.spoilt : MessageFits(m) => Aside(m) \/ MessageFits(m)',
         Apart(msgs)
  PROVE  ConvergeInv'
<1>1. Goes  BY SameMessages, Numbers DEF HistoryInv
<1>2. \A x \in Devices : DeviceFits(x)'  BY <1>1, DevicesKept DEF ConvergeInv
<1>3. ASSUME NEW m \in Sent' \ past'.spoilt  PROVE MessageFits(m)'
  <2>1. m \in Sent \ past.spoilt  BY DEF Sent
  <2>2. MessageFits(m)  BY <2>1 DEF ConvergeInv
  <2> QED  BY <2>1, <2>2, AsideFits
<1> QED  BY <1>2, <1>3 DEF ConvergeInv

\* Requests put ops at the end of queues.
LEMMA WireTo ==
  ASSUME NEW ds, NEW ops, queue' = To(ds, ops, queue), NEW x \in Devices,
         queue[x] \in Seq(OpType), x \in ds => ops \in Seq(OpType)
  PROVE  /\ queue'[x] = IF x \in ds THEN queue[x] \o ops ELSE queue[x]
         /\ Wire(x)' = IF x \in ds THEN Wire(x) \cup ToSet(ops) ELSE Wire(x)
<1>1. queue'[x] = IF x \in ds THEN queue[x] \o ops ELSE queue[x]  BY DEF To
<1>2. x \in ds => ToSet(queue[x] \o ops) = ToSet(queue[x]) \cup ToSet(ops)  BY WireAppend
<1> QED  BY <1>1, <1>2 DEF Wire

LEMMA OneOp ==
  ASSUME NEW op \in OpType
  PROVE  /\ <<op>> \in Seq(OpType) /\ ToSet(<<op>>) = {op}
         /\ DOMAIN <<op>> = {1} /\ <<op>>[1] = op
  BY DEF ToSet

LEMMA WireOne ==
  ASSUME NEW q \in Seq(OpType), NEW op \in OpType
  PROVE  ToSet(q \o <<op>>) = ToSet(q) \cup {op}
<1> DEFINE r == <<op>>
<1>1. r \in Seq(OpType) /\ ToSet(r) = {op}  BY OneOp
<1> HIDE DEF r
<1>2. ToSet(q \o r) = ToSet(q) \cup ToSet(r)  BY <1>1, WireAppend
<1> QED  BY <1>1, <1>2 DEF r

\* Receipts, timers and read marks are about no message.
LEMMA AlikeTo ==
  ASSUME HistoryInv, NEW ds, NEW ops \in Seq(OpType), queue' = To(ds, ops, queue),
         NEW m, \A op \in ToSet(ops) : Beside(op, m)
  PROVE  \A x \in Devices : Alike(queue[x], queue'[x], m)
<1> SUFFICES ASSUME NEW x \in Devices  PROVE Alike(queue[x], queue'[x], m)  OBVIOUS
<1>1. queue[x] \in Seq(OpType)  BY DEF HistoryInv, TypeOK
<1> QED  BY <1>1, WireTo, AlikeAppend, AlikeItself

----------------------------------------------------------------------------
(* Steps that are aside of every message but those they take away *)

LEMMA ResaveConverges ==
  ASSUME HistoryInv, HistoryInv', ConvergeInv, NEW d \in Devices, NEW m \in Texts,
         NEW status \in {SentOk, Failed}, Resave(d, m, status)
  PROVE  ConvergeInv'
<1> DEFINE s == store[d]  t == SaveMessage(s, m, status, msgs[m].timed)  old == s.row[m]
           ms == IF old.has /\ (old.deleted \/ old.body = 0) THEN {} ELSE {m}
<1>1. /\ UNCHANGED <<bound, msgs, queue, sending, lock, marks, receipts>>
      /\ store' = [store EXCEPT ![d] = t] /\ past' = Spoil(past, ms) /\ <<m, status>> \in resave[d]
  BY DEF Resave
<1>2. past.spoilt \cup ms = past'.spoilt /\ past'.crossed = past.crossed
      /\ past'.decrypted = past.decrypted /\ past'.reads = past.reads
  <2> HIDE DEF ms
  <2> QED  BY <1>1 DEF Spoil, HistoryInv, TypeOK, Accidents
<1>3. s \in Stores /\ m \in Sent /\ Len(msgs) \in Nat  BY <1>1, Numbers DEF HistoryInv, TypeOK
<1>4. /\ \A k \in Texts \ {m} : SameFace(s, t, k)
      /\ t.react = s.react /\ t.row[m].has
      /\ s.row[m].has => t.row[m].deleted = s.row[m].deleted
      /\ Level(t.row[m]) = IF t.row[m].deleted THEN Top ELSE 0
  BY <1>3, SaveFace
<1>5. m \notin ms => SameFace(s, t, m)
  <2>1. m \notin ms => old.has /\ (old.deleted \/ old.body = 0)  OBVIOUS
  <2> HIDE DEF t, ms
  <2> QED  BY <1>4, <2>1 DEF SameFace, Level
<1> HIDE DEF t, ms, s
<1>6. store'[d] = t /\ s = store[d] /\ \A x \in Devices \ {d} : store'[x] = store[x]
  BY <1>1 DEF HistoryInv, TypeOK, s
<1>7. ASSUME NEW k \in Sent \ past'.spoilt  PROVE Aside(k)
  <2>1. k \in Texts /\ SameFace(s, t, k)  BY <1>2, <1>4, <1>5, AuthorOf
  <2>2. \A x \in Devices : SameFace(store[x], store'[x], k)  BY <1>6, <2>1, FaceItself
  <2> QED  BY <1>1, <2>2, AlikeItself DEF Aside
<1>8. Apart(msgs)
  <2>1. ASSUME NEW x \in Devices  PROVE StoreFits(msgs, store'[x])
    <3>1. StoreFits(msgs, store[x])  BY DEF ConvergeInv, DeviceFits
    <3>2. Level(t.row[m]) >= 0
      <4> MaxTimes \in Nat  BY BoundsAssumption
      <4> QED  BY <1>4 DEF Top
    <3>3. CASE x = d  BY <1>3, <1>4, <1>6, <3>1, <3>2, <3>3, StoreFitsOn DEF Sent
    <3>4. CASE x # d  BY <1>6, <3>1, <3>4
    <3> QED  BY <3>3, <3>4
  <2> QED  BY <1>1, <2>1 DEF Apart, Wire
<1> QED  BY <1>1, <1>2, <1>7, <1>8, ConvergeStep

\* A row that goes is missed by nobody: the device has had the text.
LEMMA RowGoes ==
  ASSUME HistoryInv, HistoryInv', ConvergeInv, NEW d \in Devices, NEW m \in Texts, NEW t,
         UNCHANGED <<msgs, queue, sending, lock, past>>, store[d].row[m].has,
         store' = [store EXCEPT ![d] = t], \A k \in Texts \ {m} : SameFace(store[d], t, k),
         t.row[m] = NoRow
  PROVE  ConvergeInv'
<1>1. store'[d] = t /\ \A x \in Devices \ {d} : store'[x] = store[x]
  BY DEF HistoryInv, TypeOK
<1>2. ~t.row[m].has /\ m \in Sent /\ Len(msgs) \in Nat
  BY Numbers DEF NoRow, HistoryInv, StoresHonest, StoreHonest, RowHonest, Sent
<1>3. ASSUME NEW k \in Sent \ past'.spoilt, k # m  PROVE Aside(k)
  <2>1. k \in Texts  BY AuthorOf
  <2>2. \A x \in Devices : SameFace(store[x], store'[x], k)  BY <1>1, <1>3, <2>1, FaceItself
  <2> QED  BY <2>2, AlikeItself DEF Aside
<1>4. ASSUME MessageFits(m)  PROVE MessageFits(m)'
  <2>1. \A x \in Devices : store'[x].row[m].has => store[x].row[m].has  BY <1>1, <1>2
  <2>2. TextGoes(m)  BY <1>4, <2>1 DEF TextGoes, MessageFits, TextFirst, Wire
  <2>3. TextFirst(m)' /\ \A x \in Devices : Coming(x, m)' => Coming(x, m)
    BY <1>4, <2>2, TextKept DEF MessageFits
  <2>4. Excused(d, m)'
    <3>1. ~Coming(d, m)  BY <1>4 DEF MessageFits, TextFirst
    <3> QED  BY <1>1, <1>2, <2>3, <3>1 DEF Excused
  <2>5. \A n \in 1..Top, x \in Devices : Says(x, m, n)' => Says(x, m, n)
    BY <1>1, <1>2 DEF Says, Incoming, Wire
  <2>6. ASSUME NEW n \in 1..Top, NEW y \in Devices, Knows(y, m, n)  PROVE Knows(y, m, n)'
    <3>1. CASE y = d  BY <2>4, <3>1 DEF Knows, Excused
    <3>2. CASE y # d
      BY <1>1, <2>3, <2>6, <3>2 DEF Knows, Incoming, Wire
    <3> QED  BY <3>1, <3>2
  <2>7. LevelsSpread(m)'
    <3>1. \A n \in 1..Top : \A x \in Devices : Says(x, m, n)' =>
             (\E z \in Devices : Says(z, m, n)) \/ \A y \in Devices : Knows(y, m, n)'
      BY <2>5
    <3>2. \A n \in 1..Top : \A y \in Devices : Knows(y, m, n) => Knows(y, m, n)'  BY <2>6
    <3> QED  BY <1>4, <3>1, <3>2, LevelsKept DEF MessageFits
  <2>8. ReactionsSpread(m)'
    <3>1. \A x \in Devices : Counts(x, m)' => Counts(x, m) /\ x # d
      BY <1>1, <2>3, <2>4 DEF Counts, Excused
    <3>2. ASSUME NEW x \in Devices, NEW acct, NEW v, x # d, SettlesOn(x, m, acct, v)
          PROVE  SettlesOn(x, m, acct, v)'
      BY <1>1, <3>2 DEF SettlesOn, Held, Comes, Wire
    <3> QED  BY <1>4, <3>1, <3>2, ReactsKept DEF MessageFits
  <2> QED  BY <2>3, <2>7, <2>8 DEF MessageFits
<1>5. Apart(msgs)
  <2>1. ASSUME NEW x \in Devices  PROVE StoreFits(msgs, store'[x])
    <3>1. StoreFits(msgs, store[x])  BY DEF ConvergeInv, DeviceFits
    <3>2. CASE x = d
      <4>1. StoreFits(msgs, store[d])  BY <3>1, <3>2
      <4>2. m \in 1..Len(msgs) /\ (t.row[m].has => Level(t.row[m]) >= 0)  BY <1>2 DEF Sent
      <4>3. StoreFits(msgs, t)  BY <1>2, <4>1, <4>2, StoreFitsOn
      <4> QED  BY <1>1, <3>2, <4>3
    <3>3. CASE x # d  BY <1>1, <3>1, <3>3
    <3> QED  BY <3>2, <3>3
  <2> QED  BY <2>1 DEF Apart, Wire
<1>6. \A k \in Sent \ past'.spoilt : MessageFits(k) => Aside(k) \/ MessageFits(k)'
  BY <1>3, <1>4
<1> QED  BY <1>5, <1>6, ConvergeStep

LEMMA HideConverges ==
  ASSUME HistoryInv, HistoryInv', ConvergeInv, NEW d \in Devices, NEW m \in Texts,
         HideForMe(d, m)
  PROVE  ConvergeInv'
<1>1. store[d] \in Stores  BY DEF HistoryInv, TypeOK
<1> QED  BY <1>1, RemoveFace, RowGoes DEF HideForMe

LEMMA ExpiryConverges ==
  ASSUME HistoryInv, HistoryInv', ConvergeInv, NEW d \in Devices, NEW m \in Texts,
         DeleteExpired(d, m)
  PROVE  ConvergeInv'
<1>1. store[d] \in Stores /\ store[d].row[m].due  BY DEF HistoryInv, TypeOK, DeleteExpired
<1>2. store[d].row[m].has
  BY <1>1 DEF HistoryInv, StoresHonest, StoreHonest, RowHonest, NoRow
<1> QED  BY <1>1, <1>2, RemoveFace, RowGoes DEF DeleteExpired

\* A step that leaves every message as it is, on every device.
LEMMA AllAside ==
  ASSUME HistoryInv, HistoryInv', ConvergeInv, UNCHANGED msgs,
         past.spoilt \subseteq past'.spoilt, past.crossed = past'.crossed,
         past.decrypted \subseteq past'.decrypted, past.reads \subseteq past'.reads,
         \A x \in Devices : \A k \in Texts : SameFace(store[x], store'[x], k),
         NEW ds, NEW ops \in Seq(OpType),
         queue' = queue \/ queue' = To(ds, ops, queue),
         \A op \in ToSet(ops) : op.kind \notin Carried /\ op.from \notin ds,
         \A x \in Devices : lock'[x] = lock[x]
             \/ (lock'[x] = NoOp /\ (~Free(x) => lock[x].m \in past'.spoilt)),
         \A m \in Sent \ past'.spoilt :
             m \in sending'[msgs[m].from] <=> m \in sending[msgs[m].from]
  PROVE  ConvergeInv'
<1>1. ASSUME NEW m \in Sent \ past'.spoilt  PROVE Aside(m)
  <2>1. \A op \in ToSet(ops) : Beside(op, m)  BY DEF Beside
  <2>2. \A x \in Devices : Alike(queue[x], queue'[x], m)
    BY <2>1, AlikeTo, AlikeItself
  <2>3. Beside(NoOp, m)  BY DEF NoOp, Beside, Carried
  <2>4. \A x \in Devices : lock'[x] = lock[x] \/ (Beside(lock[x], m) /\ Beside(lock'[x], m))
    BY <2>3, OnTheWire DEF Beside
  <2>5. m \in Texts  BY AuthorOf
  <2> QED  BY <2>2, <2>4, <2>5 DEF Aside
<1>2. Apart(msgs)
  <2>1. \A x \in Devices : StoreFits(msgs, store'[x])
    BY StoreFitsSame DEF ConvergeInv, DeviceFits
  <2>2. \A op \in ToSet(ops) : OpFits(msgs, op)  BY DEF OpFits, Changes, Carried
  <2>3. \A x \in Devices : \A op \in Wire(x)' :
            op \in Wire(x) \/ (op.from # x /\ OpFits(msgs, op))
    <3>1. CASE queue' = queue  BY <3>1 DEF Wire
    <3>2. CASE queue' = To(ds, ops, queue)
      <4> SUFFICES ASSUME NEW x \in Devices, NEW op \in Wire(x)', op \notin Wire(x)
                   PROVE  op.from # x /\ OpFits(msgs, op)
        OBVIOUS
      <4>1. queue[x] \in Seq(OpType)  BY OnTheWire
      <4>2. x \in ds /\ op \in ToSet(ops)  BY <3>2, <4>1, WireTo
      <4> QED  BY <2>2, <4>2
    <3> QED  BY <3>1, <3>2
  <2> QED  BY <2>1, <2>3 DEF Apart
<1> QED  BY <1>1, <1>2, ConvergeStep

LEMMA TimerConverges ==
  ASSUME HistoryInv, HistoryInv', ConvergeInv, NEW d \in Devices, NEW outcome,
         SetTimer(d, outcome)
  PROVE  ConvergeInv'
<1> DEFINE on == ~store[d].timer  op == Op("timer", d, 0, Bit(on))
<1>1. /\ UNCHANGED <<msgs, sending, resave, lock, marks, receipts, past>>
      /\ store' = [store EXCEPT ![d].timer = on]
      /\ queue' = queue \/ queue' = To(Others(d), <<op>>, queue)
  BY DEF SetTimer
<1>2. op \in OpType /\ op.kind = "timer" /\ op.from = d  BY DEF Op, OpType, Bit
<1> HIDE DEF op
<1>3. \A x \in Devices : \A k \in Texts : SameFace(store[x], store'[x], k)
  BY <1>1 DEF SameFace, HistoryInv, TypeOK, Stores
<1>4. \A o \in ToSet(<<op>>) : o.kind \notin Carried /\ o.from \notin Others(d)
  <2>1. d \notin Others(d)  BY Accounts
  <2> QED  BY <1>2, <2>1, OneOp DEF Carried
<1> QED  BY <1>1, <1>2, <1>3, <1>4, AllAside, OneOp

LEMMA ReadingConverges ==
  ASSUME HistoryInv, HistoryInv', ConvergeInv, NEW d \in Devices, NEW upTo,
         MarkMessagesRead(d, upTo)
  PROVE  ConvergeInv'
<1> DEFINE t == MarkRead(store[d], upTo)
<1>1. /\ UNCHANGED <<msgs, queue, sending, lock>> /\ store' = [store EXCEPT ![d] = t]
      /\ past' = [past EXCEPT !.reads = @ \cup ({d} \X Unread(store[d], upTo))]
  BY DEF MarkMessagesRead
<1>2. /\ past'.spoilt = past.spoilt /\ past'.crossed = past.crossed /\ past'.decrypted = past.decrypted
      /\ past.reads \subseteq past'.reads
  BY <1>1 DEF HistoryInv, TypeOK, Accidents
<1>3. \A x \in Devices : store[x] \in Stores  BY DEF HistoryInv, TypeOK
<1>4. \A k \in Texts : SameFace(store[d], t, k)  BY <1>3, MarkFace
<1> HIDE DEF t
<1>5. \A x \in Devices : \A k \in Texts : SameFace(store[x], store'[x], k)
  <2>1. store'[d] = t /\ \A x \in Devices \ {d} : store'[x] = store[x]
    BY <1>1 DEF HistoryInv, TypeOK
  <2> QED  BY <1>4, <2>1, FaceItself
<1>6. <<>> \in Seq(OpType) /\ ToSet(<<>>) = {}  BY DEF ToSet
<1> QED  BY <1>1, <1>2, <1>5, <1>6, AllAside

\* A step that sends receipts or marks, or nothing.
LEMMA QuietSends ==
  ASSUME HistoryInv, HistoryInv', ConvergeInv, UNCHANGED <<msgs, store, sending, lock, past>>,
         NEW ds, NEW ops \in Seq(OpType),
         queue' = queue \/ queue' = To(ds, ops, queue),
         \A op \in ToSet(ops) : op.kind \notin Carried /\ op.from \notin ds
  PROVE  ConvergeInv'
<1>1. \A x \in Devices : \A k \in Texts : SameFace(store[x], store'[x], k)  BY FaceItself
<1> QED  BY <1>1, AllAside

LEMMA ReceiptsSentConverges ==
  ASSUME HistoryInv, HistoryInv', ConvergeInv, NEW d \in Devices, NEW ok \in BOOLEAN,
         SendReadReceipts(d, ok)
  PROVE  ConvergeInv'
<1> DEFINE S == receipts[d]  list == SetToSeq(S)
           ops == [i \in 1..Cardinality(S) |-> Op("receipt", d, list[i], Read)]
<1>1. /\ UNCHANGED <<msgs, store, sending, lock, past>>
      /\ queue' = queue \/ queue' = To(Others(d), ops, queue)
  BY DEF SendReadReceipts
<1>2. Cardinality(S) \in Nat /\ list \in [1..Cardinality(S) -> S] /\ S \subseteq Texts
  <2>1. S \subseteq Sent /\ Sent \subseteq Texts  BY Numbers DEF HistoryInv, TypeOK
  <2>2. IsFiniteSet(Sent)
    <3>1. Len(msgs) \in Int  BY Numbers DEF HistoryInv
    <3> QED  BY <3>1, FS_Interval DEF Sent
  <2> HIDE DEF S
  <2>3. IsFiniteSet(S)  BY <2>1, <2>2, FS_Subset
  <2> QED  BY <2>1, <2>3, Listed
<1> HIDE DEF S, list
<1>3. \A i \in 1..Cardinality(S) :
          ops[i] \in OpType /\ ops[i].kind = "receipt" /\ ops[i].from = d
  BY <1>2 DEF Op, OpType
<1>4. ops \in Seq(OpType)
  <2>1. ops \in [1..Cardinality(S) -> OpType]  BY <1>3
  <2> HIDE DEF ops
  <2> QED  BY <1>2, <2>1
<1>5. DOMAIN ops = 1..Cardinality(S)  OBVIOUS
<1> HIDE DEF ops
<1>6. \A op \in ToSet(ops) : op.kind \notin Carried /\ op.from \notin Others(d)
  <2>1. d \notin Others(d)  BY Accounts
  <2> QED  BY <1>3, <1>5, <2>1 DEF ToSet, Carried
<1> QED  BY <1>1, <1>4, <1>6, QuietSends

LEMMA MarksConverge ==
  ASSUME HistoryInv, HistoryInv', ConvergeInv, NEW d \in Devices,
         DrainMarks(d) \/ \E ok \in BOOLEAN : SendReadMarks(d, ok)
  PROVE  ConvergeInv'
<1> DEFINE op == Op("mark", d, 0, marks[d].carried)
<1>1. /\ UNCHANGED <<msgs, store, sending, lock, past>>
      /\ queue' = queue \/ queue' = To(Siblings(d), <<op>>, queue)
  BY DEF DrainMarks, SendReadMarks
<1>2. op \in OpType /\ op.kind = "mark" /\ op.from = d
  BY DEF Op, OpType, HistoryInv, TypeOK
<1> HIDE DEF op
<1>3. \A o \in ToSet(<<op>>) : o.kind \notin Carried /\ o.from \notin Siblings(d)
  <2>1. d \notin Siblings(d)  BY DEF Siblings
  <2> QED  BY <1>2, <2>1, OneOp DEF Carried
<1> QED  BY <1>1, <1>2, <1>3, QuietSends, OneOp

\* Decrypting sends a receipt at most.
LEMMA OpenConverges ==
  ASSUME HistoryInv, HistoryInv', ConvergeInv, NEW d \in Devices, NEW ok \in BOOLEAN,
         Open(d, ok)
  PROVE  ConvergeInv'
<1> DEFINE op == Head(queue[d])  rcpt == Op("receipt", d, op.m, Delivered)
<1>1. /\ UNCHANGED <<msgs, store, sending, lock>>
      /\ queue' = queue \/ queue' = To(Others(d), <<rcpt>>, queue)
      /\ queue[d] # <<>> /\ queue[d] \in Seq(OpType)
  BY OnTheWire DEF Open
<1>2. /\ past'.spoilt = past.spoilt /\ past'.crossed = past.crossed
      /\ past.decrypted \subseteq past'.decrypted /\ past'.reads = past.reads
  BY DEF Open, HistoryInv, TypeOK, Accidents
<1>3. rcpt \in OpType /\ rcpt.kind = "receipt" /\ rcpt.from = d
  <2>1. op \in OpType  BY <1>1
  <2>2. op.m \in {0} \cup Texts /\ Delivered \in Nat  BY <2>1 DEF OpType
  <2> HIDE DEF op
  <2> QED  BY <2>2 DEF Op, OpType
<1> HIDE DEF rcpt
<1>4. \A o \in ToSet(<<rcpt>>) : o.kind \notin Carried /\ o.from \notin Others(d)
  <2>1. d \notin Others(d)  BY Accounts
  <2> QED  BY <1>3, <2>1, OneOp DEF Carried
<1>5. \A x \in Devices : \A k \in Texts : SameFace(store[x], store'[x], k)
  BY <1>1, FaceItself
<1> QED  BY <1>1, <1>2, <1>3, <1>4, <1>5, AllAside, OneOp

----------------------------------------------------------------------------
(* Sending a message *)

\* A request about another message.
LEMMA PostAside ==
  ASSUME HistoryInv, NEW d \in Devices, Free(d), NEW op \in OpType, NEW outcome,
         Post(d, op, outcome), NEW m, op.m # m
  PROVE  \A x \in Devices :
            /\ Alike(queue[x], queue'[x], m)
            /\ lock'[x] = lock[x] \/ (Beside(lock[x], m) /\ Beside(lock'[x], m))
<1>1. Beside(op, m)  BY DEF Beside
<1>2. \A x \in Devices : Alike(queue[x], queue'[x], m)
  <2>1. <<op>> \in Seq(OpType) /\ ToSet(<<op>>) = {op}  BY OneOp
  <2>2. queue' = queue \/ queue' = To(Others(d), <<op>>, queue)  BY DEF Post
  <2> QED  BY <1>1, <2>1, <2>2, AlikeTo, AlikeItself
<1>3. \A x \in Devices : lock'[x] = lock[x] \/ (x = d /\ lock'[x] = op)
  BY DEF Post, HistoryInv, TypeOK
<1>4. Beside(lock[d], m)  BY OnTheWire
<1> QED  BY <1>1, <1>2, <1>3, <1>4

\* And one that went through.
LEMMA Posted ==
  ASSUME HistoryInv, NEW d \in Devices, NEW op \in OpType, Post(d, op, "sent")
  PROVE  /\ \A x \in Devices :
               /\ x \in Others(d) => queue'[x] = queue[x] \o <<op>> /\ Wire(x)' = Wire(x) \cup {op}
               /\ x \notin Others(d) => queue'[x] = queue[x] /\ Wire(x)' = Wire(x)
               /\ x # d => lock'[x] = lock[x]
         /\ lock'[d] = op
<1>1. queue' = To(Others(d), <<op>>, queue) /\ lock' = [lock EXCEPT ![d] = op]  BY DEF Post
<1>2. <<op>> \in Seq(OpType) /\ ToSet(<<op>>) = {op}  BY OneOp
<1>3. \A x \in Devices : queue[x] \in Seq(OpType)  BY OnTheWire
<1> QED  BY <1>1, <1>2, <1>3, WireTo DEF HistoryInv, TypeOK

LEMMA PostApart ==
  ASSUME HistoryInv, ConvergeInv, NEW d \in Devices, NEW op \in OpType, NEW outcome,
         Post(d, op, outcome), op.from = d, OpFits(msgs, op),
         \A x \in Devices : StoreFits(msgs, store'[x])
  PROVE  Apart(msgs)
<1>1. queue' = queue \/ queue' = To(Others(d), <<op>>, queue)  BY DEF Post
<1>2. \A x \in Devices : lock'[x] = lock[x] \/ lock'[x] = op
  BY DEF Post, HistoryInv, TypeOK
<1>3. ASSUME NEW x \in Devices, NEW o \in Wire(x)', o \notin Wire(x)
      PROVE  o.from # x /\ OpFits(msgs, o)
  <2>1. queue[x] \in Seq(OpType) /\ <<op>> \in Seq(OpType) /\ ToSet(<<op>>) = {op}
    BY OnTheWire, OneOp
  <2>2. queue' # queue  BY <1>3 DEF Wire
  <2>3. x \in Others(d) /\ o = op
    <3>1. queue' = To(Others(d), <<op>>, queue)  BY <1>1, <2>2
    <3>2. Wire(x)' = IF x \in Others(d) THEN Wire(x) \cup ToSet(<<op>>) ELSE Wire(x)
      BY <2>1, <3>1, WireTo
    <3> QED  BY <1>3, <2>1, <3>2
  <2>4. x # d  BY <2>3, Accounts
  <2> QED  BY <2>3, <2>4
<1> QED  BY <1>2, <1>3 DEF Apart

LEMMA PostedWire ==
  ASSUME HistoryInv, NEW d \in Devices, NEW op \in OpType, Post(d, op, "sent")
  PROVE  /\ \A x \in Devices :
               /\ x \in Others(d) => Wire(x)' = Wire(x) \cup {op}
               /\ x \notin Others(d) => Wire(x)' = Wire(x)
               /\ x # d => lock'[x] = lock[x]
         /\ lock'[d] = op
  BY Posted

LEMMA PostSettles ==
  ASSUME HistoryInv, NEW d \in Devices, Free(d), NEW op \in OpType, Post(d, op, "sent"),
         NEW m, NEW acct, NEW v, ~Reacts(op, m, acct), NEW x \in Devices,
         SettlesOn(x, m, acct, v), store'[x].react[m][acct] = store[x].react[m][acct]
  PROVE  SettlesOn(x, m, acct, v)'
<1>1. \A e \in Siblings(x) :
             Reacts(lock[e], m, acct) \/ Reacts(lock'[e], m, acct) => lock'[e] = lock[e]
  <2>1. ~Reacts(lock[d], m, acct)  BY OnTheWire, NotBeside
  <2> QED  BY <2>1, Posted, SiblingsAre
<1>2. LastIs(queue[x], m, acct, v) => LastIs(queue'[x], m, acct, v)
  <2>1. CASE x \notin Others(d)  BY <2>1, Posted
  <2>2. CASE x \in Others(d)
    <3>1. queue'[x] = queue[x] \o <<op>>  BY <2>2, Posted
    <3>2. queue[x] \in Seq(OpType) /\ <<op>> \in Seq(OpType) /\ ToSet(<<op>>) = {op}
      BY OnTheWire, OneOp
    <3>3. \A o \in ToSet(<<op>>) : Reacts(o, m, acct) => o.n = v  BY <3>2
    <3> QED  BY <3>1, <3>2, <3>3, LastAppend
  <2> QED  BY <2>1, <2>2
<1>3. Comes(x, m, acct) => Comes(x, m, acct)'  BY Posted DEF Comes
<1> QED  BY <1>1, <1>2, <1>3, SettlesKept

LEMMA PostOrderly ==
  ASSUME HistoryInv, NEW d \in Devices, NEW op \in OpType, Post(d, op, "sent"), NEW m,
         NEW x \in Devices, Orderly(queue[x], m),
         Text(op, m) => \A o \in Wire(x) : ~Text(o, m) /\ ~Change(o, m)
  PROVE  Orderly(queue'[x], m)
<1>1. CASE x \notin Others(d)  BY <1>1, Posted
<1>2. CASE x \in Others(d)
  <2>1. queue'[x] = queue[x] \o <<op>>  BY <1>2, Posted
  <2>2. /\ queue[x] \in Seq(OpType) /\ <<op>> \in Seq(OpType) /\ ToSet(<<op>>) = {op}
        /\ DOMAIN <<op>> = {1}
    BY OnTheWire, OneOp
  <2>3. \A i, j \in DOMAIN <<op>> : i < j => ~Text(<<op>>[j], m)  BY <2>2
  <2>4. \A o \in ToSet(<<op>>) : Text(o, m) =>
            \A u \in ToSet(queue[x]) : ~Text(u, m) /\ ~Change(u, m)
    BY <2>2 DEF Wire
  <2> QED  BY <2>1, <2>2, <2>3, <2>4, OrderlyAppend
<1> QED  BY <1>1, <1>2

LEMMA TextSent ==
  ASSUME HistoryInv, HistoryInv', ConvergeInv, NEW d \in Devices, NEW m \in Sent,
         SendText(d, m, "sent"), MessageFits(m)
  PROVE  MessageFits(m)'
<1> DEFINE op == Op("text", d, m, Bit(store[d].timer))
<1>1. m \in Texts /\ msgs[m].from = d /\ msgs'[m] = msgs[m]
  BY AuthorOf DEF SendText, HistoryInv, HandsHonest, HandHonest
<1>2. op \in OpType /\ op.kind = "text" /\ op.from = d /\ op.m = m
  <2>1. Bit(store[d].timer) \in Nat  BY DEF Bit
  <2> QED  BY <1>1, <2>1, OpsAre
<1>3. Post(d, op, "sent") /\ Free(d) /\ UNCHANGED <<msgs, store, past>> /\ m \in sending[d]
      /\ sending' = [sending EXCEPT ![d] = @ \ {m}]
  BY DEF SendText
<1> HIDE DEF op
<1>post. /\ \A x \in Devices :
            /\ x \in Others(d) => Wire(x)' = Wire(x) \cup {op}
            /\ x \notin Others(d) => Wire(x)' = Wire(x)
            /\ x # d => lock'[x] = lock[x]
      /\ lock'[d] = op
  <2>1. op \in OpType /\ Post(d, op, "sent")  BY <1>2, <1>3
  <2> QED  BY <2>1, PostedWire
<1>4. m \notin sending'[d]  BY <1>3 DEF HistoryInv, TypeOK
<1>5. /\ \A x \in Devices : ~Change(lock[x], m) /\ \A o \in Wire(x) : ~Change(o, m) /\ ~Text(o, m)
      /\ ~Text(lock[d], m)
      /\ \A x \in Devices \ {d} : Coming(x, m) /\ ~store[x].row[m].has
  BY <1>1, <1>3 DEF MessageFits, TextFirst, Unsent, Coming
<1>6. \A x \in Devices : ~Change(lock'[x], m) /\ \A o \in Wire(x)' : ~Change(o, m)
  <2> SUFFICES ASSUME NEW x \in Devices  PROVE ~Change(lock'[x], m) /\ \A o \in Wire(x)' : ~Change(o, m)
    OBVIOUS
  <2>1. ~Change(op, m)  BY <1>2 DEF Change
  <2>2. Wire(x)' = Wire(x) \/ Wire(x)' = Wire(x) \cup {op}
    BY <1>post
  <2>4. lock'[x] = lock[x] \/ lock'[x] = op
    BY <1>post
  <2>3. ~Change(lock[x], m) /\ \A o \in Wire(x) : ~Change(o, m)  BY <1>5
  <2> QED  BY <2>1, <2>2, <2>3, <2>4
<1>7. \A x \in Devices : Orderly(queue'[x], m)
  <2>1. \A x \in Devices : Orderly(queue[x], m)  BY DEF MessageFits, TextFirst
  <2> QED  BY <1>2, <1>3, <1>5, <2>1, PostOrderly
<1>8. \A x \in Devices : Coming(x, m)' => x # d /\ Coming(x, m) /\ ~store'[x].row[m].has
  <2> SUFFICES ASSUME NEW x \in Devices, Coming(x, m)'  PROVE x # d
    BY <1>3, <1>5
  <2>1. d \notin Siblings(d) /\ d \notin Others(d)  BY Accounts DEF Siblings
  <2>2. CASE \E o \in Wire(x)' : Text(o, m)
    <3>1. x \in Others(d)  BY <1>5, <1>post, <2>2
    <3> QED  BY <2>1, <3>1
  <2>3. CASE ~\E o \in Wire(x)' : Text(o, m)
    BY <1>1, <1>4, <2>1, <2>3 DEF Coming
  <2> QED  BY <2>2, <2>3
<1>9. TextFirst(m)'
  <2>1. ASSUME NEW x \in Siblings(d)  PROVE \A o \in Wire(x)' : ~Text(o, m)
    <3>1. x \in Devices /\ x \notin Others(d)  BY SiblingsAre DEF Siblings, Others
    <3>2. Wire(x)' = Wire(x)  BY <1>post, <3>1
    <3> QED  BY <1>5, <3>1, <3>2
  <2> QED  BY <1>1, <1>4, <1>6, <1>7, <1>8, <2>1 DEF TextFirst
<1>10. \A x \in Devices : \A o \in Incoming(x) \cup Incoming(x)' : ~Change(o, m)
  <2>1. \A x \in Devices : \A o \in Incoming(x) : ~Change(o, m)
    BY <1>5, SiblingsAre DEF Incoming
  <2>2. \A x \in Devices : \A o \in Incoming(x)' : ~Change(o, m)
    BY <1>6, SiblingsAre DEF Incoming
  <2> QED  BY <2>1, <2>2
<1>11. LevelsSpread(m)'
  <2>1. \A n \in 1..Top : \A x \in Devices : Says(x, m, n)' =>
             (\E z \in Devices : Says(z, m, n)) \/ \A y \in Devices : Knows(y, m, n)'
    BY <1>3, <1>10 DEF Says
  <2>2. \A n \in 1..Top : \A y \in Devices : Knows(y, m, n) => Knows(y, m, n)'
    BY <1>3, <1>8, <1>10 DEF Knows
  <2> QED  BY <2>1, <2>2, LevelsKept DEF MessageFits
<1>12. ReactionsSpread(m)'
  <2>1. \A x \in Devices : Counts(x, m)' => Counts(x, m)  BY <1>3, <1>8 DEF Counts
  <2>2. \A acct : ~Reacts(op, m, acct)  BY <1>2 DEF Reacts
  <2>3. \A x \in Devices, acct \in {Mine, Theirs}, v \in {0, 1} :
             SettlesOn(x, m, acct, v) => SettlesOn(x, m, acct, v)'
    BY <1>2, <1>3, <2>2, PostSettles
  <2> QED  BY <1>3, <2>1, <2>3, ReactsKept DEF MessageFits
<1> QED  BY <1>9, <1>11, <1>12 DEF MessageFits

LEMMA Spoilt ==
  ASSUME HistoryInv, NEW ms, past' = Spoil(past, ms)
  PROVE  /\ past'.spoilt = past.spoilt \cup ms /\ past'.crossed = past.crossed
         /\ past'.decrypted = past.decrypted /\ past'.reads = past.reads
  BY DEF Spoil, HistoryInv, TypeOK, Accidents

LEMMA StoresFitStill ==
  ASSUME ConvergeInv, UNCHANGED <<msgs, store>>
  PROVE  \A x \in Devices : StoreFits(msgs, store'[x])
  BY DEF ConvergeInv, DeviceFits

LEMMA SendTextConverges ==
  ASSUME HistoryInv, HistoryInv', ConvergeInv, NEW d \in Devices, NEW m \in Texts, NEW outcome,
         SendText(d, m, outcome)
  PROVE  ConvergeInv'
<1> DEFINE op == Op("text", d, m, Bit(store[d].timer))
<1>1. m \in Sent /\ Post(d, op, outcome) /\ Free(d) /\ UNCHANGED <<msgs, store>>
      /\ sending' = [sending EXCEPT ![d] = @ \ {m}]
  BY DEF SendText, HistoryInv, TypeOK
<1>2. op \in OpType /\ op.kind = "text" /\ op.from = d /\ op.m = m
  <2> DEFINE b == Bit(store[d].timer)
  <2>1. b \in Nat  BY DEF Bit
  <2> HIDE DEF b
  <2>2. Op("text", d, m, b) \in OpType /\ Op("text", d, m, b).m = m  BY <2>1 DEF Op, OpType
  <2> QED  BY <2>2 DEF Op, b
<1> HIDE DEF op
<1>3. /\ past.spoilt \subseteq past'.spoilt /\ past'.crossed = past.crossed
      /\ past'.decrypted = past.decrypted /\ past'.reads = past.reads
      /\ outcome # "sent" => m \in past'.spoilt
  <2>1. CASE outcome = "sent"  BY <2>1 DEF SendText
  <2>2. CASE outcome # "sent"  BY <2>2, Spoilt DEF SendText
  <2> QED  BY <2>1, <2>2
<1>4. ASSUME NEW k \in Sent \ past'.spoilt, k # m  PROVE Aside(k)
  <2>1. \A x \in Devices : SameFace(store[x], store'[x], k)  BY <1>1, FaceItself
  <2>2. k \in sending'[msgs[k].from] <=> k \in sending[msgs[k].from]
    <3>1. \A x \in Devices : sending'[x] = IF x = d THEN sending[d] \ {m} ELSE sending[x]
      BY <1>1 DEF HistoryInv, TypeOK
    <3>2. msgs[k].from \in Devices  BY AuthorOf
    <3> QED  BY <1>4, <3>1, <3>2
  <2> QED  BY <1>1, <1>2, <1>4, <2>1, <2>2, PostAside DEF Aside
<1>5. \A k \in Sent \ past'.spoilt : MessageFits(k) => Aside(k) \/ MessageFits(k)'
  BY <1>1, <1>3, <1>4, TextSent
<1>6. Apart(msgs)
  <2>1. OpFits(msgs, op)  BY <1>2 DEF OpFits, Changes
  <2> QED  BY <1>1, <1>2, <2>1, PostApart, StoresFitStill
<1> QED  BY <1>1, <1>3, <1>5, <1>6, ConvergeStep

----------------------------------------------------------------------------
(* The mirror to the account's other devices *)

LEMMA Mirrored ==
  ASSUME HistoryInv, NEW d \in Devices, Mirror(d, TRUE)
  PROVE  /\ \A x \in Devices :
               /\ x \in Siblings(d) => /\ queue'[x] = queue[x] \o <<lock[d]>>
                                       /\ Wire(x)' = Wire(x) \cup {lock[d]}
               /\ x \notin Siblings(d) => queue'[x] = queue[x] /\ Wire(x)' = Wire(x)
               /\ x # d => lock'[x] = lock[x]
         /\ lock'[d] = NoOp /\ lock[d] \in OpType
<1>1. queue' = To(Siblings(d), <<lock[d]>>, queue) /\ lock' = [lock EXCEPT ![d] = NoOp]
  BY DEF Mirror
<1>2. lock[d] \in OpType  BY OnTheWire DEF Mirror, OpOf
<1>3. <<lock[d]>> \in Seq(OpType) /\ ToSet(<<lock[d]>>) = {lock[d]}  BY <1>2, OneOp
<1>4. \A x \in Devices : queue[x] \in Seq(OpType)  BY OnTheWire
<1> QED  BY <1>1, <1>2, <1>3, <1>4, WireTo DEF HistoryInv, TypeOK

LEMMA MirrorFits ==
  ASSUME HistoryInv, HistoryInv', NEW d \in Devices, NEW m \in Sent, Mirror(d, TRUE),
         lock[d].m = m, MessageFits(m)
  PROVE  MessageFits(m)'
<1> DEFINE op == lock[d]  f == msgs[m].from
<1>0. m \in Texts /\ f \in Devices /\ UNCHANGED <<msgs, store, sending, past>>
  BY AuthorOf DEF Mirror
<1>1. op.kind \in Carried /\ op.from = d /\ ~Free(d) /\ op \in OpType
  BY OnTheWire DEF Mirror, OpOf
<1>2. \A o : ~Beside(o, m) => o # NoOp  BY DEF NoOp, Beside, Carried
<1>3. \A x \in Devices : x \in Siblings(d) <=> d \in Siblings(x)
  BY DevicesAssumption DEF Siblings, Own, Devices
<1>4. \A x \in Devices : \A o : ~Beside(o, m) => (o \in Incoming(x) <=> o \in Incoming(x)')
  <2> SUFFICES ASSUME NEW x \in Devices, NEW o, ~Beside(o, m)
               PROVE  o \in Incoming(x) <=> o \in Incoming(x)'
    OBVIOUS
  <2>1. CASE x \in Siblings(d)
    <3>1. Wire(x)' = Wire(x) \cup {op}  BY <2>1, Mirrored
    <3>2. \A e \in Siblings(x) : e # d => lock'[e] = lock[e]  BY Mirrored, SiblingsAre
    <3>3. d \in Siblings(x) /\ lock'[d] = NoOp  BY <1>3, <2>1, Mirrored
    <3>4. o # NoOp  BY <1>2
    <3> QED  BY <3>1, <3>2, <3>3, <3>4 DEF Incoming
  <2>2. CASE x \notin Siblings(d)
    <3>1. Wire(x)' = Wire(x)  BY <2>2, Mirrored
    <3>2. \A e \in Siblings(x) : lock'[e] = lock[e]  BY <1>3, <2>2, Mirrored, SiblingsAre
    <3> QED  BY <3>1, <3>2 DEF Incoming
  <2> QED  BY <2>1, <2>2
<1>5. \A x \in Devices : Orderly(queue[x], m)  BY DEF MessageFits, TextFirst
<1>6. \A x \in Devices : Orderly(queue'[x], m)
  <2> SUFFICES ASSUME NEW x \in Devices  PROVE Orderly(queue'[x], m)  OBVIOUS
  <2>1. CASE x \notin Siblings(d)  BY <1>5, <2>1, Mirrored
  <2>2. CASE x \in Siblings(d)
    <3>1. queue'[x] = queue[x] \o <<op>>  BY <2>2, Mirrored
    <3>2. /\ queue[x] \in Seq(OpType) /\ <<op>> \in Seq(OpType) /\ ToSet(<<op>>) = {op}
          /\ DOMAIN <<op>> = {1}
      BY <1>1, OnTheWire, OneOp
    <3>3. \A i, j \in DOMAIN <<op>> : i < j => ~Text(<<op>>[j], m)  BY <3>2
    <3>4. Text(op, m) => \A u \in Wire(x) : ~Text(u, m) /\ ~Change(u, m)
      <4>1. Text(op, m) => f = d  BY OnTheWire
      <4> QED  BY <1>0, <2>2, <4>1 DEF MessageFits, TextFirst, Unsent
    <3>5. \A o \in ToSet(<<op>>) : Text(o, m) =>
            \A u \in ToSet(queue[x]) : ~Text(u, m) /\ ~Change(u, m)
      BY <3>2, <3>4 DEF Wire
    <3> QED  BY <1>5, <3>1, <3>2, <3>3, <3>5, OrderlyAppend
  <2> QED  BY <2>1, <2>2
<1>7. TextFirst(m)' /\ \A x \in Devices : Coming(x, m)' => Coming(x, m)
  <2>1. CASE ~Text(op, m)
    <3>1. ~Text(NoOp, m) /\ ~Change(NoOp, m)  BY DEF NoOp, Text, Change
    <3>2. Text(lock'[f], m) => Text(lock[f], m)  BY <1>0, <3>1, Mirrored
    <3>3. \A x \in Devices : \A o \in Wire(x)' : Text(o, m) => o \in Wire(x)
      BY <2>1, Mirrored
    <3>4. Unsent(m) => \A x \in Devices :
            ~Change(lock'[x], m) /\ \A o \in Wire(x)' : Change(o, m) => o \in Wire(x)
      <4> SUFFICES ASSUME Unsent(m), NEW x \in Devices
                   PROVE  ~Change(lock'[x], m) /\ \A o \in Wire(x)' : Change(o, m) => o \in Wire(x)
        OBVIOUS
      <4>1. ~Change(lock[x], m) /\ ~Change(op, m)  BY DEF MessageFits, TextFirst
      <4> QED  BY <3>1, <4>1, Mirrored
    <3>5. TextGoes(m)  BY <1>0, <1>6, <3>2, <3>3, <3>4 DEF TextGoes
    <3> QED  BY <1>0, <3>5, TextKept DEF MessageFits
  <2>2. CASE Text(op, m)
    <3>1. f = d  BY <2>2, OnTheWire
    <3>2. m \notin sending[d]  BY <2>2, <3>1 DEF MessageFits, TextFirst
    <3>3. ~Text(lock'[d], m)
      <4>1. ~Text(NoOp, m)  BY DEF NoOp, Text
      <4> QED  BY <4>1, Mirrored
    <3>4. \A x \in Devices : Coming(x, m)' => Coming(x, m)
      <4> SUFFICES ASSUME NEW x \in Devices, Coming(x, m)'  PROVE Coming(x, m)  OBVIOUS
      <4>1. PICK o \in Wire(x)' : Text(o, m)  BY <1>0, <3>1, <3>2, <3>3 DEF Coming
      <4>2. CASE o \in Wire(x)  BY <4>1, <4>2 DEF Coming
      <4>3. CASE o \notin Wire(x)
        <5>1. x \in Siblings(d)  BY <4>1, <4>3, Mirrored
        <5> QED  BY <2>2, <3>1, <5>1 DEF Coming
      <4> QED  BY <4>2, <4>3
    <3>5. ~Unsent(m)'  BY <1>0, <3>1, <3>2, <3>3 DEF Unsent
    <3> QED  BY <1>0, <1>6, <3>1, <3>2, <3>3, <3>4, <3>5 DEF TextFirst, MessageFits
  <2> QED  BY <2>1, <2>2
<1>8. LevelsSpread(m)'
  <2>1. \A x \in Devices : \A o : Change(o, m) => (o \in Incoming(x) <=> o \in Incoming(x)')
    BY <1>4, NotBeside
  <2>2. \A n \in 1..Top : \A x \in Devices : Says(x, m, n)' => Says(x, m, n)
    BY <1>0, <2>1 DEF Says
  <2>3. \A n \in 1..Top : \A y \in Devices : Knows(y, m, n) => Knows(y, m, n)'
    BY <1>0, <1>7, <2>1 DEF Knows
  <2>4. \A n \in 1..Top : \A x \in Devices : Says(x, m, n)' =>
             (\E z \in Devices : Says(z, m, n)) \/ \A y \in Devices : Knows(y, m, n)'
    BY <2>2
  <2> QED  BY <2>3, <2>4, LevelsKept DEF MessageFits
<1>9. ReactionsSpread(m)'
  <2>1. \A x \in Devices : Counts(x, m)' => Counts(x, m)  BY <1>0, <1>7 DEF Counts
  <2>2. ASSUME NEW x \in Devices, NEW acct \in {Mine, Theirs}, NEW v \in {0, 1},
               SettlesOn(x, m, acct, v)
        PROVE  SettlesOn(x, m, acct, v)'
    <3>0. ~Reacts(NoOp, m, acct)  BY DEF NoOp, Reacts
    <3>1. CASE x \notin Siblings(d)
      <4>1. queue'[x] = queue[x] /\ Wire(x)' = Wire(x)  BY <3>1, Mirrored
      <4>2. \A e \in Siblings(x) : lock'[e] = lock[e]  BY <1>3, <3>1, Mirrored, SiblingsAre
      <4> QED  BY <1>0, <2>2, <4>1, <4>2 DEF SettlesOn, Held, Comes
    <3>2. CASE x \in Siblings(d)
      <4>1. queue'[x] = queue[x] \o <<op>> /\ Wire(x)' = Wire(x) \cup {op}  BY <3>2, Mirrored
      <4>2. \A e \in Siblings(x) : e # d => lock'[e] = lock[e]  BY Mirrored, SiblingsAre
      <4>3. d \in Siblings(x) /\ lock'[d] = NoOp  BY <1>3, <3>2, Mirrored
      <4>4. Reacts(op, m, acct) => op.n = v  BY <2>2, <4>3 DEF SettlesOn
      <4>5. ~Reacts(op, m, acct) => (Held(x, m, acct)' <=> Held(x, m, acct))
        BY <3>0, <4>2, <4>3 DEF Held
      <4>6. \A e \in Siblings(x) : Reacts(lock'[e], m, acct) => lock'[e].n = v
        BY <2>2, <3>0, <4>2, <4>3 DEF SettlesOn
      <4>7. ~Held(x, m, acct)' => LastIs(queue'[x], m, acct, v)
        <5>1. queue[x] \in Seq(OpType) /\ <<op>> \in Seq(OpType) /\ ToSet(<<op>>) = {op}
          BY <1>1, OnTheWire, OneOp
        <5>2. ~Held(x, m, acct)' =>
                 LastIs(queue[x], m, acct, v) \/ \E o \in ToSet(<<op>>) : Reacts(o, m, acct)
          BY <2>2, <4>5, <5>1 DEF SettlesOn
        <5>3. \A o \in ToSet(<<op>>) : Reacts(o, m, acct) => o.n = v  BY <4>4, <5>1
        <5>4. ~Held(x, m, acct)' => LastIs(queue[x] \o <<op>>, m, acct, v)
          <6> SUFFICES ASSUME ~Held(x, m, acct)'  PROVE LastIs(queue[x] \o <<op>>, m, acct, v)
            OBVIOUS
          <6> HIDE DEF op
          <6> QED  BY <5>1, <5>2, <5>3, LastAppend
        <5> QED  BY <4>1, <5>4
      <4>8. ~Comes(x, m, acct)' => ~Reacts(op, m, acct) /\ ~Comes(x, m, acct)
        BY <4>1 DEF Comes
      <4>9. ~Held(x, m, acct)' /\ ~Comes(x, m, acct)' => store'[x].react[m][acct] = v
        BY <1>0, <2>2, <4>5, <4>8 DEF SettlesOn
      <4> QED  BY <4>6, <4>7, <4>9 DEF SettlesOn
    <3> QED  BY <3>1, <3>2
  <2> QED  BY <1>0, <2>1, <2>2, ReactsKept DEF MessageFits
<1> QED  BY <1>7, <1>8, <1>9 DEF MessageFits

LEMMA MirrorConverges ==
  ASSUME HistoryInv, HistoryInv', ConvergeInv, NEW d \in Devices, NEW ok \in BOOLEAN,
         Mirror(d, ok)
  PROVE  ConvergeInv'
<1> DEFINE op == lock[d]
<1>0. UNCHANGED <<msgs, store, sending>> /\ lock' = [lock EXCEPT ![d] = NoOp] /\ ~Free(d)
  BY DEF Mirror
<1>1. op \in OpType /\ op.from = d /\ OpFits(msgs, op) /\ op.m \in Sent
  BY <1>0, OnTheWire DEF OpOf, ConvergeInv, DeviceFits
<1>2. queue' = queue \/ queue' = To(Siblings(d), <<op>>, queue)  BY DEF Mirror
<1>3. /\ past.spoilt \subseteq past'.spoilt /\ past'.crossed = past.crossed
      /\ past'.decrypted = past.decrypted /\ past'.reads = past.reads
      /\ ~ok => op.m \in past'.spoilt
  <2>1. CASE ok  BY <2>1 DEF Mirror
  <2>2. CASE ~ok  BY <2>2, Spoilt DEF Mirror
  <2> QED  BY <2>1, <2>2
<1>4. <<op>> \in Seq(OpType) /\ ToSet(<<op>>) = {op}  BY <1>1, OneOp
<1>5. ASSUME NEW k \in Sent \ past'.spoilt, k # op.m  PROVE Aside(k)
  <2>1. Beside(op, k) /\ Beside(NoOp, k)  BY <1>5 DEF Beside, NoOp, Carried
  <2>2. \A x \in Devices : Alike(queue[x], queue'[x], k)
    BY <1>2, <1>4, <2>1, AlikeTo, AlikeItself
  <2>3. \A x \in Devices : lock'[x] = lock[x] \/ (Beside(lock[x], k) /\ Beside(lock'[x], k))
    BY <1>0, <2>1 DEF HistoryInv, TypeOK
  <2> QED  BY <1>0, <2>2, <2>3, FaceItself DEF Aside
<1>6. \A k \in Sent \ past'.spoilt : MessageFits(k) => Aside(k) \/ MessageFits(k)'
  BY <1>3, <1>5, MirrorFits
<1>7. Apart(msgs)
  <2>1. ASSUME NEW x \in Devices, NEW o \in Wire(x)', o \notin Wire(x)
        PROVE  o.from # x /\ OpFits(msgs, o)
    <3>1. queue[x] \in Seq(OpType) /\ queue' # queue  BY <2>1, OnTheWire DEF Wire
    <3>2. queue' = To(Siblings(d), <<op>>, queue)  BY <1>2, <3>1
    <3>3. Wire(x)' = IF x \in Siblings(d) THEN Wire(x) \cup ToSet(<<op>>) ELSE Wire(x)
      BY <1>4, <3>1, <3>2, WireTo
    <3>4. x \in Siblings(d) /\ o = op  BY <1>4, <2>1, <3>3
    <3> QED  BY <1>1, <3>4, SiblingsAre
  <2>2. \A x \in Devices : lock'[x] \in {lock[x], NoOp}  BY <1>0 DEF HistoryInv, TypeOK
  <2> QED  BY <1>0, <2>1, <2>2, StoresFitStill DEF Apart
<1> QED  BY <1>0, <1>3, <1>6, <1>7, ConvergeStep

----------------------------------------------------------------------------
(* Edits, deletions and reactions *)

\* Any of them is aside of the other messages.
LEMMA AmendConverges ==
  ASSUME HistoryInv, HistoryInv', ConvergeInv, NEW d \in Devices, NEW m \in Sent, NEW t,
         NEW op \in OpType, op.m = m, op.from = d, OpFits(msgs, op), NEW outcome, Free(d),
         store' = [store EXCEPT ![d] = t], Post(d, op, outcome), UNCHANGED <<msgs, sending>>,
         past.spoilt \subseteq past'.spoilt, past.crossed \subseteq past'.crossed,
         past.decrypted \subseteq past'.decrypted, past.reads \subseteq past'.reads,
         \A k \in Texts \ {m} : SameFace(store[d], t, k), t.row[m].has => Level(t.row[m]) >= 0,
         m \in past'.spoilt \/ (MessageFits(m) => MessageFits(m)')
  PROVE  ConvergeInv'
<1>1. store'[d] = t /\ \A x \in Devices \ {d} : store'[x] = store[x]
  BY DEF HistoryInv, TypeOK
<1>2. ASSUME NEW k \in Sent \ past'.spoilt, k # m  PROVE Aside(k)
  <2>1. k \in Texts  BY AuthorOf
  <2>2. \A x \in Devices : SameFace(store[x], store'[x], k)  BY <1>1, <1>2, <2>1, FaceItself
  <2>3. \A x \in Devices :
            /\ Alike(queue[x], queue'[x], k)
            /\ lock'[x] = lock[x] \/ (Beside(lock[x], k) /\ Beside(lock'[x], k))
    BY <1>2, PostAside
  <2> QED  BY <2>2, <2>3 DEF Aside
<1>3. \A k \in Sent \ past'.spoilt : MessageFits(k) => Aside(k) \/ MessageFits(k)'
  BY <1>2
<1>4. \A x \in Devices : StoreFits(msgs, store'[x])
  <2> SUFFICES ASSUME NEW x \in Devices  PROVE StoreFits(msgs, store'[x])  OBVIOUS
  <2>1. StoreFits(msgs, store[x])  BY DEF ConvergeInv, DeviceFits
  <2>2. m \in Texts /\ Len(msgs) \in Nat /\ m \in 1..Len(msgs)
    BY AuthorOf, Numbers DEF HistoryInv, Sent
  <2>3. CASE x = d
    <3>1. StoreFits(msgs, store[d])  BY <2>1, <2>3
    <3>2. StoreFits(msgs, t)  BY <2>2, <3>1, StoreFitsOn
    <3> QED  BY <1>1, <2>3, <3>2
  <2>4. CASE x # d  BY <1>1, <2>1, <2>4
  <2> QED  BY <2>3, <2>4
<1>5. Apart(msgs)  BY <1>4, PostApart
<1> QED  BY <1>3, <1>5, ConvergeStep

\* An edit or a deletion that went through: all have heard of its level.
LEMMA ChangeSent ==
  ASSUME HistoryInv, HistoryInv', NEW d \in Devices, NEW m \in Sent, NEW t,
         NEW op \in OpType, Change(op, m), op.from = d, LevelOf(op) \in 1..Top, Free(d),
         store' = [store EXCEPT ![d] = t], Post(d, op, "sent"), UNCHANGED <<msgs, sending>>,
         past.crossed \subseteq past'.crossed, store[d].row[m].has, t.row[m].has,
         Level(t.row[m]) >= Level(store[d].row[m]), Level(t.row[m]) >= LevelOf(op),
         Level(t.row[m]) \in {Level(store[d].row[m]), LevelOf(op)},
         store[d].row[m].deleted => t.row[m].deleted,
         t.row[m].deleted \/ t.react[m] = store[d].react[m],
         m \notin sending[d], msgs[m].from \in Own(d), MessageFits(m)
  PROVE  MessageFits(m)'
<1> DEFINE f == msgs[m].from  new == LevelOf(op)
<1>0. m \in Texts /\ f \in Devices  BY AuthorOf
<1>1. store'[d] = t /\ \A x \in Devices \ {d} : store'[x] = store[x]
  BY DEF HistoryInv, TypeOK
<1>2. /\ \A x \in Devices :
            /\ x \in Others(d) => Wire(x)' = Wire(x) \cup {op}
            /\ x \notin Others(d) => Wire(x)' = Wire(x)
            /\ x # d => lock'[x] = lock[x]
      /\ lock'[d] = op
  BY PostedWire
<1>3. ~Text(op, m) /\ \A acct : ~Reacts(op, m, acct)  BY DEF Text, Change, Reacts
<1>4. ~Coming(d, m)  BY DEF MessageFits, TextFirst
<1>5. ~Unsent(m)
  <2>1. CASE f = d  BY <2>1, OnTheWire DEF Unsent
  <2>2. CASE f # d
    <3>1. d \in Siblings(f)  BY <1>0, <2>2, Accounts DEF Siblings
    <3> QED  BY <1>4, <2>2, <3>1 DEF Unsent, Coming
  <2> QED  BY <2>1, <2>2
<1>6. TextGoes(m)
  <2>1. Text(lock'[f], m) => Text(lock[f], m)
    <3>1. CASE f = d  BY <1>2, <1>3, <3>1
    <3>2. CASE f # d  BY <1>0, <1>2, <3>2
    <3> QED  BY <3>1, <3>2
  <2>2. \A x \in Devices : \A o \in Wire(x)' : Text(o, m) => o \in Wire(x)
    <3> SUFFICES ASSUME NEW x \in Devices  PROVE \A o \in Wire(x)' : Text(o, m) => o \in Wire(x)
      OBVIOUS
    <3> QED  BY <1>2, <1>3
  <2>3. \A x \in Devices : Orderly(queue'[x], m)
    BY <1>3, PostOrderly DEF MessageFits, TextFirst
  <2>4. \A x \in Devices : store'[x].row[m].has => store[x].row[m].has  BY <1>1
  <2> QED  BY <1>5, <2>1, <2>2, <2>3, <2>4 DEF TextGoes
<1>7. TextFirst(m)' /\ \A x \in Devices : Coming(x, m)' => Coming(x, m)
  BY <1>6, TextKept DEF MessageFits
<1>8. \A x \in Devices : \A o \in Incoming(x)' : o \in Incoming(x) \/ o = op
  <2> SUFFICES ASSUME NEW x \in Devices, NEW o \in Incoming(x)', o # op  PROVE o \in Incoming(x)
    OBVIOUS
  <2>1. CASE o \in Wire(x)'  BY <1>2, <2>1 DEF Incoming
  <2>2. CASE o \notin Wire(x)'
    <3>1. PICK e \in Siblings(x) : o = lock'[e]  BY <2>2 DEF Incoming
    <3>2. e \in Devices /\ e # d  BY <1>2, <3>1, SiblingsAre
    <3> QED  BY <1>2, <3>1, <3>2 DEF Incoming
  <2> QED  BY <2>1, <2>2
<1>9. \A x \in Devices : \A o \in Incoming(x) : Change(o, m) => o \in Incoming(x)'
  <2> SUFFICES ASSUME NEW x \in Devices, NEW o \in Incoming(x), Change(o, m)
               PROVE  o \in Incoming(x)'
    OBVIOUS
  <2>1. CASE o \in Wire(x)
    <3>1. Wire(x) \subseteq Wire(x)'  BY <1>2
    <3> QED  BY <2>1, <3>1 DEF Incoming
  <2>2. CASE o \notin Wire(x)
    <3>1. PICK e \in Siblings(x) : o = lock[e]  BY <2>2 DEF Incoming
    <3>2. e \in Devices  BY <3>1, SiblingsAre
    <3>3. ~Change(lock[d], m)  BY OnTheWire, NotBeside
    <3>4. lock'[e] = lock[e]  BY <1>2, <3>1, <3>2, <3>3
    <3> QED  BY <3>1, <3>4 DEF Incoming
  <2> QED  BY <2>1, <2>2
<1>10. new \in Int /\ new >= new /\ Top \in Nat
  <2>1. Top \in Nat  BY BoundsAssumption DEF Top
  <2> QED  BY <2>1
<1>11. \A y \in Devices : Knows(y, m, new)'
  <2> SUFFICES ASSUME NEW y \in Devices  PROVE Knows(y, m, new)'  OBVIOUS
  <2>1. CASE y = d
    <3>1. store'[y].row[m].has /\ Level(store'[y].row[m]) >= new  BY <1>1, <2>1
    <3> QED  BY <3>1 DEF Knows, Level
  <2>2. CASE y # d
    <3>1. op \in Incoming(y)'
      <4>1. CASE y \in Others(d)  BY <1>2, <4>1 DEF Incoming
      <4>2. CASE y \notin Others(d)
        <5>1. d \in Siblings(y)  BY <2>2, <4>2, Accounts DEF Siblings, Others
        <5> QED  BY <1>2, <5>1 DEF Incoming
      <4> QED  BY <4>1, <4>2
    <3> QED  BY <1>10, <3>1 DEF Knows
  <2> QED  BY <2>1, <2>2
<1>12. LevelsSpread(m)'
  <2>1. ASSUME NEW n \in 1..Top, NEW x \in Devices, Says(x, m, n)', n # new
        PROVE  Says(x, m, n)
    <3>1. CASE store'[x].row[m].has /\ Level(store'[x].row[m]) = n
      BY <1>1, <2>1, <3>1 DEF Says
    <3>2. CASE \E o \in Incoming(x)' : Change(o, m) /\ LevelOf(o) = n
      BY <1>8, <2>1, <3>2 DEF Says
    <3> QED  BY <2>1, <3>1, <3>2 DEF Says, Level
  <2>2. ASSUME NEW n \in 1..Top, NEW y \in Devices, Knows(y, m, n)  PROVE Knows(y, m, n)'
    <3>1. Excused(y, m) => Excused(y, m)'  BY <1>1, <1>7 DEF Excused
    <3>2. store[y].row[m].has =>
             store'[y].row[m].has /\ Level(store'[y].row[m]) >= Level(store[y].row[m])
      <4>1. store[y].row[m] \in RowsType  BY <1>0 DEF HistoryInv, TypeOK, Stores
      <4>2. Level(store[y].row[m]) \in Int  BY <4>1, LevelsAre
      <4>3. Level(store[y].row[m]) >= Level(store[y].row[m])  BY <4>2
      <4> QED  BY <1>1, <4>3
    <3>3. StillKnows(y, m)  BY <1>9, <3>1, <3>2 DEF StillKnows
    <3> QED  BY <1>0, <2>2, <3>3, KnowsKept
  <2>3. \A n \in 1..Top : \A x \in Devices : Says(x, m, n)' =>
             (\E z \in Devices : Says(z, m, n)) \/ \A y \in Devices : Knows(y, m, n)'
    BY <1>11, <2>1
  <2>4. \A n \in 1..Top : \A y \in Devices : Knows(y, m, n) => Knows(y, m, n)'  BY <2>2
  <2> QED  BY <2>3, <2>4, LevelsKept DEF MessageFits
<1>13. ReactionsSpread(m)'
  <2>1. \A x \in Devices : Counts(x, m)' => Counts(x, m)  BY <1>1, <1>7 DEF Counts
  <2>2. ASSUME NEW x \in Devices, NEW acct \in {Mine, Theirs}, NEW v \in {0, 1},
               Counts(x, m)', SettlesOn(x, m, acct, v)
        PROVE  SettlesOn(x, m, acct, v)'
    <3>1. store'[x].react[m][acct] = store[x].react[m][acct]
      <4>1. CASE x = d
        <5>1. ~t.row[m].deleted  BY <1>1, <1>4, <1>7, <2>2, <4>1 DEF Counts
        <5> QED  BY <1>1, <4>1, <5>1
      <4>2. CASE x # d  BY <1>1, <4>2
      <4> QED  BY <4>1, <4>2
    <3> QED  BY <1>3, <2>2, <3>1, PostSettles
  <2> QED  BY <2>1, <2>2, ReactsKept DEF MessageFits
<1> QED  BY <1>7, <1>12, <1>13 DEF MessageFits

\* What Amend does, and to what past.
LEMMA Amended ==
  ASSUME HistoryInv, NEW d \in Devices, NEW m \in Texts, NEW t, NEW op, NEW outcome, NEW left,
         Amend(d, t, op, outcome, left), op.m = m
  PROVE  /\ Free(d) /\ store[d].row[m].has /\ store' = [store EXCEPT ![d] = t]
         /\ Post(d, op, outcome) /\ UNCHANGED <<msgs, sending>> /\ m \in Sent
  BY DEF Amend, HistoryInv, StoresHonest, StoreHonest, RowHonest, Sent

LEMMA SendEditConverges ==
  ASSUME HistoryInv, HistoryInv', ConvergeInv, NEW d \in Devices, NEW m \in Texts,
         NEW at \in Times, NEW outcome, SendEdit(d, m, at, outcome)
  PROVE  ConvergeInv'
<1> DEFINE t == ApplyEdit(store[d], m, at)  op == Op("edit", d, m, at)
           left == [bound EXCEPT !.edits = @ - 1]
<1>1. op \in OpType /\ op.kind = "edit" /\ op.from = d /\ op.m = m /\ op.n = at
  <2>1. at \in Nat /\ m \in {0} \cup Texts  BY BoundsAssumption DEF Times
  <2> QED  BY <2>1, OpsAre
<1>2. Amend(d, t, op, outcome, left) /\ Editable(d, m)  BY DEF SendEdit
<1> HIDE DEF op, left
<1>3. /\ Free(d) /\ store[d].row[m].has /\ store' = [store EXCEPT ![d] = t]
      /\ Post(d, op, outcome) /\ UNCHANGED <<msgs, sending>> /\ m \in Sent
  BY <1>1, <1>2, Amended
<1>4. /\ past'.spoilt = past.spoilt \cup Spoils(d, m, outcome) /\ past'.crossed = past.crossed
      /\ past'.decrypted = past.decrypted /\ past'.reads = past.reads
  <2>1. past' = [Spoil(past, Spoils(d, m, outcome)) EXCEPT !.times = @ \cup {at}]
    BY DEF SendEdit
  <2> QED  BY <2>1 DEF Spoil, HistoryInv, TypeOK, Accidents
<1>5. store[d] \in Stores /\ store[d].row[m] \in RowsType  BY DEF HistoryInv, TypeOK, Stores
<1>6. /\ \A k \in Texts \ {m} : SameFace(store[d], t, k)
      /\ t.react = store[d].react /\ t.row[m].has
      /\ t.row[m].deleted = store[d].row[m].deleted
      /\ Level(t.row[m]) \in {Level(store[d].row[m]), at}
      /\ Level(t.row[m]) >= Level(store[d].row[m]) /\ Level(t.row[m]) >= at
  BY <1>3, <1>5, EditFace
<1> HIDE DEF t
<1>7. at \in 1..Top /\ LevelOf(op) = at /\ Change(op, m)
  BY <1>1, BoundsAssumption DEF Times, Top, LevelOf, Change
<1>8. Level(t.row[m]) >= 0
  <2>1. Level(store[d].row[m]) \in Int /\ at \in Int /\ at > 0
    BY <1>5, <1>7, LevelsAre, BoundsAssumption DEF Top
  <2> QED  BY <1>6, <2>1
<1>9. m \in past'.spoilt \/ (MessageFits(m) => MessageFits(m)')
  <2> SUFFICES ASSUME m \notin past'.spoilt, MessageFits(m)  PROVE MessageFits(m)'  OBVIOUS
  <2>1. outcome = "sent" /\ m \notin sending[d]  BY <1>4 DEF Spoils, Early
  <2>2. msgs[m].from \in Own(d)  BY <1>2 DEF Editable
  <2>3. LevelOf(op) \in 1..Top /\ Level(t.row[m]) >= LevelOf(op)
        /\ Level(t.row[m]) \in {Level(store[d].row[m]), LevelOf(op)}
    BY <1>6, <1>7
  <2> QED  BY <1>1, <1>3, <1>4, <1>6, <1>7, <2>1, <2>2, <2>3, ChangeSent
<1>10. OpFits(msgs, op)  BY <1>1, <1>2, <1>3 DEF OpFits, Editable, Sent
<1> QED  BY <1>1, <1>3, <1>4, <1>6, <1>8, <1>9, <1>10, AmendConverges

LEMMA SendDeleteConverges ==
  ASSUME HistoryInv, HistoryInv', ConvergeInv, NEW d \in Devices, NEW m \in Texts,
         NEW outcome, SendDelete(d, m, outcome)
  PROVE  ConvergeInv'
<1> DEFINE t == Tombstone(store[d], m)  op == Op("delete", d, m, 0)
           left == [bound EXCEPT !.deletes = @ - 1]
<1>1. op \in OpType /\ op.kind = "delete" /\ op.from = d /\ op.m = m
  <2>1. 0 \in Nat /\ m \in {0} \cup Texts  OBVIOUS
  <2> QED  BY <2>1, OpsAre
<1>2. Amend(d, t, op, outcome, left) /\ Editable(d, m)  BY DEF SendDelete
<1> HIDE DEF op, left
<1>3. /\ Free(d) /\ store[d].row[m].has /\ store' = [store EXCEPT ![d] = t]
      /\ Post(d, op, outcome) /\ UNCHANGED <<msgs, sending>> /\ m \in Sent
  BY <1>1, <1>2, Amended
<1>4. /\ past'.spoilt = past.spoilt \cup Spoils(d, m, outcome) /\ past'.crossed = past.crossed
      /\ past'.decrypted = past.decrypted /\ past'.reads = past.reads
  <2>1. past' = Spoil(past, Spoils(d, m, outcome))  BY DEF SendDelete
  <2> QED  BY <2>1, Spoilt
<1>5. store[d] \in Stores /\ store[d].row[m] \in RowsType  BY DEF HistoryInv, TypeOK, Stores
<1>6. /\ \A k \in Texts \ {m} : SameFace(store[d], t, k)
      /\ t.row[m].has /\ t.row[m].deleted /\ Level(t.row[m]) = Top
  BY <1>3, <1>5, TombFace
<1> HIDE DEF t
<1>7. Top \in 1..Top /\ LevelOf(op) = Top /\ Change(op, m) /\ Top >= 0
      /\ Level(store[d].row[m]) \in -1..Top
  BY <1>1, <1>5, LevelsAre, BoundsAssumption DEF Top, LevelOf, Change
<1>8. m \in past'.spoilt \/ (MessageFits(m) => MessageFits(m)')
  <2> SUFFICES ASSUME m \notin past'.spoilt, MessageFits(m)  PROVE MessageFits(m)'  OBVIOUS
  <2>1. outcome = "sent" /\ m \notin sending[d]  BY <1>4 DEF Spoils, Early
  <2>2. msgs[m].from \in Own(d)  BY <1>2 DEF Editable
  <2>3. /\ LevelOf(op) \in 1..Top /\ Level(t.row[m]) >= LevelOf(op)
        /\ Level(t.row[m]) >= Level(store[d].row[m])
        /\ Level(t.row[m]) \in {Level(store[d].row[m]), LevelOf(op)}
    BY <1>6, <1>7
  <2> QED  BY <1>1, <1>3, <1>4, <1>6, <1>7, <2>1, <2>2, <2>3, ChangeSent
<1>9. OpFits(msgs, op)  BY <1>1, <1>2, <1>3 DEF OpFits, Editable, Sent
<1> QED  BY <1>1, <1>3, <1>4, <1>6, <1>7, <1>8, <1>9, AmendConverges

\* A reaction that went through, and crossed none of a sibling.
LEMMA ReactionSent ==
  ASSUME HistoryInv, HistoryInv', ConvergeInv, NEW d \in Devices, NEW m \in Sent,
         NEW v \in {0, 1}, NEW op \in OpType, Reacts(op, m, Own(d)), op.from = d, op.n = v, Free(d),
         store' = [store EXCEPT ![d] = UpsertReaction(store[d], Own(d), m, v)],
         Post(d, op, "sent"), UNCHANGED <<msgs, sending>>, past.crossed \subseteq past'.crossed,
         Crosses(d, m) => <<m, Own(d)>> \in past'.crossed, MessageFits(m)
  PROVE  MessageFits(m)'
<1> DEFINE f == msgs[m].from  t == UpsertReaction(store[d], Own(d), m, v)
<1>0. m \in Texts /\ f \in Devices /\ Own(d) \in {Mine, Theirs}  BY AuthorOf, Accounts
<1>1. /\ t.row = store[d].row /\ t.react[m][Own(d)] = v
      /\ \A a \in {Mine, Theirs} \ {Own(d)} : t.react[m][a] = store[d].react[m][a]
  <2>1. store[d] \in Stores  BY DEF HistoryInv, TypeOK
  <2> QED  BY <1>0, <2>1, ReactFace
<1> HIDE DEF t
<1>2. store'[d] = t /\ \A x \in Devices \ {d} : store'[x] = store[x]
  BY DEF HistoryInv, TypeOK, t
<1>3. \A x \in Devices : store'[x].row = store[x].row  BY <1>1, <1>2
<1>4. /\ \A x \in Devices :
            /\ x \in Others(d) => Wire(x)' = Wire(x) \cup {op}
            /\ x \notin Others(d) => Wire(x)' = Wire(x)
            /\ x # d => lock'[x] = lock[x]
      /\ lock'[d] = op
  BY PostedWire
<1>5. ~Text(op, m) /\ ~Change(op, m) /\ ~Change(lock[d], m)
  <2>1. ~Change(lock[d], m)  BY OnTheWire, NotBeside
  <2> QED  BY <2>1 DEF Text, Change, Reacts
<1>6. \A x \in Devices :
          /\ \A o \in Wire(x)' : Text(o, m) \/ Change(o, m) => o \in Wire(x)
          /\ \A o \in Wire(x) : o \in Wire(x)'
          /\ Change(lock'[x], m) <=> Change(lock[x], m)
          /\ Change(lock[x], m) => lock'[x] = lock[x]
  <2> SUFFICES ASSUME NEW x \in Devices
               PROVE  /\ \A o \in Wire(x)' : Text(o, m) \/ Change(o, m) => o \in Wire(x)
                      /\ \A o \in Wire(x) : o \in Wire(x)'
                      /\ Change(lock'[x], m) <=> Change(lock[x], m)
                      /\ Change(lock[x], m) => lock'[x] = lock[x]
    OBVIOUS
  <2>1. Wire(x)' = Wire(x) \/ Wire(x)' = Wire(x) \cup {op}  BY <1>4
  <2>2. CASE x = d  BY <1>4, <1>5, <2>1, <2>2
  <2>3. CASE x # d  BY <1>4, <1>5, <2>1, <2>3
  <2> QED  BY <2>2, <2>3
<1>7. TextFirst(m)' /\ \A x \in Devices : Coming(x, m)' => Coming(x, m)
  <2>1. Text(lock'[f], m) => Text(lock[f], m)
    <3>1. CASE f = d  BY <1>4, <1>5, <3>1
    <3>2. CASE f # d  BY <1>0, <1>4, <3>2
    <3> QED  BY <3>1, <3>2
  <2>2. \A x \in Devices : Orderly(queue'[x], m)
    BY <1>5, PostOrderly DEF MessageFits, TextFirst
  <2>3. Unsent(m) => \A x \in Devices : ~Change(lock'[x], m)
    BY <1>6 DEF MessageFits, TextFirst
  <2>4. TextGoes(m)  BY <1>3, <1>6, <2>1, <2>2, <2>3 DEF TextGoes
  <2> QED  BY <2>4, TextKept DEF MessageFits
<1>8. \A x \in Devices : \A o : Change(o, m) => (o \in Incoming(x) <=> o \in Incoming(x)')
  <2> SUFFICES ASSUME NEW x \in Devices, NEW o, Change(o, m)
               PROVE  o \in Incoming(x) <=> o \in Incoming(x)'
    OBVIOUS
  <2>1. o \in Wire(x) <=> o \in Wire(x)'  BY <1>6
  <2>2. \A e \in Siblings(x) : o = lock[e] <=> o = lock'[e]
    <3> SUFFICES ASSUME NEW e \in Siblings(x)  PROVE o = lock[e] <=> o = lock'[e]  OBVIOUS
    <3>1. e \in Devices  BY SiblingsAre
    <3> QED  BY <1>6, <3>1
  <2> QED  BY <2>1, <2>2 DEF Incoming
<1>9. LevelsSpread(m)'
  <2>1. \A n \in 1..Top : \A x \in Devices : Says(x, m, n)' => Says(x, m, n)
    BY <1>3, <1>8 DEF Says
  <2>2. \A n \in 1..Top : \A y \in Devices : Knows(y, m, n) => Knows(y, m, n)'
    BY <1>3, <1>7, <1>8 DEF Knows
  <2>3. \A n \in 1..Top : \A x \in Devices : Says(x, m, n)' =>
             (\E z \in Devices : Says(z, m, n)) \/ \A y \in Devices : Knows(y, m, n)'
    BY <2>1
  <2> QED  BY <2>2, <2>3, LevelsKept DEF MessageFits
<1>10. ASSUME ~Crosses(d, m), NEW x \in Devices  PROVE SettlesOn(x, m, Own(d), v)'
  <2>1. \A e \in Siblings(d) :
            ~Reacts(lock[e], m, Own(d)) /\ \A o \in Wire(d) : Reacts(o, m, Own(d)) => o.from # e
    <3>1. \A o : o.kind = "react" => o # NoOp  BY DEF NoOp
    <3> QED  BY <1>10, <3>1 DEF Crosses, Reacts, Wire, ToSet
  <2>2. CASE x = d
    <3>1. ~Comes(d, m, Own(d))'
      <4>1. \A o \in Wire(d) : ~Reacts(o, m, Own(d))
        <5> SUFFICES ASSUME NEW o \in Wire(d), Reacts(o, m, Own(d))  PROVE FALSE  OBVIOUS
        <5>1. o.from # d /\ o.from \in Devices
          BY OnTheWire DEF ConvergeInv, DeviceFits, OpOf, OpType
        <5>2. o.from \in Siblings(d)  BY <5>1, Accounts DEF Reacts, Siblings
        <5> QED  BY <2>1, <5>2
      <4>2. d \notin Others(d)  BY Accounts
      <4>3. Wire(d)' = Wire(d)  BY <1>4, <4>2
      <4> QED  BY <4>1, <4>3 DEF Comes
    <3>2. \A e \in Siblings(d) : ~Reacts(lock'[e], m, Own(d))
      BY <1>4, <2>1, SiblingsAre
    <3>3. LastIs(queue'[d], m, Own(d), v)
      <4>1. \A i \in DOMAIN queue'[d] : ~Reacts(queue'[d][i], m, Own(d))
        BY <3>1 DEF Comes, Wire, ToSet
      <4> QED  BY <4>1 DEF LastIs
    <3>4. store'[d].react[m][Own(d)] = v  BY <1>1, <1>2
    <3> QED  BY <2>2, <3>2, <3>3, <3>4 DEF SettlesOn
  <2>3. CASE x \in Siblings(d)
    <3>1. d \in Siblings(x)  BY <2>3, Accounts DEF Siblings
    <3>2. Held(x, m, Own(d))'  BY <1>4, <3>1 DEF Held
    <3>3. \A e \in Siblings(x) : Reacts(lock'[e], m, Own(d)) => lock'[e].n = v
      <4> SUFFICES ASSUME NEW e \in Siblings(x), Reacts(lock'[e], m, Own(d)), e # d
                   PROVE  FALSE
        BY <1>4
      <4>1. e \in Siblings(d) /\ e \in Devices
        <5>1. Own(x) = Own(d)  BY <2>3, Accounts DEF Siblings
        <5> QED  BY <5>1, Accounts DEF Siblings
      <4> QED  BY <1>4, <2>1, <4>1
    <3> QED  BY <3>2, <3>3 DEF SettlesOn
  <2>4. CASE x \in Others(d)
    <3>1. \A e \in Siblings(x) : ~Reacts(lock'[e], m, Own(d))
      <4> SUFFICES ASSUME NEW e \in Siblings(x), Reacts(lock'[e], m, Own(d))  PROVE FALSE
        OBVIOUS
      <4>1. e \in Devices /\ Own(e) = Own(x) /\ Own(x) # Own(d)
        BY <2>4, Accounts DEF Siblings
      <4>2. e # d  BY <4>1
      <4>3. Reacts(lock[e], m, Own(d))  BY <1>4, <4>1, <4>2
      <4>4. lock[e].from = e
        <5>1. ~Free(e)  BY <4>1, <4>3, OnTheWire, NotBeside
        <5> QED  BY <4>1, <5>1, OnTheWire
      <4> QED  BY <4>1, <4>3, <4>4 DEF Reacts
    <3>2. queue'[x] = queue[x] \o <<op>>  BY <2>4, Posted
    <3>3. queue[x] \in Seq(OpType) /\ <<op>> \in Seq(OpType) /\ ToSet(<<op>>) = {op}
      BY OnTheWire, OneOp
    <3>4. LastIs(queue'[x], m, Own(d), v)
      <4>1. \E o \in ToSet(<<op>>) : Reacts(o, m, Own(d))  BY <3>3
      <4>2. \A o \in ToSet(<<op>>) : Reacts(o, m, Own(d)) => o.n = v  BY <3>3
      <4> QED  BY <3>2, <3>3, <4>1, <4>2, LastAppend
    <3>5. Comes(x, m, Own(d))'
      <4>1. op \in Wire(x)'  BY <1>4, <2>4
      <4> QED  BY <4>1 DEF Comes
    <3> QED  BY <3>1, <3>4, <3>5 DEF SettlesOn, Held
  <2> QED  BY <2>2, <2>3, <2>4, Accounts DEF Siblings, Others
<1>11. ReactionsSpread(m)'
  <2> SUFFICES ASSUME NEW acct \in {Mine, Theirs}, <<m, acct>> \notin past'.crossed
               PROVE  \E u \in {0, 1} : \A x \in Devices :
                          Counts(x, m)' => SettlesOn(x, m, acct, u)'
    BY DEF ReactionsSpread
  <2>1. CASE acct = Own(d)
    <3>1. ~Crosses(d, m)  BY <2>1
    <3> QED  BY <1>10, <2>1, <3>1
  <2>2. CASE acct # Own(d)
    <3>1. PICK u \in {0, 1} : \A x \in Devices : Counts(x, m) => SettlesOn(x, m, acct, u)
      BY DEF MessageFits, ReactionsSpread
    <3>2. \A x \in Devices : Counts(x, m)' => Counts(x, m)  BY <1>3, <1>7 DEF Counts
    <3>3. ~Reacts(op, m, acct)  BY <2>2 DEF Reacts
    <3>4. \A x \in Devices : store'[x].react[m][acct] = store[x].react[m][acct]
      BY <1>1, <1>2, <2>2
    <3>5. ASSUME NEW x \in Devices, SettlesOn(x, m, acct, u)  PROVE SettlesOn(x, m, acct, u)'
      BY <3>3, <3>4, <3>5, PostSettles
    <3> QED  BY <3>1, <3>2, <3>5
  <2> QED  BY <2>1, <2>2
<1> QED  BY <1>7, <1>9, <1>11 DEF MessageFits

LEMMA SendReactionConverges ==
  ASSUME HistoryInv, HistoryInv', ConvergeInv, NEW d \in Devices, NEW m \in Texts,
         NEW v \in {0, 1}, NEW outcome, SendReaction(d, m, v, outcome)
  PROVE  ConvergeInv'
<1> DEFINE t == UpsertReaction(store[d], Own(d), m, v)  op == Op("react", d, m, v)
           left == [bound EXCEPT !.reacts = @ - 1]
           crossed == IF Crosses(d, m) THEN past.crossed \cup {<<m, Own(d)>>} ELSE past.crossed
<1>1. op \in OpType /\ op.kind = "react" /\ op.from = d /\ op.m = m /\ op.n = v
  <2>1. v \in Nat /\ m \in {0} \cup Texts  OBVIOUS
  <2> QED  BY <2>1, OpsAre
<1>2. Amend(d, t, op, outcome, left)  BY DEF SendReaction
<1> HIDE DEF op, left
<1>3. /\ Free(d) /\ store[d].row[m].has /\ store' = [store EXCEPT ![d] = t]
      /\ Post(d, op, outcome) /\ UNCHANGED <<msgs, sending>> /\ m \in Sent
  BY <1>1, <1>2, Amended
<1>4. /\ past'.spoilt = past.spoilt \cup Spoils(d, m, outcome) /\ past'.crossed = crossed
      /\ past'.decrypted = past.decrypted /\ past'.reads = past.reads
  <2>1. past' = [Spoil(past, Spoils(d, m, outcome)) EXCEPT !.crossed = crossed]
    BY DEF SendReaction, Spoil, HistoryInv, TypeOK, Accidents
  <2> HIDE DEF crossed
  <2> QED  BY <2>1 DEF Spoil, HistoryInv, TypeOK, Accidents
<1>5. past.crossed \subseteq past'.crossed /\ (Crosses(d, m) => <<m, Own(d)>> \in past'.crossed)
  BY <1>4
<1> HIDE DEF crossed
<1>6. /\ \A k \in Texts \ {m} : SameFace(store[d], t, k)
      /\ t.row = store[d].row
  <2>1. store[d] \in Stores /\ Own(d) \in {Mine, Theirs}  BY Accounts DEF HistoryInv, TypeOK
  <2> QED  BY <2>1, ReactFace
<1>7. t.row[m].has => Level(t.row[m]) >= 0
  BY <1>6 DEF ConvergeInv, DeviceFits, StoreFits
<1>8. m \in past'.spoilt \/ (MessageFits(m) => MessageFits(m)')
  <2> SUFFICES ASSUME m \notin past'.spoilt, MessageFits(m)  PROVE MessageFits(m)'  OBVIOUS
  <2>1. outcome = "sent"  BY <1>4 DEF Spoils
  <2>2. Reacts(op, m, Own(d))  BY <1>1 DEF Reacts
  <2> QED  BY <1>1, <1>3, <1>5, <2>1, <2>2, ReactionSent
<1> HIDE DEF t
<1>9. OpFits(msgs, op)  BY <1>1 DEF OpFits, Changes
<1> QED  BY <1>1, <1>3, <1>4, <1>5, <1>6, <1>7, <1>8, <1>9, AmendConverges

----------------------------------------------------------------------------
(* Receiving *)

Taken(d) == Head(queue[d])
Applied(d) ==
    IF Taken(d).from \in Own(d) THEN AppliedFromSibling(store[d], Taken(d))
    ELSE AppliedFromPeer(store[d], Taken(d))

\* One op goes from the queue of d to its store.
Received(d) ==
    /\ queue[d] \in Seq(OpType) /\ queue[d] # <<>>
    /\ UNCHANGED <<msgs, sending, lock>> /\ store' = [store EXCEPT ![d] = Applied(d)]
    /\ queue'[d] = Tail(queue[d]) /\ Wire(d) = {Taken(d)} \cup Wire(d)'
    /\ \A x \in Devices \ {d} : queue'[x] = queue[x]
    /\ past'.spoilt = past.spoilt /\ past'.crossed = past.crossed
    /\ past'.decrypted = past.decrypted /\ past'.reads = past.reads

LEMMA ReceivedIs ==
  ASSUME HistoryInv, HeadsHonest, NEW d \in Devices, Receive(d, TRUE)
  PROVE  Received(d)
<1>1. queue[d] \in Seq(OpType) /\ queue[d] # <<>>
  BY OnTheWire DEF Receive, HeadsHonest
<1>2. queue'[d] = Tail(queue[d]) /\ \A x \in Devices \ {d} : queue'[x] = queue[x]
  BY DEF Receive, HistoryInv, TypeOK
<1>3. Wire(d) = {Taken(d)} \cup Wire(d)'  BY <1>1, <1>2, WireTail DEF Wire, Taken
<1>4. store' = [store EXCEPT ![d] = Applied(d)] /\ UNCHANGED <<msgs, sending, lock>>
  BY DEF Receive, Applied, Stored, Taken
<1>5. /\ past'.spoilt = past.spoilt /\ past'.crossed = past.crossed
      /\ past'.decrypted = past.decrypted /\ past'.reads = past.reads
  BY DEF Receive, HistoryInv, TypeOK, Accidents
<1> QED  BY <1>1, <1>2, <1>3, <1>4, <1>5 DEF Received

LEMMA TakenIs ==
  ASSUME HistoryInv, ConvergeInv, NEW d \in Devices, Received(d)
  PROVE  /\ Taken(d) \in Wire(d) /\ OpOf(Taken(d)) /\ OpFits(msgs, Taken(d))
         /\ Own(Taken(d).from) \in {Mine, Theirs}
         /\ Taken(d).from \in Own(d) => Taken(d).kind \in Carried \cup {"mark"}
         /\ Taken(d).from \notin Own(d) => Taken(d).kind \in Carried \cup {"receipt", "timer"}
<1> DEFINE M == Mail(msgs, past, d)
<1>1. Taken(d) \in Wire(d)  BY DEF Received
<1>2. OpOf(Taken(d)) /\ OpFits(msgs, Taken(d))
  BY <1>1, OnTheWire DEF ConvergeInv, DeviceFits
<1>3. Taken(d) \in M
  <2> queue[d] \in Seq(M) /\ queue[d] # <<>>  BY DEF Received, HistoryInv, MailHonest
  <2> HIDE DEF M
  <2> QED  BY DEF Taken
<1>4. Own(Taken(d).from) \in {Mine, Theirs}  BY DEF Own
<1> QED  BY <1>1, <1>2, <1>3, <1>4 DEF Mail

\* What the op does to its own message.
LEMMA AppliedText ==
  ASSUME HistoryInv, ConvergeInv, NEW d \in Devices, Received(d), NEW m \in Texts,
         Text(Taken(d), m)
  PROVE  LET s == store[d]  t == Applied(d)
         IN  /\ \A k \in Texts \ {m} : SameFace(s, t, k)
             /\ t.react = s.react /\ t.row[m].has
             /\ ~s.row[m].has => ~t.row[m].deleted /\ Level(t.row[m]) = 0
             /\ s.row[m].has => Level(t.row[m]) >= 0
<1> DEFINE s == store[d]  op == Taken(d)
<1>1. s \in Stores /\ op.kind = "text" /\ op.m = m  BY DEF HistoryInv, TypeOK, Text
<1>2. CASE op.from \in Own(d)
  <2>1. Applied(d) = SaveMessage(s, m, SentOk, op.n = 1)
    BY <1>1, <1>2 DEF Applied, AppliedFromSibling
  <2>2. Top >= 0 /\ 0 >= 0  BY BoundsAssumption DEF Top
  <2> HIDE DEF s, op
  <2> QED  BY <1>1, <2>1, <2>2, SaveFace DEF s
<1>3. CASE op.from \notin Own(d)
  <2>1. Applied(d) = SaveIncoming(s, m, op.n = 1)
    BY <1>1, <1>3 DEF Applied, AppliedFromPeer
  <2>2. s.row[m].has => Level(s.row[m]) >= 0  BY DEF ConvergeInv, DeviceFits, StoreFits
  <2> HIDE DEF s, op
  <2> QED  BY <1>1, <2>1, <2>2, ArriveFace DEF s
<1> QED  BY <1>2, <1>3

LEMMA AppliedChange ==
  ASSUME HistoryInv, ConvergeInv, NEW d \in Devices, Received(d), NEW m \in Texts,
         Change(Taken(d), m)
  PROVE  LET s == store[d]  t == Applied(d)  new == LevelOf(Taken(d))
         IN  /\ \A k \in Texts \ {m} : SameFace(s, t, k)
             /\ t.row[m].has = s.row[m].has
             /\ s.row[m].has =>
                   /\ Level(t.row[m]) >= Level(s.row[m]) /\ Level(t.row[m]) >= new
                   /\ Level(t.row[m]) \in {Level(s.row[m]), new}
                   /\ s.row[m].deleted => t.row[m].deleted
                   /\ t.row[m].deleted \/ t.react = s.react
<1> DEFINE s == store[d]  op == Taken(d)  t == Applied(d)
<1>1. s \in Stores /\ op.kind \in {"edit", "delete"} /\ op.m = m /\ s.row[m] \in RowsType
  <2>1. s \in Stores  BY DEF HistoryInv, TypeOK
  <2>2. s.row[m] \in RowsType  BY <2>1 DEF Stores
  <2> QED  BY <2>1, <2>2 DEF Change
<1>2. op.from \notin Own(d) => Authored(op)
  BY <1>1, TakenIs DEF OpFits, Changes, Authored
<1>3. CASE op.kind = "edit"
  <2>1. op.n \in Times /\ LevelOf(op) = op.n  BY <1>3, TakenIs DEF OpOf, LevelOf
  <2>2. t = ApplyEdit(s, m, op.n)
    BY <1>1, <1>2, <1>3 DEF Applied, AppliedFromSibling, AppliedFromPeer, InboundEdit
  <2> HIDE DEF s, op, t
  <2>3. /\ \A k \in Texts \ {m} : SameFace(s, t, k)
        /\ t.react = s.react /\ t.row[m].has = s.row[m].has
        /\ t.row[m].deleted = s.row[m].deleted
        /\ Level(t.row[m]) \in {Level(s.row[m]), op.n}
        /\ Level(t.row[m]) >= Level(s.row[m])
        /\ s.row[m].has => Level(t.row[m]) >= op.n
    BY <1>1, <2>1, <2>2, EditFace
  <2> QED  BY <2>1, <2>3 DEF s, op, t
<1>4. CASE op.kind = "delete"
  <2>1. LevelOf(op) = Top  BY <1>4 DEF LevelOf
  <2>2. t = Tombstone(s, m)
    BY <1>1, <1>2, <1>4 DEF Applied, AppliedFromSibling, AppliedFromPeer, InboundDelete
  <2>3. Level(s.row[m]) \in -1..Top /\ Top \in Nat  BY <1>1, LevelsAre
  <2> HIDE DEF s, op, t
  <2>4. /\ \A k \in Texts \ {m} : SameFace(s, t, k)
        /\ t.row[m].has = s.row[m].has
        /\ s.row[m].has => t.row[m].deleted /\ Level(t.row[m]) = Top
    BY <1>1, <2>2, TombFace
  <2>5. Top >= Level(s.row[m]) /\ Top >= Top  BY <2>3
  <2> QED  BY <2>1, <2>4, <2>5 DEF s, op, t
<1> QED  BY <1>1, <1>3, <1>4

LEMMA AppliedReaction ==
  ASSUME HistoryInv, ConvergeInv, NEW d \in Devices, Received(d), NEW m \in Texts,
         Taken(d).kind = "react", Taken(d).m = m
  PROVE  LET s == store[d]  t == Applied(d)  acct == Own(Taken(d).from)
         IN  /\ \A k \in Texts \ {m} : SameFace(s, t, k)
             /\ t.row = s.row /\ t.react[m][acct] = Taken(d).n
             /\ \A a \in {Mine, Theirs} \ {acct} : t.react[m][a] = s.react[m][a]
<1> DEFINE s == store[d]  op == Taken(d)  acct == Own(op.from)
<1>1. s \in Stores /\ acct \in {Mine, Theirs}  BY TakenIs DEF HistoryInv, TypeOK
<1>2. Applied(d) = UpsertReaction(s, acct, m, op.n)
  BY DEF Applied, AppliedFromSibling, AppliedFromPeer, Reactor
<1> HIDE DEF s, op, acct
<1>3. /\ \A k \in Texts \ {m} : SameFace(s, Applied(d), k)
      /\ Applied(d).row = s.row /\ Applied(d).react[m][acct] = op.n
      /\ \A a \in {Mine, Theirs} \ {acct} : Applied(d).react[m][a] = s.react[m][a]
  BY <1>1, <1>2, ReactFace
<1> QED  BY <1>3 DEF s, op, acct

\* And to the others: nothing.
LEMMA AppliedFits ==
  ASSUME HistoryInv, ConvergeInv, NEW d \in Devices, Received(d)
  PROVE  /\ \A m \in Texts : Beside(Taken(d), m) => SameFace(store[d], Applied(d), m)
         /\ StoreFits(msgs, Applied(d))
<1> DEFINE s == store[d]  op == Taken(d)  t == Applied(d)  m == op.m
<1>1. s \in Stores /\ StoreFits(msgs, s) /\ Len(msgs) \in Nat
  BY Numbers DEF HistoryInv, TypeOK, ConvergeInv, DeviceFits
<1>2. ASSUME \A k \in Texts : SameFace(s, t, k)
      PROVE  /\ \A k \in Texts : Beside(op, k) => SameFace(s, t, k)
             /\ StoreFits(msgs, t)
  BY <1>1, <1>2, StoreFitsSame
<1>3. CASE op.kind \in Carried
  <2>1. m \in Texts /\ m \in 1..Len(msgs)
    BY <1>3, TakenIs, AuthorOf DEF OpOf, Sent
  <2>2. (\A k \in Texts \ {m} : SameFace(s, t, k)) /\ (t.row[m].has => Level(t.row[m]) >= 0)
    <3>1. CASE op.kind = "text"
      <4>1. Text(op, m)  BY <3>1 DEF Text
      <4>2. 0 >= 0  OBVIOUS
      <4> QED  BY <2>1, <4>1, <4>2, AppliedText
    <3>2. CASE op.kind \in {"edit", "delete"}
      <4>1. Change(op, m)  BY <3>2 DEF Change
      <4>2. s.row[m].has => Level(s.row[m]) >= 0  BY <1>1, <2>1 DEF StoreFits
      <4>3. LevelOf(op) \in 1..Top /\ Top \in Nat
        BY <4>1, TakenIs, LevelsOf, BoundsAssumption DEF Top
      <4>4. LevelOf(op) >= 0  BY <4>3
      <4>5. /\ \A k \in Texts \ {m} : SameFace(s, t, k)
            /\ t.row[m].has = s.row[m].has
            /\ s.row[m].has => Level(t.row[m]) \in {Level(s.row[m]), LevelOf(op)}
        BY <2>1, <4>1, AppliedChange
      <4> QED  BY <4>2, <4>4, <4>5
    <3>3. CASE op.kind = "react"
      <4>1. (\A k \in Texts \ {m} : SameFace(s, t, k)) /\ t.row = s.row
        BY <2>1, <3>3, AppliedReaction
      <4> QED  BY <1>1, <2>1, <4>1 DEF StoreFits
    <3> QED  BY <1>3, <3>1, <3>2, <3>3 DEF Carried
  <2>3. StoreFits(msgs, t)
    <3> HIDE DEF s, op, t, m
    <3> QED  BY <1>1, <2>1, <2>2, StoreFitsOn
  <2>4. \A k \in Texts : Beside(op, k) => SameFace(s, t, k)  BY <1>3, <2>2 DEF Beside
  <2> QED  BY <2>3, <2>4
<1>4. CASE op.kind = "mark" /\ op.from \in Own(d)
  <2>1. t = MarkRead(s, op.n)
    BY <1>4 DEF Applied, AppliedFromSibling, SyncRead
  <2> QED  BY <1>1, <1>2, <2>1, MarkFace
<1>5. CASE op.kind = "receipt" /\ op.from \notin Own(d)
  <2>1. t = UpdateStatus(s, m, op.n)
    BY <1>5 DEF Applied, AppliedFromPeer
  <2> QED  BY <1>1, <1>2, <2>1, StatusFace
<1>6. CASE op.kind = "timer" /\ op.from \notin Own(d)
  <2>1. t = [s EXCEPT !.timer = (op.n = 1)]
    BY <1>6 DEF Applied, AppliedFromPeer
  <2>2. t.row = s.row /\ t.react = s.react  BY <1>1, <2>1 DEF Stores
  <2> QED  BY <1>2, <2>2 DEF SameFace
<1> QED  BY <1>3, <1>4, <1>5, <1>6, TakenIs

\* What each device is still to hear of m after d has taken an op about it.
LEMMA StillComing ==
  ASSUME HistoryInv, ConvergeInv, NEW d \in Devices, Received(d), NEW m \in Sent, MessageFits(m)
  PROVE  /\ \A x \in Devices : \A o : ~Beside(o, m) => (o \in Wire(x)' => o \in Wire(x))
         /\ \A x \in Devices : \A o : ~Beside(o, m) => (o \in Incoming(x)' => o \in Incoming(x))
         /\ \A x \in Devices : \A o : ~Beside(o, m) =>
               (o \in Incoming(x) => o \in Incoming(x)' \/ (x = d /\ o = Taken(d)))
         /\ \A x \in Devices : Orderly(queue'[x], m)
         /\ Text(Taken(d), m) \/ Change(Taken(d), m) => ~Coming(d, m)'
<1> DEFINE op == Taken(d)  f == msgs[m].from
<1>1. \A x \in Devices \ {d} : \A o : ~Beside(o, m) => (o \in Wire(x)' <=> o \in Wire(x))
  BY DEF Received, Wire
<1>2. Wire(d) = {op} \cup Wire(d)'  BY DEF Received
<1>3. \A x \in Devices : Orderly(queue[x], m)  BY DEF MessageFits, TextFirst
<1>4. /\ Orderly(queue'[d], m)
      /\ \A o \in Wire(d)' : Text(o, m) => ~Text(op, m) /\ ~Change(op, m)
  BY <1>3, OrderlyTail DEF Received, Taken, Wire
<1>5. \A x \in Devices \ {d} : Orderly(queue'[x], m)
  BY <1>3 DEF Received
<1>6. ASSUME NEW x \in Devices, NEW o, ~Beside(o, m), o \in Incoming(x)'
      PROVE  o \in Incoming(x)
  BY <1>1, <1>2, <1>6 DEF Incoming, Received
<1>7. ASSUME NEW x \in Devices, NEW o, ~Beside(o, m), o \in Incoming(x)
      PROVE  o \in Incoming(x)' \/ (x = d /\ o = op)
  BY <1>1, <1>2, <1>7 DEF Incoming, Received
<1>8. ASSUME Text(op, m) \/ Change(op, m)  PROVE ~Coming(d, m)'
  <2>0. f \in Devices /\ UNCHANGED <<msgs, sending, lock>> /\ op \in Wire(d)
    BY <1>2, AuthorOf DEF Received
  <2>1. m \notin sending[f]
    BY <1>8, <2>0 DEF MessageFits, TextFirst, Unsent
  <2>2. d \in Siblings(f) => ~Text(lock[f], m)
    BY <1>8, <2>0 DEF MessageFits, TextFirst, Unsent
  <2>3. \A o \in Wire(d)' : ~Text(o, m)  BY <1>4, <1>8
  <2> QED  BY <2>0, <2>1, <2>2, <2>3 DEF Coming
<1> QED  BY <1>1, <1>2, <1>4, <1>5, <1>6, <1>7, <1>8

\* The row of d may be new, or of a higher level; it knows what it knew.
LEMMA TakenFits ==
  ASSUME HistoryInv, HistoryInv', ConvergeInv, NEW d \in Devices, Received(d), NEW m \in Sent,
         MessageFits(m), ~Beside(Taken(d), m)
  PROVE  MessageFits(m)'
<1> DEFINE op == Taken(d)  s == store[d]  t == Applied(d)  new == LevelOf(op)
<1>0. /\ m \in Texts /\ UNCHANGED <<msgs, sending, lock>> /\ past'.crossed = past.crossed
      /\ store'[d] = t /\ \A x \in Devices \ {d} : store'[x] = store[x]
      /\ op \in Wire(d) /\ op \in Incoming(d) /\ op.m = m
  <2>1. op \in Wire(d) /\ op.m = m  BY DEF Received, Beside
  <2> QED  BY <2>1, AuthorOf DEF Received, HistoryInv, TypeOK, Incoming
<1>1. /\ \A x \in Devices : \A o : ~Beside(o, m) => (o \in Wire(x)' => o \in Wire(x))
      /\ \A x \in Devices : \A o : ~Beside(o, m) => (o \in Incoming(x)' => o \in Incoming(x))
      /\ \A x \in Devices : \A o : ~Beside(o, m) =>
            (o \in Incoming(x) => o \in Incoming(x)' \/ (x = d /\ o = op))
      /\ \A x \in Devices : Orderly(queue'[x], m)
      /\ Text(op, m) \/ Change(op, m) => ~Coming(d, m)'
  BY StillComing
<1>2. s \in Stores /\ s.row[m] \in RowsType /\ Level(s.row[m]) \in Int
  <2>1. s \in Stores  BY DEF HistoryInv, TypeOK
  <2>2. s.row[m] \in RowsType  BY <1>0, <2>1 DEF Stores
  <2>3. Level(s.row[m]) \in Int  BY <2>2, LevelsAre
  <2> QED  BY <2>1, <2>2, <2>3
<1>3. /\ Text(op, m) => /\ Coming(d, m) /\ ~s.row[m].has /\ t.row[m].has /\ t.react = s.react
                        /\ ~t.row[m].deleted /\ Level(t.row[m]) = 0
  <2> SUFFICES ASSUME Text(op, m)
               PROVE  /\ Coming(d, m) /\ ~s.row[m].has /\ t.row[m].has /\ t.react = s.react
                      /\ ~t.row[m].deleted /\ Level(t.row[m]) = 0
    OBVIOUS
  <2>1. Coming(d, m)  BY <1>0 DEF Coming
  <2>2. ~s.row[m].has  BY <2>1 DEF MessageFits, TextFirst
  <2> QED  BY <1>0, <2>1, <2>2, AppliedText
<1>4. Change(op, m) =>
      /\ t.row[m].has = s.row[m].has
      /\ s.row[m].has =>
            /\ Level(t.row[m]) >= Level(s.row[m]) /\ Level(t.row[m]) >= new
            /\ Level(t.row[m]) \in {Level(s.row[m]), new}
            /\ s.row[m].deleted => t.row[m].deleted
            /\ t.row[m].deleted \/ t.react = s.react
  BY <1>0, AppliedChange
<1>5. op.kind = "react" =>
      /\ t.row = s.row /\ t.react[m][Own(op.from)] = op.n
      /\ \A a \in {Mine, Theirs} \ {Own(op.from)} : t.react[m][a] = s.react[m][a]
  BY <1>0, AppliedReaction
<1>6. Text(op, m) \/ Change(op, m) \/ (op.kind = "react" /\ ~Text(op, m) /\ ~Change(op, m))
  BY <1>0 DEF Beside, Carried, Text, Change
<1> HIDE DEF t, s
<1>7. TextFirst(m)' /\ \A x \in Devices : Coming(x, m)' => Coming(x, m)
  <2>1. \A x \in Devices : store'[x].row[m].has => store[x].row[m].has \/ ~Coming(x, m)'
    <3> SUFFICES ASSUME NEW x \in Devices, store'[x].row[m].has, Coming(x, m)'
                 PROVE  store[x].row[m].has
      OBVIOUS
    <3>1. CASE x = d
      <4>1. op.kind = "react"  BY <1>1, <1>6, <3>1
      <4> QED  BY <1>0, <1>5, <3>1, <4>1 DEF s
    <3>2. CASE x # d  BY <1>0, <3>2
    <3> QED  BY <3>1, <3>2
  <2>2. \A x \in Devices : \A o \in Wire(x)' :
            (Text(o, m) => o \in Wire(x)) /\ (Change(o, m) => o \in Wire(x))
    BY <1>1, NotBeside
  <2>3. Unsent(m) => \A x \in Devices : ~Change(lock'[x], m)
    BY <1>0 DEF MessageFits, TextFirst
  <2>4. TextGoes(m)
    BY <1>0, <1>1, <2>1, <2>2, <2>3 DEF TextGoes
  <2> QED  BY <1>0, <2>4, TextKept DEF MessageFits
<1>8. LevelsSpread(m)'
  <2>1. ASSUME NEW n \in 1..Top, NEW x \in Devices, Says(x, m, n)'  PROVE Says(x, m, n)
    <3>1. CASE \E o \in Incoming(x)' : Change(o, m) /\ LevelOf(o) = n
      BY <1>1, <3>1, NotBeside DEF Says
    <3>2. CASE x # d /\ store'[x].row[m].has /\ Level(store'[x].row[m]) = n
      BY <1>0, <3>2 DEF Says
    <3>3. CASE x = d /\ store'[x].row[m].has /\ Level(store'[x].row[m]) = n
      <4>1. t.row[m].has /\ Level(t.row[m]) = n /\ n # 0  BY <1>0, <3>3
      <4>2. CASE Text(op, m)  BY <1>3, <4>1, <4>2
      <4>3. CASE Change(op, m)
        <5>1. s.row[m].has /\ (n = Level(s.row[m]) \/ n = new)  BY <1>4, <4>1, <4>3
        <5>2. n = new => Says(d, m, n)  BY <1>0, <4>3 DEF Says
        <5>3. n = Level(s.row[m]) => Says(d, m, n)  BY <5>1 DEF Says, s
        <5> QED  BY <3>3, <5>1, <5>2, <5>3
      <4>4. CASE op.kind = "react"  BY <1>5, <3>3, <4>1, <4>4 DEF Says, s
      <4> QED  BY <1>6, <4>2, <4>3, <4>4
    <3> QED  BY <2>1, <3>1, <3>2, <3>3 DEF Says, Level
  <2>2. ASSUME NEW n \in 1..Top, NEW y \in Devices, Knows(y, m, n)  PROVE Knows(y, m, n)'
    <3>1. CASE y # d
      <4>1. Excused(y, m) => Excused(y, m)'  BY <1>0, <1>7, <3>1 DEF Excused
      <4>2. store[y].row[m].has =>
               store'[y].row[m].has /\ Level(store'[y].row[m]) >= Level(store[y].row[m])
        <5>1. store[y].row[m] \in RowsType  BY <1>0 DEF HistoryInv, TypeOK, Stores
        <5>2. Level(store[y].row[m]) >= Level(store[y].row[m])  BY <5>1, LevelsAre
        <5> QED  BY <1>0, <3>1, <5>2
      <4>3. StillKnows(y, m)  BY <1>1, <3>1, <4>1, <4>2, NotBeside DEF StillKnows
      <4> QED  BY <1>0, <2>2, <4>3, KnowsKept
    <3>2. StillKnows(d, m)
      <4>1. Excused(d, m) => Excused(d, m)'
        BY <1>0, <1>3, <1>4, <1>5, <1>6, <1>7 DEF Excused, s
      <4>2. s.row[m].has => t.row[m].has /\ Level(t.row[m]) >= Level(s.row[m])
        <5>1. Level(s.row[m]) >= Level(s.row[m])  BY <1>2
        <5>2. op.kind = "react" => t.row = s.row  BY <1>5
        <5> QED  BY <1>3, <1>4, <1>6, <5>1, <5>2
      <4>3. Change(op, m) => Excused(d, m)' \/ (t.row[m].has /\ Level(t.row[m]) >= new)
        BY <1>0, <1>1, <1>4 DEF Excused
      <4> QED  BY <1>0, <1>1, <4>1, <4>2, <4>3, NotBeside DEF StillKnows, s
    <3>3. CASE y = d  BY <1>0, <2>2, <3>2, <3>3, KnowsKept
    <3> QED  BY <3>1, <3>3
  <2>3. \A n \in 1..Top : \A x \in Devices : Says(x, m, n)' =>
             (\E z \in Devices : Says(z, m, n)) \/ \A y \in Devices : Knows(y, m, n)'
    BY <2>1
  <2>4. \A n \in 1..Top : \A y \in Devices : Knows(y, m, n) => Knows(y, m, n)'  BY <2>2
  <2> QED  BY <2>3, <2>4, LevelsKept DEF MessageFits
<1>9. ReactionsSpread(m)'
  <2>1. \A x \in Devices : Counts(x, m)' => Counts(x, m)
    <3> SUFFICES ASSUME NEW x \in Devices, Counts(x, m)'  PROVE Counts(x, m)  OBVIOUS
    <3>1. CASE Coming(x, m)'  BY <1>7, <3>1 DEF Counts
    <3>2. CASE x # d /\ ~Coming(x, m)'  BY <1>0, <3>2 DEF Counts
    <3>3. CASE x = d /\ ~Coming(x, m)'
      <4>1. t.row[m].has /\ ~t.row[m].deleted  BY <1>0, <3>3 DEF Counts
      <4> QED  BY <1>3, <1>4, <1>5, <1>6, <3>3, <4>1 DEF Counts, s
    <3> QED  BY <3>1, <3>2, <3>3
  <2>2. ASSUME NEW x \in Devices, NEW acct \in {Mine, Theirs}, NEW v \in {0, 1},
               Counts(x, m)', SettlesOn(x, m, acct, v)
        PROVE  SettlesOn(x, m, acct, v)'
    <3>1. CASE x # d
      <4>1. queue'[x] = queue[x]  BY <3>1 DEF Received
      <4>2. Comes(x, m, acct) => Comes(x, m, acct)'  BY <4>1 DEF Comes, Wire
      <4>3. store'[x].react[m][acct] = store[x].react[m][acct]  BY <1>0, <3>1
      <4> QED  BY <1>0, <2>2, <4>1, <4>2, <4>3, SettlesKept
    <3>2. CASE x = d
      <4>1. LastIs(queue[d], m, acct, v) =>
               /\ LastIs(queue'[d], m, acct, v)
               /\ Reacts(op, m, acct) /\ ~Comes(d, m, acct)' => op.n = v
        BY LastTail DEF Received, Taken, Comes, Wire
      <4>2. Comes(d, m, acct) => Comes(d, m, acct)' \/ Reacts(op, m, acct)
        BY DEF Received, Comes
      <4>3. Held(d, m, acct)' <=> Held(d, m, acct)  BY <1>0 DEF Held
      <4>4. \A e \in Siblings(d) : Reacts(lock'[e], m, acct) => lock'[e].n = v
        BY <1>0, <2>2, <3>2 DEF SettlesOn
      <4>5. ~Held(d, m, acct)' => LastIs(queue'[d], m, acct, v)
        BY <2>2, <3>2, <4>1, <4>3 DEF SettlesOn
      <4>6. Reacts(op, m, acct) => t.react[m][acct] = op.n
        BY <1>5 DEF Reacts
      <4>7. ~Reacts(op, m, acct) => t.react[m][acct] = s.react[m][acct]
        <5>1. CASE Text(op, m)  BY <1>3, <5>1
        <5>2. CASE Change(op, m)
          <6>1. t.row[m].has /\ ~t.row[m].deleted  BY <1>0, <1>1, <2>2, <3>2, <5>2 DEF Counts
          <6> QED  BY <1>4, <5>2, <6>1
        <5>3. CASE op.kind = "react"  BY <1>0, <1>5, <5>3 DEF Reacts
        <5> QED  BY <1>6, <5>1, <5>2, <5>3
      <4>8. ~Held(d, m, acct)' /\ ~Comes(d, m, acct)' => store'[d].react[m][acct] = v
        <5> SUFFICES ASSUME ~Held(d, m, acct)', ~Comes(d, m, acct)'
                     PROVE  store'[d].react[m][acct] = v
          OBVIOUS
        <5>1. CASE Reacts(op, m, acct)
          <6>1. op.n = v  BY <2>2, <3>2, <4>1, <4>3, <5>1 DEF SettlesOn
          <6> QED  BY <1>0, <4>6, <5>1, <6>1
        <5>2. CASE ~Reacts(op, m, acct)
          <6>1. s.react[m][acct] = v  BY <2>2, <3>2, <4>2, <4>3, <5>2 DEF SettlesOn, s
          <6> QED  BY <1>0, <4>7, <5>2, <6>1
        <5> QED  BY <5>1, <5>2
      <4> QED  BY <3>2, <4>4, <4>5, <4>8 DEF SettlesOn
    <3> QED  BY <3>1, <3>2
  <2> QED  BY <1>0, <2>1, <2>2, ReactsKept DEF MessageFits
<1> QED  BY <1>7, <1>8, <1>9 DEF MessageFits

LEMMA ReceiveConverges ==
  ASSUME HistoryInv, HistoryInv', HeadsHonest, ConvergeInv, NEW d \in Devices,
         Receive(d, TRUE)
  PROVE  ConvergeInv'
<1>1. Received(d)  BY ReceivedIs
<1>2. store'[d] = Applied(d) /\ \A x \in Devices \ {d} : store'[x] = store[x]
  BY <1>1 DEF Received, HistoryInv, TypeOK
<1>3. ASSUME NEW m \in Sent, Beside(Taken(d), m)  PROVE Aside(m)
  <2>1. m \in Texts  BY AuthorOf
  <2>2. \A x \in Devices : SameFace(store[x], store'[x], m)
    BY <1>1, <1>2, <1>3, <2>1, AppliedFits, FaceItself
  <2>3. Alike(queue[d], queue'[d], m)
    BY <1>1, <1>3, AlikeTail DEF Received, Taken
  <2>4. \A x \in Devices : Alike(queue[x], queue'[x], m)
    BY <1>1, <2>3, AlikeItself DEF Received
  <2> QED  BY <1>1, <2>2, <2>4 DEF Received, Aside
<1>4. \A m \in Sent \ past'.spoilt : MessageFits(m) => Aside(m) \/ MessageFits(m)'
  BY <1>1, <1>3, TakenFits
<1>5. Apart(msgs)
  <2>1. \A x \in Devices : StoreFits(msgs, store'[x])
    BY <1>1, <1>2, AppliedFits DEF ConvergeInv, DeviceFits
  <2>2. \A x \in Devices : Wire(x)' \subseteq Wire(x)  BY <1>1 DEF Received, Wire
  <2> QED  BY <1>1, <2>1, <2>2 DEF Apart, Received
<1> QED  BY <1>1, <1>4, <1>5, ConvergeStep DEF Received

----------------------------------------------------------------------------
(* Losing what was decrypted: a write of the store that fails, a process    *)
(* that ends.  The message of a change or a reaction is spoilt with it; a   *)
(* text that is lost leaves its device without the message for good.       *)

Dropped(d) ==
    /\ queue[d] \in Seq(OpType) /\ queue[d] # <<>> /\ UNCHANGED <<msgs, store>>
    /\ queue'[d] = Tail(queue[d]) /\ Wire(d) = {Taken(d)} \cup Wire(d)'
    /\ \A x \in Devices \ {d} : queue'[x] = queue[x]
    /\ past.spoilt \subseteq past'.spoilt /\ past'.crossed = past.crossed
    /\ past'.decrypted = past.decrypted /\ past'.reads = past.reads
    /\ Taken(d).kind \in {"edit", "delete", "react"} => Taken(d).m \in past'.spoilt
    /\ \A x \in Devices : lock'[x] = lock[x]
             \/ (lock'[x] = NoOp /\ (~Free(x) => lock[x].m \in past'.spoilt))
    /\ \A m \in Sent \ past'.spoilt :
             m \in sending'[msgs[m].from] <=> m \in sending[msgs[m].from]

LEMMA DroppedLocks ==
  ASSUME HistoryInv, NEW d \in Devices, Dropped(d), NEW m \in Sent \ past'.spoilt
  PROVE  \A x \in Devices : lock'[x] = lock[x] \/ (Beside(lock[x], m) /\ Beside(lock'[x], m))
<1>1. Beside(NoOp, m)  BY DEF NoOp, Beside, Carried
<1> QED  BY <1>1, OnTheWire DEF Dropped, Beside

LEMMA TextDropped ==
  ASSUME HistoryInv, HistoryInv', NEW d \in Devices, Dropped(d),
         NEW m \in Sent \ past'.spoilt, MessageFits(m), Text(Taken(d), m)
  PROVE  MessageFits(m)'
<1> DEFINE f == msgs[m].from  op == Taken(d)
<1>0. m \in Texts /\ f \in Devices /\ UNCHANGED <<msgs, store>>
  BY AuthorOf DEF Dropped
<1>1. \A x \in Devices : \A o : ~Beside(o, m) => (o = lock[x] <=> o = lock'[x])
  BY DroppedLocks
<1>2. /\ Wire(d) = {op} \cup Wire(d)' /\ op \in Wire(d)
      /\ \A x \in Devices \ {d} : Wire(x)' = Wire(x)
  BY DEF Dropped, Wire
<1>3. ASSUME NEW x \in Devices, NEW o, ~Beside(o, m)
      PROVE  /\ o \in Incoming(x)' => o \in Incoming(x)
             /\ o \in Incoming(x) => o \in Incoming(x)' \/ (x = d /\ o = op)
  <2>1. \A e \in Siblings(x) : o = lock[e] <=> o = lock'[e]  BY <1>1, <1>3, SiblingsAre
  <2>2. /\ o \in Wire(x)' => o \in Wire(x)
        /\ o \in Wire(x) => o \in Wire(x)' \/ (x = d /\ o = op)
    BY <1>2
  <2> QED  BY <2>1, <2>2 DEF Incoming
<1>4. m \in sending'[f] <=> m \in sending[f]  BY DEF Dropped
<1>5. /\ \A x \in Devices : Orderly(queue'[x], m)
      /\ \A o \in Wire(d)' : ~Text(o, m)
  <2>1. \A x \in Devices : Orderly(queue[x], m)  BY DEF MessageFits, TextFirst
  <2>2. Orderly(queue'[d], m) /\ \A o \in Wire(d)' : ~Text(o, m)
    BY <2>1, OrderlyTail DEF Dropped, Taken, Wire
  <2>3. \A x \in Devices \ {d} : Orderly(queue'[x], m)  BY <2>1 DEF Dropped
  <2> QED  BY <2>2, <2>3
<1>6. TextFirst(m)' /\ \A x \in Devices : Coming(x, m)' => Coming(x, m)
  <2>1. Text(lock'[f], m) => Text(lock[f], m)  BY <1>0, <1>1, NotBeside
  <2>2. \A x \in Devices : \A o \in Wire(x)' : o \in Wire(x)  BY <1>2
  <2>3. Unsent(m) => \A x \in Devices : ~Change(lock'[x], m)
    BY <1>1, NotBeside DEF MessageFits, TextFirst
  <2>4. TextGoes(m)  BY <1>0, <1>4, <1>5, <2>1, <2>2, <2>3 DEF TextGoes
  <2> QED  BY <1>0, <2>4, TextKept DEF MessageFits
<1>7. Excused(d, m)'
  <2>1. ~store[d].row[m].has
    <3>1. Coming(d, m)  BY <1>2 DEF Coming
    <3> QED  BY <3>1 DEF MessageFits, TextFirst
  <2>2. m \notin sending[f]  BY <1>2 DEF MessageFits, TextFirst
  <2>3. d \in Siblings(f) => ~Text(lock[f], m)  BY <1>2 DEF MessageFits, TextFirst
  <2>4. d \in Siblings(f) => ~Text(lock'[f], m)  BY <1>0, <1>1, <2>3, NotBeside
  <2>5. ~Coming(d, m)'  BY <1>0, <1>4, <1>5, <2>2, <2>4 DEF Coming
  <2> QED  BY <1>0, <2>1, <2>5 DEF Excused
<1>8. LevelsSpread(m)'
  <2>1. ASSUME NEW n \in 1..Top, NEW x \in Devices, Says(x, m, n)'  PROVE Says(x, m, n)
    BY <1>0, <1>3, <2>1, NotBeside DEF Says
  <2>2. ASSUME NEW n \in 1..Top, NEW y \in Devices, Knows(y, m, n)  PROVE Knows(y, m, n)'
    <3>1. CASE y = d  BY <1>7, <3>1 DEF Knows, Excused
    <3>2. CASE y # d
      <4>1. Excused(y, m) => Excused(y, m)'  BY <1>0, <1>6 DEF Excused
      <4>2. store[y].row[m].has =>
               store'[y].row[m].has /\ Level(store'[y].row[m]) >= Level(store[y].row[m])
        <5>1. store[y].row[m] \in RowsType  BY <1>0 DEF HistoryInv, TypeOK, Stores
        <5>2. Level(store[y].row[m]) \in Int  BY <5>1, LevelsAre
        <5> QED  BY <1>0, <5>2
      <4>3. \A o \in Incoming(y) : Change(o, m) => o \in Incoming(y)'
        BY <1>3, <3>2, NotBeside
      <4>4. StillKnows(y, m)  BY <4>1, <4>2, <4>3 DEF StillKnows
      <4> QED  BY <1>0, <2>2, <4>4, KnowsKept
    <3> QED  BY <3>1, <3>2
  <2>3. \A n \in 1..Top : \A x \in Devices : Says(x, m, n)' =>
             (\E z \in Devices : Says(z, m, n)) \/ \A y \in Devices : Knows(y, m, n)'
    BY <2>1
  <2>4. \A n \in 1..Top : \A y \in Devices : Knows(y, m, n) => Knows(y, m, n)'  BY <2>2
  <2> QED  BY <2>3, <2>4, LevelsKept DEF MessageFits
<1>9. ReactionsSpread(m)'
  <2>1. \A x \in Devices : Counts(x, m)' => Counts(x, m) /\ x # d
    BY <1>0, <1>6, <1>7 DEF Counts, Excused
  <2>2. ASSUME NEW x \in Devices, NEW acct \in {Mine, Theirs}, NEW v \in {0, 1}, x # d,
               SettlesOn(x, m, acct, v)
        PROVE  SettlesOn(x, m, acct, v)'
    <3>1. \A e \in Siblings(x) :
             Reacts(lock[e], m, acct) \/ Reacts(lock'[e], m, acct) => lock'[e] = lock[e]
      BY <1>1, SiblingsAre, NotBeside
    <3>2. queue'[x] = queue[x]  BY <2>2 DEF Dropped
    <3>3. Comes(x, m, acct) => Comes(x, m, acct)'  BY <3>2 DEF Comes, Wire
    <3> QED  BY <1>0, <2>2, <3>1, <3>2, <3>3, SettlesKept
  <2>3. past.crossed \subseteq past'.crossed  BY DEF Dropped
  <2> QED  BY <2>1, <2>2, <2>3, ReactsKept DEF MessageFits
<1> QED  BY <1>6, <1>8, <1>9 DEF MessageFits

LEMMA DropConverges ==
  ASSUME HistoryInv, HistoryInv', ConvergeInv, NEW d \in Devices, Dropped(d)
  PROVE  ConvergeInv'
<1>1. ASSUME NEW m \in Sent \ past'.spoilt, MessageFits(m)
      PROVE  Aside(m) \/ MessageFits(m)'
  <2>1. CASE Text(Taken(d), m)  BY <1>1, <2>1, TextDropped
  <2>2. CASE ~Text(Taken(d), m)
    <3>1. Beside(Taken(d), m)  BY <2>2 DEF Dropped, Beside, Carried, Text
    <3>2. Alike(queue[d], queue'[d], m)  BY <3>1, AlikeTail DEF Dropped, Taken
    <3>3. \A x \in Devices : Alike(queue[x], queue'[x], m)
      BY <3>2, AlikeItself DEF Dropped
    <3>4. \A x \in Devices : SameFace(store[x], store'[x], m)  BY FaceItself DEF Dropped
    <3> QED  BY <3>3, <3>4, DroppedLocks DEF Dropped, Aside
  <2> QED  BY <2>1, <2>2
<1>2. Apart(msgs)
  <2>1. \A x \in Devices : StoreFits(msgs, store'[x])  BY DEF ConvergeInv, DeviceFits, Dropped
  <2>2. \A x \in Devices : Wire(x)' \subseteq Wire(x)  BY DEF Dropped, Wire
  <2>3. \A x \in Devices : lock'[x] \in {lock[x], NoOp}  BY DEF Dropped
  <2> QED  BY <2>1, <2>2, <2>3 DEF Apart
<1> QED  BY <1>1, <1>2, ConvergeStep DEF Dropped

\* The two ways to lose it.
LEMMA LossConverges ==
  ASSUME HistoryInv, HistoryInv', HeadsHonest, ConvergeInv, NEW d \in Devices,
         Receive(d, FALSE)
  PROVE  ConvergeInv'
<1>1. queue[d] \in Seq(OpType) /\ queue[d] # <<>>
  BY OnTheWire DEF Receive, HeadsHonest
<1>2. queue'[d] = Tail(queue[d]) /\ \A x \in Devices \ {d} : queue'[x] = queue[x]
  BY DEF Receive, HistoryInv, TypeOK
<1>3. Wire(d) = {Taken(d)} \cup Wire(d)'  BY <1>1, <1>2, WireTail DEF Wire, Taken
<1>4. UNCHANGED <<msgs, store, sending, lock>> /\ past' = Lost(past, d, Taken(d))
  BY DEF Receive, Taken
<1>5. Taken(d) \in Mail(msgs, past, d) /\ past \in Accidents
  BY <1>1, HeadTaken DEF Taken, HistoryInv, TypeOK
<1>6. /\ past.spoilt \subseteq past'.spoilt /\ past'.crossed = past.crossed
      /\ past'.decrypted = past.decrypted /\ past'.reads = past.reads
      /\ Taken(d).kind \in {"edit", "delete", "react"} => Taken(d).m \in past'.spoilt
  BY <1>4, <1>5, Losing
<1>7. Dropped(d)  BY <1>1, <1>2, <1>3, <1>4, <1>6 DEF Dropped
<1> QED  BY <1>7, DropConverges

LEMMA ExitConverges ==
  ASSUME HistoryInv, HistoryInv', HeadsHonest, ConvergeInv, NEW d \in Devices, Exit(d)
  PROVE  ConvergeInv'
<1> DEFINE ms == sending[d] \cup IF Free(d) THEN {} ELSE {lock[d].m}
           late == [Spoil(past, ms) EXCEPT !.forgot = @ \cup
                       IF marks[d].pending + marks[d].carried > 0 THEN {d} ELSE {}]
<1>1. /\ UNCHANGED <<msgs, store>> /\ sending' = [sending EXCEPT ![d] = {}]
      /\ lock' = [lock EXCEPT ![d] = NoOp]
      /\ queue' = IF d \in opened THEN [queue EXCEPT ![d] = Tail(@)] ELSE queue
      /\ past' = IF d \in opened THEN Lost(late, d, Head(queue[d])) ELSE late
  BY DEF Exit
<1>2. /\ late.spoilt = past.spoilt \cup ms /\ late.crossed = past.crossed
      /\ late.decrypted = past.decrypted /\ late.reads = past.reads /\ late \in Accidents
  <2>1. ms \subseteq Texts
    <3>1. sending[d] \subseteq Texts  BY Numbers DEF HistoryInv, TypeOK
    <3>2. ~Free(d) => lock[d].m \in Texts  BY OnTheWire, AuthorOf DEF OpOf
    <3> QED  BY <3>1, <3>2
  <2> HIDE DEF ms
  <2> QED  BY <2>1 DEF Spoil, HistoryInv, TypeOK, Accidents
<1> HIDE DEF late
<1>3. past.spoilt \cup ms \subseteq past'.spoilt => \A x \in Devices : lock'[x] = lock[x]
             \/ (lock'[x] = NoOp /\ (~Free(x) => lock[x].m \in past'.spoilt))
  BY <1>1 DEF HistoryInv, TypeOK
<1>4. past.spoilt \cup ms \subseteq past'.spoilt => \A m \in Sent \ past'.spoilt :
             m \in sending'[msgs[m].from] <=> m \in sending[msgs[m].from]
  <2>1. \A x \in Devices : sending'[x] = IF x = d THEN {} ELSE sending[x]
    BY <1>1 DEF HistoryInv, TypeOK
  <2> QED  BY <2>1, AuthorOf
<1> HIDE DEF ms
<1>5. CASE d \notin opened
  <2>1. past'.spoilt = past.spoilt \cup ms /\ queue' = queue  BY <1>1, <1>2, <1>5
  <2>2. \A x \in Devices : \A k \in Texts : SameFace(store[x], store'[x], k)
    BY <1>1, FaceItself
  <2>3. <<>> \in Seq(OpType) /\ ToSet(<<>>) = {}  BY DEF ToSet
  <2> QED  BY <1>1, <1>2, <1>3, <1>4, <1>5, <2>1, <2>2, <2>3, AllAside
<1>6. CASE d \in opened
  <2>1. queue[d] \in Seq(OpType) /\ queue[d] # <<>>
    BY <1>6, OnTheWire DEF HeadsHonest
  <2>2. queue'[d] = Tail(queue[d]) /\ \A x \in Devices \ {d} : queue'[x] = queue[x]
    BY <1>1, <1>6 DEF HistoryInv, TypeOK
  <2>3. Wire(d) = {Taken(d)} \cup Wire(d)'  BY <2>1, <2>2, WireTail DEF Wire, Taken
  <2>4. Taken(d) \in Mail(msgs, past, d)  BY <2>1, HeadTaken DEF Taken
  <2>5. past' = Lost(late, d, Taken(d))  BY <1>1, <1>6 DEF Taken
  <2>6. /\ late.spoilt \subseteq past'.spoilt /\ past'.crossed = late.crossed
        /\ past'.decrypted = late.decrypted /\ past'.reads = late.reads
        /\ Taken(d).kind \in {"edit", "delete", "react"} => Taken(d).m \in past'.spoilt
    BY <1>2, <2>4, <2>5, Losing
  <2>7. Dropped(d)
    BY <1>1, <1>2, <1>3, <1>4, <2>1, <2>2, <2>3, <2>6 DEF Dropped
  <2> QED  BY <2>7, DropConverges
<1> QED  BY <1>5, <1>6

----------------------------------------------------------------------------
(* A new message: its author shows it, all others are still to hear of it *)

LEMMA ComposeConverges ==
  ASSUME HistoryInv, HistoryInv', ConvergeInv, NEW d \in Devices, Compose(d)
  PROVE  ConvergeInv'
<1>0. Len(msgs) \in Nat  BY Numbers DEF HistoryInv
<1> PICK n \in Nat : n = Len(msgs) + 1  BY <1>0
<1> DEFINE s == store[d]  t == SaveMessage(s, n, Sending, s.timer)
           one == [from |-> d, timed |-> s.timer]
<1>1. /\ msgs' = Append(msgs, one) /\ store' = [store EXCEPT ![d] = t]
      /\ sending' = [sending EXCEPT ![d] = @ \cup {n}] /\ Free(d)
      /\ UNCHANGED <<bound, queue, resave, lock, marks, receipts, past>>
  BY DEF Compose
<1>2. /\ msgs \in Messages /\ Len(msgs) \in Nat /\ one \in [from : Devices, timed : BOOLEAN]
      /\ s \in Stores
  BY Numbers DEF HistoryInv, TypeOK, Stores
<1> HIDE DEF one
<1>3. Len(msgs') = n /\ msgs'[n] = one /\ \A m \in Sent : msgs'[m] = msgs[m]
  BY <1>1, <1>2 DEF Sent, Messages
<1>4. one.from = d  BY DEF one
<1>5. n \in Texts /\ n \notin Sent /\ Sent' = Sent \cup {n}
  <2>1. Sent' = 1..n /\ n \in 1..n /\ Sent = 1..Len(msgs)  BY <1>2, <1>3 DEF Sent
  <2>2. n <= bound.texts /\ bound.texts \in 0..MaxTexts /\ MaxTexts \in Nat
    BY Numbers, BoundsAssumption DEF Compose, HistoryInv
  <2>4. n \in Texts  BY <2>2 DEF Texts
  <2>3. 1..n = (1..Len(msgs)) \cup {n} /\ n \notin 1..Len(msgs)  BY <1>2
  <2> QED  BY <2>1, <2>3, <2>4, <1>2
<1>6. store'[d] = t /\ \A x \in Devices \ {d} : store'[x] = store[x]
  BY <1>1 DEF HistoryInv, TypeOK
<1>7. \A x \in Devices : ~store[x].row[n].has
  BY <1>5 DEF HistoryInv, StoresHonest, StoreHonest, RowHonest, Sent
<1>8. /\ \A k \in Texts \ {n} : SameFace(s, t, k)
      /\ t.react = s.react /\ t.row[n].has /\ ~t.row[n].deleted /\ Level(t.row[n]) = 0
  BY <1>2, <1>5, <1>7, SaveFace
<1> HIDE DEF t, s
<1>9. \A x \in Devices : /\ \A op \in Wire(x) : Beside(op, n)
                         /\ Beside(lock[x], n)
  <2> SUFFICES ASSUME NEW x \in Devices
               PROVE  (\A op \in Wire(x) : Beside(op, n)) /\ Beside(lock[x], n)
    OBVIOUS
  <2>1. \A op : OpOf(op) => Beside(op, n)  BY <1>5 DEF OpOf, Beside
  <2> QED  BY <2>1, OnTheWire
<1>10. \A x \in Devices : \A op \in Incoming(x)' : Beside(op, n)
  <2> SUFFICES ASSUME NEW x \in Devices, NEW op \in Incoming(x)'  PROVE Beside(op, n)
    OBVIOUS
  <2>1. op \in Wire(x) \/ \E e \in Siblings(x) : op = lock[e]  BY <1>1 DEF Incoming, Wire
  <2> QED  BY <1>9, <2>1, SiblingsAre
<1>11. Sent \subseteq Texts  BY AuthorOf
<1>12. ASSUME NEW m \in Sent \ past'.spoilt  PROVE MessageFits(m)'
  <2>1. MessageFits(m) /\ m \in Texts /\ m # n /\ msgs'[m] = msgs[m]
    BY <1>1, <1>3, <1>5, <1>11 DEF ConvergeInv
  <2>2. \A x \in Devices : SameFace(store[x], store'[x], m)
    BY <1>6, <1>8, <2>1, FaceItself DEF s
  <2>3. m \in sending'[msgs[m].from] <=> m \in sending[msgs[m].from]
    <3>1. \A x \in Devices : sending'[x] = IF x = d THEN sending[d] \cup {n} ELSE sending[x]
      BY <1>1 DEF HistoryInv, TypeOK
    <3> QED  BY <2>1, <3>1, AuthorOf
  <2>4. Aside(m)  BY <1>1, <2>2, <2>3, AlikeItself DEF Aside
  <2> QED  BY <1>1, <2>1, <2>4, AsideFits
<1>13. MessageFits(n)'
  <2>1. \A x \in Devices : /\ \A op \in Wire(x)' : ~Text(op, n) /\ ~Change(op, n)
                           /\ ~Text(lock'[x], n) /\ ~Change(lock'[x], n)
    BY <1>1, <1>9, NotBeside DEF Wire
  <2>2. n \in sending'[d]  BY <1>1 DEF HistoryInv, TypeOK
  <2>3. \A x \in Devices : Coming(x, n)' => x # d
    <3>1. d \notin Siblings(d)  BY DEF Siblings
    <3> QED  BY <1>3, <1>4, <2>1, <3>1 DEF Coming
  <2>4. \A x \in Devices : Orderly(queue'[x], n)
    <3>1. \A x \in Devices : \A i \in DOMAIN queue'[x] : queue'[x][i] \in Wire(x)'
      BY DEF Wire, ToSet
    <3> QED  BY <2>1, <3>1 DEF Orderly
  <2>5. \A x \in Devices : x # d => Coming(x, n)' /\ ~store'[x].row[n].has
    BY <1>3, <1>4, <1>6, <1>7, <2>2 DEF Coming
  <2>6. TextFirst(n)'
    <3>1. \A x \in Siblings(d) : x \in Devices  BY SiblingsAre
    <3> QED  BY <1>3, <1>4, <2>1, <2>3, <2>4, <2>5, <3>1 DEF TextFirst
  <2>7. LevelsSpread(n)'
    <3> SUFFICES ASSUME NEW k \in 1..Top, NEW x \in Devices, Says(x, n, k)'  PROVE FALSE
      BY DEF LevelsSpread, Top
    <3>1. \A op \in Incoming(x)' : ~Change(op, n)  BY <1>10, NotBeside
    <3>2. store'[x].row[n].has /\ Level(store'[x].row[n]) = k  BY <3>1 DEF Says, Level
    <3>3. x = d  BY <2>5, <3>2
    <3> QED  BY <1>6, <1>8, <3>2, <3>3
  <2>8. ReactionsSpread(n)'
    <3>1. \A x \in Devices : store'[x].react[n] = NoReactions
      <4>1. \A x \in Devices : store[x].react[n] = NoReactions
        BY <1>5 DEF ConvergeInv, DeviceFits, StoreFits, Sent
      <4> QED  BY <1>6, <1>8, <4>1 DEF s
    <3>2. ASSUME NEW x \in Devices, NEW acct \in {Mine, Theirs}  PROVE SettlesOn(x, n, acct, 0)'
      <4>1. \A e \in Siblings(x) : ~Reacts(lock'[e], n, acct)
        BY <1>1, <1>9, NotBeside, SiblingsAre
      <4>2. \A i \in DOMAIN queue'[x] : ~Reacts(queue'[x][i], n, acct)
        <5>1. \A i \in DOMAIN queue'[x] : queue'[x][i] \in Wire(x)  BY <1>1 DEF Wire, ToSet
        <5> QED  BY <1>9, <5>1, NotBeside
      <4>3. store'[x].react[n][acct] = 0  BY <3>1 DEF NoReactions
      <4> QED  BY <4>1, <4>2, <4>3 DEF SettlesOn, LastIs
    <3> QED  BY <3>2 DEF ReactionsSpread
  <2> QED  BY <2>6, <2>7, <2>8 DEF MessageFits
<1>14. Goes
  BY <1>1, <1>2, <1>3 DEF Goes, Grows, Sent
<1>15. Apart(msgs')
  <2>1. ASSUME NEW x \in Devices  PROVE StoreFits(msgs', store'[x])
    <3>1. StoreFits(msgs', store[x])
      <4>1. StoreFits(msgs, store[x])  BY DEF ConvergeInv, DeviceFits
      <4>2. 1..Len(msgs) \subseteq 1..Len(msgs')  BY <1>2, <1>3
      <4> QED  BY <4>1, <4>2 DEF StoreFits
    <3>2. CASE x = d
      <4>1. StoreFits(msgs', s)  BY <3>1, <3>2 DEF s
      <4>2. n \in Nat /\ n \in 1..n /\ (t.row[n].has => Level(t.row[n]) >= 0)  BY <1>2, <1>8
      <4>3. StoreFits(msgs', t)  BY <1>3, <1>5, <1>8, <4>1, <4>2, StoreFitsOn
      <4> QED  BY <1>6, <3>2, <4>3
    <3>3. CASE x # d  BY <1>6, <3>1, <3>3
    <3> QED  BY <3>2, <3>3
  <2> QED  BY <1>1, <2>1 DEF Apart, Wire
<1>16. \A x \in Devices : DeviceFits(x)'  BY <1>14, <1>15, DevicesKept DEF ConvergeInv
<1>17. \A m \in Sent' \ past'.spoilt : MessageFits(m)'  BY <1>5, <1>12, <1>13
<1> QED  BY <1>16, <1>17 DEF ConvergeInv

----------------------------------------------------------------------------
(* The invariant, and what it comes to when all is quiet *)

LEMMA ConvergeBegins == Init => ConvergeInv
<1> SUFFICES ASSUME Init  PROVE ConvergeInv  OBVIOUS
<1>1. Sent = {}  BY DEF Init, Sent
<1>2. ASSUME NEW x \in Devices  PROVE DeviceFits(x)
  <2>1. \A m \in Texts : store[x].row[m] = NoRow /\ store[x].react[m] = NoReactions
    BY DEF Init
  <2>2. StoreFits(msgs, store[x])  BY <2>1 DEF StoreFits, NoRow
  <2>3. OpFits(msgs, lock[x])  BY DEF Init, OpFits, NoOp, Changes
  <2>4. Wire(x) = {}  BY DEF Init, Wire, ToSet
  <2> QED  BY <2>2, <2>3, <2>4 DEF DeviceFits
<1> QED  BY <1>1, <1>2 DEF ConvergeInv

LEMMA ConvergeKept ==
  HistoryInv /\ HistoryInv' /\ HeadsHonest /\ ConvergeInv /\ [Next]_vars => ConvergeInv'
<1> SUFFICES ASSUME HistoryInv, HistoryInv', HeadsHonest, ConvergeInv, [Next]_vars
             PROVE  ConvergeInv'
  OBVIOUS
<1>1. CASE UNCHANGED vars
  <2>1. UNCHANGED <<bound, msgs, store, queue, sending, resave, lock, marks, receipts, past>>
    BY <1>1 DEF vars
  <2>2. <<>> \in Seq(OpType) /\ ToSet(<<>>) = {}  BY DEF ToSet
  <2> QED  BY <2>1, <2>2, QuietSends
<1>2. ASSUME NEW d \in Devices, Work(d)  PROVE ConvergeInv'
  <2>1. CASE \E m \in Texts : SendText(d, m, "sent")  BY <2>1, SendTextConverges
  <2>2. CASE Mirror(d, TRUE)  BY <2>2, MirrorConverges
  <2>3. CASE \E m \in Texts, s \in {SentOk, Failed} : Resave(d, m, s)  BY <2>3, ResaveConverges
  <2>4. CASE Receive(d, TRUE)  BY <2>4, ReceiveConverges
  <2>5. CASE SendReadReceipts(d, TRUE)  BY <2>5, ReceiptsSentConverges
  <2>6. CASE DrainMarks(d)  BY <2>6, MarksConverge
  <2>7. CASE SendReadMarks(d, TRUE)  BY <2>7, MarksConverge
  <2>8. CASE Open(d, TRUE)  BY <2>8, OpenConverges
  <2> QED  BY <1>2, <2>1, <2>2, <2>3, <2>4, <2>5, <2>6, <2>7, <2>8 DEF Work
<1>3. ASSUME NEW d \in Devices, User(d)  PROVE ConvergeInv'
  <2>1. CASE Compose(d)  BY <2>1, ComposeConverges
  <2>2. ASSUME NEW m \in Texts, NEW o \in Outcomes, NEW at \in Times, SendEdit(d, m, at, o)
        PROVE  ConvergeInv'
    BY <2>2, SendEditConverges
  <2>3. ASSUME NEW m \in Texts, NEW o \in Outcomes, SendDelete(d, m, o)  PROVE ConvergeInv'
    BY <2>3, SendDeleteConverges
  <2>4. ASSUME NEW m \in Texts, NEW o \in Outcomes, NEW v \in {0, 1}, SendReaction(d, m, v, o)
        PROVE  ConvergeInv'
    BY <2>4, SendReactionConverges
  <2>5. CASE \E m \in Texts : HideForMe(d, m)  BY <2>5, HideConverges
  <2>6. CASE \E o \in Outcomes : SetTimer(d, o)  BY <2>6, TimerConverges
  <2>7. CASE \E upTo \in Sent : MarkMessagesRead(d, upTo)  BY <2>7, ReadingConverges
  <2> QED  BY <1>3, <2>1, <2>2, <2>3, <2>4, <2>5, <2>6, <2>7 DEF User
<1>4. ASSUME NEW d \in Devices, Mishap(d)  PROVE ConvergeInv'
  <2>1. CASE \E m \in Texts, o \in {"failed", "unconfirmed"} : SendText(d, m, o)
    BY <2>1, SendTextConverges
  <2>2. CASE Mirror(d, FALSE)  BY <2>2, MirrorConverges
  <2>3. CASE Receive(d, FALSE)  BY <2>3, LossConverges
  <2>4. CASE SendReadReceipts(d, FALSE)  BY <2>4, ReceiptsSentConverges
  <2>5. CASE SendReadMarks(d, FALSE)  BY <2>5, MarksConverge
  <2>6. CASE Exit(d)  BY <2>6, ExitConverges
  <2>7. CASE Open(d, FALSE)  BY <2>7, OpenConverges
  <2> QED  BY <1>4, <2>1, <2>2, <2>3, <2>4, <2>5, <2>6, <2>7 DEF Mishap
<1>5. ASSUME NEW d \in Devices, Reap(d)  PROVE ConvergeInv'
  BY <1>5, ExpiryConverges DEF Reap
<1> QED  BY <1>1, <1>2, <1>3, <1>4, <1>5 DEF Next

\* Each of two devices knows what the other shows: both show the same.
LEMMA ConvergedWhenQuiet == HistoryInv /\ ConvergeInv => DevicesConverge
<1> SUFFICES ASSUME HistoryInv, ConvergeInv, Quiet, NEW m \in Sent \ past.spoilt,
                    NEW d \in Devices, NEW e \in Devices,
                    store[d].row[m].has, store[e].row[m].has
             PROVE  /\ Shown(store[d].row[m]) = Shown(store[e].row[m])
                    /\ store[d].row[m].deleted \/ \A acct \in {Mine, Theirs} :
                          <<m, acct>> \in past.crossed
                          \/ store[d].react[m][acct] = store[e].react[m][acct]
  BY DEF DevicesConverge
<1>1. MessageFits(m) /\ m \in Texts  BY AuthorOf DEF ConvergeInv
<1>2. \A x \in Devices : Wire(x) = {} /\ lock[x] = NoOp  BY DEF Quiet, Free, Wire, ToSet
<1>3. \A x \in Devices : \A op \in Incoming(x) : op = NoOp
  BY <1>2, SiblingsAre DEF Incoming
<1>4. ASSUME NEW x \in Devices  PROVE \A op \in Incoming(x) : ~Change(op, m)
  BY <1>3 DEF NoOp, Change
<1>5. ASSUME NEW x \in Devices, NEW y \in Devices, store[x].row[m].has, store[y].row[m].has
      PROVE  /\ Level(store[x].row[m]) \in 0..Top /\ Level(store[y].row[m]) >= Level(store[x].row[m])
             /\ store[x].row[m].deleted <=> Level(store[x].row[m]) = Top
  <2>1. store[x].row[m] \in RowsType /\ store[y].row[m] \in RowsType
    BY <1>1 DEF HistoryInv, TypeOK, Stores
  <2>2. /\ Level(store[x].row[m]) \in -1..Top /\ Level(store[y].row[m]) \in -1..Top /\ Top \in Nat
        /\ store[x].row[m].deleted <=> Level(store[x].row[m]) = Top
    BY <2>1, LevelsAre
  <2>3. Level(store[x].row[m]) >= 0 /\ Level(store[y].row[m]) >= 0
    BY <1>1, <1>5 DEF ConvergeInv, DeviceFits, StoreFits
  <2>4. CASE Level(store[x].row[m]) = 0  BY <2>2, <2>3, <2>4
  <2>5. CASE Level(store[x].row[m]) # 0
    <3> DEFINE n == Level(store[x].row[m])
    <3>1. n \in 1..Top  BY <2>2, <2>3, <2>5
    <3>2. Says(x, m, n)  BY <1>5 DEF Says
    <3>3. Knows(y, m, n)  BY <1>1, <3>1, <3>2 DEF MessageFits, LevelsSpread
    <3>4. Level(store[y].row[m]) >= n  BY <1>4, <1>5, <3>3 DEF Knows
    <3> QED  BY <2>2, <2>3, <3>4
  <2> QED  BY <2>4, <2>5
<1>6. /\ Level(store[d].row[m]) = Level(store[e].row[m])
      /\ store[d].row[m].deleted <=> store[e].row[m].deleted
  <2>1. /\ Level(store[d].row[m]) \in 0..Top /\ Level(store[e].row[m]) >= Level(store[d].row[m])
        /\ store[d].row[m].deleted <=> Level(store[d].row[m]) = Top
    BY <1>5
  <2>2. /\ Level(store[e].row[m]) \in 0..Top /\ Level(store[d].row[m]) >= Level(store[e].row[m])
        /\ store[e].row[m].deleted <=> Level(store[e].row[m]) = Top
    BY <1>5
  <2>3. \A a, b \in 0..Top : a >= b /\ b >= a => a = b  BY BoundsAssumption DEF Top
  <2> QED  BY <2>1, <2>2, <2>3
<1>7. Shown(store[d].row[m]) = Shown(store[e].row[m])
  BY <1>6 DEF Shown, Level
<1>8. ASSUME ~store[d].row[m].deleted, NEW acct \in {Mine, Theirs}, <<m, acct>> \notin past.crossed
      PROVE  store[d].react[m][acct] = store[e].react[m][acct]
  <2>1. PICK v \in {0, 1} : \A x \in Devices : Counts(x, m) => SettlesOn(x, m, acct, v)
    BY <1>1, <1>8 DEF MessageFits, ReactionsSpread
  <2>2. \A x \in Devices : ~Held(x, m, acct) /\ ~Comes(x, m, acct)
    <3>1. ~Reacts(NoOp, m, acct)  BY DEF NoOp, Reacts
    <3> QED  BY <1>2, <3>1, SiblingsAre DEF Held, Comes
  <2>3. Counts(d, m) /\ Counts(e, m)  BY <1>6, <1>8 DEF Counts
  <2> QED  BY <2>1, <2>2, <2>3 DEF SettlesOn
<1> QED  BY <1>7, <1>8

(* Once all is delivered, every device that holds a message shows the same  *)
(* of it: the newest edit, in whatever order edits came, or the tombstone;  *)
(* and the same reactions, unless two devices of one account had reacted to *)
(* it before hearing of each other.  Excepted are messages an accident has  *)
(* spoilt.  (apply_edit, tombstone_message, apply_sync_sent,                *)
(* upsert_reaction)                                                        *)
THEOREM HistoriesConverge == Spec => []DevicesConverge
<1>1. HistoryInv /\ HistoryInv' /\ HeadsHonest /\ ConvergeInv /\ [Next]_vars => ConvergeInv'
  BY ConvergeKept
<1>2. HistoryInv /\ ConvergeInv => DevicesConverge  BY ConvergedWhenQuiet
<1> QED  BY <1>1, <1>2, ConvergeBegins, HistoryAlways, PTL DEF Spec
=============================================================================
