----------------------- MODULE MessageDeliveryProofs -----------------------
(***************************************************************************)
(* Proofs about MessageDelivery, for any number of messages, rows,         *)
(* sockets, restarts and faults:                                           *)
(*                                                                         *)
(*   - type correctness: every state variable keeps its type;              *)
(*   - IInv is inductive, hence NothingVanishes and OneRowPerCiphertext;   *)
(*   - MessageDelivery implements Mailbox, step by step;                   *)
(*   - the connection map never names a handler that has ended;            *)
(*   - without half-open paths and without faults, no row is stranded      *)
(*     while the app has a working socket;                                 *)
(*   - without faults and without the extension, a row is deleted only     *)
(*     once its message is durably on the device.                          *)
(*                                                                         *)
(* IInv has three parts that change for different reasons, so each action  *)
(* has up to three lemmas: one for the wires (frame ids, pending frames    *)
(* and acks), one for the desk (what the two processes hold and have       *)
(* saved), one for the accounts (NothingVanishes).  Most actions touch one *)
(* part only; the lemmas named ...Kept and ...Grows carry the others over. *)
(***************************************************************************)
EXTENDS MessageDelivery, SequenceTheorems, FiniteSetTheorems, TLAPS

USE DEF serverVars, netVars, appVars, extVars, storeVars, fateVars, boundVars

----------------------------------------------------------------------------
(* Types.  One lemma per action or group of like actions; the lemmas named  *)
(* Keep... carry over the parts an action leaves alone.                     *)

\* Every queue, channel, socket and store starts empty.
LEMMA TypeInit ==
  ASSUME Init
  PROVE  TypeOK
<1> USE BoundAssumption, NoSocketAssumption DEF Init
<1>1. ServerTypes  BY DEF ServerTypes, Rows, Sockets
<1>2. NetTypes  BY DEF NetTypes, Sockets
<1>3. AppTypes  BY DEF AppTypes
<1>4. ExtTypes  BY DEF ExtTypes, NoBatch, Items
<1>5. StoreTypes /\ FateTypes  BY DEF StoreTypes, FateTypes
<1> QED  BY <1>1, <1>2, <1>3, <1>4, <1>5 DEF TypeOK

(* The parts of the state an action leaves alone keep their types. *)

\* As long as no row is committed, "a row" means the same.
LEMMA RowsKept ==
  ASSUME UNCHANGED rowCt
  PROVE  Rows' = Rows /\ Items' = Items /\ Frames' = Frames
  BY DEF Rows, Items, Frames

\* A step that leaves the server's variables alone keeps their types.
LEMMA KeepServer == ServerTypes /\ UNCHANGED serverVars => ServerTypes'
  BY RowsKept DEF ServerTypes

\* So does one that leaves the network alone,
LEMMA KeepNet == NetTypes /\ UNCHANGED <<rowCt, netVars>> => NetTypes'
  BY RowsKept DEF NetTypes

\* the app,
LEMMA KeepApp == AppTypes /\ UNCHANGED <<rowCt, appVars>> => AppTypes'
  BY RowsKept DEF AppTypes

\* the extension,
LEMMA KeepExt == ExtTypes /\ UNCHANGED <<rowCt, extVars>> => ExtTypes'
  BY RowsKept DEF ExtTypes

\* the device store,
LEMMA KeepStore == StoreTypes /\ UNCHANGED <<rowCt, storeVars>> => StoreTypes'
  BY RowsKept DEF StoreTypes

\* or the bookkeeping of the model.
LEMMA KeepFate ==
  FateTypes /\ UNCHANGED <<rowCt, fateVars, boundVars>> => FateTypes'
  BY RowsKept DEF FateTypes

\* More rows, the old ones in place.
LEMMA RowsGrow ==
  ASSUME TypeOK, NEW c \in Ciphertexts, Enqueue(c)
  PROVE  /\ rowCt' \in Seq(Ciphertexts) /\ Len(rowCt') = Len(rowCt) + 1
         /\ Rows \subseteq Rows' /\ Len(rowCt) + 1 \in Rows'
         /\ Items \subseteq Items' /\ Frames \subseteq Frames'
         /\ \A r \in Rows : rowCt'[r] = rowCt[r]
  BY DEF TypeOK, ServerTypes, Enqueue, Rows, Items, Frames

\* send_messages commits a row: all the old rows are still rows.
LEMMA TypeEnqueue ==
  ASSUME TypeOK, NEW c \in Ciphertexts, Enqueue(c)
  PROVE  TypeOK'
<1> USE RowsGrow DEF TypeOK, Enqueue
<1>1. ServerTypes'
  <2>1. Seq(Rows) \subseteq Seq(Rows')  BY SeqMonotonic
  <2>2. pending \in [Sockets -> SUBSET Frames']  BY DEF ServerTypes
  <2>3. chan \in [Sockets -> Seq(Rows')]  BY <2>1 DEF ServerTypes
  <2>4. rowCt' \in Seq(Ciphertexts) /\ Len(rowCt') <= MaxRows
    BY BoundAssumption DEF ServerTypes
  <2>5. queue' \subseteq Rows' /\ toPush' \subseteq Rows'
    BY DEF ServerTypes
  <2> HIDE RowsGrow
  <2> QED  BY <2>2, <2>3, <2>4, <2>5 DEF ServerTypes
<1>2. NetTypes'
  <2>1. Seq(Frames) \subseteq Seq(Frames')  BY SeqMonotonic
  <2> QED  BY <2>1 DEF NetTypes
<1>3. AppTypes'  BY DEF AppTypes
<1>4. ExtTypes'  BY DEF ExtTypes
<1>5. StoreTypes' /\ FateTypes'  BY DEF StoreTypes, FateTypes
<1> QED  BY <1>1, <1>2, <1>3, <1>4, <1>5

\* A committed row is pushed, to a channel or the relay, or never will be.
LEMMA TypePush ==
  ASSUME TypeOK, NEW r \in toPush, SendAborts(r) \/ Push(r)
  PROVE  TypeOK'
<1> USE DEF TypeOK, SendAborts, Push, PushToSocket, PushWakeup
<1>1. ServerTypes'
  <2>1. r \in Rows  BY DEF ServerTypes
  <2>2. CASE UNCHANGED chan  BY <2>2, RowsKept DEF ServerTypes
  <2>3. CASE PushToSocket(r)
    <3>1. chan[registered] \in Seq(Rows)
      BY <2>3 DEF ServerTypes
    <3>2. Append(chan[registered], r) \in Seq(Rows)
      BY <2>1, <3>1
    <3> QED  BY <2>3, <3>2, RowsKept DEF ServerTypes
  <2> QED  BY <2>2, <2>3
<1>2. NetTypes' /\ AppTypes' /\ StoreTypes'  BY KeepNet, KeepApp, KeepStore
<1>3. ExtTypes'  BY RowsKept DEF ExtTypes
<1>4. FateTypes'  BY BoundAssumption, RowsKept DEF FateTypes, Fault
<1> QED  BY <1>1, <1>2, <1>3, <1>4

(* The server's steps. *)

\* A socket is registered and becomes the one the app reads.
LEMMA TypeConnect ==
  ASSUME TypeOK, NEW s \in Sockets, Connect(s)
  PROVE  TypeOK'
<1> USE DEF TypeOK, Connect
<1>1. ServerTypes'  BY RowsKept DEF ServerTypes
<1>2. AppTypes'  BY RowsKept, NoSocketAssumption DEF AppTypes, Sockets
<1>3. NetTypes' /\ ExtTypes' /\ StoreTypes' /\ FateTypes'
  BY KeepNet, KeepExt, KeepStore, KeepFate
<1> QED  BY <1>1, <1>2, <1>3

\* A listing of the queue is a sequence of rows.
LEMMA ListingType ==
  ASSUME TypeOK, NEW q \in FetchForDevice
  PROVE  /\ q \in Seq(Rows) /\ Cardinality(queue) \in Nat
         /\ Len(q) = Cardinality(queue) /\ \A i \in 1..Len(q) : q[i] \in queue
<1>1. IsFiniteSet(Rows)
  BY FS_Interval DEF Rows, TypeOK, ServerTypes
<1>2. IsFiniteSet(queue)
  BY <1>1, FS_Subset DEF TypeOK, ServerTypes
<1>3. Cardinality(queue) \in Nat
  BY <1>2, FS_CardinalityType
<1>4. q \in [1..Cardinality(queue) -> queue]
  BY DEF FetchForDevice, OldestFirst
<1>5. queue \subseteq Rows
  BY DEF TypeOK, ServerTypes
<1>6. q \in Seq(queue) /\ Len(q) = Cardinality(queue)
  BY <1>3, <1>4
<1>7. q \in Seq(Rows)
  BY <1>5, <1>6, SeqMonotonic
<1> QED  BY <1>3, <1>4, <1>6, <1>7

\* What the app will receive is a sequence of frames.
LEMMA TypeCarried ==
  ASSUME TypeOK, NEW s \in Sockets, NEW fs \in Seq(Frames)
  PROVE  Carried(s, fs) \in Seq(Frames)
<1>1. frames[s] \in Seq(Frames)
  BY DEF TypeOK, NetTypes
<1>2. frames[s] \o fs \in Seq(Frames)
  BY <1>1, ConcatProperties
<1> QED  BY <1>1, <1>2 DEF Carried

\* The drain sends one frame for each row of the listing.
LEMMA TypeDrain ==
  ASSUME TypeOK, NEW s \in Sockets, DrainOnConnect(s)
  PROVE  TypeOK'
<1>1. PICK q \in FetchForDevice :
        LET fs == [i \in 1..Len(q) |-> Frame(i, q[i])]
        IN  /\ frames' = [frames EXCEPT ![s] = Carried(s, fs)]
            /\ pending' = [pending EXCEPT ![s] = {fs[i] : i \in 1..Len(q)}]
            /\ sent' = [sent EXCEPT ![s] = Len(q)]
  BY DEF DrainOnConnect
<1> DEFINE fs == [i \in 1..Len(q) |-> Frame(i, q[i])]
<1>2. q \in Seq(Rows) /\ Len(q) \in Nat
  BY ListingType
<1>3. \A i \in 1..Len(q) : Frame(i, q[i]) \in Frames
  BY <1>2 DEF Frame, Frames
<1>4. fs \in Seq(Frames)
  BY <1>2, <1>3
<1>5. Carried(s, fs) \in Seq(Frames)
  BY <1>4, TypeCarried
<1>6. {fs[i] : i \in 1..Len(q)} \subseteq Frames
  BY <1>3
<1> HIDE DEF fs
<1>7. /\ frames' = [frames EXCEPT ![s] = Carried(s, fs)]
      /\ pending' = [pending EXCEPT ![s] = {fs[i] : i \in 1..Len(q)}]
      /\ sent' = [sent EXCEPT ![s] = Len(q)]
  BY <1>1 DEF fs
<1> USE DEF TypeOK, DrainOnConnect
<1>8. ServerTypes'
  <2>1. pending' \in [Sockets -> SUBSET Frames]
    BY <1>6, <1>7 DEF ServerTypes
  <2>2. sent' \in [Sockets -> Nat]
    BY <1>2, <1>7 DEF ServerTypes
  <2>3. UNCHANGED <<rowCt, queue, toPush, registered, chan>>
    BY DEF DrainOnConnect
  <2>4. handler' \in [Sockets -> {"unused", "draining", "serving", "ended"}]
    BY DEF ServerTypes
  <2> QED  BY <2>1, <2>2, <2>3, <2>4, RowsKept DEF ServerTypes
<1>9. NetTypes'  BY <1>5, <1>7, RowsKept DEF NetTypes
<1>10. AppTypes' /\ ExtTypes' /\ StoreTypes' /\ FateTypes'
  BY KeepApp, KeepExt, KeepStore, KeepFate
<1> QED  BY <1>8, <1>9, <1>10

\* A handler that could not read the queue serves undrained.
LEMMA TypeDrainSkipped ==
  ASSUME TypeOK, NEW s \in Sockets, DrainSkipped(s)
  PROVE  TypeOK'
<1> USE DEF TypeOK, DrainSkipped
<1>1. ServerTypes'  BY RowsKept DEF ServerTypes
<1>2. NetTypes' /\ AppTypes' /\ ExtTypes' /\ StoreTypes'
  BY KeepNet, KeepApp, KeepExt, KeepStore
<1>3. FateTypes'  BY BoundAssumption, RowsKept DEF FateTypes, Fault
<1> QED  BY <1>1, <1>2, <1>3

\* Closing handlers empties what was theirs.
LEMMA TypeClose ==
  ASSUME TypeOK, NEW S \in SUBSET Sockets, CloseHandlers(S),
         UNCHANGED <<rowCt, queue, link, frames>>,
         toPush' \subseteq toPush, registered' = NoSocket
  PROVE  ServerTypes' /\ NetTypes'
<1> USE DEF TypeOK, CloseHandlers, Without
<1>1. ServerTypes'
  <2>1. /\ handler' \in [Sockets -> {"unused", "draining", "serving", "ended"}]
        /\ sent' \in [Sockets -> Nat]
    BY DEF ServerTypes
  <2>2. chan' \in [Sockets -> Seq(Rows)]
    BY DEF ServerTypes
  <2>3. pending' \in [Sockets -> SUBSET Frames]
    BY DEF ServerTypes
  <2> QED  BY <2>1, <2>2, <2>3, RowsKept DEF ServerTypes
<1>2. NetTypes'
  <2>1. acks' \in [Sockets -> SUBSET Nat]
    BY DEF NetTypes
  <2> QED  BY <2>1, RowsKept DEF NetTypes
<1> QED  BY <1>1, <1>2

\* A socket ends while draining or serving.
LEMMA TypeEnds ==
  ASSUME TypeOK, NEW s \in Sockets, DrainFails(s) \/ EndSocket(s)
  PROVE  TypeOK'
<1> USE DEF TypeOK, DrainFails, EndSocket
<1>1. ServerTypes' /\ NetTypes'  BY TypeClose DEF RegisteredAfterEnd
<1>2. AppTypes' /\ ExtTypes' /\ StoreTypes' /\ FateTypes'
  BY KeepApp, KeepExt, KeepStore, KeepFate
<1> QED  BY <1>1, <1>2

\* A restart loses the server's memory.
LEMMA TypeRestart ==
  ASSUME TypeOK, ServerRestart
  PROVE  TypeOK'
<1> USE DEF TypeOK, ServerRestart
<1>1. ServerTypes' /\ NetTypes'  BY TypeClose
<1>2. AppTypes' /\ ExtTypes' /\ StoreTypes'
  BY KeepApp, KeepExt, KeepStore
<1>3. FateTypes'  BY BoundAssumption, RowsKept DEF FateTypes, Upset
<1> QED  BY <1>1, <1>2, <1>3

\* A row of the channel is sent as the next frame.
LEMMA TypeForward ==
  ASSUME TypeOK, NEW s \in Sockets, ForwardPush(s)
  PROVE  TypeOK'
<1> DEFINE fr == Frame(NextId(s), Head(chan[s]))
<1>1. /\ chan[s] \in Seq(Rows) /\ chan[s] # <<>> /\ sent[s] \in Nat
  BY DEF TypeOK, ServerTypes, ForwardPush
<1>2. Head(chan[s]) \in Rows /\ Tail(chan[s]) \in Seq(Rows)
  BY <1>1, HeadTailProperties
<1>3. fr \in Frames
  BY <1>1, <1>2 DEF Frame, Frames, NextId
<1>4. Carried(s, <<fr>>) \in Seq(Frames)
  <2>1. <<fr>> \in Seq(Frames)  BY <1>3
  <2> QED  BY <2>1, TypeCarried
<1>5. /\ frames' = [frames EXCEPT ![s] = Carried(s, <<fr>>)]
      /\ pending' = [pending EXCEPT ![s] = @ \cup {fr}]
  BY DEF ForwardPush
<1> HIDE DEF fr
<1> USE DEF TypeOK, ForwardPush
<1>6. ServerTypes'
  <2>1. pending' \in [Sockets -> SUBSET Frames]
    BY <1>3, <1>5 DEF ServerTypes
  <2>2. chan' \in [Sockets -> Seq(Rows)] /\ sent' \in [Sockets -> Nat]
    BY <1>1, <1>2 DEF ServerTypes
  <2> QED  BY <2>1, <2>2, RowsKept DEF ServerTypes
<1>7. NetTypes'  BY <1>4, <1>5, RowsKept DEF NetTypes
<1>8. AppTypes' /\ ExtTypes' /\ StoreTypes' /\ FateTypes'
  BY KeepApp, KeepExt, KeepStore, KeepFate
<1> QED  BY <1>6, <1>7, <1>8

\* An ack takes a pending frame and its row away.
LEMMA TypeHandleAck ==
  ASSUME TypeOK, NEW s \in Sockets, NEW i \in acks[s], HandleAck(s, i)
  PROVE  TypeOK'
<1> USE DEF TypeOK, HandleAck
<1>1. ServerTypes'
  <2>1. pending' \in [Sockets -> SUBSET Frames]
    BY DEF ServerTypes
  <2> QED  BY <2>1, RowsKept DEF ServerTypes
<1>2. NetTypes'  BY RowsKept DEF NetTypes
<1>3. AppTypes' /\ ExtTypes' /\ StoreTypes'
  BY KeepApp, KeepExt, KeepStore
<1>4. FateTypes'  BY RowsKept DEF FateTypes, ServerTypes
<1> QED  BY <1>1, <1>2, <1>3, <1>4

\* message_expiry takes a row away.
LEMMA TypeExpire ==
  ASSUME TypeOK, NEW r \in queue, ExpireRow(r)
  PROVE  TypeOK'
<1> USE DEF TypeOK, ExpireRow
<1>1. ServerTypes'  BY RowsKept DEF ServerTypes
<1>2. NetTypes' /\ AppTypes' /\ ExtTypes' /\ StoreTypes'
  BY KeepNet, KeepApp, KeepExt, KeepStore
<1>3. FateTypes'
  BY BoundAssumption, RowsKept DEF FateTypes, ServerTypes, Upset
<1> QED  BY <1>1, <1>2, <1>3

\* A dead path loses what it carried.
LEMMA TypeBreak ==
  ASSUME TypeOK, NEW s \in Sockets, BreakLink(s)
  PROVE  TypeOK'
<1> USE DEF TypeOK, BreakLink
<1>1. NetTypes'
  <2>1. <<>> \in Seq(Frames)  OBVIOUS
  <2> QED  BY <2>1, RowsKept DEF NetTypes
<1>2. ServerTypes' /\ AppTypes' /\ ExtTypes' /\ StoreTypes' /\ FateTypes'
  BY KeepServer, KeepApp, KeepExt, KeepStore, KeepFate
<1> QED  BY <1>1, <1>2

\* The server and the network.
LEMMA TypeServer ==
  ASSUME TypeOK, ServerNext
  PROVE  TypeOK'
<1>1. CASE \E c \in Ciphertexts : Enqueue(c)  BY <1>1, TypeEnqueue
<1>2. CASE \E r \in toPush : Push(r) \/ SendAborts(r)  BY <1>2, TypePush
<1>3. CASE \E s \in Sockets : Serve(s) \/ DrainSkipped(s) \/ BreakLink(s)
  BY <1>3, TypeDrain, TypeEnds, TypeForward, TypeHandleAck,
     TypeDrainSkipped, TypeBreak DEF Serve
<1>4. CASE \E r \in queue : ExpireRow(r)  BY <1>4, TypeExpire
<1>5. CASE ServerRestart  BY <1>5, TypeRestart
<1> QED  BY <1>1, <1>2, <1>3, <1>4, <1>5 DEF ServerNext

(* The app's steps. *)

\* What the app takes off its socket is a frame of a row.
LEMMA HeadFrame ==
  ASSUME TypeOK, NEW s \in Sockets, NextFrame(s)
  PROVE  /\ Head(frames[s]) \in Frames /\ NextCt(s) \in Ciphertexts
         /\ frames' \in [Sockets -> Seq(Frames)] /\ sock = s /\ work = Idle
<1>1. frames[s] \in Seq(Frames) /\ frames[s] # <<>>
  BY DEF TypeOK, NetTypes, NextFrame
<1>2. Head(frames[s]) \in Frames /\ Tail(frames[s]) \in Seq(Frames)
  BY <1>1, HeadTailProperties
<1>3. NextCt(s) \in Ciphertexts
  BY <1>2 DEF NextCt, Frames, Rows, TypeOK, ServerTypes
<1>4. frames' \in [Sockets -> Seq(Frames)]
  BY <1>2 DEF NextFrame, TypeOK, NetTypes
<1> QED  BY <1>2, <1>3, <1>4 DEF NextFrame

\* An ack is a frame id.
LEMMA TypeSendAck ==
  ASSUME TypeOK, NEW s \in Sockets, NEW i \in Nat, SendAck(s, i)
  PROVE  acks' \in [Sockets -> SUBSET Nat]
  BY DEF SendAck, TypeOK, NetTypes

\* A decrypted frame is the work in hand.
LEMMA TypeTakeDecrypts ==
  ASSUME TypeOK, NEW s \in Sockets, TakeDecrypts(s)
  PROVE  TypeOK'
<1>1. NextFrame(s)  BY DEF TakeDecrypts
<1>2. Item(Head(frames[s]).row, Head(frames[s]).id) \in Items
  BY <1>1, HeadFrame DEF Item, Items, Frames
<1> USE DEF TypeOK, TakeDecrypts
<1>3. ServerTypes' /\ ExtTypes' /\ FateTypes'
  BY KeepServer, KeepExt, KeepFate
<1>4. NetTypes'  BY <1>1, HeadFrame, RowsKept DEF NetTypes
<1>5. AppTypes'
  BY <1>1, <1>2, HeadFrame, RowsKept, NoSocketAssumption DEF AppTypes, Sockets
<1>6. StoreTypes'
  BY <1>1, HeadFrame, RowsKept DEF StoreTypes, Advanced
<1> QED  BY <1>3, <1>4, <1>5, <1>6

\* A frame that does not decrypt is acked to skip.
LEMMA TypeTakeSkips ==
  ASSUME TypeOK, NEW s \in Sockets, TakeDuplicate(s) \/ TakeFails(s)
  PROVE  TypeOK'
<1>1. NextFrame(s)  BY DEF TakeDuplicate, TakeFails
<1>2. Head(frames[s]).id \in Nat /\ Head(frames[s]).row \in Rows
  BY <1>1, HeadFrame DEF Frames
<1> USE DEF TypeOK, TakeDuplicate, TakeFails
<1>3. ServerTypes' /\ AppTypes' /\ ExtTypes' /\ StoreTypes'
  BY KeepServer, KeepApp, KeepExt, KeepStore
<1>4. acks' \in [Sockets -> SUBSET Nat]  BY <1>2, TypeSendAck
<1>5. NetTypes'  BY <1>1, <1>4, HeadFrame, RowsKept DEF NetTypes
<1>6. FateTypes'
  BY <1>2, BoundAssumption, RowsKept DEF FateTypes, Fault
<1> QED  BY <1>3, <1>4, <1>5, <1>6

\* The work in hand is saved, or its write fails.
LEMMA TypePersist ==
  ASSUME TypeOK, Persist \/ PersistFails
  PROVE  TypeOK'
<1>1. work \in Items /\ sock # NoSocket
  BY DEF Persist, PersistFails, Idle, TypeOK, AppTypes
<1>2. work.row \in Rows /\ rowCt[work.row] \in Ciphertexts
  BY <1>1 DEF Items, Rows, TypeOK, ServerTypes
<1>3. Done(work) \in Items
  BY <1>1 DEF Done, Items
<1> USE DEF TypeOK, Persist, PersistFails
<1>4. ServerTypes' /\ NetTypes' /\ ExtTypes'
  BY KeepServer, KeepNet, KeepExt
<1>5. AppTypes'  BY <1>1, <1>3, RowsKept DEF AppTypes
<1>6. StoreTypes'  BY <1>2, RowsKept DEF StoreTypes, SavedHistory
<1>7. FateTypes'  BY <1>2, BoundAssumption, RowsKept DEF FateTypes, Fault
<1> QED  BY <1>4, <1>5, <1>6, <1>7

\* A finished delivery is acked.
LEMMA TypeAckDelivery ==
  ASSUME TypeOK, AckDelivery
  PROVE  TypeOK'
<1>1. work \in Items /\ sock \in Sockets
  BY DEF AckDelivery, Idle, TypeOK, AppTypes
<1>2. acks' \in [Sockets -> SUBSET Nat]
  BY <1>1, TypeSendAck DEF AckDelivery, Items
<1> USE DEF TypeOK, AckDelivery
<1>3. ServerTypes' /\ ExtTypes' /\ StoreTypes' /\ FateTypes'
  BY KeepServer, KeepExt, KeepStore, KeepFate
<1>4. NetTypes'  BY <1>2, RowsKept DEF NetTypes
<1>5. AppTypes'  BY RowsKept DEF AppTypes
<1> QED  BY <1>3, <1>4, <1>5

\* The loop leaves its socket, or the app is killed.
LEMMA TypeLeaves ==
  ASSUME TypeOK, LeaveSocket \/ AppKilled
  PROVE  TypeOK'
<1>1. <<>> \in Seq(Frames)  OBVIOUS
<1> USE DEF TypeOK, LeaveSocket, AppKilled
<1>2. ServerTypes' /\ ExtTypes' /\ StoreTypes'
  BY KeepServer, KeepExt, KeepStore
<1>3. NetTypes'  BY <1>1, RowsKept DEF NetTypes
<1>4. AppTypes'  BY RowsKept DEF AppTypes, MayLeave
<1>5. FateTypes'
  BY BoundAssumption, RowsKept DEF FateTypes, Fault, Abandoned
<1> QED  BY <1>2, <1>3, <1>4, <1>5

\* Backgrounding and resuming change the app state only.
LEMMA TypeBackground ==
  ASSUME TypeOK, EnterBackground \/ Suspend \/ Resume
  PROVE  TypeOK'
<1> USE DEF TypeOK, EnterBackground, Suspend, Resume
<1>1. ServerTypes' /\ NetTypes' /\ ExtTypes' /\ StoreTypes'
  BY KeepServer, KeepNet, KeepExt, KeepStore
<1>2. AppTypes'  BY RowsKept DEF AppTypes
<1>3. FateTypes'  BY BoundAssumption, RowsKept DEF FateTypes, Upset
<1> QED  BY <1>1, <1>2, <1>3

\* The app.
LEMMA TypeApp ==
  ASSUME TypeOK, AppNext
  PROVE  TypeOK'
  BY TypeConnect, TypeTakeDecrypts, TypeTakeSkips, TypePersist,
     TypeAckDelivery, TypeLeaves, TypeBackground DEF AppNext, Receive

(* The extension's steps. *)

\* The extension takes the next message of its batch.
LEMMA TypeExtTurn ==
  ASSUME TypeOK, NEW r \in ext.left,
         ExtDecrypts(r) \/ ExtDuplicate(r) \/ ExtFails(r)
  PROVE  TypeOK'
<1>1. r \in Rows /\ rowCt[r] \in Ciphertexts
  BY DEF Rows, TypeOK, ServerTypes, ExtTypes
<1>2. Item(r, 0) \in Items
  BY <1>1 DEF Item, Items
<1> USE DEF TypeOK, ExtDecrypts, ExtDuplicate, ExtFails
<1>3. ServerTypes' /\ NetTypes' /\ AppTypes'
  BY KeepServer, KeepNet, KeepApp
<1>4. ExtTypes'  BY <1>2, RowsKept DEF ExtTypes
<1>5. StoreTypes'  BY <1>1, RowsKept DEF StoreTypes, Advanced
<1>6. FateTypes'  BY <1>1, BoundAssumption, RowsKept DEF FateTypes, Fault
<1> QED  BY <1>3, <1>4, <1>5, <1>6

\* The extension saves the message in hand, or fails to.
LEMMA TypeExtPersist ==
  ASSUME TypeOK, ExtPersist \/ ExtPersistFails
  PROVE  TypeOK'
<1>1. ext.hand \in Items
  BY DEF ExtPersist, ExtPersistFails, Idle, TypeOK, ExtTypes
<1>2. ext.hand.row \in Rows /\ rowCt[ext.hand.row] \in Ciphertexts
  BY <1>1 DEF Items, Rows, TypeOK, ServerTypes
<1> USE DEF TypeOK, ExtPersist, ExtPersistFails
<1>3. ServerTypes' /\ NetTypes' /\ AppTypes'
  BY KeepServer, KeepNet, KeepApp
<1>4. ExtTypes'  BY RowsKept DEF ExtTypes
<1>5. StoreTypes'  BY <1>2, RowsKept DEF StoreTypes, SavedHistory
<1>6. FateTypes'  BY <1>2, BoundAssumption, RowsKept DEF FateTypes, Fault
<1> QED  BY <1>3, <1>4, <1>5, <1>6

\* The extension polls, acks its batch, or is killed.
LEMMA TypeExtEnds ==
  ASSUME TypeOK, ExtFetch \/ ExtAck \/ ExtKilled
  PROVE  TypeOK'
<1> USE DEF TypeOK, ExtFetch, ExtAck, ExtKilled
<1>1. queue' \subseteq queue  BY DEF BatchAcked
<1>2. ServerTypes'  BY <1>1, RowsKept DEF ServerTypes
<1>3. NetTypes' /\ AppTypes' /\ StoreTypes'
  BY KeepNet, KeepApp, KeepStore
<1>4. ExtTypes'
  <2>1. /\ \A q \in SUBSET Rows :
              [batch |-> q, left |-> q, hand |-> Idle] \in
                [batch : SUBSET Rows, left : SUBSET Rows, hand : {Idle} \cup Items]
        /\ NoBatch \in
              [batch : SUBSET Rows, left : SUBSET Rows, hand : {Idle} \cup Items]
    BY DEF NoBatch
  <2>2. CASE ExtFetch  BY <2>1, <2>2, RowsKept DEF ExtTypes, ServerTypes
  <2>3. CASE ext' = NoBatch /\ UNCHANGED <<rowCt, wake>>
    BY <2>1, <2>3, RowsKept DEF ExtTypes, NoBatch
  <2> QED  BY <2>2, <2>3
<1>5. FateTypes'
  BY BoundAssumption, RowsKept DEF FateTypes, ServerTypes, Fault, Abandoned
<1> QED  BY <1>2, <1>3, <1>4, <1>5

\* The extension.
LEMMA TypeExt ==
  ASSUME TypeOK, ExtNext
  PROVE  TypeOK'
  BY TypeExtTurn, TypeExtPersist, TypeExtEnds DEF ExtNext, ExtTurn

\* Every state variable keeps its type in every behaviour, whatever fails.
THEOREM TypeCorrect == Spec => []TypeOK
<1>1. Init => TypeOK  BY TypeInit
<1>2. TypeOK /\ [Next]_vars => TypeOK'
  <2>1. CASE UNCHANGED vars
    BY <2>1, KeepServer, KeepNet, KeepApp, KeepExt, KeepStore, KeepFate
       DEF vars, TypeOK
  <2>2. CASE Next
    BY <2>2, TypeServer, TypeApp, TypeExt DEF Next
  <2> QED  BY <2>1, <2>2
<1> QED  BY <1>1, <1>2, PTL DEF Spec

----------------------------------------------------------------------------
(* Safety *)

Wires == \A s \in Sockets : Wire(s)

(* What carries over when an action does not touch a part of IInv. *)

\* A row handled once stays handled.
LEMMA HandledGrows ==
  ASSUME TypeOK, UNCHANGED rowCt \/ (\E c \in Ciphertexts : Enqueue(c)),
         consumed \subseteq consumed', skipped \subseteq skipped'
  PROVE  \A r \in Rows : Handled(r) => Handled(r)'
<1>1. \A r \in Rows : rowCt'[r] = rowCt[r]  BY RowsGrow
<1> QED  BY <1>1 DEF Handled

\* A wire whose handler is where it was, whose frames and pending frames are
\* no more than they were, and whose only new acks are for handled frames that
\* were in flight, stays right.
LEMMA WireKept ==
  ASSUME TypeOK, NEW s \in Sockets, Wire(s),
         handler'[s] = handler[s], sent'[s] = sent[s],
         InFlight(s)' \subseteq InFlight(s), pending'[s] \subseteq pending[s],
         \A i \in acks'[s] :
            \/ i \in acks[s]
            \/ Live(s) /\ \E fr \in InFlight(s) : fr.id = i /\ Handled(fr.row)',
         \A r \in Rows : Handled(r) => Handled(r)'
  PROVE  Wire(s)'
<1>1. \A p \in pending[s] : p.row \in Rows
  BY DEF TypeOK, ServerTypes, Frames
<1>2. handler'[s] \in {"unused", "draining"} => InFlight(s)' = {}
  BY DEF Wire
<1>3. handler'[s] # "serving" => pending'[s] = {} /\ acks'[s] = {}
  BY DEF Wire, Live
<1>4. handler'[s] = "serving" =>
         /\ \A fr \in InFlight(s)' \cup pending'[s] : fr.id <= sent'[s]
         /\ \A i \in acks'[s] : i <= sent'[s]
  BY DEF Wire
<1>5. \A fr \in InFlight(s)', p \in pending'[s] :
         fr.id = p.id => fr.row = p.row
  BY DEF Wire
<1>6. \A p \in pending'[s] : p.id \in acks'[s] => Handled(p.row)'
  BY <1>1 DEF Wire
<1> QED  BY <1>2, <1>3, <1>4, <1>5, <1>6 DEF Wire

\* A step that leaves the wires and the app alone.
LEMMA WiresKept ==
  ASSUME TypeOK, Wires, UNCHANGED <<handler, sent, pending, frames, acks>>,
         UNCHANGED <<sock, work>>,
         \A r \in Rows : Handled(r) => Handled(r)'
  PROVE  Wires'
<1>1. ASSUME NEW s \in Sockets  PROVE  Wire(s)'
  <2>1. InFlight(s)' = InFlight(s)  BY DEF InFlight
  <2> QED  BY <2>1, WireKept DEF Wires
<1> QED  BY <1>1 DEF Wires

\* A step that leaves the device store and what is in hand alone.
LEMMA DeskKept ==
  ASSUME TypeOK, Desk,
         UNCHANGED rowCt \/ (\E c \in Ciphertexts : Enqueue(c)),
         UNCHANGED <<work, ext, consumed, history>>, skipped \subseteq skipped'
  PROVE  Desk'
<1>1. \A r \in Rows : rowCt'[r] = rowCt[r]  BY RowsGrow
<1>2. work # Idle => work.row \in Rows
  BY DEF TypeOK, AppTypes, Items
<1>3. ext.hand # Idle => ext.hand.row \in Rows
  BY DEF TypeOK, ExtTypes, Items
<1>4. history \subseteq Rows /\ ext.batch \subseteq Rows
  BY DEF TypeOK, StoreTypes, ExtTypes
<1>5. \A r \in Rows : Handled(r) => Handled(r)'
  BY HandledGrows
<1>6. \A c : Stored(c)' <=> Stored(c)
  BY <1>1, <1>4 DEF Stored
<1>7. \A c : /\ Holds(work, c)' <=> Holds(work, c)
             /\ Holds(ext.hand, c)' <=> Holds(ext.hand, c)
  BY <1>1, <1>2, <1>3 DEF Holds, Idle
<1> QED
  BY <1>1, <1>2, <1>3, <1>4, <1>5, <1>6, <1>7 DEF Desk, InHand

\* A step that saves nothing, lets go of a message only by losing it, and
\* takes only handled or expired rows off the queue.
LEMMA AccountsKept ==
  ASSUME TypeOK, NothingVanishes, OneRowPerCiphertext,
         UNCHANGED <<rowCt, consumed, history>>,
         skipped \subseteq skipped', killed \subseteq killed',
         unsaved \subseteq unsaved', expired \subseteq expired',
         \A c : InHand(c) => InHand(c)' \/ c \in killed' \cup unsaved',
         \A r \in queue \ queue' : Handled(r) \/ r \in expired'
  PROVE  NothingVanishes' /\ OneRowPerCiphertext'
<1>1. Rows' = Rows /\ \A r \in Rows : Handled(r) => Handled(r)'
  BY RowsKept, HandledGrows
<1>2. RowsAccounted'
  BY <1>1 DEF NothingVanishes, RowsAccounted
<1>3. \A c : Kept(c) => Kept(c)'
  BY DEF Kept, Stored
<1>4. OpenedAccounted'
  BY <1>3 DEF NothingVanishes, OpenedAccounted
<1>5. OneRowPerCiphertext'
  BY DEF OneRowPerCiphertext
<1> QED  BY <1>2, <1>4, <1>5 DEF NothingVanishes

\* A step of the server, the network or the platform needs a look at its
\* wires and at the rows it takes off the queue only.
LEMMA OutsideStep ==
  ASSUME IInv, TypeOK', Wires',
         UNCHANGED <<rowCt, work, ext, consumed, history>>,
         skipped \subseteq skipped', killed \subseteq killed',
         unsaved \subseteq unsaved', expired \subseteq expired',
         \A r \in queue \ queue' : Handled(r) \/ r \in expired'
  PROVE  IInv'
<1>1. Desk'  BY DeskKept DEF IInv
<1>2. NothingVanishes' /\ OneRowPerCiphertext'
  BY AccountsKept DEF IInv, InHand, Holds
<1> QED  BY <1>1, <1>2 DEF IInv, Wires

(* The server's steps. *)

\* The new row is in the queue; every other row is what it was.
LEMMA SafeEnqueue ==
  ASSUME IInv, NEW c \in Ciphertexts, Enqueue(c)
  PROVE  IInv'
<1>1. TypeOK /\ TypeOK' /\ Wires /\ Desk /\ NothingVanishes
  BY TypeEnqueue DEF IInv, Wires
<1>2. \A r \in Rows : Handled(r) => Handled(r)'
  BY <1>1, HandledGrows DEF Enqueue
<1>3. Wires'
  BY <1>1, <1>2, WiresKept DEF Enqueue
<1>4. Desk'
  BY <1>1, DeskKept DEF Enqueue
<1>5. /\ \A r \in Rows : rowCt'[r] = rowCt[r]
      /\ \A r \in Rows' : r \in Rows \/ r \in queue'
  BY <1>1, RowsGrow DEF Enqueue, Rows, TypeOK, ServerTypes
<1>6. RowsAccounted'
  BY <1>1, <1>2, <1>5 DEF NothingVanishes, RowsAccounted, Enqueue
<1>7. history \subseteq Rows /\ history' = history
  BY <1>1 DEF TypeOK, StoreTypes, Enqueue
<1>8. OneRowPerCiphertext'
  BY <1>5, <1>7 DEF IInv, OneRowPerCiphertext
<1>9. OpenedAccounted'
  <2>1. \A d : Stored(d) => Stored(d)'
    BY <1>5, <1>7 DEF Stored
  <2>2. \A d : Holds(work, d) => Holds(work, d)'
    <3>1. work = Idle \/ work.row \in Rows
      BY <1>1 DEF TypeOK, AppTypes, Items
    <3>2. UNCHANGED <<work, ext>>  BY DEF Enqueue
    <3> QED  BY <1>5, <3>1, <3>2 DEF Holds, Idle
  <2>3. \A d : Holds(ext.hand, d) => Holds(ext.hand, d)'
    <3>1. ext.hand = Idle \/ ext.hand.row \in Rows
      BY <1>1 DEF TypeOK, ExtTypes, Items
    <3>2. UNCHANGED <<work, ext>>  BY DEF Enqueue
    <3> QED  BY <1>5, <3>1, <3>2 DEF Holds, Idle
  <2> QED
    BY <1>1, <2>1, <2>2, <2>3
       DEF NothingVanishes, OpenedAccounted, Kept, InHand, Enqueue
<1> QED
  BY <1>1, <1>3, <1>4, <1>6, <1>8, <1>9 DEF IInv, Wires, NothingVanishes

\* Pushes do not touch a wire until a handler forwards them.
LEMMA SafePush ==
  ASSUME IInv, NEW r \in toPush, SendAborts(r) \/ Push(r)
  PROVE  IInv'
<1> USE DEF SendAborts, Push, PushToSocket, PushWakeup
<1>1. TypeOK' /\ TypeOK /\ Wires  BY TypePush DEF IInv, Wires
<1>2. \A q \in Rows : Handled(q) => Handled(q)'  BY <1>1, HandledGrows
<1>3. Wires'  BY <1>1, <1>2, WiresKept
<1> QED  BY <1>1, <1>3, OutsideStep

\* A new socket has nothing in flight: the app is idle when it connects.
LEMMA SafeConnect ==
  ASSUME IInv, NEW s \in Sockets, Connect(s)
  PROVE  IInv'
<1> USE DEF Connect
<1>1. TypeOK' /\ TypeOK /\ Wires  BY TypeConnect DEF IInv, Wires
<1>2. \A r \in Rows : Handled(r) => Handled(r)'  BY <1>1, HandledGrows
<1>3. work = Idle /\ work' = Idle  BY <1>1 DEF TypeOK, AppTypes
<1>4. ASSUME NEW t \in Sockets  PROVE  InFlight(t)' \subseteq InFlight(t)
  BY <1>3 DEF InFlight
<1>5. ASSUME NEW t \in Sockets, t # s  PROVE  Wire(t)'
  <2>1. handler'[t] = handler[t]  BY <1>1, <1>5 DEF TypeOK, ServerTypes
  <2> QED  BY <1>1, <1>2, <1>4, <2>1, WireKept DEF Wires
<1>6. Wire(s)'
  <2>1. handler'[s] = "draining"  BY <1>1 DEF TypeOK, ServerTypes
  <2>2. InFlight(s)' = {} /\ pending'[s] = {} /\ acks'[s] = {}
    BY <1>1, <1>4 DEF Wires, Wire
  <2> QED  BY <2>1, <2>2 DEF Wire
<1>7. Wires'  BY <1>5, <1>6 DEF Wires
<1> QED  BY <1>1, <1>7, OutsideStep

\* The frames of a drain carry the ids 1, 2, ... and nothing was in flight.
LEMMA SafeDrain ==
  ASSUME IInv, NEW s \in Sockets, DrainOnConnect(s)
  PROVE  IInv'
<1>1. TypeOK' /\ TypeOK /\ Wires  BY TypeDrain DEF IInv, Wires
<1>2. PICK q \in FetchForDevice :
        LET fs == [i \in 1..Len(q) |-> Frame(i, q[i])]
        IN  /\ frames' = [frames EXCEPT ![s] = Carried(s, fs)]
            /\ pending' = [pending EXCEPT ![s] = {fs[i] : i \in 1..Len(q)}]
            /\ sent' = [sent EXCEPT ![s] = Len(q)]
  BY DEF DrainOnConnect
<1> DEFINE Drained == {Frame(i, q[i]) : i \in 1..Len(q)}
<1>3. Len(q) \in Nat  BY <1>1, ListingType
<1>4. pending'[s] = Drained /\ sent'[s] = Len(q)
  BY <1>1, <1>2 DEF TypeOK, ServerTypes
<1>5. /\ handler'[s] = "serving" /\ acks'[s] = {} /\ InFlight(s) = {}
  BY <1>1 DEF DrainOnConnect, TypeOK, ServerTypes, Wires, Wire
<1>6. InFlight(s)' \subseteq Drained
  <2> DEFINE fs == [i \in 1..Len(q) |-> Frame(i, q[i])]
  <2>1. frames'[s] = Carried(s, fs)
    BY <1>1, <1>2 DEF TypeOK, NetTypes
  <2>2. frames[s] = <<>> /\ ~(sock = s /\ work # Idle)
    <3>1. frames[s] \in Seq(Frames)  BY <1>1 DEF TypeOK, NetTypes
    <3>2. \A i \in DOMAIN frames[s] : frames[s][i] \in InFlight(s)
      BY DEF InFlight
    <3>3. Len(frames[s]) = 0
      <4> SUFFICES ASSUME Len(frames[s]) # 0  PROVE FALSE  OBVIOUS
      <4>1. 1 \in DOMAIN frames[s]  BY <3>1
      <4> QED  BY <1>5, <3>2, <4>1
    <3>4. frames[s] = <<>>  BY <3>1, <3>3, EmptySeq
    <3> QED  BY <1>5, <3>4 DEF InFlight
  <2>3. frames'[s] \in {fs, <<>>}
    <3>1. fs \in Seq(Frames)
      BY <1>1, ListingType DEF Frame, Frames
    <3>2. <<>> \o fs = fs  BY <3>1
    <3> HIDE DEF fs
    <3> QED  BY <2>1, <2>2, <3>2 DEF Carried
  <2>4. \A i \in DOMAIN frames'[s] : frames'[s][i] \in Drained
    BY <1>3, <2>3
  <2>5. ~(sock = s /\ work # Idle)'
    BY <2>2 DEF DrainOnConnect
  <2> HIDE DEF Drained
  <2> QED  BY <2>4, <2>5 DEF InFlight
<1>7. Wire(s)'
  <2>1. \A fr \in Drained : fr.id <= Len(q) /\ fr.id \in 1..Len(q) /\ fr.row = q[fr.id]
    BY <1>3 DEF Frame
  <2> HIDE DEF Drained
  <2> QED  BY <1>4, <1>5, <1>6, <2>1 DEF Wire
<1>8. \A r \in Rows : Handled(r) => Handled(r)'
  BY <1>1, HandledGrows DEF DrainOnConnect
<1>9. ASSUME NEW t \in Sockets, t # s  PROVE  Wire(t)'
  <2>1. /\ handler'[t] = handler[t] /\ frames'[t] = frames[t]
        /\ pending'[t] = pending[t] /\ sent'[t] = sent[t]
    BY <1>1, <1>2, <1>9 DEF DrainOnConnect, TypeOK, ServerTypes, NetTypes
  <2>2. InFlight(t)' = InFlight(t) /\ acks'[t] = acks[t]
    BY <2>1 DEF InFlight, DrainOnConnect
  <2> QED  BY <1>1, <1>8, <2>1, <2>2, WireKept DEF Wires
<1>10. Wires'  BY <1>7, <1>9 DEF Wires
<1> QED
  BY <1>1, <1>10, OutsideStep
     DEF DrainOnConnect

\* Serving undrained: still nothing in flight on the socket.
LEMMA SafeDrainSkipped ==
  ASSUME IInv, NEW s \in Sockets, DrainSkipped(s)
  PROVE  IInv'
<1> USE DEF DrainSkipped
<1>1. TypeOK' /\ TypeOK /\ Wires  BY TypeDrainSkipped DEF IInv, Wires
<1>2. \A r \in Rows : Handled(r) => Handled(r)'  BY <1>1, HandledGrows
<1>3. \A t \in Sockets : InFlight(t)' = InFlight(t)  BY DEF InFlight
<1>4. ASSUME NEW t \in Sockets, t # s  PROVE  Wire(t)'
  <2>1. handler'[t] = handler[t]  BY <1>1, <1>4 DEF TypeOK, ServerTypes
  <2> QED  BY <1>1, <1>2, <1>3, <2>1, WireKept DEF Wires
<1>5. Wire(s)'
  <2>1. handler'[s] = "serving"  BY <1>1 DEF TypeOK, ServerTypes
  <2>2. InFlight(s)' = {} /\ pending'[s] = {} /\ acks'[s] = {}
    BY <1>1, <1>3 DEF Wires, Wire
  <2> QED  BY <2>1, <2>2 DEF Wire
<1>6. Wires'  BY <1>4, <1>5 DEF Wires
<1> QED  BY <1>1, <1>6, OutsideStep

\* A closed handler has neither pending frames nor acks to read.
LEMMA WiresClosed ==
  ASSUME TypeOK, Wires, NEW S \in SUBSET Sockets, CloseHandlers(S),
         UNCHANGED <<rowCt, frames, sock, work, consumed, skipped>>
  PROVE  Wires'
<1> USE DEF CloseHandlers, Without
<1>1. \A r \in Rows : Handled(r) => Handled(r)'  BY HandledGrows
<1>2. \A t \in Sockets : InFlight(t)' = InFlight(t)  BY DEF InFlight
<1>3. ASSUME NEW t \in Sockets, t \in S  PROVE  Wire(t)'
  <2>1. handler'[t] = "ended" /\ pending'[t] = {} /\ acks'[t] = {}
    BY <1>3
  <2> HIDE DEF CloseHandlers
  <2> QED  BY <2>1 DEF Wire
<1>4. ASSUME NEW t \in Sockets, t \notin S  PROVE  Wire(t)'
  <2>1. /\ handler'[t] = handler[t] /\ sent'[t] = sent[t]
        /\ pending'[t] = pending[t] /\ acks'[t] = acks[t]
    BY <1>4
  <2> HIDE DEF CloseHandlers
  <2> QED  BY <1>1, <1>2, <2>1, WireKept DEF Wires
<1> QED  BY <1>3, <1>4 DEF Wires

\* A socket ends, or the server restarts.
LEMMA SafeEnds ==
  ASSUME IInv, (\E s \in Sockets : DrainFails(s) \/ EndSocket(s))
               \/ ServerRestart
  PROVE  IInv'
<1> USE DEF DrainFails, EndSocket, ServerRestart
<1>1. TypeOK' /\ TypeOK /\ Wires
  BY TypeEnds, TypeRestart DEF IInv, Wires
<1>2. PICK S \in SUBSET Sockets : CloseHandlers(S)
  OBVIOUS
<1>3. Wires'  BY <1>1, <1>2, WiresClosed
<1> QED  BY <1>1, <1>3, OutsideStep

\* A pushed row takes the next id, which nothing in flight or pending has.
LEMMA SafeForward ==
  ASSUME IInv, NEW s \in Sockets, ForwardPush(s)
  PROVE  IInv'
<1>1. TypeOK' /\ TypeOK /\ Wires  BY TypeForward DEF IInv, Wires
<1> DEFINE fr == Frame(NextId(s), Head(chan[s]))
<1>2. /\ frames' = [frames EXCEPT ![s] = Carried(s, <<fr>>)]
      /\ pending' = [pending EXCEPT ![s] = @ \cup {fr}]
      /\ sent' = [sent EXCEPT ![s] = @ + 1]
  BY DEF ForwardPush
<1>3. fr.id = sent[s] + 1 /\ sent[s] \in Nat
  BY <1>1 DEF Frame, NextId, TypeOK, ServerTypes
<1> HIDE DEF fr
<1>4. /\ pending'[s] = pending[s] \cup {fr} /\ sent'[s] = sent[s] + 1
      /\ handler'[s] = "serving" /\ handler[s] = "serving"
      /\ acks'[s] = acks[s]
  BY <1>1, <1>2 DEF ForwardPush, TypeOK, ServerTypes
<1>5. InFlight(s)' \subseteq InFlight(s) \cup {fr}
  <2>1. frames[s] \in Seq(Frames)  BY <1>1 DEF TypeOK, NetTypes
  <2>2. frames'[s] \in {frames[s] \o <<fr>>, frames[s]}
    BY <1>1, <1>2 DEF TypeOK, NetTypes, Carried
  <2>3. \A i \in DOMAIN frames'[s] :
           frames'[s][i] \in {frames[s][j] : j \in DOMAIN frames[s]} \cup {fr}
    BY <2>1, <2>2
  <2> QED  BY <2>3 DEF InFlight, ForwardPush
<1>6. \A r \in Rows : Handled(r) => Handled(r)'
  BY <1>1, HandledGrows DEF ForwardPush
<1>7. Wire(s)'
  <2>1. Wire(s)  BY <1>1 DEF Wires
  <2>2. \A f \in InFlight(s)' \cup pending'[s] : f.id <= sent'[s]
    <3>1. \A f \in InFlight(s) \cup pending[s] : f.id <= sent[s] /\ f.id \in Nat
      <4>1. \A f \in pending[s] : f.id \in Nat
        BY <1>1 DEF TypeOK, ServerTypes, Frames
      <4>2. \A f \in InFlight(s) : f.id \in Nat
        <5>1. \A j \in DOMAIN frames[s] : frames[s][j].id \in Nat
          <6>1. frames[s] \in Seq(Frames)  BY <1>1 DEF TypeOK, NetTypes
          <6>2. \A j \in DOMAIN frames[s] : frames[s][j] \in Frames  BY <6>1
          <6> QED  BY <6>2 DEF Frames
        <5>2. work # Idle => Frame(work.id, work.row).id \in Nat
          BY <1>1 DEF TypeOK, AppTypes, Items, Frame
        <5> QED  BY <5>1, <5>2 DEF InFlight
      <4> QED  BY <1>4, <2>1, <4>1, <4>2 DEF Wire
    <3> QED  BY <1>3, <1>4, <1>5, <3>1
  <2>3. \A i \in acks'[s] : i <= sent'[s] /\ i # fr.id
    BY <1>1, <1>3, <1>4, <2>1 DEF Wire, TypeOK, NetTypes
  <2>4. \A f \in InFlight(s) \cup pending[s] : f.id # fr.id
    BY <1>3, <1>4, <2>1 DEF Wire
  <2>5. \A f \in InFlight(s)', p \in pending'[s] : f.id = p.id => f.row = p.row
    BY <1>4, <1>5, <2>1, <2>4 DEF Wire
  <2>6. \A p \in pending'[s] : p.id \in acks'[s] => Handled(p.row)'
    <3>1. \A p \in pending[s] : p.row \in Rows
      BY <1>1 DEF TypeOK, ServerTypes, Frames
    <3> QED  BY <1>4, <1>6, <2>1, <2>3, <3>1 DEF Wire
  <2> QED  BY <1>4, <2>2, <2>3, <2>5, <2>6 DEF Wire
<1>8. ASSUME NEW t \in Sockets, t # s  PROVE  Wire(t)'
  <2>1. /\ frames'[t] = frames[t] /\ pending'[t] = pending[t]
        /\ sent'[t] = sent[t]
    BY <1>1, <1>2, <1>8 DEF TypeOK, ServerTypes, NetTypes
  <2>2. /\ InFlight(t)' = InFlight(t)
        /\ acks'[t] = acks[t] /\ handler'[t] = handler[t]
    BY <2>1 DEF InFlight, ForwardPush
  <2> QED  BY <1>1, <1>6, <2>1, <2>2, WireKept DEF Wires
<1>9. Wires'  BY <1>7, <1>8 DEF Wires
<1> QED  BY <1>1, <1>9, OutsideStep DEF ForwardPush

\* An ack deletes the row of the pending frame of that id, which is handled.
LEMMA SafeHandleAck ==
  ASSUME IInv, NEW s \in Sockets, NEW i \in acks[s], HandleAck(s, i)
  PROVE  IInv'
<1> USE DEF HandleAck
<1>1. TypeOK' /\ TypeOK /\ Wires  BY TypeHandleAck DEF IInv, Wires
<1>2. \A r \in Rows : Handled(r) => Handled(r)'  BY <1>1, HandledGrows
<1>3. ASSUME NEW t \in Sockets  PROVE  Wire(t)'
  <2>1. InFlight(t)' = InFlight(t)  BY DEF InFlight
  <2>2. pending'[t] \subseteq pending[t] /\ acks'[t] \subseteq acks[t]
    BY <1>1 DEF TypeOK, ServerTypes, NetTypes
  <2> QED  BY <1>1, <1>2, <2>1, <2>2, WireKept DEF Wires
<1>4. Wires'  BY <1>3 DEF Wires
<1>5. \A r \in queue \ queue' : Handled(r)
  <2>1. \A p \in pending[s] : p.id \in acks[s] => Handled(p.row)
    BY <1>1 DEF Wires, Wire
  <2>2. \A r \in queue \ queue' : \E p \in pending[s] : p.id = i /\ p.row = r
    BY DEF Acked
  <2> QED  BY <2>1, <2>2
<1> QED  BY <1>1, <1>4, <1>5, OutsideStep

\* Expiry is the one way an unhandled row may go; the wires do not notice.
LEMMA SafeExpire ==
  ASSUME IInv, NEW r \in queue, ExpireRow(r)
  PROVE  IInv'
<1> USE DEF ExpireRow
<1>1. TypeOK' /\ TypeOK /\ Wires  BY TypeExpire DEF IInv, Wires
<1>2. \A q \in Rows : Handled(q) => Handled(q)'  BY <1>1, HandledGrows
<1>3. Wires'  BY <1>1, <1>2, WiresKept
<1> QED  BY <1>1, <1>3, OutsideStep

\* A path that dies takes frames and acks with it.
LEMMA SafeBreak ==
  ASSUME IInv, NEW s \in Sockets, BreakLink(s)
  PROVE  IInv'
<1> USE DEF BreakLink
<1>1. TypeOK' /\ TypeOK /\ Wires  BY TypeBreak DEF IInv, Wires
<1>2. \A r \in Rows : Handled(r) => Handled(r)'  BY <1>1, HandledGrows
<1>3. ASSUME NEW t \in Sockets  PROVE  Wire(t)'
  <2>1. frames'[t] \in {frames[t], <<>>}  BY <1>1 DEF TypeOK, NetTypes
  <2>2. InFlight(t)' \subseteq InFlight(t)  BY <2>1 DEF InFlight
  <2>3. acks'[t] \subseteq acks[t]  BY <1>1 DEF TypeOK, NetTypes
  <2> QED  BY <1>1, <1>2, <2>2, <2>3, WireKept DEF Wires
<1>4. Wires'  BY <1>3 DEF Wires
<1> QED  BY <1>1, <1>4, OutsideStep

\* The server and the network.
LEMMA SafeServer ==
  ASSUME IInv, ServerNext
  PROVE  IInv'
<1>1. CASE \E c \in Ciphertexts : Enqueue(c)  BY <1>1, SafeEnqueue
<1>2. CASE \E r \in toPush : Push(r) \/ SendAborts(r)  BY <1>2, SafePush
<1>3. CASE \E s \in Sockets : Serve(s) \/ DrainSkipped(s) \/ BreakLink(s)
  BY <1>3, SafeDrain, SafeEnds, SafeForward, SafeHandleAck,
     SafeDrainSkipped, SafeBreak DEF Serve
<1>4. CASE \E r \in queue : ExpireRow(r)  BY <1>4, SafeExpire
<1>5. CASE ServerRestart  BY <1>5, SafeEnds
<1> QED  BY <1>1, <1>2, <1>3, <1>4, <1>5 DEF ServerNext

(* The app's steps. *)

\* What the app takes off its socket was in flight on it.
LEMMA TakenFrame ==
  ASSUME TypeOK, NEW s \in Sockets, NextFrame(s)
  PROVE  /\ Head(frames[s]) \in Frames /\ Head(frames[s]) \in InFlight(s)
         /\ \A i \in DOMAIN frames'[s] : frames'[s][i] \in InFlight(s)
         /\ \A t \in Sockets : t # s => frames'[t] = frames[t]
<1>1. frames[s] \in Seq(Frames) /\ frames[s] # <<>>
  BY DEF TypeOK, NetTypes, NextFrame
<1>2. frames'[s] = Tail(frames[s])
  BY DEF TypeOK, NetTypes, NextFrame
<1>3. Head(frames[s]) \in Frames /\ Head(frames[s]) = frames[s][1]
  BY <1>1
<1>4. 1 \in DOMAIN frames[s]  BY <1>1
<1>5. \A i \in DOMAIN frames'[s] :
        i + 1 \in DOMAIN frames[s] /\ frames'[s][i] = frames[s][i + 1]
  BY <1>1, <1>2
<1>6. \A t \in Sockets : t # s => frames'[t] = frames[t]
  BY DEF TypeOK, NetTypes, NextFrame
<1> QED  BY <1>3, <1>4, <1>5, <1>6 DEF InFlight

\* The frame moves from the socket to the app's hand; its ciphertext, new to
\* the ratchet, is neither saved nor in the extension's hand.
LEMMA SafeTakeDecrypts ==
  ASSUME IInv, NEW s \in Sockets, TakeDecrypts(s)
  PROVE  IInv'
<1> DEFINE h == Head(frames[s])
           d == NextCt(s)
<1>1. TypeOK' /\ TypeOK /\ Wires /\ Desk /\ NothingVanishes
      /\ OneRowPerCiphertext
  BY TypeTakeDecrypts DEF IInv, Wires
<1>2. NextFrame(s) /\ work = Idle /\ sock = s /\ sock' = s
  BY DEF TakeDecrypts, NextFrame
<1>3. /\ h \in Frames /\ h \in InFlight(s)
      /\ \A i \in DOMAIN frames'[s] : frames'[s][i] \in InFlight(s)
      /\ \A t \in Sockets : t # s => frames'[t] = frames[t]
  BY <1>1, <1>2, TakenFrame
<1>4. /\ work' = Item(h.row, h.id) /\ consumed' = consumed \cup {d}
      /\ d = rowCt[h.row] /\ d \notin consumed
      /\ UNCHANGED <<rowCt, queue, handler, sent, pending, acks, ext,
                     history, skipped, killed, unsaved, expired>>
  BY DEF TakeDecrypts, Advanced, NextCt
<1> HIDE DEF h, d
<1>5. \A r \in Rows : Handled(r) => Handled(r)'
  BY <1>1, <1>4, HandledGrows
<1>6. \A c : (Holds(work, c)' <=> c = d) /\ ~Holds(work, c)
  BY <1>2, <1>4 DEF Holds, Item, Idle
<1>7. \A c : /\ Holds(ext.hand, c)' <=> Holds(ext.hand, c)
             /\ Stored(c)' <=> Stored(c)
  BY <1>4 DEF Holds, Stored
<1>8. Wires'
  <2>1. ASSUME NEW t \in Sockets  PROVE  InFlight(t)' \subseteq InFlight(t)
    <3>1. CASE t = s
      <4>1. Frame(work'.id, work'.row) = h
        BY <1>3, <1>4 DEF Frame, Item, Frames
      <4> QED  BY <1>3, <3>1, <4>1 DEF InFlight
    <3>2. CASE t # s  BY <1>2, <1>3, <3>2 DEF InFlight
    <3> QED  BY <3>1, <3>2
  <2>2. \A t \in Sockets : Wire(t)'
    BY <1>1, <1>4, <1>5, <2>1, WireKept DEF Wires
  <2> QED  BY <2>2 DEF Wires
<1>9. ~Stored(d) /\ ~Holds(ext.hand, d)
  BY <1>1, <1>4 DEF Desk, Stored, Holds, Idle
<1>10. Desk'
  <2>1. work' # Idle => rowCt'[work'.row] \in consumed'
    BY <1>4 DEF Item
  <2>2. /\ ext'.hand # Idle => rowCt'[ext'.hand.row] \in consumed'
        /\ \A r \in history' : rowCt'[r] \in consumed'
    BY <1>1, <1>4 DEF Desk
  <2>3. \A r \in ext'.batch \ ext'.left : Handled(r)'
    BY <1>1, <1>4, <1>5 DEF Desk, TypeOK, ExtTypes
  <2>4. \A c \in Ciphertexts :
           /\ InHand(c)' => ~Stored(c)'
           /\ ~(Holds(work, c)' /\ Holds(ext.hand, c)')
    BY <1>1, <1>6, <1>7, <1>9 DEF Desk, InHand
  <2> QED  BY <2>1, <2>2, <2>3, <2>4 DEF Desk
<1>11. RowsAccounted'
  BY <1>1, <1>4, <1>5, RowsKept DEF NothingVanishes, RowsAccounted
<1>12. OpenedAccounted'
  BY <1>1, <1>4, <1>6, <1>7
     DEF NothingVanishes, OpenedAccounted, Kept, InHand
<1>13. OneRowPerCiphertext'
  BY <1>1, <1>4 DEF OneRowPerCiphertext
<1> QED
  BY <1>1, <1>8, <1>10, <1>11, <1>12, <1>13 DEF IInv, Wires, NothingVanishes

\* An ack to skip: its row has been decrypted before, or is given up now.
LEMMA SafeTakeSkips ==
  ASSUME IInv, NEW s \in Sockets, TakeDuplicate(s) \/ TakeFails(s)
  PROVE  IInv'
<1> DEFINE h == Head(frames[s])
<1>1. TypeOK' /\ TypeOK /\ Wires
  BY TypeTakeSkips DEF IInv, Wires
<1>2. NextFrame(s) /\ work = Idle /\ UNCHANGED <<sock, work>>
  BY DEF TakeDuplicate, TakeFails, NextFrame
<1>3. /\ h \in Frames /\ h \in InFlight(s)
      /\ \A i \in DOMAIN frames'[s] : frames'[s][i] \in InFlight(s)
      /\ \A t \in Sockets : t # s => frames'[t] = frames[t]
  BY <1>1, <1>2, TakenFrame
<1>4. /\ SendAck(s, h.id) /\ skipped \subseteq skipped'
      /\ \A r : r = h.row => Handled(r)'
      /\ UNCHANGED <<rowCt, queue, handler, sent, pending, ext, consumed,
                     history, killed, unsaved, expired>>
  BY DEF TakeDuplicate, TakeFails, NextCt, Handled
<1> HIDE DEF h
<1>5. \A r \in Rows : Handled(r) => Handled(r)'
  BY <1>1, <1>4, HandledGrows
<1>6. ASSUME NEW t \in Sockets  PROVE  Wire(t)'
  <2>1. InFlight(t)' \subseteq InFlight(t)
    <3>1. CASE t = s  BY <1>2, <1>3, <3>1 DEF InFlight
    <3>2. CASE t # s  BY <1>2, <1>3, <3>2 DEF InFlight
    <3> QED  BY <3>1, <3>2
  <2>2. \A i \in acks'[t] :
           \/ i \in acks[t]
           \/ Live(t) /\ \E fr \in InFlight(t) : fr.id = i /\ Handled(fr.row)'
    <3>1. \A i \in acks'[t] :
             i \in acks[t] \/ (t = s /\ Live(t) /\ i = h.id)
      BY <1>1, <1>4 DEF SendAck, TypeOK, NetTypes
    <3> QED  BY <1>3, <1>4, <3>1
  <2> QED  BY <1>1, <1>4, <1>5, <2>1, <2>2, WireKept DEF Wires
<1>7. Wires'  BY <1>6 DEF Wires
<1> QED  BY <1>1, <1>2, <1>4, <1>7, OutsideStep

\* The history after a message leaves a hand for it: the one new row is the
\* first of its ciphertext.
LEMMA SavedOnce ==
  ASSUME IInv, NEW item \in Items, item.stage = "decrypted",
         InHand(rowCt[item.row]), history' = SavedHistory(item),
         UNCHANGED <<rowCt, queue, consumed, skipped, killed, unsaved, expired>>,
         \A c : InHand(c)' <=> InHand(c) /\ c # rowCt[item.row]
  PROVE  /\ NothingVanishes' /\ OneRowPerCiphertext'
         /\ \A c \in Ciphertexts : InHand(c)' => ~Stored(c)'
<1> DEFINE d == rowCt[item.row]
<1>1. TypeOK /\ Desk /\ NothingVanishes /\ OneRowPerCiphertext
  BY DEF IInv
<1>2. item.row \in Rows /\ d \in Ciphertexts
  BY <1>1 DEF Items, Rows, TypeOK, ServerTypes
<1>3. /\ history \subseteq history' /\ history' \subseteq history \cup {item.row}
      /\ d \in Blocked \/ item.row \in history'
  BY DEF SavedHistory
<1>4. /\ \A c : Stored(c) => Stored(c)'
      /\ \A c : Stored(c)' => Stored(c) \/ c = d
      /\ d \in Blocked \/ Stored(d)'
  BY <1>3 DEF Stored
<1>5. ~Stored(d)
  BY <1>1, <1>2 DEF Desk
<1>6. RowsAccounted'
  BY <1>1, RowsKept DEF NothingVanishes, RowsAccounted, Handled
<1>7. OpenedAccounted'
  BY <1>1, <1>4 DEF NothingVanishes, OpenedAccounted, Kept
<1>8. OneRowPerCiphertext'
  BY <1>1, <1>3, <1>5 DEF OneRowPerCiphertext, Stored
<1>9. \A c \in Ciphertexts : InHand(c)' => ~Stored(c)'
  BY <1>1, <1>4 DEF Desk
<1> QED  BY <1>6, <1>7, <1>8, <1>9 DEF NothingVanishes

\* The hand keeps the frame until it is acked: the wires do not notice.
LEMMA SafePersist ==
  ASSUME IInv, Persist \/ PersistFails
  PROVE  IInv'
<1> DEFINE d == rowCt[work.row]
<1>1. TypeOK' /\ TypeOK /\ Wires /\ Desk /\ NothingVanishes
      /\ OneRowPerCiphertext
  BY TypePersist DEF IInv, Wires
<1>2. /\ work.stage = "decrypted" /\ work' = Done(work)
      /\ UNCHANGED <<rowCt, queue, handler, sent, pending, frames, acks, sock,
                     ext, consumed, skipped, killed, expired>>
  BY DEF Persist, PersistFails
<1>3. work \in Items /\ work # Idle
  BY <1>1, <1>2 DEF TypeOK, AppTypes, Idle
<1>4. /\ work'.row = work.row /\ work'.id = work.id /\ work'.stage = "done"
      /\ work' # Idle
  BY <1>2, <1>3 DEF Done, Items, Idle
<1>5. \A r \in Rows : Handled(r) => Handled(r)'
  BY <1>1, <1>2, HandledGrows
<1>6. Wires'
  <2>1. \A t \in Sockets : InFlight(t)' = InFlight(t)
    BY <1>2, <1>3, <1>4 DEF InFlight
  <2>2. \A t \in Sockets : Wire(t)'
    BY <1>1, <1>2, <1>5, <2>1, WireKept DEF Wires
  <2> QED  BY <2>2 DEF Wires
<1>7. /\ \A c : Holds(work, c) <=> c = d
      /\ \A c : ~Holds(work, c)'
      /\ \A c : Holds(ext.hand, c)' <=> Holds(ext.hand, c)
  BY <1>2, <1>4 DEF Holds
<1>8. d \in Ciphertexts /\ work.row \in Rows
  BY <1>1, <1>3 DEF Items, Rows, TypeOK, ServerTypes
<1>9. /\ NothingVanishes' /\ OneRowPerCiphertext'
      /\ \A c \in Ciphertexts : InHand(c)' => ~Stored(c)'
      /\ history' \subseteq history \cup {work.row}
  <2>1. CASE Persist
    <3>1. history' = SavedHistory(work) /\ UNCHANGED unsaved
      BY <2>1 DEF Persist
    <3>2. \A c : InHand(c)' <=> InHand(c) /\ c # d
      BY <1>1, <1>7, <1>8 DEF Desk, InHand
    <3>3. InHand(d)  BY <1>7 DEF InHand
    <3> QED
      BY <1>2, <1>3, <3>1, <3>2, <3>3, SavedOnce DEF SavedHistory
  <2>2. CASE PersistFails
    <3>1. UNCHANGED history /\ unsaved' = unsaved \cup {d}
      BY <2>2 DEF PersistFails
    <3>2. \A c : InHand(c) => InHand(c)' \/ c \in killed' \cup unsaved'
      BY <1>7, <3>1 DEF InHand
    <3>3. NothingVanishes' /\ OneRowPerCiphertext'
      BY <1>1, <1>2, <3>1, <3>2, AccountsKept
    <3>4. \A c \in Ciphertexts : InHand(c)' => ~Stored(c)'
      BY <1>1, <1>2, <1>7, <3>1 DEF Desk, InHand, Stored
    <3> QED  BY <3>1, <3>3, <3>4
  <2> QED  BY <2>1, <2>2
<1>10. Desk'
  <2>1. /\ rowCt'[work'.row] \in consumed'
        /\ ext'.hand # Idle => rowCt'[ext'.hand.row] \in consumed'
        /\ \A r \in history' : rowCt'[r] \in consumed'
    BY <1>1, <1>2, <1>3, <1>4, <1>9 DEF Desk
  <2>2. \A r \in ext'.batch \ ext'.left : Handled(r)'
    BY <1>1, <1>2, <1>5 DEF Desk, TypeOK, ExtTypes
  <2> QED  BY <1>7, <1>9, <2>1, <2>2 DEF Desk
<1> QED  BY <1>1, <1>6, <1>9, <1>10 DEF IInv, Wires

\* The ack names the frame in hand, whose ciphertext was decrypted.
LEMMA SafeAckDelivery ==
  ASSUME IInv, AckDelivery
  PROVE  IInv'
<1>1. TypeOK' /\ TypeOK /\ Wires /\ Desk /\ NothingVanishes
      /\ OneRowPerCiphertext
  BY TypeAckDelivery DEF IInv, Wires
<1>2. /\ work.stage = "done" /\ work' = Idle /\ SendAck(sock, work.id)
      /\ UNCHANGED <<rowCt, queue, handler, sent, pending, frames, sock, ext,
                     consumed, history, skipped, killed, unsaved, expired>>
  BY DEF AckDelivery
<1>3. work \in Items /\ work # Idle /\ sock \in Sockets
  BY <1>1, <1>2 DEF TypeOK, AppTypes, Idle
<1>4. \A r \in Rows : Handled(r) => Handled(r)'
  BY <1>1, <1>2, HandledGrows
<1>5. \A r : r = work.row => Handled(r)'
  BY <1>1, <1>2, <1>3 DEF Desk, Handled
<1>6. ASSUME NEW t \in Sockets  PROVE  Wire(t)'
  <2>1. InFlight(t)' \subseteq InFlight(t)
    BY <1>2, <1>3 DEF InFlight
  <2>2. Frame(work.id, work.row) \in InFlight(sock)
    BY <1>3 DEF InFlight
  <2>3. \A i \in acks'[t] :
           \/ i \in acks[t]
           \/ Live(t) /\ \E fr \in InFlight(t) : fr.id = i /\ Handled(fr.row)'
    <3>1. \A i \in acks'[t] :
             i \in acks[t] \/ (t = sock /\ Live(t) /\ i = work.id)
      BY <1>1, <1>2, <1>3 DEF SendAck, TypeOK, NetTypes
    <3>2. /\ Frame(work.id, work.row).id = work.id
          /\ Frame(work.id, work.row).row = work.row
      BY DEF Frame
    <3> QED  BY <1>5, <2>2, <3>1, <3>2
  <2> QED  BY <1>1, <1>2, <1>4, <2>1, <2>3, WireKept DEF Wires
<1>7. Wires'  BY <1>6 DEF Wires
<1>8. \A c : /\ ~Holds(work, c) /\ ~Holds(work, c)'
             /\ Holds(ext.hand, c)' <=> Holds(ext.hand, c)
  BY <1>2 DEF Holds, Idle
<1>9. NothingVanishes' /\ OneRowPerCiphertext'
  BY <1>1, <1>2, <1>8, AccountsKept DEF InHand
<1>10. Desk'
  <2>1. /\ ext'.hand # Idle => rowCt'[ext'.hand.row] \in consumed'
        /\ \A r \in history' : rowCt'[r] \in consumed'
    BY <1>1, <1>2 DEF Desk
  <2>2. \A r \in ext'.batch \ ext'.left : Handled(r)'
    BY <1>1, <1>2, <1>4 DEF Desk, TypeOK, ExtTypes
  <2>3. \A c \in Ciphertexts : InHand(c)' => ~Stored(c)'
    BY <1>1, <1>2, <1>8 DEF Desk, InHand, Stored
  <2> QED  BY <1>2, <1>8, <2>1, <2>2, <2>3 DEF Desk
<1> QED  BY <1>1, <1>7, <1>9, <1>10 DEF IInv, Wires

\* The loop leaves its socket between deliveries: nothing is in hand, and
\* what was on the way is dropped.
LEMMA SafeLeave ==
  ASSUME IInv, LeaveSocket
  PROVE  IInv'
<1> USE DEF LeaveSocket, MayLeave
<1>1. TypeOK' /\ TypeOK /\ Wires  BY TypeLeaves DEF IInv, Wires
<1>2. \A r \in Rows : Handled(r) => Handled(r)'  BY <1>1, HandledGrows
<1>3. ASSUME NEW t \in Sockets  PROVE  Wire(t)'
  <2>1. frames'[t] \in {frames[t], <<>>}  BY <1>1 DEF TypeOK, NetTypes
  <2>2. InFlight(t)' \subseteq InFlight(t)  BY <2>1 DEF InFlight
  <2> QED  BY <1>1, <1>2, <2>2, WireKept DEF Wires
<1>4. Wires'  BY <1>3 DEF Wires
<1> QED  BY <1>1, <1>4, OutsideStep

\* Backgrounding stops the app wherever it stands; what it holds it keeps.
LEMMA SafeBackground ==
  ASSUME IInv, EnterBackground \/ Suspend \/ Resume
  PROVE  IInv'
<1> USE DEF EnterBackground, Suspend, Resume
<1>1. TypeOK' /\ TypeOK /\ Wires  BY TypeBackground DEF IInv, Wires
<1>2. \A r \in Rows : Handled(r) => Handled(r)'  BY <1>1, HandledGrows
<1>3. Wires'  BY <1>1, <1>2, WiresKept
<1> QED  BY <1>1, <1>3, OutsideStep

\* What a killed process held is counted lost.
LEMMA AbandonedHeld ==
  ASSUME TypeOK, NEW item \in {Idle} \cup Items
  PROVE  \A c : Holds(item, c) => c \in Abandoned(item)
<1>1. item \in Items => rowCt[item.row] \in Ciphertexts
  BY DEF Items, Rows, TypeOK, ServerTypes
<1> QED  BY <1>1 DEF Abandoned, Holds, Idle

\* The app is killed with a message in hand, or without.
LEMMA SafeAppKilled ==
  ASSUME IInv, AppKilled
  PROVE  IInv'
<1>1. TypeOK' /\ TypeOK /\ Wires /\ Desk /\ NothingVanishes
      /\ OneRowPerCiphertext
  BY TypeLeaves DEF IInv, Wires
<1>2. /\ work' = Idle /\ killed' = killed \cup Abandoned(work)
      /\ frames' = [s \in Sockets |-> <<>>]
      /\ UNCHANGED <<rowCt, queue, handler, sent, pending, acks, ext,
                     consumed, history, skipped, unsaved, expired>>
  BY DEF AppKilled
<1>3. \A r \in Rows : Handled(r) => Handled(r)'
  BY <1>1, <1>2, HandledGrows
<1>4. ASSUME NEW t \in Sockets  PROVE  Wire(t)'
  <2>1. InFlight(t)' = {}  BY <1>2 DEF InFlight
  <2> QED  BY <1>1, <1>2, <1>3, <2>1, WireKept DEF Wires
<1>5. Wires'  BY <1>4 DEF Wires
<1>6. /\ \A c : Holds(work, c) => c \in killed'
      /\ \A c : ~Holds(work, c)'
      /\ \A c : Holds(ext.hand, c)' <=> Holds(ext.hand, c)
  <2>1. work \in {Idle} \cup Items  BY <1>1 DEF TypeOK, AppTypes
  <2> QED  BY <1>1, <1>2, <2>1, AbandonedHeld DEF Holds, Idle
<1>7. NothingVanishes' /\ OneRowPerCiphertext'
  BY <1>1, <1>2, <1>6, AccountsKept DEF InHand
<1>8. Desk'
  <2>1. /\ ext'.hand # Idle => rowCt'[ext'.hand.row] \in consumed'
        /\ \A r \in history' : rowCt'[r] \in consumed'
    BY <1>1, <1>2 DEF Desk
  <2>2. \A r \in ext'.batch \ ext'.left : Handled(r)'
    BY <1>1, <1>2, <1>3 DEF Desk, TypeOK, ExtTypes
  <2>3. \A c \in Ciphertexts : InHand(c)' => ~Stored(c)'
    BY <1>1, <1>2, <1>6 DEF Desk, InHand, Stored
  <2> QED  BY <1>2, <1>6, <2>1, <2>2, <2>3 DEF Desk
<1> QED  BY <1>1, <1>5, <1>7, <1>8 DEF IInv, Wires

\* The app.
LEMMA SafeApp ==
  ASSUME IInv, AppNext
  PROVE  IInv'
  BY SafeConnect, SafeTakeDecrypts, SafeTakeSkips, SafePersist,
     SafeAckDelivery, SafeLeave, SafeBackground, SafeAppKilled
     DEF AppNext, Receive

(* The extension's steps.  They do not touch the wires. *)

\* A poll, the ack of a batch, or a kill.  The batch is acked when none of it
\* is left, so each of its rows is handled.
LEMMA SafeExtEnds ==
  ASSUME IInv, ExtFetch \/ ExtAck \/ ExtKilled
  PROVE  IInv'
<1>1. TypeOK' /\ TypeOK /\ Wires /\ Desk /\ NothingVanishes
      /\ OneRowPerCiphertext
  BY TypeExtEnds DEF IInv, Wires
<1>2. UNCHANGED <<rowCt, handler, sent, pending, frames, acks, sock, work,
                  consumed, history, skipped, unsaved, expired>>
  BY DEF ExtFetch, ExtAck, ExtKilled
<1>3. ext'.hand = Idle /\ ext'.batch \ ext'.left = {}
  BY DEF ExtFetch, ExtAck, ExtKilled, NoBatch
<1>4. \A r \in queue \ queue' : Handled(r)
  <2>1. CASE ExtAck  BY <1>1, <2>1 DEF ExtAck, BatchAcked, Desk
  <2>2. CASE UNCHANGED queue  BY <2>2
  <2> QED  BY <2>1, <2>2 DEF ExtFetch, ExtKilled
<1>5. killed \subseteq killed' /\ \A c : Holds(ext.hand, c) => c \in killed'
  <2>1. CASE ExtKilled
    <3>1. ext.hand \in {Idle} \cup Items  BY <1>1 DEF TypeOK, ExtTypes
    <3> QED  BY <1>1, <2>1, <3>1, AbandonedHeld DEF ExtKilled
  <2>2. CASE ExtFetch \/ ExtAck
    <3>1. ext.hand = Idle /\ UNCHANGED killed
      BY <2>2 DEF ExtFetch, ExtAck, NoBatch
    <3> QED  BY <3>1 DEF Holds, Idle
  <2> QED  BY <2>1, <2>2
<1>6. \A c : /\ ~Holds(ext.hand, c)'
             /\ Holds(work, c)' <=> Holds(work, c)
             /\ Stored(c)' <=> Stored(c)
  BY <1>2, <1>3 DEF Holds, Idle, Stored
<1>7. \A r \in Rows : Handled(r) => Handled(r)'
  BY <1>1, <1>2, HandledGrows
<1>8. Wires'  BY <1>1, <1>2, <1>7, WiresKept
<1>9. NothingVanishes' /\ OneRowPerCiphertext'
  BY <1>1, <1>2, <1>4, <1>5, <1>6, AccountsKept DEF InHand
<1>10. Desk'  BY <1>1, <1>2, <1>3, <1>6 DEF Desk, InHand
<1> QED  BY <1>1, <1>8, <1>9, <1>10 DEF IInv, Wires

\* A message of the batch is decrypted, found decrypted, or given up.
LEMMA SafeExtTurn ==
  ASSUME IInv, NEW r \in ext.left,
         ExtDecrypts(r) \/ ExtDuplicate(r) \/ ExtFails(r)
  PROVE  IInv'
<1> DEFINE d == rowCt[r]
<1>1. TypeOK' /\ TypeOK /\ Wires /\ Desk /\ NothingVanishes
      /\ OneRowPerCiphertext
  BY TypeExtTurn DEF IInv, Wires
<1>2. /\ ext.hand = Idle
      /\ consumed \subseteq consumed' /\ skipped \subseteq skipped'
      /\ UNCHANGED <<rowCt, queue, handler, sent, pending, frames, acks, sock,
                     work, history, killed, unsaved, expired>>
  BY DEF ExtDecrypts, ExtDuplicate, ExtFails, ExtTakes, Advanced
<1>3. r \in Rows /\ d \in Ciphertexts /\ ext'.batch = ext.batch
      /\ ext'.left = ext.left \ {r}
  <2>1. r \in Rows  BY <1>1 DEF TypeOK, ExtTypes
  <2>2. d \in Ciphertexts  BY <1>1, <2>1 DEF TypeOK, ServerTypes, Rows
  <2>3. ext'.batch = ext.batch /\ ext'.left = ext.left \ {r}
    BY <1>1 DEF TypeOK, ExtTypes, ExtDecrypts, ExtDuplicate, ExtFails
  <2> QED  BY <2>1, <2>2, <2>3
<1>4. Handled(r)'
  BY DEF Handled, ExtDecrypts, ExtDuplicate, ExtFails, Advanced
<1>5. \A q \in Rows : Handled(q) => Handled(q)'
  BY <1>1, <1>2, HandledGrows
<1>6. Wires'  BY <1>1, <1>2, <1>5, WiresKept
<1>7. \A q \in ext'.batch \ ext'.left : Handled(q)'
  BY <1>1, <1>3, <1>4, <1>5 DEF Desk, TypeOK, ExtTypes
<1>8. RowsAccounted'
  BY <1>1, <1>2, <1>5, RowsKept DEF NothingVanishes, RowsAccounted
<1>9. OneRowPerCiphertext'
  BY <1>1, <1>2 DEF OneRowPerCiphertext
<1>10. \A c : /\ ~Holds(ext.hand, c)
              /\ Holds(work, c)' <=> Holds(work, c)
              /\ Stored(c)' <=> Stored(c)
  BY <1>2 DEF Holds, Idle, Stored
<1>11. CASE ExtDecrypts(r)
  <2>1. /\ d \notin consumed /\ consumed' = consumed \cup {d}
        /\ ext'.hand = Item(r, 0)
    BY <1>1, <1>11 DEF ExtDecrypts, Advanced, TypeOK, ExtTypes
  <2>2. ~Stored(d) /\ ~Holds(work, d)
    BY <1>1, <2>1 DEF Desk, Stored, Holds, Idle
  <2>3. \A c : Holds(ext.hand, c)' <=> c = d
    BY <1>2, <2>1 DEF Holds, Item
  <2>4. OpenedAccounted'
    BY <1>1, <1>2, <1>10, <2>1, <2>3
       DEF NothingVanishes, OpenedAccounted, Kept, InHand
  <2>5. /\ work' # Idle => rowCt'[work'.row] \in consumed'
        /\ rowCt'[ext'.hand.row] \in consumed'
        /\ \A q \in history' : rowCt'[q] \in consumed'
    BY <1>1, <1>2, <2>1 DEF Desk, Item
  <2>6. \A c \in Ciphertexts :
           /\ InHand(c)' => ~Stored(c)'
           /\ ~(Holds(work, c)' /\ Holds(ext.hand, c)')
    BY <1>1, <1>10, <2>2, <2>3 DEF Desk, InHand
  <2>7. Desk'  BY <1>7, <2>5, <2>6 DEF Desk
  <2> QED
    BY <1>1, <1>6, <1>8, <1>9, <2>4, <2>7 DEF IInv, Wires, NothingVanishes
<1>12. CASE ExtDuplicate(r) \/ ExtFails(r)
  <2>1. ext'.hand = Idle /\ UNCHANGED consumed
    BY <1>1, <1>2, <1>12 DEF ExtDuplicate, ExtFails, TypeOK, ExtTypes
  <2>2. \A c : ~Holds(ext.hand, c)'
    BY <2>1 DEF Holds, Idle
  <2>3. OpenedAccounted'
    BY <1>1, <1>2, <1>10, <2>1, <2>2
       DEF NothingVanishes, OpenedAccounted, Kept, InHand
  <2>4. Desk'
    BY <1>1, <1>2, <1>7, <1>10, <2>1, <2>2 DEF Desk, InHand
  <2> QED
    BY <1>1, <1>6, <1>8, <1>9, <2>3, <2>4 DEF IInv, Wires, NothingVanishes
<1> QED  BY <1>11, <1>12

\* The extension saves the message in its hand, or fails to.
LEMMA SafeExtPersist ==
  ASSUME IInv, ExtPersist \/ ExtPersistFails
  PROVE  IInv'
<1> DEFINE d == rowCt[ext.hand.row]
<1>1. TypeOK' /\ TypeOK /\ Wires /\ Desk /\ NothingVanishes
      /\ OneRowPerCiphertext
  BY TypeExtPersist DEF IInv, Wires
<1>2. /\ ext.hand.stage = "decrypted" /\ ext' = [ext EXCEPT !.hand = Idle]
      /\ UNCHANGED <<rowCt, queue, handler, sent, pending, frames, acks, sock,
                     work, consumed, skipped, killed, expired>>
  BY DEF ExtPersist, ExtPersistFails
<1>3. ext.hand \in Items
  BY <1>1, <1>2 DEF TypeOK, ExtTypes, Idle
<1>4. /\ ext'.hand = Idle /\ ext'.batch = ext.batch
      /\ ext'.left = ext.left
  BY <1>1, <1>2 DEF TypeOK, ExtTypes
<1>5. \A r \in Rows : Handled(r) => Handled(r)'
  BY <1>1, <1>2, HandledGrows
<1>6. Wires'  BY <1>1, <1>2, <1>5, WiresKept
<1>7. /\ \A c : Holds(ext.hand, c) <=> c = d
      /\ \A c : ~Holds(ext.hand, c)'
      /\ \A c : Holds(work, c)' <=> Holds(work, c)
  BY <1>2, <1>4 DEF Holds, Idle
<1>8. d \in Ciphertexts /\ ext.hand.row \in Rows
  BY <1>1, <1>3 DEF Items, Rows, TypeOK, ServerTypes
<1>9. /\ NothingVanishes' /\ OneRowPerCiphertext'
      /\ \A c \in Ciphertexts : InHand(c)' => ~Stored(c)'
      /\ history' \subseteq history \cup {ext.hand.row}
  <2>1. CASE ExtPersist
    <3>1. history' = SavedHistory(ext.hand) /\ UNCHANGED unsaved
      BY <2>1 DEF ExtPersist
    <3>2. \A c : InHand(c)' <=> InHand(c) /\ c # d
      BY <1>1, <1>7, <1>8 DEF Desk, InHand
    <3>3. InHand(d)  BY <1>7 DEF InHand
    <3> QED
      BY <1>2, <1>3, <3>1, <3>2, <3>3, SavedOnce DEF SavedHistory
  <2>2. CASE ExtPersistFails
    <3>1. UNCHANGED history /\ unsaved' = unsaved \cup {d}
      BY <2>2 DEF ExtPersistFails
    <3>2. \A c : InHand(c) => InHand(c)' \/ c \in killed' \cup unsaved'
      BY <1>7, <3>1 DEF InHand
    <3>3. NothingVanishes' /\ OneRowPerCiphertext'
      BY <1>1, <1>2, <3>1, <3>2, AccountsKept
    <3>4. \A c \in Ciphertexts : InHand(c)' => ~Stored(c)'
      BY <1>1, <1>2, <1>7, <3>1 DEF Desk, InHand, Stored
    <3> QED  BY <3>1, <3>3, <3>4
  <2> QED  BY <2>1, <2>2
<1>10. Desk'
  <2>1. /\ work' # Idle => rowCt'[work'.row] \in consumed'
        /\ \A r \in history' : rowCt'[r] \in consumed'
    BY <1>1, <1>2, <1>3, <1>9 DEF Desk, Items, Idle
  <2>2. \A r \in ext'.batch \ ext'.left : Handled(r)'
    BY <1>1, <1>4, <1>5 DEF Desk, TypeOK, ExtTypes
  <2> QED  BY <1>4, <1>7, <1>9, <2>1, <2>2 DEF Desk
<1> QED  BY <1>1, <1>6, <1>9, <1>10 DEF IInv, Wires

\* The extension.
LEMMA SafeExt ==
  ASSUME IInv, ExtNext
  PROVE  IInv'
  BY SafeExtEnds, SafeExtTurn, SafeExtPersist DEF ExtNext, ExtTurn

(* The theorems. *)

\* Nothing is queued, in flight or in hand to begin with.
LEMMA SafeInit ==
  ASSUME Init
  PROVE  IInv
<1>1. TypeOK  BY TypeInit
<1>2. ASSUME NEW s \in Sockets  PROVE  Wire(s)
  <2>1. /\ frames[s] = <<>> /\ work = Idle /\ handler[s] = "unused"
        /\ pending[s] = {} /\ acks[s] = {}
    BY DEF Init
  <2>2. InFlight(s) = {}  BY <2>1 DEF InFlight
  <2> QED  BY <2>1, <2>2 DEF Wire
<1>3. \A c : ~InHand(c)
  BY DEF Init, InHand, Holds, Idle, NoBatch
<1>4. Desk  BY <1>3 DEF Init, Desk, NoBatch, InHand
<1>5. NothingVanishes /\ OneRowPerCiphertext
  BY DEF Init, Rows, NothingVanishes, RowsAccounted, OpenedAccounted,
         OneRowPerCiphertext
<1> QED  BY <1>1, <1>2, <1>4, <1>5 DEF IInv

\* A step that changes nothing.
LEMMA SafeStutter ==
  ASSUME IInv, UNCHANGED vars
  PROVE  IInv'
<1> USE DEF vars
<1>1. TypeOK'
  BY KeepServer, KeepNet, KeepApp, KeepExt, KeepStore, KeepFate
     DEF IInv, TypeOK
<1>2. TypeOK /\ Wires  BY DEF IInv, Wires
<1>3. \A r \in Rows : Handled(r) => Handled(r)'  BY <1>2, HandledGrows
<1>4. Wires'  BY <1>2, <1>3, WiresKept
<1> QED  BY <1>1, <1>4, OutsideStep

\* The invariant behind every safety theorem below holds in every behaviour:
\* ack ids, pending frames, both processes' hands and the history agree.
THEOREM Inductive == Spec => []IInv
<1>1. Init => IInv  BY SafeInit
<1>2. IInv /\ [Next]_vars => IInv'
  BY SafeServer, SafeApp, SafeExt, SafeStutter DEF Next
<1> QED  BY <1>1, <1>2, PTL DEF Spec

\* No row leaves the queue unhandled but by expiry, and no decrypted message
\* is lost but to a kill or a failed write, in any number of reconnects,
\* restarts, duplicates and faults.
THEOREM NothingEverVanishes == Spec => []NothingVanishes
<1>1. IInv => NothingVanishes  BY DEF IInv
<1> QED  BY <1>1, Inductive, PTL

\* App and extension together save a message at most once, however often it is
\* queued, drained, pushed and polled.
THEOREM SavedAtMostOnce == Spec => []OneRowPerCiphertext
<1>1. IInv => OneRowPerCiphertext  BY DEF IInv
<1> QED  BY <1>1, Inductive, PTL

(* MessageDelivery implements Mailbox. *)

\* The variables of Mailbox as MessageDelivery sees them.
mail == <<rowCt, queue, consumed, skipped, expired>>

\* Committing a row is the acceptance of its message.
LEMMA MailEnqueue ==
  ASSUME TypeOK, NEW c \in Ciphertexts, Enqueue(c)
  PROVE  Mail!Next
<1>1. Mail!Accept(c)  BY DEF Enqueue, Mail!Accept
<1> QED  BY <1>1 DEF Mail!Next

\* Decrypting a message, in either process, is its opening.
LEMMA MailOpens ==
  ASSUME TypeOK, NEW r \in Rows, rowCt[r] \notin consumed,
         consumed' = consumed \cup {rowCt[r]},
         UNCHANGED <<rowCt, queue, skipped, expired>>
  PROVE  Mail!Next
<1>1. Mail!Open(r)  BY DEF Mail!Open
<1> QED  BY <1>1 DEF Mail!Next, Rows

\* Giving up a message the device has not opened.
LEMMA MailGivesUp ==
  ASSUME TypeOK, NEW r \in Rows, rowCt[r] \notin consumed,
         skipped' = skipped \cup {r},
         UNCHANGED <<rowCt, queue, consumed, expired>>
  PROVE  Mail!Next
<1>1. Mail!GiveUp(r)  BY DEF Mail!GiveUp
<1> QED  BY <1>1 DEF Mail!Next, Rows

\* Deleting acked rows, all of them handled.
LEMMA MailReleases ==
  ASSUME TypeOK, queue' \subseteq queue,
         \A r \in queue \ queue' : Handled(r),
         UNCHANGED <<rowCt, consumed, skipped, expired>>
  PROVE  Mail!Next
<1>1. queue \ queue' \in SUBSET queue /\ queue' = queue \ (queue \ queue')
  OBVIOUS
<1>2. Mail!Release(queue \ queue')
  BY <1>1 DEF Mail!Release, Mail!Handled, Handled
<1> QED  BY <1>1, <1>2 DEF Mail!Next

\* The rows an ack deletes are handled, by either way of acking.
LEMMA AcksReleaseHandled ==
  ASSUME IInv,
         (\E s \in Sockets : \E i \in acks[s] : HandleAck(s, i)) \/ ExtAck
  PROVE  queue' \subseteq queue /\ \A r \in queue \ queue' : Handled(r)
<1>1. CASE \E s \in Sockets : \E i \in acks[s] : HandleAck(s, i)
  <2>1. PICK s \in Sockets : \E i \in acks[s] : HandleAck(s, i)  BY <1>1
  <2>2. PICK i \in acks[s] : HandleAck(s, i)  BY <2>1
  <2>3. \A r \in queue \ queue' : \E p \in pending[s] : p.id = i /\ p.row = r
    BY <2>2 DEF HandleAck, Acked
  <2>4. queue' \subseteq queue  BY <2>2 DEF HandleAck
  <2> QED  BY <2>3, <2>4 DEF IInv, Wire
<1>2. CASE ExtAck
  BY <1>2 DEF ExtAck, BatchAcked, IInv, Desk
<1> QED  BY <1>1, <1>2

\* A step of the server is one step of the mailbox, or none.
LEMMA MailServer ==
  ASSUME IInv, ServerNext
  PROVE  Mail!Next \/ UNCHANGED mail
<1> USE DEF mail
<1>1. TypeOK  BY DEF IInv
<1>2. CASE \E c \in Ciphertexts : Enqueue(c)  BY <1>1, <1>2, MailEnqueue
<1>3. CASE \E r \in queue : ExpireRow(r)
  <2>1. PICK r \in queue : ExpireRow(r)  BY <1>3
  <2>2. Mail!Expire(r)  BY <2>1 DEF ExpireRow, Mail!Expire
  <2> QED  BY <2>2 DEF Mail!Next
<1>4. CASE \E s \in Sockets : \E i \in acks[s] : HandleAck(s, i)
  <2>1. UNCHANGED <<rowCt, consumed, skipped, expired>>
    BY <1>4 DEF HandleAck
  <2> QED  BY <1>1, <1>4, <2>1, AcksReleaseHandled, MailReleases
<1>5. CASE UNCHANGED mail  BY <1>5
<1> QED
  BY <1>2, <1>3, <1>4, <1>5
     DEF ServerNext, Serve, Push, PushToSocket, PushWakeup, SendAborts,
         DrainOnConnect, DrainSkipped, DrainFails, ForwardPush, EndSocket,
         BreakLink, ServerRestart

\* A step of the app is one step of the mailbox, or none.
LEMMA MailApp ==
  ASSUME IInv, AppNext
  PROVE  Mail!Next \/ UNCHANGED mail
<1> USE DEF mail
<1>1. TypeOK  BY DEF IInv
<1>2. CASE \E s \in Sockets : TakeDecrypts(s) \/ TakeFails(s)
  <2>1. PICK s \in Sockets : TakeDecrypts(s) \/ TakeFails(s)  BY <1>2
  <2>2. NextFrame(s)  BY <2>1 DEF TakeDecrypts, TakeFails
  <2>3. Head(frames[s]).row \in Rows
    BY <1>1, <2>2, HeadFrame DEF Frames
  <2>4. CASE TakeDecrypts(s)
    BY <1>1, <2>3, <2>4, MailOpens DEF TakeDecrypts, NextCt, Advanced
  <2>5. CASE TakeFails(s)
    BY <1>1, <2>3, <2>5, MailGivesUp DEF TakeFails, NextCt
  <2> QED  BY <2>1, <2>4, <2>5
<1>3. CASE UNCHANGED mail  BY <1>3
<1> QED
  BY <1>2, <1>3
     DEF AppNext, Receive, Connect, TakeDuplicate, Persist, PersistFails,
         AckDelivery, LeaveSocket, EnterBackground, Suspend, Resume, AppKilled

\* A step of the extension is one step of the mailbox, or none.
LEMMA MailExt ==
  ASSUME IInv, ExtNext
  PROVE  Mail!Next \/ UNCHANGED mail
<1> USE DEF mail
<1>1. TypeOK  BY DEF IInv
<1>2. CASE \E r \in ext.left : ExtDecrypts(r) \/ ExtFails(r)
  <2>1. PICK r \in ext.left : ExtDecrypts(r) \/ ExtFails(r)  BY <1>2
  <2>2. r \in Rows  BY <1>1 DEF TypeOK, ExtTypes
  <2>3. CASE ExtDecrypts(r)
    BY <1>1, <2>2, <2>3, MailOpens DEF ExtDecrypts, Advanced
  <2>4. CASE ExtFails(r)
    BY <1>1, <2>2, <2>4, MailGivesUp DEF ExtFails
  <2> QED  BY <2>1, <2>3, <2>4
<1>3. CASE ExtAck
  <2>1. UNCHANGED <<rowCt, consumed, skipped, expired>>
    BY <1>3 DEF ExtAck
  <2> QED  BY <1>1, <1>3, <2>1, AcksReleaseHandled, MailReleases
<1>4. CASE UNCHANGED mail  BY <1>4
<1> QED
  BY <1>2, <1>3, <1>4
     DEF ExtNext, ExtTurn, ExtFetch, ExtDuplicate, ExtPersist,
         ExtPersistFails, ExtKilled

\* Sockets, polls, restarts, retries and faults are invisible to the mailbox:
\* it accepts, opens, gives up, releases and expires, and nothing else.
THEOREM Refinement == Spec => ImplementsMailbox
<1>1. Init => Mail!Init  BY DEF Init, Mail!Init
<1>2. IInv /\ [Next]_vars => [Mail!Next]_(Mail!mvars)
  <2>1. ASSUME UNCHANGED mail  PROVE  UNCHANGED Mail!mvars
    BY <2>1 DEF mail, Mail!mvars
  <2>2. UNCHANGED vars => UNCHANGED mail
    BY DEF vars, mail
  <2> QED
    BY <2>1, <2>2, MailServer, MailApp, MailExt DEF Next
<1> QED  BY <1>1, <1>2, Inductive, PTL DEF Spec, ImplementsMailbox, Mail!Spec

(* The connection map. *)

\* A handler that ends takes the map's entry with it, whosever it is; so the
\* map names no ended handler, and a push to a mapped device has a reader.
THEOREM MapNamesLiveHandler == Spec => []PushTargetsLiveHandler
<1> DEFINE Inv == PushTargetsLiveHandler
<1>1. Init => Inv  BY DEF Init, PushTargetsLiveHandler
<1>2. TypeOK /\ Inv /\ [Next]_vars => Inv'
  <2> SUFFICES ASSUME TypeOK, Inv, [Next]_vars  PROVE  Inv'
    OBVIOUS
  <2> USE DEF PushTargetsLiveHandler, Live
  <2>1. registered # NoSocket => registered \in Sockets
    BY DEF TypeOK, ServerTypes
  <2>2. CASE UNCHANGED <<registered, handler>>  BY <2>2
  <2>3. CASE registered' = NoSocket  BY <2>3
  <2>4. CASE \E s \in Sockets : Connect(s)
    <3>1. PICK s \in Sockets : Connect(s)  BY <2>4
    <3>2. registered' = s /\ handler'[s] = "draining"
      BY <3>1 DEF Connect, TypeOK, ServerTypes
    <3> QED  BY <3>2
  <2>5. CASE \E s \in Sockets : DrainOnConnect(s) \/ DrainSkipped(s)
    <3>1. PICK s \in Sockets : DrainOnConnect(s) \/ DrainSkipped(s)  BY <2>5
    <3>2. registered' = registered
          /\ handler' = [handler EXCEPT ![s] = "serving"]
      BY <3>1 DEF DrainOnConnect, DrainSkipped
    <3> QED  BY <2>1, <3>2 DEF TypeOK, ServerTypes
  <2>6. CASE UNCHANGED vars  BY <2>6 DEF vars
  <2>7. CASE ServerNext
    BY <2>2, <2>3, <2>5, <2>7
       DEF ServerNext, Serve, Enqueue, Push, PushToSocket, PushWakeup,
           SendAborts, DrainFails, ForwardPush, EndSocket, HandleAck,
           BreakLink, ExpireRow, ServerRestart, RegisteredAfterEnd
  <2>8. CASE AppNext
    BY <2>2, <2>4, <2>8
       DEF AppNext, Receive, TakeDecrypts, TakeDuplicate, TakeFails, Persist,
           PersistFails, AckDelivery, LeaveSocket, EnterBackground, Suspend,
           Resume, AppKilled
  <2>9. CASE ExtNext
    BY <2>2, <2>9
       DEF ExtNext, ExtTurn, ExtFetch, ExtDecrypts, ExtDuplicate, ExtFails,
           ExtPersist, ExtPersistFails, ExtAck, ExtKilled
  <2> QED  BY <2>6, <2>7, <2>8, <2>9 DEF Next
<1> QED  BY <1>1, <1>2, TypeCorrect, PTL DEF Spec

(* No row is stranded. *)

\* Row r is on its way to the client of socket s.
OnTheWay(s, r) ==
    \/ r \in toPush
    \/ \E i \in DOMAIN chan[s] : chan[s][i] = r
    \/ \E fr \in pending[s] : fr.row = r

\* The map names the one handler there is, and a handler that has drained has
\* every queued row on its way.
Served ==
    /\ \A s \in Sockets : Live(s) => registered = s
    /\ \A s \in Sockets :
          handler[s] = "serving" => \A r \in queue : OnTheWay(s, r)

\* Steps that touch neither the handlers nor what is on the way, and queue
\* nothing.
LEMMA ServedKept ==
  ASSUME Served, queue' \subseteq queue,
         UNCHANGED <<toPush, registered, handler, chan, pending>>
  PROVE  Served'
  BY DEF Served, OnTheWay, Live

\* A row is committed as one still to be pushed.
LEMMA ServedEnqueue ==
  ASSUME Served, NEW c \in Ciphertexts, Enqueue(c)
  PROVE  Served'
  BY DEF Served, OnTheWay, Live, Enqueue

\* A push goes to the channel of the only handler; there is none if the map
\* is empty.
LEMMA ServedPush ==
  ASSUME TypeOK, Served, NEW r \in toPush, Push(r)
  PROVE  Served'
<1>1. CASE PushToSocket(r)
  <2>1. /\ registered \in Sockets /\ r \in Rows
        /\ chan[registered] \in Seq(Rows)
        /\ chan' = [chan EXCEPT ![registered] = Append(@, r)]
        /\ toPush' = toPush \ {r}
        /\ UNCHANGED <<queue, registered, handler, pending>>
    BY <1>1 DEF PushToSocket, TypeOK, ServerTypes
  <2>2. /\ chan'[registered] = Append(chan[registered], r)
        /\ \E i \in DOMAIN chan'[registered] : chan'[registered][i] = r
        /\ \A i \in DOMAIN chan[registered] :
              i \in DOMAIN chan'[registered]
              /\ chan'[registered][i] = chan[registered][i]
    <3>1. chan'[registered] = Append(chan[registered], r)
      BY <2>1 DEF TypeOK, ServerTypes
    <3>2. /\ Len(chan'[registered]) = Len(chan[registered]) + 1
          /\ chan'[registered][Len(chan[registered]) + 1] = r
          /\ DOMAIN chan'[registered] = 1..Len(chan[registered]) + 1
          /\ Len(chan[registered]) \in Nat
      BY <2>1, <3>1
    <3>3. \A i \in DOMAIN chan[registered] :
              i \in DOMAIN chan'[registered]
              /\ chan'[registered][i] = chan[registered][i]
      BY <2>1, <3>1
    <3> QED  BY <3>1, <3>2, <3>3
  <2>3. \A s \in Sockets : Live(s)' => registered' = s
    BY <2>1 DEF Served, Live
  <2>4. ASSUME NEW s \in Sockets, handler'[s] = "serving", NEW q \in queue'
        PROVE  OnTheWay(s, q)'
    <3>1. s = registered  BY <2>1, <2>4 DEF Served, Live
    <3>2. OnTheWay(s, q)  BY <2>1, <2>4 DEF Served
    <3> QED  BY <2>1, <2>2, <3>1, <3>2 DEF OnTheWay
  <2> QED  BY <2>3, <2>4 DEF Served
<1>2. CASE PushWakeup(r)
  <2>1. UNCHANGED <<queue, registered, handler>> /\ registered = NoSocket
    BY <1>2 DEF PushWakeup
  <2>2. \A s \in Sockets : ~Live(s)
    BY <2>1, NoSocketAssumption DEF Served, Sockets
  <2> QED  BY <2>1, <2>2 DEF Served, Live
<1> QED  BY <1>1, <1>2 DEF Push

\* A path does not half-open: the app connects once no handler is left.
LEMMA ServedConnect ==
  ASSUME TypeOK, Served, ~HalfOpen, NEW s \in Sockets, Connect(s)
  PROVE  Served'
<1>1. /\ handler' = [handler EXCEPT ![s] = "draining"] /\ registered' = s
      /\ \A t \in Sockets : ~Live(t)
  BY DEF Connect
<1>2. \A t \in Sockets : Live(t)' => t = s
  BY <1>1 DEF Live, TypeOK, ServerTypes
<1>3. handler'[s] = "draining"
  BY <1>1 DEF TypeOK, ServerTypes
<1> QED  BY <1>1, <1>2, <1>3 DEF Served, Live

\* The drain puts every queued row on its way.
LEMMA ServedDrain ==
  ASSUME TypeOK, Served, NEW s \in Sockets, DrainOnConnect(s)
  PROVE  Served'
<1>1. PICK q \in FetchForDevice :
        LET fs == [i \in 1..Len(q) |-> Frame(i, q[i])]
        IN  pending' = [pending EXCEPT ![s] = {fs[i] : i \in 1..Len(q)}]
  BY DEF DrainOnConnect
<1>2. \A r \in queue : \E i \in 1..Len(q) : q[i] = r
  BY ListingType DEF FetchForDevice, OldestFirst
<1>3. \A r \in queue : \E fr \in pending'[s] : fr.row = r
  <2>1. pending'[s] = {Frame(i, q[i]) : i \in 1..Len(q)}
    BY <1>1 DEF TypeOK, ServerTypes
  <2> SUFFICES ASSUME NEW r \in queue
               PROVE  \E fr \in pending'[s] : fr.row = r
    OBVIOUS
  <2>2. PICK i \in 1..Len(q) : q[i] = r  BY <1>2
  <2>3. Frame(i, q[i]) \in pending'[s] /\ Frame(i, q[i]).row = r
    BY <2>1, <2>2 DEF Frame
  <2> QED  BY <2>3
<1>4. /\ handler' = [handler EXCEPT ![s] = "serving"] /\ handler[s] = "draining"
      /\ UNCHANGED <<queue, toPush, registered, chan>>
  BY DEF DrainOnConnect
<1>5. \A t \in Sockets : Live(t)' => Live(t)
  BY <1>4 DEF Live, TypeOK, ServerTypes
<1>6. \A t \in Sockets : Live(t)' => registered' = t
  BY <1>4, <1>5 DEF Served
<1>7. \A t \in Sockets : handler'[t] = "serving" => t = s
  <2>1. Live(s)  BY <1>4 DEF Live
  <2>2. \A t \in Sockets : Live(t) => t = s  BY <2>1 DEF Served
  <2> QED  BY <1>5, <2>2 DEF Live
<1> QED  BY <1>3, <1>4, <1>6, <1>7 DEF Served, OnTheWay

\* The last handler ends, or all do.
LEMMA ServedEnds ==
  ASSUME TypeOK, Served,
         (\E s \in Sockets : DrainFails(s) \/ EndSocket(s)) \/ ServerRestart
  PROVE  Served'
<1>1. \A t \in Sockets : ~Live(t)'
  <2>1. CASE ServerRestart
    BY <2>1 DEF ServerRestart, CloseHandlers, Without, Live
  <2>2. CASE \E s \in Sockets : DrainFails(s) \/ EndSocket(s)
    <3>1. PICK s \in Sockets : DrainFails(s) \/ EndSocket(s)  BY <2>2
    <3>2. Live(s) /\ CloseHandlers({s})
      BY <3>1 DEF DrainFails, EndSocket, Live
    <3>3. \A t \in Sockets : Live(t) => t = s
      BY <3>2 DEF Served
    <3> QED  BY <3>2, <3>3 DEF CloseHandlers, Without, Live
  <2> QED  BY <2>1, <2>2
<1> QED  BY <1>1 DEF Served, Live

\* A forwarded push moves from the channel to the pending frames.
LEMMA ServedForward ==
  ASSUME TypeOK, Served, NEW s \in Sockets, ForwardPush(s)
  PROVE  Served'
<1>1. chan[s] \in Seq(Rows) /\ chan[s] # <<>>
  BY DEF ForwardPush, TypeOK, ServerTypes
<1>2. /\ chan'[s] = Tail(chan[s])
      /\ \E fr \in pending'[s] : fr.row = Head(chan[s])
      /\ pending[s] \subseteq pending'[s]
      /\ \A t \in Sockets : t # s => UNCHANGED <<chan[t], pending[t]>>
  BY DEF ForwardPush, Frame, TypeOK, ServerTypes
<1>3. \A i \in DOMAIN chan[s] :
        \/ chan[s][i] = Head(chan[s])
        \/ \E j \in DOMAIN Tail(chan[s]) : Tail(chan[s])[j] = chan[s][i]
  <2> SUFFICES ASSUME NEW i \in DOMAIN chan[s], i # 1
               PROVE  \E j \in DOMAIN Tail(chan[s]) : Tail(chan[s])[j] = chan[s][i]
    BY <1>1
  <2>1. i - 1 \in DOMAIN Tail(chan[s]) /\ Tail(chan[s])[i - 1] = chan[s][i]
    BY <1>1
  <2> QED  BY <2>1
<1>4. UNCHANGED <<queue, toPush, registered, handler>>
  BY DEF ForwardPush
<1>5. \A t \in Sockets : \A r : OnTheWay(t, r) => OnTheWay(t, r)'
  <2> SUFFICES ASSUME NEW t \in Sockets, NEW r, OnTheWay(t, r)
               PROVE  OnTheWay(t, r)'
    OBVIOUS
  <2>1. CASE t = s  BY <1>2, <1>3, <1>4, <2>1 DEF OnTheWay
  <2>2. CASE t # s  BY <1>2, <1>4, <2>2 DEF OnTheWay
  <2> QED  BY <2>1, <2>2
<1> QED  BY <1>4, <1>5 DEF Served, Live

\* An ack takes the row of a pending frame off the queue with the frame.
LEMMA ServedHandleAck ==
  ASSUME TypeOK, Served, NEW s \in Sockets, NEW i \in acks[s], HandleAck(s, i)
  PROVE  Served'
<1>1. /\ pending' = [pending EXCEPT ![s] = @ \ Acked(s, i)]
      /\ queue' = queue \ {fr.row : fr \in Acked(s, i)}
      /\ UNCHANGED <<toPush, registered, handler, chan>>
  BY DEF HandleAck
<1>2. \A t \in Sockets, r \in queue' :
        \A fr \in pending[t] : fr.row = r => fr \in pending'[t]
  BY <1>1 DEF TypeOK, ServerTypes
<1>3. \A t \in Sockets, r \in queue' : OnTheWay(t, r) => OnTheWay(t, r)'
  BY <1>1, <1>2 DEF OnTheWay
<1> QED  BY <1>1, <1>3 DEF Served, Live

\* While nothing fails and no path half-opens, every queued row is on its way
\* to an app whose socket has drained: registration precedes the drain.
THEOREM NoRowStranded ==
  ASSUME MaxFaults = 0, ~HalfOpen
  PROVE  Spec => []NoStrandedRow
<1>1. Init => Served  BY DEF Init, Served, Live
<1>2. TypeOK /\ Served /\ [Next]_vars => Served'
  <2> SUFFICES ASSUME TypeOK, Served, [Next]_vars  PROVE  Served'
    OBVIOUS
  <2>1. ~Fault  BY DEF Fault, TypeOK, FateTypes
  <2>2. CASE UNCHANGED vars  BY <2>2, ServedKept DEF vars
  <2>3. CASE ServerNext
    BY <2>1, <2>3, ServedKept, ServedEnqueue, ServedPush, ServedDrain,
       ServedEnds, ServedForward, ServedHandleAck
       DEF ServerNext, Serve, SendAborts, DrainSkipped, BreakLink, ExpireRow
  <2>4. CASE AppNext
    BY <2>4, ServedKept, ServedConnect
       DEF AppNext, Receive, TakeDecrypts, TakeDuplicate, TakeFails, Persist,
           PersistFails, AckDelivery, LeaveSocket, EnterBackground, Suspend,
           Resume, AppKilled
  <2>5. CASE ExtNext
    BY <2>5, ServedKept
       DEF ExtNext, ExtTurn, ExtFetch, ExtDecrypts, ExtDuplicate, ExtFails,
           ExtPersist, ExtPersistFails, ExtAck, BatchAcked, ExtKilled
  <2> QED  BY <2>2, <2>3, <2>4, <2>5 DEF Next
<1>3. TypeOK /\ Served => NoStrandedRow
  <2>1. TypeOK => (sock # NoSocket => sock \in Sockets)
    BY DEF TypeOK, AppTypes
  <2> QED  BY <2>1 DEF Served, OnTheWay, NoStrandedRow, InTransit
<1> QED  BY <1>1, <1>2, <1>3, TypeCorrect, PTL DEF Spec

(* An ack follows the durable write. *)

\* The device has all it will ever have of row r's message.
Safe(r) == Stored(rowCt[r]) \/ rowCt[r] \in Blocked

\* Nothing is lost without a fault; the extension stays away; and what the app
\* has finished with, what is acked and what is deleted is safe.
Durable ==
    /\ skipped = {} /\ killed = {} /\ unsaved = {} /\ ext = NoBatch
    /\ work.stage = "done" => Safe(work.row)
    /\ \A s \in Sockets : \A p \in pending[s] : p.id \in acks[s] => Safe(p.row)
    /\ \A r \in released : Safe(r)

\* A safe row stays safe: the history only grows.
LEMMA SafeGrows ==
  ASSUME TypeOK, UNCHANGED rowCt \/ (\E c \in Ciphertexts : Enqueue(c)),
         history \subseteq history'
  PROVE  \A r \in Rows : Safe(r) => Safe(r)'
<1>1. \A r \in Rows : rowCt'[r] = rowCt[r]  BY RowsGrow
<1>2. history \subseteq Rows  BY DEF TypeOK, StoreTypes
<1> QED  BY <1>1, <1>2 DEF Safe, Stored

\* A decrypted message that is in no hand is safe, if nothing is ever lost.
LEMMA OpenedIsSafe ==
  ASSUME IInv, Durable, NEW r \in Rows, rowCt[r] \in consumed,
         ~InHand(rowCt[r])
  PROVE  Safe(r)
  BY DEF IInv, NothingVanishes, OpenedAccounted, Kept, Durable, Safe

\* Steps without a new ack, a finished delivery or a deleted row.
LEMMA DurableKept ==
  ASSUME TypeOK, Durable,
         UNCHANGED rowCt \/ (\E c \in Ciphertexts : Enqueue(c)),
         UNCHANGED <<skipped, killed, unsaved, ext, released>>,
         work' = work \/ work'.stage # "done", history \subseteq history',
         \A s \in Sockets : acks'[s] \subseteq acks[s]
                           /\ pending'[s] \subseteq pending[s]
  PROVE  Durable'
<1>1. \A r \in Rows : Safe(r) => Safe(r)'  BY SafeGrows
<1>2. /\ \A s \in Sockets : \A p \in pending[s] : p.row \in Rows
      /\ released \subseteq Rows
      /\ work.stage = "done" => work.row \in Rows
  BY DEF TypeOK, ServerTypes, FateTypes, AppTypes, Frames, Items, Idle
<1> QED  BY <1>1, <1>2 DEF Durable

\* New pending frames have ids that no ack on the way has.
LEMMA DurableSends ==
  ASSUME IInv, Durable, NEW s \in Sockets, DrainOnConnect(s) \/ ForwardPush(s)
  PROVE  Durable'
<1>1. TypeOK /\ Wire(s)  BY DEF IInv
<1>2. \A r \in Rows : Safe(r) => Safe(r)'
  BY <1>1, SafeGrows DEF DrainOnConnect, ForwardPush
<1>3. /\ \A t \in Sockets : \A p \in pending[t] : p.row \in Rows
      /\ released \subseteq Rows
      /\ work.stage = "done" => work.row \in Rows
  BY <1>1 DEF TypeOK, ServerTypes, FateTypes, AppTypes, Frames, Items, Idle
<1>4. UNCHANGED <<acks, skipped, killed, unsaved, ext, work, released>>
  BY DEF DrainOnConnect, ForwardPush
<1>5. \A t \in Sockets : t # s => pending'[t] = pending[t]
  BY <1>1 DEF DrainOnConnect, ForwardPush, TypeOK, ServerTypes
<1>6. \A p \in pending'[s] : p \in pending[s] \/ p.id \notin acks[s]
  <2>1. CASE DrainOnConnect(s)
    BY <1>1, <2>1 DEF DrainOnConnect, Wire
  <2>2. CASE ForwardPush(s)
    <3>1. /\ pending'[s] = pending[s] \cup {Frame(sent[s] + 1, Head(chan[s]))}
          /\ handler[s] = "serving" /\ sent[s] \in Nat
      BY <1>1, <2>2 DEF ForwardPush, NextId, TypeOK, ServerTypes
    <3>2. sent[s] + 1 \notin acks[s]
      BY <1>1, <3>1 DEF Wire
    <3> QED  BY <3>1, <3>2 DEF Frame
  <2> QED  BY <2>1, <2>2
<1> QED  BY <1>2, <1>3, <1>4, <1>5, <1>6 DEF Durable

\* A row deleted by an ack was safe when the ack was sent.
LEMMA DurableHandleAck ==
  ASSUME IInv, Durable, NEW s \in Sockets, NEW i \in acks[s], HandleAck(s, i)
  PROVE  Durable'
<1>1. TypeOK  BY DEF IInv
<1>2. \A r \in queue \ queue' : Safe(r)
  <2>1. \A r \in queue \ queue' : \E p \in pending[s] : p.id = i /\ p.row = r
    BY DEF HandleAck, Acked
  <2> QED  BY <2>1 DEF Durable
<1>3. /\ UNCHANGED <<rowCt, history, work, skipped, killed, unsaved, ext>>
      /\ released' = released \cup (queue \ queue')
      /\ \A t \in Sockets : acks'[t] \subseteq acks[t]
                            /\ pending'[t] \subseteq pending[t]
  BY <1>1 DEF HandleAck, TypeOK, ServerTypes, NetTypes
<1>4. \A r : Safe(r)' <=> Safe(r)  BY <1>3 DEF Safe, Stored
<1> QED  BY <1>2, <1>3, <1>4 DEF Durable

\* Sending an ack adds that ack at most, and on that socket only.
LEMMA AckSent ==
  ASSUME TypeOK, NEW s \in Sockets, NEW i, SendAck(s, i)
  PROVE  \A t \in Sockets :
           \A j \in acks'[t] : j \in acks[t] \/ (t = s /\ j = i)
<1> SUFFICES ASSUME NEW t \in Sockets, NEW j \in acks'[t]
             PROVE  j \in acks[t] \/ (t = s /\ j = i)
  OBVIOUS
<1>1. CASE t = s  BY <1>1 DEF SendAck, TypeOK, NetTypes
<1>2. CASE t # s  BY <1>2 DEF SendAck, TypeOK, NetTypes
<1> QED  BY <1>1, <1>2

\* A repeated message, acked to skip, is safe: it is not in hand.
LEMMA DurableDuplicate ==
  ASSUME IInv, Durable, NEW s \in Sockets, TakeDuplicate(s)
  PROVE  Durable'
<1>1. TypeOK /\ Wire(s)  BY DEF IInv
<1>2. NextFrame(s) /\ work = Idle  BY DEF TakeDuplicate, NextFrame
<1> DEFINE h == Head(frames[s])
<1>3. h \in Frames /\ h \in InFlight(s)
  BY <1>1, <1>2, TakenFrame
<1>4. /\ SendAck(s, h.id) /\ rowCt[h.row] \in consumed
      /\ UNCHANGED <<rowCt, history, work, skipped, killed, unsaved, ext,
                     pending, released>>
  BY DEF TakeDuplicate, NextCt
<1> HIDE DEF h
<1>5. Safe(h.row)
  <2>1. \A c : ~InHand(c)
    BY <1>2 DEF Durable, InHand, Holds, Idle, NoBatch
  <2>2. h.row \in Rows  BY <1>3 DEF Frames
  <2> QED  BY <1>4, <2>1, <2>2, OpenedIsSafe
<1>6. \A t \in Sockets : \A i \in acks'[t] : i \in acks[t] \/ (t = s /\ i = h.id)
  BY <1>1, <1>4, AckSent
<1>7. \A p \in pending[s] : p.id = h.id => Safe(p.row)
  BY <1>1, <1>3, <1>5 DEF Wire
<1>8. \A r : Safe(r)' <=> Safe(r)  BY <1>4 DEF Safe, Stored
<1> QED  BY <1>4, <1>6, <1>7, <1>8 DEF Durable

\* A finished delivery is one whose message has been saved or dropped.
LEMMA DurablePersist ==
  ASSUME IInv, Durable, Persist
  PROVE  Durable'
<1>1. TypeOK /\ work.stage = "decrypted" /\ work \in Items
  BY DEF IInv, Persist, TypeOK, AppTypes, Idle
<1>2. /\ history' = SavedHistory(work) /\ work' = Done(work)
      /\ UNCHANGED <<rowCt, skipped, killed, unsaved, ext, pending, acks,
                     released>>
  BY DEF Persist
<1>3. /\ work'.row = work.row
      /\ rowCt[work.row] \in Blocked \/ work.row \in history'
  BY <1>1, <1>2 DEF Done, Items, SavedHistory
<1>4. Safe(work.row)'  BY <1>2, <1>3 DEF Safe, Stored
<1>5. \A r \in Rows : Safe(r) => Safe(r)'
  BY <1>1, <1>2, SafeGrows DEF SavedHistory
<1>6. /\ \A s \in Sockets : \A p \in pending[s] : p.row \in Rows
      /\ released \subseteq Rows
  BY <1>1 DEF TypeOK, ServerTypes, FateTypes, Frames
<1> QED  BY <1>2, <1>4, <1>5, <1>6 DEF Durable

\* The ack of a finished delivery names its row.
LEMMA DurableAckDelivery ==
  ASSUME IInv, Durable, AckDelivery
  PROVE  Durable'
<1>1. TypeOK  BY DEF IInv
<1>2. /\ work.stage = "done" /\ SendAck(sock, work.id) /\ work' = Idle
      /\ UNCHANGED <<rowCt, history, skipped, killed, unsaved, ext, pending,
                     released>>
  BY DEF AckDelivery
<1>3. work # Idle /\ sock \in Sockets
  BY <1>1, <1>2 DEF TypeOK, AppTypes, Idle
<1>4. Frame(work.id, work.row) \in InFlight(sock)
  BY <1>3 DEF InFlight
<1>5. \A p \in pending[sock] : p.id = work.id => Safe(p.row)
  <2>1. /\ Frame(work.id, work.row).id = work.id
        /\ Frame(work.id, work.row).row = work.row
    BY DEF Frame
  <2>2. Wire(sock)  BY <1>3 DEF IInv
  <2> QED  BY <1>2, <1>4, <2>1, <2>2 DEF Wire, Durable
<1>6. \A t \in Sockets :
        \A i \in acks'[t] : i \in acks[t] \/ (t = sock /\ i = work.id)
  BY <1>1, <1>2, <1>3, AckSent
<1>7. \A r : Safe(r)' <=> Safe(r)  BY <1>2 DEF Safe, Stored
<1>8. work'.stage # "done"  BY <1>2 DEF Idle
<1> QED  BY <1>2, <1>5, <1>6, <1>7, <1>8 DEF Durable

\* While nothing fails and the extension stays away, the server deletes its
\* copy only of messages durably on the device, or from a blocked sender.
THEOREM AcksAreDurable ==
  ASSUME MaxFaults = 0, ~Extension
  PROVE  Spec => []AckAfterDurableWrite
<1>1. Init => Durable  BY DEF Init, Durable, Idle
<1>2. IInv /\ Durable /\ [Next]_vars => Durable'
  <2> SUFFICES ASSUME IInv, Durable, [Next]_vars  PROVE  Durable'
    OBVIOUS
  <2>1. TypeOK /\ ~Fault  BY DEF Fault, IInv, TypeOK, FateTypes
  <2>2. CASE UNCHANGED vars  BY <2>1, <2>2, DurableKept DEF vars
  <2>3. CASE ServerNext
    <3>1. CASE \E c \in Ciphertexts : Enqueue(c)
      BY <2>1, <3>1, DurableKept DEF Enqueue
    <3>2. CASE \E r \in toPush : Push(r)
      BY <2>1, <3>2, DurableKept DEF Push, PushToSocket, PushWakeup
    <3>3. CASE \E s \in Sockets : DrainOnConnect(s) \/ ForwardPush(s)
      BY <3>3, DurableSends
    <3>4. CASE \E s \in Sockets : \E i \in acks[s] : HandleAck(s, i)
      BY <3>4, DurableHandleAck
    <3>5. CASE (\E s \in Sockets : DrainFails(s) \/ EndSocket(s)) \/ ServerRestart
      <4>1. PICK S \in SUBSET Sockets : CloseHandlers(S)
        BY <3>5 DEF DrainFails, EndSocket, ServerRestart
      <4>2. \A t \in Sockets : acks'[t] \subseteq acks[t]
                              /\ pending'[t] \subseteq pending[t]
        BY <4>1 DEF CloseHandlers, Without
      <4> QED
        BY <2>1, <3>5, <4>2, DurableKept
           DEF DrainFails, EndSocket, ServerRestart
    <3>6. CASE \E s \in Sockets : BreakLink(s)
      <4>1. PICK s \in Sockets : BreakLink(s)  BY <3>6
      <4>2. \A t \in Sockets : acks'[t] \subseteq acks[t]
        BY <2>1, <4>1 DEF BreakLink, TypeOK, NetTypes
      <4> QED  BY <2>1, <4>1, <4>2, DurableKept DEF BreakLink
    <3>7. CASE \E r \in queue : ExpireRow(r)
      BY <2>1, <3>7, DurableKept DEF ExpireRow
    <3> QED
      BY <2>1, <2>3, <3>1, <3>2, <3>3, <3>4, <3>5, <3>6, <3>7
         DEF ServerNext, Serve, SendAborts, DrainSkipped
  <2>4. CASE AppNext
    <3>1. CASE \E s \in Sockets : TakeDuplicate(s)  BY <3>1, DurableDuplicate
    <3>2. CASE Persist  BY <3>2, DurablePersist
    <3>3. CASE AckDelivery  BY <3>3, DurableAckDelivery
    <3>4. CASE \E s \in Sockets : TakeDecrypts(s)
      BY <2>1, <3>4, DurableKept DEF TakeDecrypts, Item
    <3>5. CASE (\E s \in Sockets : Connect(s)) \/ LeaveSocket
               \/ EnterBackground \/ Suspend \/ Resume
      BY <2>1, <3>5, DurableKept
         DEF Connect, LeaveSocket, EnterBackground, Suspend, Resume
    <3> QED
      BY <2>1, <2>4, <3>1, <3>2, <3>3, <3>4, <3>5
         DEF AppNext, Receive, TakeFails, PersistFails, AppKilled
  <2>5. CASE ExtNext
    BY <2>1, <2>5
       DEF ExtNext, ExtTurn, ExtFetch, ExtDecrypts, ExtDuplicate, ExtFails,
           ExtPersist, ExtPersistFails, ExtAck, ExtKilled, Durable, NoBatch,
           Idle
  <2> QED  BY <2>2, <2>3, <2>4, <2>5 DEF Next
<1>3. Durable => AckAfterDurableWrite
  BY DEF Durable, Safe, AckAfterDurableWrite
<1> QED  BY <1>1, <1>2, <1>3, Inductive, PTL DEF Spec
=============================================================================
