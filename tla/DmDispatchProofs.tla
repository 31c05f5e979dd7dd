--------------------------- MODULE DmDispatchProofs ---------------------------
(***************************************************************************)
(* Proofs about DmDispatch, for any senders, devices, pools, messages,     *)
(* registrations and faults: the types of the state, KeysServe and         *)
(* SendsHold.                                                              *)
(*                                                                         *)
(* The inductive invariant, DispatchInv at the end, has four parts, each   *)
(* kept with the help of those before it:                                  *)
(*                                                                         *)
(*   TypeOK, Shapes  what a running send or refill looks like, and that a  *)
(*                   sender waits for at most one request;                 *)
(*   KeysInv         where a one-time key is: offered, held, on its way to *)
(*                   the server, or given for one session whose envelopes  *)
(*                   the device can open as long as it has that            *)
(*                   registration;                                         *)
(*   BatchInv        one envelope per message, device and attempt, and a   *)
(*                   second attempt only for a message that was retried;   *)
(*   SendInv         what a running send has still to do, what of it has   *)
(*                   arrived, and which devices can still turn it down.    *)
(*                                                                         *)
(* Around, the set of all envelopes there are, carries the second and the  *)
(* third part: only a sender that encrypts adds to it.                     *)
(***************************************************************************)
EXTENDS DmDispatch, FiniteSetTheorems, WellFoundedInduction, TLAPS

(* What the types of records do not say. *)
Begun(s) == job[s].phase # "idle"
Watched(q) == q.awaited => /\ job[q.from].phase = q.via
                           /\ \A p \in reqs : p.from = q.from /\ p.awaited => p = q
Shapes ==
    /\ \A d \in Devices : /\ \A k \in Kinds : IsFiniteSet(pool[d][k])
                          /\ IsFiniteSet(refill[d].keys)
                          /\ refill[d].phase = "make" =>
                                \E k \in Kinds : refill[d].need[k] > 0
    /\ \A q \in reqs : q.rows # <<>> /\ Watched(q)
    /\ \A s \in Senders : Begun(s) =>
          /\ job[s].text \in Texts /\ sentTo[job[s].text] # {}
          /\ job[s].left # <<>> \/ job[s].envs # <<>>
          /\ job[s].phase \in {"bundle", "kyber"} => job[s].left # <<>>
          /\ job[s].phase \in {"ws", "fallback", "http"} => job[s].left = <<>>

(* Every copy of an envelope. *)
Around ==
    (UNION {ToSet(job[s].envs) : s \in Senders})
        \cup (UNION {ToSet(q.rows) : q \in reqs})
        \cup (UNION {ToSet(queue[d]) \cup opened[d] : d \in Devices})

(* A session with d, of s: with a registration that was d's, and with a
   one-time key only if the server gave that key for this session. *)
SessionFits(s, d, g) ==
    /\ g.reg \in 1..reg[d]
    /\ g.ec # 0 => <<d, g.reg, g.ec, s, g.n>> \in given

(* The keys of a device: what is offered, held, and on its way to the server. *)
KeysFit(d) ==
    /\ \A k \in Kinds : 0 \notin pool[d][k] \cup own[d][k] /\ nextKey[d][k] # 0
    /\ ~up[d] => /\ pool[d]["ec"] \subseteq 1..Target /\ pool[d]["kyber"] = {}
                 /\ refill[d] = NoRefill /\ known[d] = {}
    /\ up[d] => \A k \in Kinds : /\ pool[d][k] \subseteq own[d][k]
                                 /\ \A id \in own[d][k] : id < nextKey[d][k]
    /\ refill[d].phase = "upload" =>
          /\ refill[d].keys \subseteq own[d][refill[d].kind]
          /\ refill[d].kind = "ec" =>
                /\ refill[d].keys \cap pool[d]["ec"] = {}
                /\ \A x \in given : x[1] = d /\ x[2] = reg[d] => x[3] \notin refill[d].keys

(* A key given away: gone from the pool, and held until its session is known. *)
GivenFits(x) ==
    LET d == x[1] IN
    /\ x[2] \in 1..reg[d] /\ x[3] # 0
    /\ x[2] = reg[d] =>
          /\ x[3] \notin pool[d]["ec"]
          /\ IF up[d] THEN /\ x[3] < nextKey[d]["ec"]
                           /\ \/ x[3] \in own[d]["ec"]
                              \/ [from |-> x[4], sess |-> [reg |-> x[2], n |-> x[5], ec |-> x[3]]]
                                    \in known[d]
             ELSE x[3] \in 1..Target

DeviceKeys ==
    /\ \A d \in Devices : KeysFit(d)
    /\ \A x \in given : GivenFits(x)
    /\ KeysGoOnce
    /\ \A d \in Devices : /\ \A e \in ToSet(queue[d]) : e.to = d /\ e.sess.reg = reg[d]
                          /\ unopened[d] = {}

(* The sessions senders have, make, and have used. *)
JobKeys(s) ==
    /\ \A d \in ToSet(job[s].left) : reg[d] # 0
    /\ job[s].phase = "bundle" => job[s].got.reg \in 1..reg[Head(job[s].left)]
    /\ job[s].phase = "kyber" => SessionFits(s, Head(job[s].left), job[s].got)
SenderKeys ==
    /\ \A s \in Senders, d \in Devices :
          session[s][d] = NoSession \/ SessionFits(s, d, session[s][d])
    /\ \A s \in Senders : JobKeys(s)
    /\ \A t \in Texts : \A d \in sentTo[t] : reg[d] # 0
    /\ \A e \in Around : SessionFits(e.from, e.to, e.sess)
KeysInv == DeviceKeys /\ SenderKeys

(* One envelope per message, device and attempt. *)
Alike(e, f) == e.text = f.text /\ e.to = f.to /\ e.again = f.again
Unmade(s) ==
    \A e \in Around : e.text = job[s].text =>
        /\ e.again = job[s].again => e.to \notin ToSet(job[s].left)
        /\ e.again => job[s].again
JobFits(s) ==
    /\ job[s].text \in 1..sends /\ Increasing(job[s].left) /\ Unmade(s)
    /\ job[s].again => job[s].text \in retried
BatchInv ==
    /\ \A e, f \in Around : Alike(e, f) => e = f
    /\ \A e \in Around : e.text <= sends /\ (e.again => e.text \in retried)
    /\ \A d \in Devices : \A e \in opened[d] : e.to = d
    /\ \A s \in Senders : Begun(s) => JobFits(s)
    /\ \A r, s \in Senders : Begun(r) /\ Begun(s) /\ job[r].text = job[s].text => r = s

(* What is left to do, and how a send may still fail. *)
Calm(s) == made = start[job[s].text].made
SendFits(s) ==
    LET j == job[s]
        t == j.text IN
    /\ j.phase \in {"ws", "fallback"} => ~j.again
    /\ ~j.again <=> j.force = {}
    /\ outcome[t] = "none" /\ start[t].made <= made
    /\ ToSet(j.left) \subseteq sentTo[t]
    /\ \A d \in sentTo[t] : d \in ToSet(j.left) \/ \E e \in ToSet(j.envs) : e.to = d
    /\ \A e \in ToSet(j.envs) : e.text = t /\ e.from = s
    /\ Calm(s) =>
          /\ j.phase \in {"bundle", "kyber"} => j.got.reg = reg[Head(j.left)]
          /\ Stale(s) \cup j.force \subseteq start[t].stale
          /\ \A e \in ToSet(j.envs) : e.sess.reg # reg[e.to] => e.to \in start[t].stale \ j.force
Arrived(t, d) == \E r \in 1..reg[d] : <<t, d, r>> \in accepted
RequestFits(q) ==
    LET j == job[q.from] IN
    /\ ToSet(q.rows) \subseteq ToSet(j.envs)
    /\ q.state = "runs" =>
          \A d \in sentTo[j.text] : Arrived(j.text, d) \/ \E e \in ToSet(q.rows) : e.to = d
    /\ q.state = "ok" => \A d \in sentTo[j.text] : Arrived(j.text, d)
    /\ q.state = "stale" /\ Calm(q.from) => Head(q.rows).sess.reg # reg[Head(q.rows).to]
AcceptedFits(x) ==
    /\ x[3] \in 1..reg[x[2]]
    /\ x[3] = reg[x[2]] => \E c \in opened[x[2]] \cup ToSet(queue[x[2]]) : c.text = x[1]
Ended(t) ==
    /\ outcome[t] = "sent" => \A d \in sentTo[t] : Arrived(t, d)
    /\ outcome[t] = "failed" /\ faults = 0 =>
          made > start[t].made \/ \E d, e \in start[t].stale : d # e
    /\ t > sends => outcome[t] = "none"
SendInv ==
    /\ \A s \in Senders : Begun(s) => SendFits(s)
    /\ \A q \in reqs : q.awaited => RequestFits(q)
    /\ \A x \in accepted : AcceptedFits(x)
    /\ \A t \in Texts : Ended(t)

----------------------------------------------------------------------------
(* Sequences and numbers *)

Below == {ss \in Nat \X Nat : ss[1] < ss[2]}

LEMMA LeastNat ==
  ASSUME NEW T \in SUBSET Nat, T # {}
  PROVE  \E n \in T : \A m \in T : n <= m
<1>1. IsWellFoundedOn(Below, Nat)
  BY NatLessThanWellFounded DEF OpToRel, Below
<1>2. PICK n \in T : \A m \in T : ~(<<m, n>> \in Below)
  BY <1>1, WFMin
<1>3. ASSUME NEW m \in T  PROVE n <= m
  <2>1. <<m, n>> \notin Below  BY <1>2
  <2>2. <<m, n>> \in Nat \X Nat /\ <<m, n>>[1] = m /\ <<m, n>>[2] = n  OBVIOUS
  <2>3. ~(m < n)  BY <2>1, <2>2 DEF Below
  <2> QED  BY <2>3
<1> QED  BY <1>3

LEMMA UpTo ==
  ASSUME NEW N \in Nat, NEW T, 0 \in T,
         \A n \in 0..N : n < N /\ n \in T => n + 1 \in T
  PROVE  \A n \in 0..N : n \in T
<1> DEFINE Out == {n \in 0..N : n \notin T}
<1>1. SUFFICES ASSUME Out # {}  PROVE FALSE
  OBVIOUS
<1>2. PICK n \in Out : \A m \in Out : n <= m
  <2> Out \in SUBSET Nat  OBVIOUS
  <2> HIDE DEF Out
  <2> QED  BY <1>1, LeastNat
<1>3. n \in Nat /\ n # 0 /\ n - 1 \in 0..N /\ n - 1 < N  OBVIOUS
<1>4. n - 1 \in T  BY <1>2, <1>3
<1> QED  BY <1>3, <1>4

LEMMA SeqSets ==
  ASSUME NEW S, NEW s \in Seq(S)
  PROVE  /\ ToSet(s) \subseteq S /\ DOMAIN s = 1..Len(s) /\ Len(s) \in Nat
         /\ \A i \in DOMAIN s : s[i] \in ToSet(s)
  BY DEF ToSet

LEMMA EmptySet == ToSet(<<>>) = {}
  BY DEF ToSet

LEMMA AppendSet ==
  ASSUME NEW S, NEW s \in Seq(S), NEW x \in S
  PROVE  /\ Append(s, x) \in Seq(S) /\ ToSet(Append(s, x)) = ToSet(s) \cup {x}
         /\ DOMAIN Append(s, x) = 1..(Len(s) + 1) /\ Append(s, x) # <<>>
         /\ \A i \in DOMAIN s : Append(s, x)[i] = s[i]
         /\ Append(s, x)[Len(s) + 1] = x
<1> DEFINE t == Append(s, x)
<1>1. /\ t \in Seq(S) /\ Len(t) = Len(s) + 1 /\ Len(s) \in Nat /\ t[Len(s) + 1] = x /\ t # <<>>
      /\ DOMAIN t = 1..(Len(s) + 1) /\ DOMAIN s = 1..Len(s)
      /\ \A i \in 1..Len(s) : t[i] = s[i]
  OBVIOUS
<1> HIDE DEF t
<1>2. \A y \in ToSet(t) : y \in ToSet(s) \cup {x}
  <2> SUFFICES ASSUME NEW i \in 1..(Len(s) + 1)  PROVE t[i] \in ToSet(s) \cup {x}
    BY <1>1 DEF ToSet
  <2>1. i \in 1..Len(s) \/ i = Len(s) + 1  BY <1>1
  <2> QED  BY <1>1, <2>1 DEF ToSet
<1>3. \A y \in ToSet(s) : y \in ToSet(t)
  <2> SUFFICES ASSUME NEW i \in 1..Len(s)  PROVE s[i] \in ToSet(t)
    BY <1>1 DEF ToSet
  <2>1. i \in 1..(Len(s) + 1) /\ t[i] = s[i]  BY <1>1
  <2> QED  BY <1>1, <2>1 DEF ToSet
<1>4. x \in ToSet(t)
  <2>1. Len(s) + 1 \in 1..(Len(s) + 1)  BY <1>1
  <2> QED  BY <1>1, <2>1 DEF ToSet
<1> QED  BY <1>1, <1>2, <1>3, <1>4 DEF t

LEMMA HeadTailSet ==
  ASSUME NEW S, NEW s \in Seq(S), s # <<>>
  PROVE  /\ Head(s) \in S /\ Tail(s) \in Seq(S) /\ Head(s) = s[1] /\ 1 \in DOMAIN s
         /\ ToSet(s) = {Head(s)} \cup ToSet(Tail(s))
         /\ Len(Tail(s)) = Len(s) - 1 /\ DOMAIN Tail(s) = 1..(Len(s) - 1)
         /\ \A i \in DOMAIN Tail(s) : i + 1 \in DOMAIN s /\ Tail(s)[i] = s[i + 1]
<1> DEFINE t == Tail(s)
<1>1. /\ Head(s) \in S /\ t \in Seq(S) /\ Head(s) = s[1] /\ 1 \in DOMAIN s
      /\ Len(s) \in Nat /\ Len(t) = Len(s) - 1 /\ DOMAIN t = 1..(Len(s) - 1)
      /\ DOMAIN s = 1..Len(s) /\ \A i \in 1..(Len(s) - 1) : t[i] = s[i + 1]
  OBVIOUS
<1> HIDE DEF t
<1>2. \A i \in DOMAIN t : i + 1 \in DOMAIN s /\ t[i] = s[i + 1]
  BY <1>1
<1>3. \A y \in ToSet(t) : y \in ToSet(s)
  BY <1>2 DEF ToSet
<1>4. \A y \in ToSet(s) : y = s[1] \/ y \in ToSet(t)
  <2> SUFFICES ASSUME NEW i \in DOMAIN s, i # 1  PROVE s[i] \in ToSet(t)
    BY DEF ToSet
  <2>1. i - 1 \in 1..(Len(s) - 1)  BY <1>1
  <2>2. i - 1 \in DOMAIN t /\ t[i - 1] = s[(i - 1) + 1] /\ (i - 1) + 1 = i
    BY <1>1, <2>1
  <2> QED  BY <2>2 DEF ToSet
<1>5. s[1] \in ToSet(s)  BY <1>1 DEF ToSet
<1> QED  BY <1>1, <1>2, <1>3, <1>4, <1>5 DEF t

LEMMA MinIsIn ==
  ASSUME NEW T \in SUBSET Nat, T # {}
  PROVE  Min(T) \in T
<1>1. PICK n \in T : \A m \in T : n <= m  BY LeastNat
<1> QED  BY <1>1 DEF Min

(* The list of n is the list of n - 1, and n if it is there. *)
Lists(S, q, n) ==
    /\ \E m \in 0..n : q \in [1..m -> S]
    /\ ToSet(q) = S \cap 1..n /\ Increasing(q)

LEMMA ListsNext ==
  ASSUME NEW S \in SUBSET Devices, NEW n \in Nat, NEW q, Lists(S, q, n)
  PROVE  \E r : Lists(S, r, n + 1)
<1>1. PICK m \in 0..n : q \in [1..m -> S]  BY DEF Lists
<1>2. ToSet(q) = S \cap 1..n /\ Increasing(q)  BY DEF Lists
<1>3. 1..(n + 1) = 1..n \cup {n + 1}  OBVIOUS
<1>4. CASE n + 1 \notin S
  <2>1. m \in 0..(n + 1) /\ S \cap 1..(n + 1) = S \cap 1..n  BY <1>3, <1>4
  <2>2. Lists(S, q, n + 1)  BY <1>1, <1>2, <2>1 DEF Lists
  <2> QED  BY <2>2
<1>5. CASE n + 1 \in S
  <2> DEFINE r == [i \in 1..(m + 1) |-> IF i = m + 1 THEN n + 1 ELSE q[i]]
  <2>1. m + 1 \in 0..(n + 1) /\ r \in [1..(m + 1) -> S]  BY <1>1, <1>5
  <2>2. /\ DOMAIN r = 1..(m + 1) /\ r[m + 1] = n + 1 /\ m + 1 \in 1..(m + 1)
        /\ \A i \in 1..m : i \in 1..(m + 1) /\ r[i] = q[i]
        /\ \A i \in 1..(m + 1) : i \in 1..m \/ i = m + 1
        /\ DOMAIN q = 1..m
    BY <1>1
  <2> HIDE DEF r
  <2>3. ToSet(r) = ToSet(q) \cup {n + 1}  BY <2>2 DEF ToSet
  <2>4. S \cap 1..(n + 1) = ToSet(q) \cup {n + 1}  BY <1>2, <1>3, <1>5
  <2>5. \A i \in 1..m : q[i] \in 1..n  BY <1>1, <1>2, <2>2 DEF ToSet
  <2>6. ASSUME NEW i \in 1..(m + 1), NEW j \in 1..(m + 1), i < j  PROVE r[i] < r[j]
    <3>1. i \in 1..m  BY <1>1, <2>6
    <3>2. CASE j \in 1..m
      <4>1. q[i] < q[j]  BY <1>2, <2>2, <2>6, <3>1, <3>2 DEF Increasing
      <4> QED  BY <2>2, <3>1, <3>2, <4>1
    <3>3. CASE j = m + 1
      <4>1. q[i] \in 1..n /\ r[i] = q[i] /\ r[j] = n + 1  BY <2>2, <2>5, <3>1, <3>3
      <4>2. r[i] \in Nat /\ r[i] <= n  BY <4>1
      <4> QED  BY <4>1, <4>2
    <3> QED  BY <2>2, <3>2, <3>3
  <2>7. Lists(S, r, n + 1)  BY <2>1, <2>2, <2>3, <2>4, <2>6 DEF Lists, Increasing
  <2> QED  BY <2>7
<1> QED  BY <1>4, <1>5

\* ORDER BY gives each device once, in order.
LEMMA InOrderIs ==
  ASSUME NEW S \in SUBSET Devices
  PROVE  InOrder(S) \in Seq(Devices) /\ ToSet(InOrder(S)) = S /\ Increasing(InOrder(S))
<1> DEFINE T == {n \in 0..MaxDevice : \E q : Lists(S, q, n)}
<1>0. MaxDevice \in Nat  BY DeviceAssumption
<1>1. 0 \in T
  <2> DEFINE q0 == [i \in 1..0 |-> 0]
  <2>1. q0 \in [1..0 -> S] /\ ToSet(q0) = S \cap 1..0 /\ Increasing(q0)
    BY DEF ToSet, Increasing
  <2>2. Lists(S, q0, 0)  BY <2>1 DEF Lists
  <2> QED  BY <1>0, <2>2
<1>2. ASSUME NEW n \in 0..MaxDevice, n < MaxDevice, n \in T  PROVE n + 1 \in T
  <2>1. PICK q : Lists(S, q, n)  BY <1>2
  <2>2. \E r : Lists(S, r, n + 1)  BY <2>1, ListsNext
  <2> QED  BY <1>0, <1>2, <2>2
<1>3. \E q : Lists(S, q, MaxDevice)
  <2> HIDE DEF T
  <2>1. MaxDevice \in T  BY <1>0, <1>1, <1>2, UpTo
  <2> QED  BY <2>1 DEF T
<1> DEFINE Q == UNION {[1..n -> S] : n \in 0..MaxDevice}
           Right(q) == ToSet(q) = S /\ Increasing(q)
<1>4. \E q \in Q : Right(q)
  <2>1. PICK q : Lists(S, q, MaxDevice)  BY <1>3
  <2>2. S \cap 1..MaxDevice = S  BY DEF Devices
  <2> QED  BY <2>1, <2>2 DEF Lists
<1>5. InOrder(S) \in Q /\ Right(InOrder(S))
  <2> HIDE DEF Q, Right
  <2>1. InOrder(S) = CHOOSE q \in Q : Right(q)  BY DEF InOrder, Q, Right
  <2> QED  BY <1>4, <2>1
<1>6. PICK n \in 0..MaxDevice : InOrder(S) \in [1..n -> S]  BY <1>5
<1>7. InOrder(S) \in Seq(Devices)
  <2>1. n \in Nat /\ InOrder(S) \in [1..n -> Devices]  BY <1>0, <1>6
  <2> QED  BY <2>1
<1> QED  BY <1>5, <1>7

----------------------------------------------------------------------------
(* Types *)

LEMMA EnvelopeTyped ==
  ASSUME TypeOK, NEW s \in Senders, job[s].left # <<>>, NEW g \in Sessions,
         job[s].text \in Texts
  PROVE  Envelope(s, Head(job[s].left), g) \in Envelopes /\ Encrypted(s, Head(job[s].left), g) \in Jobs
<1> DEFINE d == Head(job[s].left)
           e == Envelope(s, d, g)
<1>1. job[s] \in Jobs  BY DEF TypeOK
<1>2. job[s].left \in Seq(Devices) /\ job[s].envs \in Seq(Envelopes) /\ job[s].again \in BOOLEAN
  BY <1>1 DEF Jobs
<1>3. d \in Devices /\ Tail(job[s].left) \in Seq(Devices)  BY <1>2
<1>4. e \in Envelopes  BY <1>2, <1>3 DEF Envelope, Envelopes
<1>5. Append(job[s].envs, e) \in Seq(Envelopes)  BY <1>2, <1>4
<1>6. NoSession \in Sessions  BY DEF NoSession, Sessions
<1> HIDE DEF e, d
<1>7. Encrypted(s, d, g) \in Jobs
  BY <1>1, <1>3, <1>5, <1>6 DEF Encrypted, Jobs, e
<1> QED  BY <1>4, <1>7 DEF e, d

LEMMA TypeFields ==
  ASSUME TypeOK
  PROVE  /\ \A s \in Senders : /\ job[s] \in Jobs /\ job[s].left \in Seq(Devices)
                               /\ job[s].envs \in Seq(Envelopes) /\ job[s].got \in Sessions
                               /\ \A d \in Devices : session[s][d] \in Sessions
         /\ \A q \in reqs : q \in Requests /\ q.rows \in Seq(Envelopes) /\ q.from \in Senders
         /\ \A d \in Devices : /\ queue[d] \in Seq(Envelopes) /\ refill[d] \in Refills
                               /\ reg[d] \in Nat
                               /\ \A k \in Kinds : pool[d][k] \subseteq Nat /\ own[d][k] \subseteq Nat
                                                   /\ nextKey[d][k] \in Nat
BY DEF TypeOK, Jobs, Requests, Kept

LEMMA TypeInit ==
  ASSUME Init
  PROVE  TypeOK /\ Shapes
<1> USE DEF Init, Kinds
<1>0. MaxSends \in Nat /\ Target \in Nat /\ bound.linked \in SUBSET Devices
  BY BoundAssumption, PoolAssumption
<1>1. NoSession \in Sessions /\ NoJob \in Jobs /\ NoRefill \in Refills
  BY <1>0 DEF NoSession, Sessions, NoJob, Jobs, NoRefill, Refills
<1>2. [k \in Kinds |-> 1..Target] \in Kept /\ NoKeys \in Kept
  BY <1>0 DEF Kept, NoKeys
<1>3. pool \in [Devices -> Kept]  BY <1>2
<1>4. bound \in Bounds /\ 0 \in 0..bound.faults  BY BoundAssumption
<1>5. TypeOK
  <2>1. /\ reg \in [Devices -> Nat] /\ made \in Nat /\ up \in [Devices -> BOOLEAN]
        /\ own \in [Devices -> Kept] /\ nextKey \in [Devices -> [Kinds -> Nat]]
    <3>1. reg \in [Devices -> Nat] /\ made \in Nat  OBVIOUS
    <3>2. up \in [Devices -> BOOLEAN] /\ own \in [Devices -> Kept]
      <4>1. up \in [Devices -> BOOLEAN]  OBVIOUS
      <4>2. own = pool  OBVIOUS
      <4> QED  BY <1>3, <4>1, <4>2
    <3>3. [k \in Kinds |-> Target + 1] \in [Kinds -> Nat]  BY <1>0
    <3>4. nextKey \in [Devices -> [Kinds -> Nat]]  BY <3>3
    <3> QED  BY <3>1, <3>2, <3>4
  <2>2. /\ queue \in [Devices -> Seq(Envelopes)]
        /\ opened \in [Devices -> SUBSET Envelopes] /\ unopened \in [Devices -> SUBSET Envelopes]
        /\ known \in [Devices -> SUBSET [from : Senders, sess : Sessions]]
        /\ refill \in [Devices -> Refills] /\ reqs \subseteq Requests
    BY <1>1
  <2>3. session \in [Senders -> [Devices -> Sessions]] /\ job \in [Senders -> Jobs]
    BY <1>1
  <2>4. /\ sends \in 0..MaxSends /\ outcome \in [Texts -> {"none", "sent", "failed"}]
        /\ sentTo \in [Texts -> SUBSET Devices] /\ retried \subseteq Texts
        /\ start \in [Texts -> [made : Nat, stale : SUBSET Devices]]
        /\ accepted \subseteq Texts \X Devices \X Nat
        /\ given \subseteq Devices \X Nat \X Nat \X Senders \X Nat
        /\ bound \in Bounds /\ faults \in 0..bound.faults
    BY <1>0, <1>4
  <2> QED  BY <1>3, <2>1, <2>2, <2>3, <2>4 DEF TypeOK
<1>6. \A d \in Devices, k \in Kinds : IsFiniteSet(pool[d][k])
  <2>1. IsFiniteSet(1..Target) /\ IsFiniteSet({})  BY <1>0, FS_Interval, FS_EmptySet
  <2> QED  BY <2>1 DEF NoKeys
<1>7. \A d \in Devices : IsFiniteSet(refill[d].keys) /\ refill[d].phase = "idle"
  BY FS_EmptySet DEF NoRefill
<1>8. \A s \in Senders : ~Begun(s)  BY DEF Begun, NoJob
<1> QED  BY <1>5, <1>6, <1>7, <1>8 DEF Shapes

\* The parts of Shapes that a step of a sender can touch.
LEMMA ShapesOfSender ==
  ASSUME Shapes, NEW s \in Senders, UNCHANGED <<refill>>,
         \A d \in Devices, k \in Kinds : IsFiniteSet(pool'[d][k]),
         \A q \in reqs' : q.rows # <<>> /\ Watched(q)',
         \A r \in Senders \ {s} : job'[r] = job[r],
         \A t \in Texts : sentTo[t] # {} => sentTo'[t] # {},
         Begun(s)' =>
          /\ job'[s].text \in Texts /\ sentTo'[job'[s].text] # {}
          /\ job'[s].left # <<>> \/ job'[s].envs # <<>>
          /\ job'[s].phase \in {"bundle", "kyber"} => job'[s].left # <<>>
          /\ job'[s].phase \in {"ws", "fallback", "http"} => job'[s].left = <<>>
  PROVE  Shapes'
BY DEF Shapes, Begun

\* The requests somebody waits for, when s starts or stops to wait.
LEMMA WatchedKept ==
  ASSUME TypeOK, Shapes, NEW s \in Senders, job[s].phase \notin {"ws", "http"}, reqs' = reqs,
         \A r \in Senders \ {s} : job'[r] = job[r]
  PROVE  \A q \in reqs' : q.rows # <<>> /\ Watched(q)'
<1> SUFFICES ASSUME NEW q \in reqs  PROVE q.rows # <<>> /\ Watched(q)'
  OBVIOUS
<1>1. q.from \in Senders /\ q.via \in {"ws", "http"}  BY DEF TypeOK, Requests
<1>2. Watched(q) /\ q.rows # <<>>  BY DEF Shapes
<1> QED  BY <1>1, <1>2 DEF Watched

LEMMA WatchedBegins ==
  ASSUME TypeOK, Shapes, NEW s \in Senders, job[s].phase \notin {"ws", "http"},
         NEW p, p.from = s, p.via = job'[s].phase, reqs' = reqs \cup {p},
         \A r \in Senders \ {s} : job'[r] = job[r]
  PROVE  \A q \in reqs' : Watched(q)'
<1> SUFFICES ASSUME NEW q \in reqs'  PROVE Watched(q)'
  OBVIOUS
<1>1. \A r \in reqs : r.awaited => r.from # s /\ r.from \in Senders /\ Watched(r)
  BY DEF TypeOK, Requests, Shapes, Watched
<1> QED  BY <1>1 DEF Watched

LEMMA WatchedEnds ==
  ASSUME TypeOK, Shapes, NEW s \in Senders, NEW q \in reqs, q.from = s, q.awaited,
         \A p \in reqs' : p \in reqs \ {q} \/ (~p.awaited /\ p.rows # <<>>),
         \A r \in Senders \ {s} : job'[r] = job[r]
  PROVE  \A p \in reqs' : p.rows # <<>> /\ Watched(p)'
<1>1. \A r \in reqs : /\ r.awaited => r.from \in Senders /\ Watched(r)
                      /\ r # q /\ r.awaited => r.from # s
                      /\ r.rows # <<>>
  BY DEF TypeOK, Requests, Shapes, Watched
<1> QED  BY <1>1 DEF Watched

LEMMA SendDmTyped ==
  ASSUME TypeOK, Shapes, NEW s \in Senders, SendDm(s)
  PROVE  TypeOK' /\ Shapes'
<1> USE DEF SendDm
<1>0. Registered \in SUBSET Devices /\ sends \in Nat /\ bound \in Bounds /\ bound.sends <= MaxSends
      /\ bound.sends \in Nat /\ MaxSends \in Nat
  BY BoundAssumption DEF Registered, TypeOK
<1>1. sends + 1 \in Texts /\ sends' \in 0..MaxSends  BY <1>0 DEF Texts
<1>2. InOrder(Registered) \in Seq(Devices) /\ InOrder(Registered) # <<>>
  <2>1. InOrder(Registered) \in Seq(Devices) /\ ToSet(InOrder(Registered)) = Registered
    BY <1>0, InOrderIs
  <2> QED  BY <2>1, EmptySet
<1>3. job'[s] \in Jobs /\ job'[s].left # <<>> /\ job'[s].text = sends + 1 /\ job'[s].phase = "encrypt"
  <2>1. NoJob \in Jobs  BY <1>0 DEF NoJob, Jobs, NoSession, Sessions
  <2>2. [NoJob EXCEPT !.phase = "encrypt", !.text = sends + 1, !.left = InOrder(Registered)] \in Jobs
    BY <1>0, <1>1, <1>2, <2>1 DEF Jobs, Texts
  <2> QED  BY <1>2, <2>2 DEF TypeOK, NoJob
<1>4. job' \in [Senders -> Jobs]  BY <1>3 DEF TypeOK
<1>5. start' \in [Texts -> [made : Nat, stale : SUBSET Devices]]
  BY <1>0, <1>1 DEF TypeOK, Stale
<1>6. sentTo' \in [Texts -> SUBSET Devices]  BY <1>0, <1>1 DEF TypeOK
<1>7. TypeOK'
  BY <1>1, <1>4, <1>5, <1>6 DEF TypeOK, device, log
<1>8. sentTo'[sends + 1] # {} /\ \A t \in Texts : sentTo[t] # {} => sentTo'[t] # {}
  BY <1>1 DEF TypeOK
<1>9. \A r \in Senders \ {s} : job'[r] = job[r]  BY DEF TypeOK
<1>10. Shapes'
  BY <1>1, <1>3, <1>8, <1>9, ShapesOfSender, WatchedKept DEF Shapes
<1> QED  BY <1>7, <1>10

LEMMA UseSessionTyped ==
  ASSUME TypeOK, Shapes, NEW s \in Senders, UseSession(s)
  PROVE  TypeOK' /\ Shapes'
<1> DEFINE d == Head(job[s].left)
           j == Encrypted(s, d, session[s][d])
<1>1. job[s].left # <<>> /\ job[s].phase = "encrypt" /\ Begun(s)  BY DEF UseSession, Encrypts, Begun
<1>2. job[s].text \in Texts /\ sentTo[job[s].text] # {}  BY <1>1 DEF Shapes
<1>3. d \in Devices /\ session[s][d] \in Sessions  BY <1>1, TypeFields
<1>4. j \in Jobs  BY <1>1, <1>2, <1>3, EnvelopeTyped
<1>5. Envelope(s, d, session[s][d]) \in Envelopes /\ job[s].envs \in Seq(Envelopes) /\ job[s] \in Jobs
  BY <1>1, <1>2, <1>3, EnvelopeTyped, TypeFields
<1>6. j.envs = Append(job[s].envs, Envelope(s, d, session[s][d])) /\ j.text = job[s].text
      /\ j.phase = "encrypt"
  BY <1>5 DEF Encrypted, Jobs
<1>7. j.envs # <<>>
  <2>1. Append(job[s].envs, Envelope(s, d, session[s][d])) # <<>>  BY <1>5, AppendSet
  <2> QED  BY <1>6, <2>1
<1>8. job' = [job EXCEPT ![s] = j]  BY DEF UseSession
<1> HIDE DEF j
<1>9. job' \in [Senders -> Jobs] /\ job'[s] = j /\ \A r \in Senders \ {s} : job'[r] = job[r]
  BY <1>4, <1>8 DEF TypeOK
<1>10. TypeOK'  BY <1>9 DEF TypeOK, UseSession, device, log
<1>11. Shapes'
  BY <1>1, <1>2, <1>6, <1>7, <1>9, ShapesOfSender, WatchedKept DEF Shapes, UseSession
<1> QED  BY <1>10, <1>11

LEMMA PickKeyTyped ==
  ASSUME TypeOK, Shapes, NEW s \in Senders, PickKey(s)
  PROVE  TypeOK' /\ Shapes'
<1> DEFINE d == Head(job[s].left)
           ks == PoolOf(s, reg[d], "ec")
           g == [reg |-> reg[d], n |-> session[s][d].n + 1, ec |-> IF ks = {} THEN 0 ELSE Min(ks)]
           j == [job[s] EXCEPT !.phase = "bundle", !.got = g]
<1>1. job[s].left # <<>> /\ Begun(s)  BY DEF PickKey, Encrypts, Begun
<1>2. job[s].text \in Texts /\ sentTo[job[s].text] # {}  BY <1>1 DEF Shapes
<1>3. d \in Devices /\ session[s][d] \in Sessions /\ reg[d] \in Nat /\ ks \in SUBSET Nat
  BY <1>1, TypeFields DEF PoolOf, Kinds
<1>4. g \in Sessions  BY <1>3, MinIsIn DEF Sessions
<1> HIDE DEF g
<1>5. j \in Jobs /\ j.text = job[s].text /\ j.left = job[s].left /\ j.phase = "bundle"
  BY <1>4, TypeFields DEF Jobs
<1>6. job' = [job EXCEPT ![s] = j]  BY DEF PickKey, g, TypeOK
<1> HIDE DEF j
<1>7. job' \in [Senders -> Jobs] /\ job'[s] = j /\ \A r \in Senders \ {s} : job'[r] = job[r]
  BY <1>5, <1>6 DEF TypeOK
<1>8. TypeOK'  BY <1>7 DEF TypeOK, PickKey, device, log
<1>9. Shapes'
  BY <1>1, <1>2, <1>5, <1>7, ShapesOfSender, WatchedKept DEF Shapes, PickKey, Encrypts
<1> QED  BY <1>8, <1>9

\* What TakeKey takes: a key that is there, and what changes with it.
TakesKey(s, d, g) ==
    /\ job[s].phase = "bundle" /\ job[s].left # <<>> /\ d = Head(job[s].left)
    /\ g.reg = job[s].got.reg /\ g.n = job[s].got.n
    /\ g.ec # 0 => reg[d] = g.reg /\ g.ec \in pool[d]["ec"]
    /\ pool' \in [Devices -> Kept]
    /\ \A c \in Devices, k \in Kinds : pool'[c][k] =
          IF c = d /\ k = "ec" /\ reg[d] = g.reg THEN pool[c][k] \ {g.ec} ELSE pool[c][k]
    /\ given' = IF g.ec # 0 THEN given \cup {<<d, g.reg, g.ec, s, g.n>>} ELSE given
    /\ job' = [job EXCEPT ![s] = [job[s] EXCEPT !.phase = "kyber", !.got = g]]

LEMMA TakeKeyDoes ==
  ASSUME TypeOK, Shapes, NEW s \in Senders, TakeKey(s)
  PROVE  \E d \in Devices, g \in Sessions : TakesKey(s, d, g)
<1> DEFINE d == Head(job[s].left)
           g == [job[s].got EXCEPT !.ec = Returned(s)]
<1>1. job[s].phase = "bundle" /\ Begun(s)  BY DEF TakeKey, Begun
<1>2. job[s].left # <<>>  BY <1>1 DEF Shapes
<1>3. d \in Devices /\ job[s].got \in Sessions  BY <1>2, TypeFields
<1>4. /\ Returned(s) # 0 => reg[d] = job[s].got.reg /\ Returned(s) \in pool[d]["ec"]
      /\ Returned(s) \in Nat
  BY <1>3, TypeFields DEF Returned, PoolOf, Kinds
<1>5. g \in Sessions /\ g.reg = job[s].got.reg /\ g.n = job[s].got.n /\ g.ec = Returned(s)
  BY <1>3, <1>4 DEF Sessions
<1>6. /\ pool' = IF reg[d] = g.reg THEN [pool EXCEPT ![d]["ec"] = @ \ {g.ec}] ELSE pool
      /\ given' = IF g.ec # 0 THEN given \cup {<<d, g.reg, g.ec, s, g.n>>} ELSE given
      /\ job' = [job EXCEPT ![s] = [job[s] EXCEPT !.phase = "kyber", !.got = g]]
  BY DEF TakeKey, TypeOK
<1> HIDE DEF g, d
<1>7. pool \in [Devices -> Kept]  BY DEF TypeOK
<1>8. pool' \in [Devices -> Kept]  BY <1>3, <1>6, <1>7 DEF Kept, Kinds
<1>9. \A c \in Devices, k \in Kinds : pool'[c][k] =
         IF c = d /\ k = "ec" /\ reg[d] = g.reg THEN pool[c][k] \ {g.ec} ELSE pool[c][k]
  BY <1>3, <1>6, <1>7 DEF Kept
<1>10. TakesKey(s, d, g)  BY <1>1, <1>2, <1>4, <1>5, <1>6, <1>8, <1>9 DEF TakesKey, d
<1> QED  BY <1>3, <1>5, <1>10 DEF d, g

LEMMA TakeKeyTyped ==
  ASSUME TypeOK, Shapes, NEW s \in Senders, TakeKey(s)
  PROVE  TypeOK' /\ Shapes'
<1>0. PICK d \in Devices, g \in Sessions : TakesKey(s, d, g)
  BY TakeKeyDoes
<1>1.
           /\ job[s].phase = "bundle" /\ job[s].left # <<>>
           /\ pool' \in [Devices -> Kept]
           /\ \A c \in Devices, k \in Kinds : pool'[c][k] =
                 IF c = d /\ k = "ec" /\ reg[d] = g.reg THEN pool[c][k] \ {g.ec} ELSE pool[c][k]
           /\ given' = IF g.ec # 0 THEN given \cup {<<d, g.reg, g.ec, s, g.n>>} ELSE given
           /\ job' = [job EXCEPT ![s] = [job[s] EXCEPT !.phase = "kyber", !.got = g]]
  BY <1>0 DEF TakesKey
<1> DEFINE j == [job[s] EXCEPT !.phase = "kyber", !.got = g]
<1>2. j \in Jobs /\ j.text = job[s].text /\ j.left = job[s].left /\ j.phase = "kyber"
  BY TypeFields DEF Jobs
<1> HIDE DEF j
<1>3. job' \in [Senders -> Jobs] /\ job'[s] = j /\ \A r \in Senders \ {s} : job'[r] = job[r]
  BY <1>1, <1>2 DEF TypeOK, j
<1>4. given' \subseteq Devices \X Nat \X Nat \X Senders \X Nat
  BY <1>1 DEF TypeOK, Sessions
<1>5. TypeOK'  BY <1>1, <1>3, <1>4 DEF TypeOK, TakeKey, device
<1>6. \A c \in Devices, k \in Kinds : IsFiniteSet(pool'[c][k])
  <2> SUFFICES ASSUME NEW c \in Devices, NEW k \in Kinds  PROVE IsFiniteSet(pool'[c][k])
    OBVIOUS
  <2>1. pool'[c][k] \subseteq pool[c][k] /\ IsFiniteSet(pool[c][k])  BY <1>1 DEF Shapes
  <2> QED  BY <2>1, FS_Subset
<1>7. Begun(s) /\ job[s].text \in Texts /\ sentTo[job[s].text] # {}  BY <1>1 DEF Shapes, Begun
<1>8. Shapes'
  BY <1>1, <1>2, <1>3, <1>6, <1>7, ShapesOfSender, WatchedKept DEF Shapes, TakeKey
<1> QED  BY <1>5, <1>8

\* The new session, and what is left of the pool.
PoolShrinks(d) ==
    \A c \in Devices, k \in Kinds :
        /\ pool'[c][k] \subseteq pool[c][k]
        /\ (c # d \/ k # "kyber") => pool'[c][k] = pool[c][k]
Settles(s, d, g) ==
    /\ job[s].phase = "kyber" /\ job[s].left # <<>> /\ d = Head(job[s].left) /\ g = job[s].got
    /\ reg[d] = g.reg /\ pool' \in [Devices -> Kept] /\ PoolShrinks(d)
    /\ session' = [session EXCEPT ![s][d] = g]
    /\ job' = [job EXCEPT ![s] = Encrypted(s, d, g)]
    /\ UNCHANGED outcome
GivesUp(s) ==
    /\ job[s].phase = "kyber" /\ reg[Head(job[s].left)] # job[s].got.reg
    /\ Ends(s, "failed") /\ UNCHANGED <<pool, session>>

LEMMA InitiateSessionDoes ==
  ASSUME TypeOK, Shapes, NEW s \in Senders, InitiateSession(s)
  PROVE  GivesUp(s) \/ \E d \in Devices, g \in Sessions : Settles(s, d, g)
<1>1. job[s].phase = "kyber" /\ Begun(s)  BY DEF InitiateSession, Begun
<1>2. job[s].left # <<>>  BY <1>1 DEF Shapes
<1>3. PICK d \in Devices, g \in Sessions : d = Head(job[s].left) /\ g = job[s].got
  BY <1>2, TypeFields
<1>4. CASE reg[d] # g.reg  BY <1>1, <1>3, <1>4 DEF InitiateSession, GivesUp
<1>5. CASE reg[d] = g.reg
  <2> DEFINE ks == PoolOf(s, g.reg, "kyber")
  <2>1. /\ pool' = [pool EXCEPT ![d]["kyber"] = IF ks = {} THEN {} ELSE @ \ {Min(ks)}]
        /\ session' = [session EXCEPT ![s][d] = g]
        /\ job' = [job EXCEPT ![s] = Encrypted(s, d, g)]
        /\ UNCHANGED outcome
    BY <1>3, <1>5 DEF InitiateSession
  <2>2. pool \in [Devices -> Kept]  BY DEF TypeOK
  <2> DEFINE ky == IF ks = {} THEN {} ELSE pool[d]["kyber"] \ {Min(ks)}
  <2>3. ky \subseteq pool[d]["kyber"]  OBVIOUS
  <2>4. pool' = [pool EXCEPT ![d] = [pool[d] EXCEPT !["kyber"] = ky]]  BY <1>3, <2>1, <2>2
  <2> HIDE DEF ky
  <2>5. pool' \in [Devices -> Kept]  BY <1>3, <2>2, <2>3, <2>4 DEF Kept, Kinds
  <2>6. \A c \in Devices, k \in Kinds :
            /\ pool'[c][k] \subseteq pool[c][k]
            /\ (c # d \/ k # "kyber") => pool'[c][k] = pool[c][k]
    BY <1>3, <2>2, <2>3, <2>4 DEF Kept, Kinds
  <2>7. PoolShrinks(d)  BY <2>6 DEF PoolShrinks
  <2>8. Settles(s, d, g)  BY <1>1, <1>2, <1>3, <1>5, <2>1, <2>5, <2>7 DEF Settles
  <2> QED  BY <2>8
<1> QED  BY <1>4, <1>5

\* A send that has ended.
LEMMA EndsTyped ==
  ASSUME TypeOK, NEW s \in Senders, NEW what \in {"sent", "failed"}, Ends(s, what), Begun(s), Shapes
  PROVE  /\ job' \in [Senders -> Jobs] /\ outcome' \in [Texts -> {"none", "sent", "failed"}]
         /\ ~Begun(s)' /\ \A r \in Senders \ {s} : job'[r] = job[r]
         /\ job'[s] = NoJob /\ outcome' = [outcome EXCEPT ![job[s].text] = what]
<1>1. NoJob \in Jobs /\ NoJob.phase = "idle"
  BY BoundAssumption DEF NoJob, Jobs, NoSession, Sessions
<1> QED  BY <1>1 DEF Ends, TypeOK, Begun

LEMMA InitiateSessionTyped ==
  ASSUME TypeOK, Shapes, NEW s \in Senders, InitiateSession(s)
  PROVE  TypeOK' /\ Shapes'
<1>1. CASE GivesUp(s)
  <2>1. Begun(s)  BY <1>1 DEF GivesUp, Begun
  <2>2. /\ job' \in [Senders -> Jobs] /\ outcome' \in [Texts -> {"none", "sent", "failed"}]
        /\ ~Begun(s)' /\ \A r \in Senders \ {s} : job'[r] = job[r]
    BY <1>1, <2>1, EndsTyped DEF GivesUp
  <2>3. TypeOK'  BY <1>1, <2>2 DEF TypeOK, InitiateSession, GivesUp, device, log
  <2>4. Shapes'
    BY <1>1, <2>2, ShapesOfSender, WatchedKept DEF Shapes, InitiateSession, GivesUp
  <2> QED  BY <2>3, <2>4
<1>2. ASSUME NEW d \in Devices, NEW g \in Sessions, Settles(s, d, g)
      PROVE  TypeOK' /\ Shapes'
  <2>1. job[s].left # <<>> /\ Begun(s) /\ d = Head(job[s].left)  BY <1>2 DEF Settles, Begun
  <2>2. job[s].text \in Texts /\ sentTo[job[s].text] # {}  BY <2>1 DEF Shapes
  <2>3. Encrypted(s, d, g) \in Jobs /\ Envelope(s, d, g) \in Envelopes
    BY <2>1, <2>2, EnvelopeTyped
  <2>4. job[s].envs \in Seq(Envelopes) /\ job[s] \in Jobs  BY TypeFields
  <2>5. /\ Encrypted(s, d, g).envs = Append(job[s].envs, Envelope(s, d, g))
        /\ Encrypted(s, d, g).text = job[s].text /\ Encrypted(s, d, g).phase = "encrypt"
    BY <2>4 DEF Encrypted, Jobs
  <2>6. Append(job[s].envs, Envelope(s, d, g)) # <<>>  BY <2>3, <2>4, AppendSet
  <2>7. /\ job' \in [Senders -> Jobs] /\ job'[s] = Encrypted(s, d, g)
        /\ \A r \in Senders \ {s} : job'[r] = job[r]
    BY <1>2, <2>3 DEF TypeOK, Settles
  <2>8. session' \in [Senders -> [Devices -> Sessions]]  BY <1>2 DEF TypeOK, Settles
  <2>9. TypeOK'  BY <1>2, <2>7, <2>8 DEF TypeOK, InitiateSession, Settles, PoolShrinks, device, log
  <2>10. \A c \in Devices, k \in Kinds : IsFiniteSet(pool'[c][k])
    <3> SUFFICES ASSUME NEW c \in Devices, NEW k \in Kinds  PROVE IsFiniteSet(pool'[c][k])
      OBVIOUS
    <3>1. pool'[c][k] \subseteq pool[c][k] /\ IsFiniteSet(pool[c][k])  BY <1>2 DEF Shapes, Settles, PoolShrinks
    <3> QED  BY <3>1, FS_Subset
  <2>11. Shapes'
    BY <2>2, <2>5, <2>6, <2>7, <2>10, ShapesOfSender, WatchedKept DEF Shapes, InitiateSession
  <2> QED  BY <2>9, <2>11
<1> QED  BY <1>1, <1>2, InitiateSessionDoes

\* Another phase of the same send.
LEMMA PhaseTyped ==
  ASSUME TypeOK, Shapes, NEW s \in Senders, Begun(s),
         NEW p \in {"ws", "http", "fallback"}, job' = [job EXCEPT ![s].phase = p]
  PROVE  /\ job' \in [Senders -> Jobs] /\ \A r \in Senders \ {s} : job'[r] = job[r]
         /\ job'[s] = [job[s] EXCEPT !.phase = p]
         /\ job'[s].phase = p /\ job'[s].text = job[s].text /\ job'[s].left = job[s].left
         /\ job'[s].envs = job[s].envs /\ job'[s].again = job[s].again
         /\ job'[s].force = job[s].force /\ job'[s].got = job[s].got
         /\ job[s].text \in Texts /\ sentTo[job[s].text] # {}
         /\ job[s].left # <<>> \/ job[s].envs # <<>>
<1>1. job[s] \in Jobs /\ job[s].text \in Texts  BY TypeFields DEF Shapes
<1>2. job'[s] = [job[s] EXCEPT !.phase = p] /\ \A r \in Senders \ {s} : job'[r] = job[r]
  BY DEF TypeOK
<1>3. [job[s] EXCEPT !.phase = p] \in Jobs  BY <1>1 DEF Jobs
<1>4. job' \in [Senders -> Jobs]  BY <1>2, <1>3 DEF TypeOK
<1> QED  BY <1>1, <1>2, <1>4 DEF Jobs, Shapes

LEMMA TransmitsTyped ==
  ASSUME TypeOK, Shapes, NEW s \in Senders, Begun(s), NEW via \in {"ws", "http"},
         job[s].envs # <<>>, Transmits(s, via), job[s].phase \notin {"ws", "http"},
         job'[s].phase = via, \A r \in Senders \ {s} : job'[r] = job[r]
  PROVE  reqs' \subseteq Requests /\ \A q \in reqs' : q.rows # <<>> /\ Watched(q)'
<1> DEFINE q == [from |-> s, via |-> via, rows |-> job[s].envs, state |-> "runs", awaited |-> TRUE]
<1>1. q \in Requests /\ q.rows # <<>> /\ q.from = s /\ q.via = via  BY TypeFields DEF Requests
<1>2. reqs' = reqs \cup {q}  BY DEF Transmits
<1> HIDE DEF q
<1>3. \A p \in reqs' : Watched(p)'  BY <1>1, <1>2, WatchedBegins
<1> QED  BY <1>1, <1>2, <1>3 DEF Shapes, TypeOK

LEMMA SendsTyped ==
  ASSUME TypeOK, Shapes, NEW s \in Senders, SendOverSocket(s) \/ SendOverHttp(s)
  PROVE  TypeOK' /\ Shapes'
<1>1. PICK p \in {"ws", "http"} : Transmits(s, p) /\ job' = [job EXCEPT ![s].phase = p]
  BY DEF SendOverSocket, SendOverHttp
<1>2. Begun(s) /\ job[s].phase \notin {"ws", "http"}  BY DEF SendOverSocket, SendOverHttp, Begun
<1>3. job[s].left = <<>> /\ job[s].envs # <<>>
  BY <1>2 DEF SendOverSocket, SendOverHttp, Shapes
<1>4. /\ job' \in [Senders -> Jobs] /\ \A r \in Senders \ {s} : job'[r] = job[r]
      /\ job'[s].phase = p /\ job'[s].text = job[s].text /\ job'[s].envs = job[s].envs
      /\ job'[s].left = job[s].left /\ job[s].text \in Texts /\ sentTo[job[s].text] # {}
  BY <1>1, <1>2, PhaseTyped
<1>5. reqs' \subseteq Requests /\ \A q \in reqs' : q.rows # <<>> /\ Watched(q)'
  BY <1>1, <1>2, <1>3, <1>4, TransmitsTyped
<1>6. UNCHANGED <<reg, made, pool, queue, device, refill, session, sends, outcome,
                   sentTo, retried, start, log, faults>>
  BY DEF SendOverSocket, SendOverHttp
<1>7. TypeOK'  BY <1>4, <1>5, <1>6 DEF TypeOK, device, log
<1>8. Shapes'  BY <1>1, <1>3, <1>4, <1>5, <1>6, ShapesOfSender DEF Shapes
<1> QED  BY <1>7, <1>8

LEMMA RetriesTyped ==
  ASSUME TypeOK, Shapes, NEW s \in Senders, Begun(s), NEW d \in Devices, Retries(s, d)
  PROVE  /\ job' \in [Senders -> Jobs] /\ \A r \in Senders \ {s} : job'[r] = job[r]
         /\ job'[s].phase = "encrypt" /\ job'[s].text = job[s].text /\ job'[s].again = TRUE
         /\ job'[s].envs = <<>> /\ job'[s].force = {d}
         /\ job'[s].left = InOrder(sentTo[job[s].text]) /\ job'[s].left # <<>>
         /\ job[s].text \in Texts /\ sentTo[job[s].text] # {}
         /\ retried' = retried \cup {job[s].text} /\ retried' \subseteq Texts
<1> DEFINE l == InOrder(sentTo[job[s].text])
           j == [job[s] EXCEPT !.phase = "encrypt", !.again = TRUE,
                  !.envs = <<>>, !.force = {d}, !.left = l]
<1>1. job[s] \in Jobs /\ job[s].text \in Texts /\ sentTo[job[s].text] # {}
      /\ sentTo[job[s].text] \in SUBSET Devices
  BY TypeFields DEF Shapes, TypeOK
<1>2. l \in Seq(Devices) /\ l # <<>>
  <2>1. l \in Seq(Devices) /\ ToSet(l) = sentTo[job[s].text]  BY <1>1, InOrderIs
  <2> QED  BY <1>1, <2>1, EmptySet
<1>3. job' = [job EXCEPT ![s] = j]  BY DEF Retries, Batch, TypeOK
<1> HIDE DEF l
<1>7. <<>> \in Seq(Envelopes)  OBVIOUS
<1>8. DOMAIN job[s] = {"phase", "text", "left", "force", "again", "envs", "got"}
  BY <1>1 DEF Jobs
<1>9. j \in Jobs  BY <1>1, <1>2, <1>7 DEF Jobs
<1>4. /\ j \in Jobs /\ j.phase = "encrypt" /\ j.text = job[s].text /\ j.again = TRUE
      /\ j.envs = <<>> /\ j.force = {d} /\ j.left = l
  BY <1>8, <1>9
<1> HIDE DEF j
<1>5. job' \in [Senders -> Jobs] /\ job'[s] = j /\ \A r \in Senders \ {s} : job'[r] = job[r]
  BY <1>3, <1>4 DEF TypeOK
<1>6. retried' = retried \cup {job[s].text} /\ retried' \subseteq Texts
  BY <1>1 DEF Retries, TypeOK
<1> QED  BY <1>1, <1>2, <1>4, <1>5, <1>6 DEF l

\* A reply somebody waits for.
LEMMA AwaitedFits ==
  ASSUME TypeOK, Shapes, NEW q \in reqs, q.awaited
  PROVE  /\ q \in Requests /\ q.from \in Senders /\ job[q.from].phase = q.via
         /\ Begun(q.from) /\ job[q.from].left = <<>> /\ job[q.from].envs # <<>>
         /\ job[q.from].text \in Texts
<1>1. q \in Requests /\ q.from \in Senders /\ q.via \in {"ws", "http"}  BY DEF TypeOK, Requests
<1>2. job[q.from].phase = q.via  BY DEF Shapes, Watched
<1>3. Begun(q.from)  BY <1>1, <1>2 DEF Begun
<1> QED  BY <1>1, <1>2, <1>3 DEF Shapes

LEMMA ReplyOkTyped ==
  ASSUME TypeOK, Shapes, NEW s \in Senders, ReplyOk(s)
  PROVE  TypeOK' /\ Shapes'
<1>1. PICK q \in reqs : q.from = s /\ q.awaited /\ reqs' = reqs \ {q}
  BY DEF ReplyOk, Awaited
<1>2. Begun(s)  BY <1>1, AwaitedFits
<1>3. /\ job' \in [Senders -> Jobs] /\ outcome' \in [Texts -> {"none", "sent", "failed"}]
      /\ ~Begun(s)' /\ \A r \in Senders \ {s} : job'[r] = job[r]
  BY <1>2, EndsTyped DEF ReplyOk
<1>4. UNCHANGED <<reg, made, pool, queue, device, refill, session, sends, sentTo,
                   retried, start, log, faults>>
  BY DEF ReplyOk
<1>5. TypeOK'  BY <1>1, <1>3, <1>4 DEF TypeOK, device, log
<1>6. \A p \in reqs' : p.rows # <<>> /\ Watched(p)'
  BY <1>1, <1>3, WatchedEnds
<1>7. Shapes'  BY <1>3, <1>4, <1>6, ShapesOfSender DEF Shapes
<1> QED  BY <1>5, <1>7

LEMMA ReplyStaleTyped ==
  ASSUME TypeOK, Shapes, NEW s \in Senders, ReplyStale(s)
  PROVE  TypeOK' /\ Shapes'
<1>1. PICK q \in reqs :
        /\ q.from = s /\ q.awaited /\ q.state = "stale" /\ reqs' = reqs \ {q}
        /\ \/ q.via = "ws" /\ FallsBack(s) /\ UNCHANGED <<outcome, retried>>
           \/ /\ q.via = "http" /\ ~job[s].again
              /\ Retries(s, Head(q.rows).to) /\ UNCHANGED outcome
           \/ /\ q.via = "http" /\ job[s].again
              /\ Ends(s, "failed") /\ UNCHANGED retried
  BY DEF ReplyStale, Awaited
<1>2. UNCHANGED <<reg, made, pool, queue, device, refill, session, sends, sentTo,
                   start, log, faults>>
  BY DEF ReplyStale
<1>3. Begun(s) /\ job[s].left = <<>>  BY <1>1, AwaitedFits
<1>4. ASSUME \A r \in Senders \ {s} : job'[r] = job[r]
      PROVE  \A p \in reqs' : p.rows # <<>> /\ Watched(p)'
  BY <1>1, <1>4, WatchedEnds
<1>5. CASE FallsBack(s) /\ UNCHANGED <<outcome, retried>>
  <2>1. /\ job' \in [Senders -> Jobs] /\ \A r \in Senders \ {s} : job'[r] = job[r]
        /\ job'[s].phase = "fallback" /\ job'[s].text = job[s].text /\ job'[s].left = job[s].left
        /\ job'[s].envs = job[s].envs
        /\ job[s].text \in Texts /\ sentTo[job[s].text] # {}
        /\ job[s].left # <<>> \/ job[s].envs # <<>>
    BY <1>3, <1>5, PhaseTyped DEF FallsBack
  <2>2. TypeOK'  BY <1>1, <1>2, <1>5, <2>1 DEF TypeOK, device, log
  <2>3. Shapes'  BY <1>2, <1>3, <1>4, <2>1, ShapesOfSender DEF Shapes
  <2> QED  BY <2>2, <2>3
<1>6. CASE Retries(s, Head(q.rows).to) /\ UNCHANGED outcome
  <2>1. Head(q.rows).to \in Devices
    <3>1. q.rows \in Seq(Envelopes) /\ q.rows # <<>>  BY <1>1, TypeFields DEF Shapes
    <3>2. Head(q.rows) \in Envelopes  BY <3>1
    <3> QED  BY <3>2 DEF Envelopes
  <2>2. /\ job' \in [Senders -> Jobs] /\ \A r \in Senders \ {s} : job'[r] = job[r]
        /\ job'[s].phase = "encrypt" /\ job'[s].text = job[s].text
        /\ job'[s].left # <<>> /\ job[s].text \in Texts /\ sentTo[job[s].text] # {}
        /\ retried' \subseteq Texts
    BY <1>3, <1>6, <2>1, RetriesTyped
  <2>3. TypeOK'  BY <1>1, <1>2, <1>6, <2>2 DEF TypeOK, device, log
  <2>4. Shapes'  BY <1>2, <1>4, <2>2, ShapesOfSender DEF Shapes
  <2> QED  BY <2>3, <2>4
<1>7. CASE Ends(s, "failed") /\ UNCHANGED retried
  <2>1. /\ job' \in [Senders -> Jobs] /\ outcome' \in [Texts -> {"none", "sent", "failed"}]
        /\ ~Begun(s)' /\ \A r \in Senders \ {s} : job'[r] = job[r]
    BY <1>3, <1>7, EndsTyped
  <2>2. TypeOK'  BY <1>1, <1>2, <1>7, <2>1 DEF TypeOK, device, log
  <2>3. Shapes'  BY <1>2, <1>4, <2>1, ShapesOfSender DEF Shapes
  <2> QED  BY <2>2, <2>3
<1> QED  BY <1>1, <1>5, <1>6, <1>7

LEMMA LoseReplyTyped ==
  ASSUME TypeOK, Shapes, NEW s \in Senders, LoseReply(s)
  PROVE  TypeOK' /\ Shapes'
<1>1. PICK q \in reqs :
          /\ q.from = s /\ q.awaited
          /\ reqs' = (reqs \ {q}) \cup {[q EXCEPT !.awaited = FALSE]}
          /\ \/ q.via = "ws" /\ FallsBack(s) /\ UNCHANGED outcome
             \/ q.via = "http" /\ Ends(s, "failed")
  BY DEF LoseReply
<1>2. UNCHANGED <<reg, made, pool, queue, device, refill, session, sends, sentTo,
                   retried, start, log>>
  BY DEF LoseReply
<1>3. faults' \in 0..bound'.faults
  BY BoundAssumption DEF LoseReply, Fault, TypeOK, log
<1>4. Begun(s) /\ job[s].left = <<>> /\ q \in Requests  BY <1>1, AwaitedFits
<1> DEFINE p == [q EXCEPT !.awaited = FALSE]
<1>5. p \in Requests /\ ~p.awaited /\ p.rows # <<>>
  BY <1>4 DEF Requests, Shapes
<1>6. reqs' \subseteq Requests
  <2> HIDE DEF p
  <2> QED  BY <1>1, <1>5 DEF TypeOK, p
<1>7. ASSUME \A r \in Senders \ {s} : job'[r] = job[r]
      PROVE  \A x \in reqs' : x.rows # <<>> /\ Watched(x)'
  <2>1. \A x \in reqs' : x \in reqs \ {q} \/ (~x.awaited /\ x.rows # <<>>)  BY <1>1, <1>5
  <2> QED  BY <1>1, <1>7, <2>1, WatchedEnds
<1>8. CASE FallsBack(s) /\ UNCHANGED outcome
  <2>1. /\ job' \in [Senders -> Jobs] /\ \A r \in Senders \ {s} : job'[r] = job[r]
        /\ job'[s].phase = "fallback" /\ job'[s].text = job[s].text /\ job'[s].left = job[s].left
        /\ job'[s].envs = job[s].envs
        /\ job[s].text \in Texts /\ sentTo[job[s].text] # {}
        /\ job[s].left # <<>> \/ job[s].envs # <<>>
    BY <1>4, <1>8, PhaseTyped DEF FallsBack
  <2>2. TypeOK'  BY <1>6, <1>2, <1>3, <1>8, <2>1 DEF TypeOK, device, log
  <2>3. Shapes'  BY <1>2, <1>4, <1>7, <2>1, ShapesOfSender DEF Shapes
  <2> QED  BY <2>2, <2>3
<1>9. CASE Ends(s, "failed")
  <2>1. /\ job' \in [Senders -> Jobs] /\ outcome' \in [Texts -> {"none", "sent", "failed"}]
        /\ ~Begun(s)' /\ \A r \in Senders \ {s} : job'[r] = job[r]
    BY <1>4, <1>9, EndsTyped
  <2>2. TypeOK'  BY <1>6, <1>2, <1>3, <2>1 DEF TypeOK, device, log
  <2>3. Shapes'  BY <1>2, <1>7, <2>1, ShapesOfSender DEF Shapes
  <2> QED  BY <2>2, <2>3
<1> QED  BY <1>1, <1>8, <1>9

\* The parts of Shapes that the server and the devices can touch.
LEMMA ShapesElsewhere ==
  ASSUME Shapes, UNCHANGED <<job, sentTo>>,
         \A q \in reqs' : q.rows # <<>> /\ Watched(q)',
         \A d \in Devices : /\ \A k \in Kinds : IsFiniteSet(pool'[d][k])
                            /\ IsFiniteSet(refill'[d].keys)
                            /\ refill'[d].phase = "make" =>
                                  \E k \in Kinds : refill'[d].need[k] > 0
  PROVE  Shapes'
BY DEF Shapes, Begun

LEMMA ShapesOfReqs ==
  ASSUME Shapes, UNCHANGED <<job, sentTo, pool, refill>>,
         \A q \in reqs' : q.rows # <<>> /\ Watched(q)'
  PROVE  Shapes'
BY DEF Shapes, Begun

LEMMA ShapesOfDevices ==
  ASSUME Shapes, UNCHANGED <<job, sentTo, reqs>>,
         \A d \in Devices : /\ \A k \in Kinds : IsFiniteSet(pool'[d][k])
                            /\ IsFiniteSet(refill'[d].keys)
                            /\ refill'[d].phase = "make" =>
                                  \E k \in Kinds : refill'[d].need[k] > 0
  PROVE  Shapes'
<1>1. \A q \in reqs' : q.rows # <<>> /\ Watched(q)'  BY DEF Shapes, Watched
<1> QED  BY <1>1, ShapesElsewhere

\* A request goes on, is answered, or is forgotten.
GoesOn(q) ==
    \/ reqs' = reqs \ {q}
    \/ \E p \in Requests : /\ p.rows # <<>> /\ p.from = q.from /\ p.via = q.via
                           /\ p.awaited = q.awaited
                           /\ reqs' = (reqs \ {q}) \cup {p}

LEMMA GoesOnTyped ==
  ASSUME TypeOK, Shapes, NEW q \in reqs, GoesOn(q), UNCHANGED job
  PROVE  reqs' \subseteq Requests /\ \A p \in reqs' : p.rows # <<>> /\ Watched(p)'
<1>1. \A p \in reqs : p.rows # <<>> /\ Watched(p)  BY DEF Shapes
<1>2. CASE reqs' = reqs \ {q}
  BY <1>1, <1>2 DEF TypeOK, Watched
<1>3. ASSUME NEW p \in Requests, p.rows # <<>>, p.from = q.from, p.via = q.via,
             p.awaited = q.awaited, reqs' = (reqs \ {q}) \cup {p}
      PROVE  reqs' \subseteq Requests /\ \A r \in reqs' : r.rows # <<>> /\ Watched(r)'
  <2>1. \A r \in reqs' : Watched(r)'  BY <1>1, <1>3 DEF Watched
  <2> QED  BY <1>1, <1>3, <2>1 DEF TypeOK
<1> QED  BY <1>2, <1>3 DEF GoesOn

LEMMA AnsweredGoesOn ==
  ASSUME TypeOK, Shapes, NEW q \in reqs, NEW how \in {"ok", "stale"}, Answered(q, how)
  PROVE  GoesOn(q)
<1>1. q \in Requests /\ q.rows # <<>>  BY DEF TypeOK, Shapes
<1> DEFINE p == [q EXCEPT !.state = how]
<1>2. /\ p \in Requests /\ p.rows # <<>> /\ p.from = q.from /\ p.via = q.via
      /\ p.awaited = q.awaited
  BY <1>1 DEF Requests
<1>3. CASE ~q.awaited  BY <1>3 DEF Answered, GoesOn
<1>4. CASE q.awaited
  <2>1. reqs' = (reqs \ {q}) \cup {p}  BY <1>4 DEF Answered, Becomes
  <2> HIDE DEF p
  <2> QED  BY <1>2, <2>1 DEF GoesOn
<1> QED  BY <1>3, <1>4

\* One row is enqueued.
Enqueues(q, c) ==
    /\ q.state = "runs" /\ c = Head(q.rows) /\ c.sess.reg = reg[c.to]
    /\ queue' = [queue EXCEPT ![c.to] = Append(queue[c.to], c)]
    /\ accepted' = accepted \cup {<<c.text, c.to, reg[c.to]>>}
    /\ \/ Len(q.rows) = 1 /\ Answered(q, "ok")
       \/ Tail(q.rows) # <<>> /\ Becomes(q, [q EXCEPT !.rows = Tail(q.rows)])

LEMMA EnqueueRowDoes ==
  ASSUME TypeOK, Shapes, NEW q \in reqs, EnqueueRow(q)
  PROVE  \E c \in Envelopes : Enqueues(q, c)
<1>1. q.rows \in Seq(Envelopes) /\ q.rows # <<>>  BY TypeFields DEF Shapes
<1>2. PICK c \in Envelopes : c = Head(q.rows)  BY <1>1
<1>3. /\ q.state = "runs" /\ c.sess.reg = reg[c.to]
      /\ accepted' = accepted \cup {<<c.text, c.to, reg[c.to]>>}
  BY <1>2 DEF EnqueueRow, Current
<1>4. queue' = [queue EXCEPT ![c.to] = Append(queue[c.to], c)]
  BY <1>2 DEF EnqueueRow
<1>5. \/ Len(q.rows) = 1 /\ Answered(q, "ok")
      \/ Tail(q.rows) # <<>> /\ Becomes(q, [q EXCEPT !.rows = Tail(q.rows)])
  <2>1. Len(q.rows) # 1 => Tail(q.rows) # <<>>
    <3>1. Len(Tail(q.rows)) = Len(q.rows) - 1 /\ Len(q.rows) \in Nat  BY <1>1, HeadTailSet
    <3>2. Len(<<>>) = 0  OBVIOUS
    <3> DEFINE t == Tail(q.rows)
    <3>3. Len(t) = Len(q.rows) - 1  BY <3>1
    <3> HIDE DEF t
    <3>4. t = <<>> => Len(t) = 0  BY <3>2
    <3>5. Len(q.rows) # 1 => t # <<>>  BY <3>1, <3>3, <3>4
    <3> QED  BY <3>5 DEF t
  <2> QED  BY <2>1 DEF EnqueueRow
<1> QED  BY <1>2, <1>3, <1>4, <1>5 DEF Enqueues

LEMMA EnqueueGoesOn ==
  ASSUME TypeOK, Shapes, NEW q \in reqs, NEW c \in Envelopes, Enqueues(q, c)
  PROVE  GoesOn(q)
<1>1. q \in Requests /\ q.rows # <<>> /\ q.rows \in Seq(Envelopes)  BY TypeFields DEF Shapes
<1>2. CASE Answered(q, "ok")  BY <1>2, AnsweredGoesOn
<1>3. CASE Tail(q.rows) # <<>> /\ Becomes(q, [q EXCEPT !.rows = Tail(q.rows)])
  <2> DEFINE p == [q EXCEPT !.rows = Tail(q.rows)]
  <2>1. Tail(q.rows) \in Seq(Envelopes)  BY <1>1
  <2>2. p \in Requests /\ p.rows # <<>> /\ p.from = q.from /\ p.via = q.via /\ p.awaited = q.awaited
    BY <1>1, <1>3, <2>1 DEF Requests
  <2>3. reqs' = (reqs \ {q}) \cup {p}  BY <1>3 DEF Becomes
  <2> HIDE DEF p
  <2> QED  BY <2>2, <2>3 DEF GoesOn
<1> QED  BY <1>2, <1>3 DEF Enqueues

LEMMA EnqueueRowTyped ==
  ASSUME TypeOK, Shapes, NEW q \in reqs, EnqueueRow(q)
  PROVE  TypeOK' /\ Shapes'
<1>1. PICK c \in Envelopes : Enqueues(q, c)  BY EnqueueRowDoes
<1>2. UNCHANGED <<reg, made, pool, device, refill, sender, given, faults, bound>>
  BY DEF EnqueueRow
<1>3. reqs' \subseteq Requests /\ \A p \in reqs' : p.rows # <<>> /\ Watched(p)'
  BY <1>1, <1>2, EnqueueGoesOn, GoesOnTyped DEF sender
<1>4. c.to \in Devices /\ c.text \in Texts  BY DEF Envelopes
<1>5. queue' \in [Devices -> Seq(Envelopes)]
  <2>1. queue[c.to] \in Seq(Envelopes)  BY <1>4 DEF TypeOK
  <2>2. Append(queue[c.to], c) \in Seq(Envelopes)  BY <2>1
  <2> QED  BY <1>1, <2>2 DEF TypeOK, Enqueues
<1>6. accepted' \subseteq Texts \X Devices \X Nat  BY <1>1, <1>4 DEF TypeOK, Enqueues
<1>7. TypeOK'  BY <1>2, <1>3, <1>5, <1>6 DEF TypeOK, device, sender
<1>8. Shapes'  BY <1>2, <1>3, ShapesOfReqs DEF sender
<1> QED  BY <1>7, <1>8

LEMMA OtherRequestsTyped ==
  ASSUME TypeOK, Shapes, NEW q \in reqs, RowStale(q) \/ Forget(q)
  PROVE  TypeOK' /\ Shapes'
<1>1. GoesOn(q)
  <2>1. CASE RowStale(q)  BY <2>1, AnsweredGoesOn DEF RowStale
  <2>2. CASE Forget(q)  BY <2>2 DEF Forget, GoesOn
  <2> QED  BY <2>1, <2>2
<1>2. UNCHANGED <<reg, made, pool, queue, device, refill, sender, log, faults>>
  BY DEF RowStale, Forget
<1>3. reqs' \subseteq Requests /\ \A p \in reqs' : p.rows # <<>> /\ Watched(p)'
  BY <1>1, <1>2, GoesOnTyped DEF sender
<1>4. TypeOK'  BY <1>2, <1>3 DEF TypeOK, device, sender, log
<1>5. Shapes'  BY <1>2, <1>3, ShapesOfReqs DEF sender
<1> QED  BY <1>4, <1>5

----------------------------------------------------------------------------
LEMMA KeptFacts ==
  /\ NoKeys \in Kept /\ Published \in Kept /\ NoRefill \in Refills
  /\ [k \in Kinds |-> 1..Target] \in Kept /\ 1..Target \subseteq Nat
  /\ IsFiniteSet(1..Target) /\ IsFiniteSet({}) /\ IsFiniteSet(NoRefill.keys)
  /\ \A k \in Kinds : IsFiniteSet(NoKeys[k]) /\ IsFiniteSet(Published[k])
  /\ Target \in Nat /\ Low \in Nat /\ Low <= Target
<1>1. Target \in Nat /\ Low \in Nat /\ Low <= Target  BY PoolAssumption
<1>2. IsFiniteSet(1..Target) /\ IsFiniteSet({})  BY <1>1, FS_Interval, FS_EmptySet
<1>3. NoKeys = [k \in Kinds |-> {}] /\ Published = [k \in Kinds |-> IF k = "ec" THEN 1..Target ELSE {}]
  BY DEF NoKeys, Published, Kinds
<1>4. NoRefill \in Refills /\ NoRefill.keys = {}  BY DEF NoRefill, Refills, Kinds
<1> QED  BY <1>1, <1>2, <1>3, <1>4 DEF Kept

LEMMA RegisterTyped ==
  ASSUME TypeOK, Shapes, NEW d \in Devices, Register(d)
  PROVE  TypeOK' /\ Shapes'
<1> USE DEF Register
<1>1. reg' \in [Devices -> Nat] /\ made' \in Nat  BY DEF TypeOK
<1>2. pool' \in [Devices -> Kept] /\ own' \in [Devices -> Kept] /\ refill' \in [Devices -> Refills]
  BY KeptFacts DEF TypeOK
<1>3. nextKey' \in [Devices -> [Kinds -> Nat]]  BY DEF TypeOK
<1>4. queue' \in [Devices -> Seq(Envelopes)]  BY DEF TypeOK
<1>5. /\ up' \in [Devices -> BOOLEAN]
      /\ opened' \in [Devices -> SUBSET Envelopes] /\ unopened' \in [Devices -> SUBSET Envelopes]
      /\ known' \in [Devices -> SUBSET [from : Senders, sess : Sessions]]
  BY DEF TypeOK
<1>6. TypeOK'  BY <1>1, <1>2, <1>3, <1>4, <1>5 DEF TypeOK, sender, log
<1>7. \A c \in Devices :
         /\ \A k \in Kinds : IsFiniteSet(pool'[c][k])
         /\ IsFiniteSet(refill'[c].keys)
         /\ refill'[c].phase = "make" => \E k \in Kinds : refill'[c].need[k] > 0
  <2> SUFFICES ASSUME NEW c \in Devices
               PROVE  /\ \A k \in Kinds : IsFiniteSet(pool'[c][k])
                      /\ IsFiniteSet(refill'[c].keys)
                      /\ refill'[c].phase = "make" => \E k \in Kinds : refill'[c].need[k] > 0
    OBVIOUS
  <2>1. CASE c = d
    <3>1. pool'[c] = Published /\ refill'[c] = NoRefill  BY <2>1 DEF TypeOK
    <3>2. NoRefill.phase # "make"  BY DEF NoRefill
    <3> QED  BY <3>1, <3>2, KeptFacts
  <2>2. CASE c # d
    <3>1. pool'[c] = pool[c] /\ refill'[c] = refill[c]  BY <2>2 DEF TypeOK
    <3> QED  BY <3>1 DEF Shapes
  <2> QED  BY <2>1, <2>2
<1>8. Shapes'  BY <1>7, ShapesOfDevices DEF sender
<1> QED  BY <1>6, <1>8

\* The top-up of one device goes on.
LEMMA RefillShapes ==
  ASSUME TypeOK, Shapes, NEW d \in Devices, NEW r, refill' = [refill EXCEPT ![d] = r],
         IsFiniteSet(r.keys), r.phase = "make" => \E k \in Kinds : r.need[k] > 0,
         UNCHANGED <<pool, job, sentTo, reqs>>
  PROVE  Shapes'
<1>1. \A c \in Devices : refill'[c] = IF c = d THEN r ELSE refill[c]  BY DEF TypeOK
<1>2. \A c \in Devices : /\ \A k \in Kinds : IsFiniteSet(pool'[c][k])
                         /\ IsFiniteSet(refill'[c].keys)
                         /\ refill'[c].phase = "make" => \E k \in Kinds : refill'[c].need[k] > 0
  BY <1>1 DEF Shapes
<1> QED  BY <1>2, ShapesOfDevices

LEMMA SaveStoreTyped ==
  ASSUME TypeOK, Shapes, NEW d \in Devices, SaveStore(d)
  PROVE  TypeOK' /\ Shapes'
<1> USE DEF SaveStore
<1> DEFINE r == [NoRefill EXCEPT !.phase = "upload", !.kind = "kyber", !.keys = 1..Target]
<1>1. r \in Refills /\ r.phase = "upload" /\ r.keys = 1..Target
  BY KeptFacts DEF Refills, NoRefill, Kinds
<1>2. refill' = [refill EXCEPT ![d] = r]  OBVIOUS
<1> HIDE DEF r
<1>3. refill' \in [Devices -> Refills] /\ own' \in [Devices -> Kept] /\ up' \in [Devices -> BOOLEAN]
  BY <1>1, <1>2, KeptFacts DEF TypeOK
<1>4. nextKey' \in [Devices -> [Kinds -> Nat]]
  <2>1. [k \in Kinds |-> Target + 1] \in [Kinds -> Nat]  BY KeptFacts
  <2> QED  BY <2>1 DEF TypeOK
<1>5. TypeOK'  BY <1>3, <1>4 DEF TypeOK, sender, log
<1>6. Shapes'  BY <1>1, <1>2, KeptFacts, RefillShapes DEF sender
<1> QED  BY <1>5, <1>6

LEMMA CheckStatusTyped ==
  ASSUME TypeOK, Shapes, NEW d \in Devices, CheckStatus(d)
  PROVE  TypeOK' /\ Shapes'
<1> USE DEF CheckStatus
<1> DEFINE r == [NoRefill EXCEPT !.phase = "make", !.need = [k \in Kinds |-> Need(d, k)]]
<1>1. \A k \in Kinds : Cardinality(pool[d][k]) \in Nat
  BY FS_CardinalityType DEF Shapes
<1>2. \A k \in Kinds : Need(d, k) \in Nat
  BY <1>1, KeptFacts DEF Need
<1>3. r \in Refills /\ r.phase = "make" /\ r.keys = NoRefill.keys
      /\ r.need = [k \in Kinds |-> Need(d, k)]
  BY <1>2, KeptFacts DEF Refills, NoRefill, Kinds
<1>4. refill' = [refill EXCEPT ![d] = r]  OBVIOUS
<1> HIDE DEF r
<1>5. TypeOK'
  <2>1. refill' \in [Devices -> Refills]  BY <1>3, <1>4 DEF TypeOK
  <2> QED  BY <2>1 DEF TypeOK, sender, log, device
<1>6. \E k \in Kinds : r.need[k] > 0
  <2>1. PICK k \in Kinds : Cardinality(pool[d][k]) < Low  BY DEF LowPool
  <2>2. Need(d, k) = Target - Cardinality(pool[d][k])  BY <2>1 DEF Need
  <2>3. Need(d, k) > 0  BY <1>1, <2>1, <2>2, KeptFacts
  <2> QED  BY <1>3, <2>3
<1>7. Shapes'  BY <1>3, <1>4, <1>6, KeptFacts, RefillShapes DEF sender
<1> QED  BY <1>5, <1>7

\* New keys: saved under ids never used before, then on their way.
Makes(d, k, n, ids) ==
    /\ refill[d].phase = "make" /\ n = refill[d].need[k]
    /\ ids = nextKey[d][k]..(nextKey[d][k] + n - 1)
    /\ own' = [own EXCEPT ![d] = [own[d] EXCEPT ![k] = own[d][k] \cup ids]]
    /\ nextKey' = [nextKey EXCEPT ![d] = [nextKey[d] EXCEPT ![k] = nextKey[d][k] + n]]
    /\ \E r \in Refills : /\ refill' = [refill EXCEPT ![d] = r]
                          /\ r.phase = "upload" /\ r.kind = k /\ r.keys = ids

LEMMA MakeKeysDoes ==
  ASSUME TypeOK, Shapes, NEW d \in Devices, MakeKeys(d)
  PROVE  \E k \in Kinds, n \in Nat, ids \in SUBSET Nat : Makes(d, k, n, ids) /\ IsFiniteSet(ids)
<1>1. PICK k0 \in Kinds : refill[d].need[k0] > 0  BY DEF MakeKeys, Shapes
<1>2. refill[d].need \in [Kinds -> Nat] /\ refill[d] \in Refills  BY DEF TypeOK, Refills
<1> DEFINE Due(k) == refill[d].need[k] > 0 /\ (k = "ec" \/ refill[d].need["ec"] = 0)
<1>3. \E k \in Kinds : Due(k)
  <2>1. CASE refill[d].need["ec"] > 0  BY <2>1 DEF Kinds
  <2>2. CASE ~(refill[d].need["ec"] > 0)
    <3>1. refill[d].need["ec"] \in Nat  BY <1>2 DEF Kinds
    <3>2. refill[d].need["ec"] = 0  BY <2>2, <3>1
    <3> QED  BY <1>1, <3>2
  <2> QED  BY <2>1, <2>2
<1>4. FirstNeeded(d) = CHOOSE k \in Kinds : Due(k)  BY DEF FirstNeeded
<1> HIDE DEF Due
<1>5. PICK k \in Kinds : k = FirstNeeded(d)  BY <1>3, <1>4
<1> DEFINE n   == refill[d].need[k]
           ids == nextKey[d][k]..(nextKey[d][k] + n - 1)
           r   == [refill[d] EXCEPT !.phase = "upload", !.kind = k, !.keys = ids, !.need[k] = 0]
<1>6. n \in Nat /\ nextKey[d][k] \in Nat  BY <1>2 DEF TypeOK
<1>7. ids \in SUBSET Nat /\ IsFiniteSet(ids)
  <2>1. nextKey[d][k] + n - 1 \in Int  BY <1>6
  <2>2. IsFiniteSet(ids)  BY <1>6, <2>1, FS_Interval
  <2> QED  BY <1>6, <2>2
<1>8. /\ own' = [own EXCEPT ![d][k] = @ \cup ids]
      /\ nextKey' = [nextKey EXCEPT ![d][k] = @ + n]
      /\ refill' = [refill EXCEPT ![d] = [@ EXCEPT !.phase = "upload",
                             !.kind = k, !.keys = ids, !.need[k] = 0]]
  BY <1>5 DEF MakeKeys, Saved
<1>9. refill[d].phase = "make"  BY DEF MakeKeys
<1>10. refill' = [refill EXCEPT ![d] = r]  BY <1>8
<1>11. r \in Refills /\ r.phase = "upload" /\ r.kind = k /\ r.keys = ids
  <2> HIDE DEF ids
  <2> DEFINE nd == [refill[d].need EXCEPT ![k] = 0]
  <2>1. nd \in [Kinds -> Nat]  BY <1>2
  <2>2. r = [refill[d] EXCEPT !.phase = "upload", !.kind = k, !.keys = ids, !.need = nd]
    OBVIOUS
  <2> HIDE DEF nd
  <2> QED  BY <1>2, <1>7, <2>1, <2>2 DEF Refills
<1>12. /\ own' = [own EXCEPT ![d] = [own[d] EXCEPT ![k] = own[d][k] \cup ids]]
       /\ nextKey' = [nextKey EXCEPT ![d] = [nextKey[d] EXCEPT ![k] = nextKey[d][k] + n]]
  <2> HIDE DEF ids, n
  <2> QED  BY <1>8
<1>13. n = refill[d].need[k] /\ ids = nextKey[d][k]..(nextKey[d][k] + n - 1)  OBVIOUS
<1> HIDE DEF n, ids, r
<1>14. Makes(d, k, n, ids)  BY <1>9, <1>10, <1>11, <1>12, <1>13 DEF Makes
<1> QED  BY <1>6, <1>7, <1>14

LEMMA MakeKeysTyped ==
  ASSUME TypeOK, Shapes, NEW d \in Devices, MakeKeys(d)
  PROVE  TypeOK' /\ Shapes'
<1>1. PICK k \in Kinds, n \in Nat, ids \in SUBSET Nat : Makes(d, k, n, ids) /\ IsFiniteSet(ids)
  BY MakeKeysDoes
<1>2. PICK r \in Refills : /\ refill' = [refill EXCEPT ![d] = r]
                           /\ r.phase = "upload" /\ r.kind = k /\ r.keys = ids
  BY <1>1 DEF Makes
<1>3. own' \in [Devices -> Kept]
  <2>1. own[d] \in Kept /\ own[d][k] \cup ids \in SUBSET Nat
    <3>1. own[d] \in Kept  BY DEF TypeOK
    <3>2. own[d][k] \in SUBSET Nat  BY <3>1 DEF Kept
    <3> QED  BY <3>1, <3>2
  <2>2. [own[d] EXCEPT ![k] = own[d][k] \cup ids] \in Kept  BY <2>1 DEF Kept
  <2> QED  BY <1>1, <2>2 DEF Makes, TypeOK
<1>4. nextKey' \in [Devices -> [Kinds -> Nat]]  BY <1>1 DEF Makes, TypeOK
<1>5. UNCHANGED <<reg, made, pool, queue, reqs, up, known, opened, unopened, sender,
                   log, faults>>
  BY DEF MakeKeys
<1>6. TypeOK'  BY <1>2, <1>3, <1>4, <1>5 DEF TypeOK, sender, log
<1>7. Shapes'  BY <1>1, <1>2, <1>5, RefillShapes DEF sender
<1> QED  BY <1>6, <1>7

LEMMA UploadKeysTyped ==
  ASSUME TypeOK, Shapes, NEW d \in Devices, UploadKeys(d)
  PROVE  TypeOK' /\ Shapes'
<1> DEFINE k == refill[d].kind
           ks == pool[d][k] \cup refill[d].keys
<1>1. refill[d] \in Refills /\ k \in Kinds /\ pool[d] \in Kept  BY DEF TypeOK, Refills
<1>2. pool' = [pool EXCEPT ![d] = [pool[d] EXCEPT ![k] = ks]]  BY DEF UploadKeys
<1>3. ks \subseteq Nat /\ IsFiniteSet(ks)
  <2>1. IsFiniteSet(pool[d][k]) /\ IsFiniteSet(refill[d].keys)  BY <1>1 DEF Shapes
  <2> QED  BY <1>1, <2>1, FS_Union DEF Refills, Kept
<1> HIDE DEF ks, k
<1>4. pool' \in [Devices -> Kept]
  <2>1. [pool[d] EXCEPT ![k] = ks] \in Kept  BY <1>1, <1>3 DEF Kept
  <2> QED  BY <1>2, <2>1 DEF TypeOK
<1>5. Then(d) \in Refills /\ IsFiniteSet(Then(d).keys)
      /\ (Then(d).phase = "make" => \E kk \in Kinds : Then(d).need[kk] > 0)
  <2>1. CASE \E kk \in Kinds : refill[d].need[kk] > 0
    <3>1. Then(d) = [refill[d] EXCEPT !.phase = "make", !.keys = {}]  BY <2>1 DEF Then
    <3> QED  BY <1>1, <2>1, <3>1, FS_EmptySet DEF Refills
  <2>2. CASE ~\E kk \in Kinds : refill[d].need[kk] > 0
    <3>1. Then(d) = NoRefill /\ NoRefill.phase # "make"  BY <2>2 DEF Then, NoRefill
    <3> QED  BY <3>1, KeptFacts
  <2> QED  BY <2>1, <2>2
<1>6. refill' = [refill EXCEPT ![d] = Then(d)]
      /\ UNCHANGED <<reg, made, queue, reqs, device, sender, log, faults>>
  BY DEF UploadKeys
<1>7. TypeOK'  BY <1>4, <1>5, <1>6 DEF TypeOK, device, sender, log
<1>8. \A c \in Devices : /\ \A kk \in Kinds : IsFiniteSet(pool'[c][kk])
                         /\ IsFiniteSet(refill'[c].keys)
                         /\ refill'[c].phase = "make" => \E kk \in Kinds : refill'[c].need[kk] > 0
  <2> SUFFICES ASSUME NEW c \in Devices
               PROVE  /\ \A kk \in Kinds : IsFiniteSet(pool'[c][kk])
                      /\ IsFiniteSet(refill'[c].keys)
                      /\ refill'[c].phase = "make" => \E kk \in Kinds : refill'[c].need[kk] > 0
    OBVIOUS
  <2>1. CASE c # d
    <3>1. pool'[c] = pool[c] /\ refill'[c] = refill[c]  BY <1>2, <1>6, <2>1 DEF TypeOK
    <3> QED  BY <3>1 DEF Shapes
  <2>2. CASE c = d
    <3>1. pool'[c] = [pool[d] EXCEPT ![k] = ks] /\ refill'[c] = Then(d)
      BY <1>2, <1>6, <2>2 DEF TypeOK
    <3>2. \A kk \in Kinds : pool'[c][kk] = IF kk = k THEN ks ELSE pool[d][kk]
      BY <1>1, <3>1 DEF Kept
    <3>3. \A kk \in Kinds : IsFiniteSet(pool'[c][kk])  BY <1>3, <3>2 DEF Shapes
    <3> QED  BY <1>5, <3>1, <3>3
  <2> QED  BY <2>1, <2>2
<1>9. Shapes'  BY <1>6, <1>8, ShapesOfDevices DEF sender
<1> QED  BY <1>7, <1>9

LEMMA RefillFailsTyped ==
  ASSUME TypeOK, Shapes, NEW d \in Devices, RefillFails(d)
  PROVE  TypeOK' /\ Shapes'
<1> USE DEF RefillFails
<1>1. NoRefill \in Refills /\ NoRefill.phase # "make" /\ IsFiniteSet(NoRefill.keys)
  BY KeptFacts DEF NoRefill
<1>2. faults' \in 0..bound'.faults  BY BoundAssumption DEF Fault, TypeOK, log
<1>3. TypeOK'  BY <1>1, <1>2 DEF TypeOK, device, sender, log
<1>4. Shapes'  BY <1>1, RefillShapes DEF sender
<1> QED  BY <1>3, <1>4

\* A row is opened, or its key is missing.
Opens(d, c) ==
    /\ Openable(d, c)
    /\ opened' = [opened EXCEPT ![d] = opened[d] \cup {c}]
    /\ known' = [known EXCEPT ![d] = known[d] \cup {SessionOf(c)}]
    /\ own' = [own EXCEPT ![d] = [own[d] EXCEPT !["ec"] = own[d]["ec"] \ {c.sess.ec}]]
    /\ UNCHANGED unopened
Keyless(d, c) ==
    /\ ~Openable(d, c)
    /\ unopened' = [unopened EXCEPT ![d] = @ \cup {c}]
    /\ UNCHANGED <<opened, known, own>>
Reads(d, c) ==
    /\ up[d] /\ queue[d] # <<>> /\ c = Head(queue[d])
    /\ queue' = [queue EXCEPT ![d] = Tail(queue[d])]

LEMMA OpenRowDoes ==
  ASSUME TypeOK, NEW d \in Devices, OpenRow(d)
  PROVE  \E c \in Envelopes : /\ Reads(d, c) /\ c \notin opened[d]
                              /\ Opens(d, c) \/ Keyless(d, c)
<1>1. queue[d] \in Seq(Envelopes) /\ queue[d] # <<>>  BY DEF OpenRow, NextRow, TypeOK
<1>2. PICK c \in Envelopes : c = Head(queue[d])  BY <1>1
<1>3. Reads(d, c)  BY <1>2 DEF OpenRow, NextRow, Reads
<1>4. c \notin opened[d] /\ (Opens(d, c) \/ Keyless(d, c))
  <2>1. CASE Openable(d, c)  BY <1>2, <2>1 DEF OpenRow, Opens
  <2>2. CASE ~Openable(d, c)  BY <1>2, <2>2 DEF OpenRow, Keyless
  <2>3. c \notin opened[d]  BY <1>2 DEF OpenRow
  <2> QED  BY <2>1, <2>2, <2>3
<1> QED  BY <1>3, <1>4

LEMMA OpenRowTyped ==
  ASSUME TypeOK, Shapes, NEW d \in Devices, OpenRow(d)
  PROVE  TypeOK' /\ Shapes'
<1>1. PICK c \in Envelopes : Reads(d, c) /\ (Opens(d, c) \/ Keyless(d, c))
  BY OpenRowDoes
<1>2. queue' \in [Devices -> Seq(Envelopes)]
  <2>1. queue[d] \in Seq(Envelopes) /\ queue[d] # <<>>  BY <1>1 DEF TypeOK, Reads
  <2>2. Tail(queue[d]) \in Seq(Envelopes)  BY <2>1
  <2> QED  BY <1>1, <2>2 DEF TypeOK, Reads
<1>3. SessionOf(c) \in [from : Senders, sess : Sessions]  BY DEF SessionOf, Envelopes
<1>4. /\ opened' \in [Devices -> SUBSET Envelopes] /\ unopened' \in [Devices -> SUBSET Envelopes]
      /\ known' \in [Devices -> SUBSET [from : Senders, sess : Sessions]]
      /\ own' \in [Devices -> Kept]
  <2>1. CASE Opens(d, c)
    <3>1. [own[d] EXCEPT !["ec"] = own[d]["ec"] \ {c.sess.ec}] \in Kept  BY DEF TypeOK, Kept, Kinds
    <3> QED  BY <1>3, <2>1, <3>1 DEF TypeOK, Opens
  <2>2. CASE Keyless(d, c)  BY <2>2 DEF TypeOK, Keyless
  <2> QED  BY <1>1, <2>1, <2>2
<1>5. UNCHANGED <<reg, made, pool, reqs, up, nextKey, refill, sender, log, faults>>
  BY DEF OpenRow
<1>6. TypeOK'  BY <1>2, <1>4, <1>5 DEF TypeOK, sender, log
<1>7. Shapes'  BY <1>5, ShapesOfDevices DEF Shapes, sender
<1> QED  BY <1>6, <1>7

LEMMA SkipDuplicateTyped ==
  ASSUME TypeOK, Shapes, NEW d \in Devices, SkipDuplicate(d)
  PROVE  TypeOK' /\ Shapes'
<1>1. queue' \in [Devices -> Seq(Envelopes)]
  <2>1. queue[d] \in Seq(Envelopes) /\ queue[d] # <<>>  BY DEF TypeOK, SkipDuplicate, NextRow
  <2>2. Tail(queue[d]) \in Seq(Envelopes)  BY <2>1
  <2> QED  BY <2>2 DEF TypeOK, SkipDuplicate, NextRow
<1>2. TypeOK'  BY <1>1 DEF SkipDuplicate, TypeOK, device, sender, log
<1>3. Shapes'  BY ShapesOfDevices DEF Shapes, SkipDuplicate, sender
<1> QED  BY <1>2, <1>3

LEMMA TypeStep ==
  ASSUME TypeOK, Shapes, [Next]_vars
  PROVE  TypeOK' /\ Shapes'
<1>1. ASSUME NEW s \in Senders, SendDm(s) \/ SenderStep(s) \/ LoseReply(s)
      PROVE  TypeOK' /\ Shapes'
  BY <1>1, SendDmTyped, UseSessionTyped, PickKeyTyped, TakeKeyTyped, InitiateSessionTyped,
     SendsTyped, ReplyOkTyped, ReplyStaleTyped, LoseReplyTyped DEF SenderStep
<1>2. ASSUME NEW q \in reqs, ServerStep(q) \/ Forget(q)
      PROVE  TypeOK' /\ Shapes'
  BY <1>2, EnqueueRowTyped, OtherRequestsTyped DEF ServerStep
<1>3. ASSUME NEW d \in Devices,
             Register(d) \/ SaveStore(d) \/ RefillFails(d) \/ Replenish(d) \/ Receive(d)
      PROVE  TypeOK' /\ Shapes'
  BY <1>3, RegisterTyped, SaveStoreTyped, RefillFailsTyped, CheckStatusTyped, MakeKeysTyped,
     UploadKeysTyped, OpenRowTyped, SkipDuplicateTyped DEF Replenish, Receive
<1>4. CASE UNCHANGED vars
  <2>1. TypeOK'  BY <1>4 DEF TypeOK, vars, device, sender, log
  <2>2. Shapes'
    <3>1. UNCHANGED <<job, sentTo, reqs, pool, refill>>  BY <1>4 DEF vars, sender
    <3> QED  BY <3>1, ShapesOfDevices DEF Shapes
  <2> QED  BY <2>1, <2>2
<1> QED  BY <1>1, <1>2, <1>3, <1>4 DEF Next

\* The types of the state, for any senders, devices, bounds and pool sizes.
THEOREM DispatchTypeCorrect == Spec => []TypeOK
<1>1. Init => TypeOK /\ Shapes  BY TypeInit
<1>2. TypeOK /\ Shapes /\ [Next]_vars => (TypeOK /\ Shapes)'  BY TypeStep
<1> QED  BY <1>1, <1>2, PTL DEF Spec

----------------------------------------------------------------------------
(* Copies of envelopes *)

LEMMA AroundIs ==
  ASSUME NEW e
  PROVE  e \in Around <=> (
           \/ \E s \in Senders : e \in ToSet(job[s].envs)
           \/ \E q \in reqs : e \in ToSet(q.rows)
           \/ \E d \in Devices : e \in ToSet(queue[d]) \cup opened[d])
<1> DEFINE A == {ToSet(job[s].envs) : s \in Senders}
           B == {ToSet(q.rows) : q \in reqs}
           C == {ToSet(queue[d]) \cup opened[d] : d \in Devices}
<1>1. e \in UNION A <=> \E s \in Senders : e \in ToSet(job[s].envs)  OBVIOUS
<1>2. e \in UNION B <=> \E q \in reqs : e \in ToSet(q.rows)  OBVIOUS
<1>3. e \in UNION C <=> \E d \in Devices : e \in ToSet(queue[d]) \cup opened[d]  OBVIOUS
<1>4. Around = (UNION A) \cup (UNION B) \cup (UNION C)  BY DEF Around
<1> HIDE DEF A, B, C
<1> QED  BY <1>1, <1>2, <1>3, <1>4

LEMMA AroundHas ==
  ASSUME TypeOK
  PROVE  /\ \A s \in Senders : ToSet(job[s].envs) \subseteq Around
         /\ \A q \in reqs : ToSet(q.rows) \subseteq Around
         /\ \A d \in Devices : ToSet(queue[d]) \subseteq Around /\ opened[d] \subseteq Around
         /\ Around \subseteq Envelopes
<1>1. /\ \A s \in Senders : ToSet(job[s].envs) \subseteq Around
      /\ \A q \in reqs : ToSet(q.rows) \subseteq Around
      /\ \A d \in Devices : ToSet(queue[d]) \subseteq Around /\ opened[d] \subseteq Around
  BY AroundIs
<1>2. /\ \A s \in Senders : ToSet(job[s].envs) \subseteq Envelopes
      /\ \A q \in reqs : ToSet(q.rows) \subseteq Envelopes
      /\ \A d \in Devices : ToSet(queue[d]) \subseteq Envelopes /\ opened[d] \subseteq Envelopes
  <2>1. \A s \in Senders : job[s].envs \in Seq(Envelopes)  BY TypeFields
  <2>2. \A q \in reqs : q.rows \in Seq(Envelopes)  BY TypeFields
  <2>3. \A d \in Devices : queue[d] \in Seq(Envelopes) /\ opened[d] \subseteq Envelopes
    BY DEF TypeOK
  <2> QED  BY <2>1, <2>2, <2>3, SeqSets
<1>3. Around \subseteq Envelopes  BY <1>2, AroundIs
<1> QED  BY <1>1, <1>3

LEMMA AroundStep ==
  ASSUME NEW E,
         \A s \in Senders : ToSet(job'[s].envs) \subseteq Around \cup E,
         \A q \in reqs' : ToSet(q.rows) \subseteq Around \cup E,
         \A d \in Devices : ToSet(queue'[d]) \cup opened'[d] \subseteq Around \cup E
  PROVE  Around' \subseteq Around \cup E
<1> SUFFICES ASSUME NEW e \in Around'  PROVE e \in Around \cup E
  OBVIOUS
<1> DEFINE A == {ToSet(job'[s].envs) : s \in Senders}
           B == {ToSet(q.rows) : q \in reqs'}
           C == {ToSet(queue'[d]) \cup opened'[d] : d \in Devices}
<1>1. Around' = (UNION A) \cup (UNION B) \cup (UNION C)  BY DEF Around
<1>2. CASE e \in UNION A  BY <1>2
<1>3. CASE e \in UNION B  BY <1>3
<1>4. CASE e \in UNION C  BY <1>4
<1> HIDE DEF A, B, C
<1> QED  BY <1>1, <1>2, <1>3, <1>4

\* A step of s that makes no envelope.
LEMMA AroundOfSender ==
  ASSUME TypeOK, NEW s \in Senders, \A r \in Senders \ {s} : job'[r] = job[r],
         job'[s].envs = <<>> \/ job'[s].envs = job[s].envs,
         \A q \in reqs' : ToSet(q.rows) \subseteq Around, UNCHANGED <<queue, opened>>
  PROVE  Around' \subseteq Around
<1>1. \A r \in Senders : ToSet(job'[r].envs) \subseteq Around
  BY AroundHas, EmptySet
<1>2. \A d \in Devices : ToSet(queue'[d]) \cup opened'[d] \subseteq Around
  BY AroundHas
<1>3. Around' \subseteq Around \cup {}  BY <1>1, <1>2, AroundStep
<1> QED  BY <1>3

LEMMA SenderAround ==
  ASSUME TypeOK, Shapes, NEW s \in Senders,
         SendDm(s) \/ PickKey(s) \/ TakeKey(s) \/ (GivesUp(s) /\ InitiateSession(s))
            \/ SendOverSocket(s) \/ SendOverHttp(s) \/ ReplyOk(s) \/ ReplyStale(s) \/ LoseReply(s)
  PROVE  Around' \subseteq Around
<1>1. CASE SendDm(s) \/ PickKey(s) \/ TakeKey(s)
  <2>1. UNCHANGED <<reqs, queue, opened>>
    BY <1>1 DEF SendDm, PickKey, TakeKey, device
  <2>2. \A r \in Senders \ {s} : job'[r] = job[r]
    BY <1>1 DEF SendDm, PickKey, TakeKey, TypeOK
  <2>3. job'[s].envs = <<>> \/ job'[s].envs = job[s].envs
    <3>1. CASE SendDm(s)
      <4>1. job'[s].envs = <<>>  BY <3>1 DEF SendDm, TypeOK, NoJob
      <4> QED  BY <4>1
    <3>2. CASE PickKey(s)
      <4>1. job'[s] = [job[s] EXCEPT !.phase = job'[s].phase, !.got = job'[s].got]
        BY <3>2, TypeFields DEF PickKey, TypeOK, Jobs
      <4> QED  BY <4>1, TypeFields DEF Jobs
    <3>3. CASE TakeKey(s)
      <4>1. PICK d \in Devices, g \in Sessions : TakesKey(s, d, g)  BY <3>3, TakeKeyDoes
      <4>2. job'[s] = [job[s] EXCEPT !.phase = "kyber", !.got = g]  BY <4>1 DEF TakesKey, TypeOK
      <4> QED  BY <4>2, TypeFields DEF Jobs
    <3> QED  BY <1>1, <3>1, <3>2, <3>3
  <2> QED  BY <2>1, <2>2, <2>3, AroundHas, AroundOfSender
<1>2. CASE GivesUp(s) /\ InitiateSession(s)
  <2>1. UNCHANGED <<reqs, queue, opened>>  BY <1>2 DEF InitiateSession, device
  <2>2. (\A r \in Senders \ {s} : job'[r] = job[r]) /\ job'[s].envs = <<>>
    BY <1>2 DEF GivesUp, Ends, TypeOK, NoJob
  <2> QED  BY <2>1, <2>2, AroundHas, AroundOfSender
<1>3. CASE SendOverSocket(s) \/ SendOverHttp(s)
  <2>1. PICK p \in {"ws", "http"} : Transmits(s, p) /\ job' = [job EXCEPT ![s].phase = p]
    BY <1>3 DEF SendOverSocket, SendOverHttp
  <2>2. UNCHANGED <<queue, opened>>  BY <1>3 DEF SendOverSocket, SendOverHttp, device
  <2>3. (\A r \in Senders \ {s} : job'[r] = job[r]) /\ job'[s].envs = job[s].envs
    BY <2>1, TypeFields DEF TypeOK, Jobs
  <2>4. \A q \in reqs' : ToSet(q.rows) \subseteq Around
    BY <2>1, AroundHas DEF Transmits
  <2> QED  BY <2>2, <2>3, <2>4, AroundOfSender
<1>4. CASE ReplyOk(s) \/ ReplyStale(s) \/ LoseReply(s)
  <2>1. UNCHANGED <<queue, opened>>  BY <1>4 DEF ReplyOk, ReplyStale, LoseReply, device
  <2>2. PICK q \in reqs :
          /\ q.from = s /\ q.awaited
          /\ reqs' = reqs \ {q} \/ reqs' = (reqs \ {q}) \cup {[q EXCEPT !.awaited = FALSE]}
          /\ \/ FallsBack(s) \/ Ends(s, "sent") \/ Ends(s, "failed")
             \/ Retries(s, Head(q.rows).to)
    <3>1. CASE ReplyOk(s)  BY <3>1 DEF ReplyOk, Awaited
    <3>2. CASE ReplyStale(s)  BY <3>2 DEF ReplyStale, Awaited
    <3>3. CASE LoseReply(s)  BY <3>3 DEF LoseReply
    <3> QED  BY <1>4, <3>1, <3>2, <3>3
  <2>3. q \in Requests  BY DEF TypeOK
  <2>4. [q EXCEPT !.awaited = FALSE].rows = q.rows  BY <2>3 DEF Requests
  <2>5. \A p \in reqs' : ToSet(p.rows) \subseteq Around
    <3> SUFFICES ASSUME NEW p \in reqs'  PROVE ToSet(p.rows) \subseteq Around
      OBVIOUS
    <3>1. p \in reqs \/ p.rows = q.rows  BY <2>2, <2>4
    <3> QED  BY <3>1, AroundHas
  <2>6. \A r \in Senders \ {s} : job'[r] = job[r]
    BY <2>2 DEF FallsBack, Ends, Retries, TypeOK
  <2>7. job'[s].envs = <<>> \/ job'[s].envs = job[s].envs
    <3>1. CASE FallsBack(s)
      <4>1. job'[s] = [job[s] EXCEPT !.phase = "fallback"]  BY <3>1 DEF FallsBack, TypeOK
      <4> QED  BY <4>1, TypeFields DEF Jobs
    <3>2. CASE Ends(s, "sent") \/ Ends(s, "failed")
      <4>1. job'[s].envs = <<>>  BY <3>2 DEF Ends, NoJob, TypeOK
      <4> QED  BY <4>1
    <3>3. CASE Retries(s, Head(q.rows).to)
      <4>1. DOMAIN job[s] = {"phase", "text", "left", "force", "again", "envs", "got"}
        BY TypeFields DEF Jobs
      <4>2. job'[s].envs = <<>>  BY <3>3, <4>1 DEF Retries, TypeOK
      <4> QED  BY <4>2
    <3> QED  BY <2>2, <3>1, <3>2, <3>3
  <2> QED  BY <2>1, <2>5, <2>6, <2>7, AroundOfSender
<1> QED  BY <1>1, <1>2, <1>3, <1>4

\* Rows on their way to a queue, and from a queue to the device.
LEMMA AnsweredRows ==
  ASSUME TypeOK, NEW q \in reqs, NEW how, Answered(q, how)
  PROVE  \A p \in reqs' : p \in reqs \/ p.rows = q.rows
<1> DEFINE r == [q EXCEPT !.state = how]
<1>1. q \in Requests  BY DEF TypeOK
<1>2. r.rows = q.rows  BY <1>1 DEF Requests
<1>3. reqs' = reqs \ {q} \/ reqs' = (reqs \ {q}) \cup {r}
  BY DEF Answered, Becomes
<1> HIDE DEF r
<1> QED  BY <1>2, <1>3

LEMMA ServerAround ==
  ASSUME TypeOK, Shapes, NEW q \in reqs, ServerStep(q) \/ Forget(q)
  PROVE  Around' \subseteq Around
<1>1. UNCHANGED <<job, opened>>
  BY DEF ServerStep, EnqueueRow, RowStale, Forget, sender, device
<1>2. CASE EnqueueRow(q)
  <2>1. PICK c \in Envelopes : Enqueues(q, c)  BY <1>2, EnqueueRowDoes
  <2>2. q.rows \in Seq(Envelopes) /\ q.rows # <<>> /\ q \in Requests  BY TypeFields DEF Shapes
  <2>3. c \in ToSet(q.rows) /\ ToSet(Tail(q.rows)) \subseteq ToSet(q.rows)
    BY <2>1, <2>2, HeadTailSet DEF Enqueues
  <2>4. c \in Around  BY <2>3, AroundHas
  <2>5. \A p \in reqs' : ToSet(p.rows) \subseteq Around
    <3> DEFINE r == [q EXCEPT !.rows = Tail(q.rows)]
    <3>1. r.rows = Tail(q.rows)  BY <2>2 DEF Requests
    <3>2. CASE Answered(q, "ok")
      <4>1. \A p \in reqs' : p \in reqs \/ p.rows = q.rows  BY <3>2, AnsweredRows
      <4> QED  BY <4>1, AroundHas
    <3>3. CASE Becomes(q, r)
      <4>1. reqs' = (reqs \ {q}) \cup {r}  BY <3>3 DEF Becomes
      <4> HIDE DEF r
      <4> QED  BY <2>3, <3>1, <4>1, AroundHas
    <3> QED  BY <2>1, <3>2, <3>3 DEF Enqueues
  <2>6. \A d \in Devices : ToSet(queue'[d]) \subseteq Around
    <3> SUFFICES ASSUME NEW d \in Devices  PROVE ToSet(queue'[d]) \subseteq Around
      OBVIOUS
    <3>1. queue[d] \in Seq(Envelopes)  BY TypeFields
    <3>2. queue'[d] = queue[d] \/ queue'[d] = Append(queue[d], c)
      BY <2>1 DEF Enqueues, TypeOK
    <3>3. ToSet(Append(queue[d], c)) = ToSet(queue[d]) \cup {c}  BY <3>1, AppendSet
    <3> QED  BY <2>4, <3>2, <3>3, AroundHas
  <2>7. Around' \subseteq Around \cup {}  BY <1>1, <2>5, <2>6, AroundHas, AroundStep
  <2> QED  BY <2>7
<1>3. CASE RowStale(q) \/ Forget(q)
  <2>3. \A p \in reqs' : p \in reqs \/ p.rows = q.rows
    BY <1>3, AnsweredRows DEF RowStale, Forget
  <2>4. \A p \in reqs' : ToSet(p.rows) \subseteq Around  BY <2>3, AroundHas
  <2>5. UNCHANGED queue  BY <1>3 DEF RowStale, Forget
  <2>6. Around' \subseteq Around \cup {}  BY <1>1, <2>4, <2>5, AroundHas, AroundStep
  <2> QED  BY <2>6
<1> QED  BY <1>2, <1>3 DEF ServerStep

LEMMA DeviceAround ==
  ASSUME TypeOK, Shapes, NEW d \in Devices,
         Register(d) \/ SaveStore(d) \/ RefillFails(d) \/ Replenish(d) \/ Receive(d)
  PROVE  Around' \subseteq Around
<1>1. UNCHANGED <<job, reqs>>
  BY DEF Register, SaveStore, RefillFails, Replenish, CheckStatus, MakeKeys, UploadKeys, Receive,
         OpenRow, SkipDuplicate, sender
<1>2. \A c \in Devices : ToSet(queue'[c]) \subseteq Around /\ opened'[c] \subseteq Around
  <2>1. CASE Register(d)
    <3>1. \A c \in Devices : /\ queue'[c] = <<>> \/ queue'[c] = queue[c]
                             /\ opened'[c] = {} \/ opened'[c] = opened[c]
      BY <2>1 DEF Register, TypeOK
    <3> QED  BY <3>1, EmptySet, AroundHas
  <2>2. CASE SaveStore(d) \/ RefillFails(d) \/ Replenish(d)
    <3>1. UNCHANGED <<queue, opened>>
      BY <2>2 DEF SaveStore, RefillFails, Replenish, CheckStatus, MakeKeys, UploadKeys, device
    <3> QED  BY <3>1, AroundHas
  <2>3. CASE Receive(d)
    <3>1. queue[d] \in Seq(Envelopes) /\ queue[d] # <<>> /\ queue' = [queue EXCEPT ![d] = Tail(queue[d])]
      BY <2>3 DEF Receive, OpenRow, SkipDuplicate, NextRow, TypeOK
    <3>2. Head(queue[d]) \in ToSet(queue[d]) /\ ToSet(Tail(queue[d])) \subseteq ToSet(queue[d])
      BY <3>1, HeadTailSet
    <3>3. \A c \in Devices : queue'[c] = queue[c] \/ (c = d /\ queue'[c] = Tail(queue[d]))
      BY <3>1 DEF TypeOK
    <3>4. \A c \in Devices : opened'[c] \subseteq opened[c] \cup {Head(queue[d])}
      <4>1. CASE OpenRow(d)
        <5>1. PICK e \in Envelopes : Reads(d, e) /\ (Opens(d, e) \/ Keyless(d, e))
          BY <4>1, OpenRowDoes
        <5>2. e = Head(queue[d])  BY <5>1 DEF Reads
        <5>3. CASE Opens(d, e)
          <6>1. \A c \in Devices : opened'[c] = IF c = d THEN opened[d] \cup {e} ELSE opened[c]
            BY <5>3 DEF Opens, TypeOK
          <6> QED  BY <5>2, <6>1
        <5>4. CASE Keyless(d, e)  BY <5>4 DEF Keyless
        <5> QED  BY <5>1, <5>3, <5>4
      <4>2. CASE SkipDuplicate(d)  BY <4>2 DEF SkipDuplicate, device
      <4> QED  BY <2>3, <4>1, <4>2 DEF Receive
    <3> QED  BY <3>2, <3>3, <3>4, AroundHas
  <2> QED  BY <2>1, <2>2, <2>3
<1>3. Around' \subseteq Around \cup {}  BY <1>1, <1>2, AroundHas, AroundStep
<1> QED  BY <1>3

\* The one place where an envelope is made.
LEMMA EncryptsAround ==
  ASSUME TypeOK, Shapes, NEW s \in Senders, NEW d \in Devices, NEW g \in Sessions, Begun(s),
         job[s].left # <<>>, d = Head(job[s].left),
         job' = [job EXCEPT ![s] = Encrypted(s, d, g)], UNCHANGED <<reqs, queue, opened>>
  PROVE  /\ Around' \subseteq Around \cup {Envelope(s, d, g)}
         /\ job'[s].envs \in Seq(Envelopes)
         /\ ToSet(job'[s].envs) = ToSet(job[s].envs) \cup {Envelope(s, d, g)}
         /\ job'[s].left = Tail(job[s].left) /\ job'[s].phase = "encrypt"
         /\ job'[s].text = job[s].text /\ job'[s].again = job[s].again
         /\ job'[s].force = job[s].force /\ job'[s].got = NoSession
         /\ \A r \in Senders \ {s} : job'[r] = job[r]
<1> DEFINE e == Envelope(s, d, g)
           j == Encrypted(s, d, g)
<1>1. job[s] \in Jobs /\ job[s].envs \in Seq(Envelopes) /\ job[s].text \in Texts
  BY TypeFields DEF Shapes
<1>2. e \in Envelopes  BY <1>1, EnvelopeTyped
<1>3. /\ j.envs = Append(job[s].envs, e) /\ j.left = Tail(job[s].left) /\ j.phase = "encrypt"
      /\ j.text = job[s].text /\ j.again = job[s].again
      /\ j.force = job[s].force /\ j.got = NoSession
  BY <1>1 DEF Encrypted, Jobs
<1>4. job'[s] = j /\ \A r \in Senders \ {s} : job'[r] = job[r]  BY DEF TypeOK
<1> HIDE DEF e, j
<1>5. job'[s].envs \in Seq(Envelopes) /\ ToSet(job'[s].envs) = ToSet(job[s].envs) \cup {e}
  <2>1. job'[s].envs = Append(job[s].envs, e)  BY <1>3, <1>4
  <2>2. /\ Append(job[s].envs, e) \in Seq(Envelopes)
        /\ ToSet(Append(job[s].envs, e)) = ToSet(job[s].envs) \cup {e}
    BY <1>1, <1>2, AppendSet
  <2> QED  BY <2>1, <2>2
<1>6. Around' \subseteq Around \cup {e}
  <2>1. \A r \in Senders : ToSet(job'[r].envs) \subseteq Around \cup {e}
    BY <1>4, <1>5, AroundHas
  <2> QED  BY <2>1, AroundHas, AroundStep
<1> QED  BY <1>3, <1>4, <1>5, <1>6 DEF e

----------------------------------------------------------------------------
(* Keys and sessions *)

LEMMA KeysInit ==
  ASSUME Init
  PROVE  KeysInv
<1> USE DEF Init
<1>1. /\ \A d \in Devices : reg[d] \in Nat /\ (up[d] => reg[d] = 1)
      /\ Target \in Nat
  BY PoolAssumption
<1>2. \A d \in Devices : KeysFit(d)
  <2> SUFFICES ASSUME NEW d \in Devices  PROVE KeysFit(d)
    OBVIOUS
  <2>1. own[d] = pool[d] /\ refill[d] = NoRefill /\ NoRefill.phase = "idle" /\ known[d] = {}
    BY DEF NoRefill
  <2>2. CASE d \in bound.linked
    <3>1. up[d] /\ \A k \in Kinds : pool[d][k] = 1..Target /\ nextKey[d][k] = Target + 1
      BY <2>2
    <3>2. \A i \in 1..Target : i < Target + 1  BY <1>1
    <3> QED  BY <1>1, <2>1, <3>1, <3>2 DEF KeysFit
  <2>3. CASE d \notin bound.linked
    <3>1. ~up[d] /\ \A k \in Kinds : pool[d][k] = {} /\ nextKey[d][k] = Target + 1
      BY <2>3 DEF NoKeys
    <3> QED  BY <1>1, <2>1, <3>1 DEF KeysFit, Kinds
  <2> QED  BY <2>2, <2>3
<1>3. DeviceKeys  BY <1>2, EmptySet DEF DeviceKeys, KeysGoOnce
<1>4. Around = {}
  <2>1. /\ \A s \in Senders : job[s].envs = <<>>
        /\ \A d \in Devices : queue[d] = <<>> /\ opened[d] = {}
        /\ reqs = {}
    BY DEF NoJob
  <2>2. \A e : e \notin Around  BY <2>1, EmptySet, AroundIs
  <2> QED  BY <2>2
<1>5. SenderKeys  BY <1>4, EmptySet DEF SenderKeys, JobKeys, NoJob
<1> QED  BY <1>3, <1>5 DEF KeysInv

\* The same after a step.
FitsNext(s, d, g) ==
    /\ g.reg \in 1..reg'[d]
    /\ g.ec # 0 => <<d, g.reg, g.ec, s, g.n>> \in given'

LEMMA FitsGrows ==
  ASSUME TypeOK, TypeOK', NEW s, NEW d \in Devices, NEW g, SessionFits(s, d, g),
         reg[d] <= reg'[d], given \subseteq given'
  PROVE  FitsNext(s, d, g)
<1>1. reg[d] \in Nat /\ reg'[d] \in Nat  BY DEF TypeOK
<1> QED  BY <1>1 DEF SessionFits, FitsNext

\* The senders' part: registrations and given keys only grow, and what is new
\* fits.
LEMMA SenderKeysStep ==
  ASSUME TypeOK, TypeOK', SenderKeys,
         \A d \in Devices : reg[d] <= reg'[d], given \subseteq given',
         \A s \in Senders, d \in Devices :
            session'[s][d] = session[s][d] \/ FitsNext(s, d, session'[s][d]),
         \A s \in Senders : job'[s] = job[s] \/ JobKeys(s)',
         \A e \in Around' : e \in Around \/ FitsNext(e.from, e.to, e.sess),
         \A s \in Senders : job[s].phase \in {"bundle", "kyber"} => job[s].left # <<>>,
         \A t \in Texts : sentTo'[t] = sentTo[t] \/ sentTo'[t] = Registered
  PROVE  SenderKeys'
<1>0. \A d \in Devices : reg[d] \in Nat /\ reg'[d] \in Nat  BY DEF TypeOK
<1>1. ASSUME NEW s \in Senders, NEW d \in Devices
      PROVE  session'[s][d] = NoSession \/ FitsNext(s, d, session'[s][d])
  BY FitsGrows DEF SenderKeys
<1>2. ASSUME NEW s \in Senders, job'[s] = job[s]  PROVE JobKeys(s)'
  <2>1. JobKeys(s)  BY DEF SenderKeys
  <2>2. job[s].left \in Seq(Devices) /\ ToSet(job[s].left) \subseteq Devices
    BY TypeFields, SeqSets
  <2>3. \A d \in ToSet(job'[s].left) : reg'[d] # 0  BY <1>0, <1>2, <2>1, <2>2 DEF JobKeys
  <2>4. job[s].phase \in {"bundle", "kyber"} => Head(job[s].left) \in Devices
    BY <2>2, HeadTailSet
  <2>5. job'[s].phase = "bundle" => job'[s].got.reg \in 1..reg'[Head(job'[s].left)]
    BY <1>0, <1>2, <2>1, <2>4 DEF JobKeys
  <2>6. job'[s].phase = "kyber" => FitsNext(s, Head(job'[s].left), job'[s].got)
    BY <1>2, <2>1, <2>4, FitsGrows DEF JobKeys
  <2> QED  BY <2>3, <2>5, <2>6 DEF JobKeys, SessionFits, FitsNext
<1>3. ASSUME NEW e \in Around'  PROVE FitsNext(e.from, e.to, e.sess)
  <2>1. CASE e \in Around
    <3>1. e.to \in Devices /\ SessionFits(e.from, e.to, e.sess)
      BY <2>1, AroundHas DEF SenderKeys, Envelopes
    <3> QED  BY <3>1, FitsGrows
  <2> QED  BY <2>1
<1>4. ASSUME NEW t \in Texts, NEW d \in sentTo'[t]  PROVE reg'[d] # 0
  <2>1. d \in Devices /\ reg[d] # 0
    <3>1. CASE sentTo'[t] = sentTo[t]
      <4>1. sentTo[t] \subseteq Devices  BY DEF TypeOK
      <4> QED  BY <1>4, <3>1, <4>1 DEF SenderKeys
    <3>2. CASE sentTo'[t] = Registered  BY <1>4, <3>2 DEF Registered
    <3> QED  BY <3>1, <3>2
  <2> QED  BY <1>0, <2>1
<1> QED  BY <1>1, <1>2, <1>3, <1>4 DEF SenderKeys, SessionFits, FitsNext

\* What a job that only moves on keeps.
LEMMA JobKeysEasy ==
  ASSUME SenderKeys, NEW s \in Senders, UNCHANGED reg,
         job'[s].phase \notin {"bundle", "kyber"}, ToSet(job'[s].left) \subseteq ToSet(job[s].left)
  PROVE  JobKeys(s)'
BY DEF SenderKeys, JobKeys

LEMMA NotReg ==
  ASSUME TypeOK, Shapes, KeysInv, NEW s \in Senders, Begun(s)
  PROVE  \A d \in ToSet(job[s].left) : d \in Devices /\ reg[d] \in Nat /\ reg[d] >= 1
<1>1. ToSet(job[s].left) \subseteq Devices  BY TypeFields, SeqSets
<1>2. \A d \in ToSet(job[s].left) : reg[d] # 0  BY DEF KeysInv, SenderKeys, JobKeys
<1>3. \A d \in Devices : reg[d] \in Nat  BY DEF TypeOK
<1> QED  BY <1>1, <1>2, <1>3

LEMMA SendDmKeys ==
  ASSUME TypeOK, Shapes, TypeOK', KeysInv, NEW s \in Senders, SendDm(s)
  PROVE  SenderKeys'
<1>1. job'[s].phase = "encrypt" /\ job'[s].left = InOrder(Registered)
      /\ \A r \in Senders \ {s} : job'[r] = job[r]
  BY DEF SendDm, TypeOK, NoJob
<1>2. ToSet(job'[s].left) = Registered
  <2>1. Registered \in SUBSET Devices  BY DEF Registered
  <2> QED  BY <1>1, <2>1, InOrderIs
<1>3. UNCHANGED <<reg, given, session>>  BY DEF SendDm, log
<1>4. JobKeys(s)'  BY <1>1, <1>2, <1>3 DEF JobKeys, Registered
<1>5. Around' \subseteq Around  BY SenderAround
<1>6. \A d \in Devices : reg[d] <= reg'[d]  BY <1>3 DEF TypeOK
<1>7. \A t \in Texts : sentTo'[t] = sentTo[t] \/ sentTo'[t] = Registered
  BY DEF SendDm, TypeOK
<1> QED  BY <1>1, <1>3, <1>4, <1>5, <1>6, <1>7, SenderKeysStep DEF KeysInv, Shapes, Begun

LEMMA UseSessionKeys ==
  ASSUME TypeOK, Shapes, TypeOK', KeysInv, NEW s \in Senders, UseSession(s)
  PROVE  SenderKeys'
<1> DEFINE d == Head(job[s].left)
           g == session[s][d]
           e == Envelope(s, d, g)
<1>1. job[s].left # <<>> /\ Begun(s) /\ job[s].left \in Seq(Devices)
  BY TypeFields DEF UseSession, Encrypts, Begun
<1>2. d \in Devices /\ g \in Sessions /\ g # NoSession /\ ToSet(Tail(job[s].left)) \subseteq ToSet(job[s].left)
  BY <1>1, TypeFields, HeadTailSet DEF UseSession
<1>3. UNCHANGED <<reg, given, session, sentTo, reqs, queue, opened>>  BY DEF UseSession, log, device
<1>4. job' = [job EXCEPT ![s] = Encrypted(s, d, g)]  BY DEF UseSession
<1> HIDE DEF g, d
<1>5. /\ Around' \subseteq Around \cup {e} /\ \A r \in Senders \ {s} : job'[r] = job[r]
      /\ job'[s].left = Tail(job[s].left) /\ job'[s].phase = "encrypt"
  BY <1>1, <1>2, <1>3, <1>4, EncryptsAround DEF d
<1>6. JobKeys(s)'  BY <1>2, <1>3, <1>5, JobKeysEasy DEF KeysInv
<1>7. FitsNext(e.from, e.to, e.sess)
  <2>1. SessionFits(s, d, g)  BY <1>2 DEF KeysInv, SenderKeys, g
  <2>2. e.from = s /\ e.to = d /\ e.sess = g  BY DEF Envelope
  <2> QED  BY <1>3, <2>1, <2>2 DEF SessionFits, FitsNext
<1>8. \A x \in Devices : reg[x] <= reg'[x]  BY <1>3 DEF TypeOK
<1> HIDE DEF e
<1> QED  BY <1>1, <1>3, <1>5, <1>6, <1>7, <1>8, SenderKeysStep DEF KeysInv, Shapes, Begun

LEMMA PickKeyKeys ==
  ASSUME TypeOK, Shapes, TypeOK', KeysInv, NEW s \in Senders, PickKey(s)
  PROVE  SenderKeys'
<1> DEFINE d == Head(job[s].left)
<1>1. job[s].left # <<>> /\ Begun(s) /\ job[s].left \in Seq(Devices)
  BY TypeFields DEF PickKey, Encrypts, Begun
<1>2. d \in ToSet(job[s].left)  BY <1>1, HeadTailSet
<1>3. UNCHANGED <<reg, given, session, sentTo>>  BY DEF PickKey, log
<1>4. /\ job'[s].phase = "bundle" /\ job'[s].left = job[s].left /\ job'[s].got.reg = reg[d]
      /\ \A r \in Senders \ {s} : job'[r] = job[r]
  BY TypeFields DEF PickKey, TypeOK, Jobs
<1>5. reg[d] \in 1..reg[d]  BY <1>1, <1>2, NotReg
<1> HIDE DEF d
<1>6. JobKeys(s)'
  <2>1. \A x \in ToSet(job'[s].left) : reg'[x] # 0
    BY <1>3, <1>4 DEF KeysInv, SenderKeys, JobKeys
  <2> QED  BY <1>3, <1>4, <1>5, <2>1 DEF JobKeys, d
<1>7. Around' \subseteq Around  BY SenderAround
<1>8. \A x \in Devices : reg[x] <= reg'[x]  BY <1>3 DEF TypeOK
<1> QED  BY <1>3, <1>4, <1>6, <1>7, <1>8, SenderKeysStep DEF KeysInv, Shapes, Begun

LEMMA TakeKeyKeys ==
  ASSUME TypeOK, Shapes, TypeOK', KeysInv, NEW s \in Senders, TakeKey(s)
  PROVE  SenderKeys'
<1>1. PICK d \in Devices, g \in Sessions : TakesKey(s, d, g)  BY TakeKeyDoes
<1>2. UNCHANGED <<reg, session, sentTo>>  BY DEF TakeKey
<1>3. given \subseteq given'  BY <1>1 DEF TakesKey
<1>4. /\ job'[s].phase = "kyber" /\ job'[s].left = job[s].left /\ job'[s].got = g
      /\ \A r \in Senders \ {s} : job'[r] = job[r]
  <2>1. job'[s] = [job[s] EXCEPT !.phase = "kyber", !.got = g]
        /\ \A r \in Senders \ {s} : job'[r] = job[r]
    BY <1>1 DEF TakesKey, TypeOK
  <2> QED  BY <2>1, TypeFields DEF Jobs
<1>5. g.reg \in 1..reg[d] /\ d = Head(job[s].left)
  BY <1>1 DEF TakesKey, KeysInv, SenderKeys, JobKeys
<1>6. FitsNext(s, d, g)  BY <1>1, <1>2, <1>5 DEF FitsNext, TakesKey
<1>7. JobKeys(s)'
  <2>1. \A x \in ToSet(job'[s].left) : reg'[x] # 0
    BY <1>2, <1>4 DEF KeysInv, SenderKeys, JobKeys
  <2> QED  BY <1>4, <1>5, <1>6, <2>1 DEF JobKeys, SessionFits, FitsNext
<1>8. Around' \subseteq Around  BY SenderAround
<1>9. \A x \in Devices : reg[x] <= reg'[x]  BY <1>2 DEF TypeOK
<1> QED  BY <1>2, <1>3, <1>4, <1>7, <1>8, <1>9, SenderKeysStep DEF KeysInv, Shapes, Begun

LEMMA InitiateSessionKeys ==
  ASSUME TypeOK, Shapes, TypeOK', KeysInv, NEW s \in Senders, InitiateSession(s)
  PROVE  SenderKeys'
<1>1. UNCHANGED <<reg, given, sentTo, reqs, queue, opened>>  BY DEF InitiateSession, log, device
<1>2. \A x \in Devices : reg[x] <= reg'[x]  BY <1>1 DEF TypeOK
<1>3. CASE GivesUp(s)
  <2>1. Begun(s)  BY <1>3 DEF GivesUp, Begun
  <2>2. job'[s] = NoJob /\ \A r \in Senders \ {s} : job'[r] = job[r]
    BY <1>3, <2>1, EndsTyped DEF GivesUp
  <2>3. JobKeys(s)'  BY <1>1, <2>2, EmptySet, JobKeysEasy DEF NoJob, KeysInv
  <2>4. Around' \subseteq Around  BY <1>3, SenderAround
  <2>5. UNCHANGED session  BY <1>3 DEF GivesUp
  <2> QED  BY <1>1, <1>2, <2>2, <2>3, <2>4, <2>5, SenderKeysStep DEF KeysInv, Shapes, Begun
<1>4. ASSUME NEW d \in Devices, NEW g \in Sessions, Settles(s, d, g)  PROVE SenderKeys'
  <2> DEFINE e == Envelope(s, d, g)
  <2>1. /\ job[s].left # <<>> /\ Begun(s) /\ job[s].left \in Seq(Devices) /\ d = Head(job[s].left)
        /\ job' = [job EXCEPT ![s] = Encrypted(s, d, g)] /\ g = job[s].got /\ job[s].phase = "kyber"
    BY <1>4, TypeFields DEF Settles, Begun
  <2>2. ToSet(Tail(job[s].left)) \subseteq ToSet(job[s].left)  BY <2>1, HeadTailSet
  <2>3. /\ Around' \subseteq Around \cup {e} /\ \A r \in Senders \ {s} : job'[r] = job[r]
        /\ job'[s].left = Tail(job[s].left) /\ job'[s].phase = "encrypt"
    BY <1>1, <2>1, EncryptsAround
  <2>4. JobKeys(s)'  BY <1>1, <2>2, <2>3, JobKeysEasy DEF KeysInv
  <2>5. FitsNext(s, d, g)
    <3>1. SessionFits(s, d, g)  BY <2>1 DEF KeysInv, SenderKeys, JobKeys
    <3> QED  BY <1>1, <3>1 DEF SessionFits, FitsNext
  <2>6. FitsNext(e.from, e.to, e.sess)
    <3>1. e.from = s /\ e.to = d /\ e.sess = g  BY DEF Envelope
    <3> QED  BY <2>5, <3>1
  <2>7. \A r \in Senders, x \in Devices :
           session'[r][x] = session[r][x] \/ FitsNext(r, x, session'[r][x])
    <3> SUFFICES ASSUME NEW r \in Senders, NEW x \in Devices
                 PROVE  session'[r][x] = session[r][x] \/ FitsNext(r, x, session'[r][x])
      OBVIOUS
    <3>1. session' = [session EXCEPT ![s][d] = g]  BY <1>4 DEF Settles
    <3>2. session'[r][x] = session[r][x] \/ (r = s /\ x = d /\ session'[r][x] = g)
      BY <3>1 DEF TypeOK
    <3> QED  BY <2>5, <3>2
  <2> HIDE DEF e
  <2> QED  BY <1>1, <1>2, <2>3, <2>4, <2>6, <2>7, SenderKeysStep DEF KeysInv, Shapes, Begun
<1> QED  BY <1>3, <1>4, InitiateSessionDoes

LEMMA SendsKeys ==
  ASSUME TypeOK, Shapes, TypeOK', KeysInv, NEW s \in Senders,
         SendOverSocket(s) \/ SendOverHttp(s)
  PROVE  SenderKeys'
<1>1. PICK p \in {"ws", "http"} : job' = [job EXCEPT ![s].phase = p]
  BY DEF SendOverSocket, SendOverHttp
<1>2. Begun(s)  BY DEF SendOverSocket, SendOverHttp, Begun
<1>3. job'[s].phase = p /\ job'[s].left = job[s].left /\ \A r \in Senders \ {s} : job'[r] = job[r]
  BY <1>1, <1>2, PhaseTyped
<1>4. UNCHANGED <<reg, given, session, sentTo>>  BY DEF SendOverSocket, SendOverHttp, log
<1>5. JobKeys(s)'  BY <1>3, <1>4, JobKeysEasy DEF KeysInv
<1>6. Around' \subseteq Around  BY SenderAround
<1>7. \A x \in Devices : reg[x] <= reg'[x]  BY <1>4 DEF TypeOK
<1> QED  BY <1>3, <1>4, <1>5, <1>6, <1>7, SenderKeysStep DEF KeysInv, Shapes, Begun

\* The ways in which a reply, or its loss, changes a job.
LEMMA ReplyDoes ==
  ASSUME TypeOK, Shapes, NEW s \in Senders, ReplyOk(s) \/ ReplyStale(s) \/ LoseReply(s)
  PROVE  \E q \in reqs :
          /\ q.from = s /\ q.awaited /\ Begun(s) /\ job[s].left = <<>> /\ q.rows # <<>>
          /\ q \in Requests /\ job[s].phase = q.via
          /\ reqs' = reqs \ {q} \/ (LoseReply(s) /\ reqs' = (reqs \ {q}) \cup {[q EXCEPT !.awaited = FALSE]})
          /\ \/ FallsBack(s) /\ q.via = "ws" /\ UNCHANGED <<outcome, retried>>
             \/ Ends(s, "sent") /\ q.state = "ok" /\ UNCHANGED retried
             \/ /\ Ends(s, "failed") /\ UNCHANGED retried
                /\ LoseReply(s) \/ (job[s].again /\ q.state = "stale")
             \/ /\ Retries(s, Head(q.rows).to) /\ q.state = "stale" /\ UNCHANGED outcome
                /\ ~job[s].again /\ Head(q.rows).to \in Devices
<1>1. CASE ReplyOk(s)
  <2>1. PICK q \in reqs : Awaited(s, q) /\ q.state = "ok" /\ reqs' = reqs \ {q}  BY <1>1 DEF ReplyOk
  <2>2. q.from = s /\ q.awaited  BY <2>1 DEF Awaited
  <2>3. Begun(s) /\ job[s].left = <<>> /\ q.rows # <<>> /\ q \in Requests /\ job[s].phase = q.via
    BY <2>2, AwaitedFits DEF Shapes
  <2>4. Ends(s, "sent") /\ UNCHANGED retried  BY <1>1 DEF ReplyOk
  <2> QED  BY <2>1, <2>2, <2>3, <2>4
<1>2. CASE ReplyStale(s)
  <2>1. PICK q \in reqs :
          /\ Awaited(s, q) /\ q.state = "stale" /\ reqs' = reqs \ {q}
          /\ \/ q.via = "ws" /\ FallsBack(s) /\ UNCHANGED <<outcome, retried>>
             \/ /\ q.via = "http" /\ ~job[s].again
                /\ Retries(s, Head(q.rows).to) /\ UNCHANGED outcome
             \/ /\ q.via = "http" /\ job[s].again
                /\ Ends(s, "failed") /\ UNCHANGED retried
    BY <1>2 DEF ReplyStale
  <2>2. q.from = s /\ q.awaited  BY <2>1 DEF Awaited
  <2>3. Begun(s) /\ job[s].left = <<>> /\ q.rows # <<>> /\ q \in Requests /\ job[s].phase = q.via
    BY <2>2, AwaitedFits DEF Shapes
  <2>4. Head(q.rows).to \in Devices
    <3>1. q.rows \in Seq(Envelopes) /\ q.rows # <<>>  BY <2>3, TypeFields
    <3>2. Head(q.rows) \in Envelopes  BY <3>1
    <3> QED  BY <3>2 DEF Envelopes
  <2> QED  BY <2>1, <2>2, <2>3, <2>4
<1>3. CASE LoseReply(s)
  <2>1. PICK q \in reqs :
          /\ q.from = s /\ q.awaited
          /\ reqs' = (reqs \ {q}) \cup {[q EXCEPT !.awaited = FALSE]}
          /\ \/ q.via = "ws" /\ FallsBack(s) /\ UNCHANGED outcome
             \/ q.via = "http" /\ Ends(s, "failed")
    BY <1>3 DEF LoseReply
  <2>3. Begun(s) /\ job[s].left = <<>> /\ q.rows # <<>> /\ q \in Requests /\ job[s].phase = q.via
    BY <2>1, AwaitedFits DEF Shapes
  <2>4. UNCHANGED retried  BY <1>3 DEF LoseReply
  <2> QED  BY <1>3, <2>1, <2>3, <2>4
<1> QED  BY <1>1, <1>2, <1>3

LEMMA RepliesKeys ==
  ASSUME TypeOK, Shapes, TypeOK', KeysInv, NEW s \in Senders,
         ReplyOk(s) \/ ReplyStale(s) \/ LoseReply(s)
  PROVE  SenderKeys'
<1>1. UNCHANGED <<reg, given, session, sentTo>>  BY DEF ReplyOk, ReplyStale, LoseReply, log
<1>2. PICK q \in reqs :
         /\ Begun(s)
         /\ FallsBack(s) \/ Ends(s, "sent") \/ Ends(s, "failed")
               \/ (Retries(s, Head(q.rows).to) /\ Head(q.rows).to \in Devices /\ job[s].left = <<>>)
  BY ReplyDoes
<1>3. JobKeys(s)' /\ \A r \in Senders \ {s} : job'[r] = job[r]
  <2>1. CASE FallsBack(s)
    <3>1. job'[s].phase = "fallback" /\ job'[s].left = job[s].left
          /\ \A r \in Senders \ {s} : job'[r] = job[r]
      BY <1>2, <2>1, PhaseTyped DEF FallsBack
    <3> QED  BY <1>1, <3>1, JobKeysEasy DEF KeysInv
  <2>2. CASE Ends(s, "sent") \/ Ends(s, "failed")
    <3>1. job'[s] = NoJob /\ \A r \in Senders \ {s} : job'[r] = job[r]
      BY <1>2, <2>2, EndsTyped
    <3> QED  BY <1>1, <3>1, EmptySet, JobKeysEasy DEF NoJob, KeysInv
  <2>3. CASE Retries(s, Head(q.rows).to) /\ Head(q.rows).to \in Devices /\ job[s].left = <<>>
    <3>1. /\ job'[s].phase = "encrypt" /\ job'[s].left = InOrder(sentTo[job[s].text])
          /\ job[s].text \in Texts /\ \A r \in Senders \ {s} : job'[r] = job[r]
      BY <1>2, <2>3, RetriesTyped
    <3>2. ToSet(job'[s].left) = sentTo[job[s].text]
      <4>1. sentTo[job[s].text] \in SUBSET Devices  BY <3>1 DEF TypeOK
      <4> QED  BY <3>1, <4>1, InOrderIs
    <3> QED  BY <1>1, <3>1, <3>2 DEF JobKeys, KeysInv, SenderKeys
  <2> QED  BY <1>2, <2>1, <2>2, <2>3
<1>4. Around' \subseteq Around  BY SenderAround
<1>5. \A x \in Devices : reg[x] <= reg'[x]  BY <1>1 DEF TypeOK
<1> QED  BY <1>1, <1>3, <1>4, <1>5, SenderKeysStep DEF KeysInv, Shapes, Begun

\* Steps of the server and of the devices touch no session and no job.
LEMMA OthersKeys ==
  ASSUME TypeOK, Shapes, TypeOK', KeysInv, UNCHANGED <<session, job, sentTo, given>>,
         \A d \in Devices : reg[d] <= reg'[d], Around' \subseteq Around
  PROVE  SenderKeys'
BY SenderKeysStep DEF KeysInv, Shapes, Begun

LEMMA SenderKeysKept ==
  ASSUME TypeOK, Shapes, TypeOK', KeysInv, Next
  PROVE  SenderKeys'
<1>1. ASSUME NEW s \in Senders, SendDm(s) \/ SenderStep(s) \/ LoseReply(s)
      PROVE  SenderKeys'
  BY <1>1, SendDmKeys, UseSessionKeys, PickKeyKeys, TakeKeyKeys, InitiateSessionKeys, SendsKeys,
     RepliesKeys DEF SenderStep
<1>2. ASSUME NEW q \in reqs, ServerStep(q) \/ Forget(q)
      PROVE  SenderKeys'
  <2>1. UNCHANGED <<reg, session, job, sentTo, given>>
    BY <1>2 DEF ServerStep, EnqueueRow, RowStale, Forget, sender, log
  <2>2. \A d \in Devices : reg[d] <= reg'[d]  BY <2>1 DEF TypeOK
  <2> QED  BY <1>2, <2>1, <2>2, ServerAround, OthersKeys
<1>3. ASSUME NEW d \in Devices,
             Register(d) \/ SaveStore(d) \/ RefillFails(d) \/ Replenish(d) \/ Receive(d)
      PROVE  SenderKeys'
  <2>1. UNCHANGED <<session, job, sentTo, given>>
    BY <1>3 DEF Register, SaveStore, RefillFails, Replenish, CheckStatus, MakeKeys, UploadKeys,
                Receive, OpenRow, SkipDuplicate, sender, log
  <2>2. \A c \in Devices : reg[c] <= reg'[c]
    <3>1. CASE Register(d)
      <4>1. \A c \in Devices : reg'[c] = IF c = d THEN reg[c] + 1 ELSE reg[c]
        BY <3>1 DEF Register, TypeOK
      <4>2. \A c \in Devices : reg[c] \in Nat  BY DEF TypeOK
      <4> QED  BY <4>1, <4>2
    <3>2. CASE ~Register(d)
      <4>1. UNCHANGED reg
        BY <1>3, <3>2 DEF SaveStore, RefillFails, Replenish, CheckStatus, MakeKeys, UploadKeys,
                    Receive, OpenRow, SkipDuplicate
      <4> QED  BY <4>1 DEF TypeOK
    <3> QED  BY <3>1, <3>2
  <2> QED  BY <1>3, <2>1, <2>2, DeviceAround, OthersKeys
<1> QED  BY <1>1, <1>2, <1>3 DEF Next

----------------------------------------------------------------------------
(* Keys on the device and on the server *)

\* What no change of the other parts of the state disturbs.
LEMMA DeviceKeysOfSenders ==
  ASSUME DeviceKeys, UNCHANGED <<reg, queue, unopened, own, nextKey, up, refill, known, pool, given>>
  PROVE  DeviceKeys'
BY DEF DeviceKeys, KeysFit, GivenFits, KeysGoOnce

\* A pool that only shrinks is still held.
LEMMA TakeKeyDeviceKeys ==
  ASSUME TypeOK, Shapes, KeysInv, NEW s \in Senders, TakeKey(s)
  PROVE  DeviceKeys'
<1>1. PICK d \in Devices, g \in Sessions : TakesKey(s, d, g)  BY TakeKeyDoes
<1>2. UNCHANGED <<reg, queue, unopened, own, nextKey, up, refill, known>>
  BY DEF TakeKey, device
<1> DEFINE x == <<d, g.reg, g.ec, s, g.n>>
<1>3. /\ \A c \in Devices, k \in Kinds : pool'[c][k] =
            IF c = d /\ k = "ec" /\ reg[d] = g.reg THEN pool[c][k] \ {g.ec} ELSE pool[c][k]
      /\ given' = IF g.ec # 0 THEN given \cup {x} ELSE given
      /\ g.ec # 0 => reg[d] = g.reg /\ g.ec \in pool[d]["ec"]
  BY <1>1 DEF TakesKey
<1>4. x[1] = d /\ x[2] = g.reg /\ x[3] = g.ec /\ x[4] = s /\ x[5] = g.n  OBVIOUS
<1>5. \A y \in given : y[1] \in Devices  BY DEF TypeOK
<1>6. "ec" \in Kinds /\ "kyber" \in Kinds  BY DEF Kinds
<1> HIDE DEF x
<1>7. \A c \in Devices : KeysFit(c)'
  <2> SUFFICES ASSUME NEW c \in Devices  PROVE KeysFit(c)'
    OBVIOUS
  <2>1. KeysFit(c)  BY DEF KeysInv, DeviceKeys
  <2>2. \A k \in Kinds : pool'[c][k] \subseteq pool[c][k]  BY <1>3
  <2>3. /\ \A k \in Kinds : 0 \notin pool'[c][k] \cup own'[c][k] /\ nextKey'[c][k] # 0
        /\ ~up'[c] => /\ pool'[c]["ec"] \subseteq 1..Target /\ pool'[c]["kyber"] = {}
                      /\ refill'[c] = NoRefill /\ known'[c] = {}
        /\ up'[c] => \A k \in Kinds : /\ pool'[c][k] \subseteq own'[c][k]
                                      /\ \A id \in own'[c][k] : id < nextKey'[c][k]
    BY <1>2, <1>6, <2>1, <2>2 DEF KeysFit
  <2>4. ASSUME refill'[c].phase = "upload"
        PROVE  /\ refill'[c].keys \subseteq own'[c][refill'[c].kind]
               /\ refill'[c].kind = "ec" =>
                     /\ refill'[c].keys \cap pool'[c]["ec"] = {}
                     /\ \A y \in given' : y[1] = c /\ y[2] = reg'[c] => y[3] \notin refill'[c].keys
    <3>1. /\ refill[c].keys \subseteq own[c][refill[c].kind]
          /\ refill[c].kind = "ec" =>
                /\ refill[c].keys \cap pool[c]["ec"] = {}
                /\ \A y \in given : y[1] = c /\ y[2] = reg[c] => y[3] \notin refill[c].keys
      BY <1>2, <2>1, <2>4 DEF KeysFit
    <3>2. \A y \in given' : y \in given \/ (y = x /\ g.ec \in pool[d]["ec"])  BY <1>3
    <3> QED  BY <1>2, <1>4, <1>6, <2>2, <3>1, <3>2
  <2> QED  BY <2>3, <2>4 DEF KeysFit
<1>8. \A y \in given' : GivenFits(y)'
  <2>1. ASSUME NEW y \in given  PROVE GivenFits(y)'
    <3>1. GivenFits(y) /\ y[1] \in Devices  BY <1>5 DEF KeysInv, DeviceKeys
    <3>2. pool'[y[1]]["ec"] \subseteq pool[y[1]]["ec"]  BY <1>3, <1>6, <3>1
    <3> QED  BY <1>2, <3>1, <3>2 DEF GivenFits
  <2>2. ASSUME g.ec # 0  PROVE GivenFits(x)'
    <3>1. KeysFit(d) /\ reg[d] = g.reg /\ g.ec \in pool[d]["ec"] /\ g.ec \notin pool'[d]["ec"]
      BY <1>3, <1>6, <2>2 DEF KeysInv, DeviceKeys
    <3>2. reg[d] \in 1..reg[d]
      BY <1>1, <3>1 DEF TakesKey, KeysInv, SenderKeys, JobKeys
    <3>3. up[d] => g.ec \in own[d]["ec"] /\ g.ec < nextKey[d]["ec"]
      BY <1>6, <3>1 DEF KeysFit
    <3>4. ~up[d] => g.ec \in 1..Target  BY <3>1 DEF KeysFit
    <3> QED  BY <1>2, <1>4, <2>2, <3>1, <3>2, <3>3, <3>4 DEF GivenFits
  <2> QED  BY <1>3, <2>1, <2>2
<1>9. KeysGoOnce'
  <2>1. ASSUME g.ec # 0, NEW y \in given, \A i \in 1..3 : y[i] = x[i]  PROVE FALSE
    <3>1. y[1] = d /\ y[2] = g.reg /\ y[3] = g.ec  BY <1>4, <2>1
    <3>2. GivenFits(y) /\ g.ec \in pool[d]["ec"] /\ reg[d] = g.reg
      BY <1>3, <2>1 DEF KeysInv, DeviceKeys
    <3> QED  BY <3>1, <3>2 DEF GivenFits
  <2>2. KeysGoOnce  BY DEF KeysInv, DeviceKeys
  <2> QED  BY <1>3, <2>1, <2>2 DEF KeysGoOnce
<1>10. \A c \in Devices : /\ \A e \in ToSet(queue'[c]) : e.to = c /\ e.sess.reg = reg'[c]
                         /\ unopened'[c] = {}
  BY <1>2 DEF KeysInv, DeviceKeys
<1> QED  BY <1>7, <1>8, <1>9, <1>10 DEF DeviceKeys

LEMMA InitiateSessionDeviceKeys ==
  ASSUME TypeOK, Shapes, KeysInv, NEW s \in Senders, InitiateSession(s)
  PROVE  DeviceKeys'
<1>1. UNCHANGED <<reg, queue, unopened, own, nextKey, up, refill, known, given>>
  BY DEF InitiateSession, device, log
<1>2. CASE GivesUp(s)  BY <1>1, <1>2, DeviceKeysOfSenders DEF GivesUp, KeysInv
<1>3. ASSUME NEW d \in Devices, NEW g \in Sessions, Settles(s, d, g)  PROVE DeviceKeys'
  <2>1. "ec" \in Kinds /\ "kyber" \in Kinds  BY DEF Kinds
  <2>2. \A c \in Devices, k \in Kinds : pool'[c][k] \subseteq pool[c][k]
    BY <1>3 DEF Settles, PoolShrinks
  <2>3. \A y \in given : y[1] \in Devices  BY DEF TypeOK
  <2>4. ASSUME NEW c \in Devices  PROVE KeysFit(c)'
    <3>1. KeysFit(c)  BY DEF KeysInv, DeviceKeys
    <3>2. pool'[c]["ec"] \subseteq pool[c]["ec"] /\ pool'[c]["kyber"] \subseteq pool[c]["kyber"]
      BY <2>1, <2>2
    <3>3. /\ \A k \in Kinds : 0 \notin pool'[c][k] \cup own'[c][k] /\ nextKey'[c][k] # 0
          /\ ~up'[c] => /\ pool'[c]["ec"] \subseteq 1..Target /\ pool'[c]["kyber"] = {}
                        /\ refill'[c] = NoRefill /\ known'[c] = {}
          /\ up'[c] => \A k \in Kinds : /\ pool'[c][k] \subseteq own'[c][k]
                                        /\ \A id \in own'[c][k] : id < nextKey'[c][k]
      BY <1>1, <2>2, <3>1, <3>2 DEF KeysFit
    <3>4. refill'[c].phase = "upload" =>
             /\ refill'[c].keys \subseteq own'[c][refill'[c].kind]
             /\ refill'[c].kind = "ec" =>
                   /\ refill'[c].keys \cap pool'[c]["ec"] = {}
                   /\ \A y \in given' : y[1] = c /\ y[2] = reg'[c] => y[3] \notin refill'[c].keys
      BY <1>1, <3>1, <3>2 DEF KeysFit
    <3> QED  BY <3>3, <3>4 DEF KeysFit
  <2>5. ASSUME NEW y \in given  PROVE GivenFits(y)'
    <3>1. GivenFits(y) /\ pool'[y[1]]["ec"] \subseteq pool[y[1]]["ec"]
      BY <2>1, <2>2, <2>3 DEF KeysInv, DeviceKeys
    <3> QED  BY <1>1, <3>1 DEF GivenFits
  <2> QED  BY <1>1, <2>4, <2>5 DEF KeysInv, DeviceKeys, KeysGoOnce
<1> QED  BY <1>2, <1>3, InitiateSessionDoes

LEMMA SenderDeviceKeys ==
  ASSUME TypeOK, Shapes, KeysInv, NEW s \in Senders, SendDm(s) \/ SenderStep(s) \/ LoseReply(s)
  PROVE  DeviceKeys'
<1>1. CASE TakeKey(s) \/ InitiateSession(s)
  BY <1>1, TakeKeyDeviceKeys, InitiateSessionDeviceKeys
<1>2. CASE ~(TakeKey(s) \/ InitiateSession(s))
  <2>1. UNCHANGED <<reg, queue, unopened, own, nextKey, up, refill, known, pool, given>>
    BY <1>2 DEF SenderStep, SendDm, UseSession, PickKey, SendOverSocket, SendOverHttp, ReplyOk,
                ReplyStale, LoseReply, device, log
  <2> QED  BY <2>1, DeviceKeysOfSenders DEF KeysInv
<1> QED  BY <1>1, <1>2

\* A row is enqueued for the registration its session was made with.
LEMMA ServerDeviceKeys ==
  ASSUME TypeOK, Shapes, KeysInv, NEW q \in reqs, ServerStep(q) \/ Forget(q)
  PROVE  DeviceKeys'
<1>1. UNCHANGED <<reg, unopened, own, nextKey, up, refill, known, pool, given>>
  BY DEF ServerStep, EnqueueRow, RowStale, Forget, device, log
<1>2. \A d \in Devices : \A e \in ToSet(queue'[d]) : e.to = d /\ e.sess.reg = reg[d]
  <2>1. CASE EnqueueRow(q)
    <3>1. PICK c \in Envelopes : Enqueues(q, c)  BY <2>1, EnqueueRowDoes
    <3>2. c.to \in Devices /\ c.sess.reg = reg[c.to]  BY <3>1 DEF Enqueues, Envelopes
    <3> SUFFICES ASSUME NEW d \in Devices, NEW e \in ToSet(queue'[d])
                 PROVE  e.to = d /\ e.sess.reg = reg[d]
      OBVIOUS
    <3>3. queue[d] \in Seq(Envelopes)  BY TypeFields
    <3>4. queue'[d] = queue[d] \/ (d = c.to /\ queue'[d] = Append(queue[d], c))
      BY <3>1 DEF Enqueues, TypeOK
    <3>5. e \in ToSet(queue[d]) \/ (d = c.to /\ e = c)
      <4>1. ToSet(Append(queue[d], c)) = ToSet(queue[d]) \cup {c}  BY <3>3, AppendSet
      <4> QED  BY <3>4, <4>1
    <3> QED  BY <3>2, <3>5 DEF KeysInv, DeviceKeys
  <2>2. CASE RowStale(q) \/ Forget(q)
    BY <2>2 DEF RowStale, Forget, KeysInv, DeviceKeys
  <2> QED  BY <2>1, <2>2 DEF ServerStep
<1>3. (\A d \in Devices : KeysFit(d)') /\ (\A x \in given' : GivenFits(x)') /\ KeysGoOnce'
  BY <1>1 DEF KeysInv, DeviceKeys, KeysFit, GivenFits, KeysGoOnce
<1> QED  BY <1>1, <1>2, <1>3 DEF KeysInv, DeviceKeys

\* A step of one device leaves the others as they are.
OthersKeep(d) ==
    \A c \in Devices \ {d} :
        /\ reg'[c] = reg[c] /\ pool'[c] = pool[c] /\ own'[c] = own[c]
        /\ nextKey'[c] = nextKey[c] /\ up'[c] = up[c] /\ refill'[c] = refill[c]
        /\ known'[c] = known[c] /\ queue'[c] = queue[c] /\ unopened'[c] = unopened[c]

LEMMA DeviceKeysAt ==
  ASSUME TypeOK, KeysInv, NEW d \in Devices, given' = given, OthersKeep(d),
         KeysFit(d)', \A x \in given : x[1] = d => GivenFits(x)',
         \A e \in ToSet(queue'[d]) : e.to = d /\ e.sess.reg = reg'[d], unopened'[d] = {}
  PROVE  DeviceKeys'
<1>1. ASSUME NEW c \in Devices, c # d  PROVE KeysFit(c)'
  <2>1. KeysFit(c)  BY DEF KeysInv, DeviceKeys
  <2>2. /\ reg'[c] = reg[c] /\ pool'[c] = pool[c] /\ own'[c] = own[c]
        /\ nextKey'[c] = nextKey[c] /\ up'[c] = up[c] /\ refill'[c] = refill[c]
        /\ known'[c] = known[c]
    BY <1>1 DEF OthersKeep
  <2> QED  BY <2>1, <2>2 DEF KeysFit
<1>2. ASSUME NEW x \in given, x[1] # d  PROVE GivenFits(x)'
  <2>1. GivenFits(x) /\ x[1] \in Devices  BY DEF KeysInv, DeviceKeys, TypeOK
  <2>2. /\ reg'[x[1]] = reg[x[1]] /\ pool'[x[1]] = pool[x[1]] /\ own'[x[1]] = own[x[1]]
        /\ nextKey'[x[1]] = nextKey[x[1]] /\ up'[x[1]] = up[x[1]] /\ known'[x[1]] = known[x[1]]
    BY <1>2, <2>1 DEF OthersKeep
  <2> QED  BY <2>1, <2>2 DEF GivenFits
<1>3. ASSUME NEW c \in Devices, c # d
      PROVE  /\ \A e \in ToSet(queue'[c]) : e.to = c /\ e.sess.reg = reg'[c]
             /\ unopened'[c] = {}
  BY <1>3 DEF OthersKeep, KeysInv, DeviceKeys
<1>4. KeysGoOnce'  BY DEF KeysInv, DeviceKeys, KeysGoOnce
<1> QED  BY <1>1, <1>2, <1>3, <1>4 DEF DeviceKeys

LEMMA RegisterKeys ==
  ASSUME TypeOK, Shapes, KeysInv, NEW d \in Devices, Register(d)
  PROVE  DeviceKeys'
<1> USE DEF Register
<1>1. OthersKeep(d) /\ given' = given  BY DEF OthersKeep, TypeOK, log
<1>2. /\ reg'[d] = reg[d] + 1 /\ pool'[d] = Published /\ own'[d] = NoKeys /\ ~up'[d]
      /\ nextKey'[d] = [k \in Kinds |-> 1] /\ refill'[d] = NoRefill /\ known'[d] = {}
      /\ queue'[d] = <<>> /\ unopened'[d] = {} /\ reg[d] \in Nat
  BY DEF TypeOK
<1>3. Published["ec"] = 1..Target /\ Published["kyber"] = {} /\ Kinds = {"ec", "kyber"}
      /\ \A k \in Kinds : NoKeys[k] = {}
  BY DEF Published, NoKeys, Kinds
<1>4. NoRefill.phase # "upload" /\ Target \in Nat  BY PoolAssumption DEF NoRefill
<1>5. KeysFit(d)'
  <2>1. \A k \in Kinds : 0 \notin pool'[d][k] \cup own'[d][k] /\ nextKey'[d][k] # 0
    BY <1>2, <1>3, <1>4
  <2> QED  BY <1>2, <1>3, <1>4, <2>1 DEF KeysFit
<1>6. \A x \in given : x[1] = d => GivenFits(x)'
  <2> SUFFICES ASSUME NEW x \in given, x[1] = d  PROVE GivenFits(x)'
    OBVIOUS
  <2>1. GivenFits(x)  BY DEF KeysInv, DeviceKeys
  <2>2. x[2] \in 1..reg[d] /\ x[3] # 0  BY <2>1 DEF GivenFits
  <2>3. x[2] \in 1..reg'[d] /\ x[2] # reg'[d]  BY <1>2, <2>2
  <2> QED  BY <2>2, <2>3 DEF GivenFits
<1> QED  BY <1>1, <1>2, <1>5, <1>6, EmptySet, DeviceKeysAt

LEMMA SaveStoreKeys ==
  ASSUME TypeOK, Shapes, KeysInv, NEW d \in Devices, SaveStore(d)
  PROVE  DeviceKeys'
<1>1. OthersKeep(d) /\ given' = given  BY DEF SaveStore, OthersKeep, TypeOK, log
<1>2. /\ reg'[d] = reg[d] /\ pool'[d] = pool[d] /\ own'[d] = [k \in Kinds |-> 1..Target] /\ up'[d]
      /\ nextKey'[d] = [k \in Kinds |-> Target + 1]
      /\ refill'[d] = [NoRefill EXCEPT !.phase = "upload", !.kind = "kyber", !.keys = 1..Target]
      /\ queue'[d] = queue[d] /\ unopened'[d] = unopened[d] /\ known'[d] = known[d]
  BY DEF SaveStore, TypeOK
<1>3. refill'[d].kind = "kyber" /\ refill'[d].keys = 1..Target
  <2>1. /\ [NoRefill EXCEPT !.phase = "upload", !.kind = "kyber", !.keys = 1..Target].kind = "kyber"
        /\ [NoRefill EXCEPT !.phase = "upload", !.kind = "kyber", !.keys = 1..Target].keys = 1..Target
    BY DEF NoRefill
  <2> QED  BY <1>2, <2>1
<1>4. Kinds = {"ec", "kyber"} /\ Target \in Nat  BY PoolAssumption DEF Kinds
<1>5. KeysFit(d) /\ ~up[d]  BY DEF SaveStore, KeysInv, DeviceKeys
<1>6. pool[d]["ec"] \subseteq 1..Target /\ pool[d]["kyber"] = {}  BY <1>5 DEF KeysFit
<1>7. KeysFit(d)'
  <2>1. \A k \in Kinds : own'[d][k] = 1..Target /\ nextKey'[d][k] = Target + 1
    BY <1>2
  <2>2. \A i \in 1..Target : i < Target + 1 /\ i # 0  BY <1>4
  <2>3. \A k \in Kinds : 0 \notin pool'[d][k] \cup own'[d][k] /\ nextKey'[d][k] # 0
    BY <1>2, <1>4, <1>5, <2>1, <2>2 DEF KeysFit
  <2>4. \A k \in Kinds : /\ pool'[d][k] \subseteq own'[d][k]
                         /\ \A id \in own'[d][k] : id < nextKey'[d][k]
    BY <1>2, <1>4, <1>6, <2>1, <2>2
  <2> QED  BY <1>2, <1>3, <1>4, <2>1, <2>3, <2>4 DEF KeysFit
<1>8. \A x \in given : x[1] = d => GivenFits(x)'
  <2> SUFFICES ASSUME NEW x \in given, x[1] = d  PROVE GivenFits(x)'
    OBVIOUS
  <2>1. GivenFits(x)  BY DEF KeysInv, DeviceKeys
  <2>2. own'[d]["ec"] = 1..Target /\ nextKey'[d]["ec"] = Target + 1  BY <1>2, <1>4
  <2>3. x[2] = reg[d] => x[3] \in 1..Target /\ x[3] < Target + 1
    BY <1>4, <1>5, <2>1 DEF GivenFits
  <2>4. x[2] \in 1..reg'[d] /\ x[3] # 0 /\ (x[2] = reg'[d] => x[3] \notin pool'[d]["ec"])
    BY <1>2, <2>1 DEF GivenFits
  <2> QED  BY <1>2, <2>2, <2>3, <2>4 DEF GivenFits
<1> QED  BY <1>1, <1>2, <1>7, <1>8, DeviceKeysAt DEF KeysInv, DeviceKeys

\* The device looks at its pools, or gives a top-up up.
LEMMA RefillKeys ==
  ASSUME TypeOK, Shapes, KeysInv, NEW d \in Devices, CheckStatus(d) \/ RefillFails(d)
  PROVE  DeviceKeys'
<1>1. UNCHANGED <<reg, pool, own, nextKey, up, known, queue, unopened, given>>
  BY DEF CheckStatus, RefillFails, device, log
<1>2. PICK r : refill' = [refill EXCEPT ![d] = r] /\ (up[d] \/ r = NoRefill) /\ r.phase # "upload"
  <2>1. CASE CheckStatus(d)
    <3> DEFINE r == [NoRefill EXCEPT !.phase = "make", !.need = [k \in Kinds |-> Need(d, k)]]
    <3>1. r.phase = "make"  BY DEF NoRefill
    <3>2. refill' = [refill EXCEPT ![d] = r] /\ up[d]  BY <2>1 DEF CheckStatus
    <3> HIDE DEF r
    <3> QED  BY <3>1, <3>2
  <2>2. CASE RefillFails(d)
    <3>1. NoRefill.phase # "upload"  BY DEF NoRefill
    <3> QED  BY <2>2, <3>1 DEF RefillFails
  <2> QED  BY <2>1, <2>2
<1>3. refill'[d] = r /\ OthersKeep(d)  BY <1>1, <1>2 DEF OthersKeep, TypeOK
<1>4. KeysFit(d)  BY DEF KeysInv, DeviceKeys
<1>5. KeysFit(d)'  BY <1>1, <1>2, <1>3, <1>4 DEF KeysFit
<1>6. \A x \in given : GivenFits(x)'  BY <1>1 DEF KeysInv, DeviceKeys, GivenFits
<1> QED  BY <1>1, <1>3, <1>5, <1>6, DeviceKeysAt DEF KeysInv, DeviceKeys

LEMMA MakeKeysKeys ==
  ASSUME TypeOK, Shapes, KeysInv, NEW d \in Devices, MakeKeys(d)
  PROVE  DeviceKeys'
<1>1. PICK k \in Kinds, n \in Nat, ids \in SUBSET Nat : Makes(d, k, n, ids)
  BY MakeKeysDoes
<1>2. UNCHANGED <<reg, pool, up, known, queue, unopened, given>>  BY DEF MakeKeys, log, sender
<1>3. PICK r : refill' = [refill EXCEPT ![d] = r] /\ r.phase = "upload" /\ r.kind = k /\ r.keys = ids
  BY <1>1 DEF Makes
<1>4. /\ refill'[d] = r
      /\ \A kk \in Kinds : own'[d][kk] = IF kk = k THEN own[d][k] \cup ids ELSE own[d][kk]
      /\ \A kk \in Kinds : nextKey'[d][kk] = IF kk = k THEN nextKey[d][k] + n ELSE nextKey[d][kk]
  BY <1>1, <1>3 DEF Makes, TypeOK, Kept
<1>5. OthersKeep(d)  BY <1>1, <1>2, <1>3 DEF Makes, OthersKeep, TypeOK
<1>6. KeysFit(d)  BY DEF KeysInv, DeviceKeys
<1>7. up[d]
  <2>1. refill[d] # NoRefill  BY <1>1 DEF Makes, NoRefill
  <2> QED  BY <1>6, <2>1 DEF KeysFit
<1>8. \A kk \in Kinds : nextKey[d][kk] \in Nat /\ nextKey[d][kk] # 0 /\ own[d][kk] \subseteq Nat
  BY <1>6, TypeFields DEF KeysFit
<1>9. \A i \in ids : i >= nextKey[d][k] /\ i < nextKey[d][k] + n /\ i # 0
  BY <1>1, <1>8 DEF Makes
<1>10. /\ \A kk \in Kinds : /\ pool[d][kk] \subseteq own[d][kk] /\ 0 \notin own[d][kk]
                            /\ \A id \in own[d][kk] : id < nextKey[d][kk]
       /\ \A x \in given : x[1] = d /\ x[2] = reg[d] => x[3] < nextKey[d]["ec"]
  <2>1. ASSUME NEW x \in given, x[1] = d, x[2] = reg[d]  PROVE x[3] < nextKey[d]["ec"]
    <3>1. GivenFits(x)  BY DEF KeysInv, DeviceKeys
    <3> QED  BY <1>7, <2>1, <3>1 DEF GivenFits
  <2> QED  BY <1>6, <1>7, <2>1 DEF KeysFit
<1>11. ASSUME NEW kk \in Kinds
       PROVE  /\ 0 \notin pool'[d][kk] \cup own'[d][kk] /\ nextKey'[d][kk] # 0
              /\ pool'[d][kk] \subseteq own'[d][kk]
              /\ \A id \in own'[d][kk] : id < nextKey'[d][kk]
  <2>1. CASE kk = k
    <3>1. own'[d][kk] = own[d][k] \cup ids /\ nextKey'[d][kk] = nextKey[d][k] + n  BY <1>4, <2>1
    <3>2. 0 \notin pool[d][k] /\ pool[d][k] \subseteq own[d][k]  BY <1>6, <1>10 DEF KeysFit
    <3>3. \A id \in own[d][k] : id < nextKey[d][k] + n  BY <1>8, <1>10
    <3>4. nextKey[d][k] + n # 0  BY <1>8
    <3> QED  BY <1>2, <1>9, <1>10, <2>1, <3>1, <3>2, <3>3, <3>4
  <2>2. CASE kk # k
    <3>1. own'[d][kk] = own[d][kk] /\ nextKey'[d][kk] = nextKey[d][kk]  BY <1>4, <2>2
    <3> QED  BY <1>2, <1>6, <1>7, <3>1 DEF KeysFit
  <2> QED  BY <2>1, <2>2
<1>12. r.keys \subseteq own'[d][r.kind]  BY <1>3, <1>4
<1>13. r.kind = "ec" => /\ r.keys \cap pool'[d]["ec"] = {}
                        /\ \A x \in given : x[1] = d /\ x[2] = reg[d] => x[3] \notin r.keys
  <2> SUFFICES ASSUME k = "ec"
               PROVE  /\ ids \cap pool[d]["ec"] = {}
                      /\ \A x \in given : x[1] = d /\ x[2] = reg[d] => x[3] \notin ids
    BY <1>2, <1>3
  <2>1. \A i \in ids : i \in Nat /\ ~(i < nextKey[d]["ec"])  BY <1>8, <1>9
  <2> QED  BY <1>10, <2>1
<1>14. KeysFit(d)'  BY <1>2, <1>3, <1>4, <1>7, <1>11, <1>12, <1>13 DEF KeysFit
<1>15. \A x \in given : x[1] = d => GivenFits(x)'
  <2> SUFFICES ASSUME NEW x \in given, x[1] = d  PROVE GivenFits(x)'
    OBVIOUS
  <2>1. GivenFits(x) /\ x[3] \in Nat  BY DEF KeysInv, DeviceKeys, TypeOK
  <2>2. own[d]["ec"] \subseteq own'[d]["ec"]
    <3>1. "ec" \in Kinds  BY DEF Kinds
    <3> QED  BY <1>4, <3>1
  <2>3. x[3] < nextKey[d]["ec"] => x[3] < nextKey'[d]["ec"]
    <3>1. "ec" \in Kinds  BY DEF Kinds
    <3>2. nextKey[d]["ec"] \in Nat /\ nextKey'[d]["ec"] \in {nextKey[d]["ec"], nextKey[d]["ec"] + n}
      BY <1>4, <1>8, <3>1
    <3> QED  BY <2>1, <3>2
  <2> QED  BY <1>2, <1>7, <2>1, <2>2, <2>3 DEF GivenFits
<1> QED  BY <1>2, <1>5, <1>14, <1>15, DeviceKeysAt DEF KeysInv, DeviceKeys

LEMMA UploadKeysKeys ==
  ASSUME TypeOK, Shapes, KeysInv, NEW d \in Devices, UploadKeys(d)
  PROVE  DeviceKeys'
<1> DEFINE k == refill[d].kind
           new == refill[d].keys
<1>1. UNCHANGED <<reg, own, nextKey, up, known, queue, unopened, given>>
      /\ refill[d].phase = "upload"
  BY DEF UploadKeys, device, log
<1>2. k \in Kinds  BY DEF TypeOK, Refills
<1>3. /\ refill'[d] = Then(d)
      /\ \A kk \in Kinds : pool'[d][kk] = IF kk = k THEN pool[d][k] \cup new ELSE pool[d][kk]
  BY <1>2 DEF UploadKeys, TypeOK, Kept
<1>4. OthersKeep(d)  BY <1>1 DEF UploadKeys, OthersKeep, TypeOK
<1>5. Then(d).phase # "upload"
  <2>1. NoRefill.phase # "upload"  BY DEF NoRefill
  <2>2. [refill[d] EXCEPT !.phase = "make", !.keys = {}].phase = "make"
    BY DEF TypeOK, Refills
  <2> QED  BY <2>1, <2>2 DEF Then
<1>6. KeysFit(d)  BY DEF KeysInv, DeviceKeys
<1>7. up[d]
  <2>1. refill[d] # NoRefill  BY <1>1 DEF NoRefill
  <2> QED  BY <1>6, <2>1 DEF KeysFit
<1>8. new \subseteq own[d][k]
      /\ (k = "ec" => \A x \in given : x[1] = d /\ x[2] = reg[d] => x[3] \notin new)
  BY <1>1, <1>6 DEF KeysFit
<1> HIDE DEF k, new
<1>9. \A kk \in Kinds : /\ pool'[d][kk] \subseteq own[d][kk] /\ 0 \notin own[d][kk]
                        /\ nextKey[d][kk] # 0
                        /\ \A id \in own[d][kk] : id < nextKey[d][kk]
  BY <1>2, <1>3, <1>6, <1>7, <1>8 DEF KeysFit
<1>10. KeysFit(d)'  BY <1>1, <1>3, <1>5, <1>7, <1>9 DEF KeysFit
<1>11. \A x \in given : x[1] = d => GivenFits(x)'
  <2> SUFFICES ASSUME NEW x \in given, x[1] = d  PROVE GivenFits(x)'
    OBVIOUS
  <2>1. GivenFits(x)  BY DEF KeysInv, DeviceKeys
  <2>2. "ec" \in Kinds  BY DEF Kinds
  <2>3. x[2] = reg[d] => x[3] \notin pool'[d]["ec"]  BY <1>3, <1>8, <2>1, <2>2 DEF GivenFits
  <2> QED  BY <1>1, <2>1, <2>3 DEF GivenFits
<1> QED  BY <1>1, <1>4, <1>10, <1>11, DeviceKeysAt DEF KeysInv, DeviceKeys

\* A queued row finds the key its session needs: the key was given for that
\* session, and a key given is held until the session is known.
LEMMA RowOpens ==
  ASSUME TypeOK, KeysInv, NEW d \in Devices, NEW c, Reads(d, c)
  PROVE  /\ Openable(d, c) /\ c \in Envelopes /\ c \in Around /\ c.to = d /\ c.sess.reg = reg[d]
         /\ c.sess.ec # 0 => <<d, reg[d], c.sess.ec, c.from, c.sess.n>> \in given
<1>1. queue[d] \in Seq(Envelopes) /\ queue[d] # <<>> /\ c = Head(queue[d]) /\ up[d]
  BY TypeFields DEF Reads
<1>2. c \in ToSet(queue[d]) /\ c \in Envelopes  BY <1>1, HeadTailSet
<1>3. c \in Around  BY <1>2, AroundHas
<1>4. c.to = d /\ c.sess.reg = reg[d]  BY <1>2 DEF KeysInv, DeviceKeys
<1>5. c.sess.ec # 0 => <<d, reg[d], c.sess.ec, c.from, c.sess.n>> \in given
  BY <1>3, <1>4 DEF KeysInv, SenderKeys, SessionFits
<1>6. CASE c.sess.ec # 0
  <2> DEFINE x == <<d, reg[d], c.sess.ec, c.from, c.sess.n>>
  <2>1. x[1] = d /\ x[2] = reg[d] /\ x[3] = c.sess.ec /\ x[4] = c.from /\ x[5] = c.sess.n
    OBVIOUS
  <2>2. x \in given  BY <1>5, <1>6
  <2> HIDE DEF x
  <2>3. GivenFits(x)  BY <2>2 DEF KeysInv, DeviceKeys
  <2>4. \/ c.sess.ec \in own[d]["ec"]
        \/ [from |-> c.from, sess |-> [reg |-> reg[d], n |-> c.sess.n, ec |-> c.sess.ec]] \in known[d]
    BY <1>1, <2>1, <2>3 DEF GivenFits
  <2>5. c.sess = [reg |-> reg[d], n |-> c.sess.n, ec |-> c.sess.ec]
    BY <1>2, <1>4 DEF Envelopes, Sessions
  <2>6. c.sess.ec \in own[d]["ec"] \/ SessionOf(c) \in known[d]
    BY <2>4, <2>5 DEF SessionOf
  <2>7. Openable(d, c)  BY <1>4, <2>6 DEF Openable
  <2> QED  BY <1>2, <1>3, <1>4, <1>5, <2>7
<1>7. CASE c.sess.ec = 0
  <2>1. Openable(d, c)  BY <1>4, <1>7 DEF Openable
  <2> QED  BY <1>2, <1>3, <1>4, <1>5, <2>1
<1> QED  BY <1>6, <1>7

LEMMA OpenRowKeys ==
  ASSUME TypeOK, Shapes, KeysInv, NEW d \in Devices, OpenRow(d)
  PROVE  DeviceKeys'
<1>1. PICK c \in Envelopes : Reads(d, c) /\ (Opens(d, c) \/ Keyless(d, c))
  BY OpenRowDoes
<1>2. /\ Openable(d, c) /\ c.to = d /\ c.sess.reg = reg[d]
      /\ c.sess.ec # 0 => <<d, reg[d], c.sess.ec, c.from, c.sess.n>> \in given
  BY <1>1, RowOpens
<1>3. Opens(d, c)  BY <1>1, <1>2 DEF Keyless
<1>4. UNCHANGED <<reg, pool, up, nextKey, refill, unopened, given>>
  BY <1>3 DEF OpenRow, Opens, log
<1>5. "ec" \in Kinds  BY DEF Kinds
<1>6. /\ \A k \in Kinds : own'[d][k] = IF k = "ec" THEN own[d][k] \ {c.sess.ec} ELSE own[d][k]
      /\ known'[d] = known[d] \cup {SessionOf(c)}
  BY <1>3, <1>5 DEF Opens, TypeOK, Kept
<1>7. OthersKeep(d)  BY <1>1, <1>3, <1>4 DEF Reads, Opens, OthersKeep, TypeOK
<1>8. KeysFit(d) /\ up[d]  BY <1>1 DEF KeysInv, DeviceKeys, Reads
<1> DEFINE x == <<d, reg[d], c.sess.ec, c.from, c.sess.n>>
<1>9. x[1] = d /\ x[2] = reg[d] /\ x[3] = c.sess.ec /\ x[4] = c.from /\ x[5] = c.sess.n
  OBVIOUS
<1> HIDE DEF x
<1>10. c.sess.ec # 0 => x \in given /\ GivenFits(x)  BY <1>2 DEF KeysInv, DeviceKeys, x
<1>11. c.sess.ec \notin pool[d]["ec"]
  <2>1. CASE c.sess.ec = 0  BY <1>5, <1>8, <2>1 DEF KeysFit
  <2>2. CASE c.sess.ec # 0  BY <1>9, <1>10, <2>2 DEF GivenFits
  <2> QED  BY <2>1, <2>2
<1>12. ASSUME refill[d].phase = "upload", refill[d].kind = "ec"  PROVE c.sess.ec \notin refill[d].keys
  <2>1. CASE c.sess.ec = 0  BY <1>5, <1>8, <1>12, <2>1 DEF KeysFit
  <2>2. CASE c.sess.ec # 0  BY <1>8, <1>9, <1>10, <1>12, <2>2 DEF KeysFit
  <2> QED  BY <2>1, <2>2
<1>13. KeysFit(d)'
  <2>1. ASSUME NEW k \in Kinds
        PROVE  /\ 0 \notin pool[d][k] \cup own'[d][k] /\ nextKey[d][k] # 0
               /\ pool[d][k] \subseteq own'[d][k] /\ \A id \in own'[d][k] : id < nextKey[d][k]
    BY <1>6, <1>8, <1>11 DEF KeysFit
  <2>2. ASSUME refill[d].phase = "upload"
        PROVE  /\ refill[d].keys \subseteq own'[d][refill[d].kind]
               /\ refill[d].kind = "ec" =>
                     /\ refill[d].keys \cap pool[d]["ec"] = {}
                     /\ \A y \in given : y[1] = d /\ y[2] = reg[d] => y[3] \notin refill[d].keys
    <3>1. refill[d].kind \in Kinds  BY DEF TypeOK, Refills
    <3>2. /\ refill[d].keys \subseteq own[d][refill[d].kind]
          /\ refill[d].kind = "ec" =>
                /\ refill[d].keys \cap pool[d]["ec"] = {}
                /\ \A y \in given : y[1] = d /\ y[2] = reg[d] => y[3] \notin refill[d].keys
      BY <1>8, <2>2 DEF KeysFit
    <3>3. refill[d].keys \subseteq own'[d][refill[d].kind]
      BY <1>6, <1>12, <2>2, <3>1, <3>2
    <3> QED  BY <3>2, <3>3
  <2> QED  BY <1>4, <1>8, <2>1, <2>2 DEF KeysFit
<1>14. \A y \in given : y[1] = d => GivenFits(y)'
  <2> SUFFICES ASSUME NEW y \in given, y[1] = d  PROVE GivenFits(y)'
    OBVIOUS
  <2>1. GivenFits(y)  BY DEF KeysInv, DeviceKeys
  <2>2. ASSUME y[2] = reg[d]
        PROVE  \/ y[3] \in own'[d]["ec"]
               \/ [from |-> y[4], sess |-> [reg |-> y[2], n |-> y[5], ec |-> y[3]]] \in known'[d]
    <3>1. CASE y[3] # c.sess.ec  BY <1>5, <1>6, <1>8, <2>1, <2>2, <3>1 DEF GivenFits
    <3>2. CASE y[3] = c.sess.ec
      <4>1. y[3] # 0  BY <2>1 DEF GivenFits
      <4>2. x \in given  BY <1>10, <3>2, <4>1
      <4>3. \A i \in 1..3 : y[i] = x[i]
        <5>1. y[1] = x[1] /\ y[2] = x[2] /\ y[3] = x[3]  BY <1>9, <2>2, <3>2
        <5>2. \A i \in 1..3 : i = 1 \/ i = 2 \/ i = 3  OBVIOUS
        <5> QED  BY <5>1, <5>2
      <4>4. y = x  BY <4>2, <4>3 DEF KeysInv, DeviceKeys, KeysGoOnce
      <4>5. c.sess = [reg |-> reg[d], n |-> c.sess.n, ec |-> c.sess.ec]
        BY <1>2 DEF Envelopes, Sessions
      <4>6. SessionOf(c) = [from |-> y[4], sess |-> [reg |-> y[2], n |-> y[5], ec |-> y[3]]]
        BY <1>9, <4>4, <4>5 DEF SessionOf
      <4> QED  BY <1>6, <4>6
    <3> QED  BY <3>1, <3>2
  <2>3. y[2] \in 1..reg[d] /\ y[3] # 0
        /\ (y[2] = reg[d] => y[3] \notin pool[d]["ec"] /\ y[3] < nextKey[d]["ec"])
    BY <1>8, <2>1 DEF GivenFits
  <2> QED  BY <1>4, <1>8, <2>2, <2>3 DEF GivenFits
<1>15. \A e \in ToSet(queue'[d]) : e.to = d /\ e.sess.reg = reg'[d]
  <2>1. queue[d] \in Seq(Envelopes) /\ queue[d] # <<>> /\ queue'[d] = Tail(queue[d])
    BY <1>1, TypeFields DEF Reads, TypeOK
  <2>2. ToSet(queue'[d]) \subseteq ToSet(queue[d])  BY <2>1, HeadTailSet
  <2> QED  BY <1>4, <2>2 DEF KeysInv, DeviceKeys
<1> QED  BY <1>4, <1>7, <1>13, <1>14, <1>15, DeviceKeysAt DEF KeysInv, DeviceKeys

LEMMA SkipDuplicateKeys ==
  ASSUME TypeOK, Shapes, KeysInv, NEW d \in Devices, SkipDuplicate(d)
  PROVE  DeviceKeys'
<1>1. UNCHANGED <<reg, unopened, own, nextKey, up, refill, known, pool, given>>
  BY DEF SkipDuplicate, device, log
<1>2. queue[d] \in Seq(Envelopes) /\ queue[d] # <<>> /\ queue' = [queue EXCEPT ![d] = Tail(queue[d])]
  BY TypeFields DEF SkipDuplicate, NextRow
<1>3. ToSet(Tail(queue[d])) \subseteq ToSet(queue[d])  BY <1>2, HeadTailSet
<1>4. \A c \in Devices : ToSet(queue'[c]) \subseteq ToSet(queue[c])
  BY <1>2, <1>3 DEF TypeOK
<1>5. (\A c \in Devices : KeysFit(c)') /\ (\A x \in given' : GivenFits(x)') /\ KeysGoOnce'
  BY <1>1 DEF KeysInv, DeviceKeys, KeysFit, GivenFits, KeysGoOnce
<1> QED  BY <1>1, <1>4, <1>5 DEF KeysInv, DeviceKeys

LEMMA KeysStep ==
  ASSUME TypeOK, Shapes, TypeOK', KeysInv, [Next]_vars
  PROVE  KeysInv'
<1>1. CASE Next
  <2>1. SenderKeys'  BY <1>1, SenderKeysKept
  <2>2. DeviceKeys'
    <3>1. ASSUME NEW d \in Devices,
                 Register(d) \/ SaveStore(d) \/ RefillFails(d) \/ Replenish(d) \/ Receive(d)
          PROVE  DeviceKeys'
      BY <3>1, RegisterKeys, SaveStoreKeys, RefillKeys, MakeKeysKeys, UploadKeysKeys, OpenRowKeys,
         SkipDuplicateKeys DEF Replenish, Receive
    <3> QED  BY <1>1, <3>1, SenderDeviceKeys, ServerDeviceKeys DEF Next
  <2> QED  BY <2>1, <2>2 DEF KeysInv
<1>2. CASE UNCHANGED vars
  <2>1. DeviceKeys'
    BY <1>2, DeviceKeysOfSenders DEF vars, device, log, KeysInv
  <2>2. UNCHANGED <<session, job, sentTo, given, reg, reqs, queue, opened>>
    BY <1>2 DEF vars, device, sender, log
  <2>3. Around' \subseteq Around
    <3>1. Around' = Around  BY <2>2 DEF Around
    <3> QED  BY <3>1
  <2>4. \A d \in Devices : reg[d] <= reg'[d]  BY <2>2 DEF TypeOK
  <2>5. SenderKeys'  BY <2>2, <2>3, <2>4, OthersKeys
  <2> QED  BY <2>1, <2>5 DEF KeysInv
<1> QED  BY <1>1, <1>2

DispatchKeys == TypeOK /\ Shapes /\ KeysInv

\* Each one-time key goes to one session, what the server offers is held, and
\* no queued row misses its key, for any number of senders, devices,
\* registrations, top-ups and failures, in any order of the statements of
\* concurrent bundle requests.
THEOREM KeysServeAlways == Spec => []KeysServe
<1>1. Init => DispatchKeys  BY TypeInit, KeysInit DEF DispatchKeys
<1>2. DispatchKeys /\ [Next]_vars => DispatchKeys'  BY TypeStep, KeysStep DEF DispatchKeys
<1>3. DispatchKeys => KeysServe
  BY DEF DispatchKeys, KeysInv, DeviceKeys, KeysFit, KeysServe, OfferedAreHeld, EveryRowOpens
<1> QED  BY <1>1, <1>2, <1>3, PTL DEF Spec

----------------------------------------------------------------------------
(* Batches: one envelope per message, device and attempt *)

LEMMA BatchInit ==
  ASSUME Init
  PROVE  BatchInv
<1>1. /\ \A s \in Senders : job[s].envs = <<>> /\ ~Begun(s)
      /\ \A d \in Devices : queue[d] = <<>> /\ opened[d] = {}
      /\ reqs = {}
  BY DEF Init, NoJob, Begun
<1>2. \A e : e \notin Around  BY <1>1, EmptySet, AroundIs
<1> QED  BY <1>1, <1>2 DEF BatchInv

\* A step of s that makes no envelope.
LEMMA BatchStep ==
  ASSUME TypeOK, BatchInv, Around' \subseteq Around, retried \subseteq retried',
         sends' \in Nat, sends <= sends', UNCHANGED opened, NEW s \in Senders,
         \A r \in Senders \ {s} : job'[r] = job[r],
         Begun(s)' => /\ JobFits(s)'
                      /\ \/ Begun(s) /\ job'[s].text = job[s].text
                         \/ job'[s].text = sends + 1
  PROVE  BatchInv'
<1>0. sends \in Nat /\ \A e \in Around : e.text \in Nat
  <2>1. \A e \in Around : e.text \in Texts  BY AroundHas DEF Envelopes
  <2> QED  BY <2>1, BoundAssumption DEF TypeOK, Texts
<1>1. \A e, f \in Around' : Alike(e, f) => e = f  BY DEF BatchInv
<1>2. \A e \in Around' : e.text <= sends' /\ (e.again => e.text \in retried')
  BY <1>0 DEF BatchInv
<1>3. \A d \in Devices : \A e \in opened'[d] : e.to = d  BY DEF BatchInv
<1>4. ASSUME NEW r \in Senders, r # s, Begun(r)'  PROVE JobFits(r)' /\ Begun(r) /\ job'[r] = job[r]
  <2>1. job'[r] = job[r] /\ Begun(r)  BY <1>4 DEF Begun
  <2>2. JobFits(r)  BY <2>1 DEF BatchInv
  <2>3. Unmade(r)'  BY <2>1, <2>2 DEF JobFits, Unmade
  <2>4. job'[r].text \in 1..sends'  BY <1>0, <2>1, <2>2 DEF JobFits
  <2> QED  BY <2>1, <2>2, <2>3, <2>4 DEF JobFits
<1>5. ASSUME NEW r \in Senders, NEW q \in Senders, Begun(r)', Begun(q)', job'[r].text = job'[q].text
      PROVE  r = q
  <2>1. ASSUME NEW x \in Senders, x # s, Begun(x)', Begun(s)', job'[x].text = job'[s].text  PROVE FALSE
    <3>1. job'[x] = job[x] /\ Begun(x) /\ job[x].text \in 1..sends
      BY <1>4, <2>1 DEF BatchInv, JobFits
    <3>2. job'[s].text # sends + 1  BY <1>0, <2>1, <3>1
    <3>3. Begun(s) /\ job'[s].text = job[s].text  BY <2>1, <3>2
    <3> QED  BY <2>1, <3>1, <3>3 DEF BatchInv
  <2>2. CASE r # s /\ q # s
    <3>1. Begun(r) /\ job'[r] = job[r] /\ Begun(q) /\ job'[q] = job[q]  BY <1>4, <1>5, <2>2
    <3> QED  BY <1>5, <3>1 DEF BatchInv
  <2> QED  BY <1>5, <2>1, <2>2
<1> QED  BY <1>1, <1>2, <1>3, <1>4, <1>5 DEF BatchInv

\* A job that keeps its message, its attempt and what is left.
LEMMA JobFitsKept ==
  ASSUME TypeOK, BatchInv, Around' \subseteq Around, retried \subseteq retried', UNCHANGED sends,
         NEW s \in Senders, Begun(s), job'[s].text = job[s].text, job'[s].left = job[s].left,
         job'[s].again = job[s].again
  PROVE  JobFits(s)'
<1>1. JobFits(s)  BY DEF BatchInv
<1>2. Unmade(s)'  BY <1>1 DEF JobFits, Unmade
<1> QED  BY <1>1, <1>2 DEF JobFits

LEMMA SendDmBatch ==
  ASSUME TypeOK, Shapes, TypeOK', BatchInv, NEW s \in Senders, SendDm(s)
  PROVE  BatchInv'
<1>1. /\ job'[s].left = InOrder(Registered) /\ job'[s].text = sends + 1 /\ job'[s].again = FALSE
      /\ \A r \in Senders \ {s} : job'[r] = job[r]
  BY DEF SendDm, TypeOK, NoJob
<1>2. sends' = sends + 1 /\ sends \in Nat /\ UNCHANGED <<retried, opened>>
  BY BoundAssumption DEF SendDm, TypeOK, device
<1>3. Around' \subseteq Around  BY SenderAround
<1>4. Increasing(job'[s].left)
  <2>1. Registered \in SUBSET Devices  BY DEF Registered
  <2> QED  BY <1>1, <2>1, InOrderIs
<1>5. \A e \in Around : e.text # sends + 1
  <2>1. \A e \in Around : e.text \in Texts  BY AroundHas DEF Envelopes
  <2> QED  BY <1>2, <2>1, BoundAssumption DEF BatchInv, Texts
<1>6. Unmade(s)'  BY <1>1, <1>3, <1>5 DEF Unmade
<1>7. JobFits(s)'  BY <1>1, <1>2, <1>4, <1>6 DEF JobFits
<1> QED  BY <1>1, <1>2, <1>3, <1>7, BatchStep

\* A device's envelope is made when its turn comes, once.
LEMMA EncryptsBatch ==
  ASSUME TypeOK, Shapes, BatchInv, NEW s \in Senders, NEW d \in Devices, NEW g \in Sessions, Begun(s),
         job[s].left # <<>>, d = Head(job[s].left),
         job' = [job EXCEPT ![s] = Encrypted(s, d, g)],
         UNCHANGED <<reqs, queue, opened, sends, retried>>
  PROVE  BatchInv'
<1> DEFINE e == Envelope(s, d, g)
<1>1. /\ Around' \subseteq Around \cup {e}
      /\ job'[s].left = Tail(job[s].left) /\ job'[s].phase = "encrypt"
      /\ job'[s].text = job[s].text /\ job'[s].again = job[s].again
      /\ \A r \in Senders \ {s} : job'[r] = job[r]
  BY EncryptsAround
<1>2. e.text = job[s].text /\ e.to = d /\ e.again = job[s].again  BY DEF Envelope
<1>3. job[s].left \in Seq(Devices) /\ job[s].text \in Texts /\ sends \in Nat
  <2>1. job[s].left \in Seq(Devices) /\ job[s].text \in Texts  BY TypeFields DEF Shapes
  <2>2. sends \in Nat  BY BoundAssumption DEF TypeOK
  <2> QED  BY <2>1, <2>2
<1> HIDE DEF e
<1>4. JobFits(s)  BY DEF BatchInv
<1>5. \A f \in Around : ~Alike(e, f)
  <2>1. d \in ToSet(job[s].left)  BY <1>3, HeadTailSet
  <2> QED  BY <1>2, <1>4, <2>1 DEF JobFits, Unmade, Alike
<1>6. \A x, y \in Around' : Alike(x, y) => x = y
  <2>1. \A x, y \in Around : Alike(x, y) => x = y  BY DEF BatchInv
  <2>2. \A f \in Around : ~Alike(f, e)  BY <1>5 DEF Alike
  <2> QED  BY <1>1, <1>5, <2>1, <2>2
<1>7. \A x \in Around' : x.text <= sends /\ (x.again => x.text \in retried)
  <2>1. e.text \in 1..sends /\ (e.again => e.text \in retried)  BY <1>2, <1>4 DEF JobFits
  <2>2. e.text <= sends  BY <1>3, <2>1
  <2> QED  BY <1>1, <2>1, <2>2 DEF BatchInv
<1>8. JobFits(s)'
  <2>1. /\ ToSet(job[s].left) = {d} \cup ToSet(Tail(job[s].left)) /\ Len(job[s].left) \in Nat
        /\ job[s].left[1] = d /\ 1 \in DOMAIN job[s].left /\ DOMAIN job[s].left = 1..Len(job[s].left)
        /\ DOMAIN Tail(job[s].left) = 1..(Len(job[s].left) - 1)
        /\ \A i \in DOMAIN Tail(job[s].left) :
              i + 1 \in DOMAIN job[s].left /\ Tail(job[s].left)[i] = job[s].left[i + 1]
    BY <1>3, HeadTailSet
  <2>2. \A i, j \in DOMAIN job[s].left : i < j => job[s].left[i] < job[s].left[j]
    BY <1>4 DEF JobFits, Increasing
  <2>3. Increasing(job'[s].left)
    <3> SUFFICES ASSUME NEW i \in DOMAIN Tail(job[s].left), NEW j \in DOMAIN Tail(job[s].left), i < j
                 PROVE  Tail(job[s].left)[i] < Tail(job[s].left)[j]
      BY <1>1 DEF Increasing
    <3>1. i + 1 < j + 1  BY <2>1
    <3> QED  BY <2>1, <2>2, <3>1
  <2>4. d \notin ToSet(Tail(job[s].left))
    <3> SUFFICES ASSUME NEW i \in DOMAIN Tail(job[s].left), Tail(job[s].left)[i] = d  PROVE FALSE
      BY DEF ToSet
    <3>1. 1 < i + 1 /\ i + 1 \in DOMAIN job[s].left /\ job[s].left[i + 1] = d  BY <2>1
    <3>2. d < d  BY <2>1, <2>2, <3>1
    <3> QED  BY <3>2 DEF Devices
  <2>5. Unmade(s)'
    <3> SUFFICES ASSUME NEW x \in Around', x.text = job[s].text
                 PROVE  /\ x.again = job[s].again => x.to \notin ToSet(Tail(job[s].left))
                        /\ x.again => job[s].again
      BY <1>1 DEF Unmade
    <3>1. CASE x \in Around  BY <1>4, <2>1, <3>1 DEF JobFits, Unmade
    <3>2. CASE x = e  BY <1>2, <2>4, <3>2
    <3> QED  BY <1>1, <3>1, <3>2
  <2> QED  BY <1>1, <1>4, <2>3, <2>5 DEF JobFits
<1>9. ASSUME NEW r \in Senders, r # s, Begun(r)'  PROVE JobFits(r)'
  <2>1. job'[r] = job[r] /\ Begun(r)  BY <1>1, <1>9 DEF Begun
  <2>2. JobFits(r) /\ job[r].text # job[s].text  BY <1>9, <2>1 DEF BatchInv
  <2>3. Unmade(r)'  BY <1>1, <1>2, <2>1, <2>2 DEF JobFits, Unmade
  <2> QED  BY <2>1, <2>2, <2>3 DEF JobFits
<1>10. \A r, q \in Senders : Begun(r)' /\ Begun(q)' /\ job'[r].text = job'[q].text => r = q
  <2>1. \A r \in Senders : (Begun(r)' => Begun(r)) /\ job'[r].text = job[r].text
    BY <1>1 DEF Begun
  <2> QED  BY <2>1 DEF BatchInv
<1> QED  BY <1>6, <1>7, <1>8, <1>9, <1>10 DEF BatchInv

LEMMA SenderBatch ==
  ASSUME TypeOK, Shapes, TypeOK', KeysInv, BatchInv, NEW s \in Senders,
         SendDm(s) \/ SenderStep(s) \/ LoseReply(s)
  PROVE  BatchInv'
<1>0. sends \in Nat /\ sends' \in Nat  BY BoundAssumption DEF TypeOK
<1>1. CASE SendDm(s)  BY <1>1, SendDmBatch
<1>2. CASE UseSession(s)
  <2>1. job[s].left # <<>> /\ Begun(s)  BY <1>2 DEF UseSession, Encrypts, Begun
  <2>2. Head(job[s].left) \in Devices /\ session[s][Head(job[s].left)] \in Sessions
    BY <2>1, TypeFields
  <2>3. UNCHANGED <<reqs, queue, opened, sends, retried>>
    BY <1>2 DEF UseSession, device
  <2>4. job' = [job EXCEPT ![s] = Encrypted(s, Head(job[s].left), session[s][Head(job[s].left)])]
    BY <1>2 DEF UseSession
  <2> QED  BY <2>1, <2>2, <2>3, <2>4, EncryptsBatch
<1>3. ASSUME NEW d \in Devices, NEW g \in Sessions, Settles(s, d, g), InitiateSession(s)
      PROVE  BatchInv'
  <2>1. job[s].left # <<>> /\ Begun(s) /\ d = Head(job[s].left)
        /\ job' = [job EXCEPT ![s] = Encrypted(s, d, g)]
    BY <1>3 DEF Settles, Begun
  <2>2. UNCHANGED <<reqs, queue, opened, sends, retried>>
    BY <1>3 DEF InitiateSession, device
  <2> QED  BY <2>1, <2>2, EncryptsBatch
<1>4. ASSUME Around' \subseteq Around, UNCHANGED <<sends, opened>>, retried \subseteq retried',
             \A r \in Senders \ {s} : job'[r] = job[r],
             ~Begun(s)' \/ (Begun(s) /\ JobFits(s)' /\ job'[s].text = job[s].text)
      PROVE  BatchInv'
  <2>1. sends <= sends'  BY <1>0, <1>4
  <2> QED  BY <1>0, <1>4, <2>1, BatchStep
<1>5. CASE InitiateSession(s)
  <2>1. CASE GivesUp(s)
    <3>1. Around' \subseteq Around  BY <1>5, <2>1, SenderAround
    <3>2. Begun(s)  BY <2>1 DEF GivesUp, Begun
    <3>3. ~Begun(s)' /\ \A r \in Senders \ {s} : job'[r] = job[r]
      BY <2>1, <3>2, EndsTyped DEF GivesUp
    <3>4. UNCHANGED <<sends, opened, retried>>  BY <1>5 DEF InitiateSession, device
    <3> QED  BY <1>4, <3>1, <3>3, <3>4
  <2> QED  BY <1>3, <1>5, <2>1, InitiateSessionDoes
<1>6. CASE PickKey(s) \/ TakeKey(s) \/ SendOverSocket(s) \/ SendOverHttp(s)
  <2>1. Around' \subseteq Around  BY <1>6, SenderAround
  <2>2. UNCHANGED <<sends, opened, retried>>
    BY <1>6 DEF PickKey, TakeKey, SendOverSocket, SendOverHttp, device
  <2>3. Begun(s)
    BY <1>6 DEF PickKey, TakeKey, SendOverSocket, SendOverHttp, Encrypts, Begun
  <2>4. /\ job'[s].text = job[s].text /\ job'[s].left = job[s].left /\ job'[s].again = job[s].again
        /\ \A r \in Senders \ {s} : job'[r] = job[r]
    <3>1. CASE PickKey(s)
      <4> DEFINE d == Head(job[s].left)
                 ks == PoolOf(s, reg[d], "ec")
                 g == [reg |-> reg[d], n |-> session[s][d].n + 1,
                       ec |-> IF ks = {} THEN 0 ELSE Min(ks)]
      <4>0. job' = [job EXCEPT ![s].phase = "bundle", ![s].got = g]  BY <3>1 DEF PickKey
      <4> HIDE DEF g
      <4>1. job'[s] = [job[s] EXCEPT !.phase = "bundle", !.got = g]  BY <4>0 DEF TypeOK
      <4>2. \A r \in Senders \ {s} : job'[r] = job[r]  BY <3>1 DEF PickKey, TypeOK
      <4> QED  BY <4>1, <4>2, TypeFields DEF Jobs
    <3>2. CASE TakeKey(s)
      <4>1. PICK d \in Devices, g \in Sessions : TakesKey(s, d, g)  BY <3>2, TakeKeyDoes
      <4>2. job'[s] = [job[s] EXCEPT !.phase = "kyber", !.got = g]
            /\ \A r \in Senders \ {s} : job'[r] = job[r]
        BY <4>1 DEF TakesKey, TypeOK
      <4> QED  BY <4>2, TypeFields DEF Jobs
    <3>3. CASE SendOverSocket(s) \/ SendOverHttp(s)
      <4>1. PICK p \in {"ws", "http"} : job' = [job EXCEPT ![s].phase = p]
        BY <3>3 DEF SendOverSocket, SendOverHttp
      <4> QED  BY <2>3, <4>1, PhaseTyped
    <3> QED  BY <1>6, <3>1, <3>2, <3>3
  <2>5. JobFits(s)'  BY <2>1, <2>2, <2>3, <2>4, JobFitsKept
  <2> QED  BY <1>4, <2>1, <2>2, <2>3, <2>4, <2>5
<1>7. CASE ReplyOk(s) \/ ReplyStale(s) \/ LoseReply(s)
  <2>1. Around' \subseteq Around  BY <1>7, SenderAround
  <2>2. UNCHANGED <<sends, opened>>  BY <1>7 DEF ReplyOk, ReplyStale, LoseReply, device
  <2>3. PICK q \in reqs :
          /\ Begun(s) /\ job[s].left = <<>>
          /\ \/ FallsBack(s) /\ UNCHANGED <<outcome, retried>>
             \/ (Ends(s, "sent") \/ Ends(s, "failed")) /\ UNCHANGED retried
             \/ Retries(s, Head(q.rows).to) /\ ~job[s].again /\ Head(q.rows).to \in Devices
    BY <1>7, ReplyDoes
  <2>4. CASE FallsBack(s) /\ UNCHANGED <<outcome, retried>>
    <3>1. /\ job'[s].text = job[s].text /\ job'[s].left = job[s].left /\ job'[s].again = job[s].again
          /\ \A r \in Senders \ {s} : job'[r] = job[r]
      BY <2>3, <2>4, PhaseTyped DEF FallsBack
    <3>2. JobFits(s)'  BY <2>1, <2>2, <2>3, <2>4, <3>1, JobFitsKept
    <3> QED  BY <1>4, <2>1, <2>2, <2>3, <2>4, <3>1, <3>2
  <2>5. CASE (Ends(s, "sent") \/ Ends(s, "failed")) /\ UNCHANGED retried
    <3>1. ~Begun(s)' /\ \A r \in Senders \ {s} : job'[r] = job[r]
      BY <2>3, <2>5, EndsTyped
    <3> QED  BY <1>4, <2>1, <2>2, <2>5, <3>1
  <2>6. CASE Retries(s, Head(q.rows).to) /\ ~job[s].again /\ Head(q.rows).to \in Devices
    <3>1. /\ \A r \in Senders \ {s} : job'[r] = job[r]
          /\ job'[s].text = job[s].text /\ job'[s].again = TRUE
          /\ job'[s].left = InOrder(sentTo[job[s].text]) /\ job[s].text \in Texts
          /\ retried' = retried \cup {job[s].text}
      BY <2>3, <2>6, RetriesTyped
    <3>2. Increasing(job'[s].left)
      <4>1. sentTo[job[s].text] \in SUBSET Devices  BY <3>1 DEF TypeOK
      <4> QED  BY <3>1, <4>1, InOrderIs
    <3>3. JobFits(s)  BY <2>3 DEF BatchInv
    <3>4. Unmade(s)'
      <4>1. \A e \in Around : e.text = job[s].text => e.again # TRUE
        BY <2>6, <3>3 DEF JobFits, Unmade
      <4>2. \A e \in Around' : e.text = job'[s].text => e.again # TRUE  BY <2>1, <3>1, <4>1
      <4> QED  BY <3>1, <4>2 DEF Unmade
    <3>5. JobFits(s)'  BY <2>2, <3>1, <3>2, <3>3, <3>4 DEF JobFits
    <3> QED  BY <1>4, <2>1, <2>2, <2>3, <3>1, <3>5
  <2> QED  BY <2>3, <2>4, <2>5, <2>6
<1> QED  BY <1>1, <1>2, <1>5, <1>6, <1>7 DEF SenderStep

\* Steps of the server and of the devices make no envelope and change no job.
LEMMA OthersBatch ==
  ASSUME TypeOK, BatchInv, Around' \subseteq Around, UNCHANGED <<job, sends, retried>>,
         \A d \in Devices : \A e \in opened'[d] : e.to = d
  PROVE  BatchInv'
<1>1. \A s \in Senders : Begun(s) => Unmade(s)'  BY DEF BatchInv, JobFits, Unmade
<1> QED  BY <1>1 DEF BatchInv, JobFits, Begun

LEMMA BatchStepAll ==
  ASSUME TypeOK, Shapes, TypeOK', KeysInv, BatchInv, [Next]_vars
  PROVE  BatchInv'
<1>1. ASSUME NEW q \in reqs, ServerStep(q) \/ Forget(q)
      PROVE  BatchInv'
  <2>1. UNCHANGED <<job, sends, retried, opened>>
    BY <1>1 DEF ServerStep, EnqueueRow, RowStale, Forget, sender, device
  <2>2. \A d \in Devices : \A e \in opened'[d] : e.to = d  BY <2>1 DEF BatchInv
  <2> QED  BY <1>1, <2>1, <2>2, ServerAround, OthersBatch
<1>2. ASSUME NEW d \in Devices,
             Register(d) \/ SaveStore(d) \/ RefillFails(d) \/ Replenish(d) \/ Receive(d)
      PROVE  BatchInv'
  <2>1. UNCHANGED <<job, sends, retried>>
    BY <1>2 DEF Register, SaveStore, RefillFails, Replenish, CheckStatus, MakeKeys, UploadKeys,
                Receive, OpenRow, SkipDuplicate, sender
  <2>2. \A c \in Devices : \A e \in opened'[c] : e.to = c
    <3>1. CASE OpenRow(d)
      <4>1. PICK e \in Envelopes : Reads(d, e) /\ (Opens(d, e) \/ Keyless(d, e))
        BY <3>1, OpenRowDoes
      <4>2. e.to = d  BY <4>1, RowOpens
      <4>3. \A c \in Devices : opened'[c] \subseteq IF c = d THEN opened[c] \cup {e} ELSE opened[c]
        <5>1. CASE Opens(d, e)  BY <5>1 DEF Opens, TypeOK
        <5>2. CASE Keyless(d, e)  BY <5>2 DEF Keyless
        <5> QED  BY <4>1, <5>1, <5>2
      <4> QED  BY <4>2, <4>3 DEF BatchInv
    <3>2. CASE ~OpenRow(d)
      <4>1. \A c \in Devices : opened'[c] \subseteq opened[c]
        <5>1. CASE Register(d)  BY <5>1 DEF Register, TypeOK
        <5>2. CASE ~Register(d)
          <6>1. UNCHANGED opened
            BY <1>2, <3>2, <5>2 DEF SaveStore, RefillFails, Replenish, CheckStatus, MakeKeys,
                                    UploadKeys, Receive, SkipDuplicate, device
          <6> QED  BY <6>1
        <5> QED  BY <5>1, <5>2
      <4> QED  BY <4>1 DEF BatchInv
    <3> QED  BY <3>1, <3>2
  <2> QED  BY <1>2, <2>1, <2>2, DeviceAround, OthersBatch
<1>3. CASE UNCHANGED vars
  <2>1. UNCHANGED <<job, sends, retried, opened, reqs, queue>>
    BY <1>3 DEF vars, device, sender
  <2>2. Around' \subseteq Around
    <3>1. Around' = Around  BY <2>1 DEF Around
    <3> QED  BY <3>1
  <2>3. \A d \in Devices : \A e \in opened'[d] : e.to = d  BY <2>1 DEF BatchInv
  <2> QED  BY <2>1, <2>2, <2>3, OthersBatch
<1> QED  BY <1>1, <1>2, <1>3, SenderBatch DEF Next

DispatchBatches == DispatchKeys /\ BatchInv

LEMMA AtMost ==
  ASSUME NEW T, NEW a, NEW b, T \subseteq {a} \cup {b}
  PROVE  Cardinality(T) <= 2
<1>1. IsFiniteSet({a}) /\ Cardinality({a}) = 1  BY FS_Singleton
<1>2. IsFiniteSet({a} \cup {b}) /\ Cardinality({a} \cup {b}) \in {1, 2}
  BY <1>1, FS_AddElement
<1>3. Cardinality(T) <= Cardinality({a} \cup {b})
  BY <1>2, FS_Subset
<1>4. IsFiniteSet(T) /\ Cardinality(T) \in Nat  BY <1>2, FS_Subset, FS_CardinalityType
<1> QED  BY <1>2, <1>3, <1>4

LEMMA AtMostOne ==
  ASSUME NEW T, NEW a, T \subseteq {a}
  PROVE  Cardinality(T) <= 1
<1>1. IsFiniteSet({a}) /\ Cardinality({a}) = 1  BY FS_Singleton
<1> QED  BY <1>1, FS_Subset

LEMMA Shown ==
  ASSUME DispatchBatches
  PROVE  RepeatsExplained
<1> SUFFICES ASSUME NEW d \in Devices, NEW t \in Texts
             PROVE  Cardinality({c \in opened[d] : c.text = t}) <= (IF t \in retried THEN 2 ELSE 1)
  BY DEF RepeatsExplained
<1> DEFINE T == {c \in opened[d] : c.text = t}
           a == CHOOSE c \in T : ~c.again
           b == CHOOSE c \in T : c.again
<1>1. \A c \in T : c \in Around /\ c.to = d /\ c.text = t /\ c.again \in BOOLEAN
                   /\ (c.again => t \in retried)
  <2>1. \A c \in T : c \in Around /\ c \in Envelopes
    BY AroundHas DEF DispatchBatches, DispatchKeys
  <2> QED  BY <2>1 DEF DispatchBatches, BatchInv, Envelopes
<1>2. \A c, e \in T : c.again = e.again => c = e
  BY <1>1 DEF DispatchBatches, BatchInv, Alike
<1>3. ASSUME NEW c \in T  PROVE c.again => c = b
  <2> HIDE DEF T
  <2> SUFFICES ASSUME c.again  PROVE c = b
    OBVIOUS
  <2>1. b \in T /\ b.again  OBVIOUS
  <2>2. b.again = c.again  BY <1>1, <2>1
  <2> HIDE DEF b
  <2> QED  BY <1>2, <2>1, <2>2
<1>4. ASSUME NEW c \in T  PROVE ~c.again => c = a
  <2> HIDE DEF T
  <2> SUFFICES ASSUME ~c.again  PROVE c = a
    OBVIOUS
  <2>1. a \in T /\ ~a.again  OBVIOUS
  <2>2. a.again = c.again  BY <1>1, <2>1
  <2> HIDE DEF a
  <2> QED  BY <1>2, <2>1, <2>2
<1> HIDE DEF T, a, b
<1>5. CASE t \in retried
  <2>1. T \subseteq {a} \cup {b}  BY <1>1, <1>3, <1>4
  <2>2. Cardinality(T) <= 2  BY <2>1, AtMost
  <2> QED  BY <1>5, <2>2 DEF T
<1>6. CASE t \notin retried
  <2>1. T \subseteq {a}  BY <1>1, <1>4, <1>6
  <2>2. Cardinality(T) <= 1  BY <2>1, AtMostOne
  <2> QED  BY <1>6, <2>2 DEF T
<1> QED  BY <1>5, <1>6


----------------------------------------------------------------------------
(* Sends: what is left to do, what has arrived, and how a send fails *)

LEMMA Held ==
  ASSUME DispatchBatches
  PROVE  TypeOK /\ Shapes /\ KeysInv /\ BatchInv
BY DEF DispatchBatches, DispatchKeys

LEMMA SendInit ==
  ASSUME Init
  PROVE  SendInv
BY DEF Init, SendInv, Begun, NoJob, Ended

LEMMA ArrivedGrows ==
  ASSUME TypeOK, TypeOK', accepted \subseteq accepted', NEW t, NEW d \in Devices,
         reg[d] <= reg'[d], Arrived(t, d)
  PROVE  Arrived(t, d)'
<1>1. PICK r \in 1..reg[d] : <<t, d, r>> \in accepted  BY DEF Arrived
<1>2. reg[d] \in Nat /\ reg'[d] \in Nat  BY DEF TypeOK
<1>3. r \in 1..reg'[d]  BY <1>1, <1>2
<1> QED  BY <1>1, <1>3 DEF Arrived

\* What was told of a message stays true.
LEMMA EndedKept ==
  ASSUME TypeOK, TypeOK', NEW t \in Texts, Ended(t),
         outcome'[t] = outcome[t], start'[t] = start[t], sentTo'[t] = sentTo[t],
         made <= made', faults <= faults', sends <= sends',
         accepted \subseteq accepted', \A d \in Devices : reg[d] <= reg'[d]
  PROVE  Ended(t)'
<1>1. /\ made \in Nat /\ made' \in Nat /\ start[t].made \in Nat /\ sentTo[t] \subseteq Devices
      /\ sends \in Nat /\ sends' \in Nat /\ t \in Nat
      /\ faults \in Nat /\ faults' \in Nat
  BY BoundAssumption DEF TypeOK, Texts
<1>2. ASSUME outcome'[t] = "sent"  PROVE \A d \in sentTo'[t] : Arrived(t, d)'
  <2>1. \A d \in sentTo[t] : Arrived(t, d)  BY <1>2 DEF Ended
  <2> QED  BY <1>1, <2>1, ArrivedGrows
<1>3. ASSUME outcome'[t] = "failed", faults' = 0
      PROVE  made' > start'[t].made \/ \E d, e \in start'[t].stale : d # e
  <2>1. faults = 0  BY <1>1, <1>3
  <2>2. made > start[t].made \/ \E d, e \in start[t].stale : d # e  BY <1>3, <2>1 DEF Ended
  <2> QED  BY <1>1, <2>2
<1>4. t > sends' => outcome'[t] = "none"
  <2>1. t > sends' => t > sends  BY <1>1
  <2> QED  BY <2>1 DEF Ended
<1> QED  BY <1>2, <1>3, <1>4 DEF Ended

\* The job of a sender that does not step.
LEMMA SendFitsKept ==
  ASSUME NEW r \in Senders, SendFits(r), job'[r] = job[r], session'[r] = session[r],
         outcome'[job[r].text] = outcome[job[r].text], start'[job[r].text] = start[job[r].text],
         sentTo'[job[r].text] = sentTo[job[r].text], UNCHANGED <<reg, made>>
  PROVE  SendFits(r)'
<1>1. Stale(r)' = Stale(r) /\ Calm(r)' = Calm(r)  BY DEF Stale, Registered, Calm
<1> HIDE DEF Stale, Calm
<1> QED  BY <1>1 DEF SendFits

\* A request of a sender that does not step.
LEMMA RequestFitsKept ==
  ASSUME TypeOK, TypeOK', NEW q, q.from \in Senders, job[q.from].text \in Texts, RequestFits(q),
         job'[q.from] = job[q.from],
         start'[job[q.from].text] = start[job[q.from].text],
         sentTo'[job[q.from].text] = sentTo[job[q.from].text],
         UNCHANGED <<reg, made>>, accepted \subseteq accepted'
  PROVE  RequestFits(q)'
<1>1. Calm(q.from)' = Calm(q.from)  BY DEF Calm
<1>2. \A d \in sentTo[job[q.from].text] :
         Arrived(job[q.from].text, d) => Arrived(job[q.from].text, d)'
  <2>1. sentTo[job[q.from].text] \subseteq Devices /\ \A d \in Devices : reg[d] <= reg'[d]
    BY DEF TypeOK
  <2> QED  BY <2>1, ArrivedGrows
<1> HIDE DEF Calm
<1> QED  BY <1>1, <1>2 DEF RequestFits

\* A step of s, about message t.
LEMMA SenderSend ==
  ASSUME DispatchBatches, TypeOK', SendInv, NEW s \in Senders, NEW t \in Texts,
         UNCHANGED <<reg, made, accepted, queue, opened>>,
         faults <= faults', sends <= sends',
         \A r \in Senders \ {s} : job'[r] = job[r] /\ session'[r] = session[r],
         \A r \in Senders \ {s} : Begun(r) => job[r].text # t,
         \A u \in Texts \ {t} : /\ outcome'[u] = outcome[u] /\ start'[u] = start[u]
                                /\ sentTo'[u] = sentTo[u],
         \A q \in reqs' : q.awaited => (q \in reqs /\ q.from # s) \/ RequestFits(q)',
         Begun(s)' => SendFits(s)', Ended(t)'
  PROVE  SendInv'
<1>0. TypeOK /\ Shapes /\ KeysInv /\ BatchInv  BY Held
<1>1. ASSUME NEW r \in Senders, Begun(r)'  PROVE SendFits(r)'
  <2>1. CASE r = s  BY <1>1, <2>1
  <2>2. CASE r # s
    <3>1. Begun(r) /\ job'[r] = job[r] /\ session'[r] = session[r]  BY <1>1, <2>2 DEF Begun
    <3>2. job[r].text \in Texts \ {t}  BY <1>0, <2>2, <3>1 DEF Shapes
    <3>3. SendFits(r)  BY <3>1 DEF SendInv
    <3> QED  BY <3>1, <3>2, <3>3, SendFitsKept
  <2> QED  BY <2>1, <2>2
<1>2. ASSUME NEW q \in reqs', q.awaited, q \in reqs, q.from # s  PROVE RequestFits(q)'
  <2>1. q.from \in Senders \ {s} /\ Begun(q.from) /\ job[q.from].text \in Texts
    BY <1>0, <1>2, AwaitedFits
  <2>2. RequestFits(q)  BY <1>2 DEF SendInv
  <2>3. job[q.from].text \in Texts \ {t}  BY <2>1
  <2> QED  BY <1>0, <2>1, <2>2, <2>3, RequestFitsKept
<1>3. \A x \in accepted' : AcceptedFits(x)'
  BY DEF SendInv, AcceptedFits
<1>4. ASSUME NEW u \in Texts  PROVE Ended(u)'
  <2>1. CASE u = t  BY <2>1
  <2>2. CASE u # t
    <3>1. Ended(u)  BY DEF SendInv
    <3>2. made <= made' /\ \A d \in Devices : reg[d] <= reg'[d]  BY <1>0 DEF TypeOK
    <3> QED  BY <1>0, <2>2, <3>1, <3>2, EndedKept
  <2> QED  BY <2>1, <2>2
<1> QED  BY <1>1, <1>2, <1>3, <1>4 DEF SendInv

\* A step of s between its calls: of its requests only a new one is awaited.
LEMMA SenderGoesOn ==
  ASSUME DispatchBatches, TypeOK', Shapes', SendInv, NEW s \in Senders, Begun(s),
         UNCHANGED <<reg, made, accepted, queue, opened, outcome, start, sentTo, sends>>,
         faults <= faults',
         \A r \in Senders \ {s} : job'[r] = job[r] /\ session'[r] = session[r],
         \A q \in reqs' : q.awaited => q \in reqs \/ RequestFits(q)',
         job[s].phase \notin {"ws", "http"} \/ job'[s].phase \notin {"ws", "http"},
         Begun(s)' => SendFits(s)'
  PROVE  SendInv'
<1>0. TypeOK /\ Shapes /\ KeysInv /\ BatchInv  BY Held
<1>1. PICK t \in Texts : t = job[s].text  BY <1>0 DEF Shapes
<1>2. \A r \in Senders \ {s} : Begun(r) => job[r].text # t  BY <1>0, <1>1 DEF BatchInv
<1>3. ASSUME NEW q \in reqs', q.awaited  PROVE (q \in reqs /\ q.from # s) \/ RequestFits(q)'
  <2> SUFFICES ASSUME q \in reqs, q.from = s  PROVE FALSE
    BY <1>3
  <2>1. q.via \in {"ws", "http"}  BY <1>0 DEF TypeOK, Requests
  <2>2. job[s].phase = q.via  BY <1>0, <1>3 DEF Shapes, Watched
  <2>3. job'[s].phase = q.via  BY <1>3 DEF Shapes, Watched
  <2> QED  BY <2>1, <2>2, <2>3
<1>4. sends <= sends'  BY <1>0, BoundAssumption DEF TypeOK
<1>5. Ended(t)'
  <2>1. Ended(t)  BY <1>1 DEF SendInv
  <2>2. made <= made' /\ \A d \in Devices : reg[d] <= reg'[d]  BY <1>0 DEF TypeOK
  <2> QED  BY <1>0, <1>1, <1>4, <2>1, <2>2, EndedKept
<1> QED  BY <1>1, <1>2, <1>3, <1>4, <1>5, SenderSend

LEMMA SendDmSend ==
  ASSUME DispatchBatches, TypeOK', Shapes', SendInv, NEW s \in Senders, SendDm(s)
  PROVE  SendInv'
<1>0. TypeOK /\ Shapes /\ KeysInv /\ BatchInv  BY Held
<1>a. PICK t \in Texts : t = sends + 1
  <2>1. sends \in Nat /\ sends < bound.sends /\ bound.sends \in 0..MaxSends
    BY <1>0, BoundAssumption DEF TypeOK, SendDm
  <2> QED  BY <2>1, BoundAssumption DEF Texts
<1>1. /\ t \in Texts /\ sends \in Nat /\ sends' = t /\ t = sends + 1
      /\ \A u \in Texts \ {t} : /\ outcome'[u] = outcome[u] /\ start'[u] = start[u]
                                /\ sentTo'[u] = sentTo[u]
      /\ outcome'[t] = outcome[t] /\ start'[t] = [made |-> made, stale |-> Stale(s)]
      /\ sentTo'[t] = Registered
  <2>1. sends \in Nat  BY <1>0, BoundAssumption DEF TypeOK
  <2> HIDE DEF Stale, Registered
  <2> QED  BY <1>0, <1>a, <2>1 DEF SendDm, TypeOK
<1>2. /\ UNCHANGED <<reg, made, accepted, queue, opened, session, reqs, faults>>
  BY DEF SendDm, device, log
<1>3. /\ \A r \in Senders \ {s} : job'[r] = job[r] /\ session'[r] = session[r]
      /\ job'[s].phase = "encrypt" /\ job'[s].text = t /\ job'[s].left = InOrder(Registered)
      /\ job'[s].again = FALSE /\ job'[s].force = {} /\ job'[s].envs = <<>>
  BY <1>0, <1>2, <1>a DEF SendDm, TypeOK, NoJob
<1>4. \A r \in Senders \ {s} : Begun(r) => job[r].text # t
  BY <1>0, <1>1 DEF BatchInv, JobFits
<1>5. outcome[t] = "none"
  <2>1. Ended(t) /\ t > sends  BY <1>1 DEF SendInv
  <2> QED  BY <2>1 DEF Ended
<1>6. ToSet(InOrder(Registered)) = Registered
  <2>1. Registered \in SUBSET Devices  BY DEF Registered
  <2> QED  BY <2>1, InOrderIs
<1>7. made \in Nat /\ faults <= faults' /\ sends <= sends'
  BY <1>0, <1>1, <1>2, BoundAssumption DEF TypeOK
<1>8. Stale(s)' = Stale(s)  BY <1>2 DEF Stale, Registered
<1>9. SendFits(s)'
  <2>1. (start[t].made)' = made /\ (start[t].stale)' = Stale(s)  BY <1>1
  <2> HIDE DEF Stale, Registered
  <2> QED  BY <1>1, <1>3, <1>5, <1>6, <1>7, <1>8, <1>2, <2>1, EmptySet DEF SendFits
<1>10. Ended(t)'
  <2>1. outcome'[t] = "none"  BY <1>1, <1>5
  <2> QED  BY <2>1 DEF Ended
<1>11. \A q \in reqs' : q.awaited => (q \in reqs /\ q.from # s) \/ RequestFits(q)'
  <2>1. job[s].phase = "idle"  BY DEF SendDm
  <2>2. \A q \in reqs : q.awaited => job[q.from].phase = q.via /\ q.via \in {"ws", "http"}
    BY <1>0 DEF Shapes, Watched, TypeOK, Requests
  <2> QED  BY <1>2, <2>1, <2>2
<1> QED  BY <1>1, <1>2, <1>3, <1>4, <1>7, <1>9, <1>10, <1>11, SenderSend

\* One device's envelope: its session is as new as the device, or was stale
\* when the send began.
LEMMA EncryptsSend ==
  ASSUME DispatchBatches, TypeOK', Shapes', SendInv, NEW s \in Senders, NEW d \in Devices,
         NEW g \in Sessions, Begun(s), job[s].left # <<>>, d = Head(job[s].left),
         job[s].phase \notin {"ws", "http"},
         job' = [job EXCEPT ![s] = Encrypted(s, d, g)],
         UNCHANGED <<reqs, queue, opened, reg, made, accepted, outcome, start, sentTo, sends, faults>>,
         \A r \in Senders \ {s} : session'[r] = session[r],
         Stale(s)' \subseteq Stale(s),
         Calm(s) => g.reg = reg[d] \/ d \in start[job[s].text].stale \ job[s].force
  PROVE  SendInv'
<1>0. TypeOK /\ Shapes /\ KeysInv /\ BatchInv  BY Held
<1> DEFINE e == Envelope(s, d, g)
           t == job[s].text
<1>1. /\ ToSet(job'[s].envs) = ToSet(job[s].envs) \cup {e}
      /\ job'[s].left = Tail(job[s].left) /\ job'[s].phase = "encrypt"
      /\ job'[s].text = t /\ job'[s].again = job[s].again
      /\ job'[s].force = job[s].force
      /\ \A r \in Senders \ {s} : job'[r] = job[r]
  BY <1>0, EncryptsAround
<1>2. e.text = t /\ e.from = s /\ e.to = d /\ e.sess = g  BY DEF Envelope
<1>3. ToSet(job[s].left) = {d} \cup ToSet(Tail(job[s].left))
  <2>1. job[s].left \in Seq(Devices)  BY <1>0, TypeFields
  <2> QED  BY <2>1, HeadTailSet
<1>4. SendFits(s)  BY DEF SendInv
<1>5. Calm(s)' = Calm(s)  BY <1>1 DEF Calm
<1> HIDE DEF e
<1>6. SendFits(s)'
  <2>1. /\ outcome'[t] = "none" /\ start'[t].made <= made'
        /\ ToSet(job'[s].left) \subseteq sentTo'[t]
        /\ (~job'[s].again <=> job'[s].force = {})
    BY <1>1, <1>3, <1>4 DEF SendFits
  <2>2. ASSUME NEW x \in sentTo'[t]  PROVE x \in ToSet(job'[s].left) \/ \E f \in ToSet(job'[s].envs) : f.to = x
    <3>1. x \in ToSet(job[s].left) \/ \E f \in ToSet(job[s].envs) : f.to = x
      BY <1>4 DEF SendFits
    <3> QED  BY <1>1, <1>2, <1>3, <3>1
  <2>3. \A f \in ToSet(job'[s].envs) : f.text = t /\ f.from = s
    BY <1>1, <1>2, <1>4 DEF SendFits
  <2>4. ASSUME Calm(s)'
        PROVE  /\ Stale(s)' \cup job'[s].force \subseteq start'[t].stale
               /\ \A f \in ToSet(job'[s].envs) :
                     f.sess.reg # reg'[f.to] => f.to \in start'[t].stale \ job'[s].force
    <3>1. Calm(s)  BY <1>5, <2>4
    <3>2. Stale(s) \cup job[s].force \subseteq start[t].stale
      BY <1>4, <3>1 DEF SendFits
    <3>3. \A f \in ToSet(job[s].envs) : f.sess.reg # reg[f.to] => f.to \in start[t].stale \ job[s].force
      BY <1>4, <3>1 DEF SendFits
    <3>4. e.sess.reg # reg[e.to] => e.to \in start[t].stale \ job[s].force
      BY <1>2, <3>1
    <3> HIDE DEF Stale
    <3> QED  BY <1>1, <3>2, <3>3, <3>4
  <2> HIDE DEF Calm, Stale
  <2> QED  BY <1>1, <2>1, <2>2, <2>3, <2>4 DEF SendFits
<1> HIDE DEF t
<1>7. faults <= faults'  BY <1>0, BoundAssumption DEF TypeOK
<1>8. \A q \in reqs' : q.awaited => q \in reqs \/ RequestFits(q)'  OBVIOUS
<1> QED  BY <1>1, <1>6, <1>7, <1>8, SenderGoesOn

\* A job that moves on with the same envelopes.
LEMMA FitsMoves ==
  ASSUME NEW s \in Senders, SendFits(s),
         job'[s].text = job[s].text, job'[s].left = job[s].left, job'[s].envs = job[s].envs,
         job'[s].again = job[s].again, job'[s].force = job[s].force,
         UNCHANGED <<reg, made, outcome, start, sentTo, session>>,
         job'[s].phase \in {"ws", "fallback"} => ~job[s].again,
         Calm(s) /\ job'[s].phase \in {"bundle", "kyber"} =>
            job'[s].got.reg = reg[Head(job[s].left)]
  PROVE  SendFits(s)'
<1>1. Calm(s)' = Calm(s) /\ Stale(s)' = Stale(s)  BY DEF Calm, Stale, Registered
<1> HIDE DEF Calm, Stale
<1> QED  BY <1>1 DEF SendFits

LEMMA UseSessionSend ==
  ASSUME DispatchBatches, TypeOK', Shapes', SendInv, NEW s \in Senders, UseSession(s)
  PROVE  SendInv'
<1>0. TypeOK /\ Shapes /\ KeysInv /\ BatchInv  BY Held
<1>1. /\ job[s].phase = "encrypt" /\ job[s].left # <<>> /\ Begun(s)
      /\ UNCHANGED <<reqs, queue, opened, reg, made, accepted, outcome, start, sentTo, sends, faults>>
      /\ UNCHANGED session
  BY DEF UseSession, Encrypts, Begun, device, log
<1>2. PICK d \in Devices : d = Head(job[s].left) /\ d \in ToSet(job[s].left)
  <2>1. job[s].left \in Seq(Devices)  BY <1>0, TypeFields
  <2> QED  BY <1>1, <2>1, HeadTailSet
<1>3. PICK g \in Sessions : g = session[s][d]  BY <1>0, TypeFields
<1>4. /\ g # NoSession /\ ~Forced(s, d)
      /\ job' = [job EXCEPT ![s] = Encrypted(s, d, g)]
  BY <1>2, <1>3 DEF UseSession
<1>5. Stale(s)' = Stale(s)  BY <1>1 DEF Stale, Registered
<1>6. g.reg # 0 /\ reg[d] # 0
  <2>1. SessionFits(s, d, g)  BY <1>0, <1>3, <1>4 DEF KeysInv, SenderKeys
  <2>2. reg[d] # 0  BY <1>0, <1>2 DEF KeysInv, SenderKeys, JobKeys
  <2>3. reg[d] \in Nat  BY <1>0 DEF TypeOK
  <2> QED  BY <2>1, <2>2, <2>3 DEF SessionFits
<1>7. ASSUME Calm(s), g.reg # reg[d]  PROVE d \in start[job[s].text].stale \ job[s].force
  <2>1. d \in Stale(s)  BY <1>3, <1>6, <1>7 DEF Stale, Registered
  <2>2. Stale(s) \subseteq start[job[s].text].stale
    <3>1. SendFits(s)  BY <1>1 DEF SendInv
    <3> HIDE DEF Stale
    <3> QED  BY <1>7, <3>1 DEF SendFits
  <2> QED  BY <1>4, <2>1, <2>2 DEF Forced
<1> QED  BY <1>1, <1>2, <1>4, <1>5, <1>7, EncryptsSend

LEMMA InitiateSessionSend ==
  ASSUME DispatchBatches, TypeOK', Shapes', SendInv, NEW s \in Senders, InitiateSession(s)
  PROVE  SendInv'
<1>0. TypeOK /\ Shapes /\ KeysInv /\ BatchInv  BY Held
<1>1. /\ job[s].phase = "kyber" /\ Begun(s)
      /\ UNCHANGED <<reqs, queue, opened, reg, made, accepted, start, sentTo, sends, faults>>
  BY DEF InitiateSession, Begun, device, log
<1>2. ASSUME NEW d \in Devices, NEW g \in Sessions, Settles(s, d, g)  PROVE SendInv'
  <2>1. /\ job[s].left # <<>> /\ d = Head(job[s].left) /\ reg[d] = g.reg
        /\ session' = [session EXCEPT ![s][d] = g]
        /\ job' = [job EXCEPT ![s] = Encrypted(s, d, g)] /\ UNCHANGED outcome
    BY <1>2 DEF Settles
  <2>2. /\ \A r \in Senders \ {s} : session'[r] = session[r]
        /\ \A c \in Devices : session'[s][c] = IF c = d THEN g ELSE session[s][c]
    BY <1>0, <2>1 DEF TypeOK
  <2>3. Stale(s)' \subseteq Stale(s)  BY <1>1, <2>1, <2>2 DEF Stale, Registered
  <2> QED  BY <1>1, <2>1, <2>2, <2>3, EncryptsSend
<1>3. CASE GivesUp(s)
  <2>1. PICK t \in Texts : t = job[s].text  BY <1>0, <1>1 DEF Shapes
  <2>2. /\ ~Begun(s)' /\ \A r \in Senders \ {s} : job'[r] = job[r]
        /\ outcome' = [outcome EXCEPT ![t] = "failed"] /\ UNCHANGED session
    BY <1>0, <1>1, <1>3, <2>1, EndsTyped DEF GivesUp
  <2>3. SendFits(s)  BY <1>1 DEF SendInv
  <2>4. ~Calm(s)  BY <1>1, <1>3, <2>3 DEF SendFits, GivesUp
  <2>5. made \in Nat /\ start[t].made \in Nat /\ start[t].made <= made /\ made # start[t].made
    BY <1>0, <2>1, <2>3, <2>4 DEF TypeOK, SendFits, Calm
  <2>6. Ended(t)'
    <3>1. outcome'[t] = "failed"  BY <1>0, <2>2 DEF TypeOK
    <3>2. made' > start'[t].made  BY <1>1, <2>5
    <3>3. ~(t > sends)
      <4>1. t \in 1..sends /\ sends \in Nat
        BY <1>0, <1>1, <2>1, BoundAssumption DEF BatchInv, JobFits, TypeOK
      <4> QED  BY <4>1
    <3> QED  BY <1>1, <3>1, <3>2, <3>3 DEF Ended
  <2>7. \A q \in reqs' : q.awaited => (q \in reqs /\ q.from # s)
    <3>1. \A q \in reqs : q.awaited => job[q.from].phase = q.via /\ q.via \in {"ws", "http"}
      BY <1>0 DEF Shapes, Watched, TypeOK, Requests
    <3> QED  BY <1>1, <3>1
  <2>8. \A r \in Senders \ {s} : Begun(r) => job[r].text # t  BY <1>0, <1>1, <2>1 DEF BatchInv
  <2>9. faults <= faults' /\ sends <= sends'  BY <1>0, <1>1, BoundAssumption DEF TypeOK
  <2>10. \A u \in Texts \ {t} : outcome'[u] = outcome[u]  BY <1>0, <2>2 DEF TypeOK
  <2> QED  BY <1>1, <2>2, <2>6, <2>7, <2>8, <2>9, <2>10, SenderSend
<1> QED  BY <1>0, <1>2, <1>3, InitiateSessionDoes

LEMMA KeyStepsSend ==
  ASSUME DispatchBatches, TypeOK', Shapes', SendInv, NEW s \in Senders, PickKey(s) \/ TakeKey(s)
  PROVE  SendInv'
<1>0. TypeOK /\ Shapes /\ KeysInv /\ BatchInv  BY Held
<1>1. /\ Begun(s) /\ job[s].phase \in {"encrypt", "bundle"}
      /\ UNCHANGED <<reg, made, accepted, queue, opened, outcome, start, sentTo, sends, faults>>
      /\ UNCHANGED <<reqs, session>>
  BY DEF PickKey, TakeKey, Encrypts, Begun, device, log
<1>2. SendFits(s)  BY <1>1 DEF SendInv
<1>3. /\ job'[s].text = job[s].text /\ job'[s].left = job[s].left /\ job'[s].envs = job[s].envs
      /\ job'[s].again = job[s].again /\ job'[s].force = job[s].force
      /\ job'[s].phase \in {"bundle", "kyber"}
      /\ Calm(s) => job'[s].got.reg = reg[Head(job[s].left)]
      /\ \A r \in Senders \ {s} : job'[r] = job[r]
  <2>1. CASE PickKey(s)
    <3> DEFINE d == Head(job[s].left)
               ks == PoolOf(s, reg[d], "ec")
               g == [reg |-> reg[d], n |-> session[s][d].n + 1,
                     ec |-> IF ks = {} THEN 0 ELSE Min(ks)]
    <3>0. job' = [job EXCEPT ![s].phase = "bundle", ![s].got = g] /\ g.reg = reg[d]
      BY <2>1 DEF PickKey
    <3> HIDE DEF g
    <3>1. job'[s] = [job[s] EXCEPT !.phase = "bundle", !.got = g]  BY <1>0, <3>0 DEF TypeOK
    <3>2. \A r \in Senders \ {s} : job'[r] = job[r]  BY <1>0, <3>0 DEF TypeOK
    <3>3. job[s] \in Jobs  BY <1>0, TypeFields
    <3>4. /\ job'[s].text = job[s].text /\ job'[s].left = job[s].left
          /\ job'[s].envs = job[s].envs /\ job'[s].again = job[s].again
          /\ job'[s].force = job[s].force /\ job'[s].phase = "bundle" /\ job'[s].got = g
      BY <3>1, <3>3 DEF Jobs
    <3> QED  BY <3>0, <3>2, <3>4
  <2>2. CASE TakeKey(s)
    <3>1. PICK d \in Devices, g \in Sessions : TakesKey(s, d, g)  BY <1>0, <2>2, TakeKeyDoes
    <3>2. /\ job[s].phase = "bundle" /\ g.reg = job[s].got.reg
          /\ job' = [job EXCEPT ![s] = [job[s] EXCEPT !.phase = "kyber", !.got = g]]
      BY <3>1 DEF TakesKey
    <3>3. job'[s] = [job[s] EXCEPT !.phase = "kyber", !.got = g]  BY <1>0, <3>2 DEF TypeOK
    <3>4. \A r \in Senders \ {s} : job'[r] = job[r]  BY <1>0, <3>2 DEF TypeOK
    <3>5. job[s] \in Jobs  BY <1>0, TypeFields
    <3>6. Calm(s) => job[s].got.reg = reg[Head(job[s].left)]
      BY <1>2, <3>2 DEF SendFits
    <3> QED  BY <3>2, <3>3, <3>4, <3>5, <3>6 DEF Jobs
  <2> QED  BY <2>1, <2>2
<1>4. SendFits(s)'  BY <1>1, <1>2, <1>3, FitsMoves
<1>5. faults <= faults'  BY <1>0, <1>1, BoundAssumption DEF TypeOK
<1> QED  BY <1>1, <1>3, <1>4, <1>5, SenderGoesOn

\* A batch goes out whole: every listed device has its envelope in it.
LEMMA SendsSend ==
  ASSUME DispatchBatches, TypeOK', Shapes', SendInv, NEW s \in Senders,
         SendOverSocket(s) \/ SendOverHttp(s)
  PROVE  SendInv'
<1>0. TypeOK /\ Shapes /\ KeysInv /\ BatchInv  BY Held
<1>1. /\ Begun(s) /\ job[s].phase \in {"encrypt", "fallback"}
      /\ UNCHANGED <<reg, made, accepted, queue, opened, outcome, start, sentTo, sends, faults>>
      /\ UNCHANGED session
  BY DEF SendOverSocket, SendOverHttp, Begun, device, log
<1>2. PICK p \in {"ws", "http"} :
         /\ job' = [job EXCEPT ![s].phase = p] /\ Transmits(s, p)
         /\ p = "ws" => ~job[s].again
  BY DEF SendOverSocket, SendOverHttp
<1>3. SendFits(s)  BY <1>1 DEF SendInv
<1>4. /\ \A r \in Senders \ {s} : job'[r] = job[r]
      /\ job'[s].phase = p /\ job'[s].text = job[s].text /\ job'[s].left = job[s].left
      /\ job'[s].envs = job[s].envs /\ job'[s].again = job[s].again
      /\ job'[s].force = job[s].force /\ job[s].text \in Texts
  BY <1>0, <1>1, <1>2, PhaseTyped
<1>5. SendFits(s)'  BY <1>1, <1>2, <1>3, <1>4, FitsMoves
<1>6. job[s].left = <<>>
  BY <1>0, <1>1 DEF Shapes, SendOverSocket, SendOverHttp
<1>7. ASSUME NEW q \in reqs', q.awaited, q \notin reqs  PROVE RequestFits(q)'
  <2>1. q = [from |-> s, via |-> p, rows |-> job[s].envs, state |-> "runs", awaited |-> TRUE]
    BY <1>2, <1>7 DEF Transmits
  <2>2. q.from = s /\ q.rows = job[s].envs /\ q.state = "runs"  BY <2>1
  <2>3. \A d \in sentTo[job[s].text] : \E e \in ToSet(job[s].envs) : e.to = d
    BY <1>3, <1>6, EmptySet DEF SendFits
  <2> HIDE DEF Arrived, Calm
  <2> QED  BY <1>1, <1>4, <2>2, <2>3 DEF RequestFits
<1>8. faults <= faults'  BY <1>0, <1>1, BoundAssumption DEF TypeOK
<1> QED  BY <1>1, <1>4, <1>5, <1>7, <1>8, SenderGoesOn

\* What a reply tells: an answered batch has arrived, and the second stale
\* reply names a second stale device.
LEMMA RepliesSend ==
  ASSUME DispatchBatches, TypeOK', Shapes', SendInv, NEW s \in Senders,
         ReplyOk(s) \/ ReplyStale(s) \/ LoseReply(s)
  PROVE  SendInv'
<1>0. TypeOK /\ Shapes /\ KeysInv /\ BatchInv  BY Held
<1>1. /\ UNCHANGED <<reg, made, accepted, queue, opened, start, sentTo, sends>>
      /\ UNCHANGED session
  BY DEF ReplyOk, ReplyStale, LoseReply, device, log
<1>2. PICK q \in reqs :
          /\ q.from = s /\ q.awaited /\ Begun(s) /\ job[s].left = <<>> /\ q.rows # <<>>
          /\ q \in Requests /\ job[s].phase = q.via
          /\ reqs' = reqs \ {q} \/ (LoseReply(s) /\ reqs' = (reqs \ {q}) \cup {[q EXCEPT !.awaited = FALSE]})
          /\ \/ FallsBack(s) /\ q.via = "ws" /\ UNCHANGED <<outcome, retried>>
             \/ Ends(s, "sent") /\ q.state = "ok" /\ UNCHANGED retried
             \/ /\ Ends(s, "failed") /\ UNCHANGED retried
                /\ LoseReply(s) \/ (job[s].again /\ q.state = "stale")
             \/ /\ Retries(s, Head(q.rows).to) /\ q.state = "stale" /\ UNCHANGED outcome
                /\ ~job[s].again /\ Head(q.rows).to \in Devices
  BY <1>0, ReplyDoes
<1>3. SendFits(s) /\ RequestFits(q)  BY <1>2 DEF SendInv
<1>4. PICK t \in Texts : t = job[s].text  BY <1>0, <1>2 DEF Shapes
<1>5. /\ faults \in Nat /\ faults <= faults' /\ (LoseReply(s) => faults' # 0)
  <2>1. faults \in Nat  BY <1>0, BoundAssumption DEF TypeOK
  <2>2. CASE LoseReply(s)  BY <2>1, <2>2 DEF LoseReply, Fault
  <2>3. CASE ~LoseReply(s)
    <3>1. faults' = faults  BY <2>3 DEF ReplyOk, ReplyStale
    <3> QED  BY <2>1, <2>3, <3>1
  <2> QED  BY <2>2, <2>3
<1>6. \A p \in reqs' : p.awaited => p \in reqs /\ p.from # s
  <2>1. \A p \in reqs : p.from = s /\ p.awaited => p = q
    BY <1>0, <1>2 DEF Shapes, Watched
  <2>2. \A p \in reqs' : p.awaited => p \in reqs /\ p # q
    <3>1. [q EXCEPT !.awaited = FALSE].awaited = FALSE  BY <1>2 DEF Requests
    <3> QED  BY <1>2, <3>1
  <2> QED  BY <2>1, <2>2
<1>7. \A r \in Senders \ {s} : Begun(r) => job[r].text # t  BY <1>0, <1>2, <1>4 DEF BatchInv
<1>8. sends <= sends' /\ t \in 1..sends /\ sends \in Nat
  BY <1>0, <1>1, <1>2, <1>4, BoundAssumption DEF BatchInv, JobFits, TypeOK
\* The device a stale reply names.
<1>9. ASSUME q.state = "stale", Calm(s)  PROVE Head(q.rows).to \in start[t].stale \ job[s].force
  <2>1. q.rows \in Seq(Envelopes)  BY <1>2 DEF Requests
  <2>2. Head(q.rows) \in ToSet(q.rows)  BY <1>2, <2>1, HeadTailSet
  <2>3. /\ Head(q.rows) \in ToSet(job[s].envs)
        /\ Head(q.rows).sess.reg # reg[Head(q.rows).to]
    BY <1>2, <1>3, <1>9, <2>2 DEF RequestFits
  <2> HIDE DEF Calm, Stale
  <2> QED  BY <1>3, <1>4, <1>9, <2>3 DEF SendFits
<1>10. CASE FallsBack(s) /\ q.via = "ws" /\ UNCHANGED <<outcome, retried>>
  <2>1. /\ \A r \in Senders \ {s} : job'[r] = job[r]
        /\ job'[s].phase = "fallback" /\ job'[s].text = job[s].text /\ job'[s].left = job[s].left
        /\ job'[s].envs = job[s].envs /\ job'[s].again = job[s].again
        /\ job'[s].force = job[s].force
    BY <1>0, <1>2, <1>10, PhaseTyped DEF FallsBack
  <2>2. ~job[s].again  BY <1>2, <1>3, <1>10 DEF SendFits
  <2>3. SendFits(s)'  BY <1>1, <1>3, <1>10, <2>1, <2>2, FitsMoves
  <2> QED  BY <1>1, <1>2, <1>5, <1>6, <1>10, <2>1, <2>3, SenderGoesOn
<1>11. CASE Ends(s, "sent") /\ q.state = "ok"
  <2>1. /\ ~Begun(s)' /\ \A r \in Senders \ {s} : job'[r] = job[r]
        /\ outcome' = [outcome EXCEPT ![t] = "sent"]
    BY <1>0, <1>2, <1>4, <1>11, EndsTyped
  <2>2. /\ outcome'[t] = "sent" /\ \A u \in Texts \ {t} : outcome'[u] = outcome[u]
    BY <1>0, <2>1 DEF TypeOK
  <2>3. \A d \in sentTo[t] : Arrived(t, d)
    BY <1>2, <1>3, <1>4, <1>11 DEF RequestFits
  <2>4. Ended(t)'
    <3>1. \A d \in sentTo'[t] : Arrived(t, d)'  BY <1>1, <2>3 DEF Arrived
    <3>2. ~(t > sends')  BY <1>1, <1>8
    <3> QED  BY <2>2, <3>1, <3>2 DEF Ended
  <2> QED  BY <1>1, <1>5, <1>6, <1>7, <1>8, <2>1, <2>2, <2>4, SenderSend
<1>12. CASE Ends(s, "failed") /\ (LoseReply(s) \/ (job[s].again /\ q.state = "stale"))
  <2>1. /\ ~Begun(s)' /\ \A r \in Senders \ {s} : job'[r] = job[r]
        /\ outcome' = [outcome EXCEPT ![t] = "failed"]
    BY <1>0, <1>2, <1>4, <1>12, EndsTyped
  <2>2. /\ outcome'[t] = "failed" /\ \A u \in Texts \ {t} : outcome'[u] = outcome[u]
    BY <1>0, <2>1 DEF TypeOK
  <2>3. ASSUME faults' = 0
        PROVE  made' > start'[t].made \/ \E d, e \in start'[t].stale : d # e
    <3>1. job[s].again /\ q.state = "stale"  BY <1>5, <1>12, <2>3
    <3>2. CASE ~Calm(s)
      <4>1. made \in Nat /\ start[t].made \in Nat /\ start[t].made <= made /\ made # start[t].made
        BY <1>0, <1>3, <1>4, <3>2 DEF TypeOK, SendFits, Calm
      <4> QED  BY <1>1, <4>1
    <3>3. CASE Calm(s)
      <4>1. job[s].force # {} /\ job[s].force \subseteq start[t].stale
        BY <1>3, <1>4, <3>1, <3>3 DEF SendFits
      <4>2. PICK e \in job[s].force : e \in start[t].stale  BY <4>1
      <4>3. Head(q.rows).to \in start[t].stale \ job[s].force  BY <1>9, <3>1, <3>3
      <4> QED  BY <1>1, <4>2, <4>3
    <3> QED  BY <3>2, <3>3
  <2>4. Ended(t)'
    <3>1. ~(t > sends')  BY <1>1, <1>8
    <3> QED  BY <2>2, <2>3, <3>1 DEF Ended
  <2> QED  BY <1>1, <1>5, <1>6, <1>7, <1>8, <2>1, <2>2, <2>4, SenderSend
<1>13. CASE /\ Retries(s, Head(q.rows).to) /\ q.state = "stale" /\ UNCHANGED outcome
            /\ ~job[s].again /\ Head(q.rows).to \in Devices
  <2> DEFINE d == Head(q.rows).to
  <2>1. /\ \A r \in Senders \ {s} : job'[r] = job[r]
        /\ job'[s].phase = "encrypt" /\ job'[s].text = t /\ job'[s].again = TRUE
        /\ job'[s].envs = <<>> /\ job'[s].force = {d}
        /\ job'[s].left = InOrder(sentTo[t])
    BY <1>0, <1>2, <1>4, <1>13, RetriesTyped
  <2>2. ToSet(job'[s].left) = sentTo[t]
    <3>1. sentTo[t] \in SUBSET Devices  BY <1>0 DEF TypeOK
    <3> QED  BY <2>1, <3>1, InOrderIs
  <2>3. Stale(s)' = Stale(s) /\ Calm(s)' = Calm(s)
    BY <1>1, <1>4, <2>1 DEF Stale, Registered, Calm
  <2>4. Calm(s) => Stale(s) \cup {d} \subseteq start[t].stale
    <3>1. Calm(s) => Stale(s) \subseteq start[t].stale  BY <1>3, <1>4 DEF SendFits
    <3> HIDE DEF Calm, Stale
    <3> QED  BY <1>9, <1>13, <3>1
  <2>5. outcome[t] = "none" /\ start[t].made <= made  BY <1>3, <1>4 DEF SendFits
  <2> HIDE DEF d, Calm, Stale
  <2>6. SendFits(s)'
    <3>1. ToSet(job'[s].envs) = {}  BY <2>1, EmptySet
    <3> QED  BY <1>1, <1>13, <2>1, <2>2, <2>3, <2>4, <2>5, <3>1 DEF SendFits
  <2> QED  BY <1>1, <1>2, <1>5, <1>6, <1>13, <2>1, <2>6, SenderGoesOn
<1> QED  BY <1>2, <1>10, <1>11, <1>12, <1>13

\* Steps of the server and of the devices: jobs and messages stay as they are,
\* and a registration ends the calm.
LEMMA OthersSend ==
  ASSUME DispatchBatches, TypeOK', SendInv,
         UNCHANGED <<job, session, outcome, start, sentTo, sends>>,
         made <= made', faults <= faults', accepted \subseteq accepted',
         \A d \in Devices : reg[d] <= reg'[d], made' = made => reg' = reg,
         \A q \in reqs' : q.awaited => q \in reqs \/ RequestFits(q)',
         \A x \in accepted' : AcceptedFits(x)'
  PROVE  SendInv'
<1>0. TypeOK /\ Shapes /\ KeysInv /\ BatchInv  BY Held
<1>1. ASSUME NEW r \in Senders, Begun(r)
      PROVE  SendFits(r) /\ (Calm(r)' => Calm(r) /\ reg' = reg)
  <2>1. SendFits(r)  BY <1>1 DEF SendInv
  <2>2. job[r].text \in Texts  BY <1>0, <1>1 DEF Shapes
  <2>3. /\ start[job[r].text].made <= made /\ start[job[r].text].made \in Nat
        /\ made \in Nat /\ made' \in Nat
    BY <1>0, <2>1, <2>2 DEF SendFits, TypeOK
  <2> QED  BY <2>1, <2>3 DEF Calm
<1>2. ASSUME NEW r \in Senders, Begun(r)'  PROVE SendFits(r)'
  <2>1. Begun(r) /\ job[r].text \in Texts  BY <1>0, <1>2 DEF Begun, Shapes
  <2>2. SendFits(r)  BY <1>1, <2>1
  <2>3. start[job[r].text].made <= made'
    <3>1. start[job[r].text].made <= made /\ start[job[r].text].made \in Nat
          /\ made \in Nat /\ made' \in Nat
      BY <1>0, <2>1, <2>2 DEF SendFits, TypeOK
    <3> QED  BY <3>1
  <2>4. Calm(r)' => Calm(r) /\ reg' = reg /\ Stale(r)' = Stale(r)
    BY <1>1, <2>1 DEF Stale, Registered
  <2> HIDE DEF Calm, Stale
  <2> QED  BY <2>2, <2>3, <2>4 DEF SendFits
<1>3. ASSUME NEW q \in reqs', q.awaited  PROVE RequestFits(q)'
  <2> SUFFICES ASSUME q \in reqs  PROVE RequestFits(q)'
    BY <1>3
  <2>1. q.from \in Senders /\ Begun(q.from) /\ job[q.from].text \in Texts
    BY <1>0, <1>3, AwaitedFits
  <2>2. RequestFits(q)  BY <1>3 DEF SendInv
  <2>3. Calm(q.from)' => Calm(q.from) /\ reg' = reg  BY <1>1, <2>1
  <2>4. \A d \in sentTo[job[q.from].text] :
           Arrived(job[q.from].text, d) => Arrived(job[q.from].text, d)'
    <3>1. sentTo[job[q.from].text] \subseteq Devices  BY <1>0, <2>1 DEF TypeOK
    <3> QED  BY <1>0, <3>1, ArrivedGrows
  <2> HIDE DEF Calm
  <2> QED  BY <2>2, <2>3, <2>4 DEF RequestFits
<1>4. ASSUME NEW t \in Texts  PROVE Ended(t)'
  <2>1. Ended(t)  BY DEF SendInv
  <2>2. sends <= sends'  BY <1>0, BoundAssumption DEF TypeOK
  <2> QED  BY <1>0, <2>1, <2>2, EndedKept
<1> QED  BY <1>2, <1>3, <1>4 DEF SendInv

\* A row is enqueued: its message has arrived at its device, and is queued.
LEMMA EnqueueRowSend ==
  ASSUME DispatchBatches, TypeOK', SendInv, NEW q \in reqs, EnqueueRow(q)
  PROVE  SendInv'
<1>0. TypeOK /\ Shapes /\ KeysInv /\ BatchInv  BY Held
<1>1. PICK c \in Envelopes : Enqueues(q, c)  BY <1>0, EnqueueRowDoes
<1>2. /\ UNCHANGED <<job, session, outcome, start, sentTo, sends>>
      /\ UNCHANGED <<reg, made, opened, faults>>
  BY DEF EnqueueRow, sender, device
<1>3. /\ q \in Requests /\ q.rows \in Seq(Envelopes) /\ q.rows # <<>> /\ c = Head(q.rows)
      /\ q.state = "runs" /\ c.to \in Devices /\ c.text \in Texts
      /\ accepted' = accepted \cup {<<c.text, c.to, reg[c.to]>>}
      /\ queue' = [queue EXCEPT ![c.to] = Append(queue[c.to], c)]
  BY <1>0, <1>1, TypeFields DEF Enqueues, Envelopes, Shapes
<1>4. ToSet(q.rows) = {c} \cup ToSet(Tail(q.rows)) /\ Len(q.rows) \in Nat /\ Tail(q.rows) \in Seq(Envelopes)
      /\ Len(Tail(q.rows)) = Len(q.rows) - 1
  BY <1>3, HeadTailSet
<1>5. reg[c.to] \in Nat /\ reg[c.to] \in 1..reg[c.to]
  <2>1. c \in Around  BY <1>0, <1>4, AroundHas
  <2>2. c.sess.reg \in 1..reg[c.to] /\ c.sess.reg = reg[c.to]
    BY <1>0, <1>1, <2>1 DEF KeysInv, SenderKeys, SessionFits, Enqueues
  <2> QED  BY <1>0, <1>3, <2>2 DEF TypeOK
<1>6. /\ \A d \in Devices : ToSet(queue[d]) \subseteq ToSet(queue'[d])
      /\ c \in ToSet(queue'[c.to])
  <2>1. \A d \in Devices : queue'[d] = IF d = c.to THEN Append(queue[d], c) ELSE queue[d]
    BY <1>0, <1>3 DEF TypeOK
  <2>2. \A d \in Devices : queue[d] \in Seq(Envelopes)  BY <1>0 DEF TypeOK
  <2>3. \A d \in Devices : ToSet(Append(queue[d], c)) = ToSet(queue[d]) \cup {c}
    BY <2>2, AppendSet
  <2> QED  BY <1>3, <2>1, <2>3
<1>7. ASSUME NEW x \in accepted'  PROVE AcceptedFits(x)'
  <2>1. CASE x \in accepted
    <3>1. AcceptedFits(x) /\ x[2] \in Devices  BY <1>0, <2>1 DEF SendInv, TypeOK
    <3> QED  BY <1>2, <1>6, <3>1 DEF AcceptedFits
  <2>2. CASE x = <<c.text, c.to, reg[c.to]>>
    <3>1. x[1] = c.text /\ x[2] = c.to /\ x[3] = reg[c.to]  BY <2>2
    <3> QED  BY <1>2, <1>5, <1>6, <3>1 DEF AcceptedFits
  <2> QED  BY <1>3, <2>1, <2>2
<1>8. ASSUME NEW p \in reqs', p.awaited, p \notin reqs  PROVE RequestFits(p)'
  <2>1. \/ Len(q.rows) = 1 /\ p = [q EXCEPT !.state = "ok"]
        \/ p = [q EXCEPT !.rows = Tail(q.rows)]
    BY <1>1, <1>8 DEF Enqueues, Answered, Becomes
  <2>2. q.awaited /\ p.from = q.from /\ q.from \in Senders  BY <1>3, <1>8, <2>1 DEF Requests
  <2>3. RequestFits(q) /\ SendFits(q.from) /\ job[q.from].text \in Texts
    BY <1>0, <2>2, AwaitedFits DEF SendInv
  <2> DEFINE t == job[q.from].text
  <2>4. c.text = t  BY <1>4, <2>3 DEF RequestFits, SendFits
  <2>5. Arrived(t, c.to)'
    <3>1. <<t, c.to, reg[c.to]>> \in accepted'  BY <1>3, <2>4
    <3> QED  BY <1>2, <1>5, <3>1 DEF Arrived
  <2>6. \A d \in sentTo[t] : Arrived(t, d) => Arrived(t, d)'
    BY <1>2, <1>3 DEF Arrived
  <2>7. \A d \in sentTo[t] : Arrived(t, d)' \/ \E e \in ToSet(Tail(q.rows)) : e.to = d
    <3>1. \A d \in sentTo[t] : Arrived(t, d) \/ \E e \in ToSet(q.rows) : e.to = d
      BY <1>3, <2>3 DEF RequestFits
    <3> HIDE DEF Arrived, t
    <3> QED  BY <1>4, <2>5, <2>6, <3>1
  <2>8. ToSet(q.rows) \subseteq ToSet(job[q.from].envs)  BY <2>3 DEF RequestFits
  <2>9. CASE Len(q.rows) = 1 /\ p = [q EXCEPT !.state = "ok"]
    <3>1. ToSet(Tail(q.rows)) = {}
      <4>1. DOMAIN Tail(q.rows) = 1..0  BY <1>3, <2>9, HeadTailSet
      <4> QED  BY <4>1 DEF ToSet
    <3>2. p.rows = q.rows /\ p.state = "ok"  BY <1>3, <2>9 DEF Requests
    <3> HIDE DEF Arrived
    <3> QED  BY <1>2, <2>2, <2>7, <2>8, <3>1, <3>2 DEF RequestFits
  <2>10. CASE p = [q EXCEPT !.rows = Tail(q.rows)]
    <3>1. p.rows = Tail(q.rows) /\ p.state = "runs"  BY <1>3, <2>10 DEF Requests
    <3> HIDE DEF Arrived
    <3> QED  BY <1>2, <1>4, <2>2, <2>7, <2>8, <3>1 DEF RequestFits
  <2> QED  BY <2>1, <2>9, <2>10
<1>9. made <= made' /\ faults <= faults' /\ \A d \in Devices : reg[d] <= reg'[d]
  BY <1>0, <1>2, BoundAssumption DEF TypeOK
<1> QED  BY <1>2, <1>3, <1>7, <1>8, <1>9, OthersSend

\* A stale reply names a row whose session is not with the registration that
\* is there now.
LEMMA OtherRequestsSend ==
  ASSUME DispatchBatches, TypeOK', SendInv, NEW q \in reqs, RowStale(q) \/ Forget(q)
  PROVE  SendInv'
<1>0. TypeOK /\ Shapes /\ KeysInv /\ BatchInv  BY Held
<1>1. /\ UNCHANGED <<job, session, outcome, start, sentTo, sends>>
      /\ UNCHANGED <<reg, made, opened, queue, faults, accepted>>
  BY DEF RowStale, Forget, sender, device, log
<1>2. ASSUME NEW p \in reqs', p.awaited, p \notin reqs  PROVE RequestFits(p)'
  <2>1. p = [q EXCEPT !.state = "stale"] /\ q.state = "runs" /\ ~Current(Head(q.rows))
    BY <1>2 DEF RowStale, Forget, Answered, Becomes
  <2>2. q \in Requests  BY <1>0 DEF TypeOK
  <2>3. q.awaited /\ p.from = q.from /\ p.rows = q.rows /\ p.state = "stale"
    BY <1>2, <2>1, <2>2 DEF Requests
  <2>4. RequestFits(q)  BY <2>3 DEF SendInv
  <2> QED  BY <1>1, <2>1, <2>3, <2>4 DEF RequestFits, Current
<1>3. \A x \in accepted' : AcceptedFits(x)'  BY <1>1 DEF SendInv, AcceptedFits
<1>4. made <= made' /\ faults <= faults' /\ \A d \in Devices : reg[d] <= reg'[d]
  BY <1>0, <1>1, BoundAssumption DEF TypeOK
<1> QED  BY <1>1, <1>2, <1>3, <1>4, OthersSend

\* A message that has arrived stays: queued, then shown, until its device is
\* replaced.
LEMMA DeviceSend ==
  ASSUME DispatchBatches, TypeOK', SendInv, NEW d \in Devices,
         Register(d) \/ SaveStore(d) \/ RefillFails(d) \/ Replenish(d) \/ Receive(d)
  PROVE  SendInv'
<1>0. TypeOK /\ Shapes /\ KeysInv /\ BatchInv  BY Held
<1>1. /\ UNCHANGED <<job, session, outcome, start, sentTo, sends>>
      /\ UNCHANGED <<reqs, accepted>>
  BY DEF Register, SaveStore, RefillFails, Replenish, CheckStatus, MakeKeys, UploadKeys,
         Receive, OpenRow, SkipDuplicate, sender, log
<1>2. faults <= faults'
  <2>1. faults \in Nat  BY <1>0, BoundAssumption DEF TypeOK
  <2>2. faults' = faults \/ faults' = faults + 1
    BY DEF Register, SaveStore, RefillFails, Replenish, CheckStatus, MakeKeys, UploadKeys,
           Receive, OpenRow, SkipDuplicate, Fault
  <2> QED  BY <2>1, <2>2
<1>3. \A x \in accepted : x[2] \in Devices /\ x[3] \in Nat /\ reg[x[2]] \in Nat
  BY <1>0 DEF TypeOK
<1>4. CASE Register(d)
  <2>1. /\ made \in Nat /\ made' = made + 1
        /\ \A c \in Devices : reg[c] \in Nat /\ reg'[c] = IF c = d THEN reg[c] + 1 ELSE reg[c]
        /\ \A c \in Devices \ {d} : queue'[c] = queue[c] /\ opened'[c] = opened[c]
    BY <1>0, <1>4 DEF Register, TypeOK
  <2>2. ASSUME NEW x \in accepted'  PROVE AcceptedFits(x)'
    <3>1. AcceptedFits(x) /\ x[2] \in Devices  BY <1>1, <1>3 DEF SendInv
    <3>2. CASE x[2] = d  BY <2>1, <3>1, <3>2 DEF AcceptedFits
    <3>3. CASE x[2] # d  BY <2>1, <3>1, <3>3 DEF AcceptedFits
    <3> QED  BY <3>2, <3>3
  <2>3. made <= made' /\ made' # made /\ \A c \in Devices : reg[c] <= reg'[c]  BY <2>1
  <2> QED  BY <1>1, <1>2, <2>2, <2>3, OthersSend
<1>5. CASE ~Register(d)
  <2>1. UNCHANGED <<reg, made>>
    BY <1>5 DEF SaveStore, RefillFails, Replenish, CheckStatus, MakeKeys, UploadKeys,
                Receive, OpenRow, SkipDuplicate
  <2>2. \A c \in Devices : opened[c] \cup ToSet(queue[c]) \subseteq opened'[c] \cup ToSet(queue'[c])
    <3>1. CASE OpenRow(d)
      <4>1. PICK c \in Envelopes : Reads(d, c) /\ (Opens(d, c) \/ Keyless(d, c))
        BY <1>0, <3>1, OpenRowDoes
      <4>2. Opens(d, c)  BY <1>0, <4>1, RowOpens DEF Keyless
      <4>3. /\ opened' = [opened EXCEPT ![d] = opened[d] \cup {c}] /\ queue[d] # <<>>
            /\ c = Head(queue[d]) /\ queue' = [queue EXCEPT ![d] = Tail(queue[d])]
        BY <4>1, <4>2 DEF Opens, Reads
      <4>4. ToSet(queue[d]) = {c} \cup ToSet(Tail(queue[d]))
        <5>1. queue[d] \in Seq(Envelopes)  BY <1>0, TypeFields
        <5> QED  BY <4>3, <5>1, HeadTailSet
      <4>5. /\ opened'[d] = opened[d] \cup {c} /\ queue'[d] = Tail(queue[d])
            /\ \A e \in Devices \ {d} : opened'[e] = opened[e] /\ queue'[e] = queue[e]
        BY <1>0, <4>3 DEF TypeOK
      <4> QED  BY <4>4, <4>5
    <3>2. CASE SkipDuplicate(d)
      <4>1. /\ UNCHANGED opened /\ queue[d] # <<>> /\ Head(queue[d]) \in opened[d]
            /\ queue' = [queue EXCEPT ![d] = Tail(queue[d])]
        BY <3>2 DEF SkipDuplicate, NextRow, device
      <4>2. ToSet(queue[d]) = {Head(queue[d])} \cup ToSet(Tail(queue[d]))
        <5>1. queue[d] \in Seq(Envelopes)  BY <1>0, TypeFields
        <5> QED  BY <4>1, <5>1, HeadTailSet
      <4>3. /\ queue'[d] = Tail(queue[d])
            /\ \A e \in Devices \ {d} : queue'[e] = queue[e]
        BY <1>0, <4>1 DEF TypeOK
      <4> QED  BY <4>1, <4>2, <4>3
    <3>3. CASE ~Receive(d)
      <4>1. UNCHANGED <<opened, queue>>
        BY <1>5, <3>3 DEF SaveStore, RefillFails, Replenish, CheckStatus, MakeKeys, UploadKeys, device
      <4> QED  BY <4>1
    <3> QED  BY <3>1, <3>2, <3>3 DEF Receive
  <2>3. ASSUME NEW x \in accepted'  PROVE AcceptedFits(x)'
    <3>1. AcceptedFits(x) /\ x[2] \in Devices  BY <1>1, <1>3 DEF SendInv
    <3> QED  BY <2>1, <2>2, <3>1 DEF AcceptedFits
  <2>4. made <= made' /\ \A c \in Devices : reg[c] <= reg'[c]  BY <1>0, <2>1 DEF TypeOK
  <2> QED  BY <1>1, <1>2, <2>1, <2>3, <2>4, OthersSend
<1> QED  BY <1>4, <1>5

LEMMA SendStep ==
  ASSUME DispatchBatches, TypeOK', Shapes', SendInv, [Next]_vars
  PROVE  SendInv'
<1>0. TypeOK /\ Shapes /\ KeysInv /\ BatchInv  BY Held
<1>1. ASSUME NEW s \in Senders, SendDm(s) \/ SenderStep(s) \/ LoseReply(s)
      PROVE  SendInv'
  BY <1>1, SendDmSend, UseSessionSend, KeyStepsSend, InitiateSessionSend, SendsSend, RepliesSend
     DEF SenderStep
<1>2. ASSUME NEW q \in reqs, ServerStep(q) \/ Forget(q)
      PROVE  SendInv'
  BY <1>2, EnqueueRowSend, OtherRequestsSend DEF ServerStep
<1>3. ASSUME NEW d \in Devices,
             Register(d) \/ SaveStore(d) \/ RefillFails(d) \/ Replenish(d) \/ Receive(d)
      PROVE  SendInv'
  BY <1>3, DeviceSend
<1>4. CASE UNCHANGED vars
  <2>1. /\ UNCHANGED <<job, session, outcome, start, sentTo, sends>>
        /\ UNCHANGED <<reg, made, opened, queue, faults, accepted, reqs>>
    BY <1>4 DEF vars, sender, device, log
  <2>2. \A x \in accepted' : AcceptedFits(x)'  BY <2>1 DEF SendInv, AcceptedFits
  <2>3. made <= made' /\ faults <= faults' /\ \A d \in Devices : reg[d] <= reg'[d]
    BY <1>0, <2>1, BoundAssumption DEF TypeOK
  <2> QED  BY <2>1, <2>2, <2>3, OthersSend
<1> QED  BY <1>1, <1>2, <1>3, <1>4 DEF Next

LEMMA TwoOf ==
  ASSUME NEW T, IsFiniteSet(T), NEW a \in T, NEW b \in T, a # b
  PROVE  Cardinality(T) > 1
<1>1. Cardinality({a}) = 1 /\ IsFiniteSet({a})  BY FS_Singleton
<1>2. Cardinality({a} \cup {b}) = 2  BY <1>1, FS_AddElement
<1>3. {a} \cup {b} \subseteq T /\ IsFiniteSet({a} \cup {b})  BY <1>1, FS_AddElement
<1>4. Cardinality({a} \cup {b}) <= Cardinality(T)  BY <1>3, FS_Subset
<1>5. Cardinality(T) \in Nat  BY FS_CardinalityType
<1> QED  BY <1>2, <1>4, <1>5

DispatchInv == DispatchBatches /\ SendInv

\* What is told of a send is so: done means that every device listed has it or
\* was replaced since, and without failures and registrations during the send
\* only two stale sessions make it fail.  And no device shows a message more
\* often than a retry explains.  For any number of senders, devices, messages
\* and faults.
THEOREM SendsHoldAlways == Spec => []SendsHold
<1>1. Init => DispatchInv
  BY TypeInit, KeysInit, BatchInit, SendInit DEF DispatchInv, DispatchBatches, DispatchKeys
<1>2. DispatchInv /\ [Next]_vars => DispatchInv'
  <2> SUFFICES ASSUME DispatchInv, [Next]_vars  PROVE DispatchInv'
    OBVIOUS
  <2>1. TypeOK' /\ Shapes'  BY TypeStep DEF DispatchInv, DispatchBatches, DispatchKeys
  <2>2. KeysInv'  BY <2>1, KeysStep DEF DispatchInv, DispatchBatches, DispatchKeys
  <2>3. BatchInv'  BY <2>1, BatchStepAll DEF DispatchInv, DispatchBatches, DispatchKeys
  <2>4. SendInv'  BY <2>1, SendStep DEF DispatchInv
  <2> QED  BY <2>1, <2>2, <2>3, <2>4 DEF DispatchInv, DispatchBatches, DispatchKeys
<1>3. DispatchInv => SendsHold
  <2> SUFFICES ASSUME DispatchInv, NEW t \in Texts
               PROVE  /\ outcome[t] = "sent" =>
                            \A d \in sentTo[t] : \E r \in 1..reg[d] :
                                /\ <<t, d, r>> \in accepted
                                /\ r = reg[d] =>
                                      \E c \in opened[d] \cup ToSet(queue[d]) : c.text = t
                      /\ outcome[t] = "failed" /\ faults = 0 =>
                            made > start[t].made \/ Cardinality(start[t].stale) > 1
    BY Shown DEF SentArrives, SendsHold, DispatchInv
  <2>1. TypeOK /\ Ended(t)  BY Held DEF DispatchInv, SendInv
  <2>2. ASSUME outcome[t] = "sent", NEW d \in sentTo[t]
        PROVE  \E r \in 1..reg[d] :
                   /\ <<t, d, r>> \in accepted
                   /\ r = reg[d] => \E c \in opened[d] \cup ToSet(queue[d]) : c.text = t
    <3>1. PICK r \in 1..reg[d] : <<t, d, r>> \in accepted  BY <2>1, <2>2 DEF Ended, Arrived
    <3> DEFINE x == <<t, d, r>>
    <3>2. x[1] = t /\ x[2] = d /\ x[3] = r /\ x \in accepted  BY <3>1
    <3> HIDE DEF x
    <3>3. AcceptedFits(x)  BY <3>2 DEF DispatchInv, SendInv
    <3>4. r = reg[d] => \E c \in opened[d] \cup ToSet(queue[d]) : c.text = t
      BY <3>2, <3>3 DEF AcceptedFits
    <3> QED  BY <3>1, <3>4
  <2>3. ASSUME NEW d \in start[t].stale, NEW e \in start[t].stale, d # e
        PROVE  Cardinality(start[t].stale) > 1
    <3>1. start[t].stale \subseteq 1..MaxDevice  BY <2>1 DEF TypeOK, Devices
    <3>2. IsFiniteSet(1..MaxDevice)  BY DeviceAssumption, FS_Interval
    <3>3. IsFiniteSet(start[t].stale)  BY <3>1, <3>2, FS_Subset
    <3> QED  BY <2>3, <3>3, TwoOf
  <2> QED  BY <2>1, <2>2, <2>3 DEF Ended
<1> QED  BY <1>1, <1>2, <1>3, PTL DEF Spec
=============================================================================
