--------------------------- MODULE AccountsProofs ---------------------------
(***************************************************************************)
(* Proofs about Accounts, for any persons, installs, Projects and limits:   *)
(*                                                                         *)
(*   LoginsAreConsented  a token is handed to one caller, and was minted    *)
(*                       for one who consented (ProjectLogin);              *)
(*   AdmittedOnceAlways  one invite admits one identity, and one claims the *)
(*                       superuser's Project;                               *)
(*   DeletionIsWholeAlways  what belongs to an account goes with it, and a  *)
(*                       tombstone means that the account went before;      *)
(*   DevicesFitAlways    a number means one device, a session belongs to    *)
(*                       who made the device, and prekeys are held;         *)
(*   NotLockedOutAlways  a person with nothing under way has a way in.      *)
(***************************************************************************)
EXTENDS Accounts, SequenceTheorems, FiniteSetTheorems, TLAPS

----------------------------------------------------------------------------
(* Logins to Projects *)

Grant == [kind : {"auth_code", "device_code"}, who : People \cup {Nobody},
          status : {"pending", "approved", "consumed", "gone"}, token : Nat,
          late : BOOLEAN, polled : {"never", "just", "earlier"}]
Books == [consent : SUBSET (Nat \X People), approved : SUBSET (Nat \X People),
          handed : SUBSET (Nat \X Nat \X Callers), minted : Seq(People)]
LoginTypeOK ==
    /\ grants \in Seq(Grant) /\ login \in Books
    /\ tokens \in Seq(People \cup {Nobody}) /\ Len(tokens) = Len(login.minted)
    /\ DOMAIN call = Callers \cup People

(* A token bound to a grant was minted for the person the grant names, who  *)
(* has consented and been told so; it is there from the approval on.        *)
Binds(g) == grants[g].kind = "device_code" /\ grants[g].token # 0
GrantFits(g) ==
    LET r == grants[g] IN
    /\ r.kind = "auth_code" =>
          r.token = 0 /\ r.status # "pending" /\ <<g, r.who>> \in login.consent
    /\ r.kind = "device_code" =>
          /\ r.status \in {"approved", "consumed"} => r.token # 0
          /\ r.token # 0 =>
                /\ r.status # "pending" /\ <<g, r.who>> \in login.consent \cap login.approved
                /\ r.token \in DOMAIN login.minted /\ login.minted[r.token] = r.who

(* A request of a person who consents: its token is no other's yet.         *)
Unbound(t) ==
    /\ t \in DOMAIN login.minted
    /\ \A g \in DOMAIN grants : grants[g].token # t
    /\ \A h \in login.handed : h[2] # t
PersonFits(x) ==
    LET r == call[x] IN
    /\ r.step \in {"idle", "mint", "approve"} /\ (r.step = "idle" => r = Idle)
    /\ r.step # "idle" =>
          /\ {"step", "g", "who", "token"} \subseteq DOMAIN r
          /\ r.g \in DOMAIN grants /\ grants[r.g].kind = "device_code" /\ r.who = x
          /\ <<r.g, x>> \in login.consent
    /\ r.step = "approve" => Unbound(r.token) /\ login.minted[r.token] = x

(* A request of a Project: what it has read of a grant that was approved    *)
(* stays so, and the grant it has consumed was handed to nobody.            *)
CallerFits(c) ==
    LET r == call[c] IN
    /\ r.step \in {"idle", "poll", "consume", "mint"} /\ (r.step = "idle" => r = Idle)
    /\ r.step # "idle" =>
          /\ {"step", "g", "who", "token"} \subseteq DOMAIN r /\ r.g \in DOMAIN grants
    /\ r.step = "poll" =>
          /\ {"status", "polled"} \subseteq DOMAIN r /\ grants[r.g].kind = "device_code"
          /\ r.status = "approved" => r.token # 0 /\ r.token = grants[r.g].token
    /\ r.step = "consume" =>
          IF r.token = 0 THEN grants[r.g].kind = "auth_code" /\ r.who = grants[r.g].who
          ELSE grants[r.g].kind = "device_code" /\ r.token = grants[r.g].token
    /\ r.step = "mint" =>
          /\ grants[r.g].kind = "auth_code" /\ r.who = grants[r.g].who
          /\ grants[r.g].status \in {"consumed", "gone"}
          /\ \A h \in login.handed : h[1] # r.g
          /\ \A k \in Callers : call[k].step = "mint" /\ call[k].g = r.g => k = c

(* A token handed out is the grant's own, or was minted for it.             *)
HandedFits(h) ==
    /\ h[1] \in DOMAIN grants /\ grants[h[1]].status \in {"consumed", "gone"}
    /\ h[2] \in DOMAIN login.minted /\ login.minted[h[2]] = grants[h[1]].who
    /\ IF grants[h[1]].kind = "device_code" THEN h[2] = grants[h[1]].token
       ELSE \A g \in DOMAIN grants : grants[g].token # h[2]

LoginInv ==
    /\ \A g \in DOMAIN grants : GrantFits(g)
    /\ \A f, g \in DOMAIN grants : grants[f].token = grants[g].token /\ grants[f].token # 0 => f = g
    /\ \A a \in login.approved : a[1] \in DOMAIN grants /\ Binds(a[1]) /\ grants[a[1]].who = a[2]
    /\ \A x \in People : PersonFits(x)
    /\ \A x, y \in People :
          call[x].step = "approve" /\ call[y].step = "approve" /\ call[x].token = call[y].token => x = y
    /\ \A c \in Callers : CallerFits(c)
    /\ \A h \in login.handed : HandedFits(h)
    /\ \A h, k \in login.handed : h[1] = k[1] \/ h[2] = k[2] => h = k

(* What every step does: grants that say whom they are for, or whose token  *)
(* is bound, go on to, and what was consumed is never approved again.       *)
Later ==
    /\ DOMAIN grants \subseteq DOMAIN grants'
    /\ \A g \in DOMAIN grants :
          /\ grants'[g].kind = grants[g].kind
          /\ grants[g].token # 0 \/ grants[g].kind = "auth_code" =>
                grants'[g].token = grants[g].token /\ grants'[g].who = grants[g].who
          /\ grants[g].status \in {"consumed", "gone"} => grants'[g].status \in {"consumed", "gone"}
    /\ login.consent \subseteq login'.consent /\ login.approved \subseteq login'.approved
    /\ \A t \in DOMAIN login.minted :
          t \in DOMAIN login'.minted /\ login'.minted[t] = login.minted[t]

\* The fields of the records, for the provers.
LEMMA LoginFields ==
  ASSUME LoginTypeOK
  PROVE  /\ \A g \in DOMAIN grants : grants[g] \in Grant
         /\ \A a \in login.consent \cup login.approved : a \in Nat \X People
         /\ \A h \in login.handed : h \in Nat \X Nat \X Callers
         /\ login.minted \in Seq(People) /\ DOMAIN login.minted = 1..Len(login.minted)
         /\ DOMAIN grants = 1..Len(grants) /\ Len(grants) \in Nat /\ Len(login.minted) \in Nat
         /\ Len(tokens) = Len(login.minted)
         /\ 0 \notin DOMAIN login.minted
BY DEF LoginTypeOK, Books

LEMMA PersonKept ==
  ASSUME LoginTypeOK, LoginInv, Later, NEW x \in People, call'[x] = call[x],
         call[x].step = "approve" => Unbound(call[x].token)'
  PROVE  PersonFits(x)'
<1>1. PersonFits(x)  BY DEF LoginInv
<1>2. call[x].step = "approve" => login'.minted[call[x].token] = x
  BY <1>1 DEF PersonFits, Unbound, Later
<1> QED  BY <1>1, <1>2 DEF PersonFits, Later

LEMMA CallerKept ==
  ASSUME LoginTypeOK, LoginInv, Later, NEW c \in Callers, call'[c] = call[c],
         call[c].step = "mint" =>
            /\ \A h \in login'.handed : h[1] # call[c].g
            /\ \A k \in Callers : call'[k].step = "mint" /\ call'[k].g = call[c].g => k = c
  PROVE  CallerFits(c)'
<1>1. CallerFits(c)  BY DEF LoginInv
<1>2. call[c].step # "idle" => call[c].g \in DOMAIN grants  BY <1>1 DEF CallerFits
<1>3. CASE call[c].step = "idle"  BY <1>1, <1>3 DEF CallerFits
<1>4. CASE call[c].step = "poll"  BY <1>1, <1>2, <1>4 DEF CallerFits, Later
<1>5. CASE call[c].step = "consume"
  <2>1. grants[call[c].g].kind \in {"auth_code", "device_code"}  BY <1>2, <1>5, LoginFields DEF Grant
  <2> QED  BY <1>1, <1>2, <1>5, <2>1 DEF CallerFits, Later
<1>6. CASE call[c].step = "mint"  BY <1>1, <1>2, <1>6 DEF CallerFits, Later
<1> QED  BY <1>1, <1>3, <1>4, <1>5, <1>6 DEF CallerFits

LEMMA HandedKept ==
  ASSUME LoginTypeOK, LoginInv, Later, NEW h \in login.handed,
         \A g \in DOMAIN grants' :
            \/ g \in DOMAIN grants /\ grants'[g].token = grants[g].token
            \/ grants'[g].token # h[2]
  PROVE  HandedFits(h)'
<1>1. HandedFits(h)  BY DEF LoginInv
<1>2. h[1] \in DOMAIN grants /\ GrantFits(h[1])  BY <1>1 DEF HandedFits, LoginInv
<1>3. grants[h[1]] \in Grant  BY <1>2, LoginFields
<1>4. h[2] # 0  BY <1>1, LoginFields DEF HandedFits
<1>5. grants'[h[1]].who = grants[h[1]].who /\ grants'[h[1]].token = grants[h[1]].token
  BY <1>1, <1>2, <1>3, <1>4 DEF HandedFits, Later, Grant
<1> QED  BY <1>1, <1>2, <1>4, <1>5 DEF HandedFits, Later

\* Steps that bind, mint and hand out nothing: grants are new or fade, requests
\* begin, go on as they may, or end.
LEMMA LoginGoes ==
  ASSUME LoginTypeOK, LoginInv, LoginTypeOK',
         login'.approved = login.approved, login'.handed = login.handed,
         login'.minted = login.minted, login.consent \subseteq login'.consent,
         DOMAIN grants \subseteq DOMAIN grants',
         \A g \in DOMAIN grants :
            /\ grants'[g].kind = grants[g].kind /\ grants'[g].who = grants[g].who
            /\ grants'[g].token = grants[g].token
            /\ grants'[g].status \in {grants[g].status, "gone"},
         \A g \in DOMAIN grants' \ DOMAIN grants : GrantFits(g)' /\ grants'[g].token = 0,
         \A x \in People :
            \/ call'[x] \in {call[x], Idle}
            \/ PersonFits(x)' /\ call'[x].step # "approve",
         \A c \in Callers :
            \/ call'[c] \in {call[c], Idle}
            \/ CallerFits(c)' /\ call'[c].step # "mint"
  PROVE  LoginInv'
<1>1. Later  BY LoginFields DEF Later
<1>2. \A g \in DOMAIN grants' : GrantFits(g)'
  <2> SUFFICES ASSUME NEW g \in DOMAIN grants  PROVE GrantFits(g)'  OBVIOUS
  <2>1. GrantFits(g)  BY DEF LoginInv
  <2> QED  BY <2>1 DEF GrantFits
<1>3. \A f, g \in DOMAIN grants' :
         grants'[f].token = grants'[g].token /\ grants'[f].token # 0 => f = g
  BY DEF LoginInv
<1>4. \A a \in login'.approved :
         a[1] \in DOMAIN grants' /\ Binds(a[1])' /\ grants'[a[1]].who = a[2]
  BY DEF LoginInv, Binds
<1>5. ASSUME NEW x \in People  PROVE PersonFits(x)'
  <2>1. CASE call'[x] = Idle  BY <2>1 DEF PersonFits, Idle
  <2>2. CASE call'[x] = call[x]
    <3>1. PersonFits(x)  BY DEF LoginInv
    <3>2. ASSUME call[x].step = "approve"  PROVE Unbound(call[x].token)'
      <4>1. Unbound(call[x].token)  BY <3>1, <3>2 DEF PersonFits
      <4>2. call[x].token # 0  BY <4>1, LoginFields DEF Unbound
      <4> QED  BY <2>2, <4>1, <4>2 DEF Unbound
    <3> QED  BY <1>1, <2>2, <3>2, PersonKept
  <2> QED  BY <2>1, <2>2
<1>6. \A x, y \in People :
         call'[x].step = "approve" /\ call'[y].step = "approve" /\ call'[x].token = call'[y].token => x = y
  BY DEF LoginInv, Idle
<1>7. ASSUME NEW c \in Callers  PROVE CallerFits(c)'
  <2>1. CASE call'[c] = Idle  BY <2>1 DEF CallerFits, Idle
  <2>2. CASE call'[c] = call[c]
    <3>1. CallerFits(c)  BY DEF LoginInv
    <3>2. ASSUME call[c].step = "mint"
          PROVE  /\ \A h \in login'.handed : h[1] # call[c].g
                 /\ \A k \in Callers : call'[k].step = "mint" /\ call'[k].g = call[c].g => k = c
      <4>1. /\ \A h \in login.handed : h[1] # call[c].g
            /\ \A k \in Callers : call[k].step = "mint" /\ call[k].g = call[c].g => k = c
        BY <3>1, <3>2 DEF CallerFits
      <4> QED  BY <4>1 DEF Idle
    <3> QED  BY <1>1, <2>2, <3>2, CallerKept
  <2> QED  BY <2>1, <2>2
<1>8. ASSUME NEW h \in login'.handed  PROVE HandedFits(h)'
  <2>1. HandedFits(h)  BY DEF LoginInv
  <2>2. h[2] # 0  BY <2>1, LoginFields DEF HandedFits
  <2> QED  BY <1>1, <2>2, HandedKept
<1>9. \A h, k \in login'.handed : h[1] = k[1] \/ h[2] = k[2] => h = k  BY DEF LoginInv
<1> QED  BY <1>2, <1>3, <1>4, <1>5, <1>6, <1>7, <1>8, <1>9 DEF LoginInv

\* Lemmas about appending.
LEMMA GrantAppended ==
  ASSUME LoginTypeOK, NEW r \in Grant, grants' = Append(grants, r)
  PROVE  /\ grants' \in Seq(Grant) /\ DOMAIN grants' = DOMAIN grants \cup {Len(grants) + 1}
         /\ Len(grants) + 1 \notin DOMAIN grants /\ grants'[Len(grants) + 1] = r
         /\ \A g \in DOMAIN grants : grants'[g] = grants[g]
BY DEF LoginTypeOK

LEMMA TokenMinted ==
  ASSUME LoginTypeOK, NEW x \in People
  PROVE  LET n == Len(tokens) + 1  m == Append(login.minted, x)  u == Append(tokens, x) IN
         /\ m \in Seq(People) /\ DOMAIN m = DOMAIN login.minted \cup {n}
         /\ n \notin DOMAIN login.minted /\ n \in Nat /\ m[n] = x
         /\ \A t \in DOMAIN login.minted : m[t] = login.minted[t]
         /\ u \in Seq(People \cup {Nobody}) /\ Len(u) = Len(m)
<1>1. tokens \in Seq(People \cup {Nobody}) /\ login.minted \in Seq(People)
      /\ Len(tokens) = Len(login.minted)
  BY LoginFields DEF LoginTypeOK
<1> QED  BY <1>1

\* Who hangs up, or comes to nothing, leaves it at that.
LEMMA LoginEnds ==
  ASSUME LoginTypeOK, LoginInv, NEW c, call' = [call EXCEPT ![c] = Idle],
         UNCHANGED <<grants, tokens, login>>
  PROVE  LoginTypeOK' /\ LoginInv'
<1>1. LoginTypeOK'  BY DEF LoginTypeOK
<1>2. \A k \in Callers \cup People : call'[k] \in {call[k], Idle}  BY DEF LoginTypeOK
<1> QED  BY <1>1, <1>2, LoginGoes

LEMMA LoginAuthorize ==
  ASSUME LoginTypeOK, LoginInv, NEW x \in People, AuthorizeCode(x)
  PROVE  LoginTypeOK' /\ LoginInv'
<1> DEFINE r == NewGrant("auth_code", x, "approved")
<1>0. PICK n \in Nat : n = Len(grants) + 1  BY LoginFields
<1>1. r \in Grant /\ r.kind = "auth_code" /\ r.who = x /\ r.token = 0 /\ r.status = "approved"
  BY DEF NewGrant, Grant
<1>2. grants' = Append(grants, r) /\ login' = [login EXCEPT !.consent = @ \cup {<<n, x>>}]
      /\ UNCHANGED <<tokens, call>>
  BY <1>0 DEF AuthorizeCode
<1> HIDE DEF r
<1>3. /\ grants' \in Seq(Grant) /\ DOMAIN grants' = DOMAIN grants \cup {n} /\ n \notin DOMAIN grants
      /\ grants'[n] = r /\ \A g \in DOMAIN grants : grants'[g] = grants[g]
  BY <1>0, <1>1, <1>2, GrantAppended
<1>4. login \in Books /\ login.consent \cup {<<n, x>>} \in SUBSET (Nat \X People)
  BY DEF LoginTypeOK, Books
<1>5. /\ login' \in Books /\ login'.consent = login.consent \cup {<<n, x>>}
      /\ login'.approved = login.approved /\ login'.handed = login.handed
      /\ login'.minted = login.minted
  BY <1>2, <1>4 DEF Books
<1>6. LoginTypeOK'  BY <1>2, <1>3, <1>5 DEF LoginTypeOK
<1>7. GrantFits(n)'  BY <1>1, <1>3, <1>5 DEF GrantFits
<1> QED  BY <1>1, <1>2, <1>3, <1>5, <1>6, <1>7, LoginGoes

LEMMA LoginDeviceCode ==
  ASSUME LoginTypeOK, LoginInv, DeviceAuthorization
  PROVE  LoginTypeOK' /\ LoginInv'
<1> DEFINE r == NewGrant("device_code", Nobody, "pending")
<1>0. PICK n \in Nat : n = Len(grants) + 1  BY LoginFields
<1>1. r \in Grant /\ r.kind = "device_code" /\ r.token = 0 /\ r.status = "pending"
  BY DEF NewGrant, Grant
<1>2. grants' = Append(grants, r) /\ UNCHANGED <<tokens, call, login>>  BY DEF DeviceAuthorization
<1> HIDE DEF r
<1>3. /\ grants' \in Seq(Grant) /\ DOMAIN grants' = DOMAIN grants \cup {n} /\ n \notin DOMAIN grants
      /\ grants'[n] = r /\ \A g \in DOMAIN grants : grants'[g] = grants[g]
  BY <1>0, <1>1, <1>2, GrantAppended
<1>4. LoginTypeOK'  BY <1>2, <1>3 DEF LoginTypeOK
<1>5. GrantFits(n)'  BY <1>1, <1>3 DEF GrantFits
<1> QED  BY <1>1, <1>2, <1>3, <1>4, <1>5, LoginGoes

LEMMA LoginConsents ==
  ASSUME LoginTypeOK, LoginInv, NEW x \in People, NEW g \in DOMAIN grants, DeviceApprove(x, g)
  PROVE  LoginTypeOK' /\ LoginInv'
<1> DEFINE r == [step |-> "mint", g |-> g, who |-> x, token |-> 0]
<1>1. /\ grants[g].kind = "device_code" /\ call' = [call EXCEPT ![x] = r]
      /\ login' = [login EXCEPT !.consent = @ \cup {<<g, x>>}] /\ UNCHANGED <<grants, tokens>>
  BY DEF DeviceApprove, Asks
<1>2. login \in Books /\ login.consent \cup {<<g, x>>} \in SUBSET (Nat \X People)
  <2>1. g \in Nat  BY LoginFields
  <2> QED  BY <2>1 DEF LoginTypeOK, Books
<1>3. /\ login' \in Books /\ login'.consent = login.consent \cup {<<g, x>>}
      /\ login'.approved = login.approved /\ login'.handed = login.handed
      /\ login'.minted = login.minted
  BY <1>1, <1>2 DEF Books
<1>4. LoginTypeOK'  BY <1>1, <1>3 DEF LoginTypeOK
<1>5. /\ call'[x] = r
      /\ \A k \in (Callers \cup People) \ {x} : call'[k] = call[k]
  BY <1>1 DEF LoginTypeOK
<1>6. PersonFits(x)' /\ call'[x].step # "approve"
  BY <1>1, <1>3, <1>5 DEF PersonFits
<1>7. x \notin Callers  BY NobodyAssumption
<1> HIDE DEF r
<1> QED  BY <1>1, <1>3, <1>4, <1>5, <1>6, <1>7, LoginGoes

\* A Project's request reads a grant.
LEMMA LoginReads ==
  ASSUME LoginTypeOK, LoginInv, NEW c \in Callers, NEW g \in DOMAIN grants,
         TokenAuthorizationCode(c, g) \/ TokenDeviceCode(c, g)
  PROVE  LoginTypeOK' /\ LoginInv'
<1>1. UNCHANGED <<grants, tokens, login>> /\ DOMAIN call' = DOMAIN call
  BY DEF TokenAuthorizationCode, TokenDeviceCode, Asks
<1>2. \A k \in (Callers \cup People) \ {c} : call'[k] = call[k]
  BY DEF TokenAuthorizationCode, TokenDeviceCode, Asks, LoginTypeOK
<1>3. GrantFits(g)  BY DEF LoginInv
<1>4. CallerFits(c)' /\ call'[c].step # "mint"
  <2>1. CASE TokenAuthorizationCode(c, g)
    <3>1. call'[c] = [step |-> "consume", g |-> g, who |-> grants[g].who, token |-> 0]
          /\ grants[g].kind = "auth_code"
      BY <2>1 DEF TokenAuthorizationCode, Asks, LoginTypeOK
    <3> QED  BY <1>1, <3>1 DEF CallerFits
  <2>2. CASE TokenDeviceCode(c, g)
    <3>1. call'[c] = [step |-> "poll", g |-> g, who |-> grants[g].who, token |-> grants[g].token,
                      status |-> grants[g].status, polled |-> grants[g].polled]
          /\ grants[g].kind = "device_code"
      BY <2>2 DEF TokenDeviceCode, Asks, LoginTypeOK
    <3> QED  BY <1>1, <1>3, <3>1 DEF CallerFits, GrantFits
  <2> QED  BY <2>1, <2>2
<1>5. LoginTypeOK'  BY <1>1 DEF LoginTypeOK
<1>6. c \notin People  BY NobodyAssumption
<1> QED  BY <1>1, <1>2, <1>4, <1>5, <1>6, LoginGoes

LEMMA LoginPolls ==
  ASSUME LoginTypeOK, LoginInv, NEW c \in Callers, MarkPolled(c)
  PROVE  LoginTypeOK' /\ LoginInv'
<1> DEFINE r == call[c]
<1>0. CallerFits(c) /\ r.step = "poll" /\ UNCHANGED <<tokens, login>>
  BY DEF LoginInv, MarkPolled
<1>1. r.g \in DOMAIN grants /\ {"step", "g", "who", "token", "status", "polled"} \subseteq DOMAIN r
  BY <1>0 DEF CallerFits
<1>2. /\ grants' \in Seq(Grant) /\ DOMAIN grants' = DOMAIN grants
      /\ \A g \in DOMAIN grants :
            /\ grants'[g].kind = grants[g].kind /\ grants'[g].who = grants[g].who
            /\ grants'[g].token = grants[g].token /\ grants'[g].status = grants[g].status
  <2>1. CASE grants' = grants  BY <2>1 DEF LoginTypeOK
  <2>2. CASE grants' = [grants EXCEPT ![r.g].polled = "just"]
    <3>1. \A g \in DOMAIN grants : grants[g] \in Grant  BY LoginFields
    <3>2. \A v \in Grant : [v EXCEPT !.polled = "just"] \in Grant  BY DEF Grant
    <3> QED  BY <1>1, <2>2, <3>1, <3>2 DEF LoginTypeOK, Grant
  <2> QED  BY <2>1, <2>2 DEF MarkPolled
<1>3. CASE call' = [call EXCEPT ![c] = Idle]
  <2>1. \A k \in Callers \cup People : call'[k] \in {call[k], Idle}  BY <1>3 DEF LoginTypeOK
  <2>2. LoginTypeOK'  BY <1>0, <1>2, <1>3 DEF LoginTypeOK
  <2> QED  BY <1>0, <1>2, <2>1, <2>2, LoginGoes
<1>4. CASE r.status = "approved" /\ call' = [call EXCEPT ![c].step = "consume"]
  <2>1. /\ \A k \in (Callers \cup People) \ {c} : call'[k] = call[k]
        /\ call'[c] = [r EXCEPT !.step = "consume"] /\ DOMAIN call' = DOMAIN call
    BY <1>4 DEF LoginTypeOK
  <2>2. /\ call'[c].step = "consume" /\ DOMAIN call'[c] = DOMAIN r /\ call'[c].g = r.g
        /\ call'[c].token = r.token /\ call'[c].who = r.who
    BY <1>1, <2>1
  <2>3. CallerFits(c)'  BY <1>0, <1>2, <1>4, <2>2 DEF CallerFits
  <2>4. LoginTypeOK'  BY <1>0, <1>2, <2>1 DEF LoginTypeOK
  <2>5. c \notin People  BY NobodyAssumption
  <2> QED  BY <1>0, <1>2, <2>1, <2>2, <2>3, <2>4, <2>5, LoginGoes
<1> QED  BY <1>3, <1>4 DEF MarkPolled, Step, Ends

\* A token is minted for a consent that is still to be bound.
LEMMA LoginMints ==
  ASSUME LoginTypeOK, LoginInv, NEW x \in People, MintForApproval(x)
  PROVE  LoginTypeOK' /\ LoginInv'
<1>1. CASE Ends(x) /\ UNCHANGED <<tokens, login>>
  BY <1>1, LoginEnds DEF MintForApproval, Ends
<1>2. CASE /\ CreateToken(x)
           /\ call' = [call EXCEPT ![x].step = "approve", ![x].token = Len(tokens) + 1]
  <2> DEFINE m == Append(login.minted, x)
  <2>0. PICK n \in Nat : n = Len(tokens) + 1  BY LoginFields
  <2>1. /\ m \in Seq(People) /\ DOMAIN m = DOMAIN login.minted \cup {n}
        /\ n \notin DOMAIN login.minted /\ m[n] = x
        /\ \A t \in DOMAIN login.minted : m[t] = login.minted[t]
        /\ tokens' \in Seq(People \cup {Nobody}) /\ Len(tokens') = Len(m)
    BY <1>2, <2>0, TokenMinted DEF CreateToken
  <2>2. grants' = grants /\ login' = [login EXCEPT !.minted = m]
    BY <1>2 DEF MintForApproval, CreateToken
  <2> HIDE DEF m
  <2>3. /\ login' \in Books /\ login'.consent = login.consent /\ login'.approved = login.approved
        /\ login'.handed = login.handed /\ login'.minted = m
    BY <2>1, <2>2 DEF LoginTypeOK, Books
  <2>4. PersonFits(x) /\ call[x].step = "mint"  BY DEF LoginInv, MintForApproval
  <2>5. /\ DOMAIN call' = DOMAIN call
        /\ \A k \in (Callers \cup People) \ {x} : call'[k] = call[k]
        /\ call'[x] = [call[x] EXCEPT !.step = "approve", !.token = n]
    BY <1>2, <2>0 DEF LoginTypeOK
  <2>6. /\ DOMAIN call'[x] = DOMAIN call[x] /\ call'[x].step = "approve" /\ call'[x].token = n
        /\ call'[x].g = call[x].g /\ call'[x].who = call[x].who
    BY <2>4, <2>5 DEF PersonFits
  <2>7. LoginTypeOK'  BY <2>1, <2>2, <2>3, <2>5 DEF LoginTypeOK
  <2>8. Later  BY <2>1, <2>2, <2>3 DEF Later
  <2>9. n # 0 /\ \A g \in DOMAIN grants : grants[g].token # n
    <3>1. n # 0  BY <2>0, LoginFields
    <3>2. ASSUME NEW g \in DOMAIN grants, grants[g].token = n  PROVE FALSE
      <4>1. GrantFits(g) /\ grants[g] \in Grant  BY LoginFields DEF LoginInv
      <4>2. grants[g].token \in DOMAIN login.minted
        BY <3>1, <3>2, <4>1 DEF GrantFits, Grant
      <4> QED  BY <2>1, <3>2, <4>2
    <3> QED  BY <3>1, <3>2
  <2>10. \A h \in login.handed : h[2] # n  BY <2>1 DEF LoginInv, HandedFits
  <2>11. Unbound(n)' /\ n \in DOMAIN m  BY <2>1, <2>2, <2>3, <2>9, <2>10 DEF Unbound
  <2>12. \A g \in DOMAIN grants' : GrantFits(g)'
    <3> SUFFICES ASSUME NEW g \in DOMAIN grants  PROVE GrantFits(g)'  BY <2>2
    <3>1. GrantFits(g)  BY DEF LoginInv
    <3> QED  BY <2>1, <2>2, <2>3, <3>1 DEF GrantFits
  <2>13. ASSUME NEW y \in People, y # x, call[y].step = "approve"
         PROVE  Unbound(call[y].token)' /\ call[y].token # n
    <3>1. Unbound(call[y].token)  BY <2>13 DEF LoginInv, PersonFits
    <3>2. call'[y] = call[y]  BY <2>5, <2>13
    <3> QED  BY <2>1, <2>2, <2>3, <3>1, <3>2 DEF Unbound
  <2>14. ASSUME NEW y \in People  PROVE PersonFits(y)'
    <3>1. CASE y = x
      BY <2>1, <2>2, <2>3, <2>4, <2>6, <2>11, <3>1 DEF PersonFits
    <3>2. CASE y # x
      <4>1. call'[y] = call[y]  BY <2>5, <3>2
      <4> QED  BY <2>8, <2>13, <3>2, <4>1, PersonKept
    <3> QED  BY <3>1, <3>2
  <2>15. \A y, z \in People :
            call'[y].step = "approve" /\ call'[z].step = "approve" /\ call'[y].token = call'[z].token => y = z
    <3>1. \A y \in People \ {x} : call'[y] = call[y] /\ (call[y].step = "approve" => call[y].token # n)
      BY <2>5, <2>13
    <3>2. \A y, z \in People \ {x} :
             call[y].step = "approve" /\ call[z].step = "approve" /\ call[y].token = call[z].token => y = z
      BY DEF LoginInv
    <3> QED  BY <2>6, <3>1, <3>2
  <2>16. x \notin Callers  BY NobodyAssumption
  <2>17. ASSUME NEW c \in Callers  PROVE CallerFits(c)'
    <3>1. CallerFits(c) /\ \A k \in Callers : call'[k] = call[k]  BY <2>5, <2>16 DEF LoginInv
    <3>2. call[c].step = "mint" =>
            /\ \A h \in login'.handed : h[1] # call[c].g
            /\ \A k \in Callers : call'[k].step = "mint" /\ call'[k].g = call[c].g => k = c
      BY <2>3, <3>1 DEF CallerFits
    <3> QED  BY <2>8, <3>1, <3>2, CallerKept
  <2>18. \A h \in login'.handed : HandedFits(h)'
    BY <2>2, <2>3, <2>8, HandedKept
  <2> QED  BY <2>2, <2>3, <2>7, <2>12, <2>14, <2>15, <2>17, <2>18 DEF LoginInv, Binds
<1> QED  BY <1>1, <1>2 DEF MintForApproval

\* A pending grant is bound: to the token minted for this consent, and to no
\* other, for it is pending no more.
LEMMA LoginApproves ==
  ASSUME LoginTypeOK, LoginInv, NEW x \in People, ApproveDevice(x)
  PROVE  LoginTypeOK' /\ LoginInv'
<1>1. CASE UNCHANGED <<grants, login>>
  BY <1>1, LoginEnds DEF ApproveDevice, Ends
<1>2. CASE ~(UNCHANGED <<grants, login>>)
  <2>1. PersonFits(x) /\ call[x].step = "approve"  BY DEF LoginInv, ApproveDevice
  <2>2. PICK g \in DOMAIN grants : g = call[x].g  BY <2>1 DEF PersonFits
  <2>3. PICK t \in DOMAIN login.minted : t = call[x].token  BY <2>1 DEF PersonFits, Unbound
  <2>4. /\ grants[g].kind = "device_code" /\ <<g, x>> \in login.consent
        /\ Unbound(t) /\ login.minted[t] = x /\ t # 0 /\ t \in Nat /\ g \in Nat
    BY <2>1, <2>2, <2>3, LoginFields DEF PersonFits
  <2>5. /\ grants[g].status = "pending" /\ UNCHANGED tokens
        /\ grants' = [grants EXCEPT ![g].status = "approved", ![g].who = x, ![g].token = t]
        /\ login' = [login EXCEPT !.approved = @ \cup {<<g, x>>}]
        /\ call' = [call EXCEPT ![x] = Idle]
    BY <1>2, <2>2, <2>3 DEF ApproveDevice, Bindable, Ends
  <2>6. grants[g].token = 0
    <3>1. GrantFits(g)  BY DEF LoginInv
    <3> QED  BY <2>4, <2>5, <3>1 DEF GrantFits
  <2>7. /\ grants' \in Seq(Grant) /\ DOMAIN grants' = DOMAIN grants
        /\ \A f \in DOMAIN grants : f # g => grants'[f] = grants[f]
        /\ grants'[g].kind = "device_code" /\ grants'[g].status = "approved"
        /\ grants'[g].who = x /\ grants'[g].token = t
    <3>1. grants[g] \in Grant /\ grants \in Seq(Grant)  BY LoginFields DEF LoginTypeOK
    <3> DEFINE v == [grants[g] EXCEPT !.status = "approved", !.who = x, !.token = t]
    <3>2. /\ v \in Grant /\ v.kind = grants[g].kind /\ v.status = "approved" /\ v.who = x
          /\ v.token = t
      BY <2>4, <3>1 DEF Grant
    <3>3. grants' = [grants EXCEPT ![g] = v]  BY <2>5, <3>1
    <3> HIDE DEF v
    <3> QED  BY <2>4, <3>1, <3>2, <3>3
  <2>8. /\ login' \in Books /\ login'.consent = login.consent
        /\ login'.approved = login.approved \cup {<<g, x>>}
        /\ login'.handed = login.handed /\ login'.minted = login.minted
    <3>1. login \in Books /\ login.approved \cup {<<g, x>>} \in SUBSET (Nat \X People)
      BY <2>4 DEF LoginTypeOK, Books
    <3> QED  BY <2>5, <3>1 DEF Books
  <2>9. /\ DOMAIN call' = DOMAIN call /\ call'[x] = Idle
        /\ \A k \in (Callers \cup People) \ {x} : call'[k] = call[k]
    BY <2>5 DEF LoginTypeOK
  <2>10. LoginTypeOK'  BY <2>5, <2>7, <2>8, <2>9 DEF LoginTypeOK
  <2>11. Later  BY <2>4, <2>5, <2>6, <2>7, <2>8 DEF Later
  <2>12. ASSUME NEW f \in DOMAIN grants'  PROVE GrantFits(f)'
    <3>1. CASE f = g  BY <2>3, <2>4, <2>7, <2>8, <3>1 DEF GrantFits
    <3>2. CASE f # g
      <4>1. GrantFits(f) /\ grants'[f] = grants[f]  BY <2>7, <3>2 DEF LoginInv
      <4> QED  BY <2>8, <4>1 DEF GrantFits
    <3> QED  BY <3>1, <3>2
  <2>13. \A f, h \in DOMAIN grants' :
            grants'[f].token = grants'[h].token /\ grants'[f].token # 0 => f = h
    BY <2>4, <2>7 DEF LoginInv, Unbound
  <2>14. ASSUME NEW a \in login'.approved
         PROVE  a[1] \in DOMAIN grants' /\ Binds(a[1])' /\ grants'[a[1]].who = a[2]
    <3>1. CASE a = <<g, x>>  BY <2>4, <2>7, <3>1 DEF Binds
    <3>2. CASE a \in login.approved
      <4>1. a[1] \in DOMAIN grants /\ Binds(a[1]) /\ grants[a[1]].who = a[2]  BY <3>2 DEF LoginInv
      <4>2. a[1] # g  BY <2>6, <4>1 DEF Binds
      <4> QED  BY <2>7, <4>1, <4>2 DEF Binds
    <3> QED  BY <2>8, <3>1, <3>2
  <2>15. ASSUME NEW y \in People  PROVE PersonFits(y)'
    <3>1. CASE y = x  BY <2>9, <3>1 DEF PersonFits, Idle
    <3>2. CASE y # x
      <4>1. call'[y] = call[y]  BY <2>9, <3>2
      <4>2. ASSUME call[y].step = "approve"  PROVE Unbound(call[y].token)'
        <5>1. Unbound(call[y].token) /\ call[y].token # t
          BY <2>1, <2>3, <3>2, <4>2 DEF LoginInv, PersonFits
        <5> QED  BY <2>7, <2>8, <4>1, <5>1 DEF Unbound
      <4> QED  BY <2>11, <4>1, <4>2, PersonKept
    <3> QED  BY <3>1, <3>2
  <2>16. \A y, z \in People :
            call'[y].step = "approve" /\ call'[z].step = "approve" /\ call'[y].token = call'[z].token => y = z
    BY <2>9 DEF LoginInv, Idle
  <2>17. x \notin Callers  BY NobodyAssumption
  <2>18. ASSUME NEW c \in Callers  PROVE CallerFits(c)'
    <3>1. CallerFits(c) /\ \A k \in Callers : call'[k] = call[k]  BY <2>9, <2>17 DEF LoginInv
    <3>2. call[c].step = "mint" =>
            /\ \A h \in login'.handed : h[1] # call[c].g
            /\ \A k \in Callers : call'[k].step = "mint" /\ call'[k].g = call[c].g => k = c
      BY <2>8, <3>1 DEF CallerFits
    <3> QED  BY <2>11, <3>1, <3>2, CallerKept
  <2>19. ASSUME NEW h \in login'.handed  PROVE HandedFits(h)'
    <3>1. h \in login.handed /\ h[2] # t  BY <2>4, <2>8 DEF Unbound
    <3> QED  BY <2>7, <2>11, <3>1, HandedKept
  <2> QED
    BY <2>8, <2>10, <2>12, <2>13, <2>14, <2>15, <2>16, <2>18, <2>19 DEF LoginInv
<1> QED  BY <1>1, <1>2

\* A grant is consumed once: by a code, whose token is still to be minted, or
\* by a poll, which hands out the token of the grant.
LEMMA LoginConsumes ==
  ASSUME LoginTypeOK, LoginInv, NEW c \in Callers, Consume(c)
  PROVE  LoginTypeOK' /\ LoginInv'
<1>1. CASE Ends(c) /\ UNCHANGED <<grants, login>>
  BY <1>1, LoginEnds DEF Consume, Ends
<1>2. CASE ~(Ends(c) /\ UNCHANGED <<grants, login>>)
  <2>1. CallerFits(c) /\ call[c].step = "consume"  BY DEF LoginInv, Consume
  <2>2. PICK g \in DOMAIN grants : g = call[c].g  BY <2>1 DEF CallerFits
  <2>3. /\ grants[g].status = "approved" /\ UNCHANGED tokens
        /\ grants' = [grants EXCEPT ![g].status = "consumed"]
        /\ IF call[c].token = 0 THEN Step(c, "mint") /\ login' = login
           ELSE Ends(c) /\ HandOut(c, call[c].token)
    BY <1>2, <2>2 DEF Consume, Spendable
  <2>4. /\ grants' \in Seq(Grant) /\ DOMAIN grants' = DOMAIN grants
        /\ \A f \in DOMAIN grants : f # g => grants'[f] = grants[f]
        /\ grants'[g].kind = grants[g].kind /\ grants'[g].status = "consumed"
        /\ grants'[g].who = grants[g].who /\ grants'[g].token = grants[g].token
    <3>1. grants[g] \in Grant /\ grants \in Seq(Grant)  BY LoginFields DEF LoginTypeOK
    <3> DEFINE v == [grants[g] EXCEPT !.status = "consumed"]
    <3>2. /\ v \in Grant /\ v.kind = grants[g].kind /\ v.status = "consumed"
          /\ v.who = grants[g].who /\ v.token = grants[g].token
      BY <3>1 DEF Grant
    <3>3. grants' = [grants EXCEPT ![g] = v]  BY <2>3, <3>1
    <3> HIDE DEF v
    <3> QED  BY <3>1, <3>2, <3>3
  <2>5. GrantFits(g)  BY DEF LoginInv
  <2>6. \A h \in login.handed : h[1] # g  BY <2>3 DEF LoginInv, HandedFits
  <2>7. \A k \in Callers : call[k].step = "mint" => call[k].g # g
    BY <2>3 DEF LoginInv, CallerFits
  <2>8. c \notin People  BY NobodyAssumption
  <2>9. ASSUME login'.minted = login.minted, login'.consent = login.consent,
               login'.approved = login.approved
        PROVE  /\ Later /\ \A f \in DOMAIN grants' : GrantFits(f)'
               /\ \A f, e \in DOMAIN grants' :
                     grants'[f].token = grants'[e].token /\ grants'[f].token # 0 => f = e
               /\ \A a \in login'.approved :
                     a[1] \in DOMAIN grants' /\ Binds(a[1])' /\ grants'[a[1]].who = a[2]
    <3>1. Later  BY <2>3, <2>4, <2>9 DEF Later
    <3>2. ASSUME NEW f \in DOMAIN grants'  PROVE GrantFits(f)'
      <4>1. GrantFits(f)  BY <2>4 DEF LoginInv
      <4>2. grants'[f].status # grants[f].status => f = g  BY <2>4
      <4>3. grants'[f].kind = grants[f].kind /\ grants'[f].who = grants[f].who
            /\ grants'[f].token = grants[f].token
        BY <2>4
      <4> QED  BY <2>3, <2>4, <2>5, <2>9, <4>1, <4>2, <4>3 DEF GrantFits
    <3>3. \A f, e \in DOMAIN grants' :
             grants'[f].token = grants'[e].token /\ grants'[f].token # 0 => f = e
      <4>1. \A f \in DOMAIN grants : grants'[f].token = grants[f].token  BY <2>4
      <4> QED  BY <2>4, <4>1 DEF LoginInv
    <3>4. \A a \in login'.approved :
             a[1] \in DOMAIN grants' /\ Binds(a[1])' /\ grants'[a[1]].who = a[2]
      <4>1. \A f \in DOMAIN grants : /\ grants'[f].token = grants[f].token
                                    /\ grants'[f].kind = grants[f].kind /\ grants'[f].who = grants[f].who
        BY <2>4
      <4> QED  BY <2>4, <2>9, <4>1 DEF LoginInv, Binds
    <3> QED  BY <3>1, <3>2, <3>3, <3>4
  <2>10. \A h \in login.handed, f \in DOMAIN grants' :
            f \in DOMAIN grants /\ grants'[f].token = grants[f].token
    BY <2>4
  <2>11. CASE call[c].token = 0
    <3>1. login' = login /\ call' = [call EXCEPT ![c].step = "mint"]  BY <2>3, <2>11 DEF Step
    <3>2. /\ DOMAIN call' = DOMAIN call
          /\ \A k \in (Callers \cup People) \ {c} : call'[k] = call[k]
          /\ call'[c] = [call[c] EXCEPT !.step = "mint"]
      BY <3>1 DEF LoginTypeOK
    <3>3. /\ DOMAIN call'[c] = DOMAIN call[c] /\ call'[c].step = "mint"
          /\ call'[c].g = g /\ call'[c].who = call[c].who
      BY <2>1, <2>2, <3>2 DEF CallerFits
    <3>4. LoginTypeOK'  BY <2>3, <2>4, <3>1, <3>2 DEF LoginTypeOK
    <3>5. grants[g].kind = "auth_code" /\ call[c].who = grants[g].who
      BY <2>1, <2>2, <2>11 DEF CallerFits
    <3>6. ASSUME NEW k \in Callers  PROVE CallerFits(k)'
      <4>1. CASE k = c
        BY <2>1, <2>2, <2>4, <2>6, <2>7, <3>1, <3>2, <3>3, <3>5, <4>1 DEF CallerFits
      <4>2. CASE k # c
        <5>1. call'[k] = call[k] /\ CallerFits(k)  BY <3>2, <4>2 DEF LoginInv
        <5>2. call[k].step = "mint" =>
                /\ \A h \in login'.handed : h[1] # call[k].g
                /\ \A j \in Callers : call'[j].step = "mint" /\ call'[j].g = call[k].g => j = k
          BY <2>7, <3>1, <3>2, <3>3, <5>1 DEF CallerFits
        <5> QED  BY <2>9, <3>1, <5>1, <5>2, CallerKept
      <4> QED  BY <4>1, <4>2
    <3>7. ASSUME NEW x \in People  PROVE PersonFits(x)'
      <4>1. call'[x] = call[x] /\ PersonFits(x)  BY <2>8, <3>2 DEF LoginInv
      <4>2. call[x].step = "approve" => Unbound(call[x].token)'
        BY <2>4, <3>1, <4>1 DEF PersonFits, Unbound
      <4> QED  BY <2>9, <3>1, <4>1, <4>2, PersonKept
    <3>8. \A h \in login'.handed : HandedFits(h)'  BY <2>9, <2>10, <3>1, HandedKept
    <3>9. \A x, y \in People :
             call'[x].step = "approve" /\ call'[y].step = "approve" /\ call'[x].token = call'[y].token => x = y
      BY <2>8, <3>2 DEF LoginInv
    <3>10. \A h, k \in login'.handed : h[1] = k[1] \/ h[2] = k[2] => h = k
      BY <3>1 DEF LoginInv
    <3> QED  BY <2>9, <3>1, <3>4, <3>6, <3>7, <3>8, <3>9, <3>10 DEF LoginInv
  <2>12. CASE call[c].token # 0
    <3>1. PICK t \in DOMAIN login.minted : t = call[c].token /\ t = grants[g].token /\ t # 0
      BY <2>1, <2>2, <2>5, <2>12 DEF CallerFits, GrantFits
    <3>2. grants[g].kind = "device_code" /\ login.minted[t] = grants[g].who
      BY <2>1, <2>2, <2>5, <2>12, <3>1 DEF CallerFits, GrantFits
    <3>3. call' = [call EXCEPT ![c] = Idle]
          /\ login' = [login EXCEPT !.handed = @ \cup {<<g, t, c>>}]
      BY <2>2, <2>3, <2>12, <3>1 DEF Ends, HandOut
    <3>4. /\ login' \in Books /\ login'.consent = login.consent /\ login'.approved = login.approved
          /\ login'.handed = login.handed \cup {<<g, t, c>>} /\ login'.minted = login.minted
      <4>1. g \in Nat /\ t \in Nat  BY LoginFields
      <4>2. login \in Books /\ login.handed \cup {<<g, t, c>>} \in SUBSET (Nat \X Nat \X Callers)
        BY <4>1 DEF LoginTypeOK, Books
      <4> QED  BY <3>3, <4>2 DEF Books
    <3>5. /\ DOMAIN call' = DOMAIN call /\ call'[c] = Idle
          /\ \A k \in (Callers \cup People) \ {c} : call'[k] = call[k]
      BY <3>3 DEF LoginTypeOK
    <3>6. LoginTypeOK'  BY <2>3, <2>4, <3>4, <3>5 DEF LoginTypeOK
    <3>7. ASSUME NEW k \in Callers  PROVE CallerFits(k)'
      <4>1. CASE k = c  BY <3>5, <4>1 DEF CallerFits, Idle
      <4>2. CASE k # c
        <5>1. call'[k] = call[k] /\ CallerFits(k)  BY <3>5, <4>2 DEF LoginInv
        <5>2. call[k].step = "mint" =>
                /\ \A h \in login'.handed : h[1] # call[k].g
                /\ \A j \in Callers : call'[j].step = "mint" /\ call'[j].g = call[k].g => j = k
          BY <2>7, <3>4, <3>5, <5>1 DEF CallerFits, Idle
        <5> QED  BY <2>9, <3>4, <5>1, <5>2, CallerKept
      <4> QED  BY <4>1, <4>2
    <3>8. ASSUME NEW x \in People  PROVE PersonFits(x)'
      <4>1. call'[x] = call[x] /\ PersonFits(x)  BY <2>8, <3>5 DEF LoginInv
      <4>2. call[x].step = "approve" => Unbound(call[x].token)'
        BY <2>4, <3>1, <3>4, <4>1 DEF PersonFits, Unbound
      <4> QED  BY <2>9, <3>4, <4>1, <4>2, PersonKept
    <3>9. ASSUME NEW h \in login.handed  PROVE h[2] # t
      <4>1. HandedFits(h) /\ h[1] # g  BY <2>6 DEF LoginInv
      <4>2. h[1] \in DOMAIN grants /\ grants[h[1]] \in Grant  BY <4>1, LoginFields DEF HandedFits
      <4>3. \A f \in DOMAIN grants : grants[f].token = t => f = g  BY <3>1 DEF LoginInv
      <4> QED  BY <3>1, <4>1, <4>2, <4>3 DEF HandedFits
    <3>10. ASSUME NEW h \in login'.handed  PROVE HandedFits(h)'
      <4>1. CASE h \in login.handed  BY <2>9, <2>10, <3>4, <4>1, HandedKept
      <4>2. CASE h = <<g, t, c>>
        <5>1. h[1] = g /\ h[2] = t  BY <4>2
        <5> QED  BY <2>4, <3>1, <3>2, <3>4, <5>1 DEF HandedFits
      <4> QED  BY <3>4, <4>1, <4>2
    <3>11. \A x, y \in People :
             call'[x].step = "approve" /\ call'[y].step = "approve" /\ call'[x].token = call'[y].token => x = y
      BY <2>8, <3>5 DEF LoginInv
    <3>12. ASSUME NEW h \in login'.handed, NEW k \in login'.handed, h[1] = k[1] \/ h[2] = k[2]
           PROVE  h = k
      <4>1. CASE h \in login.handed /\ k \in login.handed  BY <3>12, <4>1 DEF LoginInv
      <4>2. CASE h = <<g, t, c>> /\ k \in login.handed
        <5>1. h[1] = g /\ h[2] = t  BY <4>2
        <5> QED  BY <2>6, <3>9, <3>12, <4>2, <5>1
      <4>3. CASE k = <<g, t, c>> /\ h \in login.handed
        <5>1. k[1] = g /\ k[2] = t  BY <4>3
        <5> QED  BY <2>6, <3>9, <3>12, <4>3, <5>1
      <4> QED  BY <3>4, <4>1, <4>2, <4>3
    <3> QED  BY <2>9, <3>4, <3>6, <3>7, <3>8, <3>10, <3>11, <3>12 DEF LoginInv
  <2> QED  BY <2>11, <2>12
<1> QED  BY <1>1, <1>2

\* The token of a code is minted and handed out at once.
LEMMA LoginHands ==
  ASSUME LoginTypeOK, LoginInv, NEW c \in Callers, MintForCode(c)
  PROVE  LoginTypeOK' /\ LoginInv'
<1>1. CASE UNCHANGED <<tokens, login>>
  BY <1>1, LoginEnds DEF MintForCode, Ends
<1>2. CASE ~(UNCHANGED <<tokens, login>>)
  <2>1. CallerFits(c) /\ call[c].step = "mint"  BY DEF LoginInv, MintForCode
  <2>2. PICK g \in DOMAIN grants : g = call[c].g  BY <2>1 DEF CallerFits
  <2>3. /\ grants[g].kind = "auth_code" /\ grants[g].who = call[c].who
        /\ grants[g].status \in {"consumed", "gone"} /\ \A h \in login.handed : h[1] # g
        /\ \A k \in Callers : call[k].step = "mint" /\ call[k].g = g => k = c
    BY <2>1, <2>2 DEF CallerFits
  <2>4. GrantFits(g) /\ <<g, grants[g].who>> \in login.consent  BY <2>3 DEF LoginInv, GrantFits
  <2>5. PICK x \in People : x = grants[g].who  BY <2>4, LoginFields
  <2> DEFINE m == Append(login.minted, x)
  <2>6. PICK n \in Nat : n = Len(tokens) + 1  BY LoginFields
  <2>7. /\ tokens' = Append(tokens, x) /\ grants' = grants /\ call' = [call EXCEPT ![c] = Idle]
        /\ login' = [login EXCEPT !.minted = m, !.handed = @ \cup {<<g, n, c>>}]
    BY <1>2, <2>2, <2>3, <2>5, <2>6 DEF MintForCode, Ends
  <2>8. /\ m \in Seq(People) /\ DOMAIN m = DOMAIN login.minted \cup {n}
        /\ n \notin DOMAIN login.minted /\ m[n] = x
        /\ \A t \in DOMAIN login.minted : m[t] = login.minted[t]
        /\ tokens' \in Seq(People \cup {Nobody}) /\ Len(tokens') = Len(m)
    BY <2>6, <2>7, TokenMinted
  <2> HIDE DEF m
  <2>9. /\ login' \in Books /\ login'.consent = login.consent /\ login'.approved = login.approved
        /\ login'.handed = login.handed \cup {<<g, n, c>>} /\ login'.minted = m
    <3>1. g \in Nat  BY LoginFields
    <3>2. login \in Books /\ login.handed \cup {<<g, n, c>>} \in SUBSET (Nat \X Nat \X Callers)
      BY <3>1 DEF LoginTypeOK, Books
    <3> QED  BY <2>7, <2>8, <3>2 DEF Books
  <2>10. /\ DOMAIN call' = DOMAIN call /\ call'[c] = Idle
         /\ \A k \in (Callers \cup People) \ {c} : call'[k] = call[k]
    BY <2>7 DEF LoginTypeOK
  <2>11. LoginTypeOK'  BY <2>7, <2>8, <2>9, <2>10 DEF LoginTypeOK
  <2>12. Later  BY <2>7, <2>8, <2>9 DEF Later
  <2>13. n # 0 /\ \A f \in DOMAIN grants : grants[f].token # n
    <3>1. n # 0  BY <2>6, LoginFields
    <3>2. ASSUME NEW f \in DOMAIN grants, grants[f].token = n  PROVE FALSE
      <4>1. GrantFits(f) /\ grants[f] \in Grant  BY LoginFields DEF LoginInv
      <4>2. grants[f].token \in DOMAIN login.minted
        BY <3>1, <3>2, <4>1 DEF GrantFits, Grant
      <4> QED  BY <2>8, <3>2, <4>2
    <3> QED  BY <3>1, <3>2
  <2>14. \A h \in login.handed : h[2] # n /\ h[1] # g
    BY <2>3, <2>8 DEF LoginInv, HandedFits
  <2>15. ASSUME NEW f \in DOMAIN grants'  PROVE GrantFits(f)'
    <3>1. GrantFits(f)  BY <2>7 DEF LoginInv
    <3> QED  BY <2>7, <2>8, <2>9, <3>1 DEF GrantFits
  <2>16. c \notin People  BY NobodyAssumption
  <2>17. ASSUME NEW y \in People  PROVE PersonFits(y)'
    <3>1. call'[y] = call[y] /\ PersonFits(y)  BY <2>10, <2>16 DEF LoginInv
    <3>2. ASSUME call[y].step = "approve"  PROVE Unbound(call[y].token)'
      <4>1. Unbound(call[y].token)  BY <3>1, <3>2 DEF PersonFits
      <4>2. call[y].token # n  BY <2>8, <4>1 DEF Unbound
      <4> QED  BY <2>7, <2>8, <2>9, <3>1, <4>1, <4>2 DEF Unbound
    <3> QED  BY <2>12, <3>1, <3>2, PersonKept
  <2>18. \A y, z \in People :
            call'[y].step = "approve" /\ call'[z].step = "approve" /\ call'[y].token = call'[z].token => y = z
    BY <2>10, <2>16 DEF LoginInv
  <2>19. ASSUME NEW k \in Callers  PROVE CallerFits(k)'
    <3>1. CASE k = c  BY <2>10, <3>1 DEF CallerFits, Idle
    <3>2. CASE k # c
      <4>1. call'[k] = call[k] /\ CallerFits(k)  BY <2>10, <3>2 DEF LoginInv
      <4>2. call[k].step = "mint" =>
              /\ \A h \in login'.handed : h[1] # call[k].g
              /\ \A j \in Callers : call'[j].step = "mint" /\ call'[j].g = call[k].g => j = k
        BY <2>3, <2>9, <2>10, <3>2, <4>1 DEF CallerFits, Idle
      <4> QED  BY <2>12, <4>1, <4>2, CallerKept
    <3> QED  BY <3>1, <3>2
  <2>20. ASSUME NEW h \in login'.handed  PROVE HandedFits(h)'
    <3>1. CASE h \in login.handed  BY <2>7, <2>12, <3>1, HandedKept
    <3>2. CASE h = <<g, n, c>>
      <4>1. h[1] = g /\ h[2] = n  BY <3>2
      <4> QED  BY <2>3, <2>5, <2>7, <2>8, <2>9, <2>13, <4>1 DEF HandedFits
    <3> QED  BY <2>9, <3>1, <3>2
  <2>21. ASSUME NEW h \in login'.handed, NEW k \in login'.handed, h[1] = k[1] \/ h[2] = k[2]
         PROVE  h = k
    <3>1. CASE h \in login.handed /\ k \in login.handed  BY <2>21, <3>1 DEF LoginInv
    <3>2. CASE h = <<g, n, c>> /\ k \in login.handed
      <4>1. h[1] = g /\ h[2] = n  BY <3>2
      <4> QED  BY <2>14, <2>21, <3>2, <4>1
    <3>3. CASE k = <<g, n, c>> /\ h \in login.handed
      <4>1. k[1] = g /\ k[2] = n  BY <3>3
      <4> QED  BY <2>14, <2>21, <3>3, <4>1
    <3> QED  BY <2>9, <3>1, <3>2, <3>3
  <2> QED
    BY <2>7, <2>9, <2>11, <2>15, <2>17, <2>18, <2>19, <2>20, <2>21 DEF LoginInv, Binds
<1> QED  BY <1>1, <1>2

LEMMA LoginTimes ==
  ASSUME LoginTypeOK, LoginInv, NEW g \in DOMAIN grants,
         PollInterval(g) \/ ExpireGrant(g) \/ SweepGrant(g)
  PROVE  LoginTypeOK' /\ LoginInv'
<1>1. grants[g] \in Grant /\ grants \in Seq(Grant)  BY LoginFields DEF LoginTypeOK
<1>2. PICK v \in Grant :
         /\ grants' = [grants EXCEPT ![g] = v] /\ v.kind = grants[g].kind /\ v.who = grants[g].who
         /\ v.token = grants[g].token /\ v.status \in {grants[g].status, "gone"}
  <2>1. CASE PollInterval(g)
    <3>1. [grants[g] EXCEPT !.polled = "earlier"] \in Grant  BY <1>1 DEF Grant
    <3> QED  BY <1>1, <2>1, <3>1 DEF PollInterval, Grant
  <2>2. CASE ExpireGrant(g)
    <3>1. [grants[g] EXCEPT !.late = TRUE] \in Grant  BY <1>1 DEF Grant
    <3> QED  BY <1>1, <2>2, <3>1 DEF ExpireGrant, Grant
  <2>3. CASE SweepGrant(g)
    <3>1. [grants[g] EXCEPT !.status = "gone"] \in Grant  BY <1>1 DEF Grant
    <3> QED  BY <1>1, <2>3, <3>1 DEF SweepGrant, Grant
  <2> QED  BY <2>1, <2>2, <2>3
<1>3. /\ grants' \in Seq(Grant) /\ DOMAIN grants' = DOMAIN grants /\ grants'[g] = v
      /\ \A f \in DOMAIN grants : f # g => grants'[f] = grants[f]
  BY <1>1, <1>2
<1>4. UNCHANGED <<tokens, call, login>>  BY DEF PollInterval, ExpireGrant, SweepGrant
<1>5. LoginTypeOK'  BY <1>3, <1>4 DEF LoginTypeOK
<1> QED  BY <1>2, <1>3, <1>4, <1>5, LoginGoes

\* What the other operations of an account mean for its logins: nothing, but
\* that tokens go with the account.
LEMMA LoginAside ==
  ASSUME LoginTypeOK, LoginInv, UNCHANGED <<grants, call, login>>,
         tokens' = tokens \/ \E x : tokens' = TokensLeft(x)
  PROVE  LoginTypeOK' /\ LoginInv'
<1>1. tokens' \in Seq(People \cup {Nobody}) /\ Len(tokens') = Len(tokens)
  BY DEF LoginTypeOK, TokensLeft
<1>2. LoginTypeOK'  BY <1>1 DEF LoginTypeOK
<1> QED  BY <1>2, LoginGoes

LEMMA LoginBystanders ==
  ASSUME LoginTypeOK, LoginInv,
         \/ \E i \in Installs : Work(i) \/ User(i) \/ Mishaps(i)
         \/ \E x \in People : SweepAttachments(x)
         \/ ExpirePairing \/ InstallGatekeeper
  PROVE  LoginTypeOK' /\ LoginInv'
<1>1. CASE UNCHANGED otherLogin  BY <1>1, LoginAside DEF otherLogin
<1>2. ASSUME NEW i \in Installs, Work(i)  PROVE UNCHANGED otherLogin
  <2>1. CASE Serve(i)
    BY <2>1 DEF Serve, Admit, CreateAccount, ClaimSuperuser, StoreBlob, ConsumeNonce, PurgeDevice,
                DropDevice, CreateDevice, StorePrekeys, IssueSession, OnlyServer
  <2>2. CASE Save(i)
    BY <2>2 DEF Save, SaveIdentity, SaveDeviceAccount, SavePrekeys, UploadOneTimeKyber
  <2> QED
    BY <1>2, <2>1, <2>2
    DEF Work, SubmitGenesis, SubmitUpdate, Register, RequestReplace, RequestLink, Request,
        IssueChallenge, IssueToken, SendBundle, AwaitLink, Tombstone, Wipe
<1>3. ASSUME NEW i \in Installs, User(i) \/ Mishaps(i),
             ~LeaveServer(i), ~DeleteIdentity(i, TRUE), ~DeleteIdentity(i, FALSE)
      PROVE  UNCHANGED otherLogin
  BY <1>3 DEF User, Mishaps, Start, Recover, CreatePairing, AcceptPairing, Prepare, Attach,
              SubmitUpdate, UploadOneTimeKyber, Exit, Lose, DropRequest, TimeOut
<1>4. ASSUME NEW i \in Installs, LeaveServer(i) \/ DeleteIdentity(i, TRUE) \/ DeleteIdentity(i, FALSE)
      PROVE  LoginTypeOK' /\ LoginInv'
  <2>1. CASE DeleteAccount(Of[i])  BY <2>1, LoginAside DEF DeleteAccount
  <2> QED  BY <1>1, <1>4, <2>1 DEF LeaveServer, DeleteIdentity
<1>5. ASSUME NEW x \in People, SweepAttachments(x)  PROVE UNCHANGED otherLogin
  BY <1>5 DEF SweepAttachments
<1>6. ExpirePairing \/ InstallGatekeeper => UNCHANGED otherLogin
  BY DEF ExpirePairing, InstallGatekeeper
<1> QED  BY <1>1, <1>2, <1>3, <1>4, <1>5, <1>6

LEMMA LoginSteps ==
  ASSUME LoginTypeOK, LoginInv, Logins
  PROVE  LoginTypeOK' /\ LoginInv'
<1>1. Consenting \subseteq People  BY InstallsAssumption DEF Consenting
<1>2. CASE BeginLogin  BY <1>1, <1>2, LoginDeviceCode, LoginAuthorize DEF BeginLogin
<1>3. CASE Consent  BY <1>1, <1>3, LoginConsents DEF Consent
<1>4. CASE Collect  BY <1>4, LoginReads DEF Collect
<1>5. CASE LoginMishap  BY <1>5, LoginEnds DEF LoginMishap, HangUp, Ends
<1>6. CASE LoginGoesOn
  BY <1>6, LoginMints, LoginApproves, LoginPolls, LoginConsumes, LoginHands, LoginTimes
  DEF LoginGoesOn, LoginWork, LoginTime
<1> QED  BY <1>2, <1>3, <1>4, <1>5, <1>6 DEF Logins

LEMMA LoginBegins == Init => LoginTypeOK /\ LoginInv
<1> SUFFICES ASSUME Init  PROVE LoginTypeOK /\ LoginInv  OBVIOUS
<1>1. /\ grants = <<>> /\ tokens = <<>> /\ call = [c \in Callers \cup People |-> Idle]
      /\ login = [consent |-> {}, approved |-> {}, handed |-> {}, minted |-> <<>>]
  BY DEF Init, LoginInit
<1>2. LoginTypeOK  BY <1>1 DEF LoginTypeOK, Books
<1>3. LoginInv  BY <1>1 DEF LoginInv, PersonFits, CallerFits, Idle
<1> QED  BY <1>2, <1>3

LEMMA LoginNext ==
  ASSUME LoginTypeOK, LoginInv, [Next]_vars
  PROVE  LoginTypeOK' /\ LoginInv'
<1>1. CASE Next  BY <1>1, LoginBystanders, LoginSteps DEF Next
<1>2. CASE UNCHANGED vars  BY <1>2, LoginAside DEF vars, loginVars
<1> QED  BY <1>1, <1>2

\* A grant names one account, which has consented, and yields one token to one
\* caller, however consents, polls, redemptions, expiry, hang-ups and the end of
\* the account interleave (routes/oauth.rs).
THEOREM LoginsAreConsented == AccountsSpec => [](LoginTypeOK /\ ConsentedLogins)
<1>1. LoginTypeOK /\ LoginInv => ConsentedLogins
  <2> SUFFICES ASSUME LoginTypeOK, LoginInv  PROVE ConsentedLogins  OBVIOUS
  <2>1. ASSUME NEW a \in login.approved, NEW b \in login.approved, a[1] = b[1]  PROVE a = b
    <3>1. a \in Nat \X People /\ b \in Nat \X People  BY LoginFields
    <3>2. a[2] = b[2]  BY <2>1 DEF LoginInv
    <3> QED  BY <2>1, <3>1, <3>2
  <2>2. ASSUME NEW h \in login.handed
        PROVE  LET x == login.minted[h[2]] IN
               /\ <<h[1], x>> \in login.consent
               /\ grants[h[1]].kind = "device_code" => <<h[1], x>> \in login.approved
    <3>1. HandedFits(h) /\ GrantFits(h[1]) /\ grants[h[1]] \in Grant
      BY LoginFields DEF LoginInv, HandedFits
    <3>2. h[2] # 0  BY <3>1, LoginFields DEF HandedFits
    <3> QED  BY <3>1, <3>2 DEF HandedFits, GrantFits, Grant
  <2>3. \A h, k \in login.handed : h[1] = k[1] \/ h[2] = k[2] => h = k  BY DEF LoginInv
  <2> QED  BY <2>1, <2>2, <2>3 DEF ConsentedLogins
<1> QED  BY <1>1, LoginBegins, LoginNext, PTL DEF AccountsSpec

----------------------------------------------------------------------------
(* Invites and the superuser's claim                                        *)

AdmissionInv ==
    /\ {"spent", "claimed"} \subseteq DOMAIN admission /\ "by" \in DOMAIN past
    /\ \A x, y \in admission.claimed : x = y
    /\ \A b \in past.by : b[2] \in Invites => b[2] \in admission.spent
    /\ \A a, b \in past.by : a[2] \in Invites /\ b[2] = a[2] => a = b

\* Steps that admit nobody.
LEMMA AdmissionKept ==
  ASSUME AdmissionInv, admission'.spent = admission.spent, past'.by = past.by,
         admission'.claimed \subseteq admission.claimed,
         DOMAIN admission' = DOMAIN admission, DOMAIN past' = DOMAIN past
  PROVE  AdmissionInv'
BY DEF AdmissionInv

LEMMA AdmissionAdmits ==
  ASSUME AdmissionInv, NEW i \in Installs, Admit(i)
  PROVE  AdmissionInv'
<1>1. CASE VerifyDid(i) /\ GateRegistration(job[i].sent.cred)
  <2>1. PICK cred : cred = job[i].sent.cred  OBVIOUS
  <2>2. PICK x : x = Of[i]  OBVIOUS
  <2>3. /\ admission' = [admission EXCEPT !.spent = @ \cup (Invites \cap {cred})]
        /\ past' = [past EXCEPT !.by = @ \cup {<<x, cred>>}]
    BY <1>1, <2>1, <2>2 DEF Admit
  <2>4. cred \in Invites => cred \notin admission.spent
    BY <1>1, <2>1 DEF GateRegistration, Redeemable, Invites
  <2>5. /\ admission'.claimed = admission.claimed
        /\ admission'.spent = admission.spent \cup (Invites \cap {cred})
        /\ past'.by = past.by \cup {<<x, cred>>}
        /\ DOMAIN admission' = DOMAIN admission /\ DOMAIN past' = DOMAIN past
    BY <2>3 DEF AdmissionInv
  <2>6. <<x, cred>>[2] = cred  OBVIOUS
  <2>7. \A a, b \in past'.by : a[2] \in Invites /\ b[2] = a[2] => a = b
    BY <2>4, <2>5, <2>6 DEF AdmissionInv
  <2>8. \A b \in past'.by : b[2] \in Invites => b[2] \in admission'.spent
    BY <2>5, <2>6 DEF AdmissionInv
  <2> QED  BY <2>5, <2>7, <2>8 DEF AdmissionInv
<1>2. CASE ~(VerifyDid(i) /\ GateRegistration(job[i].sent.cred))
  <2>1. Refuse(i) /\ UNCHANGED admission  BY <1>2 DEF Admit
  <2>2. past'.by = past.by /\ DOMAIN past' = DOMAIN past  BY <2>1 DEF Refuse, Stuck, AdmissionInv
  <2> QED  BY <2>1, <2>2, AdmissionKept DEF AdmissionInv
<1> QED  BY <1>1, <1>2

\* Whoever looks a second time and sees no claim is the first.
LEMMA AdmissionClaims ==
  ASSUME AdmissionInv, NEW i \in Installs, ClaimSuperuser(i)
  PROVE  AdmissionInv'
<1>1. CASE Unclaimed
  <2>1. PICK x : x = Of[i]  OBVIOUS
  <2>2. /\ admission' = [admission EXCEPT !.claimed = @ \cup {x}] /\ past' = past
        /\ admission.claimed = {}
    BY <1>1, <2>1 DEF ClaimSuperuser, Unclaimed, Then
  <2> QED  BY <2>2 DEF AdmissionInv
<1>2. CASE ~Unclaimed
  <2>1. Refuse(i) /\ UNCHANGED admission  BY <1>2 DEF ClaimSuperuser
  <2>2. past'.by = past.by /\ DOMAIN past' = DOMAIN past  BY <2>1 DEF Refuse, Stuck, AdmissionInv
  <2> QED  BY <2>1, <2>2, AdmissionKept DEF AdmissionInv
<1> QED  BY <1>1, <1>2

LEMMA AdmissionServes ==
  ASSUME AdmissionInv, NEW i \in Installs, Serve(i)
  PROVE  AdmissionInv'
<1>1. CASE Admit(i)  BY <1>1, AdmissionAdmits
<1>2. CASE ClaimSuperuser(i)  BY <1>2, AdmissionClaims
<1>3. ASSUME UNCHANGED admission, past' = past \/ Refuse(i) \/ \E v : past' = [Mishap EXCEPT !.replaced = v]
      PROVE  AdmissionInv'
  <2>1. past'.by = past.by /\ DOMAIN past' = DOMAIN past
    BY <1>3 DEF Refuse, Stuck, Mishap, AdmissionInv
  <2> QED  BY <1>3, <2>1, AdmissionKept DEF AdmissionInv
<1>4. CASE CreateAccount(i) \/ StoreBlob(i) \/ ConsumeNonce(i) \/ PurgeDevice(i)
  BY <1>3, <1>4 DEF CreateAccount, StoreBlob, ConsumeNonce, PurgeDevice, Then
<1>5. CASE DropDevice(i)
  BY <1>3, <1>5 DEF DropDevice
<1>6. CASE CreateDevice(i) \/ StorePrekeys(i) \/ IssueSession(i)
  BY <1>3, <1>6 DEF CreateDevice, StorePrekeys, IssueSession, Then
<1> QED  BY <1>1, <1>2, <1>4, <1>5, <1>6 DEF Serve

LEMMA AdmissionLeaves ==
  ASSUME AdmissionInv, NEW x, DeleteAccount(x),
         past'.by = past.by, DOMAIN past' = DOMAIN past
  PROVE  AdmissionInv'
<1>1. admission' = [admission EXCEPT !.claimed = @ \ {x}]  BY DEF DeleteAccount
<1>2. /\ admission'.spent = admission.spent /\ admission'.claimed \subseteq admission.claimed
      /\ DOMAIN admission' = DOMAIN admission
  BY <1>1 DEF AdmissionInv
<1> QED  BY <1>2, AdmissionKept

LEMMA AdmissionInstalls ==
  ASSUME AdmissionInv, NEW i \in Installs, Work(i) \/ User(i) \/ Mishaps(i), ~Serve(i)
  PROVE  AdmissionInv'
<1>1. ASSUME UNCHANGED admission, past'.by = past.by /\ DOMAIN past' = DOMAIN past
      PROVE  AdmissionInv'
  BY <1>1, AdmissionKept DEF AdmissionInv
<1>2. ASSUME NEW v, past' = [past EXCEPT !.attempts = v]
      PROVE  past'.by = past.by /\ DOMAIN past' = DOMAIN past
  BY <1>2 DEF AdmissionInv
<1>3. CASE \E cred \in bound.creds : Prepare(i, cred)
  BY <1>1, <1>2, <1>3 DEF Prepare, serverVars
<1>4. CASE Recover(i) \/ AwaitLink(i)
  BY <1>1, <1>2, <1>4 DEF Recover, AwaitLink, serverVars
<1>5. CASE LeaveServer(i)
  <2>1. past'.by = past.by /\ DOMAIN past' = DOMAIN past
    BY <1>5 DEF LeaveServer, Mishap, AdmissionInv
  <2> QED  BY <1>5, <2>1, AdmissionLeaves DEF LeaveServer
<1>6. ASSUME NEW a, DeleteIdentity(i, a)  PROVE AdmissionInv'
  <2>1. past'.by = past.by /\ DOMAIN past' = DOMAIN past
    BY <1>6 DEF DeleteIdentity, Mishap, AdmissionInv
  <2>2. CASE DeleteAccount(Of[i])  BY <2>1, <2>2, AdmissionLeaves
  <2>3. CASE UNCHANGED serverVars  BY <1>1, <2>1, <2>3 DEF serverVars
  <2> QED  BY <1>6, <2>2, <2>3 DEF DeleteIdentity
<1>7. CASE UNCHANGED <<admission, past>>  BY <1>1, <1>7
<1>8. CASE Save(i) \/ UploadOneTimeKyber(i, FALSE)
  <2>1. UNCHANGED admission /\ (past' = past \/ past' = Mishap)
    BY <1>8 DEF Save, SaveIdentity, SaveDeviceAccount, SavePrekeys, UploadOneTimeKyber, serverVars
  <2>2. past'.by = past.by /\ DOMAIN past' = DOMAIN past  BY <2>1 DEF Mishap, AdmissionInv
  <2> QED  BY <1>1, <2>1, <2>2
<1>9. CASE SubmitUpdate(i, TRUE) \/ SubmitUpdate(i, FALSE) \/ DropRequest(i) \/ TimeOut(i)
  <2>1. UNCHANGED admission /\ (past' = past \/ \E xs : past' = Stuck(xs))
    BY <1>9 DEF SubmitUpdate, DropRequest, TimeOut, serverVars
  <2>2. past'.by = past.by /\ DOMAIN past' = DOMAIN past  BY <2>1 DEF Stuck, AdmissionInv
  <2> QED  BY <1>1, <2>1, <2>2
<1>10. CASE Exit(i)
  <2>1. UNCHANGED admission /\ (past' = past \/ \E v : past' = [Stuck(Unsaved(i)) EXCEPT !.torn = v])
    BY <1>10 DEF Exit, serverVars
  <2>2. past'.by = past.by /\ DOMAIN past' = DOMAIN past  BY <2>1 DEF Stuck, AdmissionInv
  <2> QED  BY <1>1, <2>1, <2>2
<1>11. CASE Work(i) /\ ~(AwaitLink(i) \/ Save(i) \/ SubmitUpdate(i, TRUE) \/ Serve(i))
  BY <1>7, <1>11 DEF Work, SubmitGenesis, Register, RequestReplace, RequestLink, Request,
        IssueChallenge, IssueToken, SendBundle, Tombstone, Wipe, serverVars
<1>12. CASE Start(i) \/ CreatePairing(i) \/ AcceptPairing(i) \/ Attach(i) \/ Lose(i)
  BY <1>7, <1>12 DEF Start, CreatePairing, AcceptPairing, Attach, Lose, serverVars
<1> QED
  BY <1>3, <1>4, <1>5, <1>6, <1>8, <1>9, <1>10, <1>11, <1>12 DEF Work, User, Mishaps

LEMMA AdmissionSteps ==
  ASSUME AdmissionInv, [Next]_vars
  PROVE  AdmissionInv'
<1>1. CASE \E i \in Installs : Work(i) \/ User(i) \/ Mishaps(i)
  <2>1. PICK i \in Installs : Work(i) \/ User(i) \/ Mishaps(i)  BY <1>1
  <2> QED  BY <2>1, AdmissionServes, AdmissionInstalls
<1>2. CASE UNCHANGED <<admission, past>>  BY <1>2, AdmissionKept DEF AdmissionInv
<1>3. CASE \E x \in People : SweepAttachments(x)
  BY <1>2, <1>3 DEF SweepAttachments, serverVars
<1>4. CASE ExpirePairing
  <2>1. UNCHANGED admission /\ past' = Mishap  BY <1>4 DEF ExpirePairing, serverVars
  <2> QED  BY <2>1, AdmissionKept DEF AdmissionInv, Mishap
<1>5. CASE InstallGatekeeper
  <2>1. admission' = [admission EXCEPT !.gatekeeper = TRUE] /\ past' = past
    BY <1>5 DEF InstallGatekeeper
  <2> QED  BY <2>1, AdmissionKept DEF AdmissionInv
<1>6. CASE Logins
  BY <1>2, <1>6 DEF Logins, BeginLogin, Consent, Collect, LoginMishap, LoginGoesOn, otherAccount
<1>7. CASE UNCHANGED vars  BY <1>2, <1>7 DEF vars, otherAccount
<1> QED  BY <1>1, <1>3, <1>4, <1>5, <1>6, <1>7 DEF Next

\* One invite admits one identity, and one identity claims the superuser's
\* Project, however registrations interleave and whatever is dropped between
\* their statements (try_redeem, link_bot_if_unclaimed).
THEOREM AdmittedOnceAlways == AccountsSpec => []AdmittedOnce
<1>1. Init => AdmissionInv  BY DEF Init, AdmissionInv
<1>2. AdmissionInv => AdmittedOnce
  <2> SUFFICES ASSUME AdmissionInv  PROVE AdmittedOnce  OBVIOUS
  <2>1. CASE admission.claimed = {}
    <3>1. Cardinality(admission.claimed) = 0  BY <2>1, FS_EmptySet
    <3> QED  BY <3>1 DEF AdmissionInv, AdmittedOnce
  <2>2. CASE admission.claimed # {}
    <3>1. PICK x : admission.claimed = {x}  BY <2>2 DEF AdmissionInv
    <3>2. Cardinality(admission.claimed) = 1  BY <3>1, FS_Singleton
    <3> QED  BY <3>2 DEF AdmissionInv, AdmittedOnce
  <2> QED  BY <2>1, <2>2
<1> QED  BY <1>1, <1>2, AdmissionSteps, PTL DEF AccountsSpec

----------------------------------------------------------------------------
(* Departure                                                                *)

(* What belongs to an account: rows without gaps, and nothing that outlives *)
(* the account.                                                             *)
RowsOK ==
    /\ \E R : rows \in Seq(R)
    /\ \A k \in DOMAIN rows : {"of", "live"} \subseteq DOMAIN rows[k]
Dead(x) ==
    /\ RowsOf(x) = {}
    /\ \A t \in DOMAIN tokens : tokens[t] # x
    /\ \A g \in DOMAIN grants : Kept(g) => grants[g].who # x
RowsInv ==
    /\ RowsOK
    /\ \A x \in People \ accounts : Dead(x)
    /\ \A t \in sessions \cup challenges : Live(t[1])

(* An identity that has an account, or had one; an install that is past the *)
(* answer; and a request for a first account, of which an identity in the   *)
(* directory makes one only: its key goes there once.                       *)
Been(x) == x \in accounts \cup past.left
Excused(x) == x \in accounts => \E why \in past.undeleted : why[1] = x
InPcs == {"identity", "device", "prekeys", "upload", "in", "tombstone", "wipe"}
OutPcs == {"off", "new", "pair", "link", "replace", "wait"}
AfterAccount == {"claim", "blob", "purge", "drop", "row", "keys", "session"}
Registering(i) == job[i].step \in {"admit", "account"}
Enters(i) == at[i].pc = "register" \/ Registering(i)

FieldsOK ==
    /\ DOMAIN at = Installs /\ DOMAIN job = Installs /\ DOMAIN store = Installs
    /\ \A i \in Installs : "pc" \in DOMAIN at[i] /\ "step" \in DOMAIN job[i] /\ "num" \in DOMAIN store[i]
    /\ DOMAIN plc = People /\ \A x \in People : "len" \in DOMAIN plc[x] /\ plc[x].len \in 0..3
    /\ {"left", "undeleted"} \subseteq DOMAIN past /\ accounts \subseteq People
InstallFits(i) ==
    LET x == Of[i] IN
    /\ at[i].pc \in InPcs \/ store[i].num # 0 \/ job[i].step \in AfterAccount => Been(x)
    /\ at[i].pc \in {"genesis", "update", "tombstone"} => x \notin Bots
    /\ at[i].pc = "tombstone" => Excused(x)
    /\ Enters(i) /\ x \notin Bots =>
          /\ plc[x].len >= 2 /\ ~Been(x) /\ ~(at[i].pc = "register" /\ Registering(i))
          /\ \A j \in Installs : Of[j] = x /\ Enters(j) => j = i
EntryFits(x) ==
    /\ plc[x].len = 3 => x \notin Bots /\ Been(x) /\ Excused(x)
    /\ Been(x) /\ x \notin Bots => plc[x].len >= 2
EntryInv ==
    /\ FieldsOK
    /\ \A i \in Installs : InstallFits(i)
    /\ \A x \in People : EntryFits(x)

----------------------------------------------------------------------------
(* Lemmas about the rows.                                                   *)

LEMMA RowsDomain ==
  ASSUME RowsOK
  PROVE  DOMAIN rows = 1..Len(rows) /\ Len(rows) \in Nat /\ rows = [k \in 1..Len(rows) |-> rows[k]]
BY DEF RowsOK

LEMMA SeqOfValues ==
  ASSUME NEW n \in Nat, NEW f, f = [k \in 1..n |-> f[k]]
  PROVE  \E R : f \in Seq(R)
<1>1. f \in [1..n -> {f[k] : k \in 1..n}]  BY Zenon
<1>2. f \in Seq({f[k] : k \in 1..n})  BY <1>1
<1> QED  BY <1>2

\* Steps that leave the rows, the tokens and the grants alone.
LEMMA RowsKept ==
  ASSUME RowsInv, UNCHANGED <<rows, tokens, grants>>, accounts \subseteq accounts',
         \A t \in sessions' \cup challenges' : t \in sessions \cup challenges \/ Live(t[1])
  PROVE  RowsInv'
<1>1. RowsOK'  BY DEF RowsInv, RowsOK
<1>2. \A x \in People \ accounts' : Dead(x)'
  BY DEF RowsInv, Dead, RowsOf, Kept
<1>3. \A t \in sessions' \cup challenges' : Live(t[1])'  BY DEF RowsInv, Live
<1> QED  BY <1>1, <1>2, <1>3 DEF RowsInv

\* Steps that change a row and leave it to its owner.
LEMMA RowChanged ==
  ASSUME RowsInv, NEW pk, NEW r, rows' = [rows EXCEPT ![pk] = r],
         DOMAIN r = DOMAIN rows[pk], r.of = rows[pk].of, r.live \in {rows[pk].live, FALSE},
         UNCHANGED <<accounts, tokens, grants>>,
         sessions' \cup challenges' \subseteq sessions \cup challenges,
         r.live # rows[pk].live => \A t \in sessions' \cup challenges' : t[1] # pk
  PROVE  RowsInv'
<1>1. CASE pk \notin DOMAIN rows
  <2>1. rows' = rows  BY <1>1, RowsDomain DEF RowsInv
  <2> QED  BY <2>1, RowsKept
<1>2. CASE pk \in DOMAIN rows
  <2>1. /\ DOMAIN rows' = DOMAIN rows /\ rows'[pk] = r
        /\ \A k \in DOMAIN rows : k # pk => rows'[k] = rows[k]
    BY <1>2
  <2>2. RowsOK'
    <3>1. rows' = [k \in 1..Len(rows) |-> rows'[k]] /\ Len(rows) \in Nat
      BY <2>1, RowsDomain DEF RowsInv
    <3>2. \E R : rows' \in Seq(R)
      <4>1. PICK f : f = rows'  OBVIOUS
      <4>2. PICK n \in Nat : n = Len(rows)  BY <3>1
      <4>3. f = [k \in 1..n |-> f[k]]  BY <3>1, <4>1, <4>2
      <4> QED  BY <4>1, <4>3, SeqOfValues
    <3>3. \A k \in DOMAIN rows' : {"of", "live"} \subseteq DOMAIN rows'[k]
      BY <1>2, <2>1 DEF RowsInv, RowsOK
    <3> QED  BY <3>2, <3>3 DEF RowsOK
  <2>3. \A x \in People \ accounts' : Dead(x)'
    <3>1. \A x : RowsOf(x)' \subseteq RowsOf(x)  BY <1>2, <2>1 DEF RowsOf
    <3>2. \A x \in People \ accounts' : Dead(x)  BY DEF RowsInv
    <3> QED  BY <3>1, <3>2 DEF Dead, Kept
  <2>4. \A t \in sessions' \cup challenges' : Live(t[1])'
    BY <1>2, <2>1 DEF RowsInv, Live
  <2> QED  BY <2>2, <2>3, <2>4 DEF RowsInv
<1> QED  BY <1>1, <1>2

LEMMA RowAppended ==
  ASSUME RowsInv, NEW r, rows' = Append(rows, r), {"of", "live"} \subseteq DOMAIN r,
         r.of \in accounts, UNCHANGED <<accounts, tokens, grants, sessions, challenges>>
  PROVE  RowsInv'
<1>1. PICK n \in Nat : n = Len(rows)  BY RowsDomain DEF RowsInv
<1>2. DOMAIN rows = 1..n
  BY <1>1, RowsDomain DEF RowsInv, RowsOK
<1>3. /\ DOMAIN rows' = 1..n + 1 /\ rows'[n + 1] = r /\ \E R : rows' \in Seq(R)
      /\ \A k \in DOMAIN rows : rows'[k] = rows[k]
  <2>1. PICK s : s = rows  OBVIOUS
  <2>2. PICK S : s \in Seq(S) /\ r \in S
    <3>1. PICK R : s \in Seq(R)  BY <2>1 DEF RowsInv, RowsOK
    <3>2. s \in Seq(R \cup {r})  BY <3>1
    <3> QED  BY <3>2
  <2>3. /\ Append(s, r) \in Seq(S) /\ Len(Append(s, r)) = Len(s) + 1
        /\ \A k \in 1..Len(s) : Append(s, r)[k] = s[k]
        /\ Append(s, r)[Len(s) + 1] = r
    BY <2>2, AppendProperties
  <2>4. rows' \in Seq(S) /\ Len(rows') = n + 1 /\ rows'[n + 1] = r
        /\ \A k \in 1..n : rows'[k] = rows[k]
    BY <1>1, <2>1, <2>3
  <2>5. DOMAIN rows' = 1..n + 1  BY <2>4
  <2> QED  BY <1>2, <2>4, <2>5
<1>4. DOMAIN rows' = DOMAIN rows \cup {n + 1}  BY <1>2, <1>3
<1>5. RowsOK'
  <2>1. \A k \in DOMAIN rows' : {"of", "live"} \subseteq DOMAIN rows'[k]
    BY <1>3, <1>4 DEF RowsInv, RowsOK
  <2> QED  BY <1>3, <2>1 DEF RowsOK
<1>6. ASSUME NEW x \in People \ accounts'  PROVE Dead(x)'
  <2>1. Dead(x) /\ r.of # x  BY <1>6 DEF RowsInv
  <2>2. RowsOf(x)' = {}  BY <1>3, <1>4, <2>1 DEF Dead, RowsOf
  <2> QED  BY <2>1, <2>2 DEF Dead, Kept
<1>7. \A t \in sessions' \cup challenges' : Live(t[1])'  BY <1>3, <1>4 DEF RowsInv, Live
<1> QED  BY <1>5, <1>6, <1>7 DEF RowsInv

\* One transaction takes the account and all that is its own; a grant would
\* have held it fast.
LEMMA RowsLeave ==
  ASSUME RowsInv, NEW x \in People, DeleteAccount(x), ~Held(x)
  PROVE  RowsInv'
<1>1. DOMAIN rows' = DOMAIN rows
      /\ \A k \in DOMAIN rows : rows'[k] = IF k \in RowsOf(x) THEN [rows[k] EXCEPT !.live = FALSE] ELSE rows[k]
  BY DEF DeleteAccount
<1>2. \A k \in DOMAIN rows : DOMAIN rows'[k] = DOMAIN rows[k] /\ rows'[k].of = rows[k].of
  BY <1>1 DEF RowsInv, RowsOK
<1>3. \A k \in DOMAIN rows : rows'[k].live <=> rows[k].live /\ rows[k].of # x
  BY <1>1 DEF RowsInv, RowsOK, RowsOf
<1>4. RowsOK'
  <2>1. rows' = [k \in 1..Len(rows) |-> rows'[k]] /\ Len(rows) \in Nat
    BY RowsDomain DEF RowsInv, DeleteAccount
  <2>2. \E R : rows' \in Seq(R)  BY <2>1, SeqOfValues
  <2> QED  BY <1>1, <1>2, <2>2 DEF RowsInv, RowsOK
<1>5. ASSUME NEW y \in People \ accounts'  PROVE Dead(y)'
  <2>1. tokens' = [t \in DOMAIN tokens |-> IF tokens[t] = x THEN Nobody ELSE tokens[t]]
        /\ grants' = grants /\ accounts' = accounts \ {x}
    BY DEF DeleteAccount, TokensLeft
  <2>2. CASE y = x
    <3>1. RowsOf(x)' = {}  BY <1>1, <1>3 DEF RowsOf
    <3>2. \A t \in DOMAIN tokens' : tokens'[t] # x  BY <2>1, NobodyAssumption
    <3>3. \A g \in DOMAIN grants' : Kept(g)' => grants'[g].who # x  BY <2>1 DEF Held, Kept
    <3> QED  BY <2>2, <3>1, <3>2, <3>3 DEF Dead
  <2>3. CASE y # x
    <3>1. Dead(y)  BY <2>1, <2>3 DEF RowsInv
    <3>2. RowsOf(y)' = {}  BY <1>1, <1>2, <1>3, <3>1 DEF RowsOf, Dead
    <3>3. \A t \in DOMAIN tokens' : tokens'[t] # y  BY <2>1, <3>1, NobodyAssumption DEF Dead
    <3> QED  BY <2>1, <3>1, <3>2, <3>3 DEF Dead, Kept
  <2> QED  BY <2>2, <2>3
<1>6. ASSUME NEW t \in sessions' \cup challenges'  PROVE Live(t[1])'
  <2>1. t \in sessions \cup challenges /\ t[1] \notin RowsOf(x)  BY <1>6 DEF DeleteAccount
  <2>2. Live(t[1])  BY <2>1 DEF RowsInv
  <2> QED  BY <1>1, <2>1, <2>2 DEF Live
<1> QED  BY <1>4, <1>5, <1>6 DEF RowsInv

LEMMA RowsServed ==
  ASSUME RowsInv, NEW i \in Installs, Serve(i)
  PROVE  RowsInv'
<1>1. UNCHANGED <<tokens, grants>>
  BY DEF Serve, Admit, CreateAccount, ClaimSuperuser, StoreBlob, ConsumeNonce, PurgeDevice,
         DropDevice, CreateDevice, StorePrekeys, IssueSession, OnlyServer, otherLogin
<1>2. CASE Admit(i) \/ CreateAccount(i) \/ ClaimSuperuser(i) \/ StoreBlob(i)
  BY <1>1, <1>2, RowsKept DEF Admit, CreateAccount, ClaimSuperuser, StoreBlob
<1>3. CASE ConsumeNonce(i)
  BY <1>1, <1>3, RowsKept DEF ConsumeNonce
<1>4. CASE PurgeDevice(i)
  <2>1. PICK pk : pk = job[i].pk  OBVIOUS
  <2> DEFINE r == [rows[pk] EXCEPT !.keys = FALSE]
  <2>2. /\ rows' = [rows EXCEPT ![pk] = r] /\ UNCHANGED accounts
        /\ sessions' \cup challenges' \subseteq sessions \cup challenges
    BY <1>4, <2>1 DEF PurgeDevice
  <2>3. CASE pk \in DOMAIN rows
    <3>1. DOMAIN r = DOMAIN rows[pk] /\ r.of = rows[pk].of /\ r.live = rows[pk].live
      BY <2>3 DEF RowsInv, RowsOK
    <3> HIDE DEF r
    <3> QED  BY <1>1, <2>2, <3>1, RowChanged
  <2>4. CASE pk \notin DOMAIN rows
    <3>1. rows' = rows  BY <2>2, <2>4, RowsDomain DEF RowsInv
    <3> QED  BY <1>1, <2>2, <3>1, RowsKept
  <2> QED  BY <2>3, <2>4
<1>5. CASE DropDevice(i)
  <2>1. PICK pk : pk = job[i].pk  OBVIOUS
  <2> DEFINE r == [rows[pk] EXCEPT !.live = FALSE]
  <2>2. UNCHANGED <<accounts, challenges, sessions>>  BY <1>5 DEF DropDevice
  <2>3. CASE rows' = rows  BY <1>1, <2>2, <2>3, RowsKept
  <2>4. CASE rows' # rows
    <3>1. rows' = [rows EXCEPT ![pk] = r] /\ \A t \in challenges \cup sessions : t[1] # pk
      BY <1>5, <2>1, <2>4 DEF DropDevice
    <3>2. pk \in DOMAIN rows  BY <2>4, <3>1, RowsDomain DEF RowsInv
    <3>3. DOMAIN r = DOMAIN rows[pk] /\ r.of = rows[pk].of /\ r.live = FALSE
      BY <3>2 DEF RowsInv, RowsOK
    <3> HIDE DEF r
    <3> QED  BY <1>1, <2>2, <3>1, <3>3, RowChanged
  <2> QED  BY <2>3, <2>4
<1>6. CASE CreateDevice(i)
  <2>1. UNCHANGED <<accounts, challenges, sessions>>  BY <1>6 DEF CreateDevice
  <2>2. CASE rows' = rows  BY <1>1, <2>1, <2>2, RowsKept
  <2>3. CASE rows' # rows
    <3> DEFINE r == [of |-> Of[i], by |-> i, num |-> job[i].sent.num, reg |-> job[i].sent.reg,
                     key |-> job[i].sent.key, keys |-> FALSE, live |-> TRUE]
    <3>1. rows' = Append(rows, r) /\ Of[i] \in accounts  BY <1>6, <2>3 DEF CreateDevice
    <3>2. {"of", "live"} \subseteq DOMAIN r /\ r.of = Of[i]  OBVIOUS
    <3> HIDE DEF r
    <3> QED  BY <1>1, <2>1, <3>1, <3>2, RowAppended
  <2> QED  BY <2>2, <2>3
<1>7. CASE StorePrekeys(i)
  <2>1. PICK pk : pk = job[i].pk  OBVIOUS
  <2> DEFINE r == [rows[pk] EXCEPT !.keys = TRUE]
  <2>2. UNCHANGED <<accounts, challenges, sessions>>  BY <1>7 DEF StorePrekeys
  <2>3. CASE rows' = rows  BY <1>1, <2>2, <2>3, RowsKept
  <2>4. CASE rows' # rows
    <3>1. rows' = [rows EXCEPT ![pk] = r] /\ pk \in DOMAIN rows
      BY <1>7, <2>1, <2>4 DEF StorePrekeys, Live
    <3>2. DOMAIN r = DOMAIN rows[pk] /\ r.of = rows[pk].of /\ r.live = rows[pk].live
      BY <3>1 DEF RowsInv, RowsOK
    <3> HIDE DEF r
    <3> QED  BY <1>1, <2>2, <3>1, <3>2, RowChanged
  <2> QED  BY <2>3, <2>4
<1>8. CASE IssueSession(i)
  <2>1. PICK pk : pk = job[i].pk  OBVIOUS
  <2>2. /\ UNCHANGED <<accounts, rows, challenges>>
        /\ sessions' = sessions \/ (Live(pk) /\ sessions' = sessions \cup {<<pk, i>>})
    BY <1>8, <2>1 DEF IssueSession
  <2>3. \A t \in sessions' \cup challenges' : t \in sessions \cup challenges \/ Live(t[1])
    <3>1. <<pk, i>>[1] = pk  OBVIOUS
    <3> QED  BY <2>2, <3>1
  <2> QED  BY <1>1, <2>2, <2>3, RowsKept
<1> QED  BY <1>2, <1>3, <1>4, <1>5, <1>6, <1>7, <1>8 DEF Serve

LEMMA RowsInstalls ==
  ASSUME RowsInv, NEW i \in Installs, Work(i) \/ User(i) \/ Mishaps(i), ~Serve(i)
  PROVE  RowsInv'
<1>1. CASE UNCHANGED <<serverVars, otherLogin>>
  BY <1>1, RowsKept DEF serverVars, otherLogin
<1>2. ASSUME UNCHANGED <<accounts, rows, tokens, grants>>,
             NEW c, Live(c[1]), challenges' = challenges \cup {c}, sessions' = sessions
      PROVE  RowsInv'
  BY <1>2, RowsKept
<1>3. \A x, n : \A pk \in Find(x, n) : Live(pk)  BY DEF Find, RowsOf, Live
<1>4. CASE IssueChallenge(i)
  <2>1. PICK pk \in Find(Of[i], store[i].num) : challenges' = challenges \cup {<<pk, i, "token">>}
    BY <1>4 DEF IssueChallenge
  <2>2. UNCHANGED <<accounts, rows, sessions, tokens, grants>>  BY <1>4 DEF IssueChallenge, otherLogin
  <2>3. Live(<<pk, i, "token">>[1])  BY <1>3
  <2> QED  BY <1>2, <2>1, <2>2, <2>3
<1>5. CASE Recover(i)
  <2>1. PICK pk \in Find(Of[i], LowestNum(Of[i])) : challenges' = challenges \cup {<<pk, i, "replace">>}
    BY <1>5 DEF Recover
  <2>2. UNCHANGED <<accounts, rows, sessions, tokens, grants>>  BY <1>5 DEF Recover, otherLogin
  <2>3. Live(<<pk, i, "replace">>[1])  BY <1>3
  <2> QED  BY <1>2, <2>1, <2>2, <2>3
<1>6. CASE SendBundle(i)
  <2>1. PICK pk \in SenderRow(i) : challenges' = challenges \cup {<<pk, i, "link">>}
    BY <1>6 DEF SendBundle
  <2>2. UNCHANGED <<accounts, rows, sessions, tokens, grants>>  BY <1>6 DEF SendBundle, otherLogin
  <2>3. Live(<<pk, i, "link">>[1])  BY <1>3 DEF SenderRow
  <2> QED  BY <1>2, <2>1, <2>2, <2>3
<1>7. CASE IssueToken(i)
  <2>1. PICK pk : pk = at[i].nonce[1]  OBVIOUS
  <2>2. /\ UNCHANGED <<accounts, rows, tokens, grants>> /\ challenges' \subseteq challenges
        /\ sessions' = sessions \/ (Live(pk) /\ sessions' = sessions \cup {<<pk, i>>})
    BY <1>3, <1>7, <2>1 DEF IssueToken, otherLogin
  <2>3. \A t \in sessions' \cup challenges' : t \in sessions \cup challenges \/ Live(t[1])
    <3>1. <<pk, i>>[1] = pk  OBVIOUS
    <3> QED  BY <2>2, <3>1
  <2> QED  BY <2>2, <2>3, RowsKept
<1>8. Of[i] \in People  BY InstallsAssumption
<1>9. CASE LeaveServer(i)  BY <1>8, <1>9, RowsLeave DEF LeaveServer
<1>10. ASSUME NEW a, DeleteIdentity(i, a)  PROVE RowsInv'
  <2>1. CASE DeleteAccount(Of[i]) /\ ~Held(Of[i])  BY <1>8, <2>1, RowsLeave
  <2> QED  BY <1>1, <1>10, <2>1 DEF DeleteIdentity
<1>11. CASE Work(i) /\ ~IssueChallenge(i) /\ ~IssueToken(i) /\ ~SendBundle(i)
  BY <1>1, <1>11 DEF Work, SubmitGenesis, SubmitUpdate, Register, RequestReplace, RequestLink, Request,
        Save, SaveIdentity, SaveDeviceAccount, SavePrekeys, UploadOneTimeKyber, AwaitLink, Tombstone,
        Wipe
<1>12. CASE (User(i) /\ ~Recover(i) /\ ~LeaveServer(i) /\ ~DeleteIdentity(i, TRUE))
            \/ (Mishaps(i) /\ ~DeleteIdentity(i, FALSE))
  BY <1>1, <1>12 DEF User, Mishaps, Start, Prepare, CreatePairing, AcceptPairing, Attach, SubmitUpdate,
        UploadOneTimeKyber, Exit, Lose, DropRequest, TimeOut
<1> QED  BY <1>4, <1>5, <1>6, <1>7, <1>9, <1>10, <1>11, <1>12 DEF User, Mishaps

\* Tokens and grants name an account that is there.
LEMMA RowsLogins ==
  ASSUME RowsInv, LoginTypeOK, Logins
  PROVE  RowsInv'
<1>1. UNCHANGED <<rows, sessions, challenges, accounts>>
  <2>1. CASE BeginLogin
    BY <2>1 DEF BeginLogin, otherAccount, DeviceAuthorization, AuthorizeCode
  <2>2. CASE Consent  BY <2>2 DEF Consent, otherAccount, DeviceApprove
  <2>3. CASE Collect  BY <2>3 DEF Collect, otherAccount, TokenAuthorizationCode, TokenDeviceCode
  <2>4. CASE LoginMishap  BY <2>4 DEF LoginMishap, otherAccount, HangUp
  <2>5. CASE LoginGoesOn
    BY <2>5 DEF LoginGoesOn, otherAccount, LoginWork, LoginTime, MintForApproval, ApproveDevice,
                MarkPolled, Consume, MintForCode, PollInterval, ExpireGrant, SweepGrant
  <2> QED  BY <2>1, <2>2, <2>3, <2>4, <2>5 DEF Logins
<1>2. RowsOK' /\ \A t \in sessions' \cup challenges' : Live(t[1])'
  BY <1>1 DEF RowsInv, RowsOK, Live
<1>3. ASSUME NEW x \in People \ accounts,
             tokens' = tokens \/ \E y \in accounts : tokens' = Append(tokens, y)
      PROVE  \A t \in DOMAIN tokens' : tokens'[t] # x
  <2>1. \A t \in DOMAIN tokens : tokens[t] # x  BY DEF RowsInv, Dead
  <2>2. CASE tokens' = tokens  BY <2>1, <2>2
  <2>3. ASSUME NEW y \in accounts, tokens' = Append(tokens, y)  PROVE \A t \in DOMAIN tokens' : tokens'[t] # x
    <3>1. PICK S : tokens \in Seq(S) /\ y \in S
      <4>1. tokens \in Seq(People \cup {Nobody} \cup {y})  BY DEF LoginTypeOK
      <4> QED  BY <4>1
    <3>2. /\ DOMAIN tokens' = 1..Len(tokens) + 1 /\ Len(tokens) \in Nat /\ DOMAIN tokens = 1..Len(tokens)
          /\ \A t \in 1..Len(tokens) : tokens'[t] = tokens[t]
          /\ tokens'[Len(tokens) + 1] = y
      <4>1. /\ tokens' \in Seq(S) /\ Len(tokens') = Len(tokens) + 1
            /\ \A t \in 1..Len(tokens) : tokens'[t] = tokens[t]
            /\ tokens'[Len(tokens) + 1] = y
        BY <2>3, <3>1, AppendProperties
      <4> QED  BY <3>1, <4>1
    <3> QED  BY <2>1, <3>2
  <2> QED  BY <1>3, <2>2, <2>3
<1>4. ASSUME UNCHANGED grants,
             tokens' = tokens \/ \E y \in accounts : tokens' = Append(tokens, y)
      PROVE  RowsInv'
  <2>1. \A x \in People \ accounts' : Dead(x)'
    BY <1>1, <1>3, <1>4 DEF RowsInv, Dead, RowsOf, Kept
  <2> QED  BY <1>2, <2>1 DEF RowsInv
<1>5. ASSUME UNCHANGED tokens,
             \A g \in DOMAIN grants' : Kept(g)' =>
                \/ g \in DOMAIN grants /\ Kept(g) /\ grants'[g].who = grants[g].who
                \/ grants'[g].who \in accounts \cup {Nobody}
      PROVE  RowsInv'
  <2>1. ASSUME NEW x \in People \ accounts'  PROVE Dead(x)'
    <3>1. Dead(x) /\ x # Nobody /\ x \notin accounts  BY <1>1, <2>1, NobodyAssumption DEF RowsInv
    <3>2. \A g \in DOMAIN grants' : Kept(g)' => grants'[g].who # x  BY <1>5, <3>1 DEF Dead
    <3>3. RowsOf(x)' = {}  BY <1>1, <3>1 DEF Dead, RowsOf
    <3> QED  BY <1>5, <3>1, <3>2, <3>3 DEF Dead
  <2> QED  BY <1>2, <2>1 DEF RowsInv
<1>6. grants \in Seq(Grant) /\ \A g \in DOMAIN grants : grants[g] \in Grant  BY DEF LoginTypeOK
<1>7. ASSUME NEW r \in Grant, r.who \in accounts \cup {Nobody}, UNCHANGED tokens,
             grants' = Append(grants, r)
      PROVE  RowsInv'
  <2>1. /\ DOMAIN grants' = DOMAIN grants \cup {Len(grants) + 1} /\ grants'[Len(grants) + 1] = r
        /\ \A g \in DOMAIN grants : grants'[g] = grants[g]
    BY <1>6, <1>7
  <2> QED  BY <1>5, <1>7, <2>1 DEF Kept
<1>8. ASSUME NEW g \in DOMAIN grants, NEW r \in Grant, UNCHANGED tokens, Kept(g),
             r.who = grants[g].who \/ r.who \in accounts, grants' = [grants EXCEPT ![g] = r]
      PROVE  RowsInv'
  <2>1. /\ DOMAIN grants' = DOMAIN grants /\ grants'[g] = r
        /\ \A f \in DOMAIN grants : f # g => grants'[f] = grants[f]
    BY <1>6, <1>8
  <2> QED  BY <1>5, <1>8, <2>1 DEF Kept
<1>9. CASE UNCHANGED <<tokens, grants>>  BY <1>4, <1>9
<1>10. CASE Consent \/ Collect \/ LoginMishap
  BY <1>9, <1>10 DEF Consent, DeviceApprove, Collect, TokenAuthorizationCode, TokenDeviceCode,
                     LoginMishap, HangUp
<1>11. CASE BeginLogin
  <2>1. CASE DeviceAuthorization
    <3>1. NewGrant("device_code", Nobody, "pending") \in Grant
          /\ NewGrant("device_code", Nobody, "pending").who = Nobody
      BY DEF NewGrant, Grant
    <3> QED  BY <1>7, <2>1, <3>1 DEF DeviceAuthorization
  <2>2. ASSUME NEW x \in Consenting, AuthorizeCode(x)  PROVE RowsInv'
    <3>1. x \in People  BY InstallsAssumption DEF Consenting
    <3>2. NewGrant("auth_code", x, "approved") \in Grant
          /\ NewGrant("auth_code", x, "approved").who = x
      BY <3>1 DEF NewGrant, Grant
    <3> QED  BY <1>7, <2>2, <3>2 DEF AuthorizeCode
  <2> QED  BY <1>11, <2>1, <2>2 DEF BeginLogin
<1>12. ASSUME NEW x \in People, MintForApproval(x)  PROVE RowsInv'
  BY <1>4, <1>12 DEF MintForApproval, CreateToken
<1>13. ASSUME NEW c, MintForCode(c)  PROVE RowsInv'
  BY <1>4, <1>13 DEF MintForCode
<1>14. ASSUME NEW x \in People, ApproveDevice(x)  PROVE RowsInv'
  <2>1. CASE UNCHANGED grants  BY <1>9, <1>14, <2>1 DEF ApproveDevice
  <2>2. CASE ~(UNCHANGED grants)
    <3>1. PICK g : g = call[x].g  OBVIOUS
    <3>2. PICK t : t = call[x].token  OBVIOUS
    <3>3. /\ grants' = [grants EXCEPT ![g].status = "approved", ![g].who = x, ![g].token = t]
          /\ grants[g].status = "pending" /\ x \in accounts /\ UNCHANGED tokens
      BY <1>14, <2>2, <3>1, <3>2 DEF ApproveDevice, Bindable
    <3>4. g \in DOMAIN grants  BY <1>6, <2>2, <3>3
    <3> DEFINE r == [grants[g] EXCEPT !.status = "approved", !.who = x, !.token = t]
    <3>5. /\ DOMAIN grants' = DOMAIN grants /\ grants'[g] = r
          /\ \A f \in DOMAIN grants : f # g => grants'[f] = grants[f]
      BY <1>6, <3>3, <3>4
    <3>6. r.who = x /\ Kept(g)  BY <1>6, <3>3, <3>4 DEF Grant, Kept
    <3> HIDE DEF r
    <3> QED  BY <1>5, <3>3, <3>5, <3>6 DEF Kept
  <2> QED  BY <2>1, <2>2
<1>15. ASSUME NEW c \in Callers, MarkPolled(c)  PROVE RowsInv'
  <2>1. CASE UNCHANGED grants  BY <1>9, <1>15, <2>1 DEF MarkPolled
  <2>2. CASE ~(UNCHANGED grants)
    <3>1. PICK g : g = call[c].g  OBVIOUS
    <3>2. grants' = [grants EXCEPT ![g].polled = "just"] /\ Kept(g) /\ UNCHANGED tokens
      BY <1>15, <2>2, <3>1 DEF MarkPolled
    <3>3. g \in DOMAIN grants  BY <1>6, <2>2, <3>2
    <3>4. [grants[g] EXCEPT !.polled = "just"] \in Grant
          /\ [grants[g] EXCEPT !.polled = "just"].who = grants[g].who
      BY <1>6, <3>3 DEF Grant
    <3> QED  BY <1>8, <3>2, <3>3, <3>4
  <2> QED  BY <2>1, <2>2
<1>16. ASSUME NEW c \in Callers, Consume(c)  PROVE RowsInv'
  <2>1. CASE UNCHANGED grants  BY <1>9, <1>16, <2>1 DEF Consume
  <2>2. CASE ~(UNCHANGED grants)
    <3>1. PICK g : g = call[c].g  OBVIOUS
    <3>2. /\ grants' = [grants EXCEPT ![g].status = "consumed"] /\ grants[g].status = "approved"
          /\ UNCHANGED tokens
      BY <1>16, <2>2, <3>1 DEF Consume, Spendable
    <3>3. g \in DOMAIN grants /\ Kept(g)  BY <1>6, <2>2, <3>2 DEF Kept
    <3>4. [grants[g] EXCEPT !.status = "consumed"] \in Grant
          /\ [grants[g] EXCEPT !.status = "consumed"].who = grants[g].who
      BY <1>6, <3>3 DEF Grant
    <3> QED  BY <1>8, <3>2, <3>3, <3>4
  <2> QED  BY <2>1, <2>2
<1>17. ASSUME NEW g \in DOMAIN grants, PollInterval(g) \/ ExpireGrant(g) \/ SweepGrant(g)
       PROVE  RowsInv'
  <2>1. CASE PollInterval(g)
    <3>1. DOMAIN grants' = DOMAIN grants
          /\ \A f \in DOMAIN grants : grants'[f].who = grants[f].who /\ grants'[f].status = grants[f].status
      BY <1>6, <2>1 DEF PollInterval, Grant
    <3>2. UNCHANGED tokens  BY <2>1 DEF PollInterval
    <3> QED  BY <1>5, <3>1, <3>2 DEF Kept
  <2>2. CASE ExpireGrant(g)
    <3>1. [grants[g] EXCEPT !.late = TRUE] \in Grant
          /\ [grants[g] EXCEPT !.late = TRUE].who = grants[g].who
      BY <1>6 DEF Grant
    <3> QED  BY <1>8, <2>2, <3>1 DEF ExpireGrant
  <2>3. CASE SweepGrant(g)
    <3>1. [grants[g] EXCEPT !.status = "gone"] \in Grant
          /\ [grants[g] EXCEPT !.status = "gone"].who = grants[g].who
      BY <1>6 DEF Grant
    <3> QED  BY <1>8, <2>3, <3>1 DEF SweepGrant
  <2> QED  BY <1>17, <2>1, <2>2, <2>3
<1>18. CASE LoginGoesOn
  BY <1>12, <1>13, <1>14, <1>15, <1>16, <1>17, <1>18 DEF LoginGoesOn, LoginWork, LoginTime
<1> QED  BY <1>10, <1>11, <1>18 DEF Logins

LEMMA RowsSteps ==
  ASSUME RowsInv, LoginTypeOK, [Next]_vars
  PROVE  RowsInv'
<1>1. CASE \E i \in Installs : Work(i) \/ User(i) \/ Mishaps(i)
  <2>1. PICK i \in Installs : Work(i) \/ User(i) \/ Mishaps(i)  BY <1>1
  <2> QED  BY <2>1, RowsServed, RowsInstalls
<1>2. CASE UNCHANGED <<accounts, rows, sessions, challenges, tokens, grants>>
  BY <1>2, RowsKept
<1>3. CASE (\E x \in People : SweepAttachments(x)) \/ ExpirePairing \/ InstallGatekeeper
  BY <1>2, <1>3 DEF SweepAttachments, ExpirePairing, InstallGatekeeper, serverVars, otherLogin
<1>4. CASE Logins  BY <1>4, RowsLogins
<1>5. CASE UNCHANGED vars  BY <1>2, <1>5 DEF vars, loginVars, otherAccount
<1> QED  BY <1>1, <1>3, <1>4, <1>5 DEF Next

----------------------------------------------------------------------------
(* How requests and installs go on: all but those that enter the directory, *)
(* take up the request for an account and create it.                        *)

PcGoes(i) ==
    \/ at'[i].pc = at[i].pc
    \/ at'[i].pc \in OutPcs
    \/ at'[i].pc \in InPcs \ {"tombstone"} /\ Been(Of[i])
    \/ at'[i].pc = "register" /\ Of[i] \in Bots
    \/ at'[i].pc = "genesis" /\ Of[i] \notin Bots
    \/ at'[i].pc = "update" /\ at[i].pc = "genesis"
    \/ at'[i].pc = "tombstone" /\ Been(Of[i]) /\ Of[i] \notin Bots /\ Excused(Of[i])'
StepGoes(i) ==
    \/ job'[i].step = job[i].step
    \/ job'[i].step \in {"none", "consume"}
    \/ job'[i].step \in AfterAccount /\ Been(Of[i])
    \/ job'[i].step = "account" /\ job[i].step = "admit"
StoreGoes(i) == store'[i].num \in {store[i].num, 0} \/ Been(Of[i])
BookGoes ==
    /\ accounts' \subseteq accounts /\ past.undeleted \subseteq past'.undeleted
    /\ \A x \in People : Been(x)' <=> Been(x)
    /\ \A x \in People :
          /\ plc'[x].len >= plc[x].len
          /\ plc'[x].len = 3 => plc[x].len = 3 \/ (x \notin Bots /\ Been(x) /\ Excused(x)')

LEMMA EntryKept ==
  ASSUME EntryInv, FieldsOK', BookGoes,
         \A i \in Installs : PcGoes(i) /\ StepGoes(i) /\ StoreGoes(i)
  PROVE  EntryInv'
<1>1. ASSUME NEW i \in Installs  PROVE InstallFits(i)'
  <2>1. PICK x \in People : x = Of[i]  BY InstallsAssumption
  <2>2. InstallFits(i) /\ PcGoes(i) /\ StepGoes(i) /\ StoreGoes(i)  BY DEF EntryInv
  <2>3. Been(x)' <=> Been(x)  BY DEF BookGoes
  <2>4. at'[i].pc \in InPcs \/ store'[i].num # 0 \/ job'[i].step \in AfterAccount => Been(x)
    BY <2>1, <2>2 DEF InstallFits, PcGoes, StepGoes, StoreGoes, InPcs, OutPcs, AfterAccount
  <2>5. at'[i].pc \in {"genesis", "update", "tombstone"} => x \notin Bots
    BY <2>1, <2>2 DEF InstallFits, PcGoes, InPcs, OutPcs
  <2>6. at'[i].pc = "tombstone" => Excused(x)'
    BY <2>1, <2>2 DEF InstallFits, PcGoes, InPcs, OutPcs, BookGoes, Excused
  <2>7. ASSUME NEW j \in Installs, Of[j] \notin Bots
        PROVE  /\ at'[j].pc = "register" => at[j].pc = "register"
               /\ Registering(j)' => Registering(j)
    <3>1. PcGoes(j) /\ StepGoes(j)  OBVIOUS
    <3> QED  BY <2>7, <3>1 DEF PcGoes, StepGoes, Registering, InPcs, OutPcs, AfterAccount
  <2>8. Enters(i)' /\ x \notin Bots =>
          /\ plc'[x].len >= 2 /\ ~Been(x)' /\ ~(at'[i].pc = "register" /\ Registering(i)')
          /\ \A j \in Installs : Of[j] = x /\ Enters(j)' => j = i
    <3> SUFFICES ASSUME Enters(i)', x \notin Bots
                 PROVE  /\ plc'[x].len >= 2 /\ ~Been(x)' /\ ~(at'[i].pc = "register" /\ Registering(i)')
                        /\ \A j \in Installs : Of[j] = x /\ Enters(j)' => j = i
      OBVIOUS
    <3>1. Enters(i)  BY <2>1, <2>7 DEF Enters
    <3>2. /\ plc[x].len >= 2 /\ ~Been(x) /\ ~(at[i].pc = "register" /\ Registering(i))
          /\ \A j \in Installs : Of[j] = x /\ Enters(j) => j = i
      BY <2>1, <2>2, <3>1 DEF InstallFits
    <3>3. plc'[x].len >= 2  BY <3>2 DEF BookGoes, EntryInv, FieldsOK
    <3>4. ~(at'[i].pc = "register" /\ Registering(i)')  BY <2>1, <2>7, <3>2
    <3>5. \A j \in Installs : Of[j] = x /\ Enters(j)' => j = i  BY <2>7, <3>2 DEF Enters
    <3> QED  BY <2>3, <3>2, <3>3, <3>4, <3>5
  <2> QED  BY <2>1, <2>3, <2>4, <2>5, <2>6, <2>8 DEF InstallFits
<1>2. ASSUME NEW x \in People  PROVE EntryFits(x)'
  <2>1. EntryFits(x)  BY DEF EntryInv
  <2>2. plc[x].len \in 0..3 /\ plc'[x].len \in 0..3  BY DEF EntryInv, FieldsOK
  <2>3. Excused(x) => Excused(x)'  BY DEF Excused, BookGoes
  <2> QED  BY <2>1, <2>2, <2>3 DEF EntryFits, BookGoes
<1> QED  BY <1>1, <1>2 DEF EntryInv

LEMMA EntryFields ==
  ASSUME EntryInv
  PROVE  /\ FieldsOK /\ \A i \in Installs : InstallFits(i) /\ Of[i] \in People
         /\ \A x \in People : EntryFits(x)
BY InstallsAssumption DEF EntryInv

\* What the server, or a save, does for one install.
LEMMA EntryOne ==
  ASSUME EntryInv, NEW i \in Installs, UNCHANGED <<accounts, plc>>,
         DOMAIN past' = DOMAIN past, past'.left = past.left, past'.undeleted = past.undeleted,
         DOMAIN at' = Installs, DOMAIN job' = Installs, DOMAIN store' = Installs,
         "pc" \in DOMAIN at'[i], "step" \in DOMAIN job'[i], "num" \in DOMAIN store'[i],
         PcGoes(i), StepGoes(i), StoreGoes(i),
         \A j \in Installs \ {i} : at'[j] = at[j] /\ job'[j] = job[j] /\ store'[j] = store[j]
  PROVE  EntryInv'
<1>1. FieldsOK'
  BY EntryFields DEF FieldsOK
<1>2. BookGoes  BY EntryFields DEF BookGoes, Been, FieldsOK
<1>3. \A j \in Installs : PcGoes(j) /\ StepGoes(j) /\ StoreGoes(j)
  <2>1. \A j \in Installs \ {i} : PcGoes(j) /\ StepGoes(j) /\ StoreGoes(j)
    BY DEF PcGoes, StepGoes, StoreGoes
  <2> QED  BY <2>1
<1> QED  BY <1>1, <1>2, <1>3, EntryKept

\* The identity's key goes to the directory once.
LEMMA EntrySubmits ==
  ASSUME EntryInv, NEW i \in Installs, NEW a, SubmitUpdate(i, a)
  PROVE  EntryInv'
<1>1. PICK x \in People : x = Of[i]  BY EntryFields
<1>2. InstallFits(i) /\ at[i].pc = "update" /\ x \notin Bots /\ FieldsOK
  BY <1>1, EntryFields DEF SubmitUpdate, InstallFits
<1>3. UNCHANGED <<accounts, job, store>> /\ DOMAIN at' = Installs
      /\ DOMAIN past' = DOMAIN past /\ past'.left = past.left /\ past'.undeleted = past.undeleted
  BY <1>2 DEF SubmitUpdate, Go, Home, Stuck, serverVars, FieldsOK
<1>4. \A j \in Installs \ {i} : at'[j] = at[j]
  BY <1>2 DEF SubmitUpdate, Go, Home, FieldsOK
<1>5. CASE plc[x].len # 1
  <2>1. at' = Home(i) /\ plc' = plc  BY <1>1, <1>5 DEF SubmitUpdate
  <2>2. at'[i] = [Off EXCEPT !.pc = "new"]  BY <1>2, <2>1 DEF Home, FieldsOK
  <2>3. "pc" \in DOMAIN at'[i] /\ at'[i].pc = "new"  BY <2>2 DEF Off
  <2>4. PcGoes(i) /\ StepGoes(i) /\ StoreGoes(i)
    BY <1>3, <2>3 DEF PcGoes, StepGoes, StoreGoes, OutPcs
  <2> QED  BY <1>2, <1>3, <1>4, <2>1, <2>3, <2>4, EntryOne DEF FieldsOK
<1>6. CASE plc[x].len = 1
  <2>1. plc' = [plc EXCEPT ![x] = [len |-> 2, key |-> at[i].key]]
    BY <1>1, <1>6 DEF SubmitUpdate
  <2>2. /\ DOMAIN plc' = People /\ plc'[x].len = 2 /\ "len" \in DOMAIN plc'[x]
        /\ \A y \in People \ {x} : plc'[y] = plc[y]
    BY <1>2, <2>1 DEF FieldsOK
  <2>3. at'[i].pc \in {"register", "new"} /\ "pc" \in DOMAIN at'[i]
    <3>1. CASE at' = Home(i)
      <4>1. at'[i] = [Off EXCEPT !.pc = "new"]  BY <1>2, <3>1 DEF Home, FieldsOK
      <4> QED  BY <4>1 DEF Off
    <3>2. CASE at' = Go(i, "register")  BY <1>2, <3>2 DEF Go, FieldsOK
    <3> QED  BY <3>1, <3>2 DEF SubmitUpdate
  <2>4. FieldsOK'
    BY <1>2, <1>3, <1>4, <2>2, <2>3 DEF FieldsOK
  <2>5. ~Been(x) /\ \A j \in Installs : Of[j] = x => ~Enters(j)
    BY <1>2, <1>6, EntryFields DEF EntryFits, InstallFits
  <2>6. \A y \in People : Been(y)' <=> Been(y)  BY <1>3 DEF Been
  <2>7. ASSUME NEW j \in Installs  PROVE InstallFits(j)'
    <3>1. InstallFits(j)  BY EntryFields
    <3>2. Registering(j)' <=> Registering(j)  BY <1>3 DEF Registering
    <3>3. \A k \in Installs \ {i} : Enters(k)' <=> Enters(k)  BY <1>3, <1>4 DEF Enters, Registering
    <3>4. \A y : Excused(y) => Excused(y)'  BY <1>3 DEF Excused
    <3>5. CASE j = i
      <4>1. ~Registering(i)  BY <1>1, <2>5 DEF Enters
      <4>2. \A k \in Installs : Of[k] = x /\ Enters(k)' => k = i  BY <2>5, <3>3
      <4>3. store[i].num # 0 \/ job[i].step \in AfterAccount => Been(x)  BY <1>1, <1>2 DEF InstallFits
      <4> QED
        BY <1>1, <1>3, <2>2, <2>3, <2>5, <2>6, <3>2, <3>5, <4>1, <4>2, <4>3 DEF InstallFits, InPcs
    <3>6. CASE j # i
      <4>1. at'[j] = at[j] /\ job'[j] = job[j] /\ store'[j] = store[j]  BY <1>3, <1>4, <3>6
      <4>2. CASE Of[j] = x
        <5>1. ~Enters(j) /\ ~Enters(j)'  BY <2>5, <3>3, <3>6, <4>2
        <5> QED  BY <1>1, <2>6, <3>1, <3>4, <4>1, <4>2, <5>1 DEF InstallFits
      <4>3. CASE Of[j] # x
        <5>1. plc'[Of[j]] = plc[Of[j]]  BY <2>2, <4>3, EntryFields
        <5>2. \A k \in Installs : Of[k] = Of[j] => (Enters(k)' <=> Enters(k))  BY <1>1, <3>3, <4>3
        <5>3. Been(Of[j])' <=> Been(Of[j])  BY <2>6, EntryFields
        <5> QED  BY <3>1, <3>2, <3>4, <4>1, <5>1, <5>2, <5>3 DEF InstallFits
      <4> QED  BY <4>2, <4>3
    <3> QED  BY <3>5, <3>6
  <2>8. ASSUME NEW y \in People  PROVE EntryFits(y)'
    <3>1. EntryFits(y)  BY EntryFields
    <3>2. Excused(y) => Excused(y)'  BY <1>3 DEF Excused
    <3> QED  BY <2>2, <2>6, <3>1, <3>2 DEF EntryFits
  <2> QED  BY <2>4, <2>7, <2>8 DEF EntryInv
<1> QED  BY <1>5, <1>6

\* The request takes over from the install.
LEMMA EntryRequests ==
  ASSUME EntryInv, NEW i \in Installs, Register(i)
  PROVE  EntryInv'
<1>1. PICK x \in People : x = Of[i]  BY EntryFields
<1>2. InstallFits(i) /\ at[i].pc = "register" /\ job[i] = NoJob /\ FieldsOK
  BY EntryFields DEF Register, Request
<1>3. UNCHANGED <<accounts, plc, store, past>>
      /\ at' = [at EXCEPT ![i].pc = "wait"]
      /\ job' = [job EXCEPT ![i] = [step |-> "admit", pk |-> 0, sent |-> at[i]]]
  BY DEF Register, Request, serverVars, Go
<1>4. /\ DOMAIN at' = Installs /\ DOMAIN job' = Installs
      /\ "pc" \in DOMAIN at'[i] /\ at'[i].pc = "wait" /\ "step" \in DOMAIN job'[i] /\ job'[i].step = "admit"
      /\ \A j \in Installs \ {i} : at'[j] = at[j] /\ job'[j] = job[j]
  BY <1>2, <1>3 DEF FieldsOK
<1>5. FieldsOK'  BY <1>2, <1>3, <1>4 DEF FieldsOK
<1>6. \A y : (Been(y)' <=> Been(y)) /\ (Excused(y)' <=> Excused(y))  BY <1>3 DEF Been, Excused
<1>7. \A j \in Installs : Enters(j)' <=> Enters(j)
  <2>1. Enters(i) /\ Enters(i)'  BY <1>2, <1>4 DEF Enters, Registering
  <2>2. \A j \in Installs \ {i} : Enters(j)' <=> Enters(j)  BY <1>4 DEF Enters, Registering
  <2> QED  BY <2>1, <2>2
<1>8. ASSUME NEW j \in Installs  PROVE InstallFits(j)'
  <2>1. InstallFits(j)  BY EntryFields
  <2>2. CASE j = i
    <3>1. store[i].num # 0 => Been(x)  BY <1>1, <1>2 DEF InstallFits
    <3>2. at'[i].pc \notin InPcs /\ job'[i].step \notin AfterAccount
      BY <1>4 DEF InPcs, AfterAccount
    <3>3. Enters(i)  BY <1>2 DEF Enters
    <3>4. x \notin Bots => plc[x].len >= 2 /\ ~Been(x) /\ \A k \in Installs : Of[k] = x /\ Enters(k) => k = i
      BY <1>1, <1>2, <3>3 DEF InstallFits
    <3> QED  BY <1>1, <1>3, <1>4, <1>6, <1>7, <2>2, <3>1, <3>2, <3>4 DEF InstallFits
  <2>3. CASE j # i
    <3>1. Registering(j)' <=> Registering(j)  BY <1>4, <2>3 DEF Registering
    <3> QED  BY <1>3, <1>4, <1>6, <1>7, <2>1, <2>3, <3>1 DEF InstallFits
  <2> QED  BY <2>2, <2>3
<1>9. \A y \in People : EntryFits(y)'  BY <1>3, <1>6, EntryFields DEF EntryFits
<1> QED  BY <1>5, <1>8, <1>9 DEF EntryInv

\* Of an identity in the directory there is one request that can create the
\* account, and when it has there is none.
LEMMA EntryCreates ==
  ASSUME EntryInv, NEW i \in Installs, CreateAccount(i), Of[i] \notin accounts
  PROVE  EntryInv'
<1>1. PICK x \in People : x = Of[i]  BY EntryFields
<1>2. InstallFits(i) /\ job[i].step = "account" /\ FieldsOK /\ x \notin accounts
  BY <1>1, EntryFields DEF CreateAccount
<1>3. PICK s \in {"claim", "blob"} :
         /\ accounts' = accounts \cup {x} /\ job' = [job EXCEPT ![i].step = s]
         /\ UNCHANGED <<at, past, plc, store>>
  BY <1>1 DEF CreateAccount, Then, OnlyServer
<1>4. /\ DOMAIN job' = Installs /\ "step" \in DOMAIN job'[i] /\ job'[i].step = s
      /\ \A j \in Installs \ {i} : job'[j] = job[j]
  BY <1>2, <1>3 DEF FieldsOK
<1>5. FieldsOK'  BY <1>2, <1>3, <1>4 DEF FieldsOK
<1>6. Enters(i) /\ Registering(i)  BY <1>2 DEF Enters, Registering
<1>7. x \notin Bots => /\ plc[x].len >= 2 /\ ~Been(x) /\ at[i].pc # "register"
                       /\ \A j \in Installs : Of[j] = x /\ Enters(j) => j = i
  BY <1>1, <1>2, <1>6 DEF InstallFits
<1>8. /\ \A y : Been(y) => Been(y)'
      /\ \A y : y # x => (Been(y)' => Been(y)) /\ (Excused(y) => Excused(y)')
      /\ Been(x)'
  BY <1>3 DEF Been, Excused
<1>9. \A j \in Installs \ {i} : (Enters(j)' <=> Enters(j)) /\ (Registering(j)' <=> Registering(j))
  BY <1>3, <1>4 DEF Enters, Registering
<1>10. ~Registering(i)' /\ (x \notin Bots => ~Enters(i)')
  <2>1. ~Registering(i)'  BY <1>4 DEF Registering
  <2> QED  BY <1>3, <1>7, <2>1 DEF Enters
<1>11. ASSUME NEW j \in Installs  PROVE InstallFits(j)'
  <2>1. InstallFits(j)  BY EntryFields
  <2>2. CASE Of[j] = x
    <3>1. x \notin Bots => ~Enters(j)'  BY <1>7, <1>9, <1>10, <2>2
    <3>2. at[j].pc # "tombstone"
      <4>1. at[j].pc = "tombstone" => Been(x) /\ x \notin Bots  BY <2>1, <2>2 DEF InstallFits, InPcs
      <4> QED  BY <1>7, <4>1
    <3>3. at[j].pc \in {"genesis", "update", "tombstone"} => x \notin Bots  BY <2>1, <2>2 DEF InstallFits
    <3> QED  BY <1>3, <1>8, <2>2, <3>1, <3>2, <3>3 DEF InstallFits
  <2>3. CASE Of[j] # x
    <3>1. j # i /\ Of[j] \in People  BY <1>1, <2>3, EntryFields
    <3>2. at'[j] = at[j] /\ job'[j] = job[j] /\ store'[j] = store[j] /\ plc' = plc  BY <1>3, <1>4, <3>1
    <3>3. \A k \in Installs : Of[k] = Of[j] => (Enters(k)' <=> Enters(k))  BY <1>1, <1>9, <2>3
    <3>4. /\ Been(Of[j])' <=> Been(Of[j])
          /\ Excused(Of[j]) => Excused(Of[j])'
      BY <1>8, <2>3
    <3>5. Registering(j)' <=> Registering(j)  BY <1>9, <3>1
    <3> QED  BY <2>1, <3>2, <3>3, <3>4, <3>5 DEF InstallFits
  <2> QED  BY <2>2, <2>3
<1>12. ASSUME NEW y \in People  PROVE EntryFits(y)'
  <2>1. EntryFits(y)  BY EntryFields
  <2>2. CASE y = x
    <3>1. plc[x].len # 3  BY <1>7, <2>1, <2>2 DEF EntryFits
    <3> QED  BY <1>3, <1>7, <2>2, <3>1 DEF EntryFits
  <2>3. CASE y # x  BY <1>3, <1>8, <2>1, <2>3 DEF EntryFits
  <2> QED  BY <2>2, <2>3
<1> QED  BY <1>5, <1>11, <1>12 DEF EntryInv

\* How an install and its request are written in the actions.
LEMMA PcWritten ==
  ASSUME FieldsOK, NEW i \in Installs
  PROVE  /\ \A p : LET a == Go(i, p) IN
               /\ DOMAIN a = Installs /\ "pc" \in DOMAIN a[i] /\ a[i].pc = p
               /\ \A j \in Installs \ {i} : a[j] = at[j]
         /\ LET a == Home(i) IN
               /\ DOMAIN a = Installs /\ "pc" \in DOMAIN a[i] /\ a[i].pc = "new"
               /\ \A j \in Installs \ {i} : a[j] = at[j]
<1>1. ASSUME NEW p
      PROVE  LET a == Go(i, p) IN
               /\ DOMAIN a = Installs /\ "pc" \in DOMAIN a[i] /\ a[i].pc = p
               /\ \A j \in Installs \ {i} : a[j] = at[j]
  BY DEF Go, FieldsOK
<1>2. LET a == Home(i) IN
               /\ DOMAIN a = Installs /\ "pc" \in DOMAIN a[i] /\ a[i].pc = "new"
               /\ \A j \in Installs \ {i} : a[j] = at[j]
  <2>1. "pc" \in DOMAIN [Off EXCEPT !.pc = "new"] /\ [Off EXCEPT !.pc = "new"].pc = "new"  BY DEF Off
  <2> QED  BY <2>1 DEF Home, FieldsOK
<1> QED  BY <1>1, <1>2

LEMMA EntryRefused ==
  ASSUME EntryInv, NEW i \in Installs, Refuse(i), UNCHANGED <<accounts, plc, store>>
  PROVE  EntryInv'
<1>1. FieldsOK  BY EntryFields
<1>2. /\ DOMAIN job' = Installs /\ "step" \in DOMAIN job'[i] /\ job'[i].step = "none"
      /\ \A j \in Installs \ {i} : job'[j] = job[j]
  BY <1>1 DEF Refuse, NoJob, FieldsOK
<1>3. DOMAIN past' = DOMAIN past /\ past'.left = past.left /\ past'.undeleted = past.undeleted
  BY <1>1 DEF Refuse, Stuck, FieldsOK
<1>4. at' = at \/ at' = Go(i, "pair") \/ at' = Home(i)  BY DEF Refuse
<1>5. /\ DOMAIN at' = Installs /\ "pc" \in DOMAIN at'[i] /\ at'[i].pc \in {at[i].pc, "pair", "new"}
      /\ \A j \in Installs \ {i} : at'[j] = at[j]
  BY <1>1, <1>4, PcWritten DEF FieldsOK
<1>6. PcGoes(i) /\ StepGoes(i) /\ StoreGoes(i)  BY <1>2, <1>5 DEF PcGoes, StepGoes, StoreGoes, OutPcs
<1>7. "num" \in DOMAIN store'[i] /\ DOMAIN store' = Installs  BY <1>1 DEF FieldsOK
<1> QED  BY <1>2, <1>3, <1>5, <1>6, <1>7, EntryOne

LEMMA EntryGoesOn ==
  ASSUME EntryInv, NEW i \in Installs, NEW s, UNCHANGED <<accounts, plc, store, at>>,
         DOMAIN past' = DOMAIN past, past'.left = past.left, past'.undeleted = past.undeleted,
         DOMAIN job' = Installs, "step" \in DOMAIN job'[i], job'[i].step = s,
         \A j \in Installs \ {i} : job'[j] = job[j],
         \/ s \in AfterAccount /\ (job[i].step \in AfterAccount \/ Of[i] \in accounts)
         \/ s = "account" /\ job[i].step = "admit"
  PROVE  EntryInv'
<1>1. FieldsOK /\ InstallFits(i)  BY EntryFields
<1>2. StepGoes(i)  BY <1>1 DEF StepGoes, InstallFits, Been
<1>3. PcGoes(i) /\ StoreGoes(i)  BY DEF PcGoes, StoreGoes
<1> QED  BY <1>1, <1>2, <1>3, EntryOne DEF FieldsOK

LEMMA EntryServed ==
  ASSUME EntryInv, NEW i \in Installs, Serve(i)
  PROVE  EntryInv'
<1>0. FieldsOK /\ InstallFits(i) /\ UNCHANGED <<plc, store>>
  BY EntryFields
  DEF Serve, Admit, CreateAccount, ClaimSuperuser, StoreBlob, ConsumeNonce, PurgeDevice,
      DropDevice, CreateDevice, StorePrekeys, IssueSession, OnlyServer
<1>1. CASE Refuse(i) /\ UNCHANGED accounts  BY <1>0, <1>1, EntryRefused
<1>2. ASSUME NEW s, UNCHANGED <<accounts, at>>, job' = [job EXCEPT ![i].step = s],
             DOMAIN past' = DOMAIN past, past'.left = past.left, past'.undeleted = past.undeleted,
             \/ s \in AfterAccount /\ (job[i].step \in AfterAccount \/ Of[i] \in accounts)
             \/ s = "account" /\ job[i].step = "admit"
      PROVE  EntryInv'
  <2>1. /\ DOMAIN job' = Installs /\ "step" \in DOMAIN job'[i] /\ job'[i].step = s
        /\ \A j \in Installs \ {i} : job'[j] = job[j]
    BY <1>0, <1>2 DEF FieldsOK
  <2> QED  BY <1>0, <1>2, <2>1, EntryGoesOn
<1>3. ASSUME NEW s \in AfterAccount, NEW k, UNCHANGED <<accounts, at, past>>,
             job' = [job EXCEPT ![i].step = s, ![i].pk = k],
             job[i].step \in AfterAccount \/ Of[i] \in accounts
      PROVE  EntryInv'
  <2>1. /\ DOMAIN job' = Installs /\ "step" \in DOMAIN job'[i] /\ job'[i].step = s
        /\ \A j \in Installs \ {i} : job'[j] = job[j]
    BY <1>0, <1>3 DEF FieldsOK
  <2> QED  BY <1>0, <1>3, <2>1, EntryGoesOn
<1>4. CASE Admit(i)
  <2>1. CASE ~Refuse(i)
    <3>1. PICK c : past' = [past EXCEPT !.by = @ \cup {<<Of[i], c>>}]
      BY <1>4, <2>1 DEF Admit
    <3>2. DOMAIN past' = DOMAIN past /\ past'.left = past.left /\ past'.undeleted = past.undeleted
      BY <1>0, <3>1 DEF FieldsOK
    <3> QED  BY <1>2, <1>4, <2>1, <3>2 DEF Admit
  <2> QED  BY <1>1, <1>4, <2>1 DEF Admit
<1>5. CASE CreateAccount(i)
  <2>1. CASE Of[i] \in accounts  BY <1>1, <1>5, <2>1 DEF CreateAccount
  <2> QED  BY <1>5, <2>1, EntryCreates
<1>6. CASE ClaimSuperuser(i) \/ StoreBlob(i)
  <2>1. CASE ~Refuse(i)
    <3>1. PICK s \in {"blob", "row"} : job' = [job EXCEPT ![i].step = s] /\ UNCHANGED <<at, past>>
      BY <1>6, <2>1 DEF ClaimSuperuser, StoreBlob, Then
    <3>2. job[i].step \in AfterAccount /\ s \in AfterAccount /\ UNCHANGED accounts
      BY <1>6 DEF ClaimSuperuser, StoreBlob, AfterAccount
    <3> QED  BY <1>2, <3>1, <3>2
  <2> QED  BY <1>1, <1>6, <2>1 DEF ClaimSuperuser, StoreBlob
<1>7. CASE ConsumeNonce(i)
  <2>1. CASE ~Refuse(i)
    <3>1. Of[i] \in accounts /\ UNCHANGED accounts  BY <1>7, <2>1 DEF ConsumeNonce
    <3>2. "row" \in AfterAccount /\ "purge" \in AfterAccount  BY DEF AfterAccount
    <3>3. CASE Then(i, "row")  BY <1>2, <3>1, <3>2, <3>3 DEF Then
    <3>4. CASE ~Then(i, "row")
      <4>1. PICK k : job' = [job EXCEPT ![i].step = "purge", ![i].pk = k] /\ UNCHANGED <<at, past>>
        BY <1>7, <2>1, <3>4 DEF ConsumeNonce
      <4> QED  BY <1>3, <3>1, <3>2, <4>1
    <3> QED  BY <3>3, <3>4
  <2> QED  BY <1>1, <1>7, <2>1 DEF ConsumeNonce
<1>8. CASE PurgeDevice(i)
  <2>1. job' = [job EXCEPT ![i].step = "drop"] /\ UNCHANGED <<at, past, accounts>>
    BY <1>8 DEF PurgeDevice, Then
  <2>2. job[i].step \in AfterAccount /\ "drop" \in AfterAccount  BY <1>8 DEF PurgeDevice, AfterAccount
  <2> QED  BY <1>2, <2>1, <2>2
<1>9. CASE DropDevice(i)
  <2>1. CASE ~Refuse(i)
    <3>1. PICK b : past' = [Mishap EXCEPT !.replaced = @ \cup {b}]
      BY <1>9, <2>1 DEF DropDevice
    <3>2. DOMAIN past' = DOMAIN past /\ past'.left = past.left /\ past'.undeleted = past.undeleted
      BY <1>0, <3>1 DEF FieldsOK, Mishap
    <3>3. job' = [job EXCEPT ![i].step = "row"] /\ UNCHANGED <<at, accounts>>
      BY <1>9, <2>1 DEF DropDevice
    <3>4. job[i].step \in AfterAccount /\ "row" \in AfterAccount  BY <1>9 DEF DropDevice, AfterAccount
    <3> QED  BY <1>2, <3>2, <3>3, <3>4
  <2> QED  BY <1>1, <1>9, <2>1 DEF DropDevice
<1>10. CASE CreateDevice(i)
  <2>1. CASE ~Refuse(i)
    <3>1. PICK k : job' = [job EXCEPT ![i].step = "keys", ![i].pk = k] /\ UNCHANGED <<at, past, accounts>>
      BY <1>10, <2>1 DEF CreateDevice
    <3>2. job[i].step \in AfterAccount /\ "keys" \in AfterAccount  BY <1>10 DEF CreateDevice, AfterAccount
    <3> QED  BY <1>3, <3>1, <3>2
  <2> QED  BY <1>1, <1>10, <2>1 DEF CreateDevice
<1>11. CASE StorePrekeys(i)
  <2>1. CASE ~Refuse(i)
    <3>1. job' = [job EXCEPT ![i].step = "session"] /\ UNCHANGED <<at, past, accounts>>
      BY <1>11, <2>1 DEF StorePrekeys, Then
    <3>2. job[i].step \in AfterAccount /\ "session" \in AfterAccount  BY <1>11 DEF StorePrekeys, AfterAccount
    <3> QED  BY <1>2, <3>1, <3>2
  <2> QED  BY <1>1, <1>11, <2>1 DEF StorePrekeys
<1>12. CASE IssueSession(i)
  <2>1. CASE ~Refuse(i)
    <3>1. PICK pk : pk = job[i].pk  OBVIOUS
    <3>2. /\ job' = [job EXCEPT ![i] = NoJob] /\ UNCHANGED <<accounts, past>>
          /\ at' = at \/ at' = [at EXCEPT ![i].pc = "identity", ![i].token = pk]
      BY <1>12, <2>1, <3>1 DEF IssueSession
    <3>3. /\ DOMAIN job' = Installs /\ "step" \in DOMAIN job'[i] /\ job'[i].step = "none"
          /\ \A j \in Installs \ {i} : job'[j] = job[j]
      BY <1>0, <3>2 DEF FieldsOK, NoJob
    <3>4. /\ DOMAIN at' = Installs /\ "pc" \in DOMAIN at'[i] /\ at'[i].pc \in {at[i].pc, "identity"}
          /\ \A j \in Installs \ {i} : at'[j] = at[j]
      BY <1>0, <3>2 DEF FieldsOK
    <3>5. Been(Of[i])  BY <1>0, <1>12 DEF IssueSession, InstallFits, AfterAccount
    <3>6. PcGoes(i) /\ StepGoes(i) /\ StoreGoes(i)
      BY <1>0, <3>3, <3>4, <3>5 DEF PcGoes, StepGoes, StoreGoes, InPcs
    <3> QED  BY <1>0, <3>2, <3>3, <3>4, <3>6, EntryOne DEF FieldsOK
  <2> QED  BY <1>1, <1>12, <2>1 DEF IssueSession
<1> QED  BY <1>4, <1>5, <1>6, <1>7, <1>8, <1>9, <1>10, <1>11, <1>12 DEF Serve

\* An install goes from one place to the next; requests stay as they are.
LEMMA EntryMoves ==
  ASSUME EntryInv, NEW i \in Installs, UNCHANGED <<accounts, plc, job>>,
         DOMAIN past' = DOMAIN past, past'.left = past.left, past'.undeleted = past.undeleted,
         DOMAIN at' = Installs, "pc" \in DOMAIN at'[i], PcGoes(i),
         \A j \in Installs \ {i} : at'[j] = at[j],
         store' = store \/ (/\ DOMAIN store' = Installs /\ "num" \in DOMAIN store'[i] /\ StoreGoes(i)
                            /\ \A j \in Installs \ {i} : store'[j] = store[j])
  PROVE  EntryInv'
<1>1. FieldsOK  BY EntryFields
<1>2. StepGoes(i)  BY DEF StepGoes
<1>3. /\ DOMAIN store' = Installs /\ "num" \in DOMAIN store'[i] /\ StoreGoes(i)
      /\ \A j \in Installs \ {i} : store'[j] = store[j]
  BY <1>1 DEF FieldsOK, StoreGoes
<1> QED  BY <1>1, <1>2, <1>3, EntryOne DEF FieldsOK

LEMMA EntrySaves ==
  ASSUME EntryInv, NEW i \in Installs, NEW a, Save(i) \/ UploadOneTimeKyber(i, a)
  PROVE  EntryInv'
<1>0. FieldsOK /\ InstallFits(i)  BY EntryFields
<1>1. UNCHANGED <<accounts, plc, job>> /\ (past' = past \/ past' = Mishap)
  BY DEF Save, SaveIdentity, SaveDeviceAccount, SavePrekeys, UploadOneTimeKyber, serverVars
<1>2. DOMAIN past' = DOMAIN past /\ past'.left = past.left /\ past'.undeleted = past.undeleted
  BY <1>0, <1>1 DEF Mishap, FieldsOK
<1>3. at[i].pc \in InPcs /\ Been(Of[i])
  BY <1>0 DEF Save, SaveIdentity, SaveDeviceAccount, SavePrekeys, UploadOneTimeKyber, InPcs, InstallFits
<1>4. CASE SaveIdentity(i) \/ SaveDeviceAccount(i) \/ SavePrekeys(i)
  <2>1. PICK p \in {"device", "prekeys", "upload"} : at' = Go(i, p)
    BY <1>4 DEF SaveIdentity, SaveDeviceAccount, SavePrekeys
  <2>2. PICK v, w : \/ store' = [store EXCEPT ![i].key = v]
                    \/ store' = [store EXCEPT ![i].num = v, ![i].reg = w]
                    \/ store' = [store EXCEPT ![i].priv = v]
    BY <1>4 DEF SaveIdentity, SaveDeviceAccount, SavePrekeys
  <2>3. /\ DOMAIN store' = Installs /\ "num" \in DOMAIN store'[i]
        /\ \A j \in Installs \ {i} : store'[j] = store[j]
    BY <1>0, <2>2 DEF FieldsOK
  <2>4. PcGoes(i) /\ StoreGoes(i)
    BY <1>0, <1>3, <2>1, PcWritten DEF PcGoes, StoreGoes, InPcs
  <2> QED  BY <1>0, <1>1, <1>2, <2>1, <2>3, <2>4, PcWritten, EntryMoves
<1>5. CASE \E b : UploadOneTimeKyber(i, b)
  <2>1. PICK t : at' = [at EXCEPT ![i] = [Off EXCEPT !.pc = "in", !.token = t]]
                 \/ at' = [at EXCEPT ![i] = Off]
    BY <1>5 DEF UploadOneTimeKyber
  <2>2. /\ "pc" \in DOMAIN Off /\ Off.pc = "off"
        /\ "pc" \in DOMAIN [Off EXCEPT !.pc = "in", !.token = t]
        /\ [Off EXCEPT !.pc = "in", !.token = t].pc = "in"
    BY DEF Off
  <2>3. /\ DOMAIN at' = Installs /\ "pc" \in DOMAIN at'[i] /\ at'[i].pc \in {"in", "off"}
        /\ \A j \in Installs \ {i} : at'[j] = at[j]
    BY <1>0, <2>1, <2>2 DEF FieldsOK
  <2>4. PcGoes(i)  BY <1>3, <2>3 DEF PcGoes, InPcs, OutPcs
  <2>5. store' = store  BY <1>5 DEF UploadOneTimeKyber
  <2> QED  BY <1>1, <1>2, <2>3, <2>4, <2>5, EntryMoves
<1> QED  BY <1>4, <1>5 DEF Save

LEMMA EntryWorks ==
  ASSUME EntryInv, NEW i \in Installs, Work(i), ~Serve(i), ~Save(i)
  PROVE  EntryInv'
<1>0. FieldsOK /\ InstallFits(i) /\ Of[i] \in People  BY EntryFields
<1>1. CASE SubmitGenesis(i)
  <2>1. PICK x \in People : x = Of[i]  BY <1>0
  <2>2. /\ plc' = [plc EXCEPT ![x].len = Max({@, 1})] /\ at' = Go(i, "update")
        /\ UNCHANGED <<accounts, job, store, past>> /\ at[i].pc = "genesis"
    BY <1>1, <2>1 DEF SubmitGenesis, serverVars
  <2>3. PICK n \in 0..3 : n = plc[x].len  BY <1>0 DEF FieldsOK
  <2>4. Max({n, 1}) \in 0..3 /\ Max({n, 1}) >= n /\ (Max({n, 1}) = 3 => n = 3)
    <3>1. CASE n = 0
      <4>1. {n, 1} = {0, 1}  BY <3>1
      <4>2. 1 \in {0, 1} /\ \A y \in {0, 1} : 1 >= y  OBVIOUS
      <4>3. Max({0, 1}) = 1  BY <4>2 DEF Max
      <4> QED  BY <3>1, <4>1, <4>3
    <3>2. CASE n # 0
      <4>1. n \in {n, 1} /\ \A y \in {n, 1} : n >= y  BY <3>2
      <4>2. Max({n, 1}) = n  BY <4>1 DEF Max
      <4> QED  BY <4>2
    <3> QED  BY <3>1, <3>2
  <2>5. /\ DOMAIN plc' = People /\ "len" \in DOMAIN plc'[x] /\ plc'[x].len = Max({n, 1})
        /\ \A y \in People \ {x} : plc'[y] = plc[y]
    BY <1>0, <2>2, <2>3 DEF FieldsOK
  <2>6. FieldsOK'  BY <1>0, <2>2, <2>4, <2>5, PcWritten DEF FieldsOK
  <2>7. BookGoes  BY <1>0, <2>2, <2>3, <2>4, <2>5 DEF BookGoes, Been, FieldsOK
  <2>8. \A j \in Installs : PcGoes(j) /\ StepGoes(j) /\ StoreGoes(j)
    BY <1>0, <2>2, PcWritten DEF PcGoes, StepGoes, StoreGoes
  <2> QED  BY <2>6, <2>7, <2>8, EntryKept
<1>2. CASE SubmitUpdate(i, TRUE)  BY <1>2, EntrySubmits
<1>3. CASE Register(i)  BY <1>3, EntryRequests
<1>4. CASE RequestReplace(i) \/ RequestLink(i)
  <2>1. /\ UNCHANGED <<accounts, plc, store, past>> /\ at' = Go(i, "wait")
        /\ job' = [job EXCEPT ![i] = [step |-> "consume", pk |-> 0, sent |-> at[i]]]
    BY <1>4 DEF RequestReplace, RequestLink, Request, serverVars
  <2>2. /\ DOMAIN job' = Installs /\ "step" \in DOMAIN job'[i] /\ job'[i].step = "consume"
        /\ \A j \in Installs \ {i} : job'[j] = job[j]
    BY <1>0, <2>1 DEF FieldsOK
  <2>3. PcGoes(i) /\ StepGoes(i) /\ StoreGoes(i)
    BY <1>0, <2>1, <2>2, PcWritten DEF PcGoes, StepGoes, StoreGoes, OutPcs
  <2> QED  BY <1>0, <2>1, <2>2, <2>3, PcWritten, EntryOne DEF FieldsOK
<1>5. CASE IssueChallenge(i) \/ IssueToken(i) \/ SendBundle(i)
  <2>1. UNCHANGED <<accounts, plc, job, past, store>>
    BY <1>5 DEF IssueChallenge, IssueToken, SendBundle
  <2>2. \E v, w : at' \in {at, [at EXCEPT ![i].nonce = v], [at EXCEPT ![i].token = w, ![i].nonce = v]}
    <3>1. CASE IssueChallenge(i)  BY <3>1 DEF IssueChallenge
    <3>2. CASE IssueToken(i)  BY <3>2 DEF IssueToken
    <3>3. CASE SendBundle(i)  BY <3>3 DEF SendBundle
    <3> QED  BY <1>5, <3>1, <3>2, <3>3
  <2>3. PICK v, w : at' \in {at, [at EXCEPT ![i].nonce = v], [at EXCEPT ![i].token = w, ![i].nonce = v]}
    BY <2>2
  <2>4. /\ DOMAIN at' = Installs /\ "pc" \in DOMAIN at'[i] /\ at'[i].pc = at[i].pc
        /\ \A j \in Installs \ {i} : at'[j] = at[j]
    BY <1>0, <2>3 DEF FieldsOK
  <2>5. PcGoes(i)  BY <2>4 DEF PcGoes
  <2> QED  BY <2>1, <2>4, <2>5, EntryMoves
<1>6. CASE AwaitLink(i)
  <2>1. PICK k : past' = [past EXCEPT !.attempts = k]  BY <1>6 DEF AwaitLink
  <2>2. DOMAIN past' = DOMAIN past /\ past'.left = past.left /\ past'.undeleted = past.undeleted
    BY <1>0, <2>1 DEF FieldsOK
  <2>3. UNCHANGED <<accounts, plc, job, store>>  BY <1>6 DEF AwaitLink, serverVars
  <2>4. PICK a : at' = [at EXCEPT ![i] = a] /\ "pc" \in DOMAIN a /\ a.pc = "link"
    <3> DEFINE a == [Off EXCEPT !.pc = "link", !.op = "link", !.key = pairing.key,
                        !.num = pairing.num, !.reg = past.attempts + 1, !.nonce = pairing.nonce]
    <3>1. at' = [at EXCEPT ![i] = a]  BY <1>6 DEF AwaitLink
    <3>2. "pc" \in DOMAIN a /\ a.pc = "link"  BY DEF Off
    <3> QED  BY <3>1, <3>2
  <2>5. /\ DOMAIN at' = Installs /\ "pc" \in DOMAIN at'[i] /\ at'[i].pc = "link"
        /\ \A j \in Installs \ {i} : at'[j] = at[j]
    BY <1>0, <2>4 DEF FieldsOK
  <2>6. PcGoes(i)  BY <2>5 DEF PcGoes, OutPcs
  <2> QED  BY <2>2, <2>3, <2>5, <2>6, EntryMoves
<1>7. CASE Tombstone(i)
  <2>1. PICK x \in People : x = Of[i]  BY <1>0
  <2>2. /\ plc' = [plc EXCEPT ![x].len = 3] /\ at' = Go(i, "wipe")
        /\ UNCHANGED <<accounts, job, store, past>> /\ at[i].pc = "tombstone"
    BY <1>7, <2>1 DEF Tombstone, serverVars
  <2>3. Been(x) /\ x \notin Bots /\ Excused(x)  BY <1>0, <2>1, <2>2 DEF InstallFits, InPcs
  <2>4. /\ DOMAIN plc' = People /\ "len" \in DOMAIN plc'[x] /\ plc'[x].len = 3
        /\ \A y \in People \ {x} : plc'[y] = plc[y]
    BY <1>0, <2>2 DEF FieldsOK
  <2>5. FieldsOK'  BY <1>0, <2>2, <2>4, PcWritten DEF FieldsOK
  <2>6. BookGoes  BY <1>0, <2>2, <2>3, <2>4 DEF BookGoes, Been, Excused, FieldsOK
  <2>7. \A j \in Installs : PcGoes(j) /\ StepGoes(j) /\ StoreGoes(j)
    BY <1>0, <2>1, <2>2, <2>3, PcWritten DEF PcGoes, StepGoes, StoreGoes, InPcs
  <2> QED  BY <2>5, <2>6, <2>7, EntryKept
<1>8. CASE Wipe(i)
  <2>1. UNCHANGED <<accounts, plc, job, past>> /\ at' = Home(i) /\ store' = [store EXCEPT ![i] = NoStore]
    BY <1>8 DEF Wipe, serverVars
  <2>2. /\ DOMAIN store' = Installs /\ "num" \in DOMAIN store'[i] /\ store'[i].num = 0
        /\ \A j \in Installs \ {i} : store'[j] = store[j]
    BY <1>0, <2>1 DEF FieldsOK, NoStore
  <2>3. PcGoes(i) /\ StoreGoes(i)  BY <1>0, <2>1, <2>2, PcWritten DEF PcGoes, StoreGoes, OutPcs
  <2> QED  BY <1>0, <2>1, <2>2, <2>3, PcWritten, EntryMoves
<1> QED  BY <1>1, <1>2, <1>3, <1>4, <1>5, <1>6, <1>7, <1>8 DEF Work

LEMMA EntryLeaves ==
  ASSUME EntryInv, NEW i \in Installs, UNCHANGED <<plc, store, job>>, NEW x \in People, x = Of[i],
         DOMAIN past' = DOMAIN past, past.undeleted \subseteq past'.undeleted,
         \/ Been(x) /\ accounts' = accounts \ {x} /\ past'.left = past.left \cup {x}
         \/ accounts' = accounts /\ past'.left = past.left,
         DOMAIN at' = Installs, "pc" \in DOMAIN at'[i], PcGoes(i),
         \A j \in Installs \ {i} : at'[j] = at[j]
  PROVE  EntryInv'
<1>1. FieldsOK'  BY EntryFields DEF FieldsOK
<1>2. \A y \in People : Been(y)' <=> Been(y)  BY DEF Been
<1>3. BookGoes  BY <1>2, EntryFields DEF BookGoes, FieldsOK
<1>4. \A j \in Installs : PcGoes(j) /\ StepGoes(j) /\ StoreGoes(j)
  BY DEF PcGoes, StepGoes, StoreGoes
<1> QED  BY <1>1, <1>3, <1>4, EntryKept

LEMMA EntryUsers ==
  ASSUME EntryInv, NEW i \in Installs, User(i) \/ \E a : DeleteIdentity(i, a)
  PROVE  EntryInv'
<1>0. FieldsOK /\ InstallFits(i)  BY EntryFields
<1>1. PICK x \in People : x = Of[i]  BY EntryFields
<1>2. ASSUME NEW v, past' = [past EXCEPT !.attempts = v]
      PROVE  DOMAIN past' = DOMAIN past /\ past'.left = past.left /\ past'.undeleted = past.undeleted
  BY <1>0, <1>2 DEF FieldsOK
<1>3. CASE Start(i)
  <2>1. /\ UNCHANGED <<accounts, plc, job, store, past>>
        /\ at' = Go(i, IF store[i].num # 0 THEN "in" ELSE "new")
    BY <1>3 DEF Start, serverVars, Go
  <2>2. PcGoes(i)  BY <1>0, <2>1, PcWritten DEF PcGoes, InstallFits, InPcs, OutPcs
  <2> QED  BY <1>0, <2>1, <2>2, PcWritten, EntryMoves
<1>4. CASE Recover(i)
  <2>1. UNCHANGED <<accounts, plc, job, store>> /\ past' = [past EXCEPT !.attempts = past.attempts + 1]
    BY <1>4 DEF Recover
  <2>2. PICK a : at' = [at EXCEPT ![i] = a] /\ "pc" \in DOMAIN a /\ a.pc = "replace"
    <3> DEFINE aa(pk) == [Off EXCEPT !.pc = "replace", !.op = "replace", !.key = blob[Of[i]],
                             !.num = rows[pk].num, !.reg = past.attempts + 1,
                             !.nonce = <<pk, i, "replace">>]
    <3>1. PICK pk : at' = [at EXCEPT ![i] = aa(pk)]  BY <1>4 DEF Recover
    <3> DEFINE a == aa(pk)
    <3>2. "pc" \in DOMAIN a /\ a.pc = "replace"  BY DEF Off
    <3> QED  BY <3>1, <3>2
  <2>3. /\ DOMAIN at' = Installs /\ "pc" \in DOMAIN at'[i] /\ at'[i].pc = "replace"
        /\ \A j \in Installs \ {i} : at'[j] = at[j]
    BY <1>0, <2>2 DEF FieldsOK
  <2>4. PcGoes(i)  BY <2>3 DEF PcGoes, OutPcs
  <2> QED  BY <1>2, <2>1, <2>3, <2>4, EntryMoves
<1>5. CASE CreatePairing(i) \/ AcceptPairing(i) \/ Attach(i)
  <2>1. UNCHANGED <<accounts, plc, job, store, past>> /\ (at' = at \/ at' = Go(i, "pair"))
    BY <1>5 DEF CreatePairing, AcceptPairing, Attach, serverVars
  <2>2. /\ DOMAIN at' = Installs /\ "pc" \in DOMAIN at'[i] /\ at'[i].pc \in {at[i].pc, "pair"}
        /\ \A j \in Installs \ {i} : at'[j] = at[j]
    BY <1>0, <2>1, PcWritten DEF FieldsOK
  <2>3. PcGoes(i)  BY <2>2 DEF PcGoes, OutPcs
  <2> QED  BY <2>1, <2>2, <2>3, EntryMoves
<1>6. ASSUME NEW cred, Prepare(i, cred)  PROVE EntryInv'
  <2>1. UNCHANGED <<accounts, plc, job, store>> /\ past' = [past EXCEPT !.attempts = past.attempts + 1]
    BY <1>6 DEF Prepare, serverVars
  <2> DEFINE p == IF x \in Bots THEN "register" ELSE "genesis"
             a == [Off EXCEPT !.op = "register", !.key = past.attempts + 1, !.num = 1,
                     !.reg = past.attempts + 1, !.cred = cred, !.pc = p]
  <2>2. at' = [at EXCEPT ![i] = a]  BY <1>1, <1>6 DEF Prepare
  <2>3. "pc" \in DOMAIN a /\ a.pc = p  BY DEF Off
  <2> HIDE DEF a
  <2>4. /\ DOMAIN at' = Installs /\ "pc" \in DOMAIN at'[i] /\ at'[i].pc = p
        /\ \A j \in Installs \ {i} : at'[j] = at[j]
    BY <1>0, <2>2, <2>3 DEF FieldsOK
  <2>5. PcGoes(i)  BY <1>1, <2>4 DEF PcGoes
  <2> QED  BY <1>2, <2>1, <2>4, <2>5, EntryMoves
<1>7. CASE LeaveServer(i)
  <2>1. /\ UNCHANGED <<plc, store, at, job>> /\ accounts' = accounts \ {x} /\ at[i].pc = "in"
        /\ past' = [Mishap EXCEPT !.left = @ \cup {x}]
    BY <1>1, <1>7 DEF LeaveServer, DeleteAccount, Valid
  <2>2. /\ DOMAIN past' = DOMAIN past /\ past'.left = past.left \cup {x}
        /\ past'.undeleted = past.undeleted
    BY <1>0, <2>1 DEF FieldsOK, Mishap
  <2>3. Been(x)  BY <1>0, <1>1, <2>1 DEF InstallFits, InPcs
  <2>4. PcGoes(i)  BY <2>1 DEF PcGoes
  <2> QED  BY <1>0, <1>1, <2>1, <2>2, <2>3, <2>4, EntryLeaves DEF FieldsOK
<1>8. ASSUME NEW a, DeleteIdentity(i, a)  PROVE EntryInv'
  <2>1. /\ UNCHANGED <<plc, store, job>> /\ at' = Go(i, "tombstone") /\ at[i].pc = "in" /\ x \notin Bots
    BY <1>1, <1>8 DEF DeleteIdentity
  <2>2. Been(x)  BY <1>0, <1>1, <2>1 DEF InstallFits, InPcs
  <2>3. CASE DeleteAccount(x) /\ past' = [Mishap EXCEPT !.left = @ \cup {x}]
    <3>1. accounts' = accounts \ {x}  BY <2>3 DEF DeleteAccount
    <3>2. /\ DOMAIN past' = DOMAIN past /\ past'.left = past.left \cup {x}
          /\ past'.undeleted = past.undeleted
      BY <1>0, <2>3 DEF FieldsOK, Mishap
    <3>3. PcGoes(i)  BY <1>0, <1>1, <2>1, <2>2, <3>1, PcWritten DEF PcGoes, Excused
    <3> QED  BY <1>0, <1>1, <2>1, <2>2, <3>1, <3>2, <3>3, PcWritten, EntryLeaves
  <2>4. CASE ~DeleteAccount(x) \/ past' # [Mishap EXCEPT !.left = @ \cup {x}]
    <3>1. PICK w : UNCHANGED accounts /\ past' = [Mishap EXCEPT !.undeleted = @ \cup {<<x, w>>}]
      BY <1>1, <1>8, <2>4 DEF DeleteIdentity, serverVars
    <3>2. /\ DOMAIN past' = DOMAIN past /\ past'.left = past.left
          /\ past'.undeleted = past.undeleted \cup {<<x, w>>}
      BY <1>0, <3>1 DEF FieldsOK, Mishap
    <3>3. Excused(x)'
      <4>1. <<x, w>> \in past'.undeleted /\ <<x, w>>[1] = x  BY <3>2
      <4> QED  BY <4>1 DEF Excused
    <3>4. PcGoes(i)  BY <1>0, <1>1, <2>1, <2>2, <3>3, PcWritten DEF PcGoes
    <3> QED  BY <1>0, <1>1, <2>1, <3>1, <3>2, <3>4, PcWritten, EntryLeaves
  <2> QED  BY <2>3, <2>4
<1> QED  BY <1>3, <1>4, <1>5, <1>6, <1>7, <1>8 DEF User

\* An end, a loss or a lost answer takes an install back to the start, and the
\* other side of a pairing with it.
LEMMA EntryBack ==
  ASSUME EntryInv, UNCHANGED <<accounts, plc>>,
         DOMAIN past' = DOMAIN past, past'.left = past.left, past'.undeleted = past.undeleted,
         DOMAIN at' = Installs, DOMAIN job' = Installs, DOMAIN store' = Installs,
         \A i \in Installs :
            /\ at'[i] = at[i] \/ ("pc" \in DOMAIN at'[i] /\ at'[i].pc \in OutPcs)
            /\ job'[i] \in {job[i], NoJob} /\ store'[i] \in {store[i], NoStore}
  PROVE  EntryInv'
<1>1. "step" \in DOMAIN NoJob /\ NoJob.step = "none" /\ "num" \in DOMAIN NoStore /\ NoStore.num = 0
  BY DEF NoJob, NoStore
<1>2. FieldsOK'  BY <1>1, EntryFields DEF FieldsOK
<1>3. BookGoes  BY EntryFields DEF BookGoes, Been, FieldsOK
<1>4. \A i \in Installs : PcGoes(i) /\ StepGoes(i) /\ StoreGoes(i)
  BY <1>1 DEF PcGoes, StepGoes, StoreGoes
<1> QED  BY <1>2, <1>3, <1>4, EntryKept

LEMMA EntryMishaps ==
  ASSUME EntryInv, NEW i \in Installs, Exit(i) \/ Lose(i) \/ DropRequest(i) \/ TimeOut(i)
  PROVE  EntryInv'
<1>0. FieldsOK  BY EntryFields
<1>1. \A a : /\ DOMAIN Unpaired(a) = Installs
             /\ \A j \in Installs :
                   \/ Unpaired(a)[j] = a[j]
                   \/ "pc" \in DOMAIN Unpaired(a)[j] /\ Unpaired(a)[j].pc = "new"
  <2>1. "pc" \in DOMAIN [Off EXCEPT !.pc = "new"] /\ [Off EXCEPT !.pc = "new"].pc = "new"  BY DEF Off
  <2> QED  BY <2>1 DEF Unpaired
<1>2. "pc" \in DOMAIN Off /\ Off.pc = "off"  BY DEF Off
<1>3. ASSUME NEW v, NEW w, past' \in {past, Stuck(v), [Stuck(v) EXCEPT !.torn = w]}
      PROVE  DOMAIN past' = DOMAIN past /\ past'.left = past.left /\ past'.undeleted = past.undeleted
  BY <1>0, <1>3 DEF Stuck, FieldsOK
<1>4. CASE Exit(i)
  <2>1. UNCHANGED <<accounts, plc, job, store>>  BY <1>4 DEF Exit, serverVars
  <2>2. PICK v, w : past' \in {past, Stuck(v), [Stuck(v) EXCEPT !.torn = w]}
    <3>1. PICK w : past' = past \/ past' = [Stuck(Unsaved(i)) EXCEPT !.torn = w]
      BY <1>4 DEF Exit
    <3> QED  BY <3>1
  <2>3. PICK a \in {at, Unpaired(at)} : at' = [a EXCEPT ![i] = Off]  BY <1>4 DEF Exit
  <2>4. /\ DOMAIN at' = Installs
        /\ \A j \in Installs : at'[j] = at[j] \/ ("pc" \in DOMAIN at'[j] /\ at'[j].pc \in OutPcs)
    BY <1>0, <1>1, <1>2, <2>3 DEF FieldsOK, OutPcs
  <2>5. DOMAIN past' = DOMAIN past /\ past'.left = past.left /\ past'.undeleted = past.undeleted
    BY <1>3, <2>2
  <2>6. DOMAIN job' = Installs /\ DOMAIN store' = Installs  BY <1>0, <2>1 DEF FieldsOK
  <2> QED  BY <2>1, <2>4, <2>5, <2>6, EntryBack
<1>5. CASE Lose(i)
  <2>1. UNCHANGED <<accounts, plc, job, at, past>> /\ store' = [store EXCEPT ![i] = NoStore]
    BY <1>5 DEF Lose, serverVars
  <2>2. DOMAIN store' = Installs /\ \A j \in Installs : store'[j] \in {store[j], NoStore}
    BY <1>0, <2>1 DEF FieldsOK
  <2> QED  BY <1>0, <2>1, <2>2, EntryBack DEF FieldsOK
<1>6. CASE DropRequest(i) \/ TimeOut(i)
  <2>1. /\ UNCHANGED <<accounts, plc, store>>
        /\ job' = job \/ job' = [job EXCEPT ![i] = NoJob]
        /\ at' = at \/ at' = Go(i, "pair") \/ at' = Home(i)
    BY <1>6 DEF DropRequest, TimeOut, serverVars
  <2>2. PICK v : past' = Stuck(v)  BY <1>6 DEF DropRequest, TimeOut
  <2>3. DOMAIN job' = Installs /\ \A j \in Installs : job'[j] \in {job[j], NoJob}
    BY <1>0, <2>1 DEF FieldsOK
  <2>4. /\ DOMAIN at' = Installs
        /\ \A j \in Installs : at'[j] = at[j] \/ ("pc" \in DOMAIN at'[j] /\ at'[j].pc \in OutPcs)
    BY <1>0, <2>1, PcWritten DEF FieldsOK, OutPcs
  <2>5. past' \in {past, Stuck(v), [Stuck(v) EXCEPT !.torn = v]}  BY <2>2
  <2>6. DOMAIN past' = DOMAIN past /\ past'.left = past.left /\ past'.undeleted = past.undeleted
    BY <1>3, <2>5
  <2>7. DOMAIN store' = Installs  BY <1>0, <2>1 DEF FieldsOK
  <2> QED  BY <2>1, <2>3, <2>4, <2>6, <2>7, EntryBack
<1> QED  BY <1>4, <1>5, <1>6

LEMMA EntrySteps ==
  ASSUME EntryInv, [Next]_vars
  PROVE  EntryInv'
<1>0. FieldsOK  BY EntryFields
<1>1. CASE \E i \in Installs : Work(i) \/ User(i) \/ Mishaps(i)
  <2>1. PICK i \in Installs : Work(i) \/ User(i) \/ Mishaps(i)  BY <1>1
  <2>2. CASE Work(i)  BY <2>2, EntryServed, EntrySaves, EntryWorks
  <2>3. CASE User(i)  BY <2>3, EntryUsers
  <2>4. CASE Mishaps(i)
    BY <2>4, EntrySubmits, EntrySaves, EntryUsers, EntryMishaps DEF Mishaps
  <2> QED  BY <2>1, <2>2, <2>3, <2>4
<1>2. CASE UNCHANGED <<accounts, plc, at, job, store, past>>
  BY <1>0, <1>2, EntryBack DEF FieldsOK
<1>3. CASE (\E x \in People : SweepAttachments(x)) \/ InstallGatekeeper
  BY <1>2, <1>3 DEF SweepAttachments, InstallGatekeeper, serverVars
<1>4. CASE ExpirePairing
  <2>1. UNCHANGED <<accounts, plc, job, store>> /\ at' = Unpaired(at) /\ past' = Mishap
    BY <1>4 DEF ExpirePairing, serverVars
  <2>2. DOMAIN past' = DOMAIN past /\ past'.left = past.left /\ past'.undeleted = past.undeleted
    BY <1>0, <2>1 DEF Mishap, FieldsOK
  <2>3. /\ DOMAIN at' = Installs
        /\ \A j \in Installs : at'[j] = at[j] \/ ("pc" \in DOMAIN at'[j] /\ at'[j].pc \in OutPcs)
    BY <2>1 DEF Unpaired, Off, OutPcs
  <2> QED  BY <1>0, <2>1, <2>2, <2>3, EntryBack DEF FieldsOK
<1>5. CASE Logins
  <2>1. UNCHANGED <<plc, at, job, store, past>>
    BY <1>5 DEF Logins, BeginLogin, Consent, Collect, LoginMishap, LoginGoesOn, otherAccount
  <2>2. UNCHANGED accounts
    <3>1. CASE BeginLogin \/ Consent \/ Collect \/ LoginMishap
      BY <3>1 DEF BeginLogin, DeviceAuthorization, AuthorizeCode, Consent, DeviceApprove, Collect,
                  TokenAuthorizationCode, TokenDeviceCode, LoginMishap, HangUp
    <3>2. CASE LoginGoesOn
      BY <3>2 DEF LoginGoesOn, LoginWork, LoginTime, MintForApproval, ApproveDevice,
                  MarkPolled, Consume, MintForCode, PollInterval, ExpireGrant, SweepGrant
    <3> QED  BY <1>5, <3>1, <3>2 DEF Logins
  <2> QED  BY <1>2, <2>1, <2>2
<1>6. CASE UNCHANGED vars  BY <1>2, <1>6 DEF vars, loginVars, otherAccount
<1> QED  BY <1>1, <1>3, <1>4, <1>5, <1>6 DEF Next

\* Those who have signed up before have an account, one install and one row.
LEMMA OrderFits ==
  ASSUME Init
  PROVE  /\ bound.settled \in Seq(Installs) /\ Len(bound.settled) \in Nat
         /\ \A k \in DOMAIN bound.settled :
               /\ bound.settled[k] \in Installs /\ k \in Nat /\ k # 0
               /\ Order(bound.settled[k]) = k /\ OrderOf(Of[bound.settled[k]]) = k
         /\ \A i \in Installs : Order(i) # 0 => OrderOf(Of[i]) # 0
<1> DEFINE s == bound.settled
<1>1. s \in Seq(Installs) /\ \A j, k \in DOMAIN s : Of[s[j]] = Of[s[k]] => j = k
  BY LimitsAssumption DEF Init
<1>2. DOMAIN s = 1..Len(s) /\ Len(s) \in Nat /\ \A k \in DOMAIN s : s[k] \in Installs
  BY <1>1
<1> HIDE DEF s
<1>3. ASSUME NEW k \in DOMAIN s  PROVE Order(s[k]) = k /\ k \in Nat /\ k # 0
  <2>1. s[k] \in ToSet(s)  BY DEF ToSet
  <2>2. {j \in 1..Len(s) : s[j] = s[k]} = {k}  BY <1>1, <1>2
  <2>3. Min({k}) = k  BY <1>2 DEF Min
  <2>4. SelectInSeq(s, LAMBDA v : v = s[k]) = k  BY <2>2, <2>3 DEF SelectInSeq
  <2> QED  BY <1>2, <2>1, <2>4 DEF Order, s
<1>4. ASSUME NEW i, Order(i) # 0  PROVE \E k \in DOMAIN s : i = s[k]
  <2>1. i \in ToSet(s)  BY <1>4 DEF Order, s
  <2> QED  BY <2>1 DEF ToSet
<1>5. ASSUME NEW k \in DOMAIN s  PROVE OrderOf(Of[s[k]]) = k
  <2> DEFINE S == {0} \cup {Order(i) : i \in {j \in Installs : Of[j] = Of[s[k]]}}
  <2>1. k \in S  BY <1>2, <1>3
  <2>2. ASSUME NEW m \in S  PROVE m = 0 \/ m = k
    <3>1. CASE m = 0  BY <3>1
    <3>2. CASE m # 0
      <4>1. PICK i \in Installs : m = Order(i) /\ Of[i] = Of[s[k]]  BY <2>2, <3>2
      <4>2. PICK j \in DOMAIN s : i = s[j]  BY <1>4, <3>2, <4>1
      <4>3. j = k  BY <1>1, <4>1, <4>2 DEF s
      <4> QED  BY <1>3, <4>1, <4>2, <4>3
    <3> QED  BY <3>1, <3>2
  <2> HIDE DEF S
  <2>3. \A m \in S : k >= m  BY <1>3, <2>2
  <2>4. Max(S) = k
    <3>1. \A n \in S : (\A m \in S : n >= m) => n = k  BY <1>3, <2>1, <2>2
    <3> QED  BY <2>1, <2>3, <3>1 DEF Max
  <2> QED  BY <2>4 DEF OrderOf, S
<1>6. ASSUME NEW i \in Installs, Order(i) # 0  PROVE OrderOf(Of[i]) # 0
  BY <1>3, <1>4, <1>5, <1>6
<1> QED  BY <1>1, <1>2, <1>3, <1>5, <1>6 DEF s

LEMMA RowsBegin ==
  ASSUME Init
  PROVE  RowsInv
<1> DEFINE s == bound.settled
<1>1. /\ rows = [k \in DOMAIN s |-> [of |-> Of[s[k]], by |-> s[k], num |-> 1, reg |-> k,
                                     key |-> k, keys |-> TRUE, live |-> TRUE]]
      /\ accounts = {x \in People : OrderOf(x) # 0} /\ challenges = {} /\ sessions = {}
      /\ tokens = <<>> /\ grants = <<>>
  BY DEF Init, LoginInit
<1>2. DOMAIN s = 1..Len(s) /\ Len(s) \in Nat
  <2>1. s \in Seq(Installs)  BY OrderFits
  <2> QED  BY <2>1
<1>3. RowsOK
  <2>1. DOMAIN rows = 1..Len(s) /\ rows = [k \in 1..Len(s) |-> rows[k]]  BY <1>1, <1>2
  <2>2. \E R : rows \in Seq(R)  BY <1>2, <2>1, SeqOfValues
  <2>3. \A k \in DOMAIN rows : {"of", "live"} \subseteq DOMAIN rows[k]  BY <1>1
  <2> QED  BY <2>2, <2>3 DEF RowsOK
<1>4. ASSUME NEW x \in People \ accounts  PROVE Dead(x)
  <2>1. OrderOf(x) = 0  BY <1>1
  <2>2. \A k \in DOMAIN rows : rows[k].of # x
    <3>1. \A k \in DOMAIN s : OrderOf(Of[s[k]]) = k /\ k # 0  BY OrderFits
    <3> QED  BY <1>1, <2>1, <3>1
  <2>3. DOMAIN tokens = {} /\ DOMAIN grants = {}  BY <1>1
  <2> QED  BY <2>2, <2>3 DEF Dead, RowsOf
<1> QED  BY <1>1, <1>3, <1>4 DEF RowsInv

LEMMA EntryBegins ==
  ASSUME Init
  PROVE  EntryInv
<1>1. /\ plc = [x \in People |-> IF x \in Bots THEN [len |-> 0, key |-> 0]
                                ELSE [len |-> IF OrderOf(x) = 0 THEN 0 ELSE 2, key |-> OrderOf(x)]]
      /\ accounts = {x \in People : OrderOf(x) # 0}
      /\ store = [i \in Installs |-> IF Order(i) = 0 THEN NoStore
                    ELSE [key |-> Order(i), num |-> 1, reg |-> Order(i), priv |-> Order(i)]]
      /\ at = [i \in Installs |-> Off] /\ job = [i \in Installs |-> NoJob]
      /\ past = [attempts |-> Len(bound.settled), stuck |-> {}, torn |-> {}, replaced |-> {},
               by |-> {}, left |-> {}, undeleted |-> {}, mishap |-> FALSE]
  BY DEF Init
<1>2. \A x \in People : "len" \in DOMAIN plc[x]
         /\ plc[x].len = IF x \in Bots \/ OrderOf(x) = 0 THEN 0 ELSE 2
  BY <1>1
<1>3. \A i \in Installs : "num" \in DOMAIN store[i] /\ (store[i].num # 0 => Order(i) # 0)
  BY <1>1 DEF NoStore
<1>4. \A i \in Installs : /\ "pc" \in DOMAIN at[i] /\ at[i].pc = "off"
                          /\ "step" \in DOMAIN job[i] /\ job[i].step = "none"
  BY <1>1 DEF Off, NoJob
<1>5. FieldsOK  BY <1>1, <1>2, <1>3, <1>4 DEF FieldsOK
<1>6. \A x \in People : Been(x) <=> OrderOf(x) # 0  BY <1>1 DEF Been
<1>7. ASSUME NEW i \in Installs  PROVE InstallFits(i)
  <2>1. store[i].num # 0 => Been(Of[i])  BY <1>3, <1>6, OrderFits, InstallsAssumption
  <2> QED  BY <1>4, <2>1 DEF InstallFits, Enters, Registering, InPcs, AfterAccount
<1>8. ASSUME NEW x \in People  PROVE EntryFits(x)
  BY <1>2, <1>6 DEF EntryFits
<1> QED  BY <1>5, <1>7, <1>8 DEF EntryInv

\* An account that is deleted leaves no row, session, nonce, grant or token
\* behind, and an identity with a tombstone has left the server or the deletion
\* is known to have failed, whatever requests of its other installs were under
\* way (delete_account, delete_identity).
THEOREM DeletionIsWholeAlways == AccountsSpec => []DeletionIsWhole
<1>1. Init => LoginTypeOK /\ LoginInv /\ RowsInv /\ EntryInv
  BY LoginBegins, RowsBegin, EntryBegins
<1>2. LoginTypeOK /\ LoginInv /\ RowsInv /\ EntryInv /\ [Next]_vars
         => (LoginTypeOK /\ LoginInv /\ RowsInv /\ EntryInv)'
  BY LoginNext, RowsSteps, EntrySteps
<1>3. RowsInv /\ EntryInv => DeletionIsWhole
  <2> SUFFICES ASSUME RowsInv, EntryInv  PROVE DeletionIsWhole  OBVIOUS
  <2>1. \A x \in accounts : plc[x].len = 3 => \E why \in past.undeleted : why[1] = x
    BY DEF EntryInv, EntryFits, FieldsOK, Excused
  <2> QED  BY <2>1 DEF DeletionIsWhole, RowsInv, Dead
<1> QED  BY <1>1, <1>2, <1>3, PTL DEF AccountsSpec

----------------------------------------------------------------------------
(* Devices                                                                  *)

(* What an install, a request and a device are made of.                     *)
JobFields == {"step", "pk", "sent"}
Shape(i) ==
    /\ DOMAIN at[i] = DOMAIN Off /\ DOMAIN store[i] = DOMAIN NoStore
    /\ job[i] = NoJob \/ (DOMAIN job[i] = JobFields /\ DOMAIN job[i].sent = DOMAIN Off)
Shapes ==
    /\ \A i \in Installs : Shape(i)
    /\ {"torn", "replaced", "attempts"} \subseteq DOMAIN past /\ past.attempts \in Nat
    /\ DOMAIN blob = People /\ \A x \in Bots : blob[x] = 0

(* A row is its install's own, and keeps its number and key.                *)
RowsFit ==
    /\ \A k \in DOMAIN rows :
          /\ {"by", "num", "key"} \subseteq DOMAIN rows[k]
          /\ rows[k].by \in Installs /\ rows[k].of = Of[rows[k].by]
    /\ \A k, q \in DOMAIN rows :
          rows[k].live /\ rows[q].live /\ rows[k].of = rows[q].of /\ rows[k].num = rows[q].num => k = q
    /\ \A s \in sessions : rows[s[1]].by = s[2] \/ s[2] \in past.replaced

(* The install that has been told of its row, or is about to be, finds it   *)
(* under its number, unless a recovery has replaced it or the account has   *)
(* been left; and it leaves the save of its prekeys only by saving them.    *)
OwnRow(i, n) ==
    \E q \in DOMAIN rows :
        /\ rows[q].by = i /\ rows[q].num = n
        /\ rows[q].live \/ i \in past.replaced \/ Of[i] \notin accounts
SettledPcs == {"prekeys", "upload", "in"}
RequestFits(i) ==
    LET pk == job[i].pk IN
    pk \in DOMAIN rows /\ rows[pk].by = i /\ rows[pk].num = job[i].sent.num
DeviceFits(i) ==
    /\ at[i].pc = "prekeys" => store[i].reg = at[i].reg
    /\ store[i].priv = store[i].reg \/ i \in past.torn \/ at[i].pc = "prekeys"
    /\ at[i].pc = "wait" /\ job[i] # NoJob => job[i].sent.num = at[i].num
    /\ job[i].step \in {"keys", "session"} => RequestFits(i)
    /\ Of[i] \notin Bots =>
          /\ at[i].pc \in SettledPcs \/ store[i].num # 0 => OwnRow(i, store[i].num)
          /\ at[i].pc \in {"identity", "device"} => OwnRow(i, at[i].num)

(* A bot may give up its account and register again from elsewhere, but is  *)
(* neither linked nor recovered: a key made for one of its installs is      *)
(* never another's.                                                         *)
Holds(i, k) ==
    \/ at[i].key = k \/ store[i].key = k
    \/ job[i] # NoJob /\ job[i].sent.key = k
    \/ \E q \in DOMAIN rows : rows[q].by = i /\ rows[q].key = k
KeysAreOwn(i) ==
    /\ at[i].pc \notin {"replace", "link"}
    /\ at[i].pc \in {"register", "wait"} => at[i].key # 0
    /\ job[i] # NoJob => job[i].sent.key # 0
    /\ \A q \in DOMAIN rows : rows[q].by = i => rows[q].key # 0
    /\ \A k : k # 0 /\ Holds(i, k) =>
          k \in 1..past.attempts /\ \A j \in Installs : Of[j] = Of[i] /\ Holds(j, k) => j = i
DeviceInv ==
    /\ Shapes /\ RowsFit
    /\ \A i \in Installs : DeviceFits(i) /\ (Of[i] \in Bots => KeysAreOwn(i))

\* What a step does to the rows, and to one install.
RowsGo ==
    /\ \A k \in DOMAIN rows :
          /\ k \in DOMAIN rows' /\ DOMAIN rows'[k] = DOMAIN rows[k]
          /\ rows'[k].of = rows[k].of /\ rows'[k].by = rows[k].by
          /\ rows'[k].num = rows[k].num /\ rows'[k].key = rows[k].key
          /\ rows'[k].live => rows[k].live
          /\ rows[k].live => rows'[k].live \/ rows[k].by \in past'.replaced \/ rows[k].of \notin accounts'
    /\ \A k \in DOMAIN rows' \ DOMAIN rows :
          LET b == rows'[k].by IN b \in Installs /\ job[b] # NoJob /\ rows'[k].key = job[b].sent.key
    /\ \A x \in accounts' \ accounts : x \in Bots \/ ~Been(x)
PastGoes ==
    /\ past.replaced \subseteq past'.replaced /\ past.torn \subseteq past'.torn
    /\ past'.attempts \in Nat /\ past'.attempts >= past.attempts
Same(i) == at'[i] = at[i] /\ store'[i] = store[i] /\ job'[i] = job[i]
Still(i) ==
    /\ \/ job'[i] = NoJob
       \/ /\ job[i] # NoJob /\ job'[i].sent = job[i].sent
          /\ job'[i].step \in {"keys", "session"} =>
                \/ job[i].step \in {"keys", "session"} /\ job'[i].pk = job[i].pk
                \/ RequestFits(i)'
    /\ \/ store'[i] = store[i]
       \/ store'[i] = NoStore /\ at'[i].pc \notin SettledPcs
    /\ \/ at'[i].pc = at[i].pc /\ at'[i].num = at[i].num /\ at'[i].reg = at[i].reg
       \/ /\ at'[i].pc \notin {"prekeys", "upload", "identity", "device", "wait"}
          /\ at'[i].pc = "in" => store[i].num # 0 \/ at[i].pc \in SettledPcs
          /\ at[i].pc = "prekeys" => i \in past'.torn
KeyGoes(i) ==
    Of[i] \in Bots =>
        /\ at'[i].key \in {0, at[i].key} /\ at'[i].pc \notin {"replace", "link"}
        /\ at'[i].pc \in {"register", "wait"} =>
              at[i].pc \in {"register", "wait"} /\ at'[i].key = at[i].key
        /\ store'[i].key \in {0, store[i].key, at[i].key}
        /\ \/ job'[i] = NoJob
           \/ job[i] # NoJob /\ job'[i].sent.key = job[i].sent.key
           \/ job'[i].sent.key = at[i].key /\ at[i].pc = "register"
KeyIsNew(i) ==
    /\ at'[i].key = past.attempts + 1 /\ past'.attempts = past.attempts + 1
    /\ at'[i].pc = "register" /\ UNCHANGED <<store, job, rows>>

LEMMA OffFields ==
  /\ DOMAIN Off = {"pc", "op", "key", "num", "reg", "nonce", "token", "cred"}
  /\ Off.pc = "off" /\ Off.key = 0
  /\ DOMAIN NoStore = {"key", "num", "reg", "priv"}
  /\ NoStore.key = 0 /\ NoStore.num = 0 /\ NoStore.reg = 0 /\ NoStore.priv = 0
  /\ NoJob.step = "none"
BY DEF Off, NoStore, NoJob

LEMMA OwnStays ==
  ASSUME NEW i \in Installs, NEW n, OwnRow(i, n), RowsFit, RowsGo, PastGoes,
         Been(Of[i]), Of[i] \notin Bots
  PROVE  OwnRow(i, n)'
<1>1. PICK q \in DOMAIN rows : /\ rows[q].by = i /\ rows[q].num = n
                               /\ rows[q].live \/ i \in past.replaced \/ Of[i] \notin accounts
  BY DEF OwnRow
<1>2. q \in DOMAIN rows' /\ rows'[q].by = i /\ rows'[q].num = n  BY <1>1 DEF RowsGo
<1>3. rows[q].of = Of[i]  BY <1>1 DEF RowsFit
<1>4. CASE rows[q].live  BY <1>1, <1>2, <1>3, <1>4 DEF RowsGo, OwnRow
<1>5. CASE i \in past.replaced  BY <1>2, <1>5 DEF PastGoes, OwnRow
<1>6. CASE Of[i] \notin accounts
  <2>1. Of[i] \notin accounts'  BY <1>6 DEF RowsGo
  <2> QED  BY <1>2, <2>1 DEF OwnRow
<1> QED  BY <1>1, <1>4, <1>5, <1>6

LEMMA DeviceStays ==
  ASSUME EntryInv, DeviceInv, RowsGo, PastGoes, NEW i \in Installs, Still(i)
  PROVE  DeviceFits(i)'
<1>1. DeviceFits(i) /\ InstallFits(i) /\ RowsFit  BY EntryFields DEF DeviceInv
<1>2. (at[i].pc = "prekeys" => store[i].reg = at[i].reg)'
  BY <1>1 DEF DeviceFits, Still, SettledPcs
<1>3. (store[i].priv = store[i].reg \/ i \in past.torn \/ at[i].pc = "prekeys")'
  BY <1>1, OffFields DEF DeviceFits, Still, PastGoes
<1>4. (at[i].pc = "wait" /\ job[i] # NoJob => job[i].sent.num = at[i].num)'
  BY <1>1 DEF DeviceFits, Still
<1>5. (job[i].step \in {"keys", "session"} => RequestFits(i))'
  <2> SUFFICES ASSUME job'[i].step \in {"keys", "session"}
               PROVE  /\ job'[i].pk \in DOMAIN rows' /\ rows'[job'[i].pk].by = i
                      /\ rows'[job'[i].pk].num = job'[i].sent.num
    BY DEF RequestFits
  <2>1. job'[i] # NoJob  BY OffFields
  <2>2. CASE RequestFits(i)'  BY <2>2 DEF RequestFits
  <2>3. CASE ~RequestFits(i)'
    <3>1. job'[i].sent = job[i].sent /\ job'[i].pk = job[i].pk /\ job[i].step \in {"keys", "session"}
      BY <2>1, <2>3 DEF Still
    <3>2. job[i].pk \in DOMAIN rows /\ rows[job[i].pk].by = i /\ rows[job[i].pk].num = job[i].sent.num
      BY <1>1, <3>1 DEF DeviceFits, RequestFits
    <3> QED  BY <3>1, <3>2 DEF RowsGo
  <2> QED  BY <2>2, <2>3
<1>6. ASSUME Of[i] \notin Bots
      PROVE  /\ (at[i].pc \in SettledPcs \/ store[i].num # 0 => OwnRow(i, store[i].num))'
             /\ (at[i].pc \in {"identity", "device"} => OwnRow(i, at[i].num))'
  <2>1. ASSUME at'[i].pc \in SettledPcs \/ store'[i].num # 0  PROVE OwnRow(i, store[i].num)'
    <3>1. store'[i] = store[i]  BY <2>1, OffFields DEF Still
    <3>2. at[i].pc \in SettledPcs \/ store[i].num # 0  BY <2>1, <3>1 DEF Still, SettledPcs
    <3>3. Been(Of[i])  BY <1>1, <3>2 DEF InstallFits, InPcs, SettledPcs
    <3>4. PICK n : n = store[i].num  OBVIOUS
    <3>5. OwnRow(i, n)  BY <1>1, <1>6, <3>2, <3>4 DEF DeviceFits
    <3>6. OwnRow(i, n)'  BY <1>1, <1>6, <3>3, <3>5, OwnStays
    <3> QED  BY <3>1, <3>4, <3>6
  <2>2. ASSUME at'[i].pc \in {"identity", "device"}  PROVE OwnRow(i, at[i].num)'
    <3>1. at'[i].pc = at[i].pc /\ at'[i].num = at[i].num  BY <2>2 DEF Still
    <3>2. Been(Of[i])  BY <1>1, <2>2, <3>1 DEF InstallFits, InPcs
    <3>3. PICK n : n = at[i].num  OBVIOUS
    <3>4. OwnRow(i, n)  BY <1>1, <1>6, <2>2, <3>1, <3>3 DEF DeviceFits
    <3>5. OwnRow(i, n)'  BY <1>1, <1>6, <3>2, <3>4, OwnStays
    <3> QED  BY <3>1, <3>3, <3>5
  <2> QED  BY <2>1, <2>2
<1> QED  BY <1>2, <1>3, <1>4, <1>5, <1>6 DEF DeviceFits

\* What a bot's install holds, it held before, unless it is about to register.
LEMMA HeldBefore ==
  ASSUME DeviceInv, RowsGo, NEW i \in Installs, Of[i] \in Bots, KeyGoes(i), NEW k, k # 0, Holds(i, k)'
  PROVE  Holds(i, k)
<1>1. CASE at'[i].key = k  BY <1>1 DEF KeyGoes, Holds
<1>2. CASE store'[i].key = k  BY <1>2 DEF KeyGoes, Holds
<1>3. CASE job'[i] # NoJob /\ job'[i].sent.key = k  BY <1>3 DEF KeyGoes, Holds
<1>4. ASSUME NEW q \in DOMAIN rows', rows'[q].by = i, rows'[q].key = k  PROVE Holds(i, k)
  BY <1>4 DEF RowsGo, Holds
<1> QED  BY <1>1, <1>2, <1>3, <1>4 DEF Holds

LEMMA KeysStay ==
  ASSUME DeviceInv, RowsGo, PastGoes,
         \A i \in Installs : KeyGoes(i) \/ KeyIsNew(i),
         \A i, j \in Installs : ~KeyGoes(i) /\ ~KeyGoes(j) => i = j,
         NEW i \in Installs, Of[i] \in Bots
  PROVE  KeysAreOwn(i)'
<1>1. KeysAreOwn(i) /\ past.attempts \in Nat  BY DEF DeviceInv, Shapes
<1>2. ASSUME NEW k, k # 0, NEW j \in Installs, Of[j] \in Bots, Holds(j, k)'
      PROVE  Holds(j, k) \/ (k = past.attempts + 1 /\ past'.attempts = k /\ ~KeyGoes(j))
  <2>1. CASE KeyGoes(j)  BY <1>2, <2>1, HeldBefore
  <2>2. CASE ~KeyGoes(j)
    <3>1. KeyIsNew(j)  BY <2>2
    <3> QED  BY <1>2, <2>2, <3>1 DEF KeyIsNew, Holds
  <2> QED  BY <2>1, <2>2
<1>3. at'[i].pc \notin {"replace", "link"}  BY DEF KeyGoes, KeyIsNew
<1>4. at'[i].pc \in {"register", "wait"} => at'[i].key # 0  BY <1>1 DEF KeysAreOwn, KeyGoes, KeyIsNew
<1>5. job'[i] # NoJob => job'[i].sent.key # 0  BY <1>1 DEF KeysAreOwn, KeyGoes, KeyIsNew
<1>6. \A q \in DOMAIN rows' : rows'[q].by = i => rows'[q].key # 0  BY <1>1 DEF KeysAreOwn, RowsGo
<1>7. ASSUME NEW k, k # 0, Holds(i, k)'
      PROVE  k \in 1..past'.attempts /\ \A j \in Installs : Of[j] = Of[i] /\ Holds(j, k)' => j = i
  <2>1. ASSUME NEW j \in Installs, Of[j] \in Bots, Holds(j, k)
        PROVE  k \in 1..past.attempts /\ \A l \in Installs : Of[l] = Of[j] /\ Holds(l, k) => l = j
    BY <1>7, <2>1 DEF DeviceInv, KeysAreOwn
  <2>2. k \in 1..past'.attempts
    <3>1. CASE Holds(i, k)
      <4>1. k \in 1..past.attempts  BY <2>1, <3>1
      <4> QED  BY <1>1, <4>1 DEF PastGoes
    <3>2. CASE k = past.attempts + 1 /\ past'.attempts = k  BY <1>1, <3>2
    <3> QED  BY <1>2, <1>7, <3>1, <3>2
  <2>3. ASSUME NEW j \in Installs, Of[j] = Of[i], Holds(j, k)'  PROVE j = i
    <3>1. CASE Holds(i, k) /\ Holds(j, k)  BY <2>1, <2>3, <3>1
    <3>2. CASE ~Holds(i, k) /\ ~Holds(j, k)
      <4>1. ~KeyGoes(i) /\ ~KeyGoes(j)  BY <1>2, <1>7, <2>3, <3>2
      <4> QED  BY <4>1
    <3>3. ~(Holds(i, k) /\ ~Holds(j, k))
      <4> SUFFICES ASSUME Holds(i, k), ~Holds(j, k)  PROVE FALSE  OBVIOUS
      <4>1. k \in 1..past.attempts /\ k = past.attempts + 1  BY <1>2, <1>7, <2>1, <2>3
      <4> QED  BY <1>1, <4>1
    <3>4. ~(~Holds(i, k) /\ Holds(j, k))
      <4> SUFFICES ASSUME ~Holds(i, k), Holds(j, k)  PROVE FALSE  OBVIOUS
      <4>1. k \in 1..past.attempts /\ k = past.attempts + 1  BY <1>2, <1>7, <2>1, <2>3
      <4> QED  BY <1>1, <4>1
    <3> QED  BY <3>1, <3>2, <3>3, <3>4
  <2> QED  BY <2>2, <2>3
<1> QED  BY <1>3, <1>4, <1>5, <1>6, <1>7 DEF KeysAreOwn

LEMMA DeviceKept ==
  ASSUME EntryInv, DeviceInv, Shapes', RowsFit', RowsGo, PastGoes,
         \A i \in Installs : Still(i) \/ DeviceFits(i)',
         \A i \in Installs : KeyGoes(i) \/ KeyIsNew(i),
         \A i, j \in Installs : ~KeyGoes(i) /\ ~KeyGoes(j) => i = j
  PROVE  DeviceInv'
BY DeviceStays, KeysStay DEF DeviceInv

LEMMA DeviceFields ==
  ASSUME DeviceInv, NEW i \in Installs
  PROVE  /\ Shape(i) /\ DeviceFits(i) /\ (Of[i] \in Bots => KeysAreOwn(i))
         /\ {"torn", "replaced", "attempts"} \subseteq DOMAIN past /\ past.attempts \in Nat
BY DEF DeviceInv, Shapes

LEMMA SameGoes ==
  ASSUME DeviceInv, NEW i \in Installs, Same(i)
  PROVE  Shape(i)' /\ Still(i) /\ KeyGoes(i)
BY DeviceFields DEF Same, Shape, Still, KeyGoes, KeysAreOwn

LEMMA RowsSame ==
  ASSUME UNCHANGED rows, past.replaced \subseteq past'.replaced,
         \A x \in accounts' \ accounts : x \in Bots \/ ~Been(x)
  PROVE  RowsGo
BY DEF RowsGo

LEMMA RowKeyed ==
  ASSUME RowsInv, NEW pk, NEW b, rows' = [rows EXCEPT ![pk].keys = b],
         UNCHANGED accounts, past.replaced \subseteq past'.replaced
  PROVE  RowsGo /\ DOMAIN rows' = DOMAIN rows
<1>1. DOMAIN rows' = DOMAIN rows  BY RowsDomain DEF RowsInv
<1>2. \A k \in DOMAIN rows : rows'[k] = rows[k] \/ rows'[k] = [rows[k] EXCEPT !.keys = b]
  BY RowsDomain DEF RowsInv
<1>3. \A k \in DOMAIN rows : DOMAIN rows'[k] = DOMAIN rows[k] /\ rows'[k].of = rows[k].of
         /\ rows'[k].by = rows[k].by /\ rows'[k].num = rows[k].num /\ rows'[k].key = rows[k].key
         /\ rows'[k].live = rows[k].live
  <2> TAKE k \in DOMAIN rows
  <2>1. CASE rows'[k] = rows[k]  BY <2>1
  <2>2. CASE rows'[k] = [rows[k] EXCEPT !.keys = b]  BY <2>2
  <2> QED  BY <1>2, <2>1, <2>2
<1> QED  BY <1>1, <1>3 DEF RowsGo

LEMMA RowsFitStays ==
  ASSUME RowsInv, RowsFit, RowsGo, DOMAIN rows' = DOMAIN rows, past.replaced \subseteq past'.replaced,
         \A s \in sessions' : \/ s \in sessions
                              \/ s[1] \in DOMAIN rows /\ (rows[s[1]].by = s[2] \/ s[2] \in past.replaced)
  PROVE  RowsFit'
<1>1. \A k \in DOMAIN rows' : /\ {"by", "num", "key"} \subseteq DOMAIN rows'[k]
                              /\ rows'[k].by \in Installs /\ rows'[k].of = Of[rows'[k].by]
  BY DEF RowsFit, RowsGo
<1>2. \A k, q \in DOMAIN rows' :
          rows'[k].live /\ rows'[q].live /\ rows'[k].of = rows'[q].of /\ rows'[k].num = rows'[q].num => k = q
  BY DEF RowsFit, RowsGo
<1>3. ASSUME NEW s \in sessions'  PROVE rows'[s[1]].by = s[2] \/ s[2] \in past'.replaced
  <2>1. s[1] \in DOMAIN rows  BY <1>3 DEF RowsInv, Live
  <2>2. rows[s[1]].by = s[2] \/ s[2] \in past.replaced  BY <1>3 DEF RowsFit
  <2> QED  BY <2>1, <2>2 DEF RowsGo
<1> QED  BY <1>1, <1>2, <1>3 DEF RowsFit

BlobOK == DOMAIN blob = People /\ \A x \in Bots : blob[x] = 0

LEMMA DeviceOne ==
  ASSUME EntryInv, DeviceInv, NEW i \in Installs, Shape(i)', Still(i) \/ DeviceFits(i)',
         KeyGoes(i) \/ KeyIsNew(i), \A j \in Installs \ {i} : Same(j),
         RowsFit', RowsGo, PastGoes, DOMAIN past' = DOMAIN past, BlobOK'
  PROVE  DeviceInv'
<1>1. \A j \in Installs \ {i} : Shape(j)' /\ Still(j) /\ KeyGoes(j)  BY SameGoes
<1>2. Shapes'  BY <1>1 DEF DeviceInv, Shapes, PastGoes, BlobOK
<1>3. \A j, l \in Installs : ~KeyGoes(j) /\ ~KeyGoes(l) => j = l  BY <1>1
<1>4. \A j \in Installs : (Still(j) \/ DeviceFits(j)') /\ (KeyGoes(j) \/ KeyIsNew(j))  BY <1>1
<1> QED  BY <1>2, <1>3, <1>4, DeviceKept

\* Steps that leave the rows alone and make no session.
LEMMA DeviceAside ==
  ASSUME RowsInv, EntryInv, DeviceInv, NEW i \in Installs, Shape(i)', Still(i) \/ DeviceFits(i)',
         KeyGoes(i) \/ KeyIsNew(i), \A j \in Installs \ {i} : Same(j),
         UNCHANGED rows, sessions' \subseteq sessions, PastGoes, DOMAIN past' = DOMAIN past, BlobOK',
         \A x \in accounts' \ accounts : x \in Bots \/ ~Been(x)
  PROVE  DeviceInv'
<1>1. RowsGo  BY RowsSame DEF PastGoes
<1>2. RowsFit'  BY <1>1, RowsFitStays DEF DeviceInv, PastGoes
<1> QED  BY <1>1, <1>2, DeviceOne

LEMMA JobGoes ==
  ASSUME EntryInv, DeviceInv, NEW i \in Installs, job[i] # NoJob, UNCHANGED <<at, store>>, NEW s, NEW k,
         job' = [job EXCEPT ![i].step = s] \/ job' = [job EXCEPT ![i].step = s, ![i].pk = k]
  PROVE  /\ Shape(i)' /\ KeyGoes(i) /\ \A j \in Installs \ {i} : Same(j)
         /\ job'[i].step = s /\ job'[i].sent = job[i].sent
         /\ job'[i].pk = job[i].pk \/ job'[i].pk = k
         /\ s \notin {"keys", "session"} \/ (job'[i].pk = job[i].pk /\ job[i].step = "keys") => Still(i)
<1>1. Shape(i) /\ DOMAIN job = Installs  BY EntryFields, DeviceFields DEF FieldsOK
<1>2. DOMAIN job[i] = JobFields  BY <1>1 DEF Shape
<1>3. /\ DOMAIN job'[i] = JobFields /\ job'[i].step = s /\ job'[i].sent = job[i].sent
      /\ job'[i].pk = job[i].pk \/ job'[i].pk = k
      /\ \A j \in Installs \ {i} : job'[j] = job[j]
  BY <1>1, <1>2 DEF JobFields
<1>4. Shape(i)'  BY <1>1, <1>3 DEF Shape
<1>5. KeyGoes(i)  BY <1>3, DeviceFields DEF KeyGoes, KeysAreOwn
<1>6. s \notin {"keys", "session"} \/ (job'[i].pk = job[i].pk /\ job[i].step = "keys") => Still(i)
  BY <1>3 DEF Still
<1> QED  BY <1>3, <1>4, <1>5, <1>6 DEF Same

\* The client is where it was, or back at the start.
LEMMA AtWritten ==
  ASSUME EntryInv, DeviceInv, NEW i \in Installs
  PROVE  /\ \A p : LET a == Go(i, p) IN
               /\ DOMAIN a[i] = DOMAIN Off /\ a[i].pc = p /\ a[i].key = at[i].key
               /\ a[i].num = at[i].num /\ a[i].reg = at[i].reg
               /\ \A j \in Installs \ {i} : a[j] = at[j]
         /\ LET a == Home(i) IN
               /\ DOMAIN a[i] = DOMAIN Off /\ a[i].pc = "new" /\ a[i].key = 0
               /\ \A j \in Installs \ {i} : a[j] = at[j]
<1>1. DOMAIN at = Installs /\ DOMAIN at[i] = DOMAIN Off  BY EntryFields, DeviceFields DEF FieldsOK, Shape
<1>2. ASSUME NEW p
      PROVE  LET a == Go(i, p) IN
               /\ DOMAIN a[i] = DOMAIN Off /\ a[i].pc = p /\ a[i].key = at[i].key
               /\ a[i].num = at[i].num /\ a[i].reg = at[i].reg
               /\ \A j \in Installs \ {i} : a[j] = at[j]
  <2>1. Go(i, p)[i] = [at[i] EXCEPT !.pc = p] /\ \A j \in Installs \ {i} : Go(i, p)[j] = at[j]
    BY <1>1 DEF Go
  <2> QED  BY <1>1, <2>1, OffFields
<1>3. LET a == Home(i) IN
               /\ DOMAIN a[i] = DOMAIN Off /\ a[i].pc = "new" /\ a[i].key = 0
               /\ \A j \in Installs \ {i} : a[j] = at[j]
  <2>1. Home(i)[i] = [Off EXCEPT !.pc = "new"] /\ \A j \in Installs \ {i} : Home(i)[j] = at[j]
    BY <1>1 DEF Home
  <2> QED  BY <2>1, OffFields
<1> QED  BY <1>2, <1>3

LEMMA PastStuck ==
  ASSUME DeviceInv, NEW v, past' \in {past, Stuck(v), Mishap}
  PROVE  PastGoes /\ DOMAIN past' = DOMAIN past /\ past'.replaced = past.replaced
<1>1. {"torn", "replaced", "attempts"} \subseteq DOMAIN past /\ past.attempts \in Nat
  BY DEF DeviceInv, Shapes
<1>2. CASE past' = past  BY <1>1, <1>2 DEF PastGoes
<1>3. CASE past' = Mishap  BY <1>1, <1>3 DEF Mishap, PastGoes
<1>4. CASE past' = Stuck(v)  BY <1>1, <1>4 DEF Stuck, PastGoes
<1> QED  BY <1>2, <1>3, <1>4

LEMMA RefusedGoes ==
  ASSUME EntryInv, DeviceInv, NEW i \in Installs, Refuse(i), UNCHANGED store
  PROVE  /\ Shape(i)' /\ Still(i) /\ KeyGoes(i) /\ \A j \in Installs \ {i} : Same(j)
         /\ PastGoes /\ DOMAIN past' = DOMAIN past /\ past'.replaced = past.replaced
<1>1. PastGoes /\ DOMAIN past' = DOMAIN past /\ past'.replaced = past.replaced
  <2>1. past' \in {past, Stuck(Stranded(i)), Mishap}  BY DEF Refuse
  <2> QED  BY <2>1, PastStuck
<1>2. job'[i] = NoJob /\ \A j \in Installs \ {i} : job'[j] = job[j]
  BY EntryFields DEF Refuse, FieldsOK
<1>3. at' = at \/ (at[i].pc = "wait" /\ (at' = Go(i, "pair") \/ at' = Home(i)))
  BY DEF Refuse, Waits
<1>4. /\ at' = at \/ (/\ DOMAIN at'[i] = DOMAIN Off /\ at'[i].pc \in {"pair", "new"} /\ at[i].pc = "wait"
                      /\ at'[i].key \in {at[i].key, 0})
      /\ \A j \in Installs \ {i} : at'[j] = at[j]
  BY <1>3, AtWritten
<1>5. Shape(i)'  BY <1>2, <1>4, DeviceFields DEF Shape
<1>6. Still(i)  BY <1>2, <1>4 DEF Still
<1>7. KeyGoes(i)  BY <1>2, <1>4, DeviceFields DEF KeyGoes, KeysAreOwn
<1> QED  BY <1>1, <1>2, <1>4, <1>5, <1>6, <1>7 DEF Same

LEMMA JobSteps ==
  ASSUME EntryInv, DeviceInv, NEW i \in Installs, job[i] # NoJob, UNCHANGED <<at, store>>, NEW s,
         job' = [job EXCEPT ![i].step = s]
  PROVE  /\ Shape(i)' /\ KeyGoes(i) /\ \A j \in Installs \ {i} : Same(j)
         /\ job'[i].step = s /\ job'[i].sent = job[i].sent /\ job'[i].pk = job[i].pk
         /\ s \notin {"keys", "session"} \/ job[i].step = "keys" => Still(i)
<1>1. /\ Shape(i)' /\ KeyGoes(i) /\ \A j \in Installs \ {i} : Same(j)
      /\ job'[i].step = s /\ job'[i].sent = job[i].sent
      /\ s \notin {"keys", "session"} \/ (job'[i].pk = job[i].pk /\ job[i].step = "keys") => Still(i)
  BY JobGoes
<1>2. job'[i].pk = job[i].pk
  <2>1. Shape(i) /\ DOMAIN job = Installs  BY EntryFields, DeviceFields DEF FieldsOK
  <2>2. DOMAIN job[i] = JobFields  BY <2>1 DEF Shape
  <2> QED  BY <2>1, <2>2 DEF JobFields
<1> QED  BY <1>1, <1>2

LEMMA DeviceRefused ==
  ASSUME RowsInv, EntryInv, DeviceInv, NEW i \in Installs, Refuse(i),
         UNCHANGED <<store, rows, blob, accounts>>, sessions' \subseteq sessions
  PROVE  DeviceInv'
<1>1. BlobOK'  BY DEF DeviceInv, Shapes, BlobOK
<1> QED  BY <1>1, RefusedGoes, DeviceAside

\* A statement that leaves the rows and sessions alone.
LEMMA DeviceGoesOn ==
  ASSUME RowsInv, EntryInv, DeviceInv, NEW i \in Installs, job[i].step # "none",
         UNCHANGED <<at, store, rows>>, sessions' \subseteq sessions, BlobOK',
         NEW s, s \notin {"keys", "session"}, NEW k,
         job' = [job EXCEPT ![i].step = s] \/ job' = [job EXCEPT ![i].step = s, ![i].pk = k],
         PastGoes, DOMAIN past' = DOMAIN past,
         \A x \in accounts' \ accounts : x \in Bots \/ ~Been(x)
  PROVE  DeviceInv'
<1>1. job[i] # NoJob  BY OffFields
<1> QED  BY <1>1, JobGoes, DeviceAside

LEMMA DeviceFirst ==
  ASSUME RowsInv, EntryInv, DeviceInv, NEW i \in Installs,
         Admit(i) \/ CreateAccount(i) \/ ClaimSuperuser(i) \/ StoreBlob(i) \/ ConsumeNonce(i)
  PROVE  DeviceInv'
<1>0. InstallFits(i)  BY EntryFields
<1>1. BlobOK  BY DEF DeviceInv, Shapes, BlobOK
<1>2. UNCHANGED <<store, rows, sessions>>
  BY DEF Admit, CreateAccount, ClaimSuperuser, StoreBlob, ConsumeNonce, OnlyServer
<1>3. past' = past => PastGoes /\ DOMAIN past' = DOMAIN past
  BY PastStuck
<1>4. CASE Admit(i)
  <2>1. CASE Refuse(i)  BY <1>2, <1>4, <2>1, DeviceRefused DEF Admit
  <2>2. CASE ~Refuse(i)
    <3>1. PICK v : past' = [past EXCEPT !.by = v]  BY <1>4, <2>2 DEF Admit
    <3>2. PastGoes /\ DOMAIN past' = DOMAIN past  BY <3>1 DEF PastGoes, DeviceInv, Shapes
    <3>3. job' = [job EXCEPT ![i].step = "account"] /\ job[i].step = "admit"
          /\ UNCHANGED <<at, accounts, blob>>
      BY <1>4, <2>2 DEF Admit
    <3> QED  BY <1>1, <1>2, <3>2, <3>3, DeviceGoesOn DEF BlobOK
  <2> QED  BY <2>1, <2>2
<1>5. CASE CreateAccount(i)
  <2>1. CASE Of[i] \in accounts  BY <1>2, <1>5, <2>1, DeviceRefused DEF CreateAccount
  <2>2. CASE Of[i] \notin accounts
    <3>1. PICK s \in {"claim", "blob"} : Then(i, s)
      BY <1>5, <2>2 DEF CreateAccount
    <3>2. /\ accounts' = accounts \cup {Of[i]} /\ job' = [job EXCEPT ![i].step = s]
          /\ job[i].step = "account" /\ UNCHANGED <<at, past, blob>>
      BY <1>5, <2>2, <3>1 DEF CreateAccount, Then
    <3>3. Of[i] \in Bots \/ ~Been(Of[i])  BY <1>0, <3>2 DEF InstallFits, Enters, Registering
    <3> QED  BY <1>1, <1>2, <1>3, <3>2, <3>3, DeviceGoesOn DEF BlobOK
  <2> QED  BY <2>1, <2>2
<1>6. CASE ClaimSuperuser(i)
  <2>1. CASE Refuse(i)  BY <1>2, <1>6, <2>1, DeviceRefused DEF ClaimSuperuser
  <2>2. CASE ~Refuse(i)
    <3>1. job' = [job EXCEPT ![i].step = "blob"] /\ job[i].step = "claim"
          /\ UNCHANGED <<at, past, accounts, blob>>
      BY <1>6, <2>2 DEF ClaimSuperuser, Then
    <3> QED  BY <1>1, <1>2, <1>3, <3>1, DeviceGoesOn DEF BlobOK
  <2> QED  BY <2>1, <2>2
<1>7. CASE StoreBlob(i)
  <2>1. CASE Of[i] \notin accounts  BY <1>2, <1>7, <2>1, DeviceRefused DEF StoreBlob
  <2>2. CASE Of[i] \in accounts
    <3>1. job' = [job EXCEPT ![i].step = "row"] /\ job[i].step = "blob" /\ blob' = Escrow(i)
          /\ UNCHANGED <<at, past, accounts>>
      BY <1>7, <2>2 DEF StoreBlob, Then
    <3>2. BlobOK'  BY <1>1, <3>1 DEF Escrow, BlobOK
    <3> QED  BY <1>2, <1>3, <3>1, <3>2, DeviceGoesOn
  <2> QED  BY <2>1, <2>2
<1>8. CASE ConsumeNonce(i)
  <2>1. CASE Refuse(i)  BY <1>2, <1>8, <2>1, DeviceRefused DEF ConsumeNonce
  <2>2. CASE ~Refuse(i)
    <3>1. \/ job' = [job EXCEPT ![i].step = "row"]
          \/ job' = [job EXCEPT ![i].step = "purge", ![i].pk = job[i].sent.nonce[1]]
      BY <1>8, <2>2 DEF ConsumeNonce, Then
    <3>2. UNCHANGED <<at, past, accounts, blob>> /\ job[i].step = "consume"
      BY <1>8, <2>2 DEF ConsumeNonce, Then
    <3>3. BlobOK'  BY <1>1, <3>2 DEF BlobOK
    <3>4. CASE job' = [job EXCEPT ![i].step = "row"]
      BY <1>2, <1>3, <3>2, <3>3, <3>4, DeviceGoesOn
    <3>5. CASE job' = [job EXCEPT ![i].step = "purge", ![i].pk = job[i].sent.nonce[1]]
      BY <1>2, <1>3, <3>2, <3>3, <3>5, DeviceGoesOn
    <3> QED  BY <3>1, <3>4, <3>5
  <2> QED  BY <2>1, <2>2
<1> QED  BY <1>4, <1>5, <1>6, <1>7, <1>8

\* A device is deleted: its install has been replaced.
LEMMA DeviceDeleted ==
  ASSUME RowsInv, EntryInv, DeviceInv, NEW i \in Installs, PurgeDevice(i) \/ DropDevice(i)
  PROVE  DeviceInv'
<1>0. BlobOK' /\ UNCHANGED <<store, blob, accounts>>
  BY DEF DeviceInv, Shapes, BlobOK, PurgeDevice, DropDevice, OnlyServer
<1>1. PICK pk : pk = job[i].pk  OBVIOUS
<1>2. CASE PurgeDevice(i)
  <2>1. /\ rows' = [rows EXCEPT ![pk].keys = FALSE] /\ job' = [job EXCEPT ![i].step = "drop"]
        /\ job[i].step = "purge" /\ UNCHANGED <<at, past>> /\ sessions' \subseteq sessions
    BY <1>1, <1>2 DEF PurgeDevice, Then
  <2>2. PastGoes /\ past.replaced \subseteq past'.replaced /\ DOMAIN past' = DOMAIN past
    BY <2>1, PastStuck
  <2>3. RowsGo /\ DOMAIN rows' = DOMAIN rows  BY <1>0, <2>1, <2>2, RowKeyed
  <2>4. RowsFit'  BY <2>1, <2>2, <2>3, RowsFitStays DEF DeviceInv
  <2>5. job[i] # NoJob  BY <2>1, OffFields
  <2>6. Shape(i)' /\ KeyGoes(i) /\ Still(i) /\ \A j \in Installs \ {i} : Same(j)
    <3>1. PICK s \in {"drop"} : job' = [job EXCEPT ![i].step = s]  BY <2>1
    <3>2. UNCHANGED <<at, store>>  BY <1>0, <2>1
    <3> QED  BY <2>5, <3>1, <3>2, JobSteps
  <2> QED  BY <1>0, <2>2, <2>3, <2>4, <2>6, DeviceOne
<1>3. CASE DropDevice(i) /\ ~Refuse(i)
  <2>1. /\ rows' = [rows EXCEPT ![pk].live = FALSE] /\ job' = [job EXCEPT ![i].step = "row"]
        /\ job[i].step = "drop" /\ UNCHANGED <<at, sessions>>
        /\ past' = [Mishap EXCEPT !.replaced = @ \cup {rows[pk].by}]
    BY <1>1, <1>3 DEF DropDevice
  <2>2. /\ PastGoes /\ DOMAIN past' = DOMAIN past
        /\ past'.replaced = past.replaced \cup {rows[pk].by}
    BY <2>1 DEF Mishap, PastGoes, DeviceInv, Shapes
  <2>3. DOMAIN rows' = DOMAIN rows  BY <2>1, RowsDomain DEF RowsInv
  <2>4. /\ \A k \in DOMAIN rows : k # pk => rows'[k] = rows[k]
        /\ pk \in DOMAIN rows => rows'[pk] = [rows[pk] EXCEPT !.live = FALSE]
    BY <2>1, RowsDomain DEF RowsInv
  <2>5. ASSUME NEW k \in DOMAIN rows
        PROVE  /\ DOMAIN rows'[k] = DOMAIN rows[k] /\ rows'[k].of = rows[k].of
               /\ rows'[k].by = rows[k].by /\ rows'[k].num = rows[k].num /\ rows'[k].key = rows[k].key
               /\ rows'[k].live => rows[k].live
               /\ rows[k].live => rows'[k].live \/ rows[k].by \in past'.replaced
    <3>1. CASE k # pk  BY <2>4, <3>1
    <3>2. CASE k = pk
      <4>1. rows'[k] = [rows[k] EXCEPT !.live = FALSE]  BY <2>4, <3>2
      <4>2. "live" \in DOMAIN rows[k]  BY DEF RowsInv, RowsOK
      <4> QED  BY <2>2, <3>2, <4>1, <4>2
    <3> QED  BY <3>1, <3>2
  <2>6. RowsGo  BY <1>0, <2>2, <2>3, <2>5 DEF RowsGo
  <2>7. RowsFit'  BY <2>1, <2>2, <2>3, <2>6, RowsFitStays DEF DeviceInv
  <2>8. job[i] # NoJob  BY <2>1, OffFields
  <2>9. Shape(i)' /\ KeyGoes(i) /\ Still(i) /\ \A j \in Installs \ {i} : Same(j)
    <3>1. PICK s \in {"row"} : job' = [job EXCEPT ![i].step = s]  BY <2>1
    <3>2. UNCHANGED <<at, store>>  BY <1>0, <2>1
    <3> QED  BY <2>8, <3>1, <3>2, JobSteps
  <2> QED  BY <1>0, <2>2, <2>6, <2>7, <2>9, DeviceOne
<1>4. CASE DropDevice(i) /\ Refuse(i)
  <2>2. CASE UNCHANGED rows
    BY <1>0, <1>4, <2>2, DeviceRefused DEF DropDevice
  <2>3. CASE ~UNCHANGED rows
    <3>1. job' = [job EXCEPT ![i].step = "row"] /\ job[i].step = "drop"
      BY <1>4, <2>3 DEF DropDevice
    <3>2. job'[i] = NoJob /\ DOMAIN job = Installs  BY <1>4, EntryFields DEF Refuse, FieldsOK
    <3>4. "step" \in DOMAIN job[i]  BY EntryFields DEF FieldsOK
    <3> QED  BY <3>1, <3>2, <3>4, OffFields
  <2> QED  BY <2>2, <2>3
<1> QED  BY <1>2, <1>3, <1>4

LEMMA RowsAppend ==
  ASSUME RowsInv, NEW r, rows' = Append(rows, r)
  PROVE  LET n == Len(rows) + 1 IN
         /\ n \notin DOMAIN rows /\ DOMAIN rows' = DOMAIN rows \cup {n} /\ rows'[n] = r
         /\ \A k \in DOMAIN rows : rows'[k] = rows[k]
<1>1. PICK s, S : s = rows /\ s \in Seq(S) /\ r \in S
  <2>1. PICK R : rows \in Seq(R)  BY DEF RowsInv, RowsOK
  <2>2. rows \in Seq(R \cup {r})  BY <2>1
  <2> QED  BY <2>2
<1>2. /\ Append(s, r) \in Seq(S) /\ Len(Append(s, r)) = Len(s) + 1 /\ Len(s) \in Nat
      /\ \A k \in 1..Len(s) : Append(s, r)[k] = s[k]
      /\ Append(s, r)[Len(s) + 1] = r
  BY <1>1, AppendProperties, LenProperties
<1>3. DOMAIN s = 1..Len(s) /\ DOMAIN Append(s, r) = 1..Len(s) + 1  BY <1>1, <1>2
<1>4. DOMAIN Append(s, r) = DOMAIN s \cup {Len(s) + 1} /\ Len(s) + 1 \notin DOMAIN s  BY <1>2, <1>3
<1> QED  BY <1>1, <1>2, <1>3, <1>4

LEMMA DeviceCreated ==
  ASSUME RowsInv, EntryInv, DeviceInv, NEW i \in Installs, CreateDevice(i)
  PROVE  DeviceInv'
<1>0. BlobOK' /\ UNCHANGED <<store, blob, accounts, sessions>>
  BY DEF DeviceInv, Shapes, BlobOK, CreateDevice, OnlyServer
<1>1. CASE Of[i] \notin accounts \/ Taken(Of[i], job[i].sent.num)
  BY <1>0, <1>1, DeviceRefused DEF CreateDevice
<1>2. CASE ~(Of[i] \notin accounts \/ Taken(Of[i], job[i].sent.num))
  <2> DEFINE n == Len(rows) + 1
             r == [of |-> Of[i], by |-> i, num |-> job[i].sent.num, reg |-> job[i].sent.reg,
                   key |-> job[i].sent.key, keys |-> FALSE, live |-> TRUE]
  <2>1. /\ rows' = Append(rows, r) /\ UNCHANGED <<at, past>> /\ job[i].step = "row"
        /\ job' = [job EXCEPT ![i].step = "keys", ![i].pk = n]
    BY <1>2 DEF CreateDevice
  <2>2. job[i] # NoJob  BY <2>1, OffFields
  <2>3. /\ n \notin DOMAIN rows /\ DOMAIN rows' = DOMAIN rows \cup {n} /\ rows'[n] = r
        /\ \A k \in DOMAIN rows : rows'[k] = rows[k]
    BY <2>1, RowsAppend
  <2>4. r.of = Of[i] /\ r.by = i /\ r.num = job[i].sent.num /\ r.key = job[i].sent.key
        /\ {"by", "num", "key"} \subseteq DOMAIN r
    OBVIOUS
  <2>5. Find(Of[i], job[i].sent.num) = {}  BY <1>2 DEF Taken
  <2> HIDE DEF n, r
  <2>6. PastGoes /\ DOMAIN past' = DOMAIN past  BY <2>1, PastStuck
  <2>7. RowsGo  BY <1>0, <2>2, <2>3, <2>4, <2>6 DEF RowsGo, PastGoes
  <2>8. RowsFit'
    <3>1. RowsFit  BY DEF DeviceInv
    <3>2. \A k \in DOMAIN rows' : /\ {"by", "num", "key"} \subseteq DOMAIN rows'[k]
                                  /\ rows'[k].by \in Installs /\ rows'[k].of = Of[rows'[k].by]
      BY <2>3, <2>4, <3>1 DEF RowsFit
    <3>3. \A k \in DOMAIN rows : ~(rows[k].live /\ rows[k].of = r.of /\ rows[k].num = r.num)
      BY <2>4, <2>5 DEF Find, RowsOf
    <3>4. \A k, q \in DOMAIN rows' :
            rows'[k].live /\ rows'[q].live /\ rows'[k].of = rows'[q].of /\ rows'[k].num = rows'[q].num => k = q
      BY <2>3, <3>1, <3>3 DEF RowsFit
    <3>5. ASSUME NEW s \in sessions'  PROVE rows'[s[1]].by = s[2] \/ s[2] \in past'.replaced
      <4>1. s \in sessions /\ s[1] \in DOMAIN rows  BY <1>0, <3>5 DEF RowsInv, Live
      <4>2. rows[s[1]].by = s[2] \/ s[2] \in past.replaced  BY <3>1, <4>1 DEF RowsFit
      <4> QED  BY <2>1, <2>3, <4>1, <4>2
    <3> QED  BY <3>2, <3>4, <3>5 DEF RowsFit
  <2>9. /\ Shape(i)' /\ KeyGoes(i) /\ \A j \in Installs \ {i} : Same(j)
        /\ job'[i].step = "keys" /\ job'[i].sent = job[i].sent
    <3>1. PICK s \in {"keys"}, k \in {n} : job' = [job EXCEPT ![i].step = s, ![i].pk = k]  BY <2>1
    <3>2. UNCHANGED <<at, store>>  BY <1>0, <2>1
    <3> QED  BY <2>2, <3>1, <3>2, JobGoes
  <2>10. job'[i].pk = n
    <3>1. DOMAIN job[i] = JobFields /\ DOMAIN job = Installs
      BY <2>2, EntryFields, DeviceFields DEF Shape, FieldsOK
    <3> QED  BY <2>1, <3>1 DEF JobFields
  <2>11. RequestFits(i)'  BY <2>3, <2>4, <2>9, <2>10 DEF RequestFits
  <2>12. Still(i)  BY <1>0, <2>1, <2>2, <2>9, <2>11 DEF Still
  <2> QED  BY <1>0, <2>6, <2>7, <2>8, <2>9, <2>12, DeviceOne
<1> QED  BY <1>1, <1>2

LEMMA DeviceAnswered ==
  ASSUME RowsInv, EntryInv, DeviceInv, NEW i \in Installs, StorePrekeys(i) \/ IssueSession(i)
  PROVE  DeviceInv'
<1>0. BlobOK' /\ UNCHANGED <<store, blob, accounts>>
  BY DEF DeviceInv, Shapes, BlobOK, StorePrekeys, IssueSession, OnlyServer
<1>1. PICK pk : pk = job[i].pk  OBVIOUS
<1>2. CASE StorePrekeys(i)
  <2>1. CASE ~Live(pk)  BY <1>0, <1>1, <1>2, <2>1, DeviceRefused DEF StorePrekeys
  <2>2. CASE Live(pk)
    <3>1. /\ rows' = [rows EXCEPT ![pk].keys = TRUE] /\ job' = [job EXCEPT ![i].step = "session"]
          /\ job[i].step = "keys" /\ UNCHANGED <<at, past, sessions>>
      BY <1>1, <1>2, <2>2 DEF StorePrekeys, Then
    <3>2. PastGoes /\ past.replaced \subseteq past'.replaced /\ DOMAIN past' = DOMAIN past
      BY <3>1, PastStuck
    <3>3. RowsGo /\ DOMAIN rows' = DOMAIN rows  BY <1>0, <3>1, <3>2, RowKeyed
    <3>4. RowsFit'  BY <3>1, <3>2, <3>3, RowsFitStays DEF DeviceInv
    <3>5. job[i] # NoJob  BY <3>1, OffFields
    <3>6. Shape(i)' /\ KeyGoes(i) /\ Still(i) /\ \A j \in Installs \ {i} : Same(j)
      <4>1. PICK s \in {"session"} : job' = [job EXCEPT ![i].step = s]  BY <3>1
      <4>2. UNCHANGED <<at, store>>  BY <1>0, <3>1
      <4> QED  BY <3>1, <3>5, <4>1, <4>2, JobSteps
    <3> QED  BY <1>0, <3>2, <3>3, <3>4, <3>6, DeviceOne
  <2> QED  BY <2>1, <2>2
<1>3. CASE IssueSession(i)
  <2>1. CASE ~Live(pk)  BY <1>0, <1>1, <1>3, <2>1, DeviceRefused DEF IssueSession
  <2>2. CASE Live(pk)
    <3>1. /\ sessions' = sessions \cup {<<pk, i>>} /\ job' = [job EXCEPT ![i] = NoJob]
          /\ job[i].step = "session" /\ UNCHANGED <<rows, past>>
          /\ at' = at \/ (at[i].pc = "wait" /\ at' = [at EXCEPT ![i].pc = "identity", ![i].token = pk])
      BY <1>1, <1>3, <2>2 DEF IssueSession, Waits
    <3>2. PastGoes /\ past.replaced \subseteq past'.replaced /\ DOMAIN past' = DOMAIN past
      BY <3>1, PastStuck
    <3>3. RowsGo /\ DOMAIN rows' = DOMAIN rows  BY <1>0, <3>1, <3>2, RowsSame
    <3>4. DeviceFits(i) /\ Shape(i) /\ FieldsOK /\ (Of[i] \in Bots => KeysAreOwn(i))
      BY EntryFields, DeviceFields
    <3>5. pk \in DOMAIN rows /\ rows[pk].by = i /\ rows[pk].num = job[i].sent.num
      BY <1>1, <3>1, <3>4 DEF DeviceFits, RequestFits
    <3>6. RowsFit'
      <4>1. \A s \in sessions' : \/ s \in sessions
                                 \/ s[1] \in DOMAIN rows /\ (rows[s[1]].by = s[2] \/ s[2] \in past.replaced)
        BY <3>1, <3>5
      <4> QED  BY <3>2, <3>3, <4>1, RowsFitStays DEF DeviceInv
    <3>7. job'[i] = NoJob /\ \A j \in Installs \ {i} : job'[j] = job[j]
      BY <3>1, <3>4 DEF FieldsOK
    <3>8. /\ at' = at \/ (/\ at[i].pc = "wait" /\ at'[i].pc = "identity"
                          /\ DOMAIN at'[i] = DOMAIN Off /\ at'[i].num = at[i].num /\ at'[i].key = at[i].key)
          /\ \A j \in Installs \ {i} : at'[j] = at[j]
      BY <3>1, <3>4, OffFields DEF FieldsOK, Shape
    <3>9. Shape(i)' /\ KeyGoes(i)
      BY <1>0, <3>4, <3>7, <3>8 DEF Shape, KeyGoes, KeysAreOwn
    <3>10. Still(i) \/ DeviceFits(i)'
      <4>1. CASE at' = at  BY <1>0, <3>7, <4>1 DEF Still
      <4>2. CASE at[i].pc = "wait" /\ at'[i].pc = "identity" /\ at'[i].num = at[i].num
        <5>1. at'[i].num = job[i].sent.num
          <6>1. job[i] # NoJob  BY <3>1, OffFields
          <6> QED  BY <3>4, <4>2, <6>1 DEF DeviceFits
        <5>2. OwnRow(i, at[i].num)'
          <6>1. rows[pk].live  BY <2>2 DEF Live
          <6> QED  BY <3>1, <3>5, <5>1, <6>1 DEF OwnRow
        <5>3. \A n : OwnRow(i, n) => OwnRow(i, n)'  BY <1>0, <3>1 DEF OwnRow
        <5>4. Of[i] \notin Bots /\ store'[i].num # 0 => OwnRow(i, store[i].num)'
          <6>1. PICK n : n = store[i].num /\ store' = store  BY <1>0
          <6>2. Of[i] \notin Bots /\ n # 0 => OwnRow(i, n)  BY <3>4, <6>1 DEF DeviceFits
          <6>3. Of[i] \notin Bots /\ n # 0 => OwnRow(i, n)'  BY <5>3, <6>2
          <6> QED  BY <6>1, <6>3
        <5>5. store'[i].priv = store'[i].reg \/ i \in past'.torn
          BY <1>0, <3>1, <3>4, <4>2 DEF DeviceFits
        <5>6. job'[i].step \notin {"keys", "session"}  BY <3>7, OffFields
        <5> QED  BY <4>2, <5>2, <5>4, <5>5, <5>6 DEF DeviceFits, SettledPcs
      <4> QED  BY <3>8, <4>1, <4>2
    <3>11. \A j \in Installs \ {i} : Same(j)  BY <1>0, <3>7, <3>8 DEF Same
    <3> QED  BY <1>0, <3>2, <3>3, <3>6, <3>9, <3>10, <3>11, DeviceOne
  <2> QED  BY <2>1, <2>2
<1> QED  BY <1>2, <1>3

LEMMA DeviceServed ==
  ASSUME RowsInv, EntryInv, DeviceInv, NEW i \in Installs, Serve(i)
  PROVE  DeviceInv'
BY DeviceFirst, DeviceDeleted, DeviceCreated, DeviceAnswered DEF Serve

\* An install does something by itself.
LEMMA DeviceMoves ==
  ASSUME RowsInv, EntryInv, DeviceInv, NEW i \in Installs, UNCHANGED <<rows, accounts, blob>>,
         sessions' \subseteq sessions, PastGoes, DOMAIN past' = DOMAIN past,
         Shape(i)', Still(i) \/ DeviceFits(i)', KeyGoes(i) \/ KeyIsNew(i),
         \A j \in Installs \ {i} : Same(j)
  PROVE  DeviceInv'
<1>1. BlobOK'  BY DEF DeviceInv, Shapes, BlobOK
<1> QED  BY <1>1, DeviceAside

\* ... and goes from one place to another, where nothing is asked of it.
LEMMA DeviceTurns ==
  ASSUME RowsInv, EntryInv, DeviceInv, NEW i \in Installs, UNCHANGED <<rows, accounts, blob, job>>,
         sessions' \subseteq sessions, PastGoes, DOMAIN past' = DOMAIN past,
         store'[i] = store[i] \/ (store'[i] = NoStore /\ at'[i].pc # "in"),
         \A j \in Installs \ {i} : at'[j] = at[j] /\ store'[j] = store[j],
         DOMAIN at'[i] = DOMAIN Off,
         at'[i].pc \notin {"prekeys", "upload", "identity", "device", "wait"},
         at'[i].pc = "in" => store[i].num # 0 \/ at[i].pc \in SettledPcs,
         at[i].pc = "prekeys" => i \in past'.torn,
         Of[i] \in Bots => at'[i].key \in {0, at[i].key} /\ at'[i].pc \notin {"register", "replace", "link"}
  PROVE  DeviceInv'
<1>1. Shape(i) /\ (Of[i] \in Bots => KeysAreOwn(i))  BY DeviceFields
<1>2. Shape(i)'  BY <1>1 DEF Shape
<1>3. Still(i)  BY DEF Still, SettledPcs
<1>4. KeyGoes(i)  BY <1>1, OffFields DEF KeyGoes, KeysAreOwn
<1>5. \A j \in Installs \ {i} : Same(j)  BY DEF Same
<1> QED  BY <1>2, <1>3, <1>4, <1>5, DeviceMoves

LEMMA DeviceSaves ==
  ASSUME RowsInv, EntryInv, DeviceInv, NEW i \in Installs, NEW a,
         Save(i) \/ UploadOneTimeKyber(i, a)
  PROVE  DeviceInv'
<1>0. /\ Shape(i) /\ DeviceFits(i) /\ (Of[i] \in Bots => KeysAreOwn(i)) /\ FieldsOK
      /\ UNCHANGED <<rows, accounts, blob, sessions, job>> /\ past' \in {past, Mishap}
  BY EntryFields, DeviceFields
  DEF Save, SaveIdentity, SaveDeviceAccount, SavePrekeys, UploadOneTimeKyber, serverVars
<1>1. PastGoes /\ DOMAIN past' = DOMAIN past  BY <1>0, PastStuck
<1>2. \A n : OwnRow(i, n) /\ UNCHANGED past => OwnRow(i, n)'  BY <1>0 DEF OwnRow
<1>3. CASE SaveIdentity(i)
  <2>1. /\ at[i].pc = "identity" /\ store' = [store EXCEPT ![i].key = at[i].key]
        /\ at' = Go(i, "device") /\ UNCHANGED past
    BY <1>3 DEF SaveIdentity
  <2>2. /\ DOMAIN at'[i] = DOMAIN Off /\ at'[i].pc = "device" /\ at'[i].key = at[i].key
        /\ at'[i].num = at[i].num
        /\ \A j \in Installs \ {i} : at'[j] = at[j]
    BY <2>1, AtWritten
  <2>3. /\ DOMAIN store'[i] = DOMAIN NoStore /\ store'[i].key = at[i].key
        /\ store'[i].num = store[i].num /\ store'[i].reg = store[i].reg /\ store'[i].priv = store[i].priv
        /\ \A j \in Installs \ {i} : store'[j] = store[j]
    BY <1>0, <2>1, OffFields DEF Shape, FieldsOK
  <2>4. Shape(i)' /\ KeyGoes(i)
    BY <1>0, <2>2, <2>3 DEF Shape, KeyGoes, KeysAreOwn
  <2>5. PICK n, m : n = store[i].num /\ m = at[i].num  OBVIOUS
  <2>6. Of[i] \notin Bots => OwnRow(i, m) /\ (n # 0 => OwnRow(i, n))
    BY <1>0, <2>1, <2>5 DEF DeviceFits
  <2>7. Of[i] \notin Bots => OwnRow(i, m)' /\ (n # 0 => OwnRow(i, n)')
    BY <1>2, <2>1, <2>6
  <2>8. RequestFits(i) => RequestFits(i)'  BY <1>0 DEF RequestFits
  <2>9. DeviceFits(i)'
    BY <1>0, <2>1, <2>2, <2>3, <2>5, <2>7, <2>8 DEF DeviceFits, SettledPcs
  <2>10. \A j \in Installs \ {i} : Same(j)  BY <1>0, <2>2, <2>3 DEF Same
  <2> QED  BY <1>0, <1>1, <2>4, <2>9, <2>10, DeviceMoves
<1>4. CASE SaveDeviceAccount(i)
  <2>1. /\ at[i].pc = "device" /\ store' = [store EXCEPT ![i].num = at[i].num, ![i].reg = at[i].reg]
        /\ at' = Go(i, "prekeys") /\ UNCHANGED past
    BY <1>4 DEF SaveDeviceAccount
  <2>2. /\ DOMAIN at'[i] = DOMAIN Off /\ at'[i].pc = "prekeys" /\ at'[i].key = at[i].key
        /\ at'[i].num = at[i].num /\ at'[i].reg = at[i].reg
        /\ \A j \in Installs \ {i} : at'[j] = at[j]
    BY <2>1, AtWritten
  <2>3. /\ DOMAIN store'[i] = DOMAIN NoStore /\ store'[i].key = store[i].key
        /\ store'[i].num = at[i].num /\ store'[i].reg = at[i].reg
        /\ \A j \in Installs \ {i} : store'[j] = store[j]
    BY <1>0, <2>1, OffFields DEF Shape, FieldsOK
  <2>4. Shape(i)' /\ KeyGoes(i)
    BY <1>0, <2>2, <2>3 DEF Shape, KeyGoes, KeysAreOwn
  <2>5. PICK m : m = at[i].num  OBVIOUS
  <2>6. Of[i] \notin Bots => OwnRow(i, m)  BY <1>0, <2>1, <2>5 DEF DeviceFits
  <2>7. Of[i] \notin Bots => OwnRow(i, m)'  BY <1>2, <2>1, <2>6
  <2>8. RequestFits(i) => RequestFits(i)'  BY <1>0 DEF RequestFits
  <2>9. DeviceFits(i)'
    BY <1>0, <2>1, <2>2, <2>3, <2>5, <2>7, <2>8 DEF DeviceFits, SettledPcs
  <2>10. \A j \in Installs \ {i} : Same(j)  BY <1>0, <2>2, <2>3 DEF Same
  <2> QED  BY <1>0, <1>1, <2>4, <2>9, <2>10, DeviceMoves
<1>5. CASE SavePrekeys(i)
  <2>1. /\ at[i].pc = "prekeys" /\ store' = [store EXCEPT ![i].priv = at[i].reg]
        /\ at' = Go(i, "upload") /\ UNCHANGED past
    BY <1>5 DEF SavePrekeys
  <2>2. /\ DOMAIN at'[i] = DOMAIN Off /\ at'[i].pc = "upload" /\ at'[i].key = at[i].key
        /\ \A j \in Installs \ {i} : at'[j] = at[j]
    BY <2>1, AtWritten
  <2>3. /\ DOMAIN store'[i] = DOMAIN NoStore /\ store'[i].key = store[i].key
        /\ store'[i].num = store[i].num /\ store'[i].reg = store[i].reg /\ store'[i].priv = at[i].reg
        /\ \A j \in Installs \ {i} : store'[j] = store[j]
    BY <1>0, <2>1, OffFields DEF Shape, FieldsOK
  <2>4. Shape(i)' /\ KeyGoes(i)
    BY <1>0, <2>2, <2>3 DEF Shape, KeyGoes, KeysAreOwn
  <2>5. PICK n : n = store[i].num  OBVIOUS
  <2>6. Of[i] \notin Bots => OwnRow(i, n)  BY <1>0, <2>1, <2>5 DEF DeviceFits, SettledPcs
  <2>7. Of[i] \notin Bots => OwnRow(i, n)'  BY <1>2, <2>1, <2>6
  <2>8. RequestFits(i) => RequestFits(i)'  BY <1>0 DEF RequestFits
  <2>9. DeviceFits(i)'
    BY <1>0, <2>1, <2>2, <2>3, <2>5, <2>7, <2>8 DEF DeviceFits, SettledPcs
  <2>10. \A j \in Installs \ {i} : Same(j)  BY <1>0, <2>2, <2>3 DEF Same
  <2> QED  BY <1>0, <1>1, <2>4, <2>9, <2>10, DeviceMoves
<1>6. CASE \E b : UploadOneTimeKyber(i, b)
  <2>1. PICK t : at' = [at EXCEPT ![i] = [Off EXCEPT !.pc = "in", !.token = t]]
                 \/ at' = [at EXCEPT ![i] = Off]
    BY <1>6 DEF UploadOneTimeKyber
  <2>2. at[i].pc = "upload" /\ UNCHANGED store  BY <1>6 DEF UploadOneTimeKyber
  <2>3. /\ DOMAIN at'[i] = DOMAIN Off /\ at'[i].pc \in {"in", "off"} /\ at'[i].key = 0
        /\ \A j \in Installs \ {i} : at'[j] = at[j]
    <3> DEFINE o == [Off EXCEPT !.pc = "in", !.token = t]
    <3>1. DOMAIN o = DOMAIN Off /\ o.pc = "in" /\ o.key = 0  BY OffFields
    <3>2. at' = [at EXCEPT ![i] = o] \/ at' = [at EXCEPT ![i] = Off]  BY <2>1
    <3> HIDE DEF o
    <3>3. (at'[i] = o \/ at'[i] = Off) /\ \A j \in Installs \ {i} : at'[j] = at[j]
      BY <1>0, <3>2 DEF FieldsOK
    <3> QED  BY <3>1, <3>3, OffFields
  <2> QED  BY <1>0, <1>1, <2>2, <2>3, DeviceTurns DEF SettledPcs
<1> QED  BY <1>3, <1>4, <1>5, <1>6 DEF Save

LEMMA DeviceRequests ==
  ASSUME RowsInv, EntryInv, DeviceInv, NEW i \in Installs,
         Register(i) \/ RequestReplace(i) \/ RequestLink(i)
  PROVE  DeviceInv'
<1>0. /\ Shape(i) /\ DeviceFits(i) /\ (Of[i] \in Bots => KeysAreOwn(i)) /\ FieldsOK
      /\ UNCHANGED <<rows, accounts, blob, sessions, store, past>>
  BY EntryFields, DeviceFields DEF Register, RequestReplace, RequestLink, Request, serverVars
<1>1. PastGoes /\ DOMAIN past' = DOMAIN past  BY <1>0, PastStuck
<1>2. PICK s \in {"admit", "consume"} :
         /\ job' = [job EXCEPT ![i] = [step |-> s, pk |-> 0, sent |-> at[i]]]
         /\ at' = Go(i, "wait") /\ at[i].pc \in {"register", "replace", "link"}
  BY DEF Register, RequestReplace, RequestLink, Request
<1>3. /\ DOMAIN at'[i] = DOMAIN Off /\ at'[i].pc = "wait" /\ at'[i].key = at[i].key
      /\ at'[i].num = at[i].num
      /\ \A j \in Installs \ {i} : at'[j] = at[j]
  BY <1>2, AtWritten
<1>4. /\ DOMAIN job'[i] = JobFields /\ job'[i].step = s /\ job'[i].sent = at[i]
      /\ \A j \in Installs \ {i} : job'[j] = job[j]
  BY <1>0, <1>2 DEF FieldsOK, JobFields
<1>5. Shape(i)'  BY <1>0, <1>3, <1>4 DEF Shape
<1>6. KeyGoes(i)  BY <1>0, <1>2, <1>3, <1>4 DEF KeyGoes, KeysAreOwn
<1>7. PICK n : n = store[i].num  OBVIOUS
<1>8. Of[i] \notin Bots /\ n # 0 => OwnRow(i, n)'
  BY <1>0, <1>7 DEF DeviceFits, OwnRow
<1>9. DeviceFits(i)'  BY <1>0, <1>2, <1>3, <1>4, <1>7, <1>8 DEF DeviceFits, SettledPcs
<1>10. \A j \in Installs \ {i} : Same(j)  BY <1>0, <1>3, <1>4 DEF Same
<1> QED  BY <1>0, <1>1, <1>5, <1>6, <1>9, <1>10, DeviceMoves

\* A token goes to the install that made the row, or to one whose device was
\* replaced and that has the same number and key.
LEMMA TokenIsOwn ==
  ASSUME RowsInv, DeviceInv, NEW i \in Installs, at[i].pc = "in",
         NEW pk \in Find(Of[i], store[i].num), rows[pk].key = store[i].key
  PROVE  pk \in DOMAIN rows /\ (rows[pk].by = i \/ i \in past.replaced)
<1>1. DeviceFits(i) /\ RowsFit /\ Of[i] \in People  BY DeviceFields, InstallsAssumption DEF DeviceInv
<1>2. /\ pk \in DOMAIN rows /\ rows[pk].live /\ rows[pk].of = Of[i] /\ rows[pk].num = store[i].num
      /\ rows[pk].by \in Installs /\ Of[rows[pk].by] = Of[i]
  BY <1>1 DEF Find, RowsOf, RowsFit
<1>3. Of[i] \in accounts  BY <1>1, <1>2 DEF RowsInv, Dead, RowsOf
<1>4. CASE Of[i] \notin Bots
  <2>1. OwnRow(i, store[i].num)  BY <1>1, <1>4 DEF DeviceFits, SettledPcs
  <2>2. PICK q \in DOMAIN rows : /\ rows[q].by = i /\ rows[q].num = store[i].num
                                 /\ rows[q].live \/ i \in past.replaced
    BY <1>3, <2>1 DEF OwnRow
  <2>3. rows[q].of = Of[i]  BY <1>1, <2>2 DEF RowsFit
  <2> QED  BY <1>1, <1>2, <2>2, <2>3 DEF RowsFit
<1>5. CASE Of[i] \in Bots
  <2>1. PICK j \in Installs : j = rows[pk].by  BY <1>2
  <2>2. KeysAreOwn(j) /\ KeysAreOwn(i)  BY <1>2, <1>5, <2>1, DeviceFields
  <2>3. PICK k : k = rows[pk].key  OBVIOUS
  <2>4. k # 0 /\ Holds(j, k) /\ Holds(i, k)  BY <1>2, <2>1, <2>2, <2>3 DEF KeysAreOwn, Holds
  <2>5. j = i  BY <1>2, <2>1, <2>2, <2>4 DEF KeysAreOwn
  <2> QED  BY <1>2, <2>1, <2>5
<1> QED  BY <1>2, <1>4, <1>5

LEMMA DeviceLogsIn ==
  ASSUME RowsInv, EntryInv, DeviceInv, NEW i \in Installs, IssueChallenge(i) \/ IssueToken(i)
  PROVE  DeviceInv'
<1>0. /\ Shape(i) /\ DeviceFits(i) /\ (Of[i] \in Bots => KeysAreOwn(i)) /\ FieldsOK
      /\ UNCHANGED <<rows, accounts, blob, store, job, past>> /\ at[i].pc = "in"
  BY EntryFields, DeviceFields DEF IssueChallenge, IssueToken
<1>1. PastGoes /\ DOMAIN past' = DOMAIN past  BY <1>0, PastStuck
<1>2. PICK v, w : at' \in {[at EXCEPT ![i].nonce = v], [at EXCEPT ![i].token = w, ![i].nonce = v]}
  <2>1. CASE IssueChallenge(i)  BY <2>1 DEF IssueChallenge
  <2>2. CASE IssueToken(i)  BY <2>2 DEF IssueToken
  <2> QED  BY <2>1, <2>2
<1>3. /\ DOMAIN at'[i] = DOMAIN Off /\ at'[i].pc = at[i].pc /\ at'[i].num = at[i].num
      /\ at'[i].reg = at[i].reg /\ at'[i].key = at[i].key
      /\ \A j \in Installs \ {i} : at'[j] = at[j]
  <2>1. DOMAIN at = Installs /\ DOMAIN at[i] = DOMAIN Off  BY <1>0 DEF FieldsOK, Shape
  <2>2. CASE at' = [at EXCEPT ![i].nonce = v]  BY <2>1, <2>2, OffFields
  <2>3. CASE at' = [at EXCEPT ![i].token = w, ![i].nonce = v]  BY <2>1, <2>3, OffFields
  <2> QED  BY <1>2, <2>2, <2>3
<1>4. Shape(i)' /\ Still(i) /\ KeyGoes(i) /\ \A j \in Installs \ {i} : Same(j)
  BY <1>0, <1>3 DEF Shape, Still, KeyGoes, KeysAreOwn, Same
<1>5. ASSUME NEW s \in sessions'
      PROVE  \/ s \in sessions
             \/ s[1] \in DOMAIN rows /\ (rows[s[1]].by = s[2] \/ s[2] \in past.replaced)
  <2>1. CASE IssueChallenge(i)  BY <1>5, <2>1 DEF IssueChallenge
  <2>2. CASE IssueToken(i)
    <3>1. PICK pk : pk = at[i].nonce[1]  OBVIOUS
    <3>2. CASE pk \in Find(Of[i], store[i].num) /\ rows[pk].key = store[i].key
      <4>1. s \in sessions \/ s = <<pk, i>>  BY <1>5, <2>2, <3>1, <3>2 DEF IssueToken
      <4>2. pk \in DOMAIN rows /\ (rows[pk].by = i \/ i \in past.replaced)
        BY <1>0, <3>2, TokenIsOwn
      <4> QED  BY <4>1, <4>2
    <3>3. CASE ~(pk \in Find(Of[i], store[i].num) /\ rows[pk].key = store[i].key)
      BY <1>5, <2>2, <3>1, <3>3 DEF IssueToken
    <3> QED  BY <3>2, <3>3
  <2> QED  BY <2>1, <2>2
<1>6. RowsGo  BY <1>0, RowsSame
<1>7. RowsFit'  BY <1>0, <1>5, <1>6, RowsFitStays DEF DeviceInv
<1>8. BlobOK'  BY <1>0 DEF DeviceInv, Shapes, BlobOK
<1> QED  BY <1>1, <1>4, <1>6, <1>7, <1>8, DeviceOne

LEMMA DeviceWorks ==
  ASSUME RowsInv, EntryInv, DeviceInv, NEW i \in Installs,
         \/ SubmitGenesis(i) \/ (\E a : SubmitUpdate(i, a))
         \/ SendBundle(i) \/ AwaitLink(i) \/ Tombstone(i) \/ Wipe(i)
  PROVE  DeviceInv'
<1>0. /\ InstallFits(i) /\ FieldsOK /\ UNCHANGED <<rows, accounts, blob, sessions, job>>
  BY EntryFields
  DEF SubmitGenesis, SubmitUpdate, SendBundle, AwaitLink, Tombstone, Wipe, serverVars
<1>1. ASSUME NEW v, past' \in {past, Stuck(v)}  PROVE PastGoes /\ DOMAIN past' = DOMAIN past
  BY <1>1, PastStuck
<1>2. CASE SubmitGenesis(i) \/ Tombstone(i)
  <2>1. PICK p \in {"update", "wipe"} : at' = Go(i, p)  BY <1>2 DEF SubmitGenesis, Tombstone
  <2>2. UNCHANGED <<store, past>> /\ at[i].pc \in {"genesis", "tombstone"}
    BY <1>2 DEF SubmitGenesis, Tombstone
  <2> QED  BY <1>0, <1>1, <2>1, <2>2, AtWritten, DeviceTurns
<1>3. CASE \E a : SubmitUpdate(i, a)
  <2>1. at' = Go(i, "register") \/ at' = Home(i)  BY <1>3 DEF SubmitUpdate
  <2>2. at[i].pc = "update" /\ UNCHANGED store /\ past' \in {past, Stuck({Of[i]})}
    BY <1>3 DEF SubmitUpdate
  <2>3. Of[i] \notin Bots  BY <1>0, <2>2 DEF InstallFits
  <2>4. PastGoes /\ DOMAIN past' = DOMAIN past  BY <1>1, <2>2
  <2> QED  BY <1>0, <2>1, <2>2, <2>3, <2>4, AtWritten, DeviceTurns
<1>4. CASE SendBundle(i)
  <2>1. UNCHANGED <<store, past, at>>  BY <1>4 DEF SendBundle
  <2>2. Same(i) /\ \A j \in Installs \ {i} : Same(j)  BY <1>0, <2>1 DEF Same
  <2>3. PastGoes /\ DOMAIN past' = DOMAIN past  BY <1>1, <2>1
  <2> QED  BY <1>0, <2>2, <2>3, SameGoes, DeviceMoves
<1>5. CASE AwaitLink(i)
  <2>1. /\ past' = [past EXCEPT !.attempts = past.attempts + 1] /\ UNCHANGED store
        /\ at[i].pc = "pair" /\ Of[i] \notin Bots
    BY <1>5 DEF AwaitLink
  <2>2. PastGoes /\ DOMAIN past' = DOMAIN past  BY <2>1 DEF PastGoes, DeviceInv, Shapes
  <2>3. PICK a : at' = [at EXCEPT ![i] = a] /\ DOMAIN a = DOMAIN Off /\ a.pc = "link"
    <3> DEFINE a == [Off EXCEPT !.pc = "link", !.op = "link", !.key = pairing.key,
                        !.num = pairing.num, !.reg = past.attempts + 1, !.nonce = pairing.nonce]
    <3>1. at' = [at EXCEPT ![i] = a]  BY <1>5 DEF AwaitLink
    <3>2. DOMAIN a = DOMAIN Off /\ a.pc = "link"  BY OffFields
    <3> QED  BY <3>1, <3>2
  <2>4. /\ DOMAIN at'[i] = DOMAIN Off /\ at'[i].pc = "link" /\ \A j \in Installs \ {i} : at'[j] = at[j]
    BY <1>0, <2>3 DEF FieldsOK
  <2> QED  BY <1>0, <2>1, <2>2, <2>4, DeviceTurns
<1>6. CASE Wipe(i)
  <2>1. /\ at' = Home(i) /\ store' = [store EXCEPT ![i] = NoStore] /\ UNCHANGED past /\ at[i].pc = "wipe"
    BY <1>6 DEF Wipe
  <2>2. store'[i] = NoStore /\ \A j \in Installs \ {i} : store'[j] = store[j]
    BY <1>0, <2>1 DEF FieldsOK
  <2>3. PastGoes /\ DOMAIN past' = DOMAIN past  BY <1>1, <2>1
  <2> QED  BY <1>0, <2>1, <2>2, <2>3, AtWritten, DeviceTurns
<1> QED  BY <1>2, <1>3, <1>4, <1>5, <1>6

LEMMA DeviceLeaves ==
  ASSUME RowsInv, EntryInv, DeviceInv, NEW i \in Installs, DeleteAccount(Of[i]),
         UNCHANGED <<store, job>>, PastGoes, DOMAIN past' = DOMAIN past,
         at' = at \/ (at[i].pc = "in" /\ at' = Go(i, "tombstone"))
  PROVE  DeviceInv'
<1>1. PICK x \in People : x = Of[i]  BY InstallsAssumption
<1>2. /\ DOMAIN rows' = DOMAIN rows /\ accounts' = accounts \ {x} /\ sessions' \subseteq sessions
      /\ blob' = [blob EXCEPT ![x] = 0]
      /\ \A k \in DOMAIN rows : rows'[k] = IF k \in RowsOf(x) THEN [rows[k] EXCEPT !.live = FALSE] ELSE rows[k]
  BY <1>1 DEF DeleteAccount
<1>3. ASSUME NEW k \in DOMAIN rows
      PROVE  /\ DOMAIN rows'[k] = DOMAIN rows[k] /\ rows'[k].of = rows[k].of
             /\ rows'[k].by = rows[k].by /\ rows'[k].num = rows[k].num /\ rows'[k].key = rows[k].key
             /\ rows'[k].live => rows[k].live
             /\ rows[k].live => rows'[k].live \/ rows[k].of \notin accounts'
  <2>1. CASE k \notin RowsOf(x)  BY <1>2, <2>1
  <2>2. CASE k \in RowsOf(x)
    <3>1. rows'[k] = [rows[k] EXCEPT !.live = FALSE] /\ rows[k].of = x /\ rows[k].live
      BY <1>2, <2>2 DEF RowsOf
    <3> QED  BY <1>2, <3>1
  <2> QED  BY <2>1, <2>2
<1>4. RowsGo  BY <1>2, <1>3 DEF RowsGo, PastGoes
<1>5. RowsFit'  BY <1>2, <1>4, RowsFitStays DEF DeviceInv, PastGoes
<1>6. BlobOK'  BY <1>1, <1>2 DEF BlobOK, DeviceInv, Shapes
<1>7. Shape(i)' /\ Still(i) /\ KeyGoes(i) /\ \A j \in Installs \ {i} : Same(j)
  <2>1. CASE at' = at  BY <2>1, SameGoes DEF Same
  <2>2. CASE at[i].pc = "in" /\ at' = Go(i, "tombstone")
    <3>1. /\ DOMAIN at'[i] = DOMAIN Off /\ at'[i].pc = "tombstone" /\ at'[i].key = at[i].key
          /\ \A j \in Installs \ {i} : at'[j] = at[j]
      BY <2>2, AtWritten
    <3>2. Still(i)  BY <2>2, <3>1 DEF Still, SettledPcs
    <3>3. Shape(i)' /\ KeyGoes(i)  BY <3>1, DeviceFields DEF Shape, KeyGoes, KeysAreOwn
    <3> QED  BY <3>1, <3>2, <3>3 DEF Same
  <2> QED  BY <2>1, <2>2
<1> QED  BY <1>4, <1>5, <1>6, <1>7, DeviceOne

\* A new attempt of a bot: its key is new.
LEMMA DevicePrepares ==
  ASSUME RowsInv, EntryInv, DeviceInv, NEW i \in Installs, NEW cred, Prepare(i, cred)
  PROVE  DeviceInv'
<1>0. /\ Shape(i) /\ (Of[i] \in Bots => KeysAreOwn(i)) /\ FieldsOK
      /\ UNCHANGED <<rows, accounts, blob, sessions, job, store>> /\ at[i].pc = "new"
      /\ past' = [past EXCEPT !.attempts = past.attempts + 1]
  BY EntryFields, DeviceFields DEF Prepare, serverVars
<1>1. PastGoes /\ DOMAIN past' = DOMAIN past /\ past'.attempts = past.attempts + 1
  BY <1>0 DEF PastGoes, DeviceInv, Shapes
<1>2. PICK a :
         /\ a.pc \in {"register", "genesis"} /\ (a.pc = "register" <=> Of[i] \in Bots)
         /\ at' = [at EXCEPT ![i] = a]
         /\ DOMAIN a = DOMAIN Off /\ a.key = past.attempts + 1
  <2> DEFINE p == IF Of[i] \in Bots THEN "register" ELSE "genesis"
             a == [Off EXCEPT !.op = "register", !.key = past.attempts + 1, !.num = 1,
                     !.reg = past.attempts + 1, !.cred = cred, !.pc = p]
  <2>1. at' = [at EXCEPT ![i] = a]  BY DEF Prepare
  <2>2. DOMAIN a = DOMAIN Off /\ a.pc = p /\ a.key = past.attempts + 1  BY OffFields
  <2>3. p \in {"register", "genesis"} /\ (p = "register" <=> Of[i] \in Bots)  OBVIOUS
  <2> QED  BY <2>1, <2>2, <2>3
<1>3. /\ DOMAIN at'[i] = DOMAIN Off /\ at'[i].pc = a.pc /\ at'[i].key = past.attempts + 1
      /\ \A j \in Installs \ {i} : at'[j] = at[j]
  BY <1>0, <1>2 DEF FieldsOK
<1>4. Shape(i)' /\ Still(i) /\ \A j \in Installs \ {i} : Same(j)
  BY <1>0, <1>2, <1>3 DEF Shape, Still, SettledPcs, Same
<1>5. KeyGoes(i) \/ KeyIsNew(i)
  BY <1>0, <1>1, <1>2, <1>3 DEF KeyGoes, KeyIsNew
<1> QED  BY <1>0, <1>1, <1>4, <1>5, DeviceMoves

LEMMA DeviceUsers ==
  ASSUME RowsInv, EntryInv, DeviceInv, NEW i \in Installs, User(i) \/ \E a : DeleteIdentity(i, a)
  PROVE  DeviceInv'
<1>0. /\ FieldsOK /\ Shape(i) /\ DeviceFits(i) /\ (Of[i] \in Bots => KeysAreOwn(i))
      /\ {"torn", "replaced", "attempts"} \subseteq DOMAIN past /\ past.attempts \in Nat
  BY EntryFields, DeviceFields
<1>1. past' = past => PastGoes /\ DOMAIN past' = DOMAIN past  BY PastStuck
<1>2. CASE Start(i)
  <2>1. /\ UNCHANGED <<rows, accounts, blob, sessions, job, store, past>> /\ at[i].pc = "off"
        /\ at' = Go(i, IF store[i].num # 0 THEN "in" ELSE "new")
    BY <1>2 DEF Start, serverVars, Go
  <2>2. PICK p \in {"in", "new"} : at' = Go(i, p) /\ (p = "in" => store[i].num # 0)
    BY <2>1
  <2> QED  BY <1>1, <2>1, <2>2, AtWritten, DeviceTurns
<1>3. ASSUME NEW cred, Prepare(i, cred)  PROVE DeviceInv'  BY <1>3, DevicePrepares
<1>4. CASE Recover(i)
  <2>1. /\ UNCHANGED <<rows, accounts, blob, sessions, job, store>> /\ at[i].pc = "new"
        /\ past' = [past EXCEPT !.attempts = past.attempts + 1] /\ blob[Of[i]] # 0
    BY <1>4 DEF Recover
  <2>2. Of[i] \notin Bots  BY <2>1 DEF DeviceInv, Shapes
  <2>3. PastGoes /\ DOMAIN past' = DOMAIN past  BY <1>0, <2>1 DEF PastGoes
  <2>4. PICK a : at' = [at EXCEPT ![i] = a] /\ DOMAIN a = DOMAIN Off /\ a.pc = "replace"
    <3> DEFINE aa(pk) == [Off EXCEPT !.pc = "replace", !.op = "replace", !.key = blob[Of[i]],
                             !.num = rows[pk].num, !.reg = past.attempts + 1,
                             !.nonce = <<pk, i, "replace">>]
    <3>1. PICK pk : at' = [at EXCEPT ![i] = aa(pk)]  BY <1>4 DEF Recover
    <3> DEFINE a == aa(pk)
    <3>2. DOMAIN a = DOMAIN Off /\ a.pc = "replace"  BY OffFields
    <3> QED  BY <3>1, <3>2
  <2>5. /\ DOMAIN at'[i] = DOMAIN Off /\ at'[i].pc = "replace" /\ \A j \in Installs \ {i} : at'[j] = at[j]
    BY <1>0, <2>4 DEF FieldsOK
  <2> QED  BY <2>1, <2>2, <2>3, <2>5, DeviceTurns
<1>5. CASE CreatePairing(i)
  <2>1. /\ UNCHANGED <<rows, accounts, blob, sessions, job, store, past>> /\ at[i].pc = "new"
        /\ at' = Go(i, "pair")
    BY <1>5 DEF CreatePairing, serverVars
  <2> QED  BY <1>1, <2>1, AtWritten, DeviceTurns
<1>6. CASE AcceptPairing(i) \/ Attach(i)
  <2>1. UNCHANGED <<rows, accounts, blob, sessions, job, store, past, at>>
    BY <1>6 DEF AcceptPairing, Attach, serverVars
  <2>2. Same(i) /\ \A j \in Installs \ {i} : Same(j)  BY <2>1 DEF Same
  <2> QED  BY <1>1, <2>1, <2>2, SameGoes, DeviceMoves
<1>7. CASE LeaveServer(i)
  <2>1. /\ UNCHANGED <<store, at, job>> /\ DeleteAccount(Of[i])
        /\ past' = [Mishap EXCEPT !.left = @ \cup {Of[i]}]
    BY <1>7 DEF LeaveServer
  <2>2. PastGoes /\ DOMAIN past' = DOMAIN past  BY <1>0, <2>1 DEF Mishap, PastGoes
  <2> QED  BY <2>1, <2>2, DeviceLeaves
<1>8. ASSUME NEW a, DeleteIdentity(i, a)  PROVE DeviceInv'
  <2>1. UNCHANGED <<store, job>> /\ at' = Go(i, "tombstone") /\ at[i].pc = "in"
    BY <1>8 DEF DeleteIdentity
  <2>2. PICK v : \/ DeleteAccount(Of[i]) /\ past' = [Mishap EXCEPT !.left = v]
                 \/ UNCHANGED serverVars /\ past' = [Mishap EXCEPT !.undeleted = v]
    BY <1>8 DEF DeleteIdentity
  <2>3. PastGoes /\ DOMAIN past' = DOMAIN past
    <3>1. CASE past' = [Mishap EXCEPT !.left = v]  BY <1>0, <3>1 DEF Mishap, PastGoes
    <3>2. CASE past' = [Mishap EXCEPT !.undeleted = v]  BY <1>0, <3>2 DEF Mishap, PastGoes
    <3> QED  BY <2>2, <3>1, <3>2
  <2>4. CASE DeleteAccount(Of[i])  BY <2>1, <2>3, <2>4, DeviceLeaves
  <2>5. CASE UNCHANGED serverVars
    <3>1. UNCHANGED <<rows, accounts, blob, sessions>>  BY <2>5 DEF serverVars
    <3> QED  BY <2>1, <2>3, <3>1, AtWritten, DeviceTurns
  <2> QED  BY <2>2, <2>4, <2>5
<1> QED  BY <1>2, <1>3, <1>4, <1>5, <1>6, <1>7, <1>8 DEF User

\* An end or a loss, and the end of a pairing, which takes the other side back.
LEMMA DeviceBack ==
  ASSUME RowsInv, EntryInv, DeviceInv, UNCHANGED <<rows, accounts, blob>>,
         sessions' \subseteq sessions, PastGoes, DOMAIN past' = DOMAIN past,
         \A i \in Installs :
            /\ \/ at'[i] = at[i]
               \/ /\ DOMAIN at'[i] = DOMAIN Off /\ at'[i].pc \in {"off", "new", "pair"}
                  /\ at'[i].key \in {0, at[i].key} /\ (at[i].pc = "prekeys" => i \in past'.torn)
            /\ job'[i] \in {job[i], NoJob}
            /\ store'[i] = store[i] \/ (store'[i] = NoStore /\ at'[i].pc = "off")
  PROVE  DeviceInv'
<1>1. ASSUME NEW i \in Installs  PROVE Shape(i)' /\ Still(i) /\ KeyGoes(i)
  <2>1. Shape(i) /\ (Of[i] \in Bots => KeysAreOwn(i))  BY DeviceFields
  <2>2. Shape(i)'  BY <2>1, OffFields DEF Shape
  <2>3. Still(i)  BY DEF Still, SettledPcs
  <2>4. KeyGoes(i)  BY <2>1, OffFields DEF KeyGoes, KeysAreOwn
  <2> QED  BY <2>2, <2>3, <2>4
<1>2. RowsGo  BY RowsSame DEF PastGoes
<1>3. RowsFit'  BY <1>2, RowsFitStays DEF DeviceInv, PastGoes
<1>4. Shapes'  BY <1>1 DEF DeviceInv, Shapes, PastGoes
<1> QED  BY <1>1, <1>2, <1>3, <1>4, DeviceKept

LEMMA UnpairedGoes ==
  ASSUME DeviceInv, EntryInv, NEW i \in Installs
  PROVE  \/ Unpaired(at)[i] = at[i]
         \/ /\ DOMAIN Unpaired(at)[i] = DOMAIN Off /\ Unpaired(at)[i].pc = "new"
            /\ Unpaired(at)[i].key = 0 /\ at[i].pc = "pair"
BY OffFields DEF Unpaired

LEMMA DeviceMishaps ==
  ASSUME RowsInv, EntryInv, DeviceInv, NEW i \in Installs,
         Exit(i) \/ Lose(i) \/ DropRequest(i) \/ TimeOut(i)
  PROVE  DeviceInv'
<1>0. /\ FieldsOK /\ UNCHANGED <<rows, accounts, blob, sessions>>
      /\ {"torn", "replaced", "attempts"} \subseteq DOMAIN past /\ past.attempts \in Nat
  BY EntryFields, DeviceFields DEF Exit, Lose, DropRequest, TimeOut, serverVars
<1>1. CASE Exit(i)
  <2>1. UNCHANGED <<job, store>>  BY <1>1 DEF Exit
  <2>2. PICK a \in {at, Unpaired(at)} : at' = [a EXCEPT ![i] = Off]  BY <1>1 DEF Exit
  <2>3. \A j \in Installs \ {i} : at'[j] = a[j]
    BY <1>0, <2>2 DEF Unpaired, FieldsOK
  <2>4. at'[i] = Off  BY <1>0, <2>2 DEF Unpaired, FieldsOK
  <2>5. PastGoes /\ DOMAIN past' = DOMAIN past /\ (at[i].pc = "prekeys" => i \in past'.torn)
    <3>1. CASE past' = past /\ at[i].pc # "prekeys"  BY <3>1, PastStuck
    <3>2. CASE past' # past \/ at[i].pc = "prekeys"
      <4>1. past' = [Stuck(Unsaved(i)) EXCEPT !.torn = IF at[i].pc = "prekeys" THEN @ \cup {i} ELSE @]
        BY <1>1, <3>2 DEF Exit
      <4>2. PICK u : u = Stuck(Unsaved(i))  OBVIOUS
      <4>3. DOMAIN u = DOMAIN past /\ u.torn = past.torn /\ u.replaced = past.replaced
            /\ u.attempts = past.attempts
        BY <1>0, <4>2 DEF Stuck
      <4>4. past' = [u EXCEPT !.torn = IF at[i].pc = "prekeys" THEN u.torn \cup {i} ELSE u.torn]
        BY <4>1, <4>2
      <4> HIDE <4>1
      <4> QED  BY <1>0, <4>3, <4>4 DEF PastGoes
    <3> QED  BY <3>1, <3>2
  <2>6. \A j \in Installs :
            /\ \/ at'[j] = at[j]
               \/ /\ DOMAIN at'[j] = DOMAIN Off /\ at'[j].pc \in {"off", "new", "pair"}
                  /\ at'[j].key \in {0, at[j].key} /\ (at[j].pc = "prekeys" => j \in past'.torn)
            /\ job'[j] \in {job[j], NoJob}
            /\ store'[j] = store[j]
    <3> TAKE j \in Installs
    <3>1. CASE j = i  BY <2>1, <2>4, <2>5, <3>1, OffFields
    <3>2. CASE j # i  BY <2>1, <2>2, <2>3, <3>2, UnpairedGoes
    <3> QED  BY <3>1, <3>2
  <2> QED  BY <1>0, <2>5, <2>6, DeviceBack
<1>2. CASE Lose(i)
  <2>1. UNCHANGED <<job, at, past>> /\ store' = [store EXCEPT ![i] = NoStore] /\ at[i].pc = "off"
    BY <1>2 DEF Lose
  <2>2. store'[i] = NoStore /\ \A j \in Installs \ {i} : store'[j] = store[j]
    BY <1>0, <2>1 DEF FieldsOK
  <2>3. PastGoes /\ DOMAIN past' = DOMAIN past  BY <2>1, PastStuck
  <2> QED  BY <1>0, <2>1, <2>2, <2>3, DeviceBack
<1>3. CASE DropRequest(i) \/ TimeOut(i)
  <2>1. UNCHANGED store /\ (job' = job \/ job' = [job EXCEPT ![i] = NoJob])
        /\ (at' = at \/ (at[i].pc = "wait" /\ (at' = Go(i, "pair") \/ at' = Home(i))))
    BY <1>3 DEF DropRequest, TimeOut, Waits
  <2>2. PICK v : past' = Stuck(v)  BY <1>3 DEF DropRequest, TimeOut
  <2>3. PastGoes /\ DOMAIN past' = DOMAIN past  BY <2>2, PastStuck
  <2>4. \A j \in Installs : job'[j] \in {job[j], NoJob}  BY <1>0, <2>1 DEF FieldsOK
  <2>5. \A j \in Installs :
          \/ at'[j] = at[j]
          \/ /\ DOMAIN at'[j] = DOMAIN Off /\ at'[j].pc \in {"off", "new", "pair"}
             /\ at'[j].key \in {0, at[j].key} /\ at[j].pc # "prekeys"
    BY <2>1, AtWritten
  <2> QED  BY <1>0, <2>1, <2>3, <2>4, <2>5, DeviceBack
<1> QED  BY <1>1, <1>2, <1>3

LEMMA DeviceSteps ==
  ASSUME RowsInv, EntryInv, DeviceInv, [Next]_vars
  PROVE  DeviceInv'
<1>1. CASE \E i \in Installs : Work(i) \/ User(i) \/ Mishaps(i)
  <2>1. PICK i \in Installs : Work(i) \/ User(i) \/ Mishaps(i)  BY <1>1
  <2>2. CASE Work(i)
    BY <2>2, DeviceServed, DeviceSaves, DeviceRequests, DeviceLogsIn, DeviceWorks DEF Work
  <2>3. CASE User(i)  BY <2>3, DeviceUsers
  <2>4. CASE Mishaps(i)
    BY <2>4, DeviceWorks, DeviceSaves, DeviceUsers, DeviceMishaps DEF Mishaps
  <2> QED  BY <2>1, <2>2, <2>3, <2>4
<1>2. CASE UNCHANGED <<rows, accounts, blob, sessions, at, job, store, past>>
  <2>1. PastGoes /\ DOMAIN past' = DOMAIN past  BY <1>2, PastStuck
  <2> QED  BY <1>2, <2>1, DeviceBack
<1>3. CASE (\E x \in People : SweepAttachments(x)) \/ InstallGatekeeper
  BY <1>2, <1>3 DEF SweepAttachments, InstallGatekeeper, serverVars
<1>4. CASE ExpirePairing
  <2>1. UNCHANGED <<rows, accounts, blob, sessions, job, store>> /\ at' = Unpaired(at) /\ past' = Mishap
    BY <1>4 DEF ExpirePairing, serverVars
  <2>2. PastGoes /\ DOMAIN past' = DOMAIN past  BY <2>1, PastStuck
  <2>3. \A j \in Installs :
          \/ at'[j] = at[j]
          \/ /\ DOMAIN at'[j] = DOMAIN Off /\ at'[j].pc = "new" /\ at'[j].key = 0 /\ at[j].pc = "pair"
    BY <2>1, UnpairedGoes
  <2> QED  BY <2>1, <2>2, <2>3, DeviceBack
<1>5. CASE Logins
  <2>1. UNCHANGED <<rows, blob, sessions, at, job, store, past>>
    BY <1>5 DEF Logins, BeginLogin, Consent, Collect, LoginMishap, LoginGoesOn, otherAccount
  <2>2. UNCHANGED accounts
    <3>1. CASE BeginLogin \/ Consent \/ Collect \/ LoginMishap
      BY <3>1 DEF BeginLogin, DeviceAuthorization, AuthorizeCode, Consent, DeviceApprove, Collect,
                  TokenAuthorizationCode, TokenDeviceCode, LoginMishap, HangUp
    <3>2. CASE LoginGoesOn
      BY <3>2 DEF LoginGoesOn, LoginWork, LoginTime, MintForApproval, ApproveDevice,
                  MarkPolled, Consume, MintForCode, PollInterval, ExpireGrant, SweepGrant
    <3> QED  BY <1>5, <3>1, <3>2 DEF Logins
  <2> QED  BY <1>2, <2>1, <2>2
<1>6. CASE UNCHANGED vars  BY <1>2, <1>6 DEF vars, loginVars, otherAccount
<1> QED  BY <1>1, <1>3, <1>4, <1>5, <1>6 DEF Next

LEMMA DeviceBegins ==
  ASSUME Init
  PROVE  DeviceInv
<1> DEFINE s == bound.settled
<1>1. /\ accounts = {x \in People : OrderOf(x) # 0}
      /\ rows = [k \in DOMAIN s |-> [of |-> Of[s[k]], by |-> s[k], num |-> 1, reg |-> k,
                                     key |-> k, keys |-> TRUE, live |-> TRUE]]
      /\ store = [i \in Installs |-> IF Order(i) = 0 THEN NoStore
                    ELSE [key |-> Order(i), num |-> 1, reg |-> Order(i), priv |-> Order(i)]]
      /\ at = [i \in Installs |-> Off] /\ job = [i \in Installs |-> NoJob] /\ sessions = {}
      /\ blob = [x \in People |-> IF x \in Bots THEN 0 ELSE OrderOf(x)]
      /\ past = [attempts |-> Len(s), stuck |-> {}, torn |-> {}, replaced |-> {},
                 by |-> {}, left |-> {}, undeleted |-> {}, mishap |-> FALSE]
  BY DEF Init
<1>2. /\ DOMAIN s = 1..Len(s) /\ Len(s) \in Nat
      /\ \A k \in DOMAIN s : s[k] \in Installs /\ k \in Nat /\ k # 0 /\ Order(s[k]) = k /\ OrderOf(Of[s[k]]) = k
  <2>1. s \in Seq(Installs)  BY OrderFits
  <2> QED  BY <2>1, OrderFits
<1>3. ASSUME NEW i, Order(i) # 0  PROVE Order(i) \in DOMAIN s /\ s[Order(i)] = i
  <2>1. i \in ToSet(s)  BY <1>3 DEF Order
  <2>2. PICK k \in DOMAIN s : i = s[k]  BY <2>1 DEF ToSet
  <2> QED  BY <1>2, <2>2
<1>4. Shapes
  <2>1. Bots \subseteq People  BY InstallsAssumption
  <2>2. \A i \in Installs : Shape(i)  BY <1>1, OffFields DEF Shape
  <2> QED  BY <1>1, <1>2, <2>1, <2>2 DEF Shapes
<1>5. DOMAIN rows = DOMAIN s
      /\ \A k \in DOMAIN rows : /\ {"by", "num", "key"} \subseteq DOMAIN rows[k] /\ rows[k].live
                                /\ rows[k].of = Of[s[k]] /\ rows[k].by = s[k] /\ rows[k].num = 1
                                /\ rows[k].key = k
  BY <1>1
<1>6. RowsFit
  <2>1. \A k, q \in DOMAIN rows : rows[k].of = rows[q].of => k = q  BY <1>2, <1>5
  <2> QED  BY <1>1, <1>2, <1>5, <2>1 DEF RowsFit
<1>7. ASSUME NEW i \in Installs
      PROVE  /\ at[i].pc = "off" /\ at[i].key = 0 /\ job[i] = NoJob /\ job[i].step = "none"
             /\ store[i].key = Order(i) /\ store[i].priv = store[i].reg
             /\ store[i].num = IF Order(i) = 0 THEN 0 ELSE 1
  BY <1>1, OffFields
<1>8. ASSUME NEW i \in Installs  PROVE DeviceFits(i)
  <2>1. CASE Order(i) = 0  BY <1>7, <2>1 DEF DeviceFits, SettledPcs
  <2>2. CASE Order(i) # 0
    <3>1. Order(i) \in DOMAIN rows /\ rows[Order(i)].by = i /\ rows[Order(i)].num = 1 /\ rows[Order(i)].live
      BY <1>3, <1>5, <2>2
    <3>2. OwnRow(i, 1)  BY <3>1 DEF OwnRow
    <3> QED  BY <1>7, <2>2, <3>2 DEF DeviceFits, SettledPcs
  <2> QED  BY <2>1, <2>2
<1>9. ASSUME NEW i \in Installs  PROVE KeysAreOwn(i)
  <2>1. ASSUME NEW j \in Installs, NEW k, k # 0, Holds(j, k)  PROVE k = Order(j)
    <3>1. CASE store[j].key = k  BY <1>7, <3>1
    <3>2. CASE \E q \in DOMAIN rows : rows[q].by = j /\ rows[q].key = k  BY <1>2, <1>5, <3>2
    <3> QED  BY <1>7, <2>1, <3>1, <3>2 DEF Holds
  <2>2. ASSUME NEW k, k # 0, Holds(i, k)
        PROVE  k \in 1..past.attempts /\ \A j \in Installs : Of[j] = Of[i] /\ Holds(j, k) => j = i
    <3>1. k = Order(i) /\ k \in DOMAIN s /\ s[k] = i  BY <1>3, <2>1, <2>2
    <3>2. \A j \in Installs : Holds(j, k) => s[k] = j  BY <1>3, <2>1, <2>2
    <3>3. past.attempts = Len(s)  BY <1>1
    <3> QED  BY <1>2, <3>1, <3>2, <3>3
  <2>3. \A q \in DOMAIN rows : rows[q].key # 0  BY <1>2, <1>5
  <2> QED  BY <1>7, <2>2, <2>3 DEF KeysAreOwn
<1> QED  BY <1>4, <1>6, <1>8, <1>9 DEF DeviceInv

\* However signups, recoveries, links and losses interleave, a number means one
\* device of an account, a session is held by the install that made the device
\* or by one whose device was replaced, and an install that is in holds the
\* prekeys that are given out for it, unless it ended before saving them
\* (devices::create, issue_token, link_device, replace_device).
THEOREM DevicesFitAlways == AccountsSpec => []DevicesFit
<1>1. Init => LoginTypeOK /\ LoginInv /\ RowsInv /\ EntryInv /\ DeviceInv
  BY LoginBegins, RowsBegin, EntryBegins, DeviceBegins
<1>2. LoginTypeOK /\ LoginInv /\ RowsInv /\ EntryInv /\ DeviceInv /\ [Next]_vars
         => (LoginTypeOK /\ LoginInv /\ RowsInv /\ EntryInv /\ DeviceInv)'
  BY LoginNext, RowsSteps, EntrySteps, DeviceSteps
<1>3. RowsInv /\ DeviceInv => DevicesFit
  <2> SUFFICES ASSUME RowsInv, DeviceInv  PROVE DevicesFit  OBVIOUS
  <2>1. ASSUME NEW x \in People, NEW pk \in RowsOf(x), NEW qk \in RowsOf(x), rows[pk].num = rows[qk].num
        PROVE  pk = qk
    BY <2>1 DEF RowsOf, DeviceInv, RowsFit
  <2>2. \A s \in sessions : Live(s[1]) /\ (rows[s[1]].by = s[2] \/ s[2] \in past.replaced)
    BY DEF RowsInv, DeviceInv, RowsFit
  <2>3. \A i \in Installs : at[i].pc = "in" => store[i].priv = store[i].reg \/ i \in past.torn
    BY DEF DeviceInv, DeviceFits
  <2> QED  BY <2>1, <2>2, <2>3 DEF DevicesFit
<1> QED  BY <1>1, <1>2, <1>3, PTL DEF AccountsSpec

----------------------------------------------------------------------------
(* A way in                                                                 *)

Lost(x) == x \in past.stuck \cup past.left
Escrowed(x) == blob[x] # 0 \/ x \in past.left
Matches(x, num, key) == \E pk \in Find(x, num) : rows[pk].key = key

(* What an install asks for and the server does for it: a signup has a key  *)
(* of its own, and only a recovery replaces a device, of the same person.   *)
SignupPcs == {"genesis", "update", "register"}
SignupSteps == {"admit", "account", "claim", "blob"}
AskFits(i) ==
    LET r == job[i] IN
    /\ at[i].pc \in SignupPcs => at[i].key # 0 /\ at[i].op # "link"
    /\ at[i].pc = "replace" => at[i].op # "link"
    /\ r.step \in SignupSteps => r.sent.key # 0 /\ r.sent.op # "link"
    /\ r.step \in {"purge", "drop"} =>
          r.sent.op # "link" /\ r.pk \in DOMAIN rows /\ rows[r.pk].of = Of[i]

(* Whoever is about to have a device has a key in escrow.                   *)
Seeks(i) ==
    \/ at[i].pc = "link"
    \/ job[i] # NoJob /\ job[i].sent.op = "link"
    \/ job[i].step \in {"purge", "drop", "row"}

(* A bot's install has saved nothing, or can log in, or is saving, unless   *)
(* its account was left or a first answer did not arrive.                   *)
BotFits(i) ==
    LET r == job[i] IN
    /\ r.step \notin {"consume", "purge", "drop"}
    /\ at[i].pc = "wait" /\ r # NoJob => r.sent.key = at[i].key
    /\ r.step \in {"keys", "session"} => rows[r.pk].key = r.sent.key
    /\ at[i].pc = "device" => store[i].key = at[i].key
    /\ at[i].pc \in {"identity", "device"} =>
          Of[i] \in past.left \/ Matches(Of[i], at[i].num, at[i].key)
    /\ store[i] = NoStore \/ at[i].pc = "device" \/ Known(i) \/ Lost(Of[i])

(* A person's key is in the directory only with a signup under way or an    *)
(* account, and an account has a device or a request that makes one.        *)
Makes(i) == job[i].step \in {"claim", "blob", "row"} /\ job[i].sent.op # "link"
WayFits(x) ==
    /\ RowsOf(x) # {} \/ (pairing.stage = "sent" /\ Of[pairing.to] = x) => Escrowed(x)
    /\ x \in accounts \/ plc[x].len # 2 \/ Lost(x) \/ \E i \in Installs : Of[i] = x /\ Enters(i)
    /\ x \in accounts /\ RowsOf(x) = {} =>
          Lost(x) \/ \E i \in Installs : Of[i] = x /\ Makes(i)
WayOf(i) ==
    /\ AskFits(i) /\ (Of[i] \in Bots => BotFits(i))
    /\ Of[i] \notin Bots /\ Seeks(i) => Escrowed(Of[i])
WayInv ==
    /\ "stuck" \in DOMAIN past
    /\ \A i \in Installs : WayOf(i)
    /\ \A x \in People \ Bots : WayFits(x)

\* What a step does to the books, to one install and to one account.
Duties == SignupPcs \cup {"replace", "link", "wait", "identity", "device"}
BooksGo ==
    /\ "stuck" \in DOMAIN past' /\ past.stuck \subseteq past'.stuck /\ past.left \subseteq past'.left
    /\ \A x \in People : blob'[x] = 0 => blob[x] = 0 \/ x \in past'.left
    /\ \A k \in DOMAIN rows :
          rows[k].live /\ rows[k].of \in Bots => rows'[k].live \/ rows[k].of \in past'.left
Stays(i) ==
    /\ job'[i] \in {job[i], NoJob} /\ store'[i] \in {store[i], NoStore}
    /\ \/ /\ at'[i].pc = at[i].pc /\ at'[i].key = at[i].key /\ at'[i].num = at[i].num
          /\ at'[i].op = at[i].op /\ store'[i] = store[i]
       \/ at'[i].pc \notin Duties /\ (at[i].pc = "device" => Of[i] \notin Bots \/ Lost(Of[i])')
HandsOver(i) ==
    Of[i] \notin Bots =>
        /\ Enters(i) => Enters(i)' \/ Lost(Of[i])' \/ Of[i] \in accounts'
        /\ Makes(i) => Makes(i)' \/ Lost(Of[i])' \/ Of[i] \notin accounts' \/ RowsOf(Of[i])' # {}
AccountGoes(x) ==
    /\ RowsOf(x)' # {} => RowsOf(x) # {} \/ Escrowed(x)'
    /\ pairing'.stage = "sent" /\ Of[pairing'.to] = x =>
          (pairing.stage = "sent" /\ Of[pairing.to] = x) \/ Escrowed(x)
    /\ x \in accounts => x \in accounts' \/ Lost(x)'
    /\ plc'[x].len = 2 => plc[x].len = 2 \/ Lost(x)' \/ \E i \in Installs : Of[i] = x /\ Enters(i)'
    /\ x \in accounts' => x \in accounts \/ \E i \in Installs : Of[i] = x /\ Makes(i)'
    /\ RowsOf(x) # {} => \/ RowsOf(x)' # {} \/ Lost(x)'
                         \/ \E i \in Installs : Of[i] = x /\ Makes(i)'

LEMMA EscrowStays ==
  ASSUME BooksGo, NEW x \in People
  PROVE  (Escrowed(x) => Escrowed(x)') /\ (Lost(x) => Lost(x)')
BY DEF Escrowed, Lost, BooksGo

LEMMA MatchStays ==
  ASSUME RowsInv, DeviceInv, RowsGo, BooksGo, NEW x \in Bots, NEW n, NEW k, Matches(x, n, k),
         x \notin past'.left
  PROVE  Matches(x, n, k)'
<1>1. PICK pk \in Find(x, n) : rows[pk].key = k  BY DEF Matches
<1>2. pk \in DOMAIN rows /\ rows[pk].live /\ rows[pk].of = x /\ rows[pk].num = n
  BY <1>1 DEF Find, RowsOf
<1>3. /\ pk \in DOMAIN rows' /\ rows'[pk].live /\ rows'[pk].of = x /\ rows'[pk].num = n
      /\ rows'[pk].key = k
  BY <1>1, <1>2 DEF RowsGo, BooksGo
<1>4. pk \in Find(x, n)'  BY <1>3 DEF Find, RowsOf
<1> QED  BY <1>3, <1>4 DEF Matches

LEMMA WayFields ==
  ASSUME WayInv, NEW i \in Installs
  PROVE  /\ WayOf(i) /\ AskFits(i) /\ (Of[i] \in Bots => BotFits(i)) /\ "stuck" \in DOMAIN past
         /\ Of[i] \in People
BY InstallsAssumption DEF WayInv, WayOf

LEMMA AskStays ==
  ASSUME RowsInv, DeviceInv, WayInv, RowsGo, BooksGo, NEW i \in Installs, Stays(i)
  PROVE  AskFits(i)' /\ (Of[i] \notin Bots /\ Seeks(i)' => Escrowed(Of[i])')
<1>1. AskFits(i) /\ WayOf(i) /\ Of[i] \in People  BY WayFields
<1>2. ASSUME job'[i] = job[i]
      PROVE  job[i].step \in {"purge", "drop"} =>
                job[i].pk \in DOMAIN rows' /\ rows'[job[i].pk].of = Of[i]
  BY <1>1 DEF AskFits, RowsGo
<1>3. (at[i].pc \in SignupPcs => at[i].key # 0 /\ at[i].op # "link")'
      /\ (at[i].pc = "replace" => at[i].op # "link")'
  BY <1>1 DEF AskFits, Stays, Duties
<1>4. AskFits(i)'
  BY <1>1, <1>2, <1>3, OffFields DEF AskFits, Stays, SignupSteps
<1>5. Seeks(i)' => Seeks(i)
  BY OffFields DEF Seeks, Stays, Duties
<1>6. Of[i] \notin Bots /\ Seeks(i) => Escrowed(Of[i])'
  BY <1>1, EscrowStays DEF WayOf
<1> QED  BY <1>4, <1>5, <1>6

LEMMA BotStays ==
  ASSUME RowsInv, DeviceInv, WayInv, RowsGo, BooksGo, NEW i \in Installs, Of[i] \in Bots, Stays(i)
  PROVE  BotFits(i)'
<1>1. BotFits(i) /\ DeviceFits(i) /\ Of[i] \in People  BY WayFields, DeviceFields
<1>2. job'[i].step \notin {"consume", "purge", "drop"}  BY <1>1, OffFields DEF BotFits, Stays
<1>3. at'[i].pc = "wait" /\ job'[i] # NoJob => job'[i].sent.key = at'[i].key
  BY <1>1 DEF BotFits, Stays, Duties
<1>4. job'[i].step \in {"keys", "session"} => rows'[job'[i].pk].key = job'[i].sent.key
  <2> SUFFICES ASSUME job'[i].step \in {"keys", "session"}
               PROVE  rows'[job'[i].pk].key = job'[i].sent.key
    OBVIOUS
  <2>1. job'[i] = job[i]  BY OffFields DEF Stays
  <2>2. job[i].pk \in DOMAIN rows /\ rows[job[i].pk].key = job[i].sent.key
    BY <1>1, <2>1 DEF BotFits, DeviceFits, RequestFits
  <2> QED  BY <2>1, <2>2 DEF RowsGo
<1>5. at'[i].pc = "device" => store'[i].key = at'[i].key  BY <1>1 DEF BotFits, Stays, Duties
<1>6. at'[i].pc \in {"identity", "device"} =>
          Of[i] \in past'.left \/ Matches(Of[i], at[i].num, at[i].key)'
  <2> SUFFICES ASSUME at'[i].pc \in {"identity", "device"}, Of[i] \notin past'.left
               PROVE  Matches(Of[i], at[i].num, at[i].key)'
    OBVIOUS
  <2>1. at'[i].pc = at[i].pc /\ at'[i].num = at[i].num /\ at'[i].key = at[i].key
    BY DEF Stays, Duties
  <2>2. PICK x, n, k : x = Of[i] /\ n = at[i].num /\ k = at[i].key  OBVIOUS
  <2>3. Matches(x, n, k)  BY <1>1, <2>1, <2>2 DEF BotFits, BooksGo
  <2>4. Matches(x, n, k)'  BY <2>2, <2>3, MatchStays
  <2> QED  BY <2>1, <2>2, <2>4
<1>7. store'[i] = NoStore \/ at'[i].pc = "device" \/ Known(i)' \/ Lost(Of[i])'
  <2> SUFFICES ASSUME store'[i] # NoStore, at'[i].pc # "device", ~Lost(Of[i])'
               PROVE  Known(i)'
    OBVIOUS
  <2>1. store'[i] = store[i] /\ at[i].pc # "device"  BY DEF Stays
  <2>2. ~Lost(Of[i]) /\ Of[i] \notin past'.left  BY <1>1, EscrowStays DEF Lost
  <2>3. PICK x, n, k : x = Of[i] /\ n = store[i].num /\ k = store[i].key  OBVIOUS
  <2>4. Matches(x, n, k)  BY <1>1, <2>1, <2>2, <2>3 DEF BotFits, Known, Matches
  <2>5. Matches(x, n, k)'  BY <2>2, <2>3, <2>4, MatchStays
  <2> QED  BY <2>1, <2>3, <2>5 DEF Known, Matches
<1> QED  BY <1>2, <1>3, <1>4, <1>5, <1>6, <1>7 DEF BotFits

LEMMA AccountStays ==
  ASSUME RowsInv, WayInv, BooksGo, NEW x \in People \ Bots, AccountGoes(x),
         \A i \in Installs : HandsOver(i)
  PROVE  WayFits(x)'
<1>1. WayFits(x)  BY DEF WayInv
<1>2. (RowsOf(x) # {} \/ (pairing.stage = "sent" /\ Of[pairing.to] = x) => Escrowed(x))'
  BY <1>1, EscrowStays DEF WayFits, AccountGoes
<1>3. x \in accounts' \/ plc'[x].len # 2 \/ Lost(x)' \/ \E i \in Installs : Of[i] = x /\ Enters(i)'
  BY <1>1, EscrowStays DEF WayFits, AccountGoes, HandsOver
<1>4. x \in accounts' /\ RowsOf(x)' = {} => Lost(x)' \/ \E i \in Installs : Of[i] = x /\ Makes(i)'
  <2> SUFFICES ASSUME x \in accounts', RowsOf(x)' = {}, ~Lost(x)'
               PROVE  \E i \in Installs : Of[i] = x /\ Makes(i)'
    OBVIOUS
  <2>1. CASE x \notin accounts  BY <2>1 DEF AccountGoes
  <2>2. CASE RowsOf(x) # {}  BY <2>2 DEF AccountGoes
  <2>3. CASE x \in accounts /\ RowsOf(x) = {}
    <3>1. PICK i \in Installs : Of[i] = x /\ Makes(i)
      BY <1>1, <2>3, EscrowStays DEF WayFits
    <3> QED  BY <3>1 DEF HandsOver
  <2> QED  BY <2>1, <2>2, <2>3
<1> QED  BY <1>2, <1>3, <1>4 DEF WayFits

LEMMA WayKept ==
  ASSUME RowsInv, DeviceInv, WayInv, RowsGo, BooksGo,
         \A i \in Installs : HandsOver(i) /\ (Stays(i) \/ WayOf(i)'),
         \A x \in People \ Bots : AccountGoes(x)
  PROVE  WayInv'
<1>1. \A i \in Installs : WayOf(i)'  BY AskStays, BotStays DEF WayOf
<1>2. \A x \in People \ Bots : WayFits(x)'  BY AccountStays
<1> QED  BY <1>1, <1>2 DEF WayInv, BooksGo

\* Steps of one install.
LEMMA SameStays ==
  ASSUME NEW i, Same(i)
  PROVE  Stays(i) /\ HandsOver(i)
BY DEF Same, Stays, HandsOver, Enters, Registering, Makes

LEMMA AccountSame ==
  ASSUME NEW x \in People, RowsOf(x)' = RowsOf(x), x \in accounts' <=> x \in accounts,
         plc'[x].len = plc[x].len, pairing' \in {pairing, NoPairing}
  PROVE  AccountGoes(x)
<1>1. NoPairing.stage # "sent"  BY DEF NoPairing
<1> QED  BY <1>1 DEF AccountGoes

LEMMA WayOne ==
  ASSUME RowsInv, DeviceInv, WayInv, RowsGo, BooksGo, NEW i \in Installs,
         \A j \in Installs \ {i} : Same(j), HandsOver(i), Stays(i) \/ WayOf(i)',
         \A x \in People \ Bots : AccountGoes(x)
  PROVE  WayInv'
<1>1. \A j \in Installs : HandsOver(j) /\ (Stays(j) \/ WayOf(j)')  BY SameStays
<1> QED  BY <1>1, WayKept

LEMMA StuckGrows ==
  ASSUME DeviceInv, WayInv, NEW v, past' \in {past, Stuck(v), Mishap}
  PROVE  /\ "stuck" \in DOMAIN past' /\ past.stuck \subseteq past'.stuck /\ past'.left = past.left
         /\ past'.replaced = past.replaced
         /\ past' = Stuck(v) => v \subseteq past'.stuck
<1>1. "stuck" \in DOMAIN past  BY DEF WayInv
<1>2. CASE past' = past  BY <1>1, <1>2 DEF Stuck
<1>3. CASE past' = Mishap
  <2>1. past'.stuck = past.stuck  BY <1>1, <1>3 DEF Mishap
  <2>2. past' = Stuck(v) => past'.stuck = past.stuck \cup v  BY <1>1 DEF Stuck
  <2> QED  BY <1>1, <1>3, <2>1, <2>2 DEF Mishap
<1>4. CASE past' = Stuck(v)  BY <1>1, <1>4 DEF Stuck
<1> QED  BY <1>2, <1>3, <1>4

\* Steps that leave the rows, the accounts and the directory alone.
LEMMA WayAside ==
  ASSUME RowsInv, DeviceInv, WayInv, NEW i \in Installs, UNCHANGED <<rows, accounts, blob, plc>>,
         pairing' \in {pairing, NoPairing}, "stuck" \in DOMAIN past',
         past.stuck \subseteq past'.stuck, past.left \subseteq past'.left,
         past.replaced \subseteq past'.replaced,
         \A j \in Installs : HandsOver(j) /\ (Stays(j) \/ WayOf(j)')
  PROVE  WayInv'
<1>1. RowsGo  BY RowsSame
<1>2. BooksGo  BY DEF BooksGo
<1>3. \A x : RowsOf(x)' = RowsOf(x)  BY DEF RowsOf
<1>4. \A x \in People \ Bots : AccountGoes(x)  BY <1>3, AccountSame
<1> QED  BY <1>1, <1>2, <1>4, WayKept

LEMMA RefusedStays ==
  ASSUME RowsInv, EntryInv, DeviceInv, WayInv, NEW i \in Installs, Refuse(i),
         UNCHANGED <<store, rows, accounts>>
  PROVE  Stays(i) /\ HandsOver(i)
<1>1. job'[i] = NoJob  BY EntryFields DEF Refuse, FieldsOK
<1>2. \/ at' = at
      \/ at[i].pc = "wait" /\ at'[i].pc \in {"pair", "new"}
  BY AtWritten DEF Refuse, Waits
<1>3. Stays(i)  BY <1>1, <1>2 DEF Stays, Duties, SignupPcs
<1>4. AskFits(i) /\ Of[i] \in People  BY WayFields
<1>5. RowsOf(Of[i])' = RowsOf(Of[i])  BY DEF RowsOf
<1>6. Of[i] \notin Bots /\ job[i].step # "none" /\ job[i].sent.op # "link" /\ RowsOf(Of[i]) = {}
         => Lost(Of[i])'
  <2> SUFFICES ASSUME Of[i] \notin Bots, job[i].sent.op # "link", RowsOf(Of[i]) = {}
               PROVE  Lost(Of[i])'
    OBVIOUS
  <2>1. Stranded(i) = {Of[i]}  BY DEF Stranded
  <2>2. past' = Stuck({Of[i]})  BY <2>1 DEF Refuse
  <2>3. Of[i] \in past'.stuck  BY <2>2, StuckGrows
  <2> QED  BY <2>3 DEF Lost
<1>7. RowsOf(Of[i]) # {} => Of[i] \in accounts  BY <1>4 DEF RowsInv, Dead
<1>8. Enters(i) => Enters(i)' \/ Registering(i)  BY <1>2 DEF Enters, Registering
<1>9. HandsOver(i)
  BY <1>4, <1>5, <1>6, <1>7, <1>8 DEF HandsOver, AskFits, SignupSteps, Registering, Makes
<1> QED  BY <1>3, <1>9

LEMMA WayRefused ==
  ASSUME RowsInv, EntryInv, DeviceInv, WayInv, NEW i \in Installs, Refuse(i),
         UNCHANGED <<store, rows, accounts, blob, plc, pairing>>
  PROVE  WayInv'
<1>1. \A j \in Installs \ {i} : Same(j)  BY RefusedGoes
<1>2. \A j \in Installs : HandsOver(j) /\ Stays(j)  BY <1>1, SameStays, RefusedStays
<1>3. past' \in {past, Stuck(Stranded(i)), Mishap}  BY DEF Refuse
<1>4. /\ "stuck" \in DOMAIN past' /\ past.stuck \subseteq past'.stuck /\ past'.left = past.left
      /\ past'.replaced = past.replaced
  BY <1>3, StuckGrows
<1> QED  BY <1>2, <1>4, WayAside

\* The server goes on to the next statement.
GoesOn(i) ==
    LET r == job'[i] IN
    /\ job[i] # NoJob /\ r.sent = job[i].sent /\ r.step # "consume"
    /\ r.step \in SignupSteps => job[i].step \in SignupSteps
    /\ r.step \in {"purge", "drop"} => /\ r.sent.op # "link" /\ Of[i] \notin Bots
                                      /\ r.pk \in DOMAIN rows' /\ rows'[r.pk].of = Of[i]
    /\ r.step \in {"keys", "session"} => Of[i] \notin Bots \/ rows'[r.pk].key = r.sent.key
    /\ r.step \in {"purge", "drop", "row"} => Of[i] \in Bots \/ Escrowed(Of[i])'

LEMMA WayGoesOn ==
  ASSUME WayInv, DeviceInv, RowsInv, RowsGo, BooksGo, NEW i \in Installs, UNCHANGED <<at, store>>,
         GoesOn(i)
  PROVE  WayOf(i)'
<1>1. WayOf(i) /\ AskFits(i) /\ (Of[i] \in Bots => BotFits(i)) /\ Of[i] \in People  BY WayFields
<1>2. AskFits(i)'  BY <1>1 DEF AskFits, GoesOn
<1>3. Of[i] \notin Bots /\ Seeks(i)' => Escrowed(Of[i])'
  BY <1>1, EscrowStays DEF WayOf, Seeks, GoesOn
<1>4. ASSUME Of[i] \in Bots  PROVE BotFits(i)'
  <2>1. BotFits(i)  BY <1>1, <1>4
  <2>2. job'[i].step \notin {"consume", "purge", "drop"}  BY <1>4 DEF GoesOn
  <2>3. at'[i].pc = "wait" /\ job'[i] # NoJob => job'[i].sent.key = at'[i].key
    BY <2>1 DEF BotFits, GoesOn
  <2>4. at'[i].pc \in {"identity", "device"} =>
           Of[i] \in past'.left \/ Matches(Of[i], at[i].num, at[i].key)'
    <3> SUFFICES ASSUME at[i].pc \in {"identity", "device"}, Of[i] \notin past'.left
                 PROVE  Matches(Of[i], at[i].num, at[i].key)'
      OBVIOUS
    <3>1. PICK x, n, k : x = Of[i] /\ n = at[i].num /\ k = at[i].key  OBVIOUS
    <3>2. Matches(x, n, k)  BY <2>1, <3>1 DEF BotFits, BooksGo
    <3>3. Matches(x, n, k)'  BY <1>4, <3>1, <3>2, MatchStays
    <3> QED  BY <3>1, <3>3
  <2>5. store'[i] = NoStore \/ at'[i].pc = "device" \/ Known(i)' \/ Lost(Of[i])'
    <3> SUFFICES ASSUME store[i] # NoStore, at[i].pc # "device", ~Lost(Of[i])'
                 PROVE  Known(i)'
      OBVIOUS
    <3>1. ~Lost(Of[i]) /\ Of[i] \notin past'.left  BY <1>1, EscrowStays DEF Lost
    <3>2. PICK x, n, k : x = Of[i] /\ n = store[i].num /\ k = store[i].key  OBVIOUS
    <3>3. Matches(x, n, k)  BY <2>1, <3>1, <3>2 DEF BotFits, Known, Matches
    <3>4. Matches(x, n, k)'  BY <1>4, <3>1, <3>2, <3>3, MatchStays
    <3> QED  BY <3>2, <3>4 DEF Known, Matches
  <2>6. at'[i].pc = "device" => store'[i].key = at'[i].key  BY <2>1 DEF BotFits
  <2>7. job'[i].step \in {"keys", "session"} => rows'[job'[i].pk].key = job'[i].sent.key  BY <1>4 DEF GoesOn
  <2> QED  BY <2>2, <2>3, <2>4, <2>5, <2>6, <2>7 DEF BotFits
<1> QED  BY <1>2, <1>3, <1>4 DEF WayOf

\* A statement for an account.
LEMMA WayStep ==
  ASSUME RowsInv, EntryInv, DeviceInv, WayInv, NEW i \in Installs, RowsGo, BooksGo,
         UNCHANGED <<at, store>>, \A j \in Installs \ {i} : Same(j), GoesOn(i),
         HandsOver(i), \A x \in People \ Bots : AccountGoes(x)
  PROVE  WayInv'
<1>1. WayOf(i)'  BY WayGoesOn
<1> QED  BY <1>1, WayOne

\* Up to the recovery blob.
LEMMA WayAdmits ==
  ASSUME RowsInv, EntryInv, DeviceInv, WayInv, NEW i \in Installs,
         Admit(i) \/ CreateAccount(i) \/ ClaimSuperuser(i) \/ StoreBlob(i)
  PROVE  WayInv'
<1>0. /\ UNCHANGED <<store, rows, plc, pairing>>
      /\ AskFits(i) /\ Of[i] \in People /\ "stuck" \in DOMAIN past /\ DOMAIN blob = People
  BY WayFields
  DEF Admit, CreateAccount, ClaimSuperuser, StoreBlob, OnlyServer, DeviceInv, Shapes
<1>1. \A x : RowsOf(x)' = RowsOf(x)  BY <1>0 DEF RowsOf
<1>2. CASE Admit(i)
  <2>0. UNCHANGED <<accounts, blob>>  BY <1>2 DEF Admit
  <2>1. CASE Refuse(i)  BY <1>0, <2>0, <2>1, WayRefused
  <2>2. CASE ~Refuse(i)
    <3>1. /\ job' = [job EXCEPT ![i].step = "account"] /\ job[i].step = "admit"
          /\ UNCHANGED at /\ past' = [past EXCEPT !.by = @ \cup {<<Of[i], job[i].sent.cred>>}]
      BY <1>2, <2>2 DEF Admit
    <3>2. past'.stuck = past.stuck /\ past'.left = past.left /\ past'.replaced = past.replaced
          /\ "stuck" \in DOMAIN past'
      BY <1>0, <3>1
    <3>3. RowsGo  BY <1>0, <2>0, <3>2, RowsSame
    <3>4. BooksGo  BY <1>0, <2>0, <3>2 DEF BooksGo
    <3>5. \A x \in People \ Bots : AccountGoes(x)  BY <1>0, <1>1, <2>0, AccountSame
    <3>6. job[i] # NoJob  BY <3>1, OffFields
    <3>7. /\ UNCHANGED <<at, store>> /\ job'[i].step = "account" /\ job'[i].sent = job[i].sent
          /\ \A j \in Installs \ {i} : Same(j)
      <4>1. PICK s : s = "account"  OBVIOUS
      <4>2. UNCHANGED <<at, store>> /\ job' = [job EXCEPT ![i].step = s]  BY <1>0, <3>1, <4>1
      <4> QED  BY <3>6, <4>1, <4>2, JobSteps
    <3>8. HandsOver(i)  BY <3>1, <3>7 DEF HandsOver, Enters, Registering, Makes
    <3>9. GoesOn(i)  BY <3>1, <3>6, <3>7 DEF GoesOn, SignupSteps
    <3> QED  BY <3>3, <3>4, <3>5, <3>7, <3>8, <3>9, WayStep
  <2> QED  BY <2>1, <2>2
<1>3. CASE CreateAccount(i)
  <2>0. UNCHANGED blob  BY <1>3 DEF CreateAccount
  <2>1. CASE Of[i] \in accounts
    <3>1. Refuse(i) /\ UNCHANGED accounts  BY <1>3, <2>1 DEF CreateAccount
    <3> QED  BY <1>0, <2>0, <3>1, WayRefused
  <2>2. CASE Of[i] \notin accounts
    <3>1. PICK s \in {"claim", "blob"} :
             /\ job' = [job EXCEPT ![i].step = s] /\ job[i].step = "account"
             /\ UNCHANGED <<at, past>> /\ accounts' = accounts \cup {Of[i]}
      BY <1>3, <2>2 DEF CreateAccount, Then
    <3>2. Of[i] \in Bots \/ ~Been(Of[i])
      BY <3>1, EntryFields DEF InstallFits, Enters, Registering
    <3>3. RowsGo  BY <1>0, <3>1, <3>2, RowsSame
    <3>4. BooksGo  BY <1>0, <2>0, <3>1 DEF BooksGo
    <3>5. job[i] # NoJob  BY <3>1, OffFields
    <3>6. /\ UNCHANGED <<at, store>> /\ job'[i].step = s /\ job'[i].sent = job[i].sent
          /\ \A j \in Installs \ {i} : Same(j)
      <4>1. UNCHANGED <<at, store>> /\ job' = [job EXCEPT ![i].step = s]  BY <1>0, <3>1
      <4> QED  BY <3>5, <4>1, JobSteps
    <3>7. Makes(i)' /\ HandsOver(i) /\ GoesOn(i)
      <4>1. job[i].sent.op # "link"  BY <1>0, <3>1 DEF AskFits, SignupSteps
      <4>2. Makes(i)'  BY <3>6, <4>1 DEF Makes
      <4>3. HandsOver(i)  BY <1>0, <3>1, <4>2 DEF HandsOver
      <4>4. GoesOn(i)  BY <3>1, <3>5, <3>6 DEF GoesOn, SignupSteps
      <4> QED  BY <4>2, <4>3, <4>4
    <3>8. ASSUME NEW x \in People \ Bots  PROVE AccountGoes(x)
      <4>1. CASE x = Of[i]  BY <1>0, <1>1, <3>1, <3>7, <4>1 DEF AccountGoes
      <4>2. CASE x # Of[i]  BY <1>0, <1>1, <3>1, <4>2, AccountSame
      <4> QED  BY <4>1, <4>2
    <3> QED  BY <3>3, <3>4, <3>6, <3>7, <3>8, WayStep
  <2> QED  BY <2>1, <2>2
<1>4. CASE ClaimSuperuser(i)
  <2>0. UNCHANGED <<accounts, blob>>  BY <1>4 DEF ClaimSuperuser
  <2>1. CASE Refuse(i)  BY <1>0, <2>0, <2>1, WayRefused
  <2>2. CASE ~Refuse(i)
    <3>1. job' = [job EXCEPT ![i].step = "blob"] /\ job[i].step = "claim" /\ UNCHANGED <<at, past>>
      BY <1>4, <2>2 DEF ClaimSuperuser, Then
    <3>2. RowsGo  BY <1>0, <2>0, <3>1, RowsSame
    <3>3. BooksGo  BY <1>0, <2>0, <3>1 DEF BooksGo
    <3>4. \A x \in People \ Bots : AccountGoes(x)  BY <1>0, <1>1, <2>0, AccountSame
    <3>5. job[i] # NoJob  BY <3>1, OffFields
    <3>6. /\ UNCHANGED <<at, store>> /\ job'[i].step = "blob" /\ job'[i].sent = job[i].sent
          /\ \A j \in Installs \ {i} : Same(j)
      <4>1. PICK s : s = "blob"  OBVIOUS
      <4>2. UNCHANGED <<at, store>> /\ job' = [job EXCEPT ![i].step = s]  BY <1>0, <3>1, <4>1
      <4> QED  BY <3>5, <4>1, <4>2, JobSteps
    <3>7. HandsOver(i)  BY <3>1, <3>6 DEF HandsOver, Enters, Registering, Makes
    <3>8. GoesOn(i)  BY <3>1, <3>5, <3>6 DEF GoesOn, SignupSteps
    <3> QED  BY <3>2, <3>3, <3>4, <3>6, <3>7, <3>8, WayStep
  <2> QED  BY <2>1, <2>2
<1>5. CASE StoreBlob(i)
  <2>0. UNCHANGED accounts  BY <1>5 DEF StoreBlob
  <2>1. CASE Of[i] \notin accounts
    <3>1. Refuse(i) /\ UNCHANGED blob  BY <1>5, <2>1 DEF StoreBlob
    <3> QED  BY <1>0, <2>0, <3>1, WayRefused
  <2>2. CASE Of[i] \in accounts
    <3>1. job' = [job EXCEPT ![i].step = "row"] /\ job[i].step = "blob" /\ blob' = Escrow(i)
          /\ UNCHANGED <<at, past>>
      BY <1>5, <2>2 DEF StoreBlob, Then
    <3>2. job[i].sent.key # 0 /\ job[i].sent.op # "link"  BY <1>0, <3>1 DEF AskFits, SignupSteps
    <3>3. \A x \in People : blob'[x] = 0 => blob[x] = 0  BY <1>0, <3>1, <3>2 DEF Escrow
    <3>4. RowsGo  BY <1>0, <2>0, <3>1, RowsSame
    <3>5. BooksGo  BY <1>0, <3>1, <3>3 DEF BooksGo
    <3>6. \A x \in People \ Bots : AccountGoes(x)  BY <1>0, <1>1, <2>0, AccountSame
    <3>7. job[i] # NoJob  BY <3>1, OffFields
    <3>8. /\ UNCHANGED <<at, store>> /\ job'[i].step = "row" /\ job'[i].sent = job[i].sent
          /\ \A j \in Installs \ {i} : Same(j)
      <4>1. PICK s : s = "row"  OBVIOUS
      <4>2. UNCHANGED <<at, store>> /\ job' = [job EXCEPT ![i].step = s]  BY <1>0, <3>1, <4>1
      <4> QED  BY <3>7, <4>1, <4>2, JobSteps
    <3>9. HandsOver(i)  BY <3>1, <3>2, <3>8 DEF HandsOver, Enters, Registering, Makes
    <3>10. Of[i] \in Bots \/ Escrowed(Of[i])'  BY <1>0, <3>1, <3>2 DEF Escrow, Escrowed
    <3>11. GoesOn(i)  BY <3>7, <3>8, <3>10 DEF GoesOn, SignupSteps
    <3> QED  BY <3>4, <3>5, <3>6, <3>8, <3>9, <3>11, WayStep
  <2> QED  BY <2>1, <2>2
<1> QED  BY <1>2, <1>3, <1>4, <1>5

\* What is found under a number is the person's.
LEMMA FoundFits ==
  ASSUME NEW x, NEW n, NEW pk \in Find(x, n)
  PROVE  pk \in DOMAIN rows /\ rows[pk].live /\ rows[pk].of = x /\ rows[pk].num = n /\ RowsOf(x) # {}
BY DEF Find, RowsOf

LEMMA WayConsumes ==
  ASSUME RowsInv, EntryInv, DeviceInv, WayInv, NEW i \in Installs, ConsumeNonce(i)
  PROVE  WayInv'
<1>0. /\ UNCHANGED <<store, rows, plc, pairing, accounts, blob>> /\ job[i].step = "consume"
      /\ WayOf(i) /\ AskFits(i) /\ Of[i] \in People /\ (Of[i] \in Bots => BotFits(i))
  BY WayFields DEF ConsumeNonce, OnlyServer
<1>1. CASE Refuse(i)  BY <1>0, <1>1, WayRefused
<1>2. CASE ~Refuse(i)
  <2>1. Of[i] \notin Bots  BY <1>0 DEF BotFits
  <2>2. job[i] # NoJob  BY <1>0, OffFields
  <2>3. PICK k : k = job[i].sent.nonce[1]  OBVIOUS
  <2>4. /\ UNCHANGED <<at, past>>
        /\ \/ job[i].sent.op = "link" /\ job' = [job EXCEPT ![i].step = "row"]
           \/ /\ job[i].sent.op # "link" /\ job' = [job EXCEPT ![i].step = "purge", ![i].pk = k]
              /\ k \in Find(Of[i], job[i].sent.num)
    BY <1>2, <2>3 DEF ConsumeNonce, Then
  <2>5. RowsGo  BY <1>0, <2>4, RowsSame
  <2>6. BooksGo  BY <1>0, <2>4 DEF BooksGo, WayInv
  <2>7. \A x : RowsOf(x)' = RowsOf(x)  BY <1>0 DEF RowsOf
  <2>8. \A x \in People \ Bots : AccountGoes(x)  BY <1>0, <2>7, AccountSame
  <2>9. HandsOver(i)  BY <1>0, <2>4 DEF HandsOver, Enters, Registering, Makes
  <2>10. /\ UNCHANGED <<at, store>> /\ job'[i].sent = job[i].sent /\ \A j \in Installs \ {i} : Same(j)
         /\ \/ job[i].sent.op = "link" /\ job'[i].step = "row"
            \/ /\ job[i].sent.op # "link" /\ job'[i].step = "purge" /\ job'[i].pk = k
               /\ k \in Find(Of[i], job[i].sent.num)
    <3>1. PICK r, p : r = "row" /\ p = "purge"  OBVIOUS
    <3>2. UNCHANGED <<at, store>>  BY <1>0, <2>4
    <3>3. CASE job[i].sent.op = "link"
      <4>1. job' = [job EXCEPT ![i].step = r]  BY <2>4, <3>1, <3>3
      <4> QED  BY <2>2, <3>1, <3>2, <3>3, <4>1, JobSteps
    <3>4. CASE job[i].sent.op # "link"
      <4>1. job' = [job EXCEPT ![i].step = p, ![i].pk = k] /\ k \in Find(Of[i], job[i].sent.num)
        BY <2>4, <3>1, <3>4
      <4>2. job'[i].step = p /\ job'[i].sent = job[i].sent /\ \A j \in Installs \ {i} : Same(j)
        BY <2>2, <3>2, <4>1, JobGoes
      <4>3. Shape(i) /\ DOMAIN job = Installs  BY EntryFields, DeviceFields DEF FieldsOK
      <4>4. DOMAIN job[i] = JobFields  BY <2>2, <4>3 DEF Shape
      <4>5. job'[i].pk = k  BY <4>1, <4>3, <4>4 DEF JobFields
      <4> QED  BY <3>1, <3>2, <3>4, <4>1, <4>2, <4>5
    <3> QED  BY <3>3, <3>4
  <2>11. GoesOn(i)
    <3>1. job[i].sent.op = "link" => Escrowed(Of[i])  BY <1>0, <2>1, <2>2 DEF WayOf, Seeks
    <3>2. job[i].sent.op # "link" => k \in DOMAIN rows /\ rows[k].of = Of[i] /\ RowsOf(Of[i]) # {}
      BY <2>10, FoundFits
    <3>3. Escrowed(Of[i])  BY <1>0, <2>1, <3>1, <3>2 DEF WayInv, WayFits
    <3>4. Escrowed(Of[i])'  BY <1>0, <2>6, <3>3, EscrowStays
    <3> QED  BY <1>0, <2>1, <2>2, <2>10, <3>2, <3>4 DEF GoesOn, SignupSteps
  <2> QED  BY <2>5, <2>6, <2>8, <2>9, <2>10, <2>11, WayStep
<1> QED  BY <1>1, <1>2

\* A row that is dropped, and the others.
LEMMA RowDropped ==
  ASSUME RowsInv, NEW pk, rows' = [rows EXCEPT ![pk].live = FALSE],
         UNCHANGED accounts, past'.replaced = past.replaced \cup {rows[pk].by}
  PROVE  /\ RowsGo /\ DOMAIN rows' = DOMAIN rows
         /\ \A k \in DOMAIN rows : (k # pk => rows'[k] = rows[k]) /\ rows'[k].of = rows[k].of
         /\ \A x : RowsOf(x)' = RowsOf(x) \ {pk}
<1>1. DOMAIN rows' = DOMAIN rows  BY RowsDomain DEF RowsInv
<1>2. /\ \A k \in DOMAIN rows : k # pk => rows'[k] = rows[k]
      /\ pk \in DOMAIN rows => rows'[pk] = [rows[pk] EXCEPT !.live = FALSE]
  BY RowsDomain DEF RowsInv
<1>3. pk \in DOMAIN rows => "live" \in DOMAIN rows[pk]  BY DEF RowsInv, RowsOK
<1>4. ASSUME NEW k \in DOMAIN rows
      PROVE  /\ DOMAIN rows'[k] = DOMAIN rows[k] /\ rows'[k].of = rows[k].of
             /\ rows'[k].by = rows[k].by /\ rows'[k].num = rows[k].num /\ rows'[k].key = rows[k].key
             /\ rows'[k].live => rows[k].live /\ k # pk
             /\ rows[k].live => rows'[k].live \/ rows[k].by \in past'.replaced
  <2>1. CASE k # pk  BY <1>2, <2>1
  <2>2. CASE k = pk
    <3>1. rows'[k] = [rows[k] EXCEPT !.live = FALSE]  BY <1>2, <2>2
    <3>2. "live" \in DOMAIN rows[k]  BY <1>3, <2>2
    <3>3. ~rows'[k].live  BY <3>1, <3>2
    <3>4. rows[k].by \in past'.replaced  BY <2>2
    <3>5. /\ DOMAIN rows'[k] = DOMAIN rows[k] /\ rows'[k].of = rows[k].of /\ rows'[k].by = rows[k].by
          /\ rows'[k].num = rows[k].num /\ rows'[k].key = rows[k].key
      BY <3>1
    <3> QED  BY <3>3, <3>4, <3>5
  <2> QED  BY <2>1, <2>2
<1>5. RowsGo  BY <1>1, <1>4 DEF RowsGo
<1>6. \A x : RowsOf(x)' = RowsOf(x) \ {pk}
  <2> TAKE x
  <2>1. \A k : k \in RowsOf(x)' <=> k \in DOMAIN rows /\ rows'[k].live /\ rows'[k].of = x
    BY <1>1 DEF RowsOf
  <2>2. \A k : k \in RowsOf(x) <=> k \in DOMAIN rows /\ rows[k].live /\ rows[k].of = x
    BY DEF RowsOf
  <2>3. \A k \in DOMAIN rows : rows'[k].live /\ rows'[k].of = x <=> rows[k].live /\ rows[k].of = x /\ k # pk
    BY <1>2, <1>4
  <2> QED  BY <2>1, <2>2, <2>3
<1> QED  BY <1>1, <1>2, <1>4, <1>5, <1>6

LEMMA WayPurges ==
  ASSUME RowsInv, EntryInv, DeviceInv, WayInv, NEW i \in Installs, PurgeDevice(i)
  PROVE  WayInv'
<1>1. PICK pk, s : pk = job[i].pk /\ s = "drop"  OBVIOUS
<1>2. /\ rows' = [rows EXCEPT ![pk].keys = FALSE] /\ job' = [job EXCEPT ![i].step = s]
      /\ job[i].step = "purge" /\ UNCHANGED <<at, past, store, blob, accounts, plc, pairing>>
  BY <1>1 DEF PurgeDevice, Then, OnlyServer
<1>3. job[i] # NoJob  BY <1>2, OffFields
<1>4. RowsGo /\ DOMAIN rows' = DOMAIN rows  BY <1>2, RowKeyed
<1>5. \A k \in DOMAIN rows : rows'[k].live = rows[k].live /\ rows'[k].of = rows[k].of
  <2>1. \A k \in DOMAIN rows : rows'[k] = rows[k] \/ rows'[k] = [rows[k] EXCEPT !.keys = FALSE]
    BY <1>2, RowsDomain DEF RowsInv
  <2>2. \A k \in DOMAIN rows : [rows[k] EXCEPT !.keys = FALSE].live = rows[k].live  OBVIOUS
  <2> QED  BY <1>4, <2>1, <2>2 DEF RowsGo
<1>6. \A x : RowsOf(x)' = RowsOf(x)  BY <1>4, <1>5 DEF RowsOf
<1>7. BooksGo  BY <1>2, <1>5 DEF BooksGo, WayInv
<1>8. \A x \in People \ Bots : AccountGoes(x)  BY <1>2, <1>6, AccountSame
<1>9. /\ UNCHANGED <<at, store>> /\ job'[i].step = s /\ job'[i].sent = job[i].sent
      /\ job'[i].pk = job[i].pk /\ \A j \in Installs \ {i} : Same(j)
  <2>1. UNCHANGED <<at, store>>  BY <1>2
  <2> QED  BY <1>2, <1>3, <2>1, JobSteps
<1>10. HandsOver(i)  BY <1>2, <1>6, <1>1, <1>9 DEF HandsOver, Enters, Registering, Makes
<1>11. WayOf(i) /\ AskFits(i) /\ (Of[i] \in Bots => BotFits(i)) /\ Of[i] \in People  BY WayFields
<1>12. Of[i] \notin Bots /\ Escrowed(Of[i])'
  <2>1. Of[i] \notin Bots  BY <1>2, <1>11 DEF BotFits
  <2>2. Escrowed(Of[i])  BY <1>2, <1>11, <2>1 DEF WayOf, Seeks
  <2> QED  BY <1>7, <1>11, <2>1, <2>2, EscrowStays
<1>13. GoesOn(i)  BY <1>1, <1>2, <1>3, <1>4, <1>5, <1>9, <1>11, <1>12 DEF GoesOn, SignupSteps, AskFits
<1> QED  BY <1>4, <1>7, <1>8, <1>9, <1>10, <1>13, WayStep

LEMMA WayDrops ==
  ASSUME RowsInv, EntryInv, DeviceInv, WayInv, NEW i \in Installs, DropDevice(i)
  PROVE  WayInv'
<1>0. UNCHANGED <<store, blob, accounts, plc, pairing>>  BY DEF DropDevice, OnlyServer
<1>1. CASE Refuse(i) /\ UNCHANGED rows  BY <1>0, <1>1, WayRefused
<1>2. CASE ~(Refuse(i) /\ UNCHANGED rows)
  <2>1. PICK pk, s : pk = job[i].pk /\ s = "row"  OBVIOUS
  <2>2. /\ rows' = [rows EXCEPT ![pk].live = FALSE] /\ job' = [job EXCEPT ![i].step = s]
        /\ job[i].step = "drop" /\ UNCHANGED at
        /\ past' = [Mishap EXCEPT !.replaced = @ \cup {rows[pk].by}]
    BY <1>2, <2>1 DEF DropDevice
  <2>3. job[i] # NoJob  BY <2>2, OffFields
  <2>4. /\ past'.replaced = past.replaced \cup {rows[pk].by} /\ "stuck" \in DOMAIN past'
        /\ past'.stuck = past.stuck /\ past'.left = past.left
    BY <2>2 DEF Mishap, DeviceInv, Shapes, WayInv
  <2>5. /\ RowsGo /\ DOMAIN rows' = DOMAIN rows
        /\ \A k \in DOMAIN rows : (k # pk => rows'[k] = rows[k]) /\ rows'[k].of = rows[k].of
        /\ \A x : RowsOf(x)' = RowsOf(x) \ {pk}
    BY <1>0, <2>2, <2>4, RowDropped
  <2>6. WayOf(i) /\ AskFits(i) /\ (Of[i] \in Bots => BotFits(i)) /\ Of[i] \in People  BY WayFields
  <2>7. job[i].sent.op # "link" /\ pk \in DOMAIN rows /\ rows[pk].of = Of[i] /\ Of[i] \notin Bots
    BY <2>1, <2>2, <2>6 DEF AskFits, BotFits
  <2>8. BooksGo  BY <1>0, <2>4, <2>5, <2>7 DEF BooksGo
  <2>9. /\ UNCHANGED <<at, store>> /\ job'[i].step = s /\ job'[i].sent = job[i].sent
        /\ \A j \in Installs \ {i} : Same(j)
    <3>1. UNCHANGED <<at, store>>  BY <1>0, <2>2
    <3> QED  BY <2>2, <2>3, <3>1, JobSteps
  <2>10. Makes(i)'  BY <2>1, <2>7, <2>9 DEF Makes
  <2>11. HandsOver(i)  BY <2>2, <2>10, <2>1, <2>9 DEF HandsOver, Enters, Registering
  <2>12. ASSUME NEW x \in People \ Bots  PROVE AccountGoes(x)
    <3>1. CASE x = Of[i]  BY <1>0, <2>5, <2>10, <3>1 DEF AccountGoes
    <3>2. CASE x # Of[i]
      <4>1. pk \notin RowsOf(x)  BY <2>7, <3>2 DEF RowsOf
      <4>2. RowsOf(x)' = RowsOf(x)  BY <2>5, <4>1
      <4> QED  BY <1>0, <4>2, AccountSame
    <3> QED  BY <3>1, <3>2
  <2>13. Escrowed(Of[i])'
    <3>1. Escrowed(Of[i])  BY <2>2, <2>6, <2>7 DEF WayOf, Seeks
    <3> QED  BY <2>6, <2>8, <3>1, EscrowStays
  <2>14. GoesOn(i)  BY <2>1, <2>3, <2>9, <2>13 DEF GoesOn, SignupSteps
  <2> QED  BY <2>5, <2>8, <2>9, <2>11, <2>12, <2>14, WayStep
<1> QED  BY <1>1, <1>2

LEMMA WayCreates ==
  ASSUME RowsInv, EntryInv, DeviceInv, WayInv, NEW i \in Installs, CreateDevice(i)
  PROVE  WayInv'
<1>0. UNCHANGED <<store, blob, accounts, plc, pairing>>  BY DEF CreateDevice, OnlyServer
<1>1. CASE Refuse(i) /\ UNCHANGED rows  BY <1>0, <1>1, WayRefused
<1>2. CASE ~(Refuse(i) /\ UNCHANGED rows)
  <2> DEFINE n == Len(rows) + 1
             r == [of |-> Of[i], by |-> i, num |-> job[i].sent.num, reg |-> job[i].sent.reg,
                   key |-> job[i].sent.key, keys |-> FALSE, live |-> TRUE]
  <2>1. /\ rows' = Append(rows, r) /\ UNCHANGED <<at, past>> /\ job[i].step = "row"
        /\ job' = [job EXCEPT ![i].step = "keys", ![i].pk = n]
    BY <1>2 DEF CreateDevice
  <2>2. job[i] # NoJob  BY <2>1, OffFields
  <2>3. /\ n \notin DOMAIN rows /\ DOMAIN rows' = DOMAIN rows \cup {n} /\ rows'[n] = r
        /\ \A k \in DOMAIN rows : rows'[k] = rows[k]
    BY <2>1, RowsAppend
  <2>4. r.of = Of[i] /\ r.by = i /\ r.key = job[i].sent.key /\ r.live = TRUE  OBVIOUS
  <2> HIDE DEF n, r
  <2>5. RowsGo
    <3>1. past.replaced \subseteq past'.replaced  BY <2>1
    <3> QED  BY <1>0, <2>2, <2>3, <2>4, <3>1 DEF RowsGo
  <2>6. BooksGo  BY <1>0, <2>1, <2>3 DEF BooksGo, WayInv
  <2>7. /\ UNCHANGED <<at, store>> /\ job'[i].step = "keys" /\ job'[i].sent = job[i].sent
        /\ job'[i].pk = n /\ \A j \in Installs \ {i} : Same(j)
    <3>1. PICK s, k : s = "keys" /\ k = n /\ job' = [job EXCEPT ![i].step = s, ![i].pk = k]  BY <2>1
    <3>2. UNCHANGED <<at, store>>  BY <1>0, <2>1
    <3>3. /\ job'[i].step = s /\ job'[i].sent = job[i].sent /\ \A j \in Installs \ {i} : Same(j)
      BY <2>2, <3>1, <3>2, JobGoes
    <3>4. DOMAIN job[i] = JobFields /\ DOMAIN job = Installs
      BY <2>2, EntryFields, DeviceFields DEF Shape, FieldsOK
    <3>5. job'[i].pk = k  BY <3>1, <3>4 DEF JobFields
    <3> QED  BY <3>1, <3>2, <3>3, <3>5
  <2>8. n \in RowsOf(Of[i])'  BY <2>3, <2>4 DEF RowsOf
  <2>9. HandsOver(i)  BY <2>1, <2>7, <2>8 DEF HandsOver, Enters, Registering
  <2>10. ASSUME NEW x \in People \ Bots  PROVE AccountGoes(x)
    <3>1. CASE x = Of[i]
      <4>1. WayOf(i)  BY WayFields
      <4>2. Escrowed(x)  BY <2>1, <3>1, <4>1 DEF WayOf, Seeks
      <4>3. Escrowed(x)'  BY <2>6, <4>2, EscrowStays
      <4> QED  BY <1>0, <2>8, <3>1, <4>2, <4>3 DEF AccountGoes
    <3>2. CASE x # Of[i]
      <4>1. RowsOf(x)' = RowsOf(x)  BY <2>3, <2>4, <3>2 DEF RowsOf
      <4> QED  BY <1>0, <4>1, AccountSame
    <3> QED  BY <3>1, <3>2
  <2>11. GoesOn(i)  BY <2>2, <2>3, <2>4, <2>7 DEF GoesOn, SignupSteps
  <2> QED  BY <2>5, <2>6, <2>7, <2>9, <2>10, <2>11, WayStep
<1> QED  BY <1>1, <1>2

LEMMA WayAnswers ==
  ASSUME RowsInv, EntryInv, DeviceInv, WayInv, NEW i \in Installs, StorePrekeys(i)
  PROVE  WayInv'
<1>0. UNCHANGED <<store, blob, accounts, plc, pairing>>  BY DEF StorePrekeys, OnlyServer
<1>1. CASE Refuse(i) /\ UNCHANGED rows  BY <1>0, <1>1, WayRefused
<1>2. CASE ~(Refuse(i) /\ UNCHANGED rows)
  <2>1. PICK pk, s : pk = job[i].pk /\ s = "session"  OBVIOUS
  <2>2. /\ rows' = [rows EXCEPT ![pk].keys = TRUE] /\ job' = [job EXCEPT ![i].step = s]
        /\ job[i].step = "keys" /\ UNCHANGED <<at, past>>
    BY <1>2, <2>1 DEF StorePrekeys, Then
  <2>3. job[i] # NoJob  BY <2>2, OffFields
  <2>4. RowsGo /\ DOMAIN rows' = DOMAIN rows  BY <1>0, <2>2, RowKeyed
  <2>5. \A k \in DOMAIN rows : rows'[k].live = rows[k].live /\ rows'[k].of = rows[k].of
    <3>1. \A k \in DOMAIN rows : rows'[k] = rows[k] \/ rows'[k] = [rows[k] EXCEPT !.keys = TRUE]
      BY <2>2, RowsDomain DEF RowsInv
    <3>2. \A k \in DOMAIN rows : [rows[k] EXCEPT !.keys = TRUE].live = rows[k].live  OBVIOUS
    <3> QED  BY <2>4, <3>1, <3>2 DEF RowsGo
  <2>6. \A x : RowsOf(x)' = RowsOf(x)  BY <2>4, <2>5 DEF RowsOf
  <2>7. BooksGo  BY <1>0, <2>2, <2>5 DEF BooksGo, WayInv
  <2>8. \A x \in People \ Bots : AccountGoes(x)  BY <1>0, <2>6, AccountSame
  <2>9. /\ UNCHANGED <<at, store>> /\ job'[i].step = s /\ job'[i].sent = job[i].sent
        /\ job'[i].pk = job[i].pk /\ \A j \in Installs \ {i} : Same(j)
    <3>1. UNCHANGED <<at, store>>  BY <1>0, <2>2
    <3> QED  BY <2>2, <2>3, <3>1, JobSteps
  <2>10. HandsOver(i)  BY <2>1, <2>2, <2>9 DEF HandsOver, Enters, Registering, Makes
  <2>11. Of[i] \notin Bots \/ rows'[job'[i].pk].key = job[i].sent.key
    <3>1. (Of[i] \in Bots => BotFits(i)) /\ DeviceFits(i)  BY WayFields, DeviceFields
    <3>2. Of[i] \in Bots => job[i].pk \in DOMAIN rows /\ rows[job[i].pk].key = job[i].sent.key
      BY <2>2, <3>1 DEF BotFits, DeviceFits, RequestFits
    <3> QED  BY <2>4, <2>9, <3>2 DEF RowsGo
  <2>12. GoesOn(i)  BY <2>1, <2>3, <2>9, <2>11 DEF GoesOn, SignupSteps
  <2> QED  BY <2>4, <2>7, <2>8, <2>9, <2>10, <2>12, WayStep
<1> QED  BY <1>1, <1>2

LEMMA WayIssues ==
  ASSUME RowsInv, EntryInv, DeviceInv, WayInv, NEW i \in Installs, IssueSession(i)
  PROVE  WayInv'
<1>0. UNCHANGED <<store, rows, blob, accounts, plc, pairing>>  BY DEF IssueSession, OnlyServer
<1>1. CASE Refuse(i)  BY <1>0, <1>1, WayRefused
<1>2. CASE ~Refuse(i)
  <2>1. PICK pk : pk = job[i].pk  OBVIOUS
  <2>2. /\ job' = [job EXCEPT ![i] = NoJob] /\ job[i].step = "session" /\ UNCHANGED past /\ Live(pk)
        /\ at' = at \/ (at[i].pc = "wait" /\ at' = [at EXCEPT ![i].pc = "identity", ![i].token = pk])
    BY <1>2, <2>1 DEF IssueSession, Waits
  <2>3. DeviceFits(i) /\ Shape(i) /\ FieldsOK  BY EntryFields, DeviceFields
  <2>4. job'[i] = NoJob /\ \A j \in Installs \ {i} : job'[j] = job[j]  BY <2>2, <2>3 DEF FieldsOK
  <2>5. /\ at' = at \/ (/\ at[i].pc = "wait" /\ at'[i].pc = "identity"
                        /\ at'[i].num = at[i].num /\ at'[i].key = at[i].key)
        /\ \A j \in Installs \ {i} : at'[j] = at[j]
    BY <2>2, <2>3, OffFields DEF FieldsOK, Shape
  <2>6. \A j \in Installs \ {i} : Same(j)  BY <1>0, <2>4, <2>5 DEF Same
  <2>7. HandsOver(i)  BY <2>2, <2>5 DEF HandsOver, Enters, Registering, Makes
  <2>8. Stays(i) \/ WayOf(i)'
    <3>1. CASE at' = at  BY <1>0, <2>4, <3>1 DEF Stays
    <3>2. CASE at[i].pc = "wait" /\ at'[i].pc = "identity" /\ at'[i].num = at[i].num
               /\ at'[i].key = at[i].key
      <4>1. WayOf(i) /\ (Of[i] \in Bots => BotFits(i))  BY WayFields
      <4>2. AskFits(i)' /\ ~Seeks(i)'
        BY <2>4, <3>2, OffFields DEF AskFits, Seeks, SignupPcs, SignupSteps
      <4>3. ASSUME Of[i] \in Bots  PROVE BotFits(i)'
        <5>1. BotFits(i) /\ job[i] # NoJob  BY <2>2, <4>1, <4>3, OffFields
        <5>2. /\ pk \in DOMAIN rows /\ rows[pk].live /\ rows[pk].by = i
              /\ rows[pk].num = at[i].num /\ rows[pk].key = at[i].key
          BY <2>1, <2>2, <2>3, <3>2, <5>1 DEF DeviceFits, RequestFits, BotFits, Live
        <5>3. rows[pk].of = Of[i]  BY <5>2 DEF DeviceInv, RowsFit
        <5>4. Matches(Of[i], at[i].num, at[i].key)'
          BY <1>0, <3>2, <5>2, <5>3 DEF Matches, Find, RowsOf
        <5>5. store'[i] = NoStore \/ Known(i)' \/ Lost(Of[i])'
          BY <1>0, <2>2, <3>2, <5>1 DEF BotFits, Known, Find, RowsOf, Lost
        <5> QED  BY <2>4, <3>2, <5>4, <5>5, OffFields DEF BotFits
      <4> QED  BY <4>2, <4>3 DEF WayOf
    <3> QED  BY <2>5, <3>1, <3>2
  <2>9. \A j \in Installs : HandsOver(j) /\ (Stays(j) \/ WayOf(j)')  BY <2>6, <2>7, <2>8, SameStays
  <2>10. "stuck" \in DOMAIN past  BY DEF WayInv
  <2> QED  BY <1>0, <2>2, <2>9, <2>10, WayAside
<1> QED  BY <1>1, <1>2

LEMMA WayServed ==
  ASSUME RowsInv, EntryInv, DeviceInv, WayInv, NEW i \in Installs, Serve(i)
  PROVE  WayInv'
BY WayAdmits, WayConsumes, WayPurges, WayDrops, WayCreates, WayAnswers, WayIssues DEF Serve

\* What an install does by itself.
PastGrows ==
    /\ "stuck" \in DOMAIN past' /\ past.stuck \subseteq past'.stuck /\ past.left \subseteq past'.left
    /\ past.replaced \subseteq past'.replaced

LEMMA PastGoesOn ==
  ASSUME DeviceInv, WayInv, NEW v, past' \in {past, Stuck(v), Mishap}
  PROVE  PastGrows
BY StuckGrows DEF PastGrows

LEMMA WayTurns ==
  ASSUME RowsInv, DeviceInv, WayInv, NEW i \in Installs, UNCHANGED <<rows, accounts, blob, plc>>,
         pairing' \in {pairing, NoPairing}, PastGrows, \A j \in Installs \ {i} : Same(j),
         HandsOver(i), Stays(i) \/ WayOf(i)'
  PROVE  WayInv'
<1>1. \A j \in Installs : HandsOver(j) /\ (Stays(j) \/ WayOf(j)')  BY SameStays
<1> QED  BY <1>1, WayAside DEF PastGrows

LEMMA HandsOverLightly ==
  ASSUME NEW i, job'[i] = job[i], at[i].pc = "register" => at'[i].pc = "register"
  PROVE  HandsOver(i)
BY DEF HandsOver, Enters, Registering, Makes

LEMMA GoFields ==
  ASSUME EntryInv, DeviceInv, NEW i \in Installs, NEW p, at' = Go(i, p)
  PROVE  /\ at'[i].pc = p /\ at'[i].key = at[i].key /\ at'[i].num = at[i].num /\ at'[i].op = at[i].op
         /\ at'[i].reg = at[i].reg /\ \A j \in Installs \ {i} : at'[j] = at[j]
<1>1. DOMAIN at = Installs /\ DOMAIN at[i] = DOMAIN Off  BY EntryFields, DeviceFields DEF FieldsOK, Shape
<1>2. at'[i] = [at[i] EXCEPT !.pc = p] /\ \A j \in Installs \ {i} : at'[j] = at[j]
  BY <1>1 DEF Go
<1> QED  BY <1>1, <1>2, OffFields

LEMMA PersonMoves ==
  ASSUME WayInv, BooksGo, RowsGo, NEW i \in Installs, Of[i] \notin Bots, job'[i] = job[i],
         at'[i].pc \in SignupPcs => at'[i].key # 0 /\ at'[i].op # "link",
         at'[i].pc = "replace" => at'[i].op # "link", at'[i].pc = "link" => Escrowed(Of[i])
  PROVE  WayOf(i)'
<1>1. WayOf(i) /\ AskFits(i) /\ Of[i] \in People  BY WayFields
<1>2. AskFits(i)'  BY <1>1 DEF AskFits, RowsGo
<1>3. Seeks(i)' => Escrowed(Of[i])  BY <1>1 DEF Seeks, WayOf
<1> QED  BY <1>1, <1>2, <1>3, EscrowStays DEF WayOf

LEMMA WayGenesis ==
  ASSUME RowsInv, EntryInv, DeviceInv, WayInv, NEW i \in Installs, SubmitGenesis(i)
  PROVE  WayInv'
<1>1. /\ UNCHANGED <<rows, accounts, blob, job, store, pairing, past>> /\ at[i].pc = "genesis"
      /\ at' = Go(i, "update") /\ plc' = [plc EXCEPT ![Of[i]].len = Max({@, 1})]
  BY DEF SubmitGenesis, serverVars
<1>2. PICK p : p = "update" /\ at' = Go(i, p)  BY <1>1
<1>3. /\ at'[i].pc = "update" /\ at'[i].key = at[i].key /\ at'[i].op = at[i].op
      /\ \A j \in Installs \ {i} : at'[j] = at[j]
  BY <1>2, GoFields
<1>4. \A j \in Installs \ {i} : Same(j)  BY <1>1, <1>3 DEF Same
<1>5. RowsGo  BY <1>1, RowsSame
<1>6. BooksGo  BY <1>1 DEF BooksGo, WayInv
<1>7. AskFits(i) /\ Of[i] \in People /\ FieldsOK /\ InstallFits(i)  BY WayFields, EntryFields
<1>8. WayOf(i)'
  BY <1>1, <1>3, <1>5, <1>6, <1>7, PersonMoves DEF AskFits, SignupPcs, InstallFits
<1>9. HandsOver(i)  BY <1>1, HandsOverLightly
<1>10. \A x : RowsOf(x)' = RowsOf(x)  BY <1>1 DEF RowsOf
<1>11. \A x \in People : plc'[x].len = 2 => plc[x].len = 2
  <2>1. PICK n : n = Max({plc[Of[i]].len, 1})  OBVIOUS
  <2>2. plc[Of[i]].len \in 0..3 /\ "len" \in DOMAIN plc[Of[i]] /\ DOMAIN plc = People
    BY <1>7 DEF FieldsOK
  <2>3. n = 2 => plc[Of[i]].len = 2
    <3>1. PICK m \in 0..3 : m = plc[Of[i]].len  BY <2>2
    <3>2. n \in {m, 1}
      <4>1. m >= 1 => m \in {m, 1} /\ \A k \in {m, 1} : m >= k  BY <3>1
      <4>2. ~(m >= 1) => 1 \in {m, 1} /\ \A k \in {m, 1} : 1 >= k  BY <3>1
      <4>3. \E k \in {m, 1} : \A l \in {m, 1} : k >= l  BY <4>1, <4>2
      <4> QED  BY <2>1, <3>1, <4>3 DEF Max
    <3> QED  BY <3>1, <3>2
  <2>4. plc'[Of[i]].len = n /\ \A x \in People \ {Of[i]} : plc'[x] = plc[x]
    <3>1. plc' = [plc EXCEPT ![Of[i]].len = n]  BY <1>1, <2>1, Zenon
    <3> QED  BY <1>7, <2>2, <3>1
  <2> QED  BY <2>3, <2>4
<1>12. \A x \in People \ Bots : AccountGoes(x)
  BY <1>1, <1>10, <1>11 DEF AccountGoes
<1> QED  BY <1>4, <1>5, <1>6, <1>8, <1>9, <1>12, WayOne

\* Back to the start, with nothing asked for.
LEMMA HomeFields ==
  ASSUME EntryInv, DeviceInv, NEW i \in Installs, at' = Home(i)
  PROVE  at'[i].pc = "new" /\ \A j \in Installs \ {i} : at'[j] = at[j]
<1>1. at'[i] = [Off EXCEPT !.pc = "new"] /\ \A j \in Installs \ {i} : at'[j] = at[j]
  BY EntryFields DEF Home, FieldsOK
<1> QED  BY <1>1, OffFields

LEMMA WayUpdates ==
  ASSUME RowsInv, EntryInv, DeviceInv, WayInv, NEW i \in Installs, NEW a, SubmitUpdate(i, a)
  PROVE  WayInv'
<1>1. /\ UNCHANGED <<rows, accounts, blob, job, store, pairing>> /\ at[i].pc = "update"
      /\ past' = past \/ past' = Stuck({Of[i]})
  BY DEF SubmitUpdate, serverVars
<1>2. PastGrows  BY <1>1, PastGoesOn
<1>3. AskFits(i) /\ Of[i] \in People \ Bots /\ FieldsOK  BY <1>1, WayFields, EntryFields DEF InstallFits
<1>4. HandsOver(i)  BY <1>1, HandsOverLightly
<1>5. CASE plc[Of[i]].len # 1
  <2>1. at' = Home(i) /\ plc' = plc  BY <1>5 DEF SubmitUpdate
  <2>2. at'[i].pc = "new" /\ \A j \in Installs \ {i} : at'[j] = at[j]  BY <2>1, HomeFields
  <2>3. Stays(i)  BY <1>1, <2>2 DEF Stays, Duties, SignupPcs
  <2>4. \A j \in Installs \ {i} : Same(j)  BY <1>1, <2>2 DEF Same
  <2> QED  BY <1>1, <1>2, <1>4, <2>1, <2>3, <2>4, WayTurns
<1>6. CASE plc[Of[i]].len = 1
  <2>1. plc' = [plc EXCEPT ![Of[i]] = [len |-> 2, key |-> at[i].key]]  BY <1>6 DEF SubmitUpdate
  <2>2. \A x \in People \ {Of[i]} : plc'[x] = plc[x]  BY <1>3, <2>1 DEF FieldsOK
  <2>3. RowsGo  BY <1>1, <1>2, RowsSame DEF PastGrows
  <2>4. BooksGo  BY <1>1, <1>2 DEF BooksGo, PastGrows
  <2>5. \A x : RowsOf(x)' = RowsOf(x)  BY <1>1 DEF RowsOf
  <2>6. /\ \A j \in Installs \ {i} : at'[j] = at[j]
        /\ Stays(i) \/ WayOf(i)'
        /\ Enters(i)' \/ Lost(Of[i])'
    <3>1. CASE a
      <4>1. PICK p : p = "register" /\ at' = Go(i, p)  BY <1>6, <3>1 DEF SubmitUpdate
      <4>2. /\ at'[i].pc = "register" /\ at'[i].key = at[i].key /\ at'[i].op = at[i].op
            /\ \A j \in Installs \ {i} : at'[j] = at[j]
        BY <4>1, GoFields
      <4>3. WayOf(i)'
        BY <1>1, <1>3, <2>3, <2>4, <4>2, PersonMoves DEF AskFits, SignupPcs
      <4> QED  BY <4>2, <4>3 DEF Enters
    <3>2. CASE ~a
      <4>1. at' = Home(i) /\ past' = Stuck({Of[i]})  BY <3>2 DEF SubmitUpdate
      <4>2. at'[i].pc = "new" /\ \A j \in Installs \ {i} : at'[j] = at[j]  BY <4>1, HomeFields
      <4>3. Stays(i)  BY <1>1, <4>2 DEF Stays, Duties, SignupPcs
      <4>4. Of[i] \in past'.stuck  BY <4>1, StuckGrows
      <4> QED  BY <4>2, <4>3, <4>4 DEF Lost
    <3> QED  BY <3>1, <3>2
  <2>7. ASSUME NEW x \in People \ Bots  PROVE AccountGoes(x)
    <3>1. CASE x = Of[i]  BY <1>1, <2>5, <2>6, <3>1 DEF AccountGoes
    <3>2. CASE x # Of[i]  BY <1>1, <2>2, <2>5, <3>2, AccountSame
    <3> QED  BY <3>1, <3>2
  <2>8. \A j \in Installs \ {i} : Same(j)  BY <1>1, <2>6 DEF Same
  <2> QED  BY <1>4, <2>3, <2>4, <2>6, <2>7, <2>8, WayOne
<1> QED  BY <1>5, <1>6

LEMMA WayRequests ==
  ASSUME RowsInv, EntryInv, DeviceInv, WayInv, NEW i \in Installs,
         Register(i) \/ RequestReplace(i) \/ RequestLink(i)
  PROVE  WayInv'
<1>0. /\ UNCHANGED <<rows, accounts, blob, plc, pairing, store, past>> /\ FieldsOK
      /\ WayOf(i) /\ AskFits(i) /\ (Of[i] \in Bots => BotFits(i) /\ KeysAreOwn(i)) /\ Of[i] \in People
      /\ "stuck" \in DOMAIN past
  BY WayFields, EntryFields, DeviceFields
  DEF Register, RequestReplace, RequestLink, Request, serverVars
<1>1. PICK s :
         /\ job' = [job EXCEPT ![i] = [step |-> s, pk |-> 0, sent |-> at[i]]] /\ job[i] = NoJob
         /\ at' = Go(i, "wait")
         /\ \/ s = "admit" /\ at[i].pc = "register"
            \/ s = "consume" /\ at[i].pc \in {"replace", "link"}
  BY DEF Register, RequestReplace, RequestLink, Request
<1>2. /\ at'[i].pc = "wait" /\ at'[i].key = at[i].key /\ \A j \in Installs \ {i} : at'[j] = at[j]
  <2>1. PICK p : p = "wait" /\ at' = Go(i, p)  BY <1>1
  <2> QED  BY <2>1, GoFields
<1>3. /\ job'[i].step = s /\ job'[i].sent = at[i] /\ \A j \in Installs \ {i} : job'[j] = job[j]
  BY <1>0, <1>1 DEF FieldsOK
<1>4. \A j \in Installs \ {i} : Same(j)  BY <1>0, <1>2, <1>3 DEF Same
<1>5. PastGrows  BY <1>0 DEF PastGrows
<1>6. HandsOver(i)  BY <1>1, <1>3, OffFields DEF HandsOver, Enters, Registering, Makes
<1>7. BooksGo  BY <1>0 DEF BooksGo
<1>8. AskFits(i)'  BY <1>0, <1>1, <1>2, <1>3 DEF AskFits, SignupPcs, SignupSteps
<1>9. Of[i] \notin Bots /\ Seeks(i)' => Escrowed(Of[i])'
  <2>1. Seeks(i)' => Seeks(i)  BY <1>0, <1>1, <1>2, <1>3 DEF Seeks, AskFits, SignupPcs
  <2> QED  BY <1>0, <1>7, <2>1, EscrowStays DEF WayOf
<1>10. ASSUME Of[i] \in Bots  PROVE BotFits(i)'
  <2>1. BotFits(i) /\ s = "admit" /\ at[i].pc = "register"  BY <1>0, <1>1, <1>10 DEF KeysAreOwn
  <2>2. store'[i] = NoStore \/ Known(i)' \/ Lost(Of[i])'
    BY <1>0, <2>1 DEF BotFits, Known, Find, RowsOf, Lost
  <2> QED  BY <1>2, <1>3, <2>1, <2>2 DEF BotFits
<1>11. WayOf(i)'  BY <1>8, <1>9, <1>10 DEF WayOf
<1> QED  BY <1>0, <1>4, <1>5, <1>6, <1>11, WayTurns

\* The saves: a bot that has its row finds it under the number and key saved.
LEMMA WaySaves ==
  ASSUME RowsInv, EntryInv, DeviceInv, WayInv, NEW i \in Installs, NEW a,
         Save(i) \/ UploadOneTimeKyber(i, a)
  PROVE  WayInv'
<1>0. /\ UNCHANGED <<rows, accounts, blob, plc, pairing, job>> /\ past' \in {past, Mishap}
      /\ FieldsOK /\ Shape(i) /\ DeviceFits(i) /\ WayOf(i) /\ (Of[i] \in Bots => BotFits(i))
      /\ Of[i] \in People
  BY WayFields, EntryFields, DeviceFields
  DEF Save, SaveIdentity, SaveDeviceAccount, SavePrekeys, UploadOneTimeKyber, serverVars
<1>1. PastGrows  BY <1>0, PastGoesOn
<1>2. RowsGo  BY <1>0, <1>1, RowsSame DEF PastGrows
<1>3. BooksGo  BY <1>0, <1>1 DEF BooksGo, PastGrows
<1>4. \A n, k : Matches(Of[i], n, k) => Matches(Of[i], n, k)'  BY <1>0 DEF Matches, Find, RowsOf
<1>5. Lost(Of[i]) => Lost(Of[i])'  BY <1>0, <1>3, EscrowStays
<1>6. CASE SaveIdentity(i)
  <2>1. PICK p : p = "device" /\ at' = Go(i, p)  BY <1>6 DEF SaveIdentity
  <2>2. at[i].pc = "identity" /\ store' = [store EXCEPT ![i].key = at[i].key]  BY <1>6 DEF SaveIdentity
  <2>3. /\ at'[i].pc = "device" /\ at'[i].key = at[i].key /\ at'[i].num = at[i].num
        /\ \A j \in Installs \ {i} : at'[j] = at[j]
    BY <2>1, GoFields
  <2>4. store'[i].key = at[i].key /\ \A j \in Installs \ {i} : store'[j] = store[j]
    BY <1>0, <2>2, OffFields DEF Shape, FieldsOK
  <2>5. \A j \in Installs \ {i} : Same(j)  BY <1>0, <2>3, <2>4 DEF Same
  <2>6. HandsOver(i)  BY <1>0, <2>2, HandsOverLightly
  <2>7. ASSUME Of[i] \notin Bots  PROVE WayOf(i)'
    BY <1>0, <1>2, <1>3, <2>3, <2>7, PersonMoves DEF SignupPcs
  <2>8. ASSUME Of[i] \in Bots  PROVE WayOf(i)'
    <3>1. BotFits(i) /\ AskFits(i)  BY <1>0, <2>8, WayFields
    <3>2. PICK n, k : n = at[i].num /\ k = at[i].key  OBVIOUS
    <3>3. Of[i] \in past.left \/ Matches(Of[i], n, k)  BY <2>2, <3>1, <3>2 DEF BotFits
    <3>4. Of[i] \in past'.left \/ Matches(Of[i], n, k)'  BY <1>1, <1>4, <3>3 DEF PastGrows
    <3>5. job[i].step \in {"keys", "session"} => rows'[job'[i].pk].key = job'[i].sent.key
      BY <1>0, <3>1 DEF BotFits
    <3>6. BotFits(i)'  BY <1>0, <2>3, <2>4, <3>1, <3>2, <3>4, <3>5 DEF BotFits
    <3>7. AskFits(i)'  BY <1>0, <2>3, <3>1 DEF AskFits, SignupPcs
    <3> QED  BY <2>8, <3>6, <3>7 DEF WayOf
  <2> QED  BY <1>0, <1>1, <2>5, <2>6, <2>7, <2>8, WayTurns
<1>7. CASE SaveDeviceAccount(i)
  <2>1. PICK p : p = "prekeys" /\ at' = Go(i, p)  BY <1>7 DEF SaveDeviceAccount
  <2>2. at[i].pc = "device" /\ store' = [store EXCEPT ![i].num = at[i].num, ![i].reg = at[i].reg]
    BY <1>7 DEF SaveDeviceAccount
  <2>3. /\ at'[i].pc = "prekeys" /\ at'[i].key = at[i].key /\ at'[i].num = at[i].num
        /\ \A j \in Installs \ {i} : at'[j] = at[j]
    BY <2>1, GoFields
  <2>4. /\ store'[i].key = store[i].key /\ store'[i].num = at[i].num
        /\ \A j \in Installs \ {i} : store'[j] = store[j]
    BY <1>0, <2>2, OffFields DEF Shape, FieldsOK
  <2>5. \A j \in Installs \ {i} : Same(j)  BY <1>0, <2>3, <2>4 DEF Same
  <2>6. HandsOver(i)  BY <1>0, <2>2, HandsOverLightly
  <2>7. ASSUME Of[i] \notin Bots  PROVE WayOf(i)'
    BY <1>0, <1>2, <1>3, <2>3, <2>7, PersonMoves DEF SignupPcs
  <2>8. ASSUME Of[i] \in Bots  PROVE WayOf(i)'
    <3>1. BotFits(i) /\ AskFits(i)  BY <1>0, <2>8, WayFields
    <3>2. PICK n, k : n = at[i].num /\ k = at[i].key /\ k = store[i].key  BY <2>2, <3>1 DEF BotFits
    <3>3. Of[i] \in past.left \/ Matches(Of[i], n, k)  BY <2>2, <3>1, <3>2 DEF BotFits
    <3>4. Of[i] \in past'.left \/ Matches(Of[i], n, k)'  BY <1>1, <1>4, <3>3 DEF PastGrows
    <3>5. Known(i)' \/ Lost(Of[i])'  BY <2>4, <3>2, <3>4 DEF Matches, Known, Lost
    <3>6. BotFits(i)'  BY <1>0, <2>3, <3>1, <3>5 DEF BotFits
    <3>7. AskFits(i)'  BY <1>0, <2>3, <3>1 DEF AskFits, SignupPcs
    <3> QED  BY <2>8, <3>6, <3>7 DEF WayOf
  <2> QED  BY <1>0, <1>1, <2>5, <2>6, <2>7, <2>8, WayTurns
<1>8. CASE SavePrekeys(i)
  <2>1. PICK p : p = "upload" /\ at' = Go(i, p)  BY <1>8 DEF SavePrekeys
  <2>2. at[i].pc = "prekeys" /\ store' = [store EXCEPT ![i].priv = at[i].reg]  BY <1>8 DEF SavePrekeys
  <2>3. at'[i].pc = "upload" /\ \A j \in Installs \ {i} : at'[j] = at[j]
    BY <2>1, GoFields
  <2>4. /\ DOMAIN store'[i] = DOMAIN NoStore
        /\ store'[i].key = store[i].key /\ store'[i].num = store[i].num
        /\ \A j \in Installs \ {i} : store'[j] = store[j]
        /\ store'[i] = [store[i] EXCEPT !.priv = at[i].reg]
    BY <1>0, <2>2, OffFields DEF Shape, FieldsOK
  <2>5. \A j \in Installs \ {i} : Same(j)  BY <1>0, <2>3, <2>4 DEF Same
  <2>6. HandsOver(i)  BY <1>0, <2>2, HandsOverLightly
  <2>7. ASSUME Of[i] \notin Bots  PROVE WayOf(i)'
    BY <1>0, <1>2, <1>3, <2>3, <2>7, PersonMoves DEF SignupPcs
  <2>8. ASSUME Of[i] \in Bots  PROVE WayOf(i)'
    <3>1. BotFits(i) /\ AskFits(i)  BY <1>0, <2>8, WayFields
    <3>2. store[i] = NoStore => store'[i] = NoStore
      <4> SUFFICES ASSUME store[i] = NoStore  PROVE store'[i] = NoStore  OBVIOUS
      <4>1. at[i].reg = 0  BY <1>0, <2>2, OffFields DEF DeviceFits
      <4>2. store'[i] = [NoStore EXCEPT !.priv = 0]  BY <2>4, <4>1
      <4> QED  BY <4>2 DEF NoStore
    <3>3. PICK n, k : n = store[i].num /\ k = store[i].key  OBVIOUS
    <3>4. store[i] = NoStore \/ Matches(Of[i], n, k) \/ Lost(Of[i])
      BY <2>2, <3>1, <3>3 DEF BotFits, Known, Matches
    <3>5. store'[i] = NoStore \/ Matches(Of[i], n, k)' \/ Lost(Of[i])'
      BY <1>4, <1>5, <3>2, <3>4
    <3>6. store'[i] = NoStore \/ Known(i)' \/ Lost(Of[i])'
      BY <2>4, <3>3, <3>5 DEF Known, Matches
    <3>7. BotFits(i)'  BY <1>0, <2>3, <3>1, <3>6 DEF BotFits
    <3>8. AskFits(i)'  BY <1>0, <2>3, <3>1 DEF AskFits, SignupPcs
    <3> QED  BY <2>8, <3>7, <3>8 DEF WayOf
  <2> QED  BY <1>0, <1>1, <2>5, <2>6, <2>7, <2>8, WayTurns
<1>9. CASE \E b : UploadOneTimeKyber(i, b)
  <2>1. PICK t : at' = [at EXCEPT ![i] = [Off EXCEPT !.pc = "in", !.token = t]]
                 \/ at' = [at EXCEPT ![i] = Off]
    BY <1>9 DEF UploadOneTimeKyber
  <2>2. at[i].pc = "upload" /\ UNCHANGED store  BY <1>9 DEF UploadOneTimeKyber
  <2>3. at'[i].pc \in {"in", "off"} /\ \A j \in Installs \ {i} : at'[j] = at[j]
    <3> DEFINE o == [Off EXCEPT !.pc = "in", !.token = t]
    <3>1. o.pc = "in"  BY OffFields
    <3>2. at' = [at EXCEPT ![i] = o] \/ at' = [at EXCEPT ![i] = Off]  BY <2>1
    <3> HIDE DEF o
    <3>3. (at'[i] = o \/ at'[i] = Off) /\ \A j \in Installs \ {i} : at'[j] = at[j]
      BY <1>0, <3>2 DEF FieldsOK
    <3> QED  BY <3>1, <3>3, OffFields
  <2>4. Stays(i)  BY <1>0, <2>2, <2>3 DEF Stays, Duties, SignupPcs
  <2>5. HandsOver(i)  BY <1>0, <2>2, HandsOverLightly
  <2>6. \A j \in Installs \ {i} : Same(j)  BY <1>0, <2>2, <2>3 DEF Same
  <2> QED  BY <1>0, <1>1, <2>4, <2>5, <2>6, WayTurns
<1> QED  BY <1>6, <1>7, <1>8, <1>9 DEF Save

LEMMA WayAsks ==
  ASSUME RowsInv, EntryInv, DeviceInv, WayInv, NEW i \in Installs, IssueChallenge(i) \/ IssueToken(i)
  PROVE  WayInv'
<1>0. /\ UNCHANGED <<rows, accounts, blob, plc, pairing, job, store, past>>
      /\ FieldsOK /\ Shape(i)
  BY EntryFields, DeviceFields DEF IssueChallenge, IssueToken
<1>1. PastGrows  BY <1>0 DEF PastGrows, WayInv
<1>2. PICK t, n : at' = [at EXCEPT ![i].token = t, ![i].nonce = n] \/ at' = [at EXCEPT ![i].nonce = n]
  BY DEF IssueChallenge, IssueToken
<1>3. /\ at'[i].pc = at[i].pc /\ at'[i].key = at[i].key /\ at'[i].num = at[i].num
      /\ at'[i].op = at[i].op /\ \A j \in Installs \ {i} : at'[j] = at[j]
  BY <1>0, <1>2, OffFields DEF FieldsOK, Shape
<1>4. Stays(i)  BY <1>0, <1>3 DEF Stays
<1>5. HandsOver(i)  BY <1>0, <1>3, HandsOverLightly
<1>6. \A j \in Installs \ {i} : Same(j)  BY <1>0, <1>3 DEF Same
<1> QED  BY <1>0, <1>1, <1>4, <1>5, <1>6, WayTurns

\* The two sides of a pairing are one person's.
PairFits == pairing.stage = "accepted" => Of[pairing.to] = Of[pairing.from]

\* A bundle is sent by a device, so there is a key in escrow.
LEMMA WayBundles ==
  ASSUME RowsInv, EntryInv, DeviceInv, WayInv, PairFits, NEW i \in Installs, SendBundle(i)
  PROVE  WayInv'
<1>1. /\ UNCHANGED <<rows, accounts, blob, plc, job, store, at, past>>
      /\ SenderRow(i) # {} /\ pairing.stage = "accepted" /\ pairing.from = i
      /\ pairing'.to = pairing.to
  BY DEF SendBundle
<1>2. RowsGo  BY <1>1, RowsSame
<1>3. BooksGo  BY <1>1 DEF BooksGo, WayInv
<1>4. \A j \in Installs : Same(j)  BY <1>1 DEF Same
<1>5. \A x : RowsOf(x)' = RowsOf(x)  BY <1>1 DEF RowsOf
<1>6. RowsOf(Of[i]) # {} /\ Of[pairing'.to] = Of[i]  BY <1>1 DEF SenderRow, Find, PairFits
<1>7. ASSUME NEW x \in People \ Bots  PROVE AccountGoes(x)
  <2>1. Of[i] = x => Escrowed(x)  BY <1>6 DEF WayInv, WayFits
  <2> QED  BY <1>1, <1>5, <1>6, <2>1 DEF AccountGoes
<1>8. \A j \in Installs : HandsOver(j) /\ Stays(j)  BY <1>4, SameStays
<1> QED  BY <1>2, <1>3, <1>7, <1>8, WayKept

LEMMA WayLinks ==
  ASSUME RowsInv, EntryInv, DeviceInv, WayInv, NEW i \in Installs, AwaitLink(i)
  PROVE  WayInv'
<1>0. /\ UNCHANGED <<rows, accounts, blob, plc, pairing, job, store>> /\ FieldsOK
      /\ at[i].pc = "pair" /\ pairing.stage = "sent" /\ pairing.to = i /\ Of[i] \in People \ Bots
      /\ past' = [past EXCEPT !.attempts = past.attempts + 1]
  BY EntryFields DEF AwaitLink, serverVars
<1>1. PastGrows  BY <1>0 DEF PastGrows, WayInv
<1>2. RowsGo  BY <1>0, <1>1, RowsSame DEF PastGrows
<1>3. BooksGo  BY <1>0, <1>1 DEF BooksGo, PastGrows
<1>4. at'[i].pc = "link" /\ \A j \in Installs \ {i} : at'[j] = at[j]
  <2> DEFINE o == [Off EXCEPT !.pc = "link", !.op = "link", !.key = pairing.key,
                      !.num = pairing.num, !.reg = past.attempts + 1, !.nonce = pairing.nonce]
  <2>1. at' = [at EXCEPT ![i] = o]  BY DEF AwaitLink
  <2>2. o.pc = "link"  BY OffFields
  <2> HIDE DEF o
  <2> QED  BY <1>0, <2>1, <2>2 DEF FieldsOK
<1>5. Escrowed(Of[i])  BY <1>0 DEF WayInv, WayFits
<1>6. WayOf(i)'  BY <1>0, <1>2, <1>3, <1>4, <1>5, PersonMoves DEF SignupPcs
<1>7. HandsOver(i)  BY <1>0, HandsOverLightly
<1>8. \A j \in Installs \ {i} : Same(j)  BY <1>0, <1>4 DEF Same
<1> QED  BY <1>0, <1>1, <1>6, <1>7, <1>8, WayTurns

LEMMA WayClears ==
  ASSUME RowsInv, EntryInv, DeviceInv, WayInv, NEW i \in Installs, Tombstone(i) \/ Wipe(i)
  PROVE  WayInv'
<1>0. /\ UNCHANGED <<rows, accounts, blob, pairing, job, past>> /\ FieldsOK /\ Of[i] \in People
      /\ at[i].pc \in {"tombstone", "wipe"}
  BY EntryFields DEF Tombstone, Wipe, serverVars
<1>1. PastGrows  BY <1>0 DEF PastGrows, WayInv
<1>2. HandsOver(i)  BY <1>0, HandsOverLightly
<1>3. CASE Tombstone(i)
  <2>1. PICK p : p = "wipe" /\ at' = Go(i, p)  BY <1>3 DEF Tombstone
  <2>2. at'[i].pc = "wipe" /\ \A j \in Installs \ {i} : at'[j] = at[j]  BY <2>1, GoFields
  <2>3. UNCHANGED store /\ plc' = [plc EXCEPT ![Of[i]].len = 3]  BY <1>3 DEF Tombstone
  <2>4. \A x \in People : plc'[x].len = plc[x].len \/ plc'[x].len # 2
    BY <1>0, <2>3 DEF FieldsOK
  <2>5. \A x : RowsOf(x)' = RowsOf(x)  BY <1>0 DEF RowsOf
  <2>6. \A x \in People \ Bots : AccountGoes(x)
    BY <1>0, <2>4, <2>5 DEF AccountGoes
  <2>7. Stays(i)  BY <1>0, <2>2, <2>3 DEF Stays, Duties, SignupPcs
  <2>8. \A j \in Installs \ {i} : Same(j)  BY <1>0, <2>2, <2>3 DEF Same
  <2>9. RowsGo  BY <1>0, <1>1, RowsSame DEF PastGrows
  <2>10. BooksGo  BY <1>0, <1>1 DEF BooksGo, PastGrows
  <2> QED  BY <1>2, <2>6, <2>7, <2>8, <2>9, <2>10, WayOne
<1>4. CASE Wipe(i)
  <2>1. at' = Home(i) /\ store' = [store EXCEPT ![i] = NoStore] /\ UNCHANGED plc  BY <1>4 DEF Wipe
  <2>2. at'[i].pc = "new" /\ \A j \in Installs \ {i} : at'[j] = at[j]  BY <2>1, HomeFields
  <2>3. store'[i] = NoStore /\ \A j \in Installs \ {i} : store'[j] = store[j]
    BY <1>0, <2>1 DEF FieldsOK
  <2>4. Stays(i)  BY <1>0, <2>2, <2>3 DEF Stays, Duties, SignupPcs
  <2>5. \A j \in Installs \ {i} : Same(j)  BY <1>0, <2>2, <2>3 DEF Same
  <2> QED  BY <1>0, <1>1, <1>2, <2>1, <2>4, <2>5, WayTurns
<1> QED  BY <1>3, <1>4

LEMMA WayWorks ==
  ASSUME RowsInv, EntryInv, DeviceInv, WayInv, PairFits, NEW i \in Installs, Work(i)
  PROVE  WayInv'
BY WayGenesis, WayUpdates, WayRequests, WayServed, WaySaves, WayAsks, WayBundles, WayLinks, WayClears
DEF Work

\* A new attempt has a key of its own; a bot goes straight to the server.
LEMMA WayPrepares ==
  ASSUME RowsInv, EntryInv, DeviceInv, WayInv, NEW i \in Installs, NEW cred, Prepare(i, cred)
  PROVE  WayInv'
<1>0. /\ UNCHANGED <<rows, accounts, blob, plc, pairing, job, store>> /\ FieldsOK
      /\ at[i].pc = "new" /\ past.attempts \in Nat
      /\ past' = [past EXCEPT !.attempts = past.attempts + 1]
      /\ AskFits(i) /\ (Of[i] \in Bots => BotFits(i))
  BY WayFields, EntryFields, DeviceFields DEF Prepare, serverVars
<1>1. PastGrows  BY <1>0 DEF PastGrows, WayInv
<1>2. RowsGo  BY <1>0, <1>1, RowsSame DEF PastGrows
<1>3. BooksGo  BY <1>0, <1>1 DEF BooksGo, PastGrows
<1>4. /\ at'[i].pc \in {"register", "genesis"} /\ at'[i].key # 0 /\ at'[i].op = "register"
      /\ \A j \in Installs \ {i} : at'[j] = at[j]
  <2> DEFINE p == IF Of[i] \in Bots THEN "register" ELSE "genesis"
             a == [Off EXCEPT !.op = "register", !.key = past.attempts + 1, !.num = 1,
                     !.reg = past.attempts + 1, !.cred = cred, !.pc = p]
  <2>1. at' = [at EXCEPT ![i] = a]  BY DEF Prepare
  <2>2. a.pc = p /\ a.key = past.attempts + 1 /\ a.op = "register"  BY OffFields
  <2>3. p \in {"register", "genesis"}  OBVIOUS
  <2> HIDE DEF a, p
  <2>4. at'[i] = a /\ \A j \in Installs \ {i} : at'[j] = at[j]  BY <1>0, <2>1 DEF FieldsOK
  <2>5. past.attempts + 1 # 0  BY <1>0
  <2> QED  BY <2>2, <2>3, <2>4, <2>5
<1>5. WayOf(i)'
  <2>1. CASE Of[i] \notin Bots  BY <1>0, <1>2, <1>3, <1>4, <2>1, PersonMoves
  <2>2. CASE Of[i] \in Bots
    <3>1. BotFits(i)  BY <1>0, <2>2
    <3>2. store'[i] = NoStore \/ Known(i)' \/ Lost(Of[i])'
      BY <1>0, <1>1, <3>1 DEF BotFits, Known, Find, RowsOf, Lost, PastGrows
    <3>3. BotFits(i)'  BY <1>0, <1>4, <3>1, <3>2 DEF BotFits
    <3>4. AskFits(i)'  BY <1>0, <1>4 DEF AskFits
    <3> QED  BY <2>2, <3>3, <3>4 DEF WayOf
  <2> QED  BY <2>1, <2>2
<1>6. HandsOver(i)  BY <1>0, HandsOverLightly
<1>7. \A j \in Installs \ {i} : Same(j)  BY <1>0, <1>4 DEF Same
<1> QED  BY <1>0, <1>1, <1>5, <1>6, <1>7, WayTurns

LEMMA WayRecovers ==
  ASSUME RowsInv, EntryInv, DeviceInv, WayInv, NEW i \in Installs, Recover(i)
  PROVE  WayInv'
<1>0. /\ UNCHANGED <<rows, accounts, blob, plc, pairing, job, store>> /\ FieldsOK
      /\ at[i].pc = "new" /\ blob[Of[i]] # 0
      /\ past' = [past EXCEPT !.attempts = past.attempts + 1]
  BY EntryFields DEF Recover
<1>1. PastGrows  BY <1>0 DEF PastGrows, WayInv
<1>2. RowsGo  BY <1>0, <1>1, RowsSame DEF PastGrows
<1>3. BooksGo  BY <1>0, <1>1 DEF BooksGo, PastGrows
<1>4. Of[i] \notin Bots  BY <1>0 DEF DeviceInv, Shapes
<1>5. /\ at'[i].pc = "replace" /\ at'[i].op = "replace"
      /\ \A j \in Installs \ {i} : at'[j] = at[j]
  <2> DEFINE aa(pk) == [Off EXCEPT !.pc = "replace", !.op = "replace", !.key = blob[Of[i]],
                           !.num = rows[pk].num, !.reg = past.attempts + 1,
                           !.nonce = <<pk, i, "replace">>]
  <2>1. PICK pk : at' = [at EXCEPT ![i] = aa(pk)]  BY DEF Recover
  <2> DEFINE a == aa(pk)
  <2>2. a.pc = "replace" /\ a.op = "replace"  BY OffFields
  <2>3. at' = [at EXCEPT ![i] = a]  BY <2>1
  <2> HIDE DEF a
  <2> QED  BY <1>0, <2>2, <2>3 DEF FieldsOK
<1>6. WayOf(i)'  BY <1>0, <1>2, <1>3, <1>4, <1>5, PersonMoves DEF SignupPcs
<1>7. HandsOver(i)  BY <1>0, HandsOverLightly
<1>8. \A j \in Installs \ {i} : Same(j)  BY <1>0, <1>5 DEF Same
<1> QED  BY <1>0, <1>1, <1>6, <1>7, <1>8, WayTurns

\* An account that is left is left for good.
LEMMA WayLeaves ==
  ASSUME RowsInv, EntryInv, DeviceInv, WayInv, NEW i \in Installs, DeleteAccount(Of[i]),
         UNCHANGED <<store, job, plc, pairing>>, PastGrows, Of[i] \in past'.left,
         \A j \in Installs : Stays(j) /\ HandsOver(j)
  PROVE  WayInv'
<1>1. PICK x \in People : x = Of[i]  BY InstallsAssumption
<1>2. /\ DOMAIN rows' = DOMAIN rows /\ accounts' = accounts \ {x}
      /\ blob' = [blob EXCEPT ![x] = 0]
      /\ \A k \in DOMAIN rows : rows'[k] = IF k \in RowsOf(x) THEN [rows[k] EXCEPT !.live = FALSE] ELSE rows[k]
  BY <1>1 DEF DeleteAccount
<1>3. ASSUME NEW k \in DOMAIN rows
      PROVE  /\ DOMAIN rows'[k] = DOMAIN rows[k] /\ rows'[k].of = rows[k].of
             /\ rows'[k].by = rows[k].by /\ rows'[k].num = rows[k].num /\ rows'[k].key = rows[k].key
             /\ rows'[k].live => rows[k].live
             /\ rows[k].live => rows'[k].live \/ rows[k].of = x
             /\ rows[k].of # x => rows'[k] = rows[k]
  <2>1. CASE k \notin RowsOf(x)  BY <1>2, <2>1
  <2>2. CASE k \in RowsOf(x)
    <3>1. rows'[k] = [rows[k] EXCEPT !.live = FALSE] /\ rows[k].of = x /\ rows[k].live
      BY <1>2, <2>2 DEF RowsOf
    <3> QED  BY <1>2, <3>1
  <2> QED  BY <2>1, <2>2
<1>4. RowsGo  BY <1>2, <1>3 DEF RowsGo
<1>5. x \in past'.left  BY <1>1
<1>6. \A y \in People : y # x => blob'[y] = blob[y]  BY <1>2
<1>7. BooksGo  BY <1>3, <1>5, <1>6 DEF BooksGo, PastGrows
<1>8. ASSUME NEW y \in People \ Bots  PROVE AccountGoes(y)
  <2>1. CASE y = x
    <3>1. Lost(y)'  BY <1>5, <2>1 DEF Lost
    <3>2. RowsOf(y)' \subseteq RowsOf(y)  BY <1>2, <1>3 DEF RowsOf
    <3> QED  BY <1>2, <3>1, <3>2 DEF AccountGoes
  <2>2. CASE y # x
    <3>1. RowsOf(y)' = RowsOf(y)  BY <1>2, <1>3, <2>2 DEF RowsOf
    <3> QED  BY <1>2, <2>2, <3>1, AccountSame
  <2> QED  BY <2>1, <2>2
<1> QED  BY <1>4, <1>7, <1>8, WayKept

LEMMA WayUsers ==
  ASSUME RowsInv, EntryInv, DeviceInv, WayInv, NEW i \in Installs,
         User(i) \/ \E a : DeleteIdentity(i, a)
  PROVE  WayInv'
<1>0. FieldsOK /\ {"stuck", "left", "undeleted", "replaced"} \subseteq DOMAIN past
  BY EntryFields, DeviceFields DEF WayInv, FieldsOK
<1>1. past' = past => PastGrows  BY <1>0 DEF PastGrows
<1>2. CASE Start(i)
  <2>1. /\ UNCHANGED <<rows, accounts, blob, plc, pairing, job, store, past>> /\ at[i].pc = "off"
        /\ at' = Go(i, IF store[i].num # 0 THEN "in" ELSE "new")
    BY <1>2 DEF Start, serverVars, Go
  <2>2. PICK p \in {"in", "new"} : at' = Go(i, p)  BY <2>1
  <2>3. at'[i].pc \in {"in", "new"} /\ \A j \in Installs \ {i} : at'[j] = at[j]  BY <2>2, GoFields
  <2>4. Stays(i)  BY <2>1, <2>3 DEF Stays, Duties, SignupPcs
  <2>5. HandsOver(i)  BY <2>1, HandsOverLightly
  <2>6. \A j \in Installs \ {i} : Same(j)  BY <2>1, <2>3 DEF Same
  <2> QED  BY <1>1, <2>1, <2>4, <2>5, <2>6, WayTurns
<1>3. CASE CreatePairing(i) \/ AcceptPairing(i) \/ Attach(i)
  <2>1. /\ UNCHANGED <<rows, accounts, blob, plc, job, store, past>>
        /\ pairing' = pairing \/ pairing'.stage # "sent"
        /\ at' = at \/ (at[i].pc = "new" /\ at' = Go(i, "pair"))
    BY <1>3 DEF CreatePairing, AcceptPairing, Attach, serverVars
  <2>2. Stays(i) /\ HandsOver(i) /\ \A j \in Installs \ {i} : Same(j)
    <3>1. CASE at' = at
      <4>1. \A j \in Installs : Same(j)  BY <2>1, <3>1 DEF Same
      <4> QED  BY <4>1, SameStays
    <3>2. CASE at[i].pc = "new" /\ at' = Go(i, "pair")
      <4>1. PICK p : p = "pair" /\ at' = Go(i, p)  BY <3>2
      <4>2. at'[i].pc = "pair" /\ \A j \in Installs \ {i} : at'[j] = at[j]  BY <4>1, GoFields
      <4>3. Stays(i)  BY <2>1, <3>2, <4>2 DEF Stays, Duties, SignupPcs
      <4>4. HandsOver(i)  BY <2>1, <3>2, HandsOverLightly
      <4> QED  BY <2>1, <4>2, <4>3, <4>4 DEF Same
    <3> QED  BY <2>1, <3>1, <3>2
  <2>3. RowsGo  BY <1>1, <2>1, RowsSame DEF PastGrows
  <2>4. BooksGo  BY <1>1, <2>1 DEF BooksGo, PastGrows
  <2>5. \A x : RowsOf(x)' = RowsOf(x)  BY <2>1 DEF RowsOf
  <2>6. \A x \in People \ Bots : AccountGoes(x)  BY <2>1, <2>5 DEF AccountGoes
  <2> QED  BY <2>2, <2>3, <2>4, <2>6, WayOne
<1>4. CASE LeaveServer(i)
  <2>1. /\ UNCHANGED <<store, job, plc, pairing, at>> /\ DeleteAccount(Of[i])
        /\ past' = [Mishap EXCEPT !.left = @ \cup {Of[i]}]
    BY <1>4 DEF LeaveServer
  <2>2. PastGrows /\ Of[i] \in past'.left  BY <1>0, <2>1 DEF Mishap, PastGrows
  <2>3. \A j \in Installs : Same(j)  BY <2>1 DEF Same
  <2>4. \A j \in Installs : Stays(j) /\ HandsOver(j)  BY <2>3, SameStays
  <2> QED  BY <2>1, <2>2, <2>4, WayLeaves
<1>5. ASSUME NEW a, DeleteIdentity(i, a)  PROVE WayInv'
  <2>1. UNCHANGED <<store, job, plc, pairing>> /\ at' = Go(i, "tombstone") /\ at[i].pc = "in"
    BY <1>5 DEF DeleteIdentity
  <2>2. at'[i].pc = "tombstone" /\ \A j \in Installs \ {i} : at'[j] = at[j]
    <3>1. PICK p : p = "tombstone" /\ at' = Go(i, p)  BY <2>1
    <3> QED  BY <3>1, GoFields
  <2>3. Stays(i)  BY <2>1, <2>2 DEF Stays, Duties, SignupPcs
  <2>4. HandsOver(i)  BY <2>1, HandsOverLightly
  <2>5. \A j \in Installs \ {i} : Same(j)  BY <2>1, <2>2 DEF Same
  <2>6. PICK v : \/ DeleteAccount(Of[i]) /\ past' = [Mishap EXCEPT !.left = @ \cup {Of[i]}]
                 \/ UNCHANGED serverVars /\ past' = [Mishap EXCEPT !.undeleted = v]
    BY <1>5 DEF DeleteIdentity
  <2>7. CASE DeleteAccount(Of[i]) /\ past' = [Mishap EXCEPT !.left = @ \cup {Of[i]}]
    <3>1. PastGrows /\ Of[i] \in past'.left  BY <1>0, <2>7 DEF Mishap, PastGrows
    <3>2. \A j \in Installs : Stays(j) /\ HandsOver(j)  BY <2>3, <2>4, <2>5, SameStays
    <3> QED  BY <2>1, <2>7, <3>1, <3>2, WayLeaves
  <2>8. CASE UNCHANGED serverVars /\ past' = [Mishap EXCEPT !.undeleted = v]
    <3>1. PastGrows  BY <1>0, <2>8 DEF Mishap, PastGrows
    <3>2. UNCHANGED <<rows, accounts, blob>>  BY <2>8 DEF serverVars
    <3> QED  BY <2>1, <2>3, <2>4, <2>5, <3>1, <3>2, WayTurns
  <2> QED  BY <2>6, <2>7, <2>8
<1> QED  BY <1>2, <1>3, <1>4, <1>5, WayPrepares, WayRecovers DEF User

\* An end or a loss: whoever was about to have a device is stuck.
LEMMA WayMishaps ==
  ASSUME RowsInv, EntryInv, DeviceInv, WayInv, NEW i \in Installs,
         Exit(i) \/ Lose(i) \/ DropRequest(i) \/ TimeOut(i)
  PROVE  WayInv'
<1>0. /\ FieldsOK /\ UNCHANGED <<rows, accounts, blob, plc>> /\ pairing' \in {pairing, NoPairing}
      /\ {"stuck", "left", "torn", "replaced"} \subseteq DOMAIN past
      /\ AskFits(i) /\ Of[i] \in People
  BY WayFields, EntryFields, DeviceFields
  DEF Exit, Lose, DropRequest, TimeOut, serverVars, FieldsOK
<1>1. CASE Exit(i)
  <2>1. UNCHANGED <<job, store>>  BY <1>1 DEF Exit
  <2>2. PICK a \in {at, Unpaired(at)} : at' = [a EXCEPT ![i] = Off]  BY <1>1 DEF Exit
  <2>3. \A j \in Installs \ {i} : at'[j] = a[j]
    BY <1>0, <2>2 DEF Unpaired, FieldsOK
  <2>4. at'[i] = Off  BY <1>0, <2>2 DEF Unpaired, FieldsOK
  <2>5. PastGrows /\ (at[i].pc \notin {"new", "in"} => Unsaved(i) \subseteq past'.stuck)
    <3>1. CASE past' = past /\ at[i].pc \in {"new", "in"}  BY <1>0, <3>1 DEF PastGrows
    <3>2. CASE past' # past \/ at[i].pc \notin {"new", "in"}
      <4>1. past' = [Stuck(Unsaved(i)) EXCEPT !.torn = IF at[i].pc = "prekeys" THEN @ \cup {i} ELSE @]
        BY <1>1, <3>2 DEF Exit
      <4>2. PICK u : u = Stuck(Unsaved(i))  OBVIOUS
      <4>3. DOMAIN u = DOMAIN past /\ u.stuck = past.stuck \cup Unsaved(i)
            /\ u.replaced = past.replaced /\ u.left = past.left
        BY <1>0, <4>2 DEF Stuck
      <4>4. past' = [u EXCEPT !.torn = IF at[i].pc = "prekeys" THEN u.torn \cup {i} ELSE u.torn]
        BY <4>1, <4>2
      <4> HIDE <4>1
      <4> QED  BY <1>0, <4>3, <4>4 DEF PastGrows
    <3> QED  BY <3>1, <3>2
  <2>6. at[i].pc = "device" /\ Of[i] \in Bots => Lost(Of[i])'
    <3>1. at[i].pc = "device" /\ Of[i] \in Bots => Unsaved(i) = {Of[i]}  BY DEF Unsaved
    <3> QED  BY <2>5, <3>1 DEF Lost
  <2>7. at[i].pc = "register" /\ Of[i] \notin Bots => Lost(Of[i])'
    <3>1. at[i].pc = "register" /\ Of[i] \notin Bots => Unsaved(i) = {Of[i]}  BY DEF Unsaved
    <3> QED  BY <2>5, <3>1 DEF Lost
  <2>8. Stays(i)  BY <2>1, <2>4, <2>6, OffFields DEF Stays, Duties, SignupPcs
  <2>9. HandsOver(i)  BY <2>1, <2>7 DEF HandsOver, Enters, Registering, Makes
  <2>10. ASSUME NEW j \in Installs \ {i}  PROVE Stays(j) /\ HandsOver(j)
    <3>1. at'[j] = at[j] \/ (at'[j].pc = "new" /\ at[j].pc = "pair")
      BY <2>2, <2>3, UnpairedGoes
    <3>2. Stays(j)  BY <2>1, <3>1 DEF Stays, Duties, SignupPcs
    <3>3. HandsOver(j)  BY <2>1, <3>1, HandsOverLightly
    <3> QED  BY <3>2, <3>3
  <2>11. \A j \in Installs : HandsOver(j) /\ Stays(j)  BY <2>8, <2>9, <2>10
  <2> QED  BY <1>0, <2>5, <2>11, WayAside DEF PastGrows
<1>2. CASE Lose(i)
  <2>1. UNCHANGED <<job, at, past>> /\ store' = [store EXCEPT ![i] = NoStore] /\ at[i].pc = "off"
    BY <1>2 DEF Lose
  <2>2. store'[i] = NoStore /\ \A j \in Installs \ {i} : store'[j] = store[j]
    BY <1>0, <2>1 DEF FieldsOK
  <2>3. PastGrows  BY <1>0, <2>1 DEF PastGrows
  <2>4. Stays(i)  BY <2>1, <2>2 DEF Stays, Duties, SignupPcs
  <2>5. HandsOver(i)  BY <2>1, HandsOverLightly
  <2>6. \A j \in Installs \ {i} : Same(j)  BY <2>1, <2>2 DEF Same
  <2> QED  BY <1>0, <2>3, <2>4, <2>5, <2>6, WayTurns
<1>3. CASE DropRequest(i) \/ TimeOut(i)
  <2>1. /\ UNCHANGED store /\ pairing' = pairing
        /\ job' = job \/ (DropRequest(i) /\ job' = [job EXCEPT ![i] = NoJob])
        /\ at' = at \/ (at[i].pc = "wait" /\ (at' = Go(i, "pair") \/ at' = Home(i)))
    BY <1>3 DEF DropRequest, TimeOut, Waits
  <2>2. PICK v : past' = Stuck(v) /\ (DropRequest(i) => v = Stranded(i))
    <3>1. CASE DropRequest(i)  BY <3>1 DEF DropRequest
    <3>2. CASE ~DropRequest(i)  BY <1>3, <3>2 DEF TimeOut
    <3> QED  BY <3>1, <3>2
  <2>3. PastGrows /\ v \subseteq past'.stuck  BY <2>2, PastGoesOn, StuckGrows
  <2>4. at'[i] = at[i] \/ (at[i].pc = "wait" /\ at'[i].pc \in {"pair", "new"})
    BY <2>1, AtWritten
  <2>5. /\ \A j \in Installs \ {i} : at'[j] = at[j]
        /\ job'[i] = job[i] \/ (DropRequest(i) /\ job'[i] = NoJob)
        /\ \A j \in Installs \ {i} : job'[j] = job[j]
    BY <1>0, <2>1, AtWritten DEF FieldsOK
  <2>6. Stays(i)  BY <2>1, <2>4, <2>5 DEF Stays, Duties, SignupPcs
  <2>7. HandsOver(i)
    <3>1. CASE job'[i] = job[i]  BY <2>4, <3>1, HandsOverLightly
    <3>2. CASE DropRequest(i) /\ job'[i] = NoJob
      <4>1. RowsOf(Of[i])' = RowsOf(Of[i])  BY <1>0 DEF RowsOf
      <4>2. Of[i] \notin Bots /\ job[i].sent.op # "link" /\ RowsOf(Of[i]) = {} => Lost(Of[i])'
        <5>1. Of[i] \notin Bots /\ job[i].sent.op # "link" /\ RowsOf(Of[i]) = {}
                 => Stranded(i) = {Of[i]}
          BY DEF Stranded
        <5> QED  BY <2>2, <2>3, <3>2, <5>1 DEF Lost
      <4>3. RowsOf(Of[i]) # {} => Of[i] \in accounts  BY <1>0 DEF RowsInv, Dead
      <4>4. Enters(i) => Enters(i)' \/ Registering(i)  BY <2>4 DEF Enters
      <4> QED  BY <1>0, <4>1, <4>2, <4>3, <4>4 DEF HandsOver, AskFits, SignupSteps, Registering, Makes
    <3> QED  BY <2>5, <3>1, <3>2
  <2>8. \A j \in Installs \ {i} : Same(j)  BY <2>1, <2>5 DEF Same
  <2> QED  BY <1>0, <2>3, <2>6, <2>7, <2>8, WayTurns
<1> QED  BY <1>1, <1>2, <1>3

LEMMA WaySteps ==
  ASSUME RowsInv, EntryInv, DeviceInv, WayInv, PairFits, [Next]_vars
  PROVE  WayInv'
<1>0. {"stuck", "left", "replaced"} \subseteq DOMAIN past
  BY EntryFields DEF WayInv, FieldsOK, DeviceInv, Shapes
<1>1. CASE \E i \in Installs : Work(i) \/ User(i) \/ Mishaps(i)
  <2>1. PICK i \in Installs : Work(i) \/ User(i) \/ Mishaps(i)  BY <1>1
  <2> QED  BY <2>1, WayWorks, WayUsers, WayMishaps, WayUpdates, WaySaves DEF Mishaps
<1>2. ASSUME UNCHANGED <<rows, accounts, blob, plc, job, store>>, past' \in {past, Mishap},
             pairing' \in {pairing, NoPairing},
             \A j \in Installs : at'[j] = at[j] \/ (at'[j].pc = "new" /\ at[j].pc = "pair")
      PROVE  WayInv'
  <2>1. PastGrows  BY <1>2, PastGoesOn
  <2>2. RowsGo  BY <1>2, <2>1, RowsSame DEF PastGrows
  <2>3. BooksGo  BY <1>2, <2>1 DEF BooksGo, PastGrows
  <2>4. \A x : RowsOf(x)' = RowsOf(x)  BY <1>2 DEF RowsOf
  <2>5. \A x \in People \ Bots : AccountGoes(x)  BY <1>2, <2>4, AccountSame
  <2>6. ASSUME NEW j \in Installs  PROVE Stays(j) /\ HandsOver(j)
    <3>1. Stays(j)  BY <1>2 DEF Stays, Duties, SignupPcs
    <3>2. HandsOver(j)  BY <1>2, HandsOverLightly
    <3> QED  BY <3>1, <3>2
  <2> QED  BY <2>2, <2>3, <2>5, <2>6, WayKept
<1>3. CASE (\E x \in People : SweepAttachments(x)) \/ InstallGatekeeper
  BY <1>2, <1>3 DEF SweepAttachments, InstallGatekeeper, serverVars
<1>4. CASE ExpirePairing
  <2>1. UNCHANGED <<rows, accounts, blob, plc, job, store>> /\ at' = Unpaired(at) /\ past' = Mishap
        /\ pairing' = NoPairing
    BY <1>4 DEF ExpirePairing, serverVars
  <2>2. \A j \in Installs : at'[j] = at[j] \/ (at'[j].pc = "new" /\ at[j].pc = "pair")
    BY <2>1, UnpairedGoes
  <2> QED  BY <1>2, <2>1, <2>2
<1>5. CASE Logins
  <2>1. UNCHANGED <<rows, blob, plc, pairing, at, job, store, past>>
    BY <1>5 DEF Logins, BeginLogin, Consent, Collect, LoginMishap, LoginGoesOn, otherAccount
  <2>2. UNCHANGED accounts
    <3>1. CASE BeginLogin \/ Consent \/ Collect \/ LoginMishap
      BY <3>1 DEF BeginLogin, DeviceAuthorization, AuthorizeCode, Consent, DeviceApprove, Collect,
                  TokenAuthorizationCode, TokenDeviceCode, LoginMishap, HangUp
    <3>2. CASE LoginGoesOn
      BY <3>2 DEF LoginGoesOn, LoginWork, LoginTime, MintForApproval, ApproveDevice,
                  MarkPolled, Consume, MintForCode, PollInterval, ExpireGrant, SweepGrant
    <3> QED  BY <1>5, <3>1, <3>2 DEF Logins
  <2> QED  BY <1>2, <2>1, <2>2
<1>6. CASE UNCHANGED vars  BY <1>2, <1>6 DEF vars, loginVars, otherAccount
<1> QED  BY <1>1, <1>3, <1>4, <1>5, <1>6 DEF Next

LEMMA PairSteps ==
  ASSUME PairFits, [Next]_vars
  PROVE  PairFits'
<1>1. NoPairing.stage # "accepted"  BY DEF NoPairing
<1>2. CASE pairing' \in {pairing, NoPairing}  BY <1>1, <1>2 DEF PairFits
<1>3. ASSUME NEW i \in Installs, Work(i) \/ User(i) \/ Mishaps(i)  PROVE PairFits'
  <2>1. CASE CreatePairing(i)  BY <2>1 DEF CreatePairing, PairFits
  <2>2. CASE AcceptPairing(i)  BY <2>2 DEF AcceptPairing, PairFits
  <2>3. CASE SendBundle(i)  BY <2>3 DEF SendBundle, PairFits
  <2>4. CASE Serve(i)
    BY <1>2, <2>4
    DEF Serve, Admit, CreateAccount, ClaimSuperuser, StoreBlob, ConsumeNonce, PurgeDevice,
        DropDevice, CreateDevice, StorePrekeys, IssueSession, OnlyServer
  <2>5. CASE Save(i) \/ \E a : UploadOneTimeKyber(i, a)
    BY <1>2, <2>5 DEF Save, SaveIdentity, SaveDeviceAccount, SavePrekeys, UploadOneTimeKyber
  <2>6. CASE SubmitGenesis(i) \/ (\E a : SubmitUpdate(i, a)) \/ Register(i) \/ RequestReplace(i)
             \/ RequestLink(i) \/ IssueChallenge(i) \/ IssueToken(i) \/ AwaitLink(i)
             \/ Tombstone(i) \/ Wipe(i)
    BY <1>2, <2>6
    DEF SubmitGenesis, SubmitUpdate, Register, RequestReplace, RequestLink, Request,
        IssueChallenge, IssueToken, AwaitLink, Tombstone, Wipe
  <2>7. CASE Start(i) \/ Recover(i) \/ (\E cred : Prepare(i, cred)) \/ Attach(i) \/ LeaveServer(i)
             \/ \E a : DeleteIdentity(i, a)
    BY <1>2, <2>7 DEF Start, Recover, Prepare, Attach, LeaveServer, DeleteIdentity
  <2>8. CASE Exit(i) \/ Lose(i) \/ DropRequest(i) \/ TimeOut(i)
    BY <1>2, <2>8 DEF Exit, Lose, DropRequest, TimeOut
  <2>9. CASE Work(i)  BY <2>3, <2>4, <2>5, <2>6, <2>9 DEF Work
  <2>10. CASE User(i)  BY <2>1, <2>2, <2>7, <2>10 DEF User
  <2>11. CASE Mishaps(i)  BY <2>5, <2>6, <2>7, <2>8, <2>11 DEF Mishaps
  <2> QED  BY <1>3, <2>9, <2>10, <2>11
<1>4. CASE (\E x \in People : SweepAttachments(x)) \/ ExpirePairing \/ InstallGatekeeper
  BY <1>2, <1>4 DEF SweepAttachments, ExpirePairing, InstallGatekeeper
<1>5. CASE Logins
  BY <1>2, <1>5 DEF Logins, BeginLogin, Consent, Collect, LoginMishap, LoginGoesOn, otherAccount
<1>6. CASE UNCHANGED vars  BY <1>2, <1>6 DEF vars, otherAccount
<1> QED  BY <1>3, <1>4, <1>5, <1>6 DEF Next

LEMMA WayBegins ==
  ASSUME Init
  PROVE  WayInv /\ PairFits
<1> DEFINE s == bound.settled
<1>1. /\ accounts = {x \in People : OrderOf(x) # 0}
      /\ plc = [x \in People |-> IF x \in Bots THEN [len |-> 0, key |-> 0]
                                ELSE [len |-> IF OrderOf(x) = 0 THEN 0 ELSE 2, key |-> OrderOf(x)]]
      /\ rows = [k \in DOMAIN s |-> [of |-> Of[s[k]], by |-> s[k], num |-> 1, reg |-> k,
                                     key |-> k, keys |-> TRUE, live |-> TRUE]]
      /\ store = [i \in Installs |-> IF Order(i) = 0 THEN NoStore
                    ELSE [key |-> Order(i), num |-> 1, reg |-> Order(i), priv |-> Order(i)]]
      /\ at = [i \in Installs |-> Off] /\ job = [i \in Installs |-> NoJob]
      /\ blob = [x \in People |-> IF x \in Bots THEN 0 ELSE OrderOf(x)]
      /\ past = [attempts |-> Len(s), stuck |-> {}, torn |-> {}, replaced |-> {},
                 by |-> {}, left |-> {}, undeleted |-> {}, mishap |-> FALSE]
      /\ pairing = NoPairing
  BY DEF Init
<1>2. \A k \in DOMAIN s : s[k] \in Installs /\ Order(s[k]) = k /\ OrderOf(Of[s[k]]) = k /\ k # 0
  BY OrderFits
<1>3. ASSUME NEW i, Order(i) # 0  PROVE Order(i) \in DOMAIN s /\ s[Order(i)] = i
  <2>1. i \in ToSet(s)  BY <1>3 DEF Order
  <2>2. PICK k \in DOMAIN s : i = s[k]  BY <2>1 DEF ToSet
  <2> QED  BY <1>2, <2>2
<1>4. /\ DOMAIN rows = DOMAIN s
      /\ \A k \in DOMAIN rows : /\ rows[k].live /\ rows[k].of = Of[s[k]] /\ rows[k].num = 1
                                /\ rows[k].key = k
  BY <1>1
<1>5. ASSUME NEW i \in Installs
      PROVE  /\ at[i].pc = "off" /\ job[i] = NoJob /\ job[i].step = "none"
             /\ store[i] = NoStore \/ (Order(i) # 0 /\ store[i].key = Order(i) /\ store[i].num = 1)
  BY <1>1, OffFields
<1>6. ASSUME NEW i \in Installs  PROVE WayOf(i)
  <2>1. AskFits(i) /\ ~Seeks(i)  BY <1>5 DEF AskFits, Seeks, SignupPcs, SignupSteps
  <2>2. store[i] = NoStore \/ Known(i)
    <3>1. CASE store[i] # NoStore
      <4>1. /\ Order(i) \in DOMAIN rows /\ rows[Order(i)].live /\ rows[Order(i)].of = Of[i]
            /\ rows[Order(i)].num = store[i].num /\ rows[Order(i)].key = store[i].key
        BY <1>3, <1>4, <1>5, <3>1
      <4> QED  BY <4>1 DEF Known, Find, RowsOf
    <3> QED  BY <3>1
  <2>3. BotFits(i)  BY <1>5, <2>2 DEF BotFits
  <2> QED  BY <2>1, <2>3 DEF WayOf
<1>7. ASSUME NEW x \in People \ Bots  PROVE WayFits(x)
  <2>1. RowsOf(x) # {} => blob[x] # 0
    <3> SUFFICES ASSUME NEW k \in RowsOf(x)  PROVE blob[x] # 0  OBVIOUS
    <3>1. k \in DOMAIN s /\ Of[s[k]] = x  BY <1>4 DEF RowsOf
    <3>2. OrderOf(x) # 0  BY <1>2, <3>1
    <3> QED  BY <1>1, <3>2
  <2>2. x \notin accounts => plc[x].len # 2  BY <1>1
  <2>3. OrderOf(x) # 0 => RowsOf(x) # {}
    <3> DEFINE S == {0} \cup {Order(i) : i \in {j \in Installs : Of[j] = x}}
    <3>1. ASSUME \A i \in Installs : Of[i] = x => Order(i) = 0  PROVE OrderOf(x) = 0
      <4>1. S = {0}  BY <3>1
      <4>2. Max({0}) = 0  BY DEF Max
      <4> QED  BY <4>1, <4>2 DEF OrderOf
    <3> SUFFICES ASSUME OrderOf(x) # 0  PROVE RowsOf(x) # {}  OBVIOUS
    <3>2. PICK i \in Installs : Of[i] = x /\ Order(i) # 0  BY <3>1
    <3>3. Order(i) \in DOMAIN rows /\ rows[Order(i)].live /\ rows[Order(i)].of = x
      BY <1>3, <1>4, <3>2
    <3> QED  BY <3>3 DEF RowsOf
  <2>4. pairing.stage # "sent"  BY <1>1 DEF NoPairing
  <2>5. x \in accounts => RowsOf(x) # {}  BY <1>1, <2>3
  <2> QED  BY <2>1, <2>2, <2>4, <2>5 DEF WayFits, Escrowed
<1>8. "stuck" \in DOMAIN past  BY <1>1
<1>9. PairFits  BY <1>1 DEF PairFits, NoPairing
<1> QED  BY <1>6, <1>7, <1>8, <1>9 DEF WayInv

\* Whatever is cut short, refused, timed out or lost, and in whatever order
\* requests of a person's installs are served, a person with nothing under way
\* can sign up, log in or recover, unless the identity was left, or its key or
\* old row had gone before the new row was there (register_impl,
\* finalize_account, replace_device, link_device, recover_from_blob).
THEOREM NotLockedOutAlways == AccountsSpec => []NotLockedOut
<1> DEFINE Inv == /\ LoginTypeOK /\ LoginInv /\ RowsInv /\ EntryInv /\ DeviceInv
                  /\ WayInv /\ PairFits
<1>1. Init => Inv
  BY LoginBegins, RowsBegin, EntryBegins, DeviceBegins, WayBegins
<1>2. Inv /\ [Next]_vars => Inv'
  BY LoginNext, RowsSteps, EntrySteps, DeviceSteps, WaySteps, PairSteps
<1>3. Inv => NotLockedOut
  <2> SUFFICES ASSUME EntryInv, WayInv, NEW x \in People, ~Busy(x), ~Lost(x), plc[x].len # 3
               PROVE  \/ CanSignUp(x) \/ CanLogIn(x) \/ CanRecover(x)
                      \/ x \in Bots /\ \A i \in Installs : Of[i] = x => store[i] = NoStore
    BY DEF NotLockedOut, Lost
  <2>1. EntryFits(x) /\ plc[x].len \in 0..3  BY EntryFields DEF FieldsOK
  <2>2. \A i \in Installs : Of[i] = x => job[i].step = "none" /\ at[i].pc \in {"off", "new", "in", "pair"}
    BY OffFields DEF Busy
  <2>3. CASE x \in Bots
    <3>1. ASSUME NEW i \in Installs, Of[i] = x, store[i] # NoStore  PROVE CanLogIn(x)
      <4>1. BotFits(i)  BY <2>3, <3>1, WayFields
      <4>2. Known(i)  BY <2>2, <3>1, <4>1 DEF BotFits
      <4> QED  BY <3>1, <4>2 DEF CanLogIn
    <3> QED  BY <2>3, <3>1
  <2>4. CASE x \notin Bots
    <3>1. WayFits(x)  BY <2>4 DEF WayInv
    <3>2. CASE x \notin accounts
      <4>1. plc[x].len # 2  BY <2>2, <3>1, <3>2 DEF WayFits, Enters, Registering
      <4> QED  BY <2>1, <3>2, <4>1 DEF CanSignUp
    <3>3. CASE x \in accounts
      <4>1. plc[x].len = 2  BY <2>1, <2>4, <3>3 DEF EntryFits, Been
      <4>2. RowsOf(x) # {}  BY <2>2, <3>1, <3>3 DEF WayFits, Makes
      <4>3. blob[x] # 0  BY <3>1, <4>2 DEF WayFits, Escrowed, Lost
      <4> QED  BY <3>3, <4>1, <4>2, <4>3 DEF CanRecover
    <3> QED  BY <3>2, <3>3
  <2> QED  BY <2>3, <2>4
<1> QED  BY <1>1, <1>2, <1>3, PTL DEF AccountsSpec

=============================================================================
