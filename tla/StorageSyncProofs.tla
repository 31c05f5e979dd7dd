------------------------- MODULE StorageSyncProofs -------------------------
(***************************************************************************)
(* Proofs about StorageSync for any set of devices, any number of records, *)
(* any page size and any number of faults:                                 *)
(*                                                                         *)
(*   SyncTypeCorrect      the state is of its types;                       *)
(*   CursorIsSafe         a saved cursor covers what it has passed;        *)
(*   SyncIsHonest         what is clean and current shows the server's     *)
(*                        value, unless a write without the lock overtook  *)
(*                        the sync;                                        *)
(*   EditsReachTheServer  an edit is on the server, waits, or overtook.    *)
(*                                                                         *)
(* PullInv is the inductive invariant of the first two: versions are       *)
(* handed out once, nobody knows a version that is newer than the record,  *)
(* and whatever a pull has passed is known, failed or still on its page.   *)
(* SameInv adds that the rows whose writers take the lock stand still      *)
(* while a sync runs, so what a push sends and what a pull recorded is     *)
(* what the row shows, and that of any row the answer to a push says what  *)
(* the server holds.  EditInv adds that nobody else pushes a record that   *)
(* only one device edits.                                                  *)
(*                                                                         *)
(* The last part is about Contacts, the rows that sync carries, for any    *)
(* devices and any number of gestures and messages: the profile key goes   *)
(* to nobody without something the user did, and a device goes back on a   *)
(* verdict only by one of the two races.                                   *)
(***************************************************************************)
EXTENDS StorageSync, Contacts, FiniteSetTheorems, SequenceTheorems, TLAPS

\* The job in a pull, with its page in memory.
Pulling(d) == job[d].phase \in {"pull", "apply", "meta"}
Knows(d, k) == ver[d][k] = items[k].version \/ k \in missed[d]

(* The counter hands out each version once. *)
VersionsDistinct ==
    /\ \A k \in Records : items[k].version <= seq
    /\ \A j, k \in Records :
          items[j].version = items[k].version /\ items[k].version # 0 => j = k

(* What a device knows, and what its running sync has read, is no newer     *)
(* than the record; a version read that still is the record's has its value. *)
Reads(d) ==
    /\ \A k \in Records : ver[d][k] <= items[k].version
    /\ \A i \in DOMAIN job[d].page :
          LET it == job[d].page[i] IN
          /\ cursor[d] < it.version /\ it.version <= items[it.key].version
          /\ it.version = items[it.key].version => it.value = items[it.key].value
          /\ it.version # items[it.key].version => job[d].at < items[it.key].version
    /\ job[d].phase = "meta" => Newer(d, Head(job[d].page))
    /\ job[d].phase \notin {"apply", "meta"} => job[d].page = <<>>

(* The pull's place: what it has passed is known, failed or on its page.    *)
Covers(d) ==
    /\ cursor[d] <= seq /\ job[d].at <= seq
    /\ Pulling(d) => cursor[d] <= job[d].at
    /\ \A k \in Records : items[k].version <= cursor[d] => Knows(d, k)
    /\ Pulling(d) =>
       \A k \in Records : items[k].version <= job[d].at =>
          \/ Knows(d, k)
          \/ \E i \in DOMAIN job[d].page :
                job[d].page[i].key = k /\ job[d].page[i].version = items[k].version

(* A push that has been answered: each version is new to the device. *)
Answers(d) ==
    \A k \in DOMAIN job[d].applied :
       job[d].phase = "mark" /\ ver[d][k] < job[d].applied[k] /\ job[d].applied[k] <= items[k].version

PullInv == VersionsDistinct /\ \A d \in Devices : Reads(d) /\ Covers(d) /\ Answers(d)

(* A row whose writers take the lock stands still while a sync runs; what    *)
(* has been answered is what the server holds, if it still is at that version. *)
RowsStand(d) ==
    /\ job[d].phase = "meta" /\ Head(job[d].page).key \notin OffLock
          => row[d][Head(job[d].page).key] = Head(job[d].page).value
    /\ \A k \in DOMAIN job[d].todo \ OffLock : job[d].todo[k] = row[d][k]
    /\ \A k \in DOMAIN job[d].writes \ OffLock : job[d].writes[k] = row[d][k]
    /\ \A k \in DOMAIN job[d].applied :
          /\ k \in DOMAIN job[d].writes
          /\ job[d].applied[k] = items[k].version => items[k].value = job[d].writes[k]
    /\ DOMAIN job[d].todo # {} => job[d].phase = "read"
    /\ DOMAIN job[d].writes # {} => job[d].phase \in {"read", "mark"}

SameInv == CleanMeansSame /\ LockHolds /\ \A d \in Devices : RowsStand(d)

(* A record that only d has edited, as long as no push lost its reply. *)
Alone(d, k) ==
    /\ ToSet(faults) \subseteq {"apply"}
    /\ \A o \in Devices \ {d} : mine[o][k] = 0
Pushes(o, k) ==
    k \in DOMAIN job[o].todo \cup DOMAIN job[o].writes \cup DOMAIN job[o].applied
Applies(o, k) == job[o].phase = "meta" /\ Head(job[o].page).key = k
Kept(d, k) ==
    /\ row[d][k] = mine[d][k] /\ ~Applies(d, k)
    /\ mine[d][k] <= edits
    /\ k \in DOMAIN job[d].todo => job[d].todo[k] <= mine[d][k]
    /\ k \in DOMAIN job[d].writes => job[d].writes[k] <= mine[d][k]
    /\ mine[d][k] \in reached \cup {0} \/ dirty[d][k] \/ k \in overtaken[d]
    /\ k \in DOMAIN job[d].applied =>
          mine[d][k] \in reached \cup {0} \/ job[d].writes[k] # mine[d][k]
    /\ \/ items[k].version = ver[d][k]
       \/ k \in DOMAIN job[d].applied /\ job[d].applied[k] = items[k].version
    /\ \A o \in Devices \ {d} : ~Pushes(o, k) /\ (dirty[o][k] => Applies(o, k))
EditInv == \A d \in Devices, k \in Records : Alone(d, k) => Kept(d, k)

----------------------------------------------------------------------------
USE DEF vars, server, user, slips

(* Types *)

LEMMA NoJobType == NoJob \in Jobs
<1>1. ASSUME NEW T  PROVE NoWrites \in Some(T)
  <2>1. NoWrites \in [{} -> T]  BY DEF NoWrites
  <2> QED  BY <2>1 DEF Some
<1>2. NoWrites \in Some(Edits) /\ NoWrites \in Some(Nat)  BY <1>1
<1> QED  BY <1>2 DEF NoJob, Jobs, Phases

\* Forget, Note: partial functions stay partial functions.
LEMMA ForgetType ==
  ASSUME NEW T, NEW f \in Some(T), NEW k
  PROVE  Forget(f, k) \in Some(T)
<1>1. PICK S \in SUBSET Records : f \in [S -> T]  BY DEF Some
<1>2. Forget(f, k) \in [S \ {k} -> T]  BY <1>1 DEF Forget
<1> QED  BY <1>2 DEF Some

LEMMA NoteType ==
  ASSUME NEW T, NEW f \in Some(T), NEW k \in Records, NEW v \in T
  PROVE  Note(f, k, v) \in Some(T)
<1>1. PICK S \in SUBSET Records : f \in [S -> T]  BY DEF Some
<1>2. Note(f, k, v) \in [S \cup {k} -> T]  BY <1>1 DEF Note
<1> QED  BY <1>2 DEF Some

LEMMA TypeInit == Init => TypeOK
<1> SUFFICES ASSUME Init  PROVE TypeOK
  OBVIOUS
<1>1. 0 \in Edits  BY EditAssumption DEF Edits
<1>2. /\ items \in [Records -> [version : Nat, value : Edits]]
      /\ row \in [Devices -> [Records -> Edits]] /\ mine = row
      /\ ver \in [Devices -> [Records -> Nat]]
  BY <1>1 DEF Init
<1>3. dirty \in [Devices -> [Records -> BOOLEAN]]  BY DEF Init
<1>4. job \in [Devices -> Jobs] /\ \A d \in Devices : job[d].phase # "meta"
  BY NoJobType DEF Init, NoJob
<1>5. cursor \in [Devices -> Nat] /\ missed \in [Devices -> SUBSET Records]
  BY DEF Init
<1> QED  BY <1>1, <1>2, <1>3, <1>4, <1>5 DEF Init, TypeOK

\* What a page holds, and its cursor.
LEMMA PageType ==
  ASSUME TypeOK, NEW n \in 0..PullLimit, NEW ks \in [1..n -> Records], NEW c \in Nat
  PROVE  LET p == [i \in 1..n |-> Copy(ks[i])] IN
         /\ p \in Seq(PageItems) /\ Len(p) = n /\ DOMAIN p = 1..n
         /\ NextCursor(p, c) \in Nat
<1> DEFINE p == [i \in 1..n |-> Copy(ks[i])]
<1>1. \A i \in 1..n : p[i] \in PageItems
  BY DEF TypeOK, Copy, PageItems
<1>2. n \in Nat  BY RecordAssumption
<1>3. p \in Seq(PageItems) /\ Len(p) = n  BY <1>1, <1>2
<1>4. p # <<>> => p[Len(p)] \in PageItems
  BY <1>1, <1>2, <1>3
<1> QED  BY <1>3, <1>4 DEF NextCursor, PageItems

\* A job replaced, its parts in order: how most steps of a sync look.
LEMMA JobStep ==
  ASSUME TypeOK, NEW d \in Devices, NEW j \in Jobs, job' = [job EXCEPT ![d] = j]
  PROVE  /\ job' \in [Devices -> Jobs] /\ job'[d] = j
         /\ \A e \in Devices \ {d} : job'[e] = job[e]
  BY DEF TypeOK

LEMMA TypeJobs ==
  ASSUME TypeOK, NEW d \in Devices, NEW j \in Jobs, j.phase = "meta" => j.page # <<>>,
         job' = [job EXCEPT ![d] = j],
         UNCHANGED <<items, seq, edits, mine, reached>>,
         row' \in [Devices -> [Records -> Edits]], ver' \in [Devices -> [Records -> Nat]],
         dirty' \in [Devices -> [Records -> BOOLEAN]], cursor' \in [Devices -> Nat],
         missed' \in [Devices -> SUBSET Records],
         overtaken' \in [Devices -> SUBSET Records], faults' \in Seq(MayFail)
  PROVE  TypeOK'
<1>1. job' \in [Devices -> Jobs] /\ \A e \in Devices : job'[e].phase = "meta" => job'[e].page # <<>>
  BY JobStep DEF TypeOK
<1> QED  BY <1>1 DEF TypeOK

\* The names of the rows overtaken.
LEMMA OvertakenType ==
  ASSUME TypeOK, NEW d \in Devices, NEW k \in Records, NEW v
  PROVE  [overtaken EXCEPT ![d] = Overtaken(d, k, v)] \in [Devices -> SUBSET Records]
<1>1. overtaken \in [Devices -> SUBSET Records]  BY DEF TypeOK
<1>2. Overtaken(d, k, v) \in SUBSET Records  BY <1>1 DEF Overtaken
<1> QED  BY <1>1, <1>2

\* The rest of the page.
LEMMA TailOfPage ==
  ASSUME TypeOK, NEW d \in Devices, job[d].page # <<>>
  PROVE  LET p == job[d].page IN
         /\ Head(p) \in PageItems /\ Tail(p) \in Seq(PageItems)
         /\ Head(p) = p[1] /\ 1 \in DOMAIN p
         /\ \A i \in DOMAIN Tail(p) : Tail(p)[i] = p[i + 1] /\ i + 1 \in DOMAIN p
         /\ \A i \in DOMAIN p : i = 1 \/ (i - 1 \in DOMAIN Tail(p) /\ Tail(p)[i - 1] = p[i])
<1>1. job[d].page \in Seq(PageItems)  BY DEF TypeOK, Jobs
<1> QED  BY <1>1

----------------------------------------------------------------------------
(* The pull *)

\* A device that no step touches keeps what it knows.
LEMMA OthersKnow ==
  ASSUME NEW e \in Devices, Reads(e), Covers(e), Answers(e),
         UNCHANGED <<items, seq>>, ver'[e] = ver[e], cursor'[e] = cursor[e],
         job'[e] = job[e], missed'[e] = missed[e]
  PROVE  Reads(e)' /\ Covers(e)' /\ Answers(e)'
  BY DEF Reads, Covers, Answers, Pulling, Knows, Newer

LEMMA PullInit == Init => PullInv
  BY RecordAssumption
  DEF Init, PullInv, VersionsDistinct, Reads, Covers, Answers, Pulling, Knows, NoJob, NoWrites

\* A job that neither pulls nor has an answer.
LEMMA QuietJob ==
  ASSUME TypeOK, PullInv, NEW d \in Devices, NEW j \in Jobs, job' = [job EXCEPT ![d] = j],
         j.phase \in {"idle", "push", "read"}, j.page = <<>>, DOMAIN j.applied = {},
         j.at <= seq, UNCHANGED <<items, seq, ver, cursor, missed, overtaken>>
  PROVE  PullInv'
<1>1. Reads(d)' /\ Covers(d)' /\ Answers(d)'
  <2>1. job'[d] = j  BY JobStep
  <2>2. Reads(d) /\ Covers(d) /\ j.phase \notin {"pull", "apply", "meta", "mark"}
    BY DEF PullInv
  <2>3. Reads(d)'  BY <2>1, <2>2 DEF Reads, Pulling
  <2>4. Covers(d)'  BY <2>1, <2>2 DEF Covers, Pulling, Knows
  <2>5. Answers(d)'  BY <2>1 DEF Answers
  <2> QED  BY <2>3, <2>4, <2>5
<1>2. ASSUME NEW e \in Devices, e # d  PROVE Reads(e)' /\ Covers(e)' /\ Answers(e)'
  BY <1>2, JobStep, OthersKnow DEF PullInv
<1>3. VersionsDistinct'  BY DEF PullInv, VersionsDistinct
<1> QED  BY <1>1, <1>2, <1>3 DEF PullInv

LEMMA StartSyncPulls ==
  ASSUME TypeOK, PullInv, NEW d \in Devices, StartSync(d)
  PROVE  TypeOK' /\ PullInv'
<1> DEFINE j == [NoJob EXCEPT !.phase = "pull", !.at = cursor[d]]
<1>1. job' = [job EXCEPT ![d] = j]  BY DEF StartSync
<1>2. j \in Jobs /\ j.phase = "pull" /\ j.at = cursor[d] /\ j.page = <<>> /\ DOMAIN j.applied = {}
  BY NoJobType DEF NoJob, NoWrites, Jobs, TypeOK, Phases
<1> HIDE DEF j
<1>3. TypeOK'  BY <1>1, <1>2, TypeJobs DEF StartSync, TypeOK
<1>4. job'[d] = j /\ \A e \in Devices \ {d} : job'[e] = job[e]  BY <1>1, <1>2, JobStep
<1>5. UNCHANGED <<items, seq, ver, cursor, missed, overtaken>>  BY DEF StartSync
<1>6. Reads(d)' /\ Covers(d)' /\ Answers(d)'
  BY <1>2, <1>4, <1>5 DEF PullInv, Reads, Covers, Answers, Pulling, Knows, TypeOK
<1>7. ASSUME NEW e \in Devices, e # d  PROVE Reads(e)' /\ Covers(e)' /\ Answers(e)'
  BY <1>4, <1>5, <1>7, OthersKnow DEF PullInv
<1>8. VersionsDistinct'  BY <1>5 DEF PullInv, VersionsDistinct
<1> QED  BY <1>3, <1>6, <1>7, <1>8 DEF PullInv

LEMMA PullPagePulls ==
  ASSUME TypeOK, PullInv, NEW d \in Devices, PullPage(d)
  PROVE  TypeOK' /\ PullInv'
<1>0. PICK n \in 0..PullLimit : \E ks \in [1..n -> Records] :
        /\ IsPage(ks, job[d].at)
        /\ job' = [job EXCEPT ![d].phase = "apply",
                              ![d].page = [i \in 1..n |-> Copy(ks[i])],
                              ![d].more = (n = PullLimit),
                              ![d].at = NextCursor([i \in 1..n |-> Copy(ks[i])], @)]
  BY DEF PullPage
<1>1. PICK ks \in [1..n -> Records] :
        /\ IsPage(ks, job[d].at)
        /\ job' = [job EXCEPT ![d].phase = "apply",
                              ![d].page = [i \in 1..n |-> Copy(ks[i])],
                              ![d].more = (n = PullLimit),
                              ![d].at = NextCursor([i \in 1..n |-> Copy(ks[i])], @)]
  BY <1>0
<1> DEFINE p == [i \in 1..n |-> Copy(ks[i])]
           at == NextCursor(p, job[d].at)
           full == n = PullLimit
           j == [job[d] EXCEPT !.phase = "apply", !.page = p, !.more = full, !.at = at]
<1>2. job' = [job EXCEPT ![d] = j]  BY <1>1 DEF TypeOK
<1>3. job[d] \in Jobs /\ job[d].at \in Nat /\ seq \in Nat /\ cursor[d] \in Nat
  BY DEF TypeOK, Jobs
<1>4. p \in Seq(PageItems) /\ Len(p) = n /\ DOMAIN p = 1..n /\ at \in Nat /\ n \in Nat
  <2>1. n \in Nat  BY RecordAssumption
  <2> QED  BY <1>3, <2>1, PageType, Zenon
<1>5. \A i \in 1..n : p[i].key = ks[i] /\ p[i].version = items[ks[i]].version
                      /\ p[i].value = items[ks[i]].value /\ ks[i] \in Records
  BY DEF Copy
<1>6. at = IF n = 0 THEN job[d].at ELSE items[ks[n]].version
  <2>1. p = <<>> <=> n = 0  BY <1>4
  <2>2. n # 0 => p[n].version = items[ks[n]].version  BY <1>4, <1>5
  <2> QED  BY <1>4, <2>1, <2>2 DEF NextCursor
<1>7. full \in BOOLEAN  OBVIOUS
<1> HIDE DEF p, at, full
<1>8. /\ j \in Jobs /\ j.phase = "apply" /\ j.page = p /\ j.at = at
      /\ j.applied = job[d].applied
  BY <1>3, <1>4, <1>7 DEF Jobs, Phases
<1> HIDE DEF j
<1>9. UNCHANGED <<items, seq, row, ver, dirty, cursor, edits, mine, reached, missed, overtaken, faults>>
      /\ job[d].phase = "pull"
  BY DEF PullPage
<1>10. TypeOK'  BY <1>2, <1>8, <1>9, TypeJobs DEF TypeOK
<1>11. job'[d] = j /\ \A e \in Devices \ {d} : job'[e] = job[e]  BY <1>2, <1>8, JobStep
<1>12. Reads(d) /\ Covers(d) /\ Answers(d) /\ VersionsDistinct  BY DEF PullInv
<1>13. \A k \in Records : items[k].version \in Nat  BY DEF TypeOK
<1>14. \A i \in 1..n : job[d].at < items[ks[i]].version
  BY <1>1, <1>3, <1>13 DEF IsPage, Past
<1>15. job[d].at <= at /\ at <= seq /\ cursor[d] <= job[d].at
  <2>1. n # 0 => n \in 1..n  BY <1>4
  <2>2. job[d].at <= seq /\ cursor[d] <= job[d].at  BY <1>9, <1>12 DEF Covers, Pulling
  <2> QED  BY <1>3, <1>5, <1>6, <1>12, <1>13, <1>14, <2>1, <2>2 DEF VersionsDistinct
<1>16. Reads(d)'
  <2>1. \A k \in Records : ver'[d][k] <= items'[k].version
    BY <1>9, <1>12 DEF Reads
  <2>2. ASSUME NEW i \in DOMAIN j.page
        PROVE  /\ cursor[d] < j.page[i].version
               /\ j.page[i].version = items[j.page[i].key].version
               /\ j.page[i].value = items[j.page[i].key].value
               /\ j.page[i].key \in Records
    BY <1>3, <1>4, <1>5, <1>8, <1>13, <1>14, <1>15
  <2> QED  BY <1>8, <1>9, <1>11, <1>13, <2>1, <2>2 DEF Reads, Pulling
<1>17. ASSUME NEW k \in Records, items[k].version <= at
       PROVE  Knows(d, k) \/ \E i \in DOMAIN p : p[i].key = k /\ p[i].version = items[k].version
  <2>1. CASE items[k].version <= job[d].at
    <3>1. job[d].page = <<>>  BY <1>9, <1>12 DEF Reads
    <3> QED  BY <1>9, <1>12, <2>1, <3>1 DEF Covers, Pulling
  <2>2. CASE ~(items[k].version <= job[d].at)
    <3>1. k \in Past(job[d].at)  BY <1>3, <1>13, <2>2 DEF Past
    <3>2. CASE \E i \in DOMAIN ks : ks[i] = k  BY <1>4, <1>5, <3>2
    <3>3. CASE ~\E i \in DOMAIN ks : ks[i] = k
      <4>1. n # 0  BY <1>6, <1>17, <2>2
      <4>2. n \in DOMAIN ks  BY <1>4, <4>1
      <4>3. items[ks[n]].version < items[k].version
        BY <1>1, <3>1, <3>3, <4>2 DEF IsPage
      <4>4. items[ks[n]].version \in Nat  BY <1>13, <4>2
      <4> QED  BY <1>6, <1>13, <1>17, <4>1, <4>3, <4>4
    <3> QED  BY <3>2, <3>3
  <2> QED  BY <2>1, <2>2
<1>18. Covers(d)'
  <2>1. cursor[d] <= seq /\ cursor[d] <= at  BY <1>3, <1>4, <1>12, <1>15 DEF Covers
  <2>2. \A k \in Records : items[k].version <= cursor[d] => Knows(d, k)
    BY <1>12 DEF Covers
  <2> QED
    BY <1>8, <1>9, <1>11, <1>15, <1>17, <2>1, <2>2 DEF Covers, Pulling, Knows
<1>19. Answers(d)'  BY <1>8, <1>9, <1>11, <1>12 DEF Answers
<1>20. ASSUME NEW e \in Devices, e # d  PROVE Reads(e)' /\ Covers(e)' /\ Answers(e)'
  BY <1>9, <1>11, <1>20, OthersKnow DEF PullInv
<1>21. VersionsDistinct'  BY <1>9, <1>12 DEF VersionsDistinct
<1> QED  BY <1>10, <1>16, <1>18, <1>19, <1>20, <1>21 DEF PullInv

\* The pull goes past the head of its page, which is known afterwards, has
\* failed, or is no longer the record's version.
LEMMA PastHead ==
  ASSUME TypeOK, PullInv, NEW d \in Devices, NEW j \in Jobs, job' = [job EXCEPT ![d] = j],
         job[d].phase \in {"apply", "meta"}, job[d].page # <<>>,
         j.phase = "apply", j.page = Tail(job[d].page), j.at = job[d].at,
         j.applied = job[d].applied, UNCHANGED <<items, seq, cursor>>,
         \A e \in Devices \ {d} : ver'[e] = ver[e] /\ missed'[e] = missed[e],
         \A k \in Records : ver'[d][k] <= items[k].version,
         \A k \in Records :
            /\ IF k = Head(job[d].page).key THEN Head(job[d].page).version = items[k].version
                                            ELSE Knows(d, k)
            => Knows(d, k)'
  PROVE  PullInv'
<1> DEFINE it == Head(job[d].page)
<1>1. Reads(d) /\ Covers(d) /\ Answers(d) /\ VersionsDistinct  BY DEF PullInv
<1>2. job'[d] = j /\ \A e \in Devices \ {d} : job'[e] = job[e]  BY JobStep
<1>3. /\ it \in PageItems /\ it = job[d].page[1] /\ 1 \in DOMAIN job[d].page
      /\ \A i \in DOMAIN j.page : j.page[i] = job[d].page[i + 1] /\ i + 1 \in DOMAIN job[d].page
      /\ \A i \in DOMAIN job[d].page :
            i = 1 \/ (i - 1 \in DOMAIN j.page /\ j.page[i - 1] = job[d].page[i])
  BY TailOfPage
<1> HIDE DEF it
<1>4. it.version # items[it.key].version => job[d].at < items[it.key].version
  BY <1>1, <1>3 DEF Reads
<1>5. Reads(d)'
  <2>1. \A i \in DOMAIN j.page :
           /\ cursor[d] < j.page[i].version
           /\ j.page[i].version <= items[j.page[i].key].version
           /\ j.page[i].version = items[j.page[i].key].version
                 => j.page[i].value = items[j.page[i].key].value
           /\ j.page[i].version # items[j.page[i].key].version
                 => job[d].at < items[j.page[i].key].version
    BY <1>1, <1>3 DEF Reads
  <2>2. /\ Pulling(d)' /\ job'[d].phase = "apply" /\ job'[d].page = j.page
        /\ job'[d].at = job[d].at
    BY <1>2 DEF Pulling
  <2>3. UNCHANGED <<items, cursor>> /\ \A k \in Records : ver'[d][k] <= items[k].version
    OBVIOUS
  <2> HIDE DEF Pulling
  <2>4. \A i \in DOMAIN job'[d].page :
           /\ cursor'[d] < job'[d].page[i].version
           /\ job'[d].page[i].version <= items'[job'[d].page[i].key].version
           /\ job'[d].page[i].version = items'[job'[d].page[i].key].version
                 => job'[d].page[i].value = items'[job'[d].page[i].key].value
           /\ job'[d].page[i].version # items'[job'[d].page[i].key].version
                 => job'[d].at < items'[job'[d].page[i].key].version
    BY <2>1, <2>2, <2>3
  <2> QED  BY <2>2, <2>3, <2>4 DEF Reads
<1>6. Covers(d)'
  <2>1. Pulling(d) /\ Pulling(d)'  BY <1>2 DEF Pulling
  <2>2. cursor[d] <= seq /\ job[d].at <= seq /\ cursor[d] <= job[d].at
    BY <1>1, <2>1 DEF Covers
  <2>3. ASSUME NEW k \in Records, items[k].version <= job[d].at
        PROVE  \/ Knows(d, k)'
               \/ \E i \in DOMAIN j.page :
                     j.page[i].key = k /\ j.page[i].version = items[k].version
    <3>1. CASE k = it.key
      <4>1. it.version = items[k].version
        BY <1>4, <2>3, <3>1 DEF TypeOK, Jobs
      <4> QED  BY <3>1, <4>1 DEF it
    <3>2. CASE k # it.key
      <4>1. CASE Knows(d, k)  BY <3>2, <4>1 DEF it
      <4>2. ASSUME NEW i \in DOMAIN job[d].page, job[d].page[i].key = k,
                   job[d].page[i].version = items[k].version
            PROVE  \E m \in DOMAIN j.page :
                     j.page[m].key = k /\ j.page[m].version = items[k].version
        <5>1. i # 1  BY <1>3, <3>2, <4>2
        <5>2. i - 1 \in DOMAIN j.page /\ j.page[i - 1] = job[d].page[i]  BY <1>3, <5>1
        <5> QED  BY <4>2, <5>2
      <4> QED  BY <1>1, <2>1, <2>3, <4>1, <4>2 DEF Covers
    <3> QED  BY <3>1, <3>2
  <2>4. ASSUME NEW k \in Records, items[k].version <= cursor[d]  PROVE Knows(d, k)'
    <3>1. items[k].version <= job[d].at
      BY <2>2, <2>4 DEF TypeOK, Jobs
    <3>2. CASE k = it.key
      <4>1. it.version = items[k].version
        BY <1>4, <3>1, <3>2 DEF TypeOK, Jobs
      <4> QED  BY <3>2, <4>1 DEF it
    <3>3. CASE k # it.key
      <4>1. Knows(d, k)  BY <1>1, <2>4 DEF Covers
      <4> QED  BY <3>3, <4>1 DEF it
    <3> QED  BY <3>2, <3>3
  <2>5. /\ job'[d].page = j.page /\ job'[d].at = job[d].at
    BY <1>2
  <2>6. \A k \in Records : items'[k].version <= cursor'[d] => Knows(d, k)'
    BY <2>4
  <2>7. ASSUME NEW k \in Records, items'[k].version <= job'[d].at
        PROVE  \/ Knows(d, k)'
               \/ \E i \in DOMAIN job'[d].page :
                     job'[d].page[i].key = k /\ job'[d].page[i].version = items'[k].version
    <3>1. items' = items /\ items[k].version <= job[d].at  BY <2>5, <2>7
    <3>2. \/ Knows(d, k)'
          \/ \E i \in DOMAIN j.page :
                j.page[i].key = k /\ j.page[i].version = items[k].version
      BY <2>3, <3>1
    <3> QED  BY <2>5, <3>1, <3>2
  <2>8. cursor'[d] <= seq' /\ job'[d].at <= seq' /\ cursor'[d] <= job'[d].at
    BY <2>2, <2>5
  <2> QED  BY <2>6, <2>7, <2>8 DEF Covers
<1>7. Answers(d)'
  <2>1. DOMAIN job[d].applied = {}  BY <1>1 DEF Answers
  <2> QED  BY <1>2, <2>1 DEF Answers
<1>8. ASSUME NEW e \in Devices, e # d  PROVE Reads(e)' /\ Covers(e)' /\ Answers(e)'
  BY <1>2, <1>8, OthersKnow DEF PullInv
<1>9. VersionsDistinct'  BY <1>1 DEF VersionsDistinct
<1> QED  BY <1>5, <1>6, <1>7, <1>8, <1>9 DEF PullInv

\* The job past the head of its page.
LEMMA NextHead ==
  ASSUME TypeOK, NEW d \in Devices, job[d].page # <<>>
  PROVE  LET j == [job[d] EXCEPT !.phase = "apply", !.page = Tail(job[d].page)] IN
         /\ j \in Jobs /\ j.phase = "apply" /\ j.page = Tail(job[d].page)
         /\ j.at = job[d].at /\ j.applied = job[d].applied
<1>1. job[d] \in Jobs /\ Tail(job[d].page) \in Seq(PageItems)
  BY TailOfPage DEF TypeOK
<1> QED  BY <1>1 DEF Jobs, Phases

LEMMA SkipItemPulls ==
  ASSUME TypeOK, PullInv, NEW d \in Devices, SkipItem(d)
  PROVE  TypeOK' /\ PullInv'
<1> DEFINE it == Head(job[d].page)
           j == [job[d] EXCEPT !.phase = "apply", !.page = Tail(job[d].page)]
<1>1. job' = [job EXCEPT ![d] = j]  BY DEF SkipItem, TypeOK, Jobs
<1>2. /\ UNCHANGED <<items, seq, row, ver, dirty, cursor, edits, mine, reached, missed, overtaken, faults>>
      /\ job[d].page # <<>> /\ job[d].phase = "apply" /\ ~(it.version > ver[d][it.key])
  BY DEF SkipItem, Newer
<1>3. it \in PageItems /\ it = job[d].page[1] /\ 1 \in DOMAIN job[d].page
  BY <1>2, TailOfPage
<1>4. it.version = items[it.key].version => ver[d][it.key] = items[it.key].version
  BY <1>2, <1>3 DEF PullInv, Reads, TypeOK, PageItems
<1> HIDE DEF it
<1>5. /\ j \in Jobs /\ j.phase = "apply" /\ j.page = Tail(job[d].page)
      /\ j.at = job[d].at /\ j.applied = job[d].applied
  BY <1>2, NextHead
<1> HIDE DEF j
<1>6. \A k \in Records : ver'[d][k] <= items[k].version
  BY <1>2 DEF PullInv, Reads
<1>7. ASSUME NEW k \in Records,
             IF k = it.key THEN it.version = items[k].version ELSE Knows(d, k)
      PROVE  Knows(d, k)'
  BY <1>2, <1>4, <1>7 DEF Knows
<1>8. PullInv'  BY <1>1, <1>2, <1>5, <1>6, <1>7, PastHead DEF it
<1> QED  BY <1>1, <1>2, <1>5, <1>8, TypeJobs DEF TypeOK

LEMMA ApplyFailsPulls ==
  ASSUME TypeOK, PullInv, NEW d \in Devices, ApplyFails(d)
  PROVE  TypeOK' /\ PullInv'
<1> DEFINE it == Head(job[d].page)
           j == [job[d] EXCEPT !.phase = "apply", !.page = Tail(job[d].page)]
<1>1. job' = [job EXCEPT ![d] = j]  BY DEF ApplyFails, TypeOK, Jobs
<1>2. /\ UNCHANGED <<items, seq, row, ver, dirty, cursor, edits, mine, reached, overtaken>>
      /\ job[d].page # <<>> /\ job[d].phase = "apply"
      /\ missed' = [missed EXCEPT ![d] = @ \cup {it.key}]
  BY DEF ApplyFails
<1>3. it \in PageItems  BY <1>2, TailOfPage
<1> HIDE DEF it
<1>4. faults' \in Seq(MayFail)  BY DEF ApplyFails, Fault, TypeOK
<1>5. /\ missed' \in [Devices -> SUBSET Records] /\ missed'[d] = missed[d] \cup {it.key}
      /\ \A e \in Devices \ {d} : missed'[e] = missed[e]
  BY <1>2, <1>3 DEF TypeOK, PageItems
<1>6. /\ j \in Jobs /\ j.phase = "apply" /\ j.page = Tail(job[d].page)
      /\ j.at = job[d].at /\ j.applied = job[d].applied
  BY <1>2, NextHead
<1> HIDE DEF j
<1>7. \A k \in Records : ver'[d][k] <= items[k].version
  BY <1>2 DEF PullInv, Reads
<1>9. it.key \in Records  BY <1>3 DEF PageItems
<1>10. ASSUME NEW k \in Records,
              IF k = it.key THEN it.version = items[k].version ELSE Knows(d, k)
       PROVE  Knows(d, k)'
  BY <1>2, <1>5, <1>10 DEF Knows
<1>11. PullInv'  BY <1>1, <1>2, <1>5, <1>6, <1>7, <1>10, PastHead DEF it
<1> QED  BY <1>1, <1>2, <1>4, <1>5, <1>6, <1>11, TypeJobs DEF TypeOK

\* set_sync_meta: what was read is newer than what was known.
LEMMA RecordVersionPulls ==
  ASSUME TypeOK, PullInv, NEW d \in Devices, RecordVersion(d)
  PROVE  TypeOK' /\ PullInv'
<1> DEFINE it == Head(job[d].page)
           j == [job[d] EXCEPT !.phase = "apply", !.page = Tail(job[d].page)]
<1>1. job' = [job EXCEPT ![d] = j]  BY DEF RecordVersion, TypeOK, Jobs
<1>2. /\ UNCHANGED <<items, seq, row, cursor, edits, mine, reached, faults>>
      /\ job[d].page # <<>> /\ job[d].phase = "meta"
      /\ ver' = [ver EXCEPT ![d][it.key] = it.version]
      /\ dirty' = [dirty EXCEPT ![d][it.key] = FALSE]
      /\ missed' = [missed EXCEPT ![d] = @ \ {it.key}]
  BY DEF RecordVersion, TypeOK
<1>3. it \in PageItems /\ it = job[d].page[1] /\ 1 \in DOMAIN job[d].page
  BY <1>2, TailOfPage
<1>4. it.version <= items[it.key].version  BY <1>3 DEF PullInv, Reads
<1>a. overtaken' = [overtaken EXCEPT ![d] = Overtaken(d, it.key, it.value)]
  BY DEF RecordVersion
<1> HIDE DEF it
<1>5. it.key \in Records /\ it.version \in Nat  BY <1>3 DEF PageItems
<1>b. overtaken' \in [Devices -> SUBSET Records]  BY <1>a, <1>5, OvertakenType
<1>6. /\ missed' \in [Devices -> SUBSET Records] /\ missed'[d] = missed[d] \ {it.key}
      /\ \A e \in Devices \ {d} : missed'[e] = missed[e]
  BY <1>2 DEF TypeOK
<1>7. /\ ver' \in [Devices -> [Records -> Nat]]
      /\ \A k \in Records : ver'[d][k] = IF k = it.key THEN it.version ELSE ver[d][k]
      /\ \A e \in Devices \ {d} : ver'[e] = ver[e]
  BY <1>2, <1>5 DEF TypeOK
<1>8. dirty' \in [Devices -> [Records -> BOOLEAN]]  BY <1>2 DEF TypeOK
<1>9. /\ j \in Jobs /\ j.phase = "apply" /\ j.page = Tail(job[d].page)
      /\ j.at = job[d].at /\ j.applied = job[d].applied
  BY <1>2, NextHead
<1> HIDE DEF j
<1>10. \A k \in Records : ver'[d][k] <= items[k].version
  BY <1>4, <1>7 DEF PullInv, Reads
<1>11. ASSUME NEW k \in Records,
              IF k = it.key THEN it.version = items[k].version ELSE Knows(d, k)
       PROVE  Knows(d, k)'
  BY <1>2, <1>5, <1>6, <1>7, <1>11 DEF Knows
<1>12. PullInv'
  BY <1>1, <1>2, <1>6, <1>7, <1>9, <1>10, <1>11, PastHead DEF it
<1> QED  BY <1>1, <1>2, <1>6, <1>7, <1>8, <1>9, <1>b, <1>12, TypeJobs DEF TypeOK

\* The row is written; the job holds on to the head of its page.
LEMMA ApplyItemPulls ==
  ASSUME TypeOK, PullInv, NEW d \in Devices, ApplyItem(d)
  PROVE  TypeOK' /\ PullInv'
<1> DEFINE it == Head(job[d].page)
           j == [job[d] EXCEPT !.phase = "meta"]
           mark == dirty[d][it.key] \/ ~(Gone(it.value) /\ Gone(row[d][it.key]))
<1>1. job' = [job EXCEPT ![d] = j]  BY DEF ApplyItem, TypeOK, Jobs
<1>2. /\ UNCHANGED <<items, seq, ver, cursor, edits, mine, reached, missed, overtaken, faults>>
      /\ job[d].page # <<>> /\ job[d].phase = "apply" /\ Newer(d, it)
      /\ row' = [row EXCEPT ![d][it.key] = it.value]
      /\ dirty' = [dirty EXCEPT ![d][it.key] = mark]
  BY DEF ApplyItem, TypeOK
<1>3. it \in PageItems  BY <1>2, TailOfPage
<1>4. mark \in BOOLEAN  OBVIOUS
<1> HIDE DEF mark
<1>5. it.key \in Records /\ it.value \in Edits  BY <1>3 DEF PageItems
<1>6. /\ j \in Jobs /\ j.phase = "meta" /\ j.page = job[d].page
      /\ j.at = job[d].at /\ j.applied = job[d].applied
  <2>1. job[d] \in Jobs  BY DEF TypeOK
  <2> QED  BY <2>1 DEF Jobs, Phases
<1> HIDE DEF j
<1>7. row' \in [Devices -> [Records -> Edits]] /\ dirty' \in [Devices -> [Records -> BOOLEAN]]
  BY <1>2, <1>4, <1>5 DEF TypeOK
<1>8. TypeOK'  BY <1>1, <1>2, <1>6, <1>7, TypeJobs DEF TypeOK
<1>9. job'[d] = j /\ \A e \in Devices \ {d} : job'[e] = job[e]  BY <1>1, <1>6, JobStep
<1>10. Reads(d) /\ Covers(d) /\ Answers(d) /\ VersionsDistinct  BY DEF PullInv
<1>11. Reads(d)' /\ Covers(d)' /\ Answers(d)'
  <2>1. Newer(d, Head(job[d].page))'
    BY <1>2, <1>6, <1>9 DEF Newer
  <2>2. Reads(d)'  BY <1>2, <1>6, <1>9, <1>10, <2>1 DEF Reads, Pulling
  <2>3. Covers(d)'  BY <1>2, <1>6, <1>9, <1>10 DEF Covers, Pulling, Knows
  <2>4. Answers(d)'  BY <1>2, <1>6, <1>9, <1>10 DEF Answers
  <2> QED  BY <2>2, <2>3, <2>4
<1>12. ASSUME NEW e \in Devices, e # d  PROVE Reads(e)' /\ Covers(e)' /\ Answers(e)'
  BY <1>2, <1>9, <1>12, OthersKnow DEF PullInv
<1>13. VersionsDistinct'  BY <1>2, <1>10 DEF VersionsDistinct
<1> QED  BY <1>8, <1>11, <1>12, <1>13 DEF PullInv

\* Pages end; the cursor is saved after the last one.
LEMMA PageEndPulls ==
  ASSUME TypeOK, PullInv, NEW d \in Devices, NextPage(d) \/ EndPull(d)
  PROVE  TypeOK' /\ PullInv'
<1> DEFINE phase == IF NextPage(d) THEN "pull" ELSE "push"
           j == [job[d] EXCEPT !.phase = phase]
<1>1. job' = [job EXCEPT ![d] = j]  BY DEF NextPage, EndPull, TypeOK, Jobs
<1>2. phase \in {"pull", "push"}  OBVIOUS
<1> HIDE DEF phase
<1>3. /\ j \in Jobs /\ j.phase = phase /\ j.page = job[d].page
      /\ j.at = job[d].at /\ j.applied = job[d].applied
  <2>1. job[d] \in Jobs  BY DEF TypeOK
  <2> QED  BY <1>2, <2>1 DEF Jobs, Phases
<1> HIDE DEF j
<1>4. /\ UNCHANGED <<items, seq, row, ver, dirty, edits, mine, reached, missed, overtaken, faults>>
      /\ job[d].page = <<>> /\ job[d].phase = "apply"
      /\ cursor' = cursor \/ cursor' = [cursor EXCEPT ![d] = job[d].at]
  BY DEF NextPage, EndPull
<1>5. job[d].at \in Nat  BY DEF TypeOK, Jobs
<1>6. /\ cursor' \in [Devices -> Nat] /\ cursor'[d] \in {cursor[d], job[d].at}
      /\ \A e \in Devices \ {d} : cursor'[e] = cursor[e]
  BY <1>4, <1>5 DEF TypeOK
<1>7. TypeOK'
  <2>1. j.phase # "meta"  BY <1>2, <1>3
  <2> QED  BY <1>1, <1>3, <1>4, <1>6, <2>1, TypeJobs DEF TypeOK
<1>8. job'[d] = j /\ \A e \in Devices \ {d} : job'[e] = job[e]  BY <1>1, <1>3, JobStep
<1>9. Reads(d) /\ Covers(d) /\ Answers(d) /\ VersionsDistinct  BY DEF PullInv
<1>10. Reads(d)'
  BY <1>2, <1>3, <1>4, <1>8, <1>9 DEF Reads
<1>11. ASSUME NEW k \in Records, items[k].version <= job[d].at  PROVE Knows(d, k)
  BY <1>4, <1>9, <1>11 DEF Covers, Pulling
<1>12. Covers(d)'
  <2>1. cursor[d] <= seq /\ job[d].at <= seq /\ cursor[d] <= job[d].at
    BY <1>4, <1>9 DEF Covers, Pulling
  <2>2. \A k \in Records : items[k].version <= cursor[d] => Knows(d, k)
    BY <1>9 DEF Covers
  <2>3. \A k \in Records : Knows(d, k) => Knows(d, k)'  BY <1>4 DEF Knows
  <2>4. cursor'[d] <= job[d].at  BY <1>5, <1>6, <2>1
  <2> QED
    BY <1>2, <1>3, <1>4, <1>6, <1>8, <1>11, <2>1, <2>2, <2>3, <2>4 DEF Covers, Pulling
<1>13. Answers(d)'
  <2>1. DOMAIN job[d].applied = {}  BY <1>4, <1>9 DEF Answers
  <2> QED  BY <1>3, <1>8, <2>1 DEF Answers
<1>14. ASSUME NEW e \in Devices, e # d  PROVE Reads(e)' /\ Covers(e)' /\ Answers(e)'
  BY <1>4, <1>6, <1>8, <1>14, OthersKnow DEF PullInv
<1>15. VersionsDistinct'  BY <1>4, <1>9 DEF VersionsDistinct
<1> QED  BY <1>7, <1>10, <1>12, <1>13, <1>14, <1>15 DEF PullInv

----------------------------------------------------------------------------
(* The push *)

LEMMA ListDirtyPulls ==
  ASSUME TypeOK, PullInv, NEW d \in Devices, ListDirty(d)
  PROVE  TypeOK' /\ PullInv'
<1> DEFINE todo == [k \in DirtyRecords(d) |-> row[d][k]]
           r == [NoJob EXCEPT !.phase = "read", !.todo = todo]
           j == IF DirtyRecords(d) = {} THEN NoJob ELSE r
<1>1. job' = [job EXCEPT ![d] = j]  BY DEF ListDirty
<1>2. todo \in Some(Edits)
  <2>1. DirtyRecords(d) \subseteq Records  BY DEF DirtyRecords
  <2>2. todo \in [DirtyRecords(d) -> Edits]  BY <2>1 DEF TypeOK
  <2> QED  BY <2>1, <2>2 DEF Some
<1> HIDE DEF todo
<1>3. r \in Jobs /\ r.phase = "read" /\ r.page = <<>> /\ DOMAIN r.applied = {} /\ r.at = 0
  BY <1>2, NoJobType DEF NoJob, NoWrites, Jobs, Phases
<1>4. NoJob \in Jobs /\ NoJob.phase = "idle" /\ NoJob.page = <<>>
      /\ DOMAIN NoJob.applied = {} /\ NoJob.at = 0
  BY NoJobType DEF NoJob, NoWrites
<1> HIDE DEF r
<1>5. j \in Jobs /\ j.phase \in {"idle", "read"} /\ j.page = <<>> /\ DOMAIN j.applied = {}
      /\ j.at = 0
  BY <1>3, <1>4
<1> HIDE DEF j
<1>6. UNCHANGED <<items, seq, row, ver, dirty, cursor, edits, mine, reached, missed, overtaken, faults>>
  BY DEF ListDirty
<1>7. 0 <= seq  BY DEF TypeOK
<1> QED  BY <1>1, <1>5, <1>6, <1>7, TypeJobs, QuietJob DEF TypeOK

LEMMA ReadRowPulls ==
  ASSUME TypeOK, PullInv, NEW d \in Devices, ReadRow(d)
  PROVE  TypeOK' /\ PullInv'
<1>1. job[d] \in Jobs  BY DEF TypeOK
<1>2. PICK k \in DOMAIN job[d].todo :
        job' = [job EXCEPT ![d].todo = Forget(@, k),
                           ![d].writes = Note(@, k, IF Gone(job[d].todo[k]) THEN job[d].todo[k]
                                                                           ELSE row[d][k])]
  BY DEF ReadRow
<1> DEFINE v == IF Gone(job[d].todo[k]) THEN job[d].todo[k] ELSE row[d][k]
           todo == Forget(job[d].todo, k)
           writes == Note(job[d].writes, k, v)
           j == [job[d] EXCEPT !.todo = todo, !.writes = writes]
<1>3. job' = [job EXCEPT ![d] = j]  BY <1>1, <1>2 DEF TypeOK, Jobs
<1>4. k \in Records /\ job[d].todo[k] \in Edits
  <2>1. PICK S \in SUBSET Records : job[d].todo \in [S -> Edits]  BY <1>1 DEF Jobs, Some
  <2> QED  BY <2>1
<1>5. v \in Edits  BY <1>4 DEF TypeOK
<1> HIDE DEF v
<1>6. todo \in Some(Edits) /\ writes \in Some(Edits)
  BY <1>1, <1>4, <1>5, ForgetType, NoteType DEF Jobs
<1> HIDE DEF todo, writes
<1>7. /\ UNCHANGED <<items, seq, row, ver, dirty, cursor, edits, mine, reached, missed, overtaken, faults>>
      /\ job[d].phase = "read"
  BY DEF ReadRow
<1>8. /\ j \in Jobs /\ j.phase = "read" /\ j.page = job[d].page /\ j.at = job[d].at
      /\ j.applied = job[d].applied
  BY <1>1, <1>6, <1>7 DEF Jobs
<1> HIDE DEF j
<1>9. j.page = <<>> /\ DOMAIN j.applied = {} /\ j.at <= seq
  BY <1>7, <1>8 DEF PullInv, Reads, Covers, Answers
<1> QED  BY <1>3, <1>7, <1>8, <1>9, TypeJobs, QuietJob DEF TypeOK

LEMMA StopPulls ==
  ASSUME TypeOK, PullInv, NEW d \in Devices, EndPush(d) \/ Abort(d)
  PROVE  TypeOK' /\ PullInv'
<1>1. job' = [job EXCEPT ![d] = NoJob]
      /\ UNCHANGED <<items, seq, row, ver, dirty, cursor, edits, mine, reached, missed, overtaken>>
  BY DEF EndPush, Abort
<1>2. faults' \in Seq(MayFail)
  <2>1. CASE EndPush(d)  BY <2>1 DEF EndPush, TypeOK
  <2>2. CASE Abort(d)  BY <2>2 DEF Abort, Fault, TypeOK
  <2> QED  BY <2>1, <2>2
<1>3. NoJob.phase = "idle" /\ NoJob.page = <<>> /\ DOMAIN NoJob.applied = {}
      /\ NoJob.at = 0 /\ NoJob \in Jobs
  BY NoJobType DEF NoJob, NoWrites
<1>4. 0 <= seq  BY DEF TypeOK
<1> QED  BY <1>1, <1>2, <1>3, <1>4, TypeJobs, QuietJob DEF TypeOK

LEMMA LocalEditPulls ==
  ASSUME TypeOK, PullInv, NEW d \in Devices, NEW k \in Records, LocalEdit(d, k)
  PROVE  TypeOK' /\ PullInv'
<1>1. edits + 1 \in Edits  BY EditAssumption DEF LocalEdit, TypeOK, Edits
<1>2. TypeOK'  BY <1>1 DEF LocalEdit, TypeOK
<1>3. UNCHANGED <<items, seq, ver, cursor, job, missed, overtaken>>  BY DEF LocalEdit
<1>4. VersionsDistinct'  BY <1>3 DEF PullInv, VersionsDistinct
<1>5. ASSUME NEW e \in Devices  PROVE Reads(e)' /\ Covers(e)' /\ Answers(e)'
  BY <1>3, OthersKnow DEF PullInv
<1> QED  BY <1>2, <1>4, <1>5 DEF PullInv

\* The versions that one request hands out: new, in a row, each once.
LEMMA VersionsHandedOut ==
  ASSUME seq \in Nat, NEW S \in SUBSET Records
  PROVE  /\ Cardinality(S) \in Nat
         /\ \A k \in S : /\ VersionOf(S, k) \in Nat /\ seq < VersionOf(S, k)
                         /\ VersionOf(S, k) <= seq + Cardinality(S)
         /\ \A j, k \in S : VersionOf(S, j) = VersionOf(S, k) => j = k
<1> DEFINE UpTo(k) == {j \in S : j <= k}
<1>1. IsFiniteSet(S) /\ S \subseteq Nat
  <2>1. 1 \in Int /\ MaxRecord \in Int  BY RecordAssumption
  <2>2. IsFiniteSet(Records)  BY <2>1, FS_Interval DEF Records
  <2>3. Records \subseteq Nat  BY RecordAssumption DEF Records
  <2> QED  BY <2>2, <2>3, FS_Subset
<1>2. \A k \in S : UpTo(k) \subseteq S /\ IsFiniteSet(UpTo(k)) /\ k \in UpTo(k)
  BY <1>1, FS_Subset
<1>3. Cardinality(S) \in Nat /\ \A k \in S : Cardinality(UpTo(k)) \in Nat
  BY <1>1, <1>2, FS_CardinalityType
<1>4. \A k \in S : Cardinality(UpTo(k)) <= Cardinality(S) /\ Cardinality(UpTo(k)) > 0
  <2> SUFFICES ASSUME NEW k \in S
               PROVE  Cardinality(UpTo(k)) <= Cardinality(S) /\ Cardinality(UpTo(k)) > 0
    OBVIOUS
  <2>1. Cardinality(UpTo(k)) <= Cardinality(S)  BY <1>1, <1>2, FS_Subset
  <2>2. Cardinality(UpTo(k)) # 0  BY <1>2, FS_EmptySet
  <2> QED  BY <1>3, <2>1, <2>2
<1>5. ASSUME NEW j \in S, NEW k \in S, j < k
      PROVE  Cardinality(UpTo(j)) # Cardinality(UpTo(k))
  <2>0. \A i \in S : i \in Nat  BY <1>1
  <2>1. UpTo(j) \subseteq UpTo(k) /\ k \notin UpTo(j)  BY <2>0, <1>5
  <2>2. UpTo(j) # UpTo(k)  BY <1>2, <2>1
  <2> QED  BY <1>2, <2>1, <2>2, FS_Subset
<1>6. \A k \in S : VersionOf(S, k) = seq + Cardinality(UpTo(k))  BY DEF VersionOf
<1> HIDE DEF UpTo
<1>7. ASSUME NEW j \in S, NEW k \in S, VersionOf(S, j) = VersionOf(S, k)  PROVE j = k
  <2>1. Cardinality(UpTo(j)) = Cardinality(UpTo(k))  BY <1>3, <1>6, <1>7
  <2> QED  BY <1>1, <1>5, <2>1
<1> QED  BY <1>3, <1>4, <1>6, <1>7

\* put_items: what lands gets a new version, and nothing else changes.
LEMMA PutItemsPulls ==
  ASSUME TypeOK, PullInv, NEW d \in Devices, PutItems(d), UNCHANGED <<ver, cursor, missed>>
  PROVE  /\ items' \in [Records -> [version : Nat, value : Edits]]
         /\ seq' \in Nat /\ seq <= seq' /\ reached' \subseteq Edits
         /\ VersionsDistinct'
         /\ \A k \in Records : items'[k] = items[k] \/ seq < items'[k].version
         /\ \A k \in Lands(d) :
               /\ items'[k].version = VersionOf(Lands(d), k) /\ seq < items'[k].version
               /\ items'[k].value = job[d].writes[k]
         /\ \A k \in Records \ Lands(d) : items'[k] = items[k]
         /\ \A e \in Devices : job'[e] = job[e] => Reads(e)' /\ Covers(e)' /\ Answers(e)'
<1> DEFINE S == Lands(d)
<1>0. job[d].writes \in Some(Edits)  BY DEF TypeOK, Jobs
<1>1. PICK W \in SUBSET Records : job[d].writes \in [W -> Edits]
  BY <1>0 DEF Some
<1>2. S \in SUBSET Records /\ \A k \in S : job[d].writes[k] \in Edits
  BY <1>1 DEF Lands
<1>3. /\ items' = [k \in Records |->
             IF k \in S THEN [version |-> VersionOf(S, k), value |-> job[d].writes[k]]
                        ELSE items[k]]
      /\ seq' = seq + Cardinality(S)
      /\ reached' = reached \cup {job[d].writes[k] : k \in S}
  BY DEF PutItems
<1>4. seq \in Nat /\ \A k \in Records : items[k] \in [version : Nat, value : Edits]
  BY DEF TypeOK
<1> HIDE DEF S
<1>5. /\ Cardinality(S) \in Nat
      /\ \A k \in S : /\ VersionOf(S, k) \in Nat /\ seq < VersionOf(S, k)
                      /\ VersionOf(S, k) <= seq + Cardinality(S)
      /\ \A j, k \in S : VersionOf(S, j) = VersionOf(S, k) => j = k
  BY <1>2, <1>4, VersionsHandedOut
<1>6. /\ \A k \in S : items'[k] = [version |-> VersionOf(S, k), value |-> job[d].writes[k]]
      /\ \A k \in Records \ S : items'[k] = items[k]
  BY <1>2, <1>3
<1>7. ASSUME NEW k \in S
      PROVE  items'[k].version = VersionOf(S, k) /\ items'[k].value = job[d].writes[k]
  <2>1. items'[k] = [version |-> VersionOf(S, k), value |-> job[d].writes[k]]  BY <1>6
  <2> QED  BY <2>1
<1>8. items' \in [Records -> [version : Nat, value : Edits]]
  <2>1. ASSUME NEW k \in S  PROVE items'[k] \in [version : Nat, value : Edits]
    <3>1. VersionOf(S, k) \in Nat /\ job[d].writes[k] \in Edits  BY <1>2, <1>5
    <3>2. items'[k] = [version |-> VersionOf(S, k), value |-> job[d].writes[k]]  BY <1>6
    <3> QED  BY <3>1, <3>2
  <2>2. ASSUME NEW k \in Records \ S  PROVE items'[k] \in [version : Nat, value : Edits]
    BY <1>4, <1>6
  <2>3. \A k \in Records : items'[k] \in [version : Nat, value : Edits]
    BY <2>1, <2>2
  <2> QED  BY <1>3, <2>3
<1>9. reached' \subseteq Edits  BY <1>2, <1>3 DEF TypeOK
<1>10. seq' \in Nat /\ seq <= seq'  BY <1>3, <1>4, <1>5
<1>11. VersionsDistinct  BY DEF PullInv
<1>12. \A k \in Records : /\ items[k].version \in Nat /\ items[k].version <= seq
                          /\ items'[k].version \in Nat
  BY <1>4, <1>8, <1>11 DEF VersionsDistinct
<1>13. VersionsDistinct'
  <2>1. \A k \in Records : items'[k].version <= seq'
    BY <1>3, <1>4, <1>5, <1>6, <1>7, <1>10, <1>12
  <2>2. ASSUME NEW j \in Records, NEW k \in Records,
               items'[j].version = items'[k].version, items'[k].version # 0
        PROVE  j = k
    <3>1. CASE j \in S /\ k \in S  BY <1>5, <1>7, <2>2, <3>1
    <3>2. CASE j \in S <=> k \notin S
      BY <1>4, <1>5, <1>6, <1>7, <1>12, <2>2, <3>2
    <3>3. CASE j \notin S /\ k \notin S  BY <1>6, <1>11, <2>2, <3>3 DEF VersionsDistinct
    <3> QED  BY <3>1, <3>2, <3>3
  <2> QED  BY <2>1, <2>2 DEF VersionsDistinct
<1>14. \A k \in Records : \/ items'[k] = items[k]
                          \/ seq < items'[k].version
  BY <1>5, <1>6, <1>7
<1>15. ASSUME NEW e \in Devices, job'[e] = job[e]
       PROVE  Reads(e)' /\ Covers(e)' /\ Answers(e)'
  <2>1. Reads(e) /\ Covers(e) /\ Answers(e)  BY DEF PullInv
  <2>2. job[e] \in Jobs /\ ver[e] \in [Records -> Nat] /\ cursor[e] \in Nat
    BY DEF TypeOK
  <2>3. \A i \in DOMAIN job[e].page : job[e].page[i] \in PageItems
    BY <2>2 DEF Jobs
  <2>4. Reads(e)'
    <3>1. \A k \in Records : ver'[e][k] <= items'[k].version
      BY <1>4, <1>12, <1>14, <2>1, <2>2 DEF Reads
    <3>2. ASSUME NEW i \in DOMAIN job[e].page
          PROVE  LET it == job[e].page[i] IN
                 /\ cursor[e] < it.version /\ it.version <= items'[it.key].version
                 /\ it.version = items'[it.key].version => it.value = items'[it.key].value
                 /\ it.version # items'[it.key].version => job[e].at < items'[it.key].version
      <4> DEFINE it == job[e].page[i]
      <4>1. it.key \in Records /\ it.version \in Nat /\ job[e].at \in Nat
        BY <2>2, <2>3 DEF PageItems, Jobs
      <4>2. /\ cursor[e] < it.version /\ it.version <= items[it.key].version
            /\ it.version = items[it.key].version => it.value = items[it.key].value
            /\ it.version # items[it.key].version => job[e].at < items[it.key].version
        BY <2>1 DEF Reads
      <4>3. job[e].at <= seq  BY <2>1 DEF Covers
      <4> HIDE DEF it
      <4>4. CASE items'[it.key] = items[it.key]  BY <4>2, <4>4 DEF it
      <4>5. CASE seq < items'[it.key].version
        <5>1. items[it.key].version <= seq /\ items'[it.key].version \in Nat
              /\ items[it.key].version \in Nat
          BY <1>12, <4>1
        <5>2. it.version < items'[it.key].version /\ job[e].at < items'[it.key].version
          BY <1>4, <4>1, <4>2, <4>3, <4>5, <5>1
        <5> QED  BY <4>1, <4>2, <5>1, <5>2 DEF it
      <4> QED  BY <1>14, <4>1, <4>4, <4>5
    <3>3. job[e].phase = "meta" => Newer(e, Head(job[e].page))  BY <2>1 DEF Reads
    <3>4. job[e].phase \notin {"apply", "meta"} => job[e].page = <<>>  BY <2>1 DEF Reads
    <3> QED  BY <1>15, <3>1, <3>2, <3>3, <3>4 DEF Reads, Newer
  <2>5. Covers(e)'
    <3>1. cursor[e] <= seq /\ job[e].at <= seq  BY <2>1 DEF Covers
    <3>2. job[e].at \in Nat  BY <2>2 DEF Jobs
    <3>3. cursor[e] <= seq' /\ job[e].at <= seq'
      BY <1>4, <1>10, <2>2, <3>1, <3>2
    <3>4. ASSUME NEW k \in Records, items'[k].version <= seq  PROVE items'[k] = items[k]
      BY <1>4, <1>12, <1>14, <3>4
    <3>5. ASSUME NEW k \in Records, items'[k].version <= cursor[e]
          PROVE  Knows(e, k)'
      <4>1. items'[k] = items[k]  BY <1>4, <1>12, <2>2, <3>1, <3>4, <3>5
      <4> QED  BY <2>1, <3>5, <4>1 DEF Covers, Knows
    <3>6. ASSUME NEW k \in Records, items'[k].version <= job[e].at, Pulling(e)
          PROVE  \/ Knows(e, k)'
                 \/ \E i \in DOMAIN job[e].page :
                       job[e].page[i].key = k /\ job[e].page[i].version = items'[k].version
      <4>1. items'[k] = items[k]  BY <1>4, <1>12, <3>1, <3>2, <3>4, <3>6
      <4>2. \/ Knows(e, k)
            \/ \E i \in DOMAIN job[e].page :
                  job[e].page[i].key = k /\ job[e].page[i].version = items[k].version
        BY <2>1, <3>6, <4>1 DEF Covers
      <4> QED  BY <4>1, <4>2 DEF Knows
    <3>7. Pulling(e)' = Pulling(e)  BY <1>15 DEF Pulling
    <3>8. Pulling(e) => cursor[e] <= job[e].at  BY <2>1 DEF Covers
    <3> QED  BY <1>15, <3>3, <3>5, <3>6, <3>7, <3>8 DEF Covers
  <2>6. Answers(e)'
    <3>1. job[e].applied \in Some(Nat)  BY <2>2 DEF Jobs
    <3>2. PICK A \in SUBSET Records : job[e].applied \in [A -> Nat]  BY <3>1 DEF Some
    <3>3. \A k \in Records : items[k].version <= items'[k].version
      BY <1>4, <1>12, <1>14
    <3> QED  BY <1>12, <1>15, <2>1, <3>2, <3>3 DEF Answers
  <2> QED  BY <2>4, <2>5, <2>6
<1> QED  BY <1>5, <1>6, <1>7, <1>8, <1>9, <1>10, <1>13, <1>14, <1>15 DEF S

\* A push, answered or not: the job that follows holds at most the answer.
LEMMA PushedPulls ==
  ASSUME TypeOK, PullInv, NEW d \in Devices, NEW j \in Jobs, PutItems(d),
         job' = [job EXCEPT ![d] = j], j.phase \in {"idle", "mark"}, j.page = <<>>, j.at = 0,
         j.applied = NoWrites \/ (j.phase = "mark" /\ j.applied = Applied(d)),
         UNCHANGED <<row, ver, dirty, cursor, edits, mine, missed, overtaken>>, faults' \in Seq(MayFail)
  PROVE  TypeOK' /\ PullInv'
<1>1. /\ items' \in [Records -> [version : Nat, value : Edits]]
      /\ seq' \in Nat /\ seq <= seq' /\ reached' \subseteq Edits
      /\ VersionsDistinct'
      /\ \A k \in Records : items'[k] = items[k] \/ seq < items'[k].version
      /\ \A k \in Lands(d) :
            items'[k].version = VersionOf(Lands(d), k) /\ seq < items'[k].version
      /\ \A e \in Devices : job'[e] = job[e] => Reads(e)' /\ Covers(e)' /\ Answers(e)'
  BY PutItemsPulls
<1>2. /\ job' \in [Devices -> Jobs] /\ job'[d] = j
      /\ \A e \in Devices \ {d} : job'[e] = job[e]
  BY JobStep
<1>3. TypeOK'
  <2>1. \A e \in Devices : job'[e].phase = "meta" => job'[e].page # <<>>
    BY <1>2 DEF TypeOK
  <2> QED  BY <1>1, <1>2, <2>1 DEF TypeOK
<1>4. Reads(d) /\ Covers(d) /\ VersionsDistinct  BY DEF PullInv
<1>5. ver[d] \in [Records -> Nat] /\ cursor[d] \in Nat /\ seq \in Nat
      /\ \A k \in Records : items[k].version \in Nat /\ items[k].version <= seq
                           /\ items'[k].version \in Nat
  BY <1>1, <1>4 DEF TypeOK, VersionsDistinct
<1>6. Reads(d)'
  <2>1. \A k \in Records : ver'[d][k] <= items'[k].version
    BY <1>1, <1>4, <1>5 DEF Reads
  <2> QED  BY <1>2, <2>1 DEF Reads
<1>7. Covers(d)'
  <2>1. cursor'[d] <= seq' /\ job'[d].at <= seq'
    BY <1>1, <1>2, <1>4, <1>5 DEF Covers
  <2>2. ASSUME NEW k \in Records, items'[k].version <= cursor'[d]  PROVE Knows(d, k)'
    <3>1. cursor[d] <= seq  BY <1>4 DEF Covers
    <3>2. items'[k] = items[k]  BY <1>1, <1>5, <2>2, <3>1
    <3> QED  BY <1>4, <2>2, <3>2 DEF Covers, Knows
  <2>3. ~Pulling(d)'  BY <1>2 DEF Pulling
  <2> QED  BY <2>1, <2>2, <2>3 DEF Covers
<1>8. Answers(d)'
  <2>1. CASE j.applied = NoWrites  BY <1>2, <2>1 DEF Answers, NoWrites
  <2>2. CASE j.phase = "mark" /\ j.applied = Applied(d)
    <3>1. ASSUME NEW k \in Lands(d)
          PROVE  ver'[d][k] < VersionOf(Lands(d), k) /\ VersionOf(Lands(d), k) <= items'[k].version
      <4>1. k \in Records /\ items[k].version = ver[d][k]
        <5>1. job[d].writes \in Some(Edits)  BY DEF TypeOK, Jobs
        <5>2. DOMAIN job[d].writes \subseteq Records  BY <5>1 DEF Some
        <5> QED  BY <5>2 DEF Lands
      <4> QED  BY <1>1, <1>5, <4>1
    <3>2. DOMAIN job'[d].applied = Lands(d)
          /\ \A k \in Lands(d) : job'[d].applied[k] = VersionOf(Lands(d), k)
      BY <1>2, <2>2 DEF Applied
    <3> QED  BY <1>2, <2>2, <3>1, <3>2 DEF Answers
  <2> QED  BY <2>1, <2>2
<1>9. ASSUME NEW e \in Devices, e # d  PROVE Reads(e)' /\ Covers(e)' /\ Answers(e)'
  BY <1>1, <1>2, <1>9
<1> QED  BY <1>1, <1>3, <1>6, <1>7, <1>8, <1>9 DEF PullInv

\* The reply names versions, one for each write that landed.
LEMMA AppliedType ==
  ASSUME TypeOK, NEW d \in Devices
  PROVE  Applied(d) \in Some(Nat) /\ Lands(d) \in SUBSET Records
<1>1. job[d].writes \in Some(Edits) /\ seq \in Nat  BY DEF TypeOK, Jobs
<1>2. DOMAIN job[d].writes \subseteq Records  BY <1>1 DEF Some
<1>3. Lands(d) \in SUBSET Records  BY <1>2 DEF Lands
<1>4. \A k \in Lands(d) : VersionOf(Lands(d), k) \in Nat
  BY <1>1, <1>3, VersionsHandedOut
<1>5. Applied(d) \in [Lands(d) -> Nat]  BY <1>4 DEF Applied
<1> QED  BY <1>3, <1>5 DEF Some

LEMMA PushPulls ==
  ASSUME TypeOK, PullInv, NEW d \in Devices, Push(d) \/ PushReplyLost(d)
  PROVE  TypeOK' /\ PullInv'
<1>1. CASE Push(d)
  <2> DEFINE j == [NoJob EXCEPT !.phase = "mark", !.writes = job[d].writes,
                                !.applied = Applied(d)]
  <2>1. Applied(d) \in Some(Nat) /\ job[d].writes \in Some(Edits)
    BY AppliedType DEF TypeOK, Jobs
  <2>2. /\ j \in Jobs /\ j.phase = "mark" /\ j.page = <<>> /\ j.at = 0
        /\ j.applied = Applied(d)
    BY <2>1, NoJobType DEF NoJob, Jobs, Phases
  <2>3. job' = [job EXCEPT ![d] = j]  BY <1>1 DEF Push
  <2> HIDE DEF j
  <2>4. PutItems(d) /\ UNCHANGED <<row, ver, dirty, cursor, edits, mine, missed, overtaken, faults>>
    BY <1>1 DEF Push
  <2>5. faults' \in Seq(MayFail)  BY <2>4 DEF TypeOK
  <2> QED  BY <2>2, <2>3, <2>4, <2>5, PushedPulls
<1>2. CASE PushReplyLost(d)
  <2> DEFINE j == NoJob
  <2>1. /\ j \in Jobs /\ j.phase = "idle" /\ j.page = <<>> /\ j.at = 0
        /\ j.applied = NoWrites
    BY NoJobType DEF NoJob
  <2> HIDE DEF j
  <2>2. job' = [job EXCEPT ![d] = j] /\ PutItems(d)
        /\ UNCHANGED <<row, ver, dirty, cursor, edits, mine, missed, overtaken>>
    BY <1>2 DEF PushReplyLost, j
  <2>3. faults' \in Seq(MayFail)  BY <1>2 DEF PushReplyLost, Fault, TypeOK
  <2>4. j.phase \in {"idle", "mark"}
        /\ (j.applied = NoWrites \/ (j.phase = "mark" /\ j.applied = Applied(d)))
    BY <2>1
  <2> QED  BY <2>1, <2>2, <2>3, <2>4, PushedPulls
<1> QED  BY <1>1, <1>2

LEMMA MarkCleanPulls ==
  ASSUME TypeOK, PullInv, NEW d \in Devices, NEW k \in DOMAIN job[d].applied, MarkClean(d, k)
  PROVE  TypeOK' /\ PullInv'
<1> DEFINE applied == Forget(job[d].applied, k)
           j == [job[d] EXCEPT !.applied = applied]
<1>1. job[d] \in Jobs  BY DEF TypeOK
<1>2. job' = [job EXCEPT ![d] = j]  BY <1>1 DEF MarkClean, TypeOK, Jobs
<1>3. applied \in Some(Nat)  BY <1>1, ForgetType DEF Jobs
<1>4. k \in Records /\ job[d].applied[k] \in Nat /\ DOMAIN applied = DOMAIN job[d].applied \ {k}
      /\ \A i \in DOMAIN applied : applied[i] = job[d].applied[i]
  <2>1. PICK A \in SUBSET Records : job[d].applied \in [A -> Nat]  BY <1>1 DEF Jobs, Some
  <2> QED  BY <2>1 DEF Forget
<1> HIDE DEF applied
<1>5. /\ j \in Jobs /\ j.phase = job[d].phase /\ j.page = job[d].page /\ j.at = job[d].at
      /\ j.applied = applied
  BY <1>1, <1>3 DEF Jobs
<1> HIDE DEF j
<1>6. /\ UNCHANGED <<items, seq, row, cursor, edits, mine, reached, missed, faults>>
      /\ overtaken' = [overtaken EXCEPT ![d] = Overtaken(d, k, job[d].writes[k])]
      /\ job[d].phase = "mark"
      /\ ver' = [ver EXCEPT ![d][k] = job[d].applied[k]]
      /\ dirty' = [dirty EXCEPT ![d][k] = FALSE]
  BY DEF MarkClean
<1>7. /\ ver' \in [Devices -> [Records -> Nat]] /\ dirty' \in [Devices -> [Records -> BOOLEAN]]
      /\ \A i \in Records : ver'[d][i] = IF i = k THEN job[d].applied[k] ELSE ver[d][i]
      /\ \A e \in Devices \ {d} : ver'[e] = ver[e]
  BY <1>4, <1>6 DEF TypeOK
<1>8. TypeOK'
  <2>1. overtaken' \in [Devices -> SUBSET Records]  BY <1>4, <1>6, OvertakenType
  <2> QED  BY <1>2, <1>5, <1>6, <1>7, <2>1, TypeJobs DEF TypeOK
<1>9. job'[d] = j /\ \A e \in Devices \ {d} : job'[e] = job[e]  BY <1>2, <1>5, JobStep
<1>10. Reads(d) /\ Covers(d) /\ Answers(d) /\ VersionsDistinct  BY DEF PullInv
<1>11. /\ ver[d][k] < job[d].applied[k] /\ job[d].applied[k] <= items[k].version
       /\ job[d].page = <<>>
  BY <1>6, <1>10 DEF Reads, Answers
<1>12. Reads(d)'
  BY <1>5, <1>6, <1>7, <1>9, <1>10, <1>11 DEF Reads
<1>13. Covers(d)'
  <2>1. ASSUME NEW i \in Records, Knows(d, i)  PROVE Knows(d, i)'
    <3>1. items[k].version \in Nat /\ ver[d][k] \in Nat  BY <1>4 DEF TypeOK
    <3> QED  BY <1>4, <1>6, <1>7, <1>11, <2>1, <3>1 DEF Knows
  <2>2. ~Pulling(d)'  BY <1>5, <1>6, <1>9 DEF Pulling
  <2> QED  BY <1>5, <1>6, <1>9, <1>10, <2>1, <2>2 DEF Covers
<1>14. Answers(d)'
  BY <1>4, <1>5, <1>6, <1>7, <1>9, <1>10 DEF Answers
<1>15. ASSUME NEW e \in Devices, e # d  PROVE Reads(e)' /\ Covers(e)' /\ Answers(e)'
  BY <1>6, <1>7, <1>9, <1>15, OthersKnow DEF PullInv
<1>16. VersionsDistinct'  BY <1>6, <1>10 DEF VersionsDistinct
<1> QED  BY <1>8, <1>12, <1>13, <1>14, <1>15, <1>16 DEF PullInv

LEMMA QuietVars ==
  ASSUME TypeOK, PullInv, UNCHANGED vars
  PROVE  TypeOK' /\ PullInv'
<1>1. TypeOK'  BY DEF TypeOK
<1>2. VersionsDistinct'  BY DEF PullInv, VersionsDistinct
<1>3. ASSUME NEW e \in Devices  PROVE Reads(e)' /\ Covers(e)' /\ Answers(e)'
  BY OthersKnow DEF PullInv
<1> QED  BY <1>1, <1>2, <1>3 DEF PullInv

\* Every step keeps the types and the place of every pull.
LEMMA PullStep == TypeOK /\ PullInv /\ [Next]_vars => TypeOK' /\ PullInv'
<1> SUFFICES ASSUME TypeOK, PullInv, [Next]_vars  PROVE TypeOK' /\ PullInv'
  OBVIOUS
<1>1. ASSUME NEW d \in Devices, SyncStep(d)  PROVE TypeOK' /\ PullInv'
  BY <1>1, StartSyncPulls, PullPagePulls, SkipItemPulls, ApplyItemPulls, RecordVersionPulls,
     PageEndPulls, ListDirtyPulls, ReadRowPulls, PushPulls, StopPulls, MarkCleanPulls
  DEF SyncStep
<1>2. ASSUME NEW d \in Devices, ApplyFails(d) \/ PushReplyLost(d) \/ Abort(d)
      PROVE  TypeOK' /\ PullInv'
  BY <1>2, ApplyFailsPulls, PushPulls, StopPulls
<1>3. ASSUME NEW d \in Devices, NEW k \in Records, LocalEdit(d, k)  PROVE TypeOK' /\ PullInv'
  BY <1>3, LocalEditPulls
<1>4. CASE UNCHANGED vars
  BY <1>4, QuietVars
<1> QED  BY <1>1, <1>2, <1>3, <1>4 DEF Next

\* The state is of its types.
THEOREM SyncTypeCorrect == Spec => []TypeOK
<1>1. Init => TypeOK /\ PullInv  BY TypeInit, PullInit
<1> QED  BY <1>1, PullStep, PTL DEF Spec

\* The saved cursor covers what it has passed, whether or not feature code
\* holds the lock (pull, storage_sync.rs).
THEOREM CursorIsSafe == Spec => []CursorCovers
<1>1. Init => TypeOK /\ PullInv  BY TypeInit, PullInit
<1>2. PullInv => CursorCovers  BY DEF PullInv, Covers, Knows, CursorCovers
<1> QED  BY <1>1, <1>2, PullStep, PTL DEF Spec

----------------------------------------------------------------------------
(* Clean means same *)

\* A step of the sync that neither writes a row nor speaks to the server, and
\* that goes on from a job with no answer in it.
Quiet(a) ==
    /\ UNCHANGED <<items, row, ver, dirty, edits, mine, reached, overtaken>>
    /\ \A e \in Devices \ {a} : job'[e] = job[e]
    /\ job[a].phase # "meta" /\ job'[a].phase # "meta"
    /\ DOMAIN job[a].applied = {} /\ DOMAIN job'[a].applied = {}
    /\ \A k \in DOMAIN job'[a].todo :
          /\ job'[a].phase = "read"
          /\ \/ k \in DOMAIN job[a].todo /\ job'[a].todo[k] = job[a].todo[k]
             \/ dirty[a][k] /\ k \in Records /\ job'[a].todo[k] = row[a][k]
    /\ \A k \in DOMAIN job'[a].writes :
          /\ job'[a].phase = "read"
          /\ \/ k \in DOMAIN job[a].todo /\ job'[a].writes[k] \in {job[a].todo[k], row[a][k]}
             \/ k \in DOMAIN job[a].writes /\ job'[a].writes[k] = job[a].writes[k]

LEMMA QuietSteps ==
  ASSUME TypeOK, PullInv, NEW a \in Devices, RowsStand(a),
         \/ StartSync(a) \/ PullPage(a) \/ SkipItem(a) \/ ApplyFails(a)
         \/ NextPage(a) \/ EndPull(a) \/ ListDirty(a) \/ ReadRow(a) \/ EndPush(a)
  PROVE  Quiet(a)
<1>1. job \in [Devices -> Jobs] /\ job[a] \in Jobs  BY DEF TypeOK
<1>2. job[a].phase # "mark" => DOMAIN job[a].applied = {}  BY DEF PullInv, Answers
<1>3. job[a].phase \notin {"read", "mark"} => DOMAIN job[a].todo = {} /\ DOMAIN job[a].writes = {}
  BY DEF RowsStand
<1>4. CASE StartSync(a) \/ EndPush(a)
  <2>0. job'[a] = NoJob \/ job'[a] = [NoJob EXCEPT !.phase = "pull", !.at = cursor[a]]
    BY <1>1, <1>4 DEF StartSync, EndPush
  <2>1. /\ DOMAIN job'[a].todo = {} /\ DOMAIN job'[a].writes = {}
        /\ DOMAIN job'[a].applied = {} /\ job'[a].phase # "meta"
    <3>1. CASE job'[a] = NoJob  BY <3>1 DEF NoJob, NoWrites
    <3>2. CASE job'[a] = [NoJob EXCEPT !.phase = "pull", !.at = cursor[a]]
      BY <3>2 DEF NoJob, NoWrites
    <3> QED  BY <2>0, <3>1, <3>2
  <2>2. \A e \in Devices \ {a} : job'[e] = job[e]
    BY <1>1, <1>4 DEF StartSync, EndPush
  <2>3. UNCHANGED <<items, row, ver, dirty, edits, mine, reached, overtaken>> /\ DOMAIN job[a].applied = {}
        /\ job[a].phase # "meta"
    BY <1>2, <1>4 DEF StartSync, EndPush
  <2> QED  BY <2>1, <2>2, <2>3 DEF Quiet
<1>5. CASE SkipItem(a) \/ ApplyFails(a) \/ NextPage(a) \/ EndPull(a)
  <2>0. \/ job'[a] = [job[a] EXCEPT !.page = Tail(@)]
        \/ \E p \in {"pull", "push"} : job'[a] = [job[a] EXCEPT !.phase = p]
    BY <1>1, <1>5 DEF SkipItem, ApplyFails, NextPage, EndPull
  <2>1. /\ job'[a].todo = job[a].todo /\ job'[a].writes = job[a].writes
        /\ job'[a].applied = job[a].applied
        /\ job'[a].phase \in {job[a].phase, "pull", "push"}
    BY <1>1, <2>0 DEF Jobs
  <2>2. \A e \in Devices \ {a} : job'[e] = job[e]
    BY <1>1, <1>5 DEF SkipItem, ApplyFails, NextPage, EndPull
  <2>3. UNCHANGED <<items, row, ver, dirty, edits, mine, reached, overtaken>> /\ job[a].phase = "apply"
    BY <1>5 DEF SkipItem, ApplyFails, NextPage, EndPull
  <2> QED  BY <1>2, <1>3, <2>1, <2>2, <2>3 DEF Quiet
<1>6. CASE PullPage(a)
  <2>0. PICK n \in 0..PullLimit : \E ks \in [1..n -> Records] :
          job' = [job EXCEPT ![a].phase = "apply",
                             ![a].page = [i \in 1..n |-> Copy(ks[i])],
                             ![a].more = (n = PullLimit),
                             ![a].at = NextCursor([i \in 1..n |-> Copy(ks[i])], @)]
    BY <1>6 DEF PullPage
  <2>1. PICK ks \in [1..n -> Records] :
          job' = [job EXCEPT ![a].phase = "apply",
                             ![a].page = [i \in 1..n |-> Copy(ks[i])],
                             ![a].more = (n = PullLimit),
                             ![a].at = NextCursor([i \in 1..n |-> Copy(ks[i])], @)]
    BY <2>0
  <2> DEFINE p == [i \in 1..n |-> Copy(ks[i])]
             full == n = PullLimit
             at == NextCursor(p, job[a].at)
  <2>a. job' = [job EXCEPT ![a] = [job[a] EXCEPT !.phase = "apply", !.page = p, !.more = full,
                                                 !.at = at]]
    BY <1>1, <2>1
  <2> HIDE DEF p, full, at
  <2>2. /\ job'[a].todo = job[a].todo /\ job'[a].writes = job[a].writes
        /\ job'[a].applied = job[a].applied /\ job'[a].phase = "apply"
        /\ \A e \in Devices \ {a} : job'[e] = job[e]
    BY <1>1, <2>a DEF Jobs
  <2>3. UNCHANGED <<items, row, ver, dirty, edits, mine, reached, overtaken>> /\ job[a].phase = "pull"
    BY <1>6 DEF PullPage
  <2> QED  BY <1>2, <1>3, <2>2, <2>3 DEF Quiet
<1>7. CASE ListDirty(a)
  <2> DEFINE todo == [k \in DirtyRecords(a) |-> row[a][k]]
             r == [NoJob EXCEPT !.phase = "read", !.todo = todo]
  <2>1. /\ r.todo = todo /\ DOMAIN r.writes = {} /\ DOMAIN r.applied = {} /\ r.phase = "read"
        /\ DOMAIN NoJob.todo = {} /\ DOMAIN NoJob.writes = {} /\ DOMAIN NoJob.applied = {}
        /\ NoJob.phase = "idle"
    BY DEF NoJob, NoWrites
  <2>2. job'[a] \in {NoJob, r} /\ \A e \in Devices \ {a} : job'[e] = job[e]
    BY <1>1, <1>7 DEF ListDirty
  <2>3. DOMAIN todo = DirtyRecords(a) /\ \A k \in DOMAIN todo : todo[k] = row[a][k]
    OBVIOUS
  <2>4. UNCHANGED <<items, row, ver, dirty, edits, mine, reached, overtaken>> /\ job[a].phase = "push"
    BY <1>7 DEF ListDirty
  <2> HIDE DEF todo, r
  <2>5. CASE job'[a] = NoJob  BY <1>2, <2>1, <2>2, <2>4, <2>5 DEF Quiet
  <2>6. CASE job'[a] = r  BY <1>2, <2>1, <2>2, <2>3, <2>4, <2>6 DEF Quiet, DirtyRecords
  <2> QED  BY <2>2, <2>5, <2>6
<1>8. CASE ReadRow(a)
  <2> DEFINE v(k) == IF Gone(job[a].todo[k]) THEN job[a].todo[k] ELSE row[a][k]
  <2>1. PICK k \in DOMAIN job[a].todo :
          job' = [job EXCEPT ![a].todo = Forget(@, k), ![a].writes = Note(@, k, v(k))]
    BY <1>8 DEF ReadRow
  <2>v. v(k) \in {job[a].todo[k], row[a][k]}  OBVIOUS
  <2> HIDE DEF v
  <2>2. /\ job'[a].todo = Forget(job[a].todo, k)
        /\ job'[a].writes = Note(job[a].writes, k, v(k))
        /\ job'[a].phase = job[a].phase /\ job'[a].applied = job[a].applied
        /\ \A e \in Devices \ {a} : job'[e] = job[e]
    BY <1>1, <2>1 DEF Jobs
  <2>3. UNCHANGED <<items, row, ver, dirty, edits, mine, reached, overtaken>>
        /\ job[a].phase = "read"
    BY <1>8 DEF ReadRow
  <2>4. \A i \in DOMAIN job'[a].todo :
           i \in DOMAIN job[a].todo /\ job'[a].todo[i] = job[a].todo[i]
    BY <2>2 DEF Forget
  <2>5. \A i \in DOMAIN job'[a].writes :
           /\ job'[a].writes[i] = IF i = k THEN v(k) ELSE job[a].writes[i]
           /\ i # k => i \in DOMAIN job[a].writes
    BY <2>1, <2>2 DEF Note
  <2>6. \A i \in DOMAIN job'[a].writes :
           \/ i \in DOMAIN job[a].todo /\ job'[a].writes[i] \in {job[a].todo[i], row[a][i]}
           \/ i \in DOMAIN job[a].writes /\ job'[a].writes[i] = job[a].writes[i]
    BY <2>1, <2>v, <2>5
  <2>7. job'[a].phase = "read" /\ DOMAIN job[a].applied = {} /\ DOMAIN job'[a].applied = {}
    BY <1>2, <2>2, <2>3
  <2> QED  BY <2>2, <2>3, <2>4, <2>6, <2>7 DEF Quiet
<1> QED  BY <1>4, <1>5, <1>6, <1>7, <1>8

\* A device that no step touches, and whose records stand.
LEMMA OthersStand ==
  ASSUME NEW e \in Devices, RowsStand(e), UNCHANGED items,
         row'[e] = row[e], job'[e] = job[e]
  PROVE  RowsStand(e)'
  BY DEF RowsStand

LEMMA SameInit == Init => SameInv
  BY DEF Init, SameInv, CleanMeansSame, LockHolds, RowsStand, NoJob, NoWrites

LEMMA QuietSame ==
  ASSUME TypeOK, PullInv, SameInv, NEW a \in Devices, Quiet(a)
  PROVE  SameInv'
<1>1. CleanMeansSame' /\ LockHolds'  BY DEF SameInv, CleanMeansSame, LockHolds, Quiet
<1>2. RowsStand(a)'
  <2>1. RowsStand(a)  BY DEF SameInv
  <2>2. \A k \in DOMAIN job'[a].todo \ OffLock : job'[a].todo[k] = row'[a][k]
    BY <2>1 DEF Quiet, RowsStand
  <2>3. \A k \in DOMAIN job'[a].writes \ OffLock : job'[a].writes[k] = row'[a][k]
    BY <2>1 DEF Quiet, RowsStand
  <2> QED  BY <2>2, <2>3 DEF Quiet, RowsStand
<1>3. ASSUME NEW e \in Devices, e # a  PROVE RowsStand(e)'
  BY <1>3, OthersStand DEF SameInv, Quiet
<1> QED  BY <1>1, <1>2, <1>3 DEF SameInv

\* The head of the page, when it is newer, is newer than what the device knows
\* and no newer than the record.
LEMMA HeadIsNews ==
  ASSUME TypeOK, PullInv, NEW d \in Devices, job[d].page # <<>>
  PROVE  LET it == Head(job[d].page) IN
         /\ it \in PageItems /\ it.key \in Records /\ it.version \in Nat
         /\ it.version <= items[it.key].version
         /\ it.version = items[it.key].version => it.value = items[it.key].value
         /\ ver[d][it.key] \in Nat /\ items[it.key].version \in Nat
<1>1. /\ Head(job[d].page) \in PageItems /\ Head(job[d].page) = job[d].page[1]
      /\ 1 \in DOMAIN job[d].page
  BY TailOfPage
<1>2. Reads(d)  BY DEF PullInv
<1> QED  BY <1>1, <1>2 DEF Reads, PageItems, TypeOK

LEMMA ApplyItemSame ==
  ASSUME TypeOK, PullInv, SameInv, NEW d \in Devices, ApplyItem(d)
  PROVE  SameInv'
<1> DEFINE it == Head(job[d].page)
           gone == Gone(it.value) /\ Gone(row[d][it.key])
<1>1. /\ job[d].phase = "apply" /\ job[d].page # <<>> /\ Newer(d, it)
      /\ row' = [row EXCEPT ![d][it.key] = it.value]
      /\ dirty' = [dirty EXCEPT ![d][it.key] = @ \/ ~gone]
      /\ job' = [job EXCEPT ![d].phase = "meta"]
      /\ UNCHANGED <<items, ver, overtaken>>
  BY DEF ApplyItem
<1>2. /\ it.key \in Records /\ it.version \in Nat /\ it.version <= items[it.key].version
      /\ ver[d][it.key] \in Nat /\ items[it.key].version \in Nat
  BY <1>1, HeadIsNews
<1>3. ver[d][it.key] # items[it.key].version  BY <1>1, <1>2 DEF Newer
<1> HIDE DEF it, gone
<1>4. /\ \A e \in Devices, k \in Records : (e # d \/ k # it.key) =>
            row'[e][k] = row[e][k] /\ dirty'[e][k] = dirty[e][k]
      /\ row'[d][it.key] = it.value
      /\ \A e \in Devices \ {d} : row'[e] = row[e]
  BY <1>1, <1>2 DEF TypeOK
<1>5. /\ job'[d].page = job[d].page /\ job'[d].todo = job[d].todo /\ job'[d].writes = job[d].writes
      /\ job'[d].applied = job[d].applied /\ job'[d].phase = "meta"
      /\ \A e \in Devices \ {d} : job'[e] = job[e]
  BY <1>1 DEF TypeOK, Jobs
<1>6. CleanMeansSame' /\ LockHolds'
  BY <1>1, <1>2, <1>3, <1>4 DEF SameInv, CleanMeansSame, LockHolds
<1>7. RowsStand(d)'
  <2>1. /\ DOMAIN job[d].todo = {} /\ DOMAIN job[d].writes = {} /\ DOMAIN job[d].applied = {}
    BY <1>1 DEF SameInv, RowsStand, PullInv, Answers
  <2> QED  BY <1>4, <1>5, <2>1 DEF RowsStand, it
<1>8. ASSUME NEW e \in Devices, e # d  PROVE RowsStand(e)'
  BY <1>1, <1>4, <1>5, <1>8, OthersStand DEF SameInv
<1> QED  BY <1>6, <1>7, <1>8 DEF SameInv

LEMMA RecordVersionSame ==
  ASSUME TypeOK, PullInv, SameInv, NEW d \in Devices, RecordVersion(d)
  PROVE  SameInv'
<1> DEFINE it == Head(job[d].page)
<1>1. /\ job[d].phase = "meta" /\ UNCHANGED <<items, row>>
      /\ ver' = [ver EXCEPT ![d][it.key] = it.version]
      /\ dirty' = [dirty EXCEPT ![d][it.key] = FALSE]
      /\ overtaken' = [overtaken EXCEPT ![d] = Overtaken(d, it.key, it.value)]
      /\ job' = [job EXCEPT ![d].phase = "apply", ![d].page = Tail(@)]
  BY DEF RecordVersion
<1>2. /\ it.key \in Records
      /\ it.version = items[it.key].version => it.value = items[it.key].value
  <2>1. job[d].page # <<>>  BY <1>1 DEF TypeOK
  <2> QED  BY <2>1, HeadIsNews
<1>3. it.key \notin OffLock => row[d][it.key] = it.value  BY <1>1 DEF SameInv, RowsStand
<1> HIDE DEF it
<1>4. /\ \A e \in Devices, k \in Records : (e # d \/ k # it.key) =>
            ver'[e][k] = ver[e][k] /\ dirty'[e][k] = dirty[e][k]
      /\ ver'[d][it.key] = it.version
      /\ \A e \in Devices, k \in Records : (e # d \/ k # it.key) =>
            (k \in overtaken'[e] <=> k \in overtaken[e])
      /\ it.key \in overtaken'[d] <=> row[d][it.key] # it.value
  BY <1>1, <1>2 DEF TypeOK, Overtaken
<1>5. /\ job'[d].todo = job[d].todo /\ job'[d].writes = job[d].writes
      /\ job'[d].applied = job[d].applied /\ job'[d].phase = "apply"
      /\ \A e \in Devices \ {d} : job'[e] = job[e]
  BY <1>1 DEF TypeOK, Jobs
<1>6. CleanMeansSame'
  BY <1>1, <1>2, <1>4 DEF SameInv, CleanMeansSame
<1>o. LockHolds'
  <2>1. overtaken' \in [Devices -> SUBSET Records]  BY <1>1, <1>2, OvertakenType
  <2> QED  BY <1>3, <1>4, <2>1 DEF SameInv, LockHolds
<1>7. RowsStand(d)'
  <2>1. DOMAIN job[d].todo = {} /\ DOMAIN job[d].writes = {} /\ DOMAIN job[d].applied = {}
    BY <1>1 DEF SameInv, RowsStand, PullInv, Answers
  <2> QED  BY <1>5, <2>1 DEF RowsStand
<1>8. ASSUME NEW e \in Devices, e # d  PROVE RowsStand(e)'
  BY <1>1, <1>5, <1>8, OthersStand DEF SameInv
<1> QED  BY <1>6, <1>7, <1>8, <1>o DEF SameInv

LEMMA PushSame ==
  ASSUME TypeOK, PullInv, SameInv, NEW d \in Devices, Push(d) \/ PushReplyLost(d)
  PROVE  SameInv'
<1> DEFINE r == [NoJob EXCEPT !.phase = "mark", !.writes = job[d].writes,
                              !.applied = Applied(d)]
<1>1. /\ PutItems(d) /\ UNCHANGED <<row, ver, dirty, cursor, missed, overtaken>>
      /\ job' = [job EXCEPT ![d] = r] \/ job' = [job EXCEPT ![d] = NoJob]
  BY DEF Push, PushReplyLost
<1>2. /\ \A k \in Lands(d) : /\ items'[k].version = VersionOf(Lands(d), k)
                             /\ items'[k].value = job[d].writes[k]
      /\ \A k \in Records : items'[k] = items[k] \/ seq < items'[k].version
  BY <1>1, PutItemsPulls
<1>3. /\ \A k \in Records : items[k].version <= seq /\ items[k].version \in Nat
      /\ seq \in Nat
  BY DEF PullInv, VersionsDistinct, TypeOK
<1>4. /\ r.todo = NoWrites /\ r.writes = job[d].writes /\ r.applied = Applied(d) /\ r.phase = "mark"
      /\ NoJob.todo = NoWrites /\ NoJob.writes = NoWrites /\ NoJob.applied = NoWrites
      /\ NoJob.phase = "idle" /\ DOMAIN NoWrites = {}
  BY DEF NoJob, NoWrites
<1> HIDE DEF r
<1>5. /\ job'[d] \in {r, NoJob} /\ \A e \in Devices \ {d} : job'[e] = job[e]
  BY <1>1 DEF TypeOK
<1>6. CleanMeansSame'
  <2> SUFFICES ASSUME NEW e \in Devices, NEW k \in Records,
                      ~dirty[e][k], ver[e][k] = items'[k].version
               PROVE  row[e][k] = items'[k].value \/ k \in overtaken[e]
    BY <1>1 DEF CleanMeansSame
  <2>1. ver[e][k] <= items[k].version /\ ver[e][k] \in Nat  BY DEF PullInv, Reads, TypeOK
  <2>2. items'[k] = items[k]  BY <1>2, <1>3, <2>1
  <2> QED  BY <2>2 DEF SameInv, CleanMeansSame
<1>7. RowsStand(d)'
  <2>1. CASE job'[d] = NoJob  BY <1>4, <2>1 DEF RowsStand
  <2>2. CASE job'[d] = r
    <3>1. DOMAIN job'[d].applied = Lands(d) /\ job'[d].writes = job[d].writes
      BY <1>4, <2>2 DEF Applied
    <3>2. \A k \in DOMAIN job'[d].applied :
             k \in DOMAIN job'[d].writes /\ items'[k].value = job'[d].writes[k]
      BY <1>2, <3>1 DEF Lands
    <3>3. \A k \in DOMAIN job'[d].writes \ OffLock : job'[d].writes[k] = row'[d][k]
      BY <1>1, <3>1 DEF SameInv, RowsStand
    <3> QED  BY <1>4, <2>2, <3>2, <3>3 DEF RowsStand
  <2> QED  BY <1>5, <2>1, <2>2
<1>8. ASSUME NEW e \in Devices, e # d  PROVE RowsStand(e)'
  <2>1. job'[e] = job[e] /\ row'[e] = row[e]  BY <1>1, <1>5, <1>8
  <2>2. job[e].applied \in Some(Nat)  BY DEF TypeOK, Jobs
  <2>3. PICK A \in SUBSET Records : job[e].applied \in [A -> Nat]  BY <2>2 DEF Some
  <2>4. ASSUME NEW k \in DOMAIN job[e].applied, job[e].applied[k] = items'[k].version
        PROVE  items'[k] = items[k]
    <3>1. job[e].applied[k] <= items[k].version  BY DEF PullInv, Answers
    <3>2. k \in Records /\ job[e].applied[k] \in Nat  BY <2>3
    <3> QED  BY <1>2, <1>3, <2>4, <3>1, <3>2
  <2>5. RowsStand(e)  BY DEF SameInv
  <2>6. \A k \in DOMAIN job[e].applied :
           job[e].applied[k] = items'[k].version => items'[k].value = job[e].writes[k]
    BY <2>4, <2>5 DEF RowsStand
  <2> QED  BY <2>1, <2>5, <2>6 DEF RowsStand
<1>9. LockHolds'  BY <1>1 DEF SameInv, LockHolds
<1> QED  BY <1>6, <1>7, <1>8, <1>9 DEF SameInv

LEMMA MarkCleanSame ==
  ASSUME TypeOK, PullInv, SameInv, NEW d \in Devices, NEW k \in DOMAIN job[d].applied,
         MarkClean(d, k)
  PROVE  SameInv'
<1>1. /\ UNCHANGED <<items, row>> /\ job[d].phase = "mark"
      /\ ver' = [ver EXCEPT ![d][k] = job[d].applied[k]]
      /\ dirty' = [dirty EXCEPT ![d][k] = FALSE]
      /\ overtaken' = [overtaken EXCEPT ![d] = Overtaken(d, k, job[d].writes[k])]
      /\ job' = [job EXCEPT ![d].applied = Forget(@, k)]
  BY DEF MarkClean
<1>2. k \in Records
  <2>1. job[d].applied \in Some(Nat)  BY DEF TypeOK, Jobs
  <2> QED  BY <2>1 DEF Some
<1>3. /\ \A e \in Devices, i \in Records : (e # d \/ i # k) =>
            ver'[e][i] = ver[e][i] /\ dirty'[e][i] = dirty[e][i]
      /\ ver'[d][k] = job[d].applied[k]
      /\ \A e \in Devices, i \in Records : (e # d \/ i # k) =>
            (i \in overtaken'[e] <=> i \in overtaken[e])
      /\ k \in overtaken'[d] <=> row[d][k] # job[d].writes[k]
  BY <1>1, <1>2 DEF TypeOK, Overtaken
<1>4. /\ job[d].applied[k] = items[k].version => items[k].value = job[d].writes[k]
      /\ k \notin OffLock => row[d][k] = job[d].writes[k]
  BY DEF SameInv, RowsStand
<1>o. LockHolds'
  <2>1. overtaken' \in [Devices -> SUBSET Records]  BY <1>1, <1>2, OvertakenType
  <2> QED  BY <1>3, <1>4, <2>1 DEF SameInv, LockHolds
<1>5. CleanMeansSame'
  BY <1>1, <1>3, <1>4 DEF SameInv, CleanMeansSame
<1>6. /\ job'[d].todo = job[d].todo /\ job'[d].writes = job[d].writes
      /\ job'[d].applied = Forget(job[d].applied, k) /\ job'[d].phase = "mark"
      /\ \A e \in Devices \ {d} : job'[e] = job[e]
  BY <1>1 DEF TypeOK, Jobs
<1>7. \A i \in DOMAIN job'[d].applied :
         i \in DOMAIN job[d].applied /\ job'[d].applied[i] = job[d].applied[i]
  BY <1>6 DEF Forget
<1>8. RowsStand(d)'  BY <1>1, <1>6, <1>7 DEF SameInv, RowsStand
<1>9. ASSUME NEW e \in Devices, e # d  PROVE RowsStand(e)'
  BY <1>1, <1>6, <1>9, OthersStand DEF SameInv
<1> QED  BY <1>5, <1>8, <1>9, <1>o DEF SameInv

LEMMA AbortSame ==
  ASSUME TypeOK, PullInv, SameInv, NEW d \in Devices, Abort(d)
  PROVE  SameInv'
<1>1. UNCHANGED <<items, row, ver, dirty, overtaken>> /\ job' = [job EXCEPT ![d] = NoJob]
  BY DEF Abort
<1>2. job'[d] = NoJob /\ \A e \in Devices \ {d} : job'[e] = job[e]  BY <1>1 DEF TypeOK
<1>3. RowsStand(d)'  BY <1>2 DEF RowsStand, NoJob, NoWrites
<1>4. ASSUME NEW e \in Devices, e # d  PROVE RowsStand(e)'
  BY <1>1, <1>2, <1>4, OthersStand DEF SameInv
<1>5. CleanMeansSame' /\ LockHolds'  BY <1>1 DEF SameInv, CleanMeansSame, LockHolds
<1> QED  BY <1>3, <1>4, <1>5 DEF SameInv

LEMMA LocalEditSame ==
  ASSUME TypeOK, PullInv, SameInv, NEW d \in Devices, NEW k \in Records, LocalEdit(d, k)
  PROVE  SameInv'
<1>1. /\ k \in OffLock \/ job[d].phase = "idle"
      /\ UNCHANGED <<items, ver, job, overtaken>>
      /\ row' = [row EXCEPT ![d][k] = edits + 1]
      /\ dirty' = [dirty EXCEPT ![d][k] = TRUE]
  BY DEF LocalEdit, MayWrite
<1>2. /\ \A e \in Devices, i \in Records : (e # d \/ i # k) =>
            row'[e][i] = row[e][i] /\ dirty'[e][i] = dirty[e][i]
      /\ dirty'[d][k] /\ \A e \in Devices \ {d} : row'[e] = row[e]
  BY <1>1 DEF TypeOK
<1>3. CleanMeansSame' /\ LockHolds'
  BY <1>1, <1>2 DEF SameInv, CleanMeansSame, LockHolds
<1>4. RowsStand(d)'
  <2>1. RowsStand(d)  BY DEF SameInv
  <2>2. CASE job[d].phase = "idle"
    <3>1. DOMAIN job[d].todo = {} /\ DOMAIN job[d].writes = {} /\ DOMAIN job[d].applied = {}
      BY <2>1, <2>2 DEF RowsStand, PullInv, Answers
    <3> QED  BY <1>1, <2>2, <3>1 DEF RowsStand
  <2>3. CASE k \in OffLock
    <3>1. \A i \in Records \ OffLock : row'[d][i] = row[d][i]  BY <1>2, <2>3
    <3>2. DOMAIN job[d].todo \subseteq Records /\ DOMAIN job[d].writes \subseteq Records
      <4>1. job[d].todo \in Some(Edits) /\ job[d].writes \in Some(Edits)
        BY DEF TypeOK, Jobs
      <4> QED  BY <4>1 DEF Some
    <3>3. job[d].phase = "meta" => Head(job[d].page).key \in Records
      BY HeadIsNews DEF TypeOK
    <3> QED  BY <1>1, <2>1, <3>1, <3>2, <3>3 DEF RowsStand
  <2> QED  BY <1>1, <2>2, <2>3
<1>5. ASSUME NEW e \in Devices, e # d  PROVE RowsStand(e)'
  BY <1>1, <1>2, <1>5, OthersStand DEF SameInv
<1> QED  BY <1>3, <1>4, <1>5 DEF SameInv

LEMMA SameStep == TypeOK /\ PullInv /\ SameInv /\ [Next]_vars => SameInv'
<1> SUFFICES ASSUME TypeOK, PullInv, SameInv, [Next]_vars  PROVE SameInv'
  OBVIOUS
<1>1. ASSUME NEW d \in Devices, SyncStep(d) \/ ApplyFails(d)  PROVE SameInv'
  <2>1. CASE \/ StartSync(d) \/ PullPage(d) \/ SkipItem(d) \/ ApplyFails(d)
             \/ NextPage(d) \/ EndPull(d) \/ ListDirty(d) \/ ReadRow(d) \/ EndPush(d)
    BY <2>1, QuietSteps, QuietSame DEF SameInv
  <2>2. CASE \/ ApplyItem(d) \/ RecordVersion(d) \/ Push(d)
             \/ \E k \in DOMAIN job[d].applied : MarkClean(d, k)
    BY <2>2, ApplyItemSame, RecordVersionSame, PushSame, MarkCleanSame
  <2> QED  BY <1>1, <2>1, <2>2 DEF SyncStep
<1>2. ASSUME NEW d \in Devices, PushReplyLost(d) \/ Abort(d)  PROVE SameInv'
  BY <1>2, PushSame, AbortSame
<1>3. ASSUME NEW d \in Devices, NEW k \in Records, LocalEdit(d, k)  PROVE SameInv'
  BY <1>3, LocalEditSame
<1>4. CASE UNCHANGED vars
  BY <1>4 DEF SameInv, CleanMeansSame, LockHolds, RowsStand
<1> QED  BY <1>1, <1>2, <1>3, <1>4 DEF Next

\* Whatever the order of pages, applies, pushes, lost replies and aborted syncs
\* on any number of devices, and whichever writers take the lock that a sync
\* holds (run_scheduler): a row that is clean and current shows the server's
\* value or has been overtaken, which happens only to what is written without
\* the lock, and a saved cursor covers what it has passed.
THEOREM SyncIsHonest == Spec => []SyncHolds
<1>1. Init => TypeOK /\ PullInv /\ SameInv  BY TypeInit, PullInit, SameInit
<1>2. TypeOK /\ PullInv /\ SameInv /\ [Next]_vars => TypeOK' /\ PullInv' /\ SameInv'
  BY PullStep, SameStep
<1>3. PullInv /\ SameInv => SyncHolds
  BY DEF PullInv, Covers, Knows, CursorCovers, SameInv, SyncHolds
<1> QED  BY <1>1, <1>2, <1>3, PTL DEF Spec

----------------------------------------------------------------------------
(* No edit is lost, but for what overtakes *)

LEMMA EditInit == Init => EditInv
<1> SUFFICES ASSUME Init, NEW d \in Devices, NEW k \in Records  PROVE Kept(d, k)
  BY DEF EditInv
<1> QED  BY EditAssumption DEF Init, Kept, Applies, Pushes, NoJob, NoWrites

\* Edits are numbers, on the rows and in a push.
LEMMA EditsAreNumbers ==
  ASSUME TypeOK, NEW d \in Devices, NEW k \in Records
  PROVE  /\ mine[d][k] \in Nat /\ row[d][k] \in Nat /\ edits \in Nat
         /\ k \in DOMAIN job[d].todo => job[d].todo[k] \in Nat
         /\ k \in DOMAIN job[d].writes => job[d].writes[k] \in Nat
<1>1. Edits \subseteq Nat  BY EditAssumption DEF Edits
<1>2. job[d].todo \in Some(Edits) /\ job[d].writes \in Some(Edits)  BY DEF TypeOK, Jobs
<1>3. PICK T \in SUBSET Records : job[d].todo \in [T -> Edits]  BY <1>2 DEF Some
<1>4. PICK W \in SUBSET Records : job[d].writes \in [W -> Edits]  BY <1>2 DEF Some
<1>5. mine[d][k] \in Edits /\ row[d][k] \in Edits /\ edits \in Edits  BY DEF TypeOK
<1> QED  BY <1>1, <1>3, <1>4, <1>5

\* What has failed and what others have edited only grows.
LEMMA AloneBefore ==
  ASSUME TypeOK, NEW d \in Devices, NEW k \in Records, Alone(d, k)',
         faults' = faults \/ \E what \in MayFail : Fault(what),
         mine' = mine \/ \E e \in Devices, i \in Records :
                            mine' = [mine EXCEPT ![e][i] = edits + 1]
  PROVE  Alone(d, k)
<1>1. ToSet(faults) \subseteq ToSet(faults')
  <2>1. CASE faults' = faults  BY <2>1
  <2>2. ASSUME NEW what \in MayFail, Fault(what)  PROVE ToSet(faults) \subseteq ToSet(faults')
    <3>1. faults \in Seq(MayFail) /\ faults' = Append(faults, what)  BY <2>2 DEF TypeOK, Fault
    <3>2. \A i \in DOMAIN faults : i \in DOMAIN faults' /\ faults'[i] = faults[i]  BY <3>1
    <3> QED  BY <3>2 DEF ToSet
  <2> QED  BY <2>1, <2>2
<1>2. ASSUME NEW o \in Devices \ {d}, mine'[o][k] = 0  PROVE mine[o][k] = 0
  <2>1. CASE mine' = mine  BY <1>2, <2>1
  <2>2. ASSUME NEW e \in Devices, NEW i \in Records, mine' = [mine EXCEPT ![e][i] = edits + 1]
        PROVE  mine[o][k] = 0
    <3>1. edits + 1 # 0  BY EditAssumption DEF TypeOK, Edits
    <3> QED  BY <1>2, <2>2, <3>1 DEF TypeOK
  <2> QED  BY <2>1, <2>2
<1> QED  BY <1>1, <1>2 DEF Alone

\* A push that lost its reply, or a sync cut short, ends the promise.
LEMMA CutOff ==
  ASSUME TypeOK, NEW what \in {"reply", "abort"}, Fault(what), NEW d, NEW k
  PROVE  ~Alone(d, k)'
<1>1. faults \in Seq(MayFail) /\ faults' = Append(faults, what) /\ what \in MayFail
  BY DEF TypeOK, Fault
<1>2. Len(faults') \in DOMAIN faults' /\ faults'[Len(faults')] = what  BY <1>1
<1>3. what \in ToSet(faults') /\ what \notin {"apply"}  BY <1>2 DEF ToSet
<1> QED  BY <1>3 DEF Alone

\* Where k is d's own, it is at the version d knows, unless a push has just
\* been answered; so no page that d applies has it.
LEMMA NoNewsOfOwn ==
  ASSUME TypeOK, PullInv, NEW d \in Devices, NEW k \in Records, Kept(d, k),
         job[d].page # <<>>, Newer(d, Head(job[d].page)), job[d].phase = "apply"
  PROVE  Head(job[d].page).key # k
<1>1. DOMAIN job[d].applied = {}  BY DEF PullInv, Answers
<1>2. items[k].version = ver[d][k]  BY <1>1 DEF Kept
<1> QED  BY <1>2, HeadIsNews DEF Newer

LEMMA QuietEdits ==
  ASSUME TypeOK, EditInv, NEW a \in Devices, Quiet(a),
         faults' = faults \/ \E what \in MayFail : Fault(what)
  PROVE  EditInv'
<1> SUFFICES ASSUME NEW d \in Devices, NEW k \in Records, Alone(d, k)'  PROVE Kept(d, k)'
  BY DEF EditInv
<1>1. Kept(d, k)  BY AloneBefore DEF EditInv, Quiet
<1>2. CASE a = d
  <2>1. items[k].version = ver[d][k]  BY <1>1, <1>2 DEF Kept, Quiet
  <2>2. \A o \in Devices \ {d} : ~Pushes(o, k)' /\ (dirty'[o][k] => Applies(o, k)')
    BY <1>1, <1>2 DEF Kept, Quiet, Pushes, Applies
  <2>3. mine[d][k] <= mine[d][k] /\ row[d][k] = mine[d][k]
    BY <1>1, EditsAreNumbers DEF Kept
  <2>4. k \in DOMAIN job'[d].todo => job'[d].todo[k] <= mine'[d][k]
    BY <1>1, <1>2, <2>3 DEF Kept, Quiet
  <2>5. k \in DOMAIN job'[d].writes => job'[d].writes[k] <= mine'[d][k]
    BY <1>1, <1>2, <2>3 DEF Kept, Quiet
  <2>6. ~Applies(d, k)' /\ k \notin DOMAIN job'[d].applied
    BY <1>2 DEF Quiet, Applies
  <2> QED  BY <1>1, <2>1, <2>2, <2>4, <2>5, <2>6 DEF Kept, Quiet
<1>3. CASE a # d
  <2>1. ~Applies(a, k)  BY DEF Quiet, Applies
  <2>2. ~Pushes(a, k) /\ ~dirty[a][k]  BY <1>1, <1>3, <2>1 DEF Kept
  <2>3. ~Pushes(a, k)' /\ ~dirty'[a][k]  BY <2>2 DEF Quiet, Pushes
  <2>4. \A o \in Devices \ {d} : ~Pushes(o, k)' /\ (dirty'[o][k] => Applies(o, k)')
    BY <1>1, <2>3 DEF Kept, Quiet, Pushes, Applies
  <2> QED  BY <1>1, <1>3, <2>4 DEF Kept, Quiet, Applies
<1> QED  BY <1>2, <1>3

LEMMA ApplyItemEdits ==
  ASSUME TypeOK, PullInv, EditInv, NEW a \in Devices, ApplyItem(a)
  PROVE  EditInv'
<1> SUFFICES ASSUME NEW d \in Devices, NEW k \in Records, Alone(d, k)'  PROVE Kept(d, k)'
  BY DEF EditInv
<1> DEFINE it == Head(job[a].page)
           gone == Gone(it.value) /\ Gone(row[a][it.key])
<1>1. /\ job[a].phase = "apply" /\ job[a].page # <<>> /\ Newer(a, it)
      /\ row' = [row EXCEPT ![a][it.key] = it.value]
      /\ dirty' = [dirty EXCEPT ![a][it.key] = @ \/ ~gone]
      /\ job' = [job EXCEPT ![a].phase = "meta"]
      /\ UNCHANGED <<items, ver, edits, mine, reached, overtaken, faults>>
  BY DEF ApplyItem
<1>2. it.key \in Records  BY <1>1, HeadIsNews
<1>3. Kept(d, k)  BY <1>1, AloneBefore DEF EditInv
<1>4. a = d => it.key # k  BY <1>1, <1>3, NoNewsOfOwn
<1>5. /\ job'[a].page = job[a].page /\ job'[a].todo = job[a].todo /\ job'[a].writes = job[a].writes
      /\ job'[a].applied = job[a].applied /\ job'[a].phase = "meta"
      /\ \A e \in Devices \ {a} : job'[e] = job[e]
  BY <1>1 DEF TypeOK, Jobs
<1>6. Applies(a, k)' <=> it.key = k  BY <1>5 DEF Applies
<1> HIDE DEF it, gone
<1>7. \A e \in Devices : (e # a \/ k # it.key) => row'[e][k] = row[e][k] /\ dirty'[e][k] = dirty[e][k]
  BY <1>1, <1>2 DEF TypeOK
<1>8. ~Applies(a, k)  BY <1>1 DEF Applies
<1>9. \A o \in Devices \ {d} : ~Pushes(o, k)' /\ (dirty'[o][k] => Applies(o, k)')
  <2> SUFFICES ASSUME NEW o \in Devices \ {d}
               PROVE  ~Pushes(o, k)' /\ (dirty'[o][k] => Applies(o, k)')
    OBVIOUS
  <2>1. ~Pushes(o, k) /\ (dirty[o][k] => Applies(o, k))  BY <1>3 DEF Kept
  <2>2. CASE o = a  BY <1>5, <1>6, <1>7, <1>8, <2>1, <2>2 DEF Pushes
  <2>3. CASE o # a  BY <1>5, <1>7, <2>1, <2>3 DEF Pushes, Applies
  <2> QED  BY <2>2, <2>3
<1>10. row'[d][k] = row[d][k] /\ dirty'[d][k] = dirty[d][k] /\ ~Applies(d, k)'
       /\ job'[d].applied = job[d].applied /\ job'[d].todo = job[d].todo
       /\ job'[d].writes = job[d].writes
  <2>1. CASE a = d  BY <1>4, <1>5, <1>6, <1>7, <2>1
  <2>2. CASE a # d  BY <1>3, <1>5, <1>7, <2>2 DEF Kept, Applies
  <2> QED  BY <2>1, <2>2
<1> QED  BY <1>1, <1>3, <1>9, <1>10 DEF Kept

LEMMA RecordVersionEdits ==
  ASSUME TypeOK, PullInv, EditInv, NEW a \in Devices, RecordVersion(a)
  PROVE  EditInv'
<1> SUFFICES ASSUME NEW d \in Devices, NEW k \in Records, Alone(d, k)'  PROVE Kept(d, k)'
  BY DEF EditInv
<1> DEFINE it == Head(job[a].page)
<1>1. /\ job[a].phase = "meta"
      /\ ver' = [ver EXCEPT ![a][it.key] = it.version]
      /\ dirty' = [dirty EXCEPT ![a][it.key] = FALSE]
      /\ overtaken' = [overtaken EXCEPT ![a] = Overtaken(a, it.key, it.value)]
      /\ job' = [job EXCEPT ![a].phase = "apply", ![a].page = Tail(@)]
      /\ UNCHANGED <<items, row, edits, mine, reached, faults>>
  BY DEF RecordVersion
<1>2. it.key \in Records
  <2>1. job[a].page # <<>>  BY <1>1 DEF TypeOK
  <2> QED  BY <2>1, HeadIsNews
<1>3. Kept(d, k)  BY <1>1, AloneBefore DEF EditInv
<1>4. Applies(a, k) <=> it.key = k  BY <1>1 DEF Applies
<1> HIDE DEF it
<1>5. /\ job'[a].todo = job[a].todo /\ job'[a].writes = job[a].writes
      /\ job'[a].applied = job[a].applied /\ job'[a].phase = "apply"
      /\ \A e \in Devices \ {a} : job'[e] = job[e]
  BY <1>1 DEF TypeOK, Jobs
<1>6. \A e \in Devices : (e # a \/ k # it.key) =>
         /\ ver'[e][k] = ver[e][k] /\ dirty'[e][k] = dirty[e][k]
         /\ k \in overtaken'[e] <=> k \in overtaken[e]
  BY <1>1, <1>2 DEF TypeOK, Overtaken
<1>7. k = it.key => ~dirty'[a][k]  BY <1>1, <1>2 DEF TypeOK
<1>8. \A o \in Devices \ {d} : ~Pushes(o, k)' /\ (dirty'[o][k] => Applies(o, k)')
  <2> SUFFICES ASSUME NEW o \in Devices \ {d}
               PROVE  ~Pushes(o, k)' /\ (dirty'[o][k] => Applies(o, k)')
    OBVIOUS
  <2>1. ~Pushes(o, k) /\ (dirty[o][k] => Applies(o, k))  BY <1>3 DEF Kept
  <2>2. CASE o = a  BY <1>4, <1>5, <1>6, <1>7, <2>1, <2>2 DEF Pushes
  <2>3. CASE o # a  BY <1>5, <1>6, <2>1, <2>3 DEF Pushes, Applies
  <2> QED  BY <2>2, <2>3
<1>9. /\ ver'[d][k] = ver[d][k] /\ dirty'[d][k] = dirty[d][k] /\ ~Applies(d, k)'
      /\ k \in overtaken'[d] <=> k \in overtaken[d]
      /\ job'[d].applied = job[d].applied /\ job'[d].todo = job[d].todo
      /\ job'[d].writes = job[d].writes
  <2>1. CASE a = d  BY <1>3, <1>4, <1>5, <1>6, <2>1 DEF Kept, Applies
  <2>2. CASE a # d  BY <1>3, <1>5, <1>6, <2>2 DEF Kept, Applies
  <2> QED  BY <2>1, <2>2
<1> QED  BY <1>1, <1>3, <1>8, <1>9 DEF Kept

LEMMA PushEdits ==
  ASSUME TypeOK, PullInv, SameInv, EditInv, NEW a \in Devices, Push(a)
  PROVE  EditInv'
<1> SUFFICES ASSUME NEW d \in Devices, NEW k \in Records, Alone(d, k)'  PROVE Kept(d, k)'
  BY DEF EditInv
<1> DEFINE r == [NoJob EXCEPT !.phase = "mark", !.writes = job[a].writes,
                              !.applied = Applied(a)]
<1>1. /\ PutItems(a)
      /\ UNCHANGED <<row, ver, dirty, cursor, edits, mine, missed, overtaken, faults>>
      /\ job' = [job EXCEPT ![a] = r] /\ job[a].phase = "read"
  BY DEF Push, ReadyToPush
<1>2. /\ \A i \in Lands(a) : items'[i].version = VersionOf(Lands(a), i)
      /\ \A i \in Records \ Lands(a) : items'[i] = items[i]
  BY <1>1, PutItemsPulls
<1>3. reached' = reached \cup {job[a].writes[i] : i \in Lands(a)}  BY <1>1 DEF PutItems
<1>4. Kept(d, k)  BY <1>1, AloneBefore DEF EditInv
<1>5. /\ r.todo = NoWrites /\ r.writes = job[a].writes /\ r.applied = Applied(a) /\ r.phase = "mark"
      /\ DOMAIN NoWrites = {} /\ DOMAIN Applied(a) = Lands(a)
      /\ \A i \in Lands(a) : Applied(a)[i] = VersionOf(Lands(a), i)
  BY DEF NoJob, NoWrites, Applied
<1> HIDE DEF r
<1>6. /\ job'[a] = r /\ \A e \in Devices \ {a} : job'[e] = job[e]
  BY <1>1 DEF TypeOK
<1>7. Lands(a) \subseteq DOMAIN job[a].writes  BY DEF Lands
<1>8. ~Applies(a, k)  BY <1>1 DEF Applies
<1>9. \A o \in Devices \ {d} : ~Pushes(o, k)' /\ (dirty'[o][k] => Applies(o, k)')
  <2> SUFFICES ASSUME NEW o \in Devices \ {d}
               PROVE  ~Pushes(o, k)' /\ (dirty'[o][k] => Applies(o, k)')
    OBVIOUS
  <2>1. ~Pushes(o, k) /\ (dirty[o][k] => Applies(o, k))  BY <1>4 DEF Kept
  <2>2. CASE o = a  BY <1>1, <1>5, <1>6, <1>7, <1>8, <2>1, <2>2 DEF Pushes
  <2>3. CASE o # a  BY <1>1, <1>6, <2>1, <2>3 DEF Pushes, Applies
  <2> QED  BY <2>2, <2>3
<1>10. CASE a # d
  <2>1. k \notin Lands(a)  BY <1>4, <1>7, <1>10 DEF Kept, Pushes
  <2>2. items'[k] = items[k] /\ job'[d] = job[d]  BY <1>2, <1>6, <1>10, <2>1
  <2> QED  BY <1>1, <1>3, <1>4, <1>9, <2>2 DEF Kept, Applies
<1>11. CASE a = d
  <2>1. DOMAIN job[d].applied = {}  BY <1>1, <1>11 DEF PullInv, Answers
  <2>2. items[k].version = ver[d][k]  BY <1>4, <2>1 DEF Kept
  <2>3. ~Applies(d, k)'  BY <1>5, <1>6, <1>11 DEF Applies
  <2>4. CASE k \in Lands(d)
    <3>1. job[d].writes[k] \in reached'  BY <1>3, <1>11, <2>4
    <3>2. /\ k \in DOMAIN job'[d].applied /\ job'[d].applied[k] = items'[k].version
          /\ job'[d].writes = job[d].writes /\ k \notin DOMAIN job'[d].todo
      BY <1>2, <1>5, <1>6, <1>11, <2>4
    <3>3. reached \subseteq reached'  BY <1>3
    <3> QED  BY <1>1, <1>4, <1>9, <2>3, <3>1, <3>2, <3>3 DEF Kept
  <2>5. CASE k \notin Lands(d)
    <3>1. /\ items'[k] = items[k] /\ k \notin DOMAIN job'[d].applied
          /\ job'[d].writes = job[d].writes /\ k \notin DOMAIN job'[d].todo
      BY <1>2, <1>5, <1>6, <1>11, <2>5
    <3> QED  BY <1>1, <1>3, <1>4, <1>9, <2>2, <2>3, <3>1 DEF Kept
  <2> QED  BY <2>4, <2>5
<1> QED  BY <1>10, <1>11

LEMMA MarkCleanEdits ==
  ASSUME TypeOK, PullInv, EditInv, NEW a \in Devices, NEW i \in DOMAIN job[a].applied,
         MarkClean(a, i)
  PROVE  EditInv'
<1> SUFFICES ASSUME NEW d \in Devices, NEW k \in Records, Alone(d, k)'  PROVE Kept(d, k)'
  BY DEF EditInv
<1>1. /\ UNCHANGED <<items, row, edits, mine, reached, faults>> /\ job[a].phase = "mark"
      /\ ver' = [ver EXCEPT ![a][i] = job[a].applied[i]]
      /\ dirty' = [dirty EXCEPT ![a][i] = FALSE]
      /\ overtaken' = [overtaken EXCEPT ![a] = Overtaken(a, i, job[a].writes[i])]
      /\ job' = [job EXCEPT ![a].applied = Forget(@, i)]
  BY DEF MarkClean
<1>2. i \in Records /\ job[a].applied[i] \in Nat
  <2>1. job[a].applied \in Some(Nat)  BY DEF TypeOK, Jobs
  <2>2. PICK A \in SUBSET Records : job[a].applied \in [A -> Nat]  BY <2>1 DEF Some
  <2> QED  BY <2>2
<1>3. Kept(d, k)  BY <1>1, AloneBefore DEF EditInv
<1>4. /\ job'[a].todo = job[a].todo /\ job'[a].writes = job[a].writes
      /\ job'[a].applied = Forget(job[a].applied, i) /\ job'[a].phase = "mark"
      /\ \A e \in Devices \ {a} : job'[e] = job[e]
  BY <1>1 DEF TypeOK, Jobs
<1>5. /\ DOMAIN job'[a].applied = DOMAIN job[a].applied \ {i}
      /\ \A n \in DOMAIN job'[a].applied : job'[a].applied[n] = job[a].applied[n]
  BY <1>4 DEF Forget
<1>6. /\ \A e \in Devices : (e # a \/ k # i) =>
            /\ ver'[e][k] = ver[e][k] /\ dirty'[e][k] = dirty[e][k]
            /\ k \in overtaken'[e] <=> k \in overtaken[e]
      /\ k = i =>
            /\ ver'[a][k] = job[a].applied[k] /\ ~dirty'[a][k]
            /\ row[a][k] # job[a].writes[k] => k \in overtaken'[a]
  BY <1>1, <1>2 DEF TypeOK, Overtaken
<1>7. \A o \in Devices \ {d} : ~Pushes(o, k)' /\ (dirty'[o][k] => Applies(o, k)')
  <2> SUFFICES ASSUME NEW o \in Devices \ {d}
               PROVE  ~Pushes(o, k)' /\ (dirty'[o][k] => Applies(o, k)')
    OBVIOUS
  <2>1. ~Pushes(o, k) /\ (dirty[o][k] => Applies(o, k))  BY <1>3 DEF Kept
  <2>2. CASE o = a
    <3>1. ~dirty[a][k]  BY <1>1, <2>1, <2>2 DEF Applies
    <3> QED  BY <1>4, <1>5, <1>6, <2>1, <2>2, <3>1 DEF Pushes
  <2>3. CASE o # a  BY <1>4, <1>6, <2>1, <2>3 DEF Pushes, Applies
  <2> QED  BY <2>2, <2>3
<1>8. CASE a # d \/ i # k
  <2>1. /\ k \in DOMAIN job'[d].applied <=> k \in DOMAIN job[d].applied
        /\ k \in DOMAIN job'[d].applied => job'[d].applied[k] = job[d].applied[k]
        /\ job'[d].todo = job[d].todo /\ job'[d].writes = job[d].writes
    BY <1>4, <1>5, <1>8
  <2>2. ~Applies(d, k)'  BY <1>3, <1>4 DEF Kept, Applies
  <2> QED  BY <1>1, <1>3, <1>6, <1>7, <1>8, <2>1, <2>2 DEF Kept
<1>9. CASE a = d /\ i = k
  <2>1. ver[d][k] < job[d].applied[k] /\ job[d].applied[k] <= items[k].version
    BY <1>9 DEF PullInv, Answers
  <2>2. ver[d][k] \in Nat /\ items[k].version \in Nat  BY DEF TypeOK
  <2>3. job[d].applied[k] = items[k].version
    BY <1>2, <1>3, <1>9, <2>1, <2>2 DEF Kept
  <2>4. /\ ver'[d][k] = items'[k].version
        /\ mine[d][k] \in reached \cup {0} \/ k \in overtaken'[d]
    BY <1>1, <1>3, <1>6, <1>9, <2>3 DEF Kept
  <2>5. ~Applies(d, k)' /\ k \notin DOMAIN job'[d].applied
    BY <1>4, <1>5, <1>9 DEF Applies
  <2>6. job'[d].todo = job[d].todo /\ job'[d].writes = job[d].writes  BY <1>4, <1>9
  <2> QED  BY <1>1, <1>3, <1>7, <2>4, <2>5, <2>6 DEF Kept
<1> QED  BY <1>8, <1>9

LEMMA LocalEditEdits ==
  ASSUME TypeOK, PullInv, SameInv, EditInv, NEW a \in Devices, NEW i \in Records,
         LocalEdit(a, i)
  PROVE  EditInv'
<1> SUFFICES ASSUME NEW d \in Devices, NEW k \in Records, Alone(d, k)'  PROVE Kept(d, k)'
  BY DEF EditInv
<1>1. /\ UNCHANGED <<items, ver, job, reached, overtaken, faults>>
      /\ edits' = edits + 1
      /\ row' = [row EXCEPT ![a][i] = edits + 1]
      /\ dirty' = [dirty EXCEPT ![a][i] = TRUE]
      /\ mine' = [mine EXCEPT ![a][i] = edits + 1]
  BY DEF LocalEdit
<1>2. Kept(d, k)  BY <1>1, AloneBefore DEF EditInv
<1>3. edits + 1 # 0  BY EditAssumption DEF TypeOK, Edits
<1>4. /\ \A e \in Devices : (e # a \/ k # i) =>
            row'[e][k] = row[e][k] /\ dirty'[e][k] = dirty[e][k] /\ mine'[e][k] = mine[e][k]
      /\ k = i => row'[a][k] = edits + 1 /\ mine'[a][k] = edits + 1 /\ dirty'[a][k]
  BY <1>1 DEF TypeOK
<1>5. \A o \in Devices \ {d} : o # a \/ k # i
  BY <1>3, <1>4 DEF Alone
<1>6. \A o \in Devices \ {d} : ~Pushes(o, k)' /\ (dirty'[o][k] => Applies(o, k)')
  BY <1>1, <1>2, <1>4, <1>5 DEF Kept, Pushes, Applies
<1>7. ~Applies(d, k)'  BY <1>1, <1>2 DEF Kept, Applies
<1>n. /\ mine[d][k] \in Nat /\ edits \in Nat /\ mine[d][k] <= edits
      /\ k \in DOMAIN job[d].todo => job[d].todo[k] \in Nat /\ job[d].todo[k] <= mine[d][k]
      /\ k \in DOMAIN job[d].writes => job[d].writes[k] \in Nat /\ job[d].writes[k] <= mine[d][k]
  BY <1>2, EditsAreNumbers DEF Kept
<1>u. UNCHANGED <<items, ver, job, reached, overtaken>> /\ edits' = edits + 1  BY <1>1
<1>8. CASE a = d /\ i = k
  <2>1. /\ row'[d][k] = edits + 1 /\ mine'[d][k] = edits + 1 /\ dirty'[d][k]
    BY <1>4, <1>8
  <2>2. /\ k \in DOMAIN job[d].todo => job[d].todo[k] <= edits + 1
        /\ k \in DOMAIN job[d].writes =>
              job[d].writes[k] <= edits + 1 /\ job[d].writes[k] # edits + 1
    BY <1>n
  <2>3. k \in DOMAIN job[d].applied => k \in DOMAIN job[d].writes
    BY DEF SameInv, RowsStand
  <2>4. edits + 1 <= edits'  BY <1>n, <1>u
  <2>5. k \in DOMAIN job[d].applied => job[d].writes[k] # edits + 1  BY <2>2, <2>3
  <2> QED  BY <1>u, <1>2, <1>6, <1>7, <2>1, <2>2, <2>4, <2>5 DEF Kept
<1>9. CASE a # d \/ i # k
  <2>1. row'[d][k] = row[d][k] /\ dirty'[d][k] = dirty[d][k] /\ mine'[d][k] = mine[d][k]
        /\ mine[d][k] <= edits'
    BY <1>u, <1>4, <1>n, <1>9
  <2> QED  BY <1>u, <1>2, <1>6, <1>7, <2>1 DEF Kept
<1> QED  BY <1>8, <1>9

LEMMA EditStep == TypeOK /\ PullInv /\ SameInv /\ EditInv /\ [Next]_vars => EditInv'
<1> SUFFICES ASSUME TypeOK, PullInv, SameInv, EditInv, [Next]_vars  PROVE EditInv'
  OBVIOUS
<1>1. ASSUME NEW d \in Devices,
             \/ StartSync(d) \/ PullPage(d) \/ SkipItem(d) \/ ApplyFails(d)
             \/ NextPage(d) \/ EndPull(d) \/ ListDirty(d) \/ ReadRow(d) \/ EndPush(d)
      PROVE  EditInv'
  <2>1. Quiet(d)  BY <1>1, QuietSteps DEF SameInv
  <2>2. faults' = faults \/ \E what \in MayFail : Fault(what)
    BY <1>1 DEF StartSync, PullPage, SkipItem, ApplyFails, NextPage, EndPull, ListDirty,
                ReadRow, EndPush, Fault
  <2> QED  BY <2>1, <2>2, QuietEdits
<1>2. ASSUME NEW d \in Devices,
             \/ ApplyItem(d) \/ RecordVersion(d) \/ Push(d)
             \/ \E k \in DOMAIN job[d].applied : MarkClean(d, k)
      PROVE  EditInv'
  BY <1>2, ApplyItemEdits, RecordVersionEdits, PushEdits, MarkCleanEdits
<1>3. ASSUME NEW d \in Devices, PushReplyLost(d) \/ Abort(d)  PROVE EditInv'
  <2>1. \E what \in {"reply", "abort"} : Fault(what)  BY <1>3 DEF PushReplyLost, Abort
  <2> QED  BY <2>1, CutOff DEF EditInv
<1>4. ASSUME NEW d \in Devices, NEW k \in Records, LocalEdit(d, k)  PROVE EditInv'
  BY <1>4, LocalEditEdits
<1>5. CASE UNCHANGED vars
  BY <1>5 DEF EditInv, Alone, Kept, Pushes, Applies
<1> QED  BY <1>1, <1>2, <1>3, <1>4, <1>5 DEF Next, SyncStep

\* An edit of a record that no other device edits is on the server, waits to be
\* pushed or overtook the sync, as long as no push was cut off from its reply
\* (the trigger's dirty bit, and set_sync_meta_clean for what was applied).
THEOREM EditsReachTheServer == Spec => []NoEditLost
<1>1. Init => TypeOK /\ PullInv /\ SameInv /\ EditInv
  BY TypeInit, PullInit, SameInit, EditInit
<1>2. TypeOK /\ PullInv /\ SameInv /\ EditInv /\ [Next]_vars
         => TypeOK' /\ PullInv' /\ SameInv' /\ EditInv'
  BY PullStep, SameStep, EditStep
<1>3. EditInv => NoEditLost  BY DEF EditInv, Alone, Kept, NoEditLost
<1> QED  BY <1>1, <1>2, <1>3, PTL DEF Spec

----------------------------------------------------------------------------
(* Contacts *)

Steps == {"idle", "apply", "meta", "list", "push", "mark"}
Row == [curated : BOOLEAN, verdict : Nat, pending : BOOLEAN]
Versions == [version : Nat, curated : BOOLEAN, verdict : Nat]
Sync == [step : Steps, version : Nat, curated : BOOLEAN, verdict : Nat]
Gate == [step : {"none", "gated"}, curated : BOOLEAN, request : BOOLEAN]

ContactsTypeOK ==
    /\ verdicts \in Seq(BOOLEAN)
    /\ contact \in [Mine -> Row]
    /\ seen \in [Mine -> Nat] /\ unsent \in [Mine -> BOOLEAN]
    /\ record \in Versions
    /\ syncing \in [Mine -> Sync]
    /\ vouched \subseteq Mine
    /\ dms \in [Mine -> Nat]
    /\ gate \in [Mine -> Gate]
    /\ asking \subseteq Mine
    /\ keyHeld \in BOOLEAN /\ welcomed \in BOOLEAN /\ ungated \in BOOLEAN
    /\ parted \in BOOLEAN
    /\ slipped \subseteq Nat
    /\ happenings \in Nat

(* A mark of acquaintance anywhere, on a row, in the record, in a sync or   *)
(* at the gate, goes back to a gesture of the user; so does the key, or to  *)
(* something sent that no gate looks at.                                    *)
MarksAreWelcomed ==
    \/ welcomed
    \/ /\ (keyHeld => ungated) /\ ~record.curated
       /\ \A d \in Mine : ~contact[d].curated /\ ~syncing[d].curated /\ ~gate[d].curated

(* Nothing reflects a verdict that has not been given. *)
VerdictsGiven ==
    /\ record.verdict <= Len(verdicts)
    /\ \A d \in Mine : contact[d].verdict <= Len(verdicts)
                       /\ syncing[d].verdict <= Len(verdicts)

(* A device's knowledge never runs ahead of the homeserver's record, *)
VersionsPast ==
    \A d \in Mine : seen[d] <= record.version /\ syncing[d].version <= record.version

(* and the record's verdict never goes back: who pushes knew the last one.  *)
(* A sync between its statements:                                           *)
SyncInStep(d) ==
    /\ syncing[d].step \in {"apply", "meta"} => seen[d] < syncing[d].version
    /\ syncing[d].step \in {"meta", "push", "mark"} =>
          syncing[d].verdict <= contact[d].verdict
    /\ syncing[d].step \in {"apply", "meta", "mark"} =>
          /\ syncing[d].verdict <= record.verdict
          /\ syncing[d].version = record.version => syncing[d].verdict = record.verdict
    /\ syncing[d].step = "push" /\ syncing[d].version = record.version =>
          record.verdict <= syncing[d].verdict

(* A row that has seen the record is not behind it, and one that has        *)
(* nothing to push is not ahead of it, but for what slipped.                *)
RowsInStep(d) ==
    /\ seen[d] = record.version => record.verdict <= contact[d].verdict
    /\ ~unsent[d] =>
          contact[d].verdict <= record.verdict \/ contact[d].verdict \in slipped
    /\ syncing[d].step = "apply" /\ ~unsent[d] =>
          contact[d].verdict <= syncing[d].verdict \/ contact[d].verdict \in slipped

RecordsInStep == VersionsPast /\ \A d \in Mine : SyncInStep(d) /\ RowsInStep(d)

ContactsInv == ContactsTypeOK /\ MarksAreWelcomed /\ VerdictsGiven /\ RecordsInStep

----------------------------------------------------------------------------
USE DEF contactVars, contactRows, sync, inbound, gestures

LEMMA ContactsInitially ==
  ASSUME ContactsInit
  PROVE  ContactsInv
<1> USE DEF ContactsInit, NoRow, NotSyncing, NoGate
<1>1. ContactsTypeOK
  <2>1. contact \in [Mine -> Row]  BY DEF Row
  <2>2. syncing \in [Mine -> Sync]
    BY DEF Sync, Steps
  <2>3. gate \in [Mine -> Gate]  BY DEF Gate
  <2>4. record \in Versions  BY DEF Versions
  <2>5. verdicts \in Seq(BOOLEAN)  OBVIOUS
  <2>6. seen \in [Mine -> Nat] /\ dms \in [Mine -> Nat]  OBVIOUS
  <2>7. unsent \in [Mine -> BOOLEAN] OBVIOUS
  <2> QED  BY <2>1, <2>2, <2>3, <2>4, <2>5, <2>6, <2>7 DEF ContactsTypeOK
<1>2. MarksAreWelcomed /\ VerdictsGiven
  BY DEF MarksAreWelcomed, VerdictsGiven
<1>3. RecordsInStep
  BY DEF RecordsInStep, VersionsPast, SyncInStep, RowsInStep
<1> QED  BY <1>1, <1>2, <1>3 DEF ContactsInv

(* The user and the person: no step of a sync. *)

\* A block or an unblock is the newest verdict, and waits to be pushed.
LEMMA JudgeKeeps ==
  ASSUME ContactsInv, NEW d \in Mine, NEW block \in BOOLEAN, Judge(d, block)
  PROVE  ContactsInv'
<1> DEFINE new == Len(verdicts) + 1
           left == contact[d].pending /\ ~block
           upd == [contact[d] EXCEPT !.verdict = new, !.pending = left]
<1>1. ContactsInv  OBVIOUS
<1> USE DEF ContactsInv
<1>2. verdicts' \in Seq(BOOLEAN) /\ Len(verdicts') = new /\ new \in Nat /\ Len(verdicts) < new
  BY DEF Judge, ContactsTypeOK
<1>3. UNCHANGED <<seen, record, syncing, slipped, parted, vouched, dms, gate, asking,
                  keyHeld, welcomed, ungated>> /\ happenings' \in Nat
  BY DEF Judge, Happens, ContactsTypeOK
<1>4. contact' = [contact EXCEPT ![d] = upd] /\ unsent' = [unsent EXCEPT ![d] = TRUE]
  BY DEF Judge, Write
<1>5. left \in BOOLEAN  OBVIOUS
<1> HIDE DEF new, left
<1>6. /\ upd \in Row /\ upd.verdict = new
      /\ upd.curated = contact[d].curated
  BY <1>2, <1>5 DEF ContactsTypeOK, Row
<1> HIDE DEF upd
<1>7. ContactsTypeOK'
  <2>1. contact' \in [Mine -> Row] /\ unsent' \in [Mine -> BOOLEAN]
    BY <1>4, <1>6 DEF ContactsTypeOK
  <2> QED  BY <1>2, <1>3, <2>1 DEF ContactsTypeOK
<1>8. MarksAreWelcomed'
  BY <1>3, <1>4, <1>6 DEF MarksAreWelcomed, ContactsTypeOK
<1>9. VerdictsGiven'
  BY <1>2, <1>3, <1>4, <1>6 DEF VerdictsGiven, ContactsTypeOK, Versions, Row, Sync
<1>10. RecordsInStep'
  <2>1. VersionsPast'  BY <1>3 DEF RecordsInStep, VersionsPast
  <2>2. ASSUME NEW e \in Mine  PROVE SyncInStep(e)' /\ RowsInStep(e)'
    <3>1. record.verdict < new /\ syncing[e].verdict < new
      BY <1>2 DEF VerdictsGiven, ContactsTypeOK, Versions, Sync
    <3>2. contact'[d].verdict = new /\ unsent'[d]
      BY <1>4, <1>6 DEF ContactsTypeOK
    <3>3. e # d => contact'[e] = contact[e] /\ unsent'[e] = unsent[e]
      BY <1>4 DEF ContactsTypeOK
    <3>4. SyncInStep(e) /\ RowsInStep(e)  BY DEF RecordsInStep
    <3>5. record.verdict \in Nat /\ syncing[e].verdict \in Nat
      BY DEF ContactsTypeOK, Versions, Sync
    <3>6. CASE e = d
      BY <1>2, <1>3, <3>1, <3>2, <3>4, <3>5, <3>6 DEF SyncInStep, RowsInStep
    <3>7. CASE e # d
      BY <1>3, <3>3, <3>4, <3>7 DEF SyncInStep, RowsInStep
    <3> QED  BY <3>6, <3>7
  <2> QED  BY <2>1, <2>2 DEF RecordsInStep
<1> QED  BY <1>7, <1>8, <1>9, <1>10

\* A write that leaves the verdict alone.
LEMMA MarkKeeps ==
  ASSUME ContactsInv, NEW d \in Mine, NEW upd \in Row,
         upd.verdict = contact[d].verdict, upd.curated => contact[d].curated \/ welcomed',
         contact' = [contact EXCEPT ![d] = upd], unsent' = [unsent EXCEPT ![d] = TRUE],
         UNCHANGED <<verdicts, seen, record, syncing, slipped, parted, vouched, dms, gate>>,
         welcomed' \in BOOLEAN, keyHeld' \in BOOLEAN, ungated' = ungated,
         keyHeld' => keyHeld \/ welcomed', welcomed => welcomed', asking' \subseteq Mine, happenings' \in Nat
  PROVE  ContactsInv'
<1> USE DEF ContactsInv
<1>1. ContactsTypeOK'
  <2>1. contact' \in [Mine -> Row] /\ unsent' \in [Mine -> BOOLEAN]
    BY DEF ContactsTypeOK
  <2> QED  BY <2>1 DEF ContactsTypeOK
<1>2. MarksAreWelcomed'  BY DEF MarksAreWelcomed, ContactsTypeOK
<1>3. VerdictsGiven'  BY DEF VerdictsGiven, ContactsTypeOK
<1>4. RecordsInStep'
  BY DEF RecordsInStep, VersionsPast, SyncInStep, RowsInStep, ContactsTypeOK
<1> QED  BY <1>1, <1>2, <1>3, <1>4

\* What the user does to the row but for blocking, and the request recorded.
LEMMA GestureKeeps ==
  ASSUME ContactsInv, NEW d \in Mine,
         \/ (SendDm(d) \/ InviteToGroup(d)) /\ ~UNCHANGED contactRows
         \/ AcceptRequest(d) \/ SaveSharedContact(d) \/ DeleteRequest(d)
         \/ SetPendingRequest(d)
  PROVE  ContactsInv'
<1> USE DEF SendDm, InviteToGroup, AcceptRequest, SaveSharedContact, DeleteRequest,
            SetPendingRequest
<1>1. ContactsInv /\ ContactsTypeOK  BY DEF ContactsInv
<1>2. PICK upd \in Row :
        /\ upd.verdict = contact[d].verdict
        /\ upd.curated => contact[d].curated \/ welcomed'
        /\ Write(d, upd)
  BY <1>1 DEF ContactsTypeOK, Row
<1>3. UNCHANGED <<verdicts, seen, record, syncing, slipped, parted, vouched, dms, gate,
                  ungated>>
  OBVIOUS
<1>4. /\ welcomed' \in BOOLEAN /\ keyHeld' \in BOOLEAN /\ (welcomed => welcomed')
      /\ keyHeld' => keyHeld \/ welcomed'
  <2>1. keyHeld \in BOOLEAN /\ welcomed \in BOOLEAN  BY <1>1 DEF ContactsTypeOK
  <2>2. CASE SendDm(d) \/ InviteToGroup(d)  BY <2>1, <2>2
  <2>3. CASE AcceptRequest(d) \/ SaveSharedContact(d)  BY <2>1, <2>3
  <2>4. CASE DeleteRequest(d) \/ SetPendingRequest(d)  BY <2>1, <2>4
  <2> QED  BY <2>2, <2>3, <2>4
<1>5. asking' \subseteq Mine /\ happenings' \in Nat
  BY <1>1 DEF ContactsTypeOK, Happens
<1>6. contact' = [contact EXCEPT ![d] = upd] /\ unsent' = [unsent EXCEPT ![d] = TRUE]
  BY <1>2 DEF Write
<1>7. upd.verdict = contact[d].verdict /\ (upd.curated => contact[d].curated \/ welcomed')
  BY <1>2
<1> QED  BY <1>1, <1>2, <1>3, <1>4, <1>5, <1>6, <1>7, MarkKeeps

\* What is sent without a change to the row: with the key, and on a gesture,
\* past the gate, or to a sender whose mark goes back to a gesture.
LEMMA SendKeeps ==
  ASSUME ContactsInv, NEW d \in Mine, UNCHANGED contactRows,
         SendDm(d) \/ InviteToGroup(d) \/ SendUngated(d) \/ SendReadReceipt(d)
  PROVE  ContactsInv'
<1>1. ContactsTypeOK /\ MarksAreWelcomed /\ VerdictsGiven /\ RecordsInStep
  BY DEF ContactsInv
<1>2. UNCHANGED <<verdicts, contact, unsent, seen, record, syncing, slipped, parted,
                  vouched, dms, gate, asking>>
  BY DEF SendDm, InviteToGroup, SendUngated, SendReadReceipt
<1>3. /\ happenings' \in Nat /\ keyHeld' \in BOOLEAN
      /\ welcomed' \in BOOLEAN /\ ungated' \in BOOLEAN
      /\ (welcomed => welcomed') /\ (ungated => ungated')
      /\ welcomed' \/ ungated' \/ contact[d].curated
  <2>1. /\ keyHeld \in BOOLEAN /\ welcomed \in BOOLEAN /\ ungated \in BOOLEAN
        /\ happenings \in Nat
    BY <1>1 DEF ContactsTypeOK
  <2>2. CASE SendDm(d)  BY <2>1, <2>2 DEF SendDm, Happens
  <2>3. CASE InviteToGroup(d)  BY <2>1, <2>3 DEF InviteToGroup, Happens
  <2>4. CASE SendUngated(d)  BY <2>1, <2>4 DEF SendUngated, Happens
  <2>5. CASE SendReadReceipt(d)  BY <2>1, <2>5 DEF SendReadReceipt
  <2> QED  BY <2>2, <2>3, <2>4, <2>5
<1>4. ContactsTypeOK'  BY <1>1, <1>2, <1>3 DEF ContactsTypeOK
<1>5. MarksAreWelcomed'  BY <1>1, <1>2, <1>3 DEF MarksAreWelcomed
<1>6. VerdictsGiven' /\ RecordsInStep'
  BY <1>1, <1>2 DEF VerdictsGiven, RecordsInStep, VersionsPast, SyncInStep, RowsInStep
<1> QED  BY <1>4, <1>5, <1>6 DEF ContactsInv

\* Messages pass the gate; the rows and the record are left alone.
LEMMA MessageKeeps ==
  ASSUME ContactsInv,
         PersonSends \/ \E d \in Mine : SenderGate(d) \/ DeliveryReceipt(d)
  PROVE  ContactsInv'
<1>1. ContactsTypeOK /\ MarksAreWelcomed /\ VerdictsGiven /\ RecordsInStep
  BY DEF ContactsInv
<1>2. UNCHANGED <<verdicts, contact, unsent, seen, record, syncing, slipped, parted,
                  vouched, welcomed, ungated>>
  BY DEF PersonSends, SenderGate, DeliveryReceipt
<1>3. gate' \in [Mine -> Gate]
  <2>1. CASE PersonSends  BY <1>1, <2>1 DEF PersonSends, ContactsTypeOK
  <2>2. ASSUME NEW d \in Mine, SenderGate(d)  PROVE gate' \in [Mine -> Gate]
    <3>1. IsRequest(d) \in BOOLEAN  BY DEF IsRequest
    <3>2. contact[d].curated \in BOOLEAN  BY <1>1 DEF ContactsTypeOK, Row
    <3>3. [step |-> "gated", curated |-> contact[d].curated, request |-> IsRequest(d)]
             \in Gate  BY <3>1, <3>2 DEF Gate
    <3> QED  BY <1>1, <2>2, <3>3 DEF SenderGate, ContactsTypeOK
  <2>3. ASSUME NEW d \in Mine, DeliveryReceipt(d)  PROVE gate' \in [Mine -> Gate]
    <3>1. NoGate \in Gate  BY DEF NoGate, Gate
    <3> QED  BY <1>1, <2>3, <3>1 DEF DeliveryReceipt, ContactsTypeOK
  <2> QED  BY <2>1, <2>2, <2>3
<1>4. dms' \in [Mine -> Nat]
  <2>1. CASE PersonSends  BY <1>1, <2>1 DEF PersonSends, ContactsTypeOK
  <2>2. ASSUME NEW d \in Mine, SenderGate(d)  PROVE dms' \in [Mine -> Nat]
    <3>1. dms[d] - 1 \in Nat  BY <1>1, <2>2 DEF SenderGate, ContactsTypeOK
    <3>2. dms' = [dms EXCEPT ![d] = dms[d] - 1]  BY <2>2 DEF SenderGate
    <3> QED  BY <1>1, <3>1, <3>2 DEF ContactsTypeOK
  <2>3. ASSUME NEW d \in Mine, DeliveryReceipt(d)  PROVE dms' \in [Mine -> Nat]
    BY <1>1, <2>3 DEF DeliveryReceipt, ContactsTypeOK
  <2> QED  BY <2>1, <2>2, <2>3
<1>5. asking' \subseteq Mine /\ happenings' \in Nat /\ keyHeld' \in BOOLEAN
  <2>1. CASE PersonSends  BY <1>1, <2>1 DEF PersonSends, ContactsTypeOK, Happens
  <2>2. ASSUME NEW d \in Mine, SenderGate(d) \/ DeliveryReceipt(d)
        PROVE asking' \subseteq Mine /\ happenings' \in Nat /\ keyHeld' \in BOOLEAN
    BY <1>1, <2>2 DEF SenderGate, DeliveryReceipt, ContactsTypeOK
  <2> QED  BY <2>1, <2>2
<1>6. ContactsTypeOK'  BY <1>1, <1>2, <1>3, <1>4, <1>5 DEF ContactsTypeOK
<1>7. MarksAreWelcomed'
  <2>1. CASE welcomed  BY <1>2, <2>1 DEF MarksAreWelcomed
  <2> SUFFICES ASSUME ~welcomed
               PROVE  (keyHeld' => ungated') /\ \A d \in Mine : ~gate'[d].curated
    BY <1>1, <1>2, <2>1 DEF MarksAreWelcomed
  <2>2. CASE PersonSends  BY <1>1, <2>2 DEF PersonSends, MarksAreWelcomed
  <2>3. ASSUME NEW d \in Mine, SenderGate(d)
        PROVE  (keyHeld' => ungated') /\ \A e \in Mine : ~gate'[e].curated
    <3>1. CASE Blocked(d)  BY <1>1, <2>3, <3>1 DEF SenderGate, MarksAreWelcomed
    <3>2. CASE ~Blocked(d)
      <4> DEFINE asks == IsRequest(d)
      <4> HIDE DEF asks
      <4>1. gate' = [gate EXCEPT ![d] = [step |-> "gated", curated |-> contact[d].curated,
                                         request |-> asks]] /\ keyHeld' = keyHeld
        BY <2>3, <3>2 DEF SenderGate, asks
      <4>2. gate'[d].curated = contact[d].curated /\ \A e \in Mine \ {d} : gate'[e] = gate[e]
        BY <1>1, <4>1 DEF ContactsTypeOK
      <4> QED  BY <1>1, <1>2, <4>1, <4>2 DEF MarksAreWelcomed
    <3> QED  BY <3>1, <3>2
  <2>4. ASSUME NEW d \in Mine, DeliveryReceipt(d)
        PROVE  (keyHeld' => ungated') /\ \A e \in Mine : ~gate'[e].curated
    <3>1. (keyHeld => ungated) /\ \A e \in Mine : ~gate[e].curated
      BY <1>1 DEF MarksAreWelcomed
    <3>2. keyHeld' => ungated'
      <4>1. keyHeld' = (keyHeld \/ gate[d].curated)  BY <2>4 DEF DeliveryReceipt, WithKey
      <4>2. ~gate[d].curated  BY <3>1
      <4> QED  BY <1>2, <3>1, <4>1, <4>2
    <3>3. ~NoGate.curated  BY DEF NoGate
    <3>4. \A e \in Mine : gate'[e] = IF e = d THEN NoGate ELSE gate[e]
      BY <1>1, <2>4 DEF DeliveryReceipt, ContactsTypeOK
    <3> QED  BY <3>1, <3>2, <3>3, <3>4
  <2> QED  BY <2>2, <2>3, <2>4
<1>8. VerdictsGiven'  BY <1>1, <1>2 DEF VerdictsGiven
<1>9. RecordsInStep'
  BY <1>1, <1>2 DEF RecordsInStep, VersionsPast, SyncInStep, RowsInStep
<1> QED  BY <1>6, <1>7, <1>8, <1>9 DEF ContactsInv

(* The steps of a sync. *)

\* Only the sync's own record changes, to what it has read.
LEMMA ReadKeeps ==
  ASSUME ContactsInv, NEW d \in Mine, Pull(d) \/ ReadDirty(d)
  PROVE  ContactsInv'
<1>1. ContactsTypeOK /\ MarksAreWelcomed /\ VerdictsGiven /\ RecordsInStep
  BY DEF ContactsInv
<1>2. UNCHANGED <<verdicts, contact, unsent, seen, record, slipped, parted, vouched, dms,
                  gate, asking, keyHeld, welcomed, ungated, happenings>>
  BY DEF Pull, ReadDirty, KeepUser
<1>3. PICK s \in Sync :
        /\ syncing' = [syncing EXCEPT ![d] = s]
        /\ \/ /\ s.step \in {"apply", "list"} /\ s.version = record.version
              /\ s.curated = record.curated /\ s.verdict = record.verdict
              /\ s.step = "apply" => seen[d] < record.version
           \/ /\ s.step = "push" /\ s.version = seen[d]
              /\ s.curated = contact[d].curated /\ s.verdict = contact[d].verdict
              /\ unsent[d]
           \/ s = NotSyncing
  <2>1. CASE Pull(d)
    <3> DEFINE s == [step |-> IF Fresh(d) THEN "apply" ELSE "list",
                     version |-> record.version, curated |-> record.curated,
                     verdict |-> record.verdict]
    <3>1. s.step = "apply" => seen[d] < record.version
      BY <1>1 DEF Fresh, ContactsTypeOK, Versions
    <3>2. s \in Sync  BY <1>1 DEF ContactsTypeOK, Versions, Sync, Steps
    <3>3. syncing' = [syncing EXCEPT ![d] = s]  BY <2>1 DEF Pull, SyncGoes
    <3>4. s.step \in {"apply", "list"} /\ s.version = record.version
          /\ s.curated = record.curated /\ s.verdict = record.verdict
      OBVIOUS
    <3> HIDE DEF s
    <3> QED  BY <3>1, <3>2, <3>3, <3>4
  <2>2. CASE ReadDirty(d) /\ unsent[d]
    <3> DEFINE s == [step |-> "push", version |-> seen[d], curated |-> contact[d].curated,
                     verdict |-> contact[d].verdict]
    <3>1. s \in Sync  BY <1>1 DEF ContactsTypeOK, Row, Sync, Steps
    <3>2. syncing' = [syncing EXCEPT ![d] = s]  BY <2>2 DEF ReadDirty, SyncGoes
    <3>3. s.step = "push" /\ s.version = seen[d]
          /\ s.curated = contact[d].curated /\ s.verdict = contact[d].verdict
      OBVIOUS
    <3> HIDE DEF s
    <3> QED  BY <2>2, <3>1, <3>2, <3>3
  <2>3. CASE ReadDirty(d) /\ ~unsent[d]
    <3>1. NotSyncing \in Sync  BY DEF NotSyncing, Sync, Steps
    <3>2. syncing' = [syncing EXCEPT ![d] = NotSyncing]
      BY <2>3 DEF ReadDirty, SyncGoes
    <3> QED  BY <3>1, <3>2
  <2> QED  BY <2>1, <2>2, <2>3
<1>4. \A e \in Mine : syncing'[e] = IF e = d THEN s ELSE syncing[e]
  BY <1>1, <1>3 DEF ContactsTypeOK
<1>5. ContactsTypeOK'
  <2>1. syncing' \in [Mine -> Sync]  BY <1>1, <1>3 DEF ContactsTypeOK
  <2> QED  BY <1>1, <1>2, <2>1 DEF ContactsTypeOK
<1>6. MarksAreWelcomed'
  <2>1. ~NotSyncing.curated  BY DEF NotSyncing
  <2> QED  BY <1>1, <1>2, <1>3, <1>4, <2>1 DEF MarksAreWelcomed
<1>7. VerdictsGiven'
  <2>1. Len(verdicts) \in Nat  BY <1>1 DEF ContactsTypeOK
  <2>2. s.verdict <= Len(verdicts)
    BY <1>1, <1>3, <2>1 DEF VerdictsGiven, NotSyncing
  <2> QED  BY <1>1, <1>2, <1>4, <2>2 DEF VerdictsGiven
<1>8. RecordsInStep'
  <2>1. s.version <= record.version
    BY <1>1, <1>3 DEF RecordsInStep, VersionsPast, NotSyncing, ContactsTypeOK, Versions
  <2>2. VersionsPast'  BY <1>1, <1>2, <1>4, <2>1 DEF RecordsInStep, VersionsPast
  <2>3. SyncInStep(d)' /\ RowsInStep(d)'
    <3>1. syncing'[d] = s  BY <1>4
    <3>2. RowsInStep(d)  BY <1>1 DEF RecordsInStep
    <3>3. s = NotSyncing => s.step = "idle"  BY DEF NotSyncing
    <3> QED
      BY <1>1, <1>2, <1>3, <3>1, <3>2, <3>3
      DEF SyncInStep, RowsInStep, ContactsTypeOK, Versions, Row
  <2>4. ASSUME NEW e \in Mine, e # d  PROVE SyncInStep(e)' /\ RowsInStep(e)'
    BY <1>1, <1>2, <1>4, <2>4 DEF RecordsInStep, SyncInStep, RowsInStep
  <2> QED  BY <2>2, <2>3, <2>4 DEF RecordsInStep
<1> QED  BY <1>5, <1>6, <1>7, <1>8 DEF ContactsInv

\* The record is taken over: the mark is kept, the verdict overwritten.
LEMMA ApplyKeeps ==
  ASSUME ContactsInv, NEW d \in Mine, ApplySyncedContact(d)
  PROVE  ContactsInv'
<1>1. ContactsTypeOK /\ MarksAreWelcomed /\ VerdictsGiven /\ RecordsInStep
  BY DEF ContactsInv
<1>2. UNCHANGED <<verdicts, seen, record, slipped, vouched, dms, gate, asking, keyHeld,
                  welcomed, ungated, happenings>>
  BY DEF ApplySyncedContact, KeepUser
<1>3. PICK upd \in Row :
        /\ contact' = [contact EXCEPT ![d] = upd]
        /\ upd.verdict = syncing[d].verdict
        /\ upd.curated => contact[d].curated \/ syncing[d].curated
  <2> DEFINE mark == contact[d].curated \/ syncing[d].curated
             upd == [contact[d] EXCEPT !.curated = mark, !.verdict = syncing[d].verdict]
  <2>1. contact' = [contact EXCEPT ![d] = upd]
    BY DEF ApplySyncedContact, Write, Merged
  <2>2. mark \in BOOLEAN  OBVIOUS
  <2>3. mark => contact[d].curated \/ syncing[d].curated  OBVIOUS
  <2> HIDE DEF mark
  <2>4. upd \in Row /\ upd.verdict = syncing[d].verdict /\ upd.curated = mark
    BY <1>1, <2>2 DEF ContactsTypeOK, Row, Sync
  <2> HIDE DEF upd
  <2> QED  BY <2>1, <2>3, <2>4
<1>4. /\ syncing[d].step = "apply"
      /\ \A e \in Mine : syncing'[e] =
            IF e = d THEN [syncing[d] EXCEPT !.step = "meta"] ELSE syncing[e]
      /\ syncing' \in [Mine -> Sync]
      /\ unsent' = [unsent EXCEPT ![d] = TRUE]
  BY <1>1 DEF ApplySyncedContact, SyncGoes, Write, ContactsTypeOK, Sync, Steps
<1>5. /\ \A e \in Mine : contact'[e] = IF e = d THEN upd ELSE contact[e]
      /\ \A e \in Mine : unsent'[e] = IF e = d THEN TRUE ELSE unsent[e]
  BY <1>1, <1>3, <1>4 DEF ContactsTypeOK
<1>6. /\ syncing'[d].step = "meta" /\ syncing'[d].version = syncing[d].version
      /\ syncing'[d].curated = syncing[d].curated
      /\ syncing'[d].verdict = syncing[d].verdict
  BY <1>1, <1>4 DEF ContactsTypeOK, Sync
<1>7. ContactsTypeOK'
  <2>1. contact' \in [Mine -> Row] /\ unsent' \in [Mine -> BOOLEAN]
    BY <1>1, <1>3, <1>4 DEF ContactsTypeOK
  <2>2. parted' \in BOOLEAN  BY DEF ApplySyncedContact
  <2> QED  BY <1>1, <1>2, <1>4, <2>1, <2>2 DEF ContactsTypeOK
<1>8. MarksAreWelcomed'
  BY <1>1, <1>2, <1>3, <1>4, <1>5, <1>6 DEF MarksAreWelcomed
<1>9. VerdictsGiven'
  BY <1>1, <1>2, <1>3, <1>4, <1>5, <1>6 DEF VerdictsGiven
<1>10. RecordsInStep'
  <2>1. VersionsPast'
    BY <1>1, <1>2, <1>4, <1>6 DEF RecordsInStep, VersionsPast
  <2>2. SyncInStep(d)' /\ RowsInStep(d)'
    <3>1. SyncInStep(d)  BY <1>1 DEF RecordsInStep
    <3>2. seen[d] # record.version
      BY <1>1, <1>4, <3>1
      DEF SyncInStep, RecordsInStep, VersionsPast, ContactsTypeOK, Versions, Sync
    <3>3. syncing[d].verdict \in Nat  BY <1>1 DEF ContactsTypeOK, Sync
    <3> QED
      BY <1>2, <1>3, <1>4, <1>5, <1>6, <3>1, <3>2, <3>3 DEF SyncInStep, RowsInStep
  <2>3. ASSUME NEW e \in Mine, e # d  PROVE SyncInStep(e)' /\ RowsInStep(e)'
    BY <1>1, <1>2, <1>4, <1>5, <2>3 DEF RecordsInStep, SyncInStep, RowsInStep
  <2> QED  BY <2>1, <2>2, <2>3 DEF RecordsInStep
<1> QED  BY <1>7, <1>8, <1>9, <1>10 DEF ContactsInv

\* The row counts as exchanged; what was written to it since has slipped.
LEMMA ExchangeKeeps ==
  ASSUME ContactsInv, NEW d \in Mine, SetSyncMeta(d) \/ SetSyncMetaClean(d)
  PROVE  ContactsInv'
<1>1. ContactsTypeOK /\ MarksAreWelcomed /\ VerdictsGiven /\ RecordsInStep
  BY DEF ContactsInv
<1>2. UNCHANGED <<verdicts, contact, record, vouched, dms, gate, asking, keyHeld, welcomed,
                  ungated, happenings>>
  BY DEF SetSyncMeta, SetSyncMetaClean, KeepUser
<1>3. /\ syncing[d].step \in {"meta", "mark"} /\ Exchanged(d)
      /\ \E s \in Sync :
            /\ syncing' = [syncing EXCEPT ![d] = s] /\ s.step \in {"idle", "list"}
            /\ s = NotSyncing \/ s = [syncing[d] EXCEPT !.step = "list"]
  <2>1. NotSyncing \in Sync /\ NotSyncing.step = "idle"
    BY DEF NotSyncing, Sync, Steps
  <2>2. [syncing[d] EXCEPT !.step = "list"] \in Sync
        /\ [syncing[d] EXCEPT !.step = "list"].step = "list"
    BY <1>1 DEF ContactsTypeOK, Sync, Steps
  <2>3. CASE SetSyncMeta(d)  BY <2>2, <2>3 DEF SetSyncMeta, SyncGoes
  <2>4. CASE SetSyncMetaClean(d)  BY <2>1, <2>4 DEF SetSyncMetaClean, SyncGoes
  <2> QED  BY <2>3, <2>4
<1>4. PICK s \in Sync :
        /\ syncing' = [syncing EXCEPT ![d] = s] /\ s.step \in {"idle", "list"}
        /\ s = NotSyncing \/ s = [syncing[d] EXCEPT !.step = "list"]
  BY <1>3
<1>5. /\ s.version <= record.version /\ s.verdict <= Len(verdicts)
      /\ s.curated => syncing[d].curated
  <2>1. /\ NotSyncing.version = 0 /\ NotSyncing.verdict = 0 /\ NotSyncing.curated = FALSE
    BY DEF NotSyncing
  <2>2. LET n == [syncing[d] EXCEPT !.step = "list"]
        IN  /\ n.version = syncing[d].version /\ n.verdict = syncing[d].verdict
            /\ n.curated = syncing[d].curated
    BY <1>1 DEF ContactsTypeOK, Sync
  <2>3. record.version \in Nat /\ Len(verdicts) \in Nat
    BY <1>1 DEF ContactsTypeOK, Versions
  <2>4. syncing[d].version <= record.version /\ syncing[d].verdict <= Len(verdicts)
    BY <1>1 DEF RecordsInStep, VersionsPast, VerdictsGiven
  <2>5. CASE s = NotSyncing  BY <2>1, <2>3, <2>5
  <2>6. CASE s = [syncing[d] EXCEPT !.step = "list"]  BY <2>2, <2>4, <2>6
  <2> QED  BY <1>4, <2>5, <2>6
<1>6. /\ \A e \in Mine : syncing'[e] = IF e = d THEN s ELSE syncing[e]
      /\ \A e \in Mine : seen'[e] = IF e = d THEN syncing[d].version ELSE seen[e]
      /\ \A e \in Mine : unsent'[e] = IF e = d THEN FALSE ELSE unsent[e]
  BY <1>1, <1>3, <1>4 DEF Exchanged, ContactsTypeOK
<1>7. /\ slipped \subseteq slipped'
      /\ contact[d].verdict = syncing[d].verdict \/ contact[d].verdict \in slipped'
  BY <1>3 DEF Exchanged
<1>8. ContactsTypeOK'
  <2>1. contact[d].verdict \in Nat /\ syncing[d].version \in Nat
    BY <1>1 DEF ContactsTypeOK, Row, Sync
  <2>2. /\ seen' \in [Mine -> Nat] /\ unsent' \in [Mine -> BOOLEAN]
        /\ syncing' \in [Mine -> Sync] /\ slipped' \subseteq Nat
    BY <1>1, <1>3, <1>4, <2>1 DEF Exchanged, ContactsTypeOK
  <2>3. parted' \in BOOLEAN  BY <1>3 DEF Exchanged
  <2> QED  BY <1>1, <1>2, <2>2, <2>3 DEF ContactsTypeOK
<1>9. MarksAreWelcomed'  BY <1>1, <1>2, <1>5, <1>6 DEF MarksAreWelcomed
<1>10. VerdictsGiven'  BY <1>1, <1>2, <1>5, <1>6 DEF VerdictsGiven
<1>11. RecordsInStep'
  <2>1. VersionsPast'
    BY <1>1, <1>2, <1>5, <1>6 DEF RecordsInStep, VersionsPast
  <2>2. SyncInStep(d)' /\ RowsInStep(d)'
    <3>1. SyncInStep(d)  BY <1>1 DEF RecordsInStep
    <3>2. syncing[d].verdict <= record.verdict /\ syncing[d].verdict <= contact[d].verdict
      BY <1>3, <3>1 DEF SyncInStep
    <3>3. syncing[d].version = record.version => syncing[d].verdict = record.verdict
      BY <1>3, <3>1 DEF SyncInStep
    <3> QED
      BY <1>2, <1>4, <1>6, <1>7, <3>2, <3>3 DEF SyncInStep, RowsInStep
  <2>3. ASSUME NEW e \in Mine, e # d  PROVE SyncInStep(e)' /\ RowsInStep(e)'
    <3>1. /\ syncing'[e] = syncing[e] /\ seen'[e] = seen[e] /\ unsent'[e] = unsent[e]
          /\ contact' = contact /\ record' = record
      BY <1>2, <1>6, <2>3
    <3>2. SyncInStep(e) /\ RowsInStep(e)  BY <1>1 DEF RecordsInStep
    <3>3. slipped \subseteq slipped'  BY <1>7
    <3> QED  BY <3>1, <3>2, <3>3 DEF SyncInStep, RowsInStep
  <2> QED  BY <2>1, <2>2, <2>3 DEF RecordsInStep
<1> QED  BY <1>8, <1>9, <1>10, <1>11 DEF ContactsInv

\* The homeserver takes a record at the expected version only, so whoever
\* pushes has seen the last verdict pushed.
LEMMA PushKeeps ==
  ASSUME ContactsInv, NEW d \in Mine, PushRecord(d)
  PROVE  ContactsInv'
<1>1. ContactsTypeOK /\ MarksAreWelcomed /\ VerdictsGiven /\ RecordsInStep
  BY DEF ContactsInv
<1>2. UNCHANGED <<verdicts, contact, unsent, seen, slipped, parted, vouched, dms, gate, asking,
                  keyHeld, welcomed, ungated, happenings>>
  BY DEF PushRecord, KeepUser
<1>3. CASE AtExpected(d)
  <2> DEFINE next == record.version + 1
             item == [version |-> next, curated |-> syncing[d].curated,
                      verdict |-> syncing[d].verdict]
             s == [syncing[d] EXCEPT !.step = "mark", !.version = next]
  <2>1. record' = item /\ syncing' = [syncing EXCEPT ![d] = s]
    BY <1>3 DEF PushRecord, SyncGoes
  <2>2. next \in Nat /\ record.version < next
    BY <1>1 DEF ContactsTypeOK, Versions
  <2> HIDE DEF next
  <2>3. item \in Versions /\ item.version = next /\ item.curated = syncing[d].curated
        /\ item.verdict = syncing[d].verdict
    BY <1>1, <2>2 DEF ContactsTypeOK, Versions, Sync
  <2>4. s \in Sync /\ s.version = next /\ s.curated = syncing[d].curated
        /\ s.verdict = syncing[d].verdict /\ s.step = "mark"
    BY <1>1, <2>2 DEF ContactsTypeOK, Sync, Steps
  <2> HIDE DEF item, s
  <2>5. \A e \in Mine : syncing'[e] = IF e = d THEN s ELSE syncing[e]
    BY <1>1, <2>1 DEF ContactsTypeOK
  <2>6. ContactsTypeOK'
    <3>1. syncing' \in [Mine -> Sync]  BY <1>1, <2>1, <2>4 DEF ContactsTypeOK
    <3> QED  BY <1>1, <1>2, <2>1, <2>3, <3>1 DEF ContactsTypeOK
  <2>7. MarksAreWelcomed'
    BY <1>1, <1>2, <2>1, <2>3, <2>4, <2>5 DEF MarksAreWelcomed
  <2>8. VerdictsGiven'
    BY <1>1, <1>2, <2>1, <2>3, <2>4, <2>5 DEF VerdictsGiven
  <2>9. RecordsInStep'
    <3>1. SyncInStep(d)  BY <1>1 DEF RecordsInStep
    <3>2. record.verdict <= syncing[d].verdict /\ syncing[d].verdict <= contact[d].verdict
      BY <1>3, <3>1 DEF PushRecord, AtExpected, SyncInStep
    <3>3. \A e \in Mine : seen[e] < next /\ syncing[e].version < next
      BY <1>1, <2>2
      DEF RecordsInStep, VersionsPast, ContactsTypeOK, Versions, Sync
    <3>4. record'.version = next /\ record'.verdict = syncing[d].verdict
      BY <2>1, <2>3
    <3>5. VersionsPast'
      <4>1. \A e \in Mine : seen'[e] <= next
        BY <1>1, <1>2, <2>2, <3>3 DEF ContactsTypeOK
      <4>2. \A e \in Mine : syncing'[e].version <= next
        <5>1. syncing'[d].version = next  BY <2>4, <2>5
        <5>2. \A e \in Mine : syncing[e].version \in Nat
          BY <1>1 DEF ContactsTypeOK, Sync
        <5> QED  BY <2>2, <2>5, <3>3, <5>1, <5>2
      <4> QED  BY <3>4, <4>1, <4>2 DEF VersionsPast
    <3>6. ASSUME NEW e \in Mine  PROVE SyncInStep(e)' /\ RowsInStep(e)'
      <4>1. SyncInStep(e) /\ RowsInStep(e)  BY <1>1 DEF RecordsInStep
      <4>2. /\ record.verdict \in Nat /\ syncing[d].verdict \in Nat
            /\ syncing[e].verdict \in Nat /\ contact[e].verdict \in Nat
            /\ seen[e] \in Nat /\ syncing[e].version \in Nat
        BY <1>1 DEF ContactsTypeOK, Versions, Sync, Row
      <4>3. RowsInStep(e)'
        BY <1>2, <2>2, <2>4, <2>5, <3>2, <3>3, <3>4, <4>1, <4>2 DEF RowsInStep
      <4>4. SyncInStep(e)'
        <5>1. CASE e = d
          BY <1>2, <2>2, <2>4, <2>5, <3>2, <3>4, <4>2, <5>1 DEF SyncInStep
        <5>2. CASE e # d
          BY <1>2, <2>2, <2>5, <3>2, <3>3, <3>4, <4>1, <4>2, <5>2 DEF SyncInStep
        <5> QED  BY <5>1, <5>2
      <4> QED  BY <4>3, <4>4
    <3> QED  BY <3>5, <3>6 DEF RecordsInStep
  <2> QED  BY <2>6, <2>7, <2>8, <2>9 DEF ContactsInv
<1>4. CASE ~AtExpected(d)
  <2>1. record' = record /\ syncing' = [syncing EXCEPT ![d] = NotSyncing]
    BY <1>4 DEF PushRecord, SyncGoes
  <2>2. NotSyncing \in Sync /\ NotSyncing.step = "idle" /\ NotSyncing.version = 0
        /\ NotSyncing.curated = FALSE /\ NotSyncing.verdict = 0
    BY DEF NotSyncing, Sync, Steps
  <2>3. \A e \in Mine : syncing'[e] = IF e = d THEN NotSyncing ELSE syncing[e]
    BY <1>1, <2>1 DEF ContactsTypeOK
  <2>4. ContactsTypeOK'
    <3>1. syncing' \in [Mine -> Sync]  BY <1>1, <2>1, <2>2 DEF ContactsTypeOK
    <3> QED  BY <1>1, <1>2, <2>1, <3>1 DEF ContactsTypeOK
  <2>5. MarksAreWelcomed'  BY <1>1, <1>2, <2>1, <2>2, <2>3 DEF MarksAreWelcomed
  <2>6. VerdictsGiven'
    BY <1>1, <1>2, <2>1, <2>2, <2>3 DEF VerdictsGiven, ContactsTypeOK
  <2>7. RecordsInStep'
    BY <1>1, <1>2, <2>1, <2>2, <2>3
    DEF RecordsInStep, VersionsPast, SyncInStep, RowsInStep, ContactsTypeOK, Versions
  <2> QED  BY <2>4, <2>5, <2>6, <2>7 DEF ContactsInv
<1> QED  BY <1>3, <1>4

LEMMA ContactsStep == ContactsInv /\ [ContactsNext]_contactVars => ContactsInv'
<1> SUFFICES ASSUME ContactsInv, [ContactsNext]_contactVars  PROVE ContactsInv'
  OBVIOUS
<1>1. CASE UNCHANGED contactVars
  BY <1>1
  DEF ContactsInv, ContactsTypeOK, MarksAreWelcomed, VerdictsGiven, RecordsInStep,
      VersionsPast, SyncInStep, RowsInStep
<1>2. CASE PersonSends  BY <1>2, MessageKeeps
<1>3. ASSUME NEW d \in Mine,
             BlockContact(d) \/ UnblockContact(d) \/ ReportAndBlock(d)
      PROVE  ContactsInv'
  BY <1>3, JudgeKeeps DEF BlockContact, UnblockContact, ReportAndBlock
<1>4. ASSUME NEW d \in Mine,
             \/ SendDm(d) \/ SendUngated(d) \/ SendReadReceipt(d) \/ InviteToGroup(d)
             \/ AcceptRequest(d) \/ SaveSharedContact(d) \/ DeleteRequest(d)
             \/ SetPendingRequest(d)
      PROVE  ContactsInv'
  <2>1. CASE UNCHANGED contactRows /\ ( \/ SendDm(d) \/ InviteToGroup(d)
                                       \/ SendUngated(d) \/ SendReadReceipt(d) )
    BY <2>1, SendKeeps
  <2>2. ASSUME SendUngated(d) \/ SendReadReceipt(d)  PROVE UNCHANGED contactRows
    BY <2>2 DEF SendUngated, SendReadReceipt
  <2> QED  BY <1>4, <2>1, <2>2, GestureKeeps
<1>5. ASSUME NEW d \in Mine, SenderGate(d) \/ DeliveryReceipt(d)  PROVE ContactsInv'
  BY <1>5, MessageKeeps
<1>6. ASSUME NEW d \in Mine, SyncContact(d)  PROVE ContactsInv'
  BY <1>6, ReadKeeps, ApplyKeeps, ExchangeKeeps, PushKeeps DEF SyncContact
<1> QED  BY <1>1, <1>2, <1>3, <1>4, <1>5, <1>6 DEF ContactsNext

(* The rows, the record and the syncs keep their types, for any devices.    *)
THEOREM ContactsTypeCorrect == ContactsSpec => []ContactsTypeOK
<1>1. ContactsInv => ContactsTypeOK  BY DEF ContactsInv
<1> QED  BY <1>1, ContactsInitially, ContactsStep, PTL DEF ContactsSpec

(* The profile key is never sent on the program's own account: the user has *)
(* written to the person, accepted, invited or saved them, or has sent what *)
(* no gate looks at, whichever device did it and however the mark came      *)
(* round by storage sync (delivery_receipt, send_to_target, ContactAdapter).*)
THEOREM KeyNeedsGesture == ContactsSpec => []KeyOnlyByGesture
<1>1. ContactsInv => KeyOnlyByGesture
  BY DEF ContactsInv, MarksAreWelcomed, KeyOnlyByGesture
<1> QED  BY <1>1, ContactsInitially, ContactsStep, PTL DEF ContactsSpec

(* A device that goes back on a block, or on its lifting, takes over a      *)
(* record pushed without knowing of it: its verdict was still to be pushed, *)
(* or had slipped past a sync (apply_synced_contact, put_item).             *)
THEOREM RacesOnlyForget == ContactsSpec => OnlyRacesForget
<1> DEFINE HeldOver == \A d \in Mine :
                contact'[d].verdict < contact[d].verdict =>
                    unsent[d] \/ contact[d].verdict \in slipped
<1>1. ASSUME ContactsInv, [ContactsNext]_contactVars  PROVE [HeldOver]_contactVars
  <2>1. ContactsTypeOK /\ VerdictsGiven /\ RecordsInStep  BY <1>1 DEF ContactsInv
  <2> SUFFICES ASSUME NEW d \in Mine, contact'[d].verdict < contact[d].verdict
               PROVE  unsent[d] \/ contact[d].verdict \in slipped
    OBVIOUS
  <2>2. ApplySyncedContact(d)
    <3>1. contact[d] \in Row /\ Len(verdicts) \in Nat /\ contact[d].verdict \in Nat
          /\ contact[d].verdict <= Len(verdicts)
      BY <2>1 DEF ContactsTypeOK, VerdictsGiven, Row
    <3>2. contact'[d] # contact[d]  BY <3>1
    <3>3. ASSUME NEW e \in Mine, NEW upd, Write(e, upd)
          PROVE  e = d /\ upd = contact'[d]
      BY <2>1, <3>2, <3>3 DEF Write, ContactsTypeOK
    <3>4. ~UNCHANGED contact  BY <3>2
    <3>5. PICK e \in Mine :
            \/ BlockContact(e) \/ UnblockContact(e) \/ ReportAndBlock(e)
            \/ SendDm(e) \/ InviteToGroup(e)
            \/ AcceptRequest(e) \/ SaveSharedContact(e) \/ DeleteRequest(e)
            \/ SetPendingRequest(e) \/ ApplySyncedContact(e)
      <4>1. ContactsNext /\ ~PersonSends  BY <1>1, <3>4 DEF PersonSends
      <4>2. ASSUME NEW e \in Mine, \/ SendUngated(e) \/ SendReadReceipt(e)
                                   \/ SenderGate(e) \/ DeliveryReceipt(e)
            PROVE  FALSE
        BY <3>4, <4>2 DEF SendUngated, SendReadReceipt, SenderGate, DeliveryReceipt
      <4>3. ASSUME NEW e \in Mine, SyncContact(e)  PROVE ApplySyncedContact(e)
        BY <3>4, <4>3
        DEF SyncContact, Pull, SetSyncMeta, ReadDirty, PushRecord, SetSyncMetaClean
      <4> QED  BY <4>1, <4>2, <4>3 DEF ContactsNext
    <3>6. ASSUME NEW block \in BOOLEAN, Judge(e, block)  PROVE FALSE
      <4> DEFINE left == contact[e].pending /\ ~block
                 upd == [contact[e] EXCEPT !.verdict = Len(verdicts) + 1, !.pending = left]
      <4>1. Write(e, upd)  BY <3>6 DEF Judge
      <4> HIDE DEF left
      <4>2. upd.verdict = Len(verdicts) + 1  BY <2>1 DEF ContactsTypeOK, Row
      <4> HIDE DEF upd
      <4> QED  BY <3>1, <3>3, <4>1, <4>2
    <3>7. ASSUME \/ SendDm(e) \/ InviteToGroup(e)
                 \/ AcceptRequest(e) \/ SaveSharedContact(e) \/ DeleteRequest(e)
                 \/ SetPendingRequest(e)
          PROVE  FALSE
      <4>1. contact[e] \in Row  BY <2>1 DEF ContactsTypeOK
      <4>2. PICK upd : Write(e, upd) /\ upd.verdict = contact[e].verdict
        <5>1. CASE SendDm(e) \/ InviteToGroup(e)
          BY <3>4, <4>1, <5>1 DEF SendDm, InviteToGroup, Row
        <5>2. CASE AcceptRequest(e)
          <6> DEFINE upd == [contact[e] EXCEPT !.curated = TRUE, !.pending = FALSE]
          <6>1. Write(e, upd)  BY <5>2 DEF AcceptRequest
          <6>2. upd.verdict = contact[e].verdict  BY <4>1 DEF Row
          <6> QED  BY <6>1, <6>2
        <5>3. CASE SaveSharedContact(e)  BY <4>1, <5>3 DEF SaveSharedContact, Row
        <5>4. CASE DeleteRequest(e)  BY <4>1, <5>4 DEF DeleteRequest, Row
        <5>5. CASE SetPendingRequest(e)  BY <4>1, <5>5 DEF SetPendingRequest, Row
        <5> QED  BY <3>7, <5>1, <5>2, <5>3, <5>4, <5>5
      <4> QED  BY <3>1, <3>3, <4>2
    <3>8. ApplySyncedContact(e) /\ e = d
      <4>1. ApplySyncedContact(e)
        BY <3>5, <3>6, <3>7 DEF BlockContact, UnblockContact, ReportAndBlock
      <4> QED  BY <3>3, <4>1 DEF ApplySyncedContact
    <3> QED  BY <3>8
  <2>3. contact'[d].verdict = syncing[d].verdict /\ syncing[d].step = "apply"
    <3>1. Merged(d).verdict = syncing[d].verdict
      BY <2>1 DEF Merged, ContactsTypeOK, Row
    <3> QED  BY <2>1, <2>2, <3>1 DEF ApplySyncedContact, Write, ContactsTypeOK
  <2> QED
    BY <2>1, <2>3 DEF RecordsInStep, RowsInStep, ContactsTypeOK, Row, Sync
<1> QED
  BY <1>1, ContactsInitially, ContactsStep, PTL DEF ContactsSpec, OnlyRacesForget
=============================================================================
