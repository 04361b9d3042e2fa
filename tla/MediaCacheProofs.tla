-------------------------- MODULE MediaCacheProofs --------------------------
(***************************************************************************)
(* For any number of requests, keys and pieces: a file at rest is whole    *)
(* unless it is known to be damaged, a pass leaves what it saw within the  *)
(* lifetime and the cap, it removes the oldest file first, and a body      *)
(* stays in memory for as long as it has been asked for.                   *)
(***************************************************************************)
EXTENDS MediaCache, FiniteProofs

Phases == {"sleep", "stat", "remove"}

RotRec == [phase : Phases, todo : SUBSET Keys, victim : Keys \cup {None},
           kept : UNION {[K -> Seen] : K \in SUBSET Keys}]

\* A request has its key from Arrive on, and the first piece and no file until
\* it opens one; it writes one of the pieces.
StepOK(q) ==
  /\ q.step # "idle" => q.key \in Keys
  /\ q.step \in {"idle", "memory", "file", "fetch", "create"} =>
       q.pos = 1 /\ ~q.linked
  /\ q.step = "write" => q.pos \in Whole

ReqOK == req \in [Reqs -> RequestRec] /\ \A r \in Reqs : StepOK(req[r])

\* A piece that an undamaged file lacks is still to be written by a request
\* that has the file open by its name.
Covered ==
  \A k \in OnDisk \ damaged : \A i \in Whole :
    i \in files[k].parts \/ \E r \in Writing(k) : req[r].pos <= i

\* A file that a pass has looked at: rewritten since, or kept, no older than
\* when it was seen, and within its lifetime.
Settled(k) ==
  \/ files[k].age = 0
  \/ k \in Kept /\ files[k].age <= rot.kept[k].age /\ ~Expired(k)

\* The pass looks at each file once, and nobody else removes files or ages
\* them while it is on.
PassInv ==
  /\ rot.phase = "sleep" => rot = Resting
  /\ rot.phase = "stat" => rot.victim = None
  /\ rot.phase = "remove" => rot.victim \in OnDisk \ (rot.todo \cup Kept)
  /\ rot.todo \cup Kept \subseteq OnDisk /\ rot.todo \cap Kept = {}
  /\ rot.phase # "sleep" =>
       \A k \in OnDisk \ (rot.todo \cup {rot.victim}) : Settled(k)

FilesOK ==
  /\ OnDisk \subseteq Keys /\ files \in [OnDisk -> File]
  /\ damaged \subseteq OnDisk
  /\ IsFiniteSet(OnDisk)

LinkedOK == \A r \in Reqs : req[r].linked => req[r].key \in OnDisk

\* A hit is worth two points, and a round that is outlived costs one.
Scored(b) == b.score + b.rounds = 2 * b.asks

MemOK ==
  /\ InMem \subseteq Keys /\ mem \in [InMem -> Body]
  /\ \A k \in InMem : Scored(mem[k])

TypeInv ==
  /\ ReqOK /\ LinkedOK
  /\ FilesOK
  /\ MemOK
  /\ rot \in RotRec
  /\ crashes \in 0..MaxCrashes

-----------------------------------------------------------------------------
(* The values the steps make.                                              *)

LEMMA TypeInvGivesTypeOK == TypeInv => TypeOK
  <1> SUFFICES ASSUME TypeInv PROVE TypeOK
    OBVIOUS
  <1>1. PICK K \in SUBSET Keys : rot.kept \in [K -> Seen]
    BY DEF TypeInv, RotRec
  <1>2. Kept = K
    BY <1>1 DEF Kept
  <1> QED
    BY <1>1, <1>2 DEF TypeInv, TypeOK, RotRec, Phases, FilesOK, LinkedOK, MemOK, ReqOK

LEMMA KeptType ==
  ASSUME rot \in RotRec
  PROVE  Kept \subseteq Keys /\ rot.kept \in [Kept -> Seen]
  <1>1. PICK K \in SUBSET Keys : rot.kept \in [K -> Seen]
    BY DEF RotRec
  <1> QED
    BY <1>1 DEF Kept

LEMMA WithType ==
  ASSUME NEW f, NEW D, NEW S, f \in [D -> S], NEW k, NEW x \in S
  PROVE  /\ With(f, k, x) \in [D \cup {k} -> S]
         /\ DOMAIN With(f, k, x) = D \cup {k}
         /\ With(f, k, x)[k] = x
         /\ \A j \in D \ {k} : With(f, k, x)[j] = f[j]
  BY DEF With

LEMMA WholeSize == ASSUME NEW f \in File PROVE Size(f) \in 0..Pieces
  <1> DEFINE S == f.parts \cup {0}
  <1>1. f.parts \subseteq Whole /\ Pieces \in Nat
    BY MediaAssumption DEF File
  <1>2. IsFiniteSet(S)
    <2>1. S \subseteq 0..Pieces
      BY <1>1 DEF Whole
    <2>2. 0 \in Int /\ Pieces \in Int
      BY <1>1
    <2> HIDE DEF S
    <2> QED
      BY <2>1, <2>2, FS_Interval, FS_Subset
  <1>3. S # {} /\ \A x \in S : x \in 0..Pieces
    BY <1>1 DEF Whole
  <1>4. Max(S) \in S
    <2> HIDE DEF S
    <2> QED
      BY <1>2, <1>3, MaxIsGreatest
  <1> QED
    BY <1>3, <1>4 DEF Size

LEMMA WroteType ==
  ASSUME NEW f \in File, NEW p \in Whole
  PROVE  Wrote(f, p) \in File /\ Wrote(f, p).age = 0
         /\ Wrote(f, p).parts = f.parts \cup {p}
  BY MediaAssumption DEF Wrote, File

LEMMA IdleType == Idle \in RequestRec
  BY MediaAssumption DEF Idle, RequestRec, Steps

LEMMA RestingType == Resting \in RotRec /\ DOMAIN Resting.kept = {}
  BY DEF Resting, RotRec, Phases, Nothing

-----------------------------------------------------------------------------
(* What each step does to each variable.                                   *)

LEMMA ReqUpdate ==
  ASSUME ReqOK, NEW r, NEW q \in RequestRec, StepOK(q), req' = [req EXCEPT ![r] = q]
  PROVE  ReqOK'
  BY DEF ReqOK

LEMMA ReqSteps ==
  ASSUME TypeInv, [Next]_vars
  PROVE  ReqOK'
  <1> USE MediaAssumption
  <1>1. ReqOK
    BY DEF TypeInv
  <1>q. \A r \in Reqs : req[r] \in RequestRec /\ StepOK(req[r])
    BY <1>1 DEF ReqOK
  <1>2. ASSUME NEW r \in Reqs, Arrive(r) PROVE ReqOK'
    <2>1. PICK k \in Keys : req' = [req EXCEPT ![r].step = "memory", ![r].key = k]
      BY <1>2 DEF Arrive
    <2> DEFINE q == [req[r] EXCEPT !.step = "memory", !.key = k]
    <2>2. q \in RequestRec /\ StepOK(q)
      BY <1>q, <1>2 DEF Arrive, At, StepOK, RequestRec, Steps
    <2>3. req' = [req EXCEPT ![r] = q]
      BY <2>1
    <2> QED
      BY <1>1, <2>2, <2>3, ReqUpdate
  <1>3. ASSUME NEW r \in Reqs, MemGet(r) \/ FetchFails(r) \/ MemPut(r)
        PROVE  ReqOK'
    <2>1. req' = [req EXCEPT ![r] = Idle]
      BY <1>3 DEF MemGet, FetchFails, MemPut, Leave
    <2> QED
      BY <1>1, <2>1, IdleType, ReqUpdate DEF StepOK, Idle
  <1>4. ASSUME NEW r \in Reqs, NEW s \in Steps, Goto(r, s), StepOK([req[r] EXCEPT !.step = s])
        PROVE  ReqOK'
    <2> DEFINE q == [req[r] EXCEPT !.step = s]
    <2>1. q \in RequestRec
      BY <1>q DEF RequestRec
    <2>2. req' = [req EXCEPT ![r] = q]
      BY <1>4 DEF Goto
    <2> QED
      BY <1>1, <1>4, <2>1, <2>2, ReqUpdate
  <1>5. ASSUME NEW r \in Reqs,
               MemMiss(r) \/ FileMiss(r) \/ CreateFails(r) \/ WriteFails(r)
        PROVE  ReqOK'
    <2>1. PICK s \in {"file", "fetch", "put"} : Goto(r, s) /\ (s # "put" => req[r].step \in {"memory", "file"})
                        /\ req[r].step # "idle"
      BY <1>5 DEF MemMiss, FileMiss, CreateFails, WriteFails, At
    <2>2. StepOK([req[r] EXCEPT !.step = s])
      BY <1>q, <2>1 DEF StepOK, RequestRec
    <2> QED
      BY <1>4, <2>1, <2>2 DEF Steps
  <1>6. ASSUME NEW r \in Reqs, ReadFile(r) PROVE ReqOK'
    <2> DEFINE q == [req[r] EXCEPT !.step = "put", !.body = files[req[r].key].parts]
    <2>1. files[req[r].key].parts \in SUBSET Whole
      BY <1>6 DEF ReadFile, FileHit, TypeInv, FilesOK, File
    <2>2. q \in RequestRec /\ StepOK(q)
      BY <1>q, <1>6, <2>1 DEF ReadFile, At, StepOK, RequestRec, Steps
    <2>3. req' = [req EXCEPT ![r] = q]
      BY <1>6 DEF ReadFile
    <2> QED
      BY <1>1, <2>2, <2>3, ReqUpdate
  <1>7. ASSUME NEW r \in Reqs, Fetch(r) PROVE ReqOK'
    <2> DEFINE q == [req[r] EXCEPT !.step = "create", !.body = Whole]
    <2>1. q \in RequestRec
      BY <1>q DEF RequestRec, Steps
    <2>2. StepOK(q)
      BY <1>q, <1>7 DEF Fetch, At, StepOK, RequestRec
    <2>3. req' = [req EXCEPT ![r] = q]
      BY <1>7 DEF Fetch
    <2> QED
      BY <1>1, <2>1, <2>2, <2>3, ReqUpdate
  <1>8. ASSUME NEW r \in Reqs, CreateFile(r) PROVE ReqOK'
    <2> DEFINE q == [req[r] EXCEPT !.step = "write", !.linked = TRUE]
    <2>1. q \in RequestRec
      BY <1>q DEF RequestRec, Steps
    <2>2. StepOK(q)
      <3>1. req[r].step = "create" /\ req[r].pos = 1 /\ req[r].key \in Keys
        BY <1>q, <1>8 DEF CreateFile, At, StepOK
      <3>2. 1 \in Whole
        BY DEF Whole
      <3> QED
        BY <1>q, <3>1, <3>2 DEF StepOK, RequestRec
    <2>3. req' = [req EXCEPT ![r] = q]
      BY <1>8 DEF CreateFile
    <2> QED
      BY <1>1, <2>1, <2>2, <2>3, ReqUpdate
  <1>9. ASSUME NEW r \in Reqs, Write(r) PROVE ReqOK'
    <2> DEFINE p == req[r].pos
    <2> DEFINE q == [req[r] EXCEPT !.step = IF p = Pieces THEN "put" ELSE "write",
                                   !.pos = p + 1]
    <2>1. p \in Whole /\ req[r].key \in Keys /\ p + 1 \in 1..(Pieces + 1)
          /\ (p # Pieces => p + 1 \in Whole)
      BY <1>q, <1>9 DEF Write, At, StepOK, Whole
    <2>2. q \in RequestRec /\ StepOK(q)
      <3> HIDE DEF p
      <3> QED
        BY <1>q, <2>1 DEF StepOK, RequestRec, Steps
    <2>3. req' = [req EXCEPT ![r] = q]
      BY <1>9 DEF Write
    <2> QED
      BY <1>1, <2>2, <2>3, ReqUpdate
  <1>10. ASSUME NEW k, Unlink(k) PROVE ReqOK'
    <2>1. ASSUME NEW r \in Reqs PROVE req'[r] \in RequestRec /\ StepOK(req'[r])
      <3>1. req'[r] = [req[r] EXCEPT !.linked = @ /\ req[r].key # k]
        BY <1>10 DEF Unlink
      <3> QED
        BY <1>q, <3>1 DEF RequestRec, StepOK
    <2> QED
      BY <1>10, <2>1 DEF Unlink, ReqOK
  <1>11. ASSUME req' = req PROVE ReqOK'
    BY <1>1, <1>11 DEF ReqOK
  <1>12. CASE Crash
    <2>1. StepOK(Idle)
      BY DEF StepOK, Idle
    <2> QED
      BY <1>12, <2>1, IdleType DEF Crash, ReqOK
  <1>13. CASE Rotate
    <2>1. (req' = req) \/ \E k : Unlink(k)
      BY <1>13 DEF Rotate, RotateList, RotateRemove, RotateEnd, RotateStat, RotateTrim
    <2> QED
      BY <2>1, <1>10, <1>11
  <1>14. CASE Janitor \/ Tick \/ UNCHANGED vars
    BY <1>11, <1>14 DEF Janitor, Tick, vars
  <1> QED
    BY <1>2, <1>3, <1>5, <1>6, <1>7, <1>8, <1>9, <1>12, <1>13, <1>14
       DEF Next, Request

LEMMA FilesSteps ==
  ASSUME TypeInv, [Next]_vars
  PROVE  FilesOK'
  <1> USE MediaAssumption
  <1>1. FilesOK
    BY DEF TypeInv
  <1>2. ASSUME UNCHANGED <<files, damaged>> PROVE FilesOK'
    BY <1>1, <1>2 DEF FilesOK, OnDisk
  <1>3. ASSUME NEW r \in Reqs, CreateFile(r) PROVE FilesOK'
    <2> DEFINE k == req[r].key
    <2> DEFINE f == [parts |-> {}, age |-> 0]
    <2>1. k \in Keys
      BY <1>3 DEF CreateFile, At, TypeInv, ReqOK, StepOK
    <2>2. f \in File
      BY DEF File
    <2>3. files' = With(files, k, f) /\ damaged' = damaged \ {k}
      BY <1>3 DEF CreateFile
    <2>4. OnDisk' = OnDisk \cup {k} /\ files' \in [OnDisk' -> File]
      <3> HIDE DEF f, k
      <3>1. files \in [OnDisk -> File]
        BY <1>1 DEF FilesOK
      <3>2. /\ With(files, k, f) \in [OnDisk \cup {k} -> File]
            /\ DOMAIN With(files, k, f) = OnDisk \cup {k}
        BY <2>2, <3>1 DEF With, OnDisk
      <3> QED
        BY <2>3, <3>2 DEF OnDisk
    <2>5. IsFiniteSet(OnDisk \cup {k})
      BY <1>1, FS_AddElement DEF FilesOK
    <2> QED
      BY <1>1, <2>1, <2>3, <2>4, <2>5 DEF FilesOK
  <1>4. ASSUME NEW r \in Reqs, Write(r) PROVE FilesOK'
    <2> DEFINE k == req[r].key
    <2>1. req[r].pos \in Whole
      BY <1>4 DEF Write, At, TypeInv, ReqOK, StepOK
    <2>2. CASE req[r].linked
      <3>1. k \in OnDisk
        BY <2>2 DEF TypeInv, LinkedOK
      <3>2. Wrote(files[k], req[r].pos) \in File
        BY <1>1, <2>1, <3>1, WroteType DEF FilesOK
      <3>3. files' = [files EXCEPT ![k] = Wrote(files[k], req[r].pos)]
        BY <1>4, <2>2 DEF Write
      <3>4. OnDisk' = OnDisk /\ files' \in [OnDisk -> File] /\ damaged' = damaged
        BY <1>1, <1>4, <3>2, <3>3 DEF FilesOK, OnDisk, Write
      <3> QED
        BY <1>1, <3>4 DEF FilesOK
    <2>3. CASE ~req[r].linked
      BY <1>2, <1>4, <2>3 DEF Write
    <2> QED
      BY <2>2, <2>3
  <1>5. ASSUME NEW r \in Reqs, WriteFails(r) PROVE FilesOK'
    BY <1>1, <1>5 DEF WriteFails, TypeInv, LinkedOK, FilesOK, OnDisk
  <1>6. ASSUME NEW k, Unlink(k) PROVE FilesOK'
    <2>1. OnDisk' = OnDisk \ {k} /\ files' \in [OnDisk' -> File]
      BY <1>1, <1>6 DEF Unlink, OnDisk, FilesOK
    <2>2. IsFiniteSet(OnDisk \ {k})
      BY <1>1, FS_Subset DEF FilesOK
    <2> QED
      BY <1>1, <1>6, <2>1, <2>2 DEF FilesOK, Unlink
  <1>7. CASE Tick
    <2>1. OnDisk' = OnDisk
      BY <1>7 DEF Tick, OnDisk
    <2>2. ASSUME NEW k \in OnDisk PROVE files'[k] \in File
      BY <1>1, <1>7, <2>2 DEF Tick, FilesOK, File
    <2> QED
      BY <1>1, <1>7, <2>1, <2>2 DEF Tick, FilesOK
  <1>8. CASE Crash
    BY <1>1, <1>8 DEF Crash, FilesOK, OnDisk
  <1>9. CASE Rotate
    <2>1. UNCHANGED <<files, damaged>> \/ \E k : Unlink(k)
      BY <1>9 DEF Rotate, RotateList, RotateRemove, RotateEnd, RotateStat, RotateTrim
    <2> QED
      BY <2>1, <1>2, <1>6
  <1>10. CASE Janitor \/ UNCHANGED vars
    BY <1>2, <1>10 DEF Janitor, vars
  <1>11. ASSUME NEW r \in Reqs,
                \/ Arrive(r) \/ MemGet(r) \/ MemMiss(r) \/ ReadFile(r) \/ FileMiss(r)
                \/ Fetch(r) \/ FetchFails(r) \/ CreateFails(r) \/ MemPut(r)
         PROVE  FilesOK'
    BY <1>2, <1>11 DEF Arrive, MemGet, MemMiss, ReadFile, FileMiss, Fetch, FetchFails,
                       CreateFails, MemPut
  <1> QED
    BY <1>3, <1>4, <1>5, <1>7, <1>8, <1>9, <1>10, <1>11 DEF Next, Request

LEMMA LinkedSteps ==
  ASSUME TypeInv, [Next]_vars
  PROVE  LinkedOK'
  <1>1. LinkedOK /\ req \in [Reqs -> RequestRec]
    BY DEF TypeInv, ReqOK
  <1>2. ASSUME \A r \in Reqs : req'[r].linked => req[r].linked /\ req'[r].key = req[r].key,
               OnDisk \subseteq OnDisk'
        PROVE  LinkedOK'
    BY <1>1, <1>2 DEF LinkedOK
  <1>3. ASSUME NEW r \in Reqs, CreateFile(r) PROVE LinkedOK'
    <2>1. OnDisk' = OnDisk \cup {req[r].key}
      BY <1>3 DEF CreateFile, With, OnDisk
    <2>2. \A s \in Reqs : req'[s].key = req[s].key /\ (s # r => req'[s] = req[s])
      BY <1>1, <1>3 DEF CreateFile, RequestRec
    <2> QED
      BY <1>1, <2>1, <2>2 DEF LinkedOK
  <1>4. ASSUME NEW k, Unlink(k) PROVE LinkedOK'
    <2>1. OnDisk' = OnDisk \ {k}
      BY <1>4 DEF Unlink, OnDisk
    <2>2. ASSUME NEW r \in Reqs, req'[r].linked
          PROVE  req[r].linked /\ req[r].key # k /\ req'[r].key = req[r].key
      <3>1. req'[r] = [req[r] EXCEPT !.linked = @ /\ req[r].key # k]
        BY <1>4 DEF Unlink
      <3> QED
        BY <1>1, <2>2, <3>1 DEF RequestRec
    <2> QED
      BY <1>1, <2>1, <2>2 DEF LinkedOK
  <1>5. ASSUME NEW r \in Reqs, Arrive(r) PROVE LinkedOK'
    <2>1. OnDisk' = OnDisk
      BY <1>5 DEF Arrive, OnDisk
    <2>2. ~req[r].linked
      BY <1>5 DEF Arrive, At, TypeInv, ReqOK, StepOK
    <2>3. ~req'[r].linked /\ \A s \in Reqs \ {r} : req'[s] = req[s]
      BY <1>1, <1>5, <2>2 DEF Arrive, RequestRec
    <2> QED
      BY <1>2, <2>1, <2>3
  <1>6. ASSUME NEW r \in Reqs, MemGet(r) \/ FetchFails(r) \/ MemPut(r) PROVE LinkedOK'
    <2>1. OnDisk' = OnDisk /\ req' = [req EXCEPT ![r] = Idle]
      BY <1>6 DEF MemGet, FetchFails, MemPut, OnDisk, Leave
    <2> QED
      BY <1>1, <1>2, <2>1 DEF Idle
  <1>7. ASSUME NEW r \in Reqs,
               \/ MemMiss(r) \/ ReadFile(r) \/ FileMiss(r) \/ Fetch(r)
               \/ CreateFails(r) \/ Write(r) \/ WriteFails(r)
        PROVE  LinkedOK'
    <2>1. OnDisk' = OnDisk
      BY <1>7 DEF MemMiss, ReadFile, FileMiss, Fetch, CreateFails, Write, WriteFails, OnDisk
    <2>2. \A s \in Reqs : req'[s].linked = req[s].linked /\ req'[s].key = req[s].key
      BY <1>1, <1>7 DEF MemMiss, ReadFile, FileMiss, Fetch, CreateFails, Write,
                        WriteFails, Goto, RequestRec
    <2> QED
      BY <1>2, <2>1, <2>2
  <1>8. CASE Crash
    BY <1>8 DEF Crash, LinkedOK, Idle
  <1>9. CASE Tick
    <2>1. OnDisk' = OnDisk /\ req' = req
      BY <1>9 DEF Tick, OnDisk
    <2> QED
      BY <1>2, <2>1
  <1>10. ASSUME req' = req, files' = files PROVE LinkedOK'
    BY <1>1, <1>10 DEF LinkedOK, OnDisk
  <1>11. CASE Rotate
    <2>1. UNCHANGED <<req, files>> \/ \E k : Unlink(k)
      BY <1>11 DEF Rotate, RotateList, RotateRemove, RotateEnd, RotateStat, RotateTrim
    <2> QED
      BY <2>1, <1>4, <1>10
  <1>12. CASE Janitor \/ UNCHANGED vars
    BY <1>10, <1>12 DEF Janitor, vars
  <1> QED
    BY <1>3, <1>5, <1>6, <1>7, <1>8, <1>9, <1>11, <1>12 DEF Next, Request

LEMMA MemSteps ==
  ASSUME TypeInv, [Next]_vars
  PROVE  MemOK'
  <1> USE MediaAssumption
  <1>1. MemOK
    BY DEF TypeInv
  <1>2. ASSUME UNCHANGED mem PROVE MemOK'
    BY <1>1, <1>2 DEF MemOK, InMem
  <1>3. ASSUME NEW r \in Reqs, MemGet(r) PROVE MemOK'
    <2> DEFINE k == req[r].key
    <2> DEFINE b == Entry(mem[k].body, mem[k].score + 2, mem[k].asks + 1, mem[k].rounds)
    <2>1. k \in InMem /\ mem' = [mem EXCEPT ![k] = b] /\ mem[k].asks < MaxAsks
      BY <1>3 DEF MemGet
    <2>2. mem[k] \in Body /\ Scored(mem[k])
      BY <1>1, <2>1 DEF MemOK
    <2>3. b \in Body /\ Scored(b)
      <3>1. /\ mem[k].body \in SUBSET Whole /\ mem[k].score \in Nat
            /\ mem[k].asks \in 0..MaxAsks /\ mem[k].rounds \in Nat
            /\ mem[k].asks < MaxAsks
            /\ mem[k].score + mem[k].rounds = 2 * mem[k].asks
        BY <2>1, <2>2 DEF Body, Scored
      <3> DEFINE s == mem[k].score
                 a == mem[k].asks
                 n == mem[k].rounds
      <3>2. s \in Nat /\ n \in Nat /\ a \in 0..MaxAsks /\ a < MaxAsks /\ s + n = 2 * a
        BY <3>1
      <3>3. s + 2 \in Nat /\ a + 1 \in 0..MaxAsks /\ (s + 2) + n = 2 * (a + 1)
        <4> HIDE DEF s, a, n
        <4> QED
          BY <3>2
      <3> QED
        BY <3>1, <3>3 DEF Body, Scored, Entry
    <2> HIDE DEF b
    <2> QED
      BY <1>1, <2>1, <2>3 DEF MemOK, InMem
  <1>4. ASSUME NEW r \in Reqs, MemPut(r) PROVE MemOK'
    <2>1. req[r].key \in Keys /\ req[r].body \in SUBSET Whole
      BY <1>4 DEF MemPut, At, TypeInv, ReqOK, StepOK, RequestRec
    <2> DEFINE b == Entry(req[r].body, 0, 0, 0)
    <2>2. b \in Body /\ Scored(b)
      BY <2>1 DEF Body, Scored, Entry
    <2>3. CASE mem' = With(mem, req[r].key, b)
      <3> HIDE DEF b
      <3> QED
        BY <1>1, <2>1, <2>2, <2>3 DEF MemOK, InMem, With
    <2> QED
      BY <1>2, <1>4, <2>3 DEF MemPut
  <1>5. CASE Janitor
    <2> DEFINE Left == {j \in InMem : mem[j].score > 0}
    <2> DEFINE Older(k) ==
      Entry(mem[k].body, mem[k].score - 1, mem[k].asks, mem[k].rounds + 1)
    <2>1. mem' = [k \in Left |-> Older(k)]
      BY <1>5 DEF Janitor
    <2>2. ASSUME NEW k \in Left PROVE Older(k) \in Body /\ Scored(Older(k))
      <3>1. mem[k] \in Body /\ Scored(mem[k]) /\ mem[k].score > 0
        BY <1>1 DEF MemOK
      <3>2. /\ mem[k].body \in SUBSET Whole /\ mem[k].score \in Nat
            /\ mem[k].asks \in 0..MaxAsks /\ mem[k].rounds \in Nat
        BY <3>1 DEF Body
      <3> QED
        BY <3>1, <3>2 DEF Body, Scored, Entry
    <2> HIDE DEF Older
    <2> QED
      BY <1>1, <2>1, <2>2 DEF MemOK, InMem
  <1>6. CASE Crash
    BY <1>6 DEF Crash, MemOK, InMem, Nothing
  <1>7. CASE Rotate \/ Tick \/ UNCHANGED vars
    BY <1>2, <1>7 DEF Rotate, RotateList, RotateRemove, RotateEnd, RotateStat, RotateTrim,
                      Unlink, Tick, vars
  <1>8. ASSUME NEW r \in Reqs,
               \/ Arrive(r) \/ MemMiss(r) \/ ReadFile(r) \/ FileMiss(r)
               \/ Fetch(r) \/ FetchFails(r) \/ CreateFile(r) \/ CreateFails(r)
               \/ Write(r) \/ WriteFails(r)
        PROVE  MemOK'
    BY <1>2, <1>8 DEF Arrive, MemMiss, ReadFile, FileMiss, Fetch, FetchFails, CreateFile,
                      CreateFails, Write, WriteFails
  <1> QED
    BY <1>3, <1>4, <1>5, <1>6, <1>7, <1>8 DEF Next, Request

-----------------------------------------------------------------------------
(* The pass.                                                               *)

PassOK == rot \in RotRec /\ PassInv

LEMMA RestingOK == ASSUME rot' = Resting PROVE PassOK'
  BY RestingType DEF PassOK, PassInv, Resting, Kept, Nothing

\* Beside the pass, files are only created and written, which makes them new.
LEMMA PassBeside ==
  ASSUME TypeInv, PassInv, rot' = rot, OnDisk \subseteq OnDisk',
         \A k \in OnDisk' : files'[k].age = 0 \/ (k \in OnDisk /\ files'[k].age = files[k].age)
  PROVE  PassOK'
  <1>1. rot' \in RotRec /\ Kept' = Kept
    BY DEF TypeInv, Kept
  <1>2. ASSUME rot.phase # "sleep", NEW k \in OnDisk' \ (rot.todo \cup {rot.victim})
        PROVE  Settled(k)'
    <2>1. CASE files'[k].age = 0
      BY <2>1 DEF Settled
    <2>2. CASE k \in OnDisk /\ files'[k].age = files[k].age
      BY <1>1, <1>2, <2>2 DEF PassInv, Settled, Expired
    <2> QED
      BY <2>1, <2>2
  <1> QED
    BY <1>1, <1>2 DEF PassOK, PassInv

LEMMA PassLists == ASSUME TypeInv, RotateList PROVE PassOK'
  <1>1. rot' = [phase |-> "stat", todo |-> OnDisk, victim |-> None, kept |-> Nothing]
    BY DEF RotateList, Resting
  <1>2. OnDisk' = OnDisk /\ OnDisk \subseteq Keys
    BY DEF RotateList, OnDisk, TypeInv, FilesOK
  <1>3. rot' \in RotRec
    BY <1>1, <1>2, RestingType DEF RotRec, Phases, Resting
  <1>4. Kept' = {}
    BY <1>1 DEF Kept, Nothing
  <1> QED
    BY <1>1, <1>2, <1>3, <1>4 DEF PassOK, PassInv

LEMMA PassStats ==
  ASSUME TypeInv, PassInv, NEW k \in Keys, RotateStat(k)
  PROVE  PassOK'
  <1> DEFINE seen == [size |-> Size(files[k]), age |-> files[k].age]
  <1>1. /\ rot \in RotRec /\ Kept \subseteq Keys /\ rot.kept \in [Kept -> Seen]
        /\ rot.phase = "stat" /\ rot.victim = None /\ k \in rot.todo /\ k \in OnDisk
        /\ files' = files /\ OnDisk' = OnDisk
    BY KeptType DEF TypeInv, PassInv, RotateStat, OnDisk
  <1>2. files[k] \in File /\ files[k].age \in 0..MaxAge
    BY <1>1 DEF TypeInv, FilesOK, File
  <1>3. seen \in Seen
    BY <1>2, WholeSize DEF Seen
  <1>4. /\ rot.todo \subseteq OnDisk /\ Kept \subseteq OnDisk /\ rot.todo \cap Kept = {}
        /\ \A j \in OnDisk \ rot.todo : Settled(j)
        /\ None \notin OnDisk
    BY <1>1, MediaAssumption DEF PassInv, TypeInv, FilesOK
  <1>5. CASE Expired(k)
    <2>1. rot' = [rot EXCEPT !.todo = rot.todo \ {k}, !.phase = "remove", !.victim = k]
      BY <1>5 DEF RotateStat
    <2>2. /\ rot' \in RotRec /\ rot'.phase = "remove" /\ rot'.victim = k
          /\ rot'.todo = rot.todo \ {k} /\ rot'.kept = rot.kept
      BY <1>1, <2>1 DEF RotRec, Phases
    <2>3. Kept' = Kept /\ \A j \in Keys : Settled(j)' <=> Settled(j)
      BY <1>1, <2>2 DEF Kept, Settled, Expired
    <2> QED
      BY <1>1, <1>4, <2>2, <2>3 DEF PassOK, PassInv, TypeInv, FilesOK
  <1>6. CASE ~Expired(k)
    <2>1. rot' = [rot EXCEPT !.todo = rot.todo \ {k}, !.kept = With(rot.kept, k, seen)]
      BY <1>6 DEF RotateStat
    <2> HIDE DEF seen
    <2>2. /\ With(rot.kept, k, seen) \in [Kept \cup {k} -> Seen]
          /\ With(rot.kept, k, seen)[k] = seen
          /\ \A j \in Kept \ {k} : With(rot.kept, k, seen)[j] = rot.kept[j]
      BY <1>1, <1>3 DEF With, Kept
    <2>3. With(rot.kept, k, seen) \in UNION {[K -> Seen] : K \in SUBSET Keys}
      BY <1>1, <2>2
    <2>4. /\ rot' \in RotRec /\ rot'.phase = "stat" /\ rot'.victim = None
          /\ rot'.todo = rot.todo \ {k} /\ rot'.kept = With(rot.kept, k, seen)
      BY <1>1, <2>1, <2>3 DEF RotRec
    <2>5. Kept' = Kept \cup {k}
      BY <2>2, <2>4 DEF Kept
    <2>6. seen.age = files[k].age
      BY DEF seen
    <2>7. ASSUME NEW j \in OnDisk \ rot'.todo PROVE Settled(j)'
      <3>1. CASE j = k
        <4>1. rot'.kept[k].age = files[k].age
          BY <2>2, <2>4, <2>6
        <4> QED
          BY <1>1, <1>2, <1>6, <2>5, <3>1, <4>1 DEF Settled, Expired
      <3>2. CASE j # k
        <4>1. Settled(j)
          BY <1>4, <2>4, <2>7, <3>2
        <4>2. files'[j] = files[j] /\ (j \in Kept => rot'.kept[j] = rot.kept[j])
          BY <1>1, <2>2, <2>4, <3>2
        <4> QED
          BY <2>5, <4>1, <4>2 DEF Settled, Expired
      <3> QED
        BY <3>1, <3>2
    <2> QED
      BY <1>1, <1>4, <2>4, <2>5, <2>7 DEF PassOK, PassInv
  <1> QED
    BY <1>5, <1>6

LEMMA PassRemoves ==
  ASSUME TypeInv, PassInv, RotateRemove
  PROVE  PassOK'
  <1> DEFINE v == rot.victim
  <1>1. /\ rot \in RotRec /\ v \in OnDisk \ (rot.todo \cup Kept)
        /\ rot' = [rot EXCEPT !.phase = "stat", !.victim = None]
        /\ files' = [j \in OnDisk \ {v} |-> files[j]]
    BY DEF TypeInv, PassInv, RotateRemove, Unlink
  <1>2. /\ rot' \in RotRec /\ rot'.phase = "stat" /\ rot'.victim = None
        /\ rot'.todo = rot.todo /\ rot'.kept = rot.kept /\ Kept' = Kept
    BY <1>1 DEF RotRec, Phases, Kept
  <1>3. OnDisk' = OnDisk \ {v}
    BY <1>1 DEF OnDisk
  <1>4. ASSUME NEW k \in OnDisk' \ rot'.todo PROVE Settled(k)'
    <2>1. Settled(k)
      BY <1>2, <1>3, <1>4 DEF PassInv, RotateRemove
    <2> QED
      BY <1>1, <1>2, <1>3, <2>1 DEF Settled, Expired
  <1>5. rot'.todo \cup Kept' \subseteq OnDisk' /\ rot'.todo \cap Kept' = {}
    BY <1>1, <1>2, <1>3 DEF PassInv
  <1> QED
    BY <1>2, <1>4, <1>5 DEF PassOK, PassInv

LEMMA PassTrims ==
  ASSUME TypeInv, PassInv, NEW k \in Keys, RotateTrim(k)
  PROVE  PassOK'
  <1> DEFINE left == [j \in Kept \ {k} |-> rot.kept[j]]
  <1>1. /\ rot \in RotRec /\ Kept \subseteq Keys /\ rot.kept \in [Kept -> Seen]
        /\ rot.phase = "stat" /\ rot.todo = {} /\ rot.victim = None
        /\ rot' = [rot EXCEPT !.kept = left]
        /\ files' = [j \in OnDisk \ {k} |-> files[j]]
    BY KeptType DEF TypeInv, PassInv, RotateTrim, AllSeen, Unlink
  <1>2. left \in UNION {[K -> Seen] : K \in SUBSET Keys}
    BY <1>1
  <1>3. /\ rot' \in RotRec /\ rot'.phase = "stat" /\ rot'.todo = {} /\ rot'.victim = None
        /\ rot'.kept = left
    BY <1>1, <1>2 DEF RotRec
  <1>4. Kept' = Kept \ {k} /\ OnDisk' = OnDisk \ {k}
    BY <1>1, <1>3 DEF Kept, OnDisk
  <1>5. ASSUME NEW j \in OnDisk' \ {None} PROVE Settled(j)'
    <2>1. Settled(j)
      BY <1>1, <1>4, <1>5 DEF PassInv
    <2> QED
      BY <1>1, <1>3, <1>4, <2>1 DEF Settled, Expired
  <1> QED
    BY <1>3, <1>4, <1>5 DEF PassOK, PassInv

LEMMA PassSteps ==
  ASSUME TypeInv, PassInv, [Next]_vars
  PROVE  PassOK'
  <1>1. ASSUME NEW r \in Reqs, CreateFile(r) PROVE PassOK'
    <2>1. rot' = rot /\ files' = With(files, req[r].key, [parts |-> {}, age |-> 0])
      BY <1>1 DEF CreateFile
    <2>2. /\ OnDisk' = OnDisk \cup {req[r].key}
          /\ files'[req[r].key].age = 0
          /\ \A k \in OnDisk \ {req[r].key} : files'[k] = files[k]
      BY <2>1 DEF With, OnDisk
    <2>3. \A k \in OnDisk' : files'[k].age = 0 \/ (k \in OnDisk /\ files'[k].age = files[k].age)
      BY <2>2
    <2>4. OnDisk \subseteq OnDisk'
      BY <2>2
    <2> QED
      BY <2>1, <2>3, <2>4, PassBeside
  <1>2. ASSUME NEW r \in Reqs, Write(r) PROVE PassOK'
    <2>1. rot' = rot /\ OnDisk' = OnDisk
      BY <1>2 DEF Write, OnDisk
    <2>2. ASSUME NEW k \in OnDisk PROVE files'[k].age = 0 \/ files'[k].age = files[k].age
      BY <1>2, <2>2 DEF Write, Wrote, OnDisk
    <2>3. OnDisk \subseteq OnDisk'
      BY <2>1
    <2> QED
      BY <2>1, <2>2, <2>3, PassBeside
  <1>3. CASE Tick
    <2>1. rot = Resting /\ rot' = rot
      BY <1>3 DEF Tick, PassInv
    <2> QED
      BY <2>1, RestingOK
  <1>4. CASE Crash \/ RotateEnd
    BY <1>4, RestingOK DEF Crash, RotateEnd
  <1>5. ASSUME UNCHANGED <<rot, files>> PROVE PassOK'
    BY <1>5, PassBeside DEF OnDisk
  <1>6. CASE Janitor \/ UNCHANGED vars
    BY <1>5, <1>6 DEF Janitor, vars
  <1>7. ASSUME NEW r \in Reqs,
               \/ Arrive(r) \/ MemGet(r) \/ MemMiss(r) \/ ReadFile(r) \/ FileMiss(r)
               \/ Fetch(r) \/ FetchFails(r) \/ CreateFails(r) \/ WriteFails(r)
               \/ MemPut(r)
        PROVE  PassOK'
    BY <1>5, <1>7 DEF Arrive, MemGet, MemMiss, ReadFile, FileMiss, Fetch, FetchFails,
                      CreateFails, WriteFails, MemPut
  <1> QED
    BY <1>1, <1>2, <1>3, <1>4, <1>6, <1>7, PassLists, PassStats, PassRemoves, PassTrims
       DEF Next, Request, Rotate

-----------------------------------------------------------------------------
(* The files' contents.                                                    *)

LEMMA CoverKept ==
  ASSUME Covered, NEW k \in OnDisk \ damaged, files'[k].parts = files[k].parts,
         \A r \in Writing(k) : r \in Writing(k)' /\ req'[r].pos = req[r].pos
  PROVE  \A i \in Whole : i \in files'[k].parts \/ \E r \in Writing(k)' : req'[r].pos <= i
  BY DEF Covered

LEMMA CoverBeside ==
  ASSUME Covered, UNCHANGED <<files, damaged>>,
         \A k \in OnDisk : \A r \in Writing(k) : r \in Writing(k)' /\ req'[r].pos = req[r].pos
  PROVE  Covered'
  <1>1. OnDisk' = OnDisk
    BY DEF OnDisk
  <1> QED
    BY <1>1, CoverKept DEF Covered

LEMMA CoverCreates ==
  ASSUME TypeInv, Covered, NEW r \in Reqs, CreateFile(r)
  PROVE  Covered'
  <1> DEFINE k == req[r].key
  <1>1. /\ req \in [Reqs -> RequestRec] /\ req[r].pos = 1 /\ At(r, "create")
        /\ req' = [req EXCEPT ![r].step = "write", ![r].linked = TRUE]
        /\ files' = With(files, k, [parts |-> {}, age |-> 0])
        /\ damaged' = damaged \ {k}
    BY DEF CreateFile, At, TypeInv, ReqOK, StepOK
  <1>2. /\ OnDisk' = OnDisk \cup {k}
        /\ \A j \in OnDisk \ {k} : files'[j] = files[j]
    BY <1>1 DEF With, OnDisk
  <1>3. /\ req'[r].step = "write" /\ req'[r].linked /\ req'[r].key = k /\ req'[r].pos = 1
        /\ \A s \in Reqs \ {r} : req'[s] = req[s]
    BY <1>1 DEF RequestRec
  <1>4. ASSUME NEW j \in OnDisk' \ damaged', NEW i \in Whole
        PROVE  i \in files'[j].parts \/ \E s \in Writing(j)' : req'[s].pos <= i
    <2>1. CASE j = k
      <3>1. r \in Writing(k)'
        BY <1>3 DEF Writing, At
      <3>2. 1 <= i
        BY DEF Whole
      <3> QED
        BY <1>3, <2>1, <3>1, <3>2
    <2>2. CASE j # k
      <3>1. j \in OnDisk \ damaged /\ files'[j].parts = files[j].parts
        BY <1>1, <1>2, <1>4, <2>2
      <3>2. \A s \in Writing(j) : s \in Writing(j)' /\ req'[s].pos = req[s].pos
        BY <1>1, <1>3 DEF Writing, At
      <3> QED
        BY <3>1, <3>2, CoverKept
    <2> QED
      BY <2>1, <2>2
  <1> QED
    BY <1>4 DEF Covered

LEMMA CoverWrites ==
  ASSUME TypeInv, Covered, NEW r \in Reqs, Write(r)
  PROVE  Covered'
  <1> DEFINE k == req[r].key
  <1> DEFINE p == req[r].pos
  <1>1. /\ req \in [Reqs -> RequestRec] /\ p \in Whole /\ At(r, "write")
        /\ req[r].linked => k \in OnDisk
        /\ files \in [OnDisk -> File]
        /\ damaged' = damaged
        /\ req' = [req EXCEPT ![r].step = IF p = Pieces THEN "put" ELSE "write",
                              ![r].pos = p + 1]
        /\ files' = IF req[r].linked THEN [files EXCEPT ![k] = Wrote(@, p)] ELSE files
    BY DEF Write, At, TypeInv, ReqOK, StepOK, LinkedOK, FilesOK
  <1>2. /\ req'[r].step = IF p = Pieces THEN "put" ELSE "write"
        /\ req'[r].linked = req[r].linked /\ req'[r].key = k /\ req'[r].pos = p + 1
        /\ \A s \in Reqs \ {r} : req'[s] = req[s]
    BY <1>1 DEF RequestRec
  <1>3. OnDisk' = OnDisk
    BY <1>1 DEF OnDisk
  <1> HIDE DEF p
  <1>4. ASSUME NEW j \in OnDisk \ damaged, NEW i \in Whole
        PROVE  i \in files'[j].parts \/ \E s \in Writing(j)' : req'[s].pos <= i
    <2>1. CASE r \in Writing(j)
      <3>1. j = k /\ req[r].linked /\ files' = [files EXCEPT ![k] = Wrote(files[k], p)]
        BY <1>1, <2>1 DEF Writing
      <3>2. files'[j].parts = files[j].parts \cup {p}
        <4>1. files[k] \in File /\ files'[k] = Wrote(files[k], p)
          BY <1>1, <3>1, <1>4
        <4> QED
          BY <1>1, <3>1, <4>1, WroteType
      <3>3. CASE i \in files[j].parts \/ i = p
        BY <3>2, <3>3
      <3>4. CASE i \notin files[j].parts /\ i # p
        <4>1. PICK s \in Writing(j) : req[s].pos <= i
          BY <1>4, <3>4 DEF Covered
        <4>2. CASE s = r
          <5>1. p + 1 <= i /\ p # Pieces
            BY <1>1, <3>4, <4>1, <4>2, MediaAssumption DEF Whole, p
          <5>2. r \in Writing(j)'
            BY <1>2, <3>1, <5>1 DEF Writing, At
          <5> QED
            BY <1>2, <5>1, <5>2
        <4>3. CASE s # r
          <5>1. s \in Writing(j)' /\ req'[s].pos = req[s].pos
            BY <1>2, <4>1, <4>3 DEF Writing, At
          <5> QED
            BY <4>1, <5>1
        <4> QED
          BY <4>2, <4>3
      <3> QED
        BY <3>3, <3>4
    <2>2. CASE r \notin Writing(j)
      <3>1. files'[j] = files[j]
        BY <1>1, <1>4, <2>2 DEF Writing
      <3>2. \A s \in Writing(j) : s \in Writing(j)' /\ req'[s].pos = req[s].pos
        BY <1>2, <2>2 DEF Writing, At
      <3> QED
        BY <3>1, <3>2, CoverKept
    <2> QED
      BY <2>1, <2>2
  <1> QED
    BY <1>1, <1>3, <1>4 DEF Covered

LEMMA CoverUnlinks ==
  ASSUME TypeInv, Covered, NEW k, Unlink(k)
  PROVE  Covered'
  <1>1. /\ req \in [Reqs -> RequestRec]
        /\ OnDisk' = OnDisk \ {k} /\ damaged' = damaged \ {k}
        /\ \A j \in OnDisk' : files'[j] = files[j]
        /\ \A r \in Reqs : req'[r] = [req[r] EXCEPT !.linked = @ /\ req[r].key # k]
    BY DEF Unlink, OnDisk, TypeInv, ReqOK
  <1>2. \A r \in Reqs : /\ req'[r].step = req[r].step /\ req'[r].key = req[r].key
                        /\ req'[r].pos = req[r].pos
                        /\ (req[r].linked /\ req[r].key # k) => req'[r].linked
    BY <1>1 DEF RequestRec
  <1>3. ASSUME NEW j \in OnDisk' \ damaged'
        PROVE  \A i \in Whole : i \in files'[j].parts \/ \E r \in Writing(j)' : req'[r].pos <= i
    <2>1. j \in OnDisk \ damaged /\ j # k /\ files'[j].parts = files[j].parts
      BY <1>1, <1>3
    <2>2. \A r \in Writing(j) : r \in Writing(j)' /\ req'[r].pos = req[r].pos
      BY <1>2, <2>1 DEF Writing, At
    <2> QED
      BY <2>1, <2>2, CoverKept
  <1> QED
    BY <1>3 DEF Covered

LEMMA CoverSteps ==
  ASSUME TypeInv, Covered, [Next]_vars
  PROVE  Covered'
  <1>1. ASSUME NEW r \in Reqs, ~At(r, "write"), UNCHANGED <<files, damaged>>,
               \A s \in Reqs \ {r} : req'[s] = req[s]
        PROVE  Covered'
    <2>1. \A k \in OnDisk : \A s \in Writing(k) : s \in Writing(k)' /\ req'[s].pos = req[s].pos
      BY <1>1 DEF Writing, At
    <2> QED
      BY <1>1, <2>1, CoverBeside
  <1>2. ASSUME NEW r \in Reqs,
               \/ Arrive(r) \/ MemGet(r) \/ MemMiss(r) \/ ReadFile(r) \/ FileMiss(r)
               \/ Fetch(r) \/ FetchFails(r) \/ CreateFails(r) \/ MemPut(r)
        PROVE  Covered'
    <2>1. ~At(r, "write") /\ UNCHANGED <<files, damaged>>
      BY <1>2 DEF Arrive, MemGet, MemMiss, ReadFile, FileMiss, Fetch, FetchFails,
                  CreateFails, MemPut, At
    <2>2. \A s \in Reqs \ {r} : req'[s] = req[s]
      BY <1>2 DEF Arrive, MemGet, MemMiss, ReadFile, FileMiss, Fetch, FetchFails,
                  CreateFails, MemPut, Goto, Leave, TypeInv, ReqOK
    <2> QED
      BY <1>1, <2>1, <2>2
  <1>3. ASSUME NEW r \in Reqs, WriteFails(r) PROVE Covered'
    <2>1. /\ OnDisk' = OnDisk /\ files' = files /\ damaged \subseteq damaged'
          /\ req[r].linked => req[r].key \in damaged'
          /\ \A s \in Reqs \ {r} : req'[s] = req[s]
      BY <1>3 DEF WriteFails, OnDisk, Goto, TypeInv, ReqOK
    <2>2. ASSUME NEW k \in OnDisk \ damaged'
          PROVE  \A s \in Writing(k) : s \in Writing(k)' /\ req'[s].pos = req[s].pos
      BY <2>1, <2>2 DEF Writing, At
    <2>3. ASSUME NEW k \in OnDisk \ damaged'
          PROVE  \A i \in Whole : i \in files'[k].parts \/ \E s \in Writing(k)' : req'[s].pos <= i
      BY <2>1, <2>2, <2>3, CoverKept
    <2> QED
      BY <2>1, <2>3 DEF Covered
  <1>4. CASE Rotate
    <2>1. CASE UNCHANGED <<req, files, damaged>>
      BY <2>1, CoverBeside DEF Writing, At
    <2>2. UNCHANGED <<req, files, damaged>> \/ \E k : Unlink(k)
      BY <1>4 DEF Rotate, RotateList, RotateRemove, RotateEnd, RotateStat, RotateTrim
    <2> QED
      BY <2>1, <2>2, CoverUnlinks
  <1>5. CASE Tick
    <2>1. OnDisk' = OnDisk /\ damaged' = damaged /\ req' = req
      BY <1>5 DEF Tick, OnDisk
    <2>2. \A k \in OnDisk : files'[k].parts = files[k].parts
      BY <1>5 DEF Tick, TypeInv, FilesOK, File
    <2>3. ASSUME NEW k \in OnDisk \ damaged
          PROVE  \A i \in Whole : i \in files'[k].parts \/ \E s \in Writing(k)' : req'[s].pos <= i
      BY <2>1, <2>2, <2>3, CoverKept DEF Writing, At
    <2> QED
      BY <2>1, <2>3 DEF Covered
  <1>6. CASE Crash
    <2>1. /\ OnDisk' = OnDisk /\ files' = files
          /\ damaged' = damaged \cup {k \in OnDisk : Writing(k) # {}}
      BY <1>6 DEF Crash, OnDisk
    <2> QED
      BY <2>1 DEF Covered
  <1>7. CASE Janitor \/ UNCHANGED vars
    BY <1>7, CoverBeside DEF Janitor, vars, Writing, At
  <1> QED
    BY <1>2, <1>3, <1>4, <1>5, <1>6, <1>7, CoverCreates, CoverWrites DEF Next, Request

-----------------------------------------------------------------------------
(* The theorems.                                                           *)

Inv == TypeInv /\ Covered /\ PassInv

LEMMA InvInit == Init => Inv
  <1> SUFFICES ASSUME Init PROVE Inv
    OBVIOUS
  <1>1. OnDisk = {} /\ InMem = {} /\ Kept = {}
    BY DEF Init, OnDisk, InMem, Kept, Nothing, Resting
  <1>2. ReqOK /\ LinkedOK
    BY IdleType DEF Init, ReqOK, StepOK, LinkedOK, Idle
  <1>3. FilesOK /\ MemOK
    BY <1>1, FS_EmptySet DEF Init, FilesOK, MemOK, OnDisk, InMem, Nothing
  <1>4. rot \in RotRec /\ crashes \in 0..MaxCrashes
    BY RestingType, MediaAssumption DEF Init
  <1>5. Covered
    BY <1>1 DEF Covered
  <1>6. PassInv
    BY <1>1 DEF Init, PassInv, Resting
  <1> QED
    BY <1>2, <1>3, <1>4, <1>5, <1>6 DEF Inv, TypeInv

LEMMA InvNext == Inv /\ [Next]_vars => Inv'
  <1> SUFFICES ASSUME Inv, [Next]_vars PROVE Inv'
    OBVIOUS
  <1>1. TypeInv /\ Covered /\ PassInv
    BY DEF Inv
  <1>2. crashes' \in 0..MaxCrashes
    <2>1. crashes \in 0..MaxCrashes
      BY <1>1 DEF TypeInv
    <2>2. crashes' = crashes \/ Crash
      BY DEF Next, Request, Rotate, Arrive, MemGet, MemMiss, ReadFile, FileMiss, Fetch,
             FetchFails, CreateFile, CreateFails, Write, WriteFails, MemPut, RotateList,
             RotateStat, RotateRemove, RotateTrim, RotateEnd, Unlink, Janitor, Tick, vars
    <2> QED
      BY <2>1, <2>2, MediaAssumption DEF Crash
  <1>3. ReqOK' /\ LinkedOK' /\ FilesOK' /\ MemOK'
    BY <1>1, ReqSteps, LinkedSteps, FilesSteps, MemSteps
  <1>4. rot' \in RotRec /\ PassInv'
    BY <1>1, PassSteps DEF PassOK
  <1>5. Covered'
    BY <1>1, CoverSteps
  <1> QED
    BY <1>2, <1>3, <1>4, <1>5 DEF Inv, TypeInv

LEMMA InvAlways == Spec => []Inv
  BY InvInit, InvNext, PTL DEF Spec

\* Whatever the requests, the rotation, the janitor and restarts do, every
\* variable of the image cache keeps its type, and a request writes a file by
\* its name only while the file has it (cache.go).
THEOREM Typed == Spec => []TypeOK
  <1>1. Inv => TypeOK
    BY TypeInvGivesTypeOK DEF Inv
  <1> QED
    BY <1>1, InvAlways, PTL

\* However many requests truncate and rewrite one file at once, and whenever
\* the rotation removes it, a file nobody writes is whole unless a write to it
\* failed or was cut short (os.WriteFile in loadOrFetchMedia and storeBody).
THEOREM RestsWhole == Spec => []AtRestWhole
  <1>1. Inv => AtRestWhole
    <2> SUFFICES ASSUME Inv, NEW k \in OnDisk \ damaged, Writing(k) = {}
                 PROVE  files[k].parts = Whole
      BY DEF AtRestWhole
    <2>1. Whole \subseteq files[k].parts
      BY DEF Inv, Covered
    <2>2. files[k].parts \subseteq Whole
      BY DEF Inv, TypeInv, FilesOK, File
    <2> QED
      BY <2>1, <2>2
  <1> QED
    BY <1>1, InvAlways, PTL

LEMMA TrimTakesOldest ==
  ASSUME Inv, Next, NEW k \in AsSeen \ DOMAIN files', files[k].age = rot.kept[k].age,
         NEW j \in OnDisk
  PROVE  files[j].age <= files[k].age
  <1>1. k \in OnDisk /\ k \in Kept /\ DOMAIN files' = OnDisk'
    BY DEF AsSeen, OnDisk
  <1>2. RotateTrim(k)
    <2>1. CASE RotateRemove
      <3>1. OnDisk' = OnDisk \ {rot.victim}
        BY <2>1 DEF RotateRemove, Unlink, OnDisk
      <3>2. rot.victim \notin Kept
        BY <2>1 DEF RotateRemove, Inv, PassInv
      <3> QED
        BY <1>1, <3>1, <3>2
    <2>2. ASSUME NEW x \in Keys, RotateTrim(x) PROVE RotateTrim(k)
      <3>1. OnDisk' = OnDisk \ {x}
        BY <2>2 DEF RotateTrim, Unlink, OnDisk
      <3> QED
        BY <1>1, <2>2, <3>1
    <2>3. ASSUME NEW r \in Reqs, CreateFile(r) PROVE FALSE
      BY <1>1, <2>3 DEF CreateFile, With, OnDisk
    <2>4. ASSUME OnDisk' = OnDisk PROVE FALSE
      BY <1>1, <2>4
    <2>5. ASSUME NEW r \in Reqs, Write(r) PROVE OnDisk' = OnDisk
      BY <2>5 DEF Write, OnDisk
    <2>6. Tick => OnDisk' = OnDisk
      BY DEF Tick, OnDisk
    <2>7. ASSUME files' = files PROVE OnDisk' = OnDisk
      BY <2>7 DEF OnDisk
    <2> QED
      BY <2>1, <2>2, <2>3, <2>4, <2>5, <2>6, <2>7
         DEF Next, Request, Rotate, Arrive, MemGet, MemMiss, ReadFile, FileMiss, Fetch,
             FetchFails, CreateFails, WriteFails, MemPut, RotateList, RotateStat,
             RotateEnd, Janitor, Crash
  <1>3. /\ rot.phase = "stat" /\ rot.todo = {} /\ rot.victim = None /\ Oldest(k)
        /\ None \notin Keys
    BY <1>2, MediaAssumption DEF RotateTrim, AllSeen, Inv, PassInv
  <1>4. /\ files[j].age \in Nat /\ files[k].age \in Nat
        /\ \A i \in Kept : rot.kept[i].age \in Nat
        /\ j \in Keys
    BY <1>1, KeptType, MediaAssumption DEF Inv, TypeInv, FilesOK, File, Seen
  <1>5. Settled(j)
    BY <1>3, <1>4 DEF Inv, PassInv
  <1>6. CASE files[j].age = 0
    BY <1>4, <1>6
  <1>7. CASE j \in Kept /\ files[j].age <= rot.kept[j].age
    <2>1. rot.kept[j].age <= rot.kept[k].age
      BY <1>3, <1>7 DEF Oldest
    <2> QED
      BY <1>1, <1>4, <1>7, <2>1
  <1> QED
    BY <1>5, <1>6, <1>7 DEF Settled

\* rotateCache, whatever requests write while it looks at the files and
\* removes them, takes a file that is as it saw it only when none is older.
THEOREM TakesOldest == Spec => OldestGoFirst
  <1>1. Inv /\ [Next]_vars =>
          [\A k \in AsSeen \ DOMAIN files' :
             ~Expired(k) /\ files[k].age = rot.kept[k].age
             => \A j \in OnDisk : files[j].age <= files[k].age]_vars
    BY TrimTakesOldest
  <1> QED
    BY <1>1, InvAlways, PTL DEF Spec, OldestGoFirst

LEMMA EndLeavesFit ==
  ASSUME Inv, RotateEnd
  PROVE  /\ \A k \in OnDisk : ~Expired(k)
         /\ MaxSize > 0 =>
              SumFunctionOnSet([k \in AsSeen |-> Size(files[k])], AsSeen) <= MaxSize
  <1>1. rot.phase = "stat" /\ rot.todo = {} /\ rot.victim = None /\ ~OverCap
    BY DEF RotateEnd, AllSeen, Inv, PassInv
  <1>2. /\ rot.kept \in [Kept -> Seen] /\ Kept \subseteq OnDisk /\ OnDisk \subseteq Keys
        /\ IsFiniteSet(OnDisk)
    BY KeptType DEF Inv, TypeInv, PassInv, FilesOK
  <1>3. ASSUME NEW k \in OnDisk PROVE ~Expired(k)
    <2>1. Settled(k)
      BY <1>1, <1>2, <1>3, MediaAssumption DEF Inv, PassInv
    <2>2. files[k].age = 0 => ~Expired(k)
      BY MediaAssumption DEF Expired
    <2> QED
      BY <2>1, <2>2 DEF Settled
  <1>4. ASSUME MaxSize > 0
        PROVE  SumFunctionOnSet([k \in AsSeen |-> Size(files[k])], AsSeen) <= MaxSize
    <2> DEFINE now == [k \in AsSeen |-> Size(files[k])]
    <2> DEFINE seen == [k \in Kept |-> rot.kept[k].size]
    <2>1. IsFiniteSet(Kept) /\ AsSeen \in SUBSET Kept /\ IsFiniteSet(AsSeen)
      <3>1. AsSeen \subseteq Kept
        BY DEF AsSeen
      <3> QED
        BY <1>2, <3>1, FS_Subset
    <2>2. \A k \in Kept : seen[k] \in Nat
      BY <1>2, MediaAssumption DEF Seen
    <2>3. \A k \in AsSeen : now[k] = seen[k]
      BY DEF AsSeen
    <2>4. Total = SumFunctionOnSet(seen, Kept)
      BY DEF Total
    <2> HIDE DEF now, seen
    <2>5. SumFunctionOnSet(now, AsSeen) = SumFunctionOnSet(seen, AsSeen)
      BY <2>1, <2>3, SumSame
    <2>6. SumFunctionOnSet(seen, AsSeen) <= SumFunctionOnSet(seen, Kept)
      BY <2>1, <2>2, SumSubset
    <2>7. /\ SumFunctionOnSet(seen, Kept) \in Nat
          /\ SumFunctionOnSet(seen, AsSeen) \in Nat
      BY <2>1, <2>2, SumNat
    <2>8. Total <= MaxSize
      BY <1>1, <1>4, <2>4, <2>7, MediaAssumption DEF OverCap
    <2>9. SumFunctionOnSet(now, AsSeen) <= MaxSize
      BY <2>4, <2>5, <2>6, <2>7, <2>8, MediaAssumption
    <2> QED
      BY <2>9 DEF now
  <1> QED
    BY <1>3, <1>4

\* When rotateCache is done no file is past its lifetime, though requests went
\* on creating and rewriting files, and what it saw and nobody touched since
\* is within cache.max-size.
THEOREM PassLeavesFit == Spec => PassDone
  <1>1. Inv /\ [Next]_vars =>
          [rot.phase # "sleep" /\ rot'.phase = "sleep" /\ crashes' = crashes
           => /\ \A k \in OnDisk : ~Expired(k)
              /\ MaxSize > 0 =>
                   SumFunctionOnSet([k \in AsSeen |-> Size(files[k])], AsSeen)
                     <= MaxSize]_vars
    <2> SUFFICES ASSUME Inv, Next, rot.phase # "sleep", rot'.phase = "sleep",
                        crashes' = crashes
                 PROVE  RotateEnd
      BY EndLeavesFit
    <2>1. ~Crash
      BY MediaAssumption DEF Crash, Inv, TypeInv
    <2>2. rot' # rot
      OBVIOUS
    <2>3. rot \in RotRec
      BY DEF Inv, TypeInv
    <2>4. ~RotateRemove
      BY <2>3 DEF RotateRemove, RotRec
    <2>5. ASSUME NEW k \in Keys PROVE ~RotateStat(k) /\ ~RotateTrim(k)
      BY <2>3 DEF RotateStat, RotateTrim, RotRec, AllSeen
    <2> QED
      BY <2>1, <2>2, <2>4, <2>5
         DEF Next, Request, Rotate, Arrive, MemGet, MemMiss, ReadFile, FileMiss, Fetch,
             FetchFails, CreateFile, CreateFails, Write, WriteFails, MemPut, RotateList,
             Janitor, Tick
  <1> QED
    BY <1>1, InvAlways, PTL DEF Spec, PassDone
\* A body stays in memory for two rounds of the janitor each time it is asked
\* for, and goes in the round after, whatever else happens meanwhile.
THEOREM StaysByUse == Spec => KeptByUse
  <1> DEFINE Spent(k) == mem[k].rounds = 2 * mem[k].asks
             ByUse == \A k \in InMem :
               /\ k \notin InMem' => Spent(k) \/ crashes' # crashes
               /\ Round /\ Spent(k) => k \notin InMem'
  <1>1. Inv /\ [Next]_vars => [ByUse]_vars
    <2> SUFFICES ASSUME Inv, Next, NEW k \in InMem
                 PROVE  /\ k \notin InMem' => Spent(k) \/ crashes' # crashes
                        /\ Round /\ Spent(k) => k \notin InMem'
      OBVIOUS
    <2>1. mem[k] \in Body /\ Scored(mem[k])
      BY DEF Inv, TypeInv, MemOK
    <2>2. mem[k].score > 0 <=> ~Spent(k)
      BY <2>1 DEF Body, Scored
    <2>3. CASE Janitor
      <3>1. InMem' = {j \in InMem : mem[j].score > 0}
        BY <2>3 DEF Janitor, InMem
      <3> QED
        BY <2>2, <3>1
    <2>4. CASE Crash
      <3>1. crashes' # crashes
        BY <2>4 DEF Crash, Inv, TypeInv
      <3> QED
        BY <3>1 DEF Round
    <2>5. CASE UNCHANGED mem
      BY <2>5 DEF Round, InMem
    <2>6. ASSUME NEW r \in Reqs, MemGet(r) \/ MemPut(r)
          PROVE  InMem \subseteq InMem' /\ ~Round
      <3>1. InMem \subseteq InMem'
        BY <2>6 DEF MemGet, MemPut, With, InMem
      <3>2. req' # req
        <4>1. req[r].step # "idle" /\ req'[r].step = "idle"
          BY <2>6 DEF MemGet, MemPut, At, Leave, Idle, Inv, TypeInv, ReqOK
        <4> QED
          BY <4>1
      <3> QED
        BY <3>1, <3>2 DEF Round
    <2>7. \/ Janitor \/ Crash \/ UNCHANGED mem
          \/ \E r \in Reqs : MemGet(r) \/ MemPut(r)
      BY DEF Next, Request, Rotate, Arrive, MemMiss, ReadFile, FileMiss, Fetch,
             FetchFails, CreateFile, CreateFails, Write, WriteFails, RotateList,
             RotateStat, RotateRemove, RotateTrim, RotateEnd, Unlink, Tick
    <2> QED
      BY <2>3, <2>4, <2>5, <2>6, <2>7
  <1> QED
    BY <1>1, InvAlways, PTL DEF Spec, KeptByUse
=============================================================================
