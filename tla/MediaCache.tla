----------------------------- MODULE MediaCache -----------------------------
(***************************************************************************)
(* The cache of proxied images: src/app/cache.go, and Emojitar of          *)
(* src/app/wrapper.go, which is the same walk for avatars.  Requests read  *)
(* memory, then the file, then fetch and write the file; the janitor ages  *)
(* memory; the rotation loop removes files.  A request's next step:        *)
(*                                                                         *)
(*   memory  look in tempFS              create  open the file, truncating *)
(*   file    read the file               write   write the next piece      *)
(*   fetch   download the image          put     put the body in tempFS    *)
(*                                                                         *)
(* A body is written piece by piece, and a body in hand, a file and a body *)
(* in memory are the sets of pieces that are there.  A read is one step:   *)
(* what a read among writes returns, a read between two of them returns.   *)
(***************************************************************************)
EXTENDS Integers, FiniteSets, FiniteSetsExt

CONSTANTS
  Reqs,       \* request goroutines
  Images,     \* media keys
  Avatars,    \* keys of avatars and emotes
  None,       \* no key
  Pieces,     \* pieces in a body
  MemCache,   \* cache.memcache
  Lifetime,   \* cache.lifetime in ticks; 0 keeps files
  MaxSize,    \* cache.max-size in pieces; 0 is no cap
  MaxAge,     \* bound on the age kept of a file
  MaxAsks,    \* bound on how often a body in memory is asked for
  MaxCrashes  \* bound on restarts

Keys == Images \cup Avatars

ASSUME MediaAssumption ==
  /\ None \notin Keys
  /\ Pieces \in Nat \ {0}
  /\ MemCache \in BOOLEAN
  /\ Lifetime \in Nat /\ MaxSize \in Nat
  /\ MaxAge \in Nat /\ MaxAge >= Lifetime
  /\ MaxAsks \in Nat /\ MaxCrashes \in Nat

Whole == 1..Pieces

VARIABLES
  req,      \* req[r]: its next step, its key, the body it has, the piece it
            \* writes next, and whether the file it writes has its name still
  files,    \* the files in the directory, by key
  damaged,  \* the keys of files of which a write was cut short
  mem,      \* tempFS: the bodies in memory, by key, with their scores; asks and
            \* rounds, which are not in the code, say what became of one since
            \* it was put: how often it was asked for and outlived the janitor
  rot,      \* the rotation pass: its phase, what is left to look at, the file
            \* it is about to remove, and the files it keeps as it saw them
  crashes   \* restarts so far

vars == <<req, files, damaged, mem, rot, crashes>>

OnDisk == DOMAIN files
InMem  == DOMAIN mem

Nothing == [k \in {} |-> 0]
Idle    == [step |-> "idle", key |-> None, body |-> {}, pos |-> 1, linked |-> FALSE]
Resting == [phase |-> "sleep", todo |-> {}, victim |-> None, kept |-> Nothing]

\* f with x at k.
With(f, k, x) == [j \in DOMAIN f \cup {k} |-> IF j = k THEN x ELSE f[j]]

Size(f) == Max(f.parts \cup {0})

Init ==
  /\ req = [r \in Reqs |-> Idle]
  /\ files = Nothing
  /\ damaged = {}
  /\ mem = Nothing
  /\ rot = Resting
  /\ crashes = 0

-----------------------------------------------------------------------------
(* A request.                                                              *)

At(r, s)   == req[r].step = s
Goto(r, s) == req' = [req EXCEPT ![r].step = s]
Leave(r)   == req' = [req EXCEPT ![r] = Idle]

Arrive(r) ==
  /\ At(r, "idle")
  /\ \E k \in Keys :
       req' = [req EXCEPT ![r].step = "memory", ![r].key = k]
  /\ UNCHANGED <<files, damaged, mem, rot, crashes>>

\* What tempFS holds of a key.
Entry(body, score, asks, rounds) ==
  [body |-> body, score |-> score, asks |-> asks, rounds |-> rounds]

\* Mutant of MemGet: a hit is worth one point.
MemGetAPoint(r) ==
  LET k == req[r].key IN
  /\ At(r, "memory")
  /\ MemCache /\ k \in InMem
  /\ mem[k].asks < MaxAsks
  /\ mem' = [mem EXCEPT ![k] = Entry(@.body, @.score + 1, @.asks + 1, @.rounds)]
  /\ Leave(r)
  /\ UNCHANGED <<files, damaged, rot, crashes>>

\* memGet: a hit raises the score.
MemGet(r) ==
  LET k == req[r].key IN
  /\ At(r, "memory")
  /\ MemCache /\ k \in InMem
  /\ mem[k].asks < MaxAsks
  /\ mem' = [mem EXCEPT ![k] = Entry(@.body, @.score + 2, @.asks + 1, @.rounds)]
  /\ Leave(r)
  /\ UNCHANGED <<files, damaged, rot, crashes>>

MemMiss(r) ==
  /\ At(r, "memory")
  /\ ~MemCache \/ req[r].key \notin InMem
  /\ Goto(r, "file")
  /\ UNCHANGED <<files, damaged, mem, rot, crashes>>

\* An empty file is a hit for an image only.
FileHit(k) == k \in OnDisk /\ (k \in Avatars => files[k].parts # {})

\* Mutant of ReadFile: a hit touches the file, as an LRU would.
ReadFileTouching(r) ==
  LET k == req[r].key IN
  /\ At(r, "file")
  /\ FileHit(k)
  /\ files' = [files EXCEPT ![k].age = 0]
  /\ req' = [req EXCEPT ![r].step = "put", ![r].body = files[k].parts]
  /\ UNCHANGED <<damaged, mem, rot, crashes>>

ReadFile(r) ==
  LET k == req[r].key IN
  /\ At(r, "file")
  /\ FileHit(k)
  /\ req' = [req EXCEPT ![r].step = "put", ![r].body = files[k].parts]
  /\ UNCHANGED <<files, damaged, mem, rot, crashes>>

\* No file, or one that cannot be opened or read.
FileMiss(r) ==
  /\ At(r, "file")
  /\ Goto(r, "fetch")
  /\ UNCHANGED <<files, damaged, mem, rot, crashes>>

Fetch(r) ==
  /\ At(r, "fetch")
  /\ req' = [req EXCEPT ![r].step = "create", ![r].body = Whole]
  /\ UNCHANGED <<files, damaged, mem, rot, crashes>>

\* Not 200, not an image, or no answer: nothing is stored.
FetchFails(r) ==
  /\ At(r, "fetch")
  /\ Leave(r)
  /\ UNCHANGED <<files, damaged, mem, rot, crashes>>

\* os.WriteFile opens with O_CREATE and O_TRUNC.
CreateFile(r) ==
  LET k == req[r].key IN
  /\ At(r, "create")
  /\ files' = With(files, k, [parts |-> {}, age |-> 0])
  /\ damaged' = damaged \ {k}
  /\ req' = [req EXCEPT ![r].step = "write", ![r].linked = TRUE]
  /\ UNCHANGED <<mem, rot, crashes>>

\* The error is logged and the body served all the same.
CreateFails(r) ==
  /\ At(r, "create")
  /\ Goto(r, "put")
  /\ UNCHANGED <<files, damaged, mem, rot, crashes>>

\* Mutant of Wrote: the file is open for appending, so a piece is out of place,
\* and others with it, when another request writes too.
WroteAtEnd(f, p) ==
  [parts |-> IF Size(f) = p - 1 THEN f.parts \cup {p} ELSE {Pieces}, age |-> 0]

\* Mutant of Wrote: offsets start at one piece.
WroteShifted(f, p) == [parts |-> f.parts \cup {p + 1}, age |-> 0]

\* The file f once piece p is written, at its place.
Wrote(f, p) == [parts |-> f.parts \cup {p}, age |-> 0]

\* The next piece, to the file opened, which may have no name any more.
Write(r) ==
  LET k == req[r].key  p == req[r].pos IN
  /\ At(r, "write")
  /\ files' = IF req[r].linked THEN [files EXCEPT ![k] = Wrote(@, p)] ELSE files
  /\ req' = [req EXCEPT ![r].step = IF p = Pieces THEN "put" ELSE "write",
                        ![r].pos = p + 1]
  /\ UNCHANGED <<damaged, mem, rot, crashes>>

\* A full disk: what was written stays.
WriteFails(r) ==
  /\ At(r, "write")
  /\ damaged' = IF req[r].linked THEN damaged \cup {req[r].key} ELSE damaged
  /\ Goto(r, "put")
  /\ UNCHANGED <<files, mem, rot, crashes>>

\* memPut, which an empty body does not pass, and the response.  What was there
\* of the key is lost with its score.
MemPut(r) ==
  LET b == req[r].body IN
  /\ At(r, "put")
  /\ mem' = IF MemCache /\ b # {}
            THEN With(mem, req[r].key, Entry(b, 0, 0, 0))
            ELSE mem
  /\ Leave(r)
  /\ UNCHANGED <<files, damaged, rot, crashes>>

Request(r) ==
  \/ MemGet(r) \/ MemMiss(r) \/ ReadFile(r) \/ FileMiss(r)
  \/ Fetch(r) \/ FetchFails(r)
  \/ CreateFile(r) \/ CreateFails(r) \/ Write(r) \/ WriteFails(r)
  \/ MemPut(r)

-----------------------------------------------------------------------------
(* rotateCache, beside the requests: one step for each file it looks at or *)
(* removes.                                                                *)

RotateList ==
  /\ rot.phase = "sleep"
  /\ rot' = [Resting EXCEPT !.phase = "stat", !.todo = OnDisk]
  /\ UNCHANGED <<req, files, damaged, mem, crashes>>

Expired(k) == Lifetime > 0 /\ files[k].age >= Lifetime

\* A file that expired is removed next, any other is kept as it is now.
RotateStat(k) ==
  LET seen == [size |-> Size(files[k]), age |-> files[k].age] IN
  /\ rot.phase = "stat"
  /\ k \in rot.todo
  /\ rot' = IF Expired(k)
            THEN [rot EXCEPT !.todo = @ \ {k}, !.phase = "remove", !.victim = k]
            ELSE [rot EXCEPT !.todo = @ \ {k}, !.kept = With(@, k, seen)]
  /\ UNCHANGED <<req, files, damaged, mem, crashes>>

\* os.Remove: whoever is writing the file goes on writing it, with no name.
Unlink(k) ==
  /\ files' = [j \in OnDisk \ {k} |-> files[j]]
  /\ damaged' = damaged \ {k}
  /\ req' = [r \in Reqs |-> [req[r] EXCEPT !.linked = @ /\ req[r].key # k]]
  /\ UNCHANGED <<mem, crashes>>

RotateRemove ==
  /\ rot.phase = "remove"
  /\ Unlink(rot.victim)
  /\ rot' = [rot EXCEPT !.phase = "stat", !.victim = None]

\* Mutant of AllSeen: a file that cannot be looked at ends the loop.
SomeSeen == rot.phase = "stat"

AllSeen == rot.phase = "stat" /\ rot.todo = {}

Kept == DOMAIN rot.kept

\* Mutant of Total: files are counted, not their bytes.
TotalFiles == Cardinality(Kept)

\* What the pass counts as in use.
Total == SumFunctionOnSet([k \in Kept |-> rot.kept[k].size], Kept)

OverCap == MaxSize > 0 /\ Total > MaxSize

\* Mutant of Oldest: sorted the other way round.
Youngest(k) == \A j \in Kept : rot.kept[j].age >= rot.kept[k].age

Oldest(k) == \A j \in Kept : rot.kept[j].age <= rot.kept[k].age

RotateTrim(k) ==
  /\ AllSeen /\ OverCap
  /\ k \in Kept /\ Oldest(k)
  /\ Unlink(k)
  /\ rot' = [rot EXCEPT !.kept = [j \in Kept \ {k} |-> @[j]]]

RotateEnd ==
  /\ AllSeen /\ ~OverCap
  /\ rot' = Resting
  /\ UNCHANGED <<req, files, damaged, mem, crashes>>

Rotate ==
  \/ RotateList \/ RotateRemove \/ RotateEnd
  \/ \E k \in Keys : RotateStat(k) \/ RotateTrim(k)

-----------------------------------------------------------------------------
(* Memory, time and restarts.                                              *)

\* Mutant of Janitor: a body out of points stays.
JanitorKeeps ==
  /\ InMem # {}
  /\ mem' = [k \in InMem |->
               Entry(mem[k].body, IF mem[k].score > 0 THEN mem[k].score - 1 ELSE 0,
                     mem[k].asks, mem[k].rounds + 1)]
  /\ UNCHANGED <<req, files, damaged, rot, crashes>>

\* ageMemCache, which holds the lock all the while: bodies out of points go,
\* the others lose one.
Janitor ==
  /\ InMem # {}
  /\ mem' = [k \in {j \in InMem : mem[j].score > 0} |->
               Entry(mem[k].body, mem[k].score - 1, mem[k].asks, mem[k].rounds + 1)]
  /\ UNCHANGED <<req, files, damaged, rot, crashes>>

\* Files grow older, for at most MaxAge here; a pass is over within a tick.
Tick ==
  /\ rot.phase = "sleep"
  /\ \E k \in OnDisk : files[k].age < MaxAge
  /\ files' = [k \in OnDisk |->
                 [files[k] EXCEPT !.age = IF @ < MaxAge THEN @ + 1 ELSE @]]
  /\ UNCHANGED <<req, damaged, mem, rot, crashes>>

\* The requests in the middle of writing the file of k.
Writing(k) == {r \in Reqs : At(r, "write") /\ req[r].linked /\ req[r].key = k}

\* The process dies, in the middle of what it writes, and starts again.
Crash ==
  /\ crashes < MaxCrashes
  /\ crashes' = crashes + 1
  /\ req' = [r \in Reqs |-> Idle]
  /\ damaged' = damaged \cup {k \in OnDisk : Writing(k) # {}}
  /\ mem' = Nothing
  /\ rot' = Resting
  /\ UNCHANGED files

Next ==
  \/ \E r \in Reqs : Arrive(r) \/ Request(r)
  \/ Rotate
  \/ Janitor
  \/ Tick
  \/ Crash

Spec == Init /\ [][Next]_vars

\* A goroutine that can go on does, the janitor and the rotation are loops,
\* and time passes between two passes.
Fairness ==
  /\ \A r \in Reqs : WF_vars(Request(r))
  /\ WF_vars(Rotate)
  /\ WF_vars(Janitor)
  /\ SF_vars(Tick)

FairSpec == Spec /\ Fairness

-----------------------------------------------------------------------------
(* Properties.                                                             *)

Steps == {"idle", "memory", "file", "fetch", "create", "write", "put"}

RequestRec == [step : Steps, key : Keys \cup {None}, body : SUBSET Whole,
               pos : 1..(Pieces + 1), linked : BOOLEAN]
File == [parts : SUBSET Whole, age : 0..MaxAge]
Body == [body : SUBSET Whole, score : Nat, asks : 0..MaxAsks, rounds : Nat]
Seen == [size : 0..Pieces, age : 0..MaxAge]

\* Every variable has its type, and a file that is written has a name unless
\* it was removed (os.WriteFile in loadOrFetchMedia and storeBody).
TypeOK ==
  /\ req \in [Reqs -> RequestRec]
  /\ \A r \in Reqs : req[r].linked => req[r].key \in OnDisk
  /\ OnDisk \subseteq Keys /\ files \in [OnDisk -> File]
  /\ damaged \subseteq OnDisk
  /\ InMem \subseteq Keys /\ mem \in [InMem -> Body]
  /\ rot.phase \in {"sleep", "stat", "remove"}
  /\ rot.todo \subseteq Keys /\ rot.victim \in Keys \cup {None}
  /\ Kept \subseteq Keys /\ rot.kept \in [Kept -> Seen]
  /\ crashes \in 0..MaxCrashes

\* Two requests may write one file, each truncating what the other wrote, and
\* the rotation may remove it under both.  Once nobody writes it, a file holds
\* a whole body, unless a write to it failed or was cut short by a crash.
AtRestWhole ==
  \A k \in OnDisk \ damaged : Writing(k) = {} => files[k].parts = Whole

\* The files the pass saw, with the size it saw.
AsSeen == {k \in OnDisk \cap Kept : Size(files[k]) = rot.kept[k].size}

\* After a pass every file is within its lifetime, and the files that the pass
\* saw as they still are fit the cap, whatever requests did beside it.
PassDone ==
  [][rot.phase # "sleep" /\ rot'.phase = "sleep" /\ crashes' = crashes
     => /\ \A k \in OnDisk : ~Expired(k)
        /\ MaxSize > 0 =>
             SumFunctionOnSet([k \in AsSeen |-> Size(files[k])], AsSeen)
               <= MaxSize]_vars

\* A file within its lifetime that nobody wrote to since the pass saw it is
\* removed only when no file in the directory is older, whatever requests
\* created or wrote meanwhile (the sort of rotateCache).
OldestGoFirst ==
  [][\A k \in AsSeen \ DOMAIN files' :
       ~Expired(k) /\ files[k].age = rot.kept[k].age
       => \A j \in OnDisk : files[j].age <= files[k].age]_vars

\* With a lifetime, a file that a failed write or a crash left damaged is not
\* served for ever: it is removed or written again.
DamageExpires ==
  \A k \in Keys : k \in damaged ~> k \notin damaged

\* A round of the janitor: memory changes and no request moves.
Round == mem' # mem /\ UNCHANGED <<req, crashes>>

\* A body lasts in memory for two rounds of the janitor for each time it was
\* asked for since it was put there, and the next round drops it, no sooner
\* (but for a restart) and no later.  One that nobody asked for goes in the
\* first round, one asked for often stays many rounds without being asked for
\* again, and one that a second request puts again has to earn its rounds anew.
KeptByUse ==
  [][\A k \in InMem :
       LET spent == mem[k].rounds = 2 * mem[k].asks IN
       /\ k \notin InMem' => spent \/ crashes' # crashes
       /\ Round /\ spent => k \notin InMem']_vars
=============================================================================
