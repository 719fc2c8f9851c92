------------------------- MODULE SftpSessions_proofs -------------------------
(* What holds of SftpSessions for any number of requests, channels, slots, *)
(* parts and blocks.                                                       *)
EXTENDS SftpSessions, TLAPS, FiniteSetTheorems, SequenceTheorems

Kinds == {"upload", "download", "parallel"}
Staging == {"stage", "copy", "replace", "cleanup", "sweep"}
Uploading == {"register", "count", "recheck"} \cup Staging
Locked == {"known", "first", "publish"}
UserPcs == {"pool", "permit", "open", "stream", "spawn"} \cup Uploading
ReqPcs == {"begin", "lock", "find", "done"} \cup Locked \cup UserPcs
Channels == [r : Nat, n : Nat]

Record ==
  [listed : BOOLEAN, closed : BOOLEAN, pool : SUBSET Channels, free : Nat, uploads : Nat,
   builder : {"waiting", "opening", "results", "locking", "ended"}, fresh : SUBSET Channels]
Request ==
  [kind : Kinds, pc : ReqPcs, r : Nat, ch : Channels \cup {None}, parts : 1..Slots,
   front : Nat \ {0}, got : Seq(Nat), reply : {None, "ok", "error", "gone"}]
WorkerRecord ==
  [pc : {"open", "read", "send", "ended"}, ch : Channels, next : Nat, last : Nat, item : Nat,
   q : Seq(Nat)]

ConnType == conn \in [up : BOOLEAN, lost : BOOLEAN, faults : Nat]
RecsType == recs \in Seq(Record)
ReqType == req \in [Requests -> Request]
WorkType == work \in [Requests -> Seq(WorkerRecord)]
CleanerType ==
  cleaner \in [pc : {"idle", "lock", "abort", "wait", "take", "closed"}, r : Nat, late : BOOLEAN]
SftpTypes ==
  /\ ConnType /\ RecsType /\ ReqType /\ WorkType /\ CleanerType
  /\ openLock \in Requests \cup {None} /\ chans \in SUBSET Channels
  /\ temp \in [Requests -> {None, "partial", "whole"}]

(* What a request is doing fits its kind.                                  *)
KindsFit ==
  \A p \in Requests :
    /\ req[p].pc \in Uploading => req[p].kind = "upload"
    /\ req[p].pc = "open" => req[p].kind = "download"
    /\ req[p].pc = "stream" => req[p].kind \in {"download", "parallel"}
    /\ req[p].pc \in {"pool", "spawn"} => req[p].kind = "parallel"
    /\ req[p].kind # "parallel" => req[p].parts = 1 /\ work[p] = <<>>
    /\ work[p] # <<>> => req[p].pc \in {"spawn", "stream", "done"}
    /\ req[p].pc = "spawn" => Len(work[p]) < req[p].parts
    /\ req[p].pc = "stream" /\ req[p].kind = "parallel" => Len(work[p]) = req[p].parts
    /\ req[p].pc \in Locked \cup {"begin", "lock", "find", "pool", "permit", "register", "count", "recheck",
                       "open", "spawn"} => req[p].ch = None
    /\ req[p].reply = "ok" => req[p].pc = "done"

(* The lock of the connection is held from the look at the sessions to the *)
(* publication of the new one.                                             *)
LockHeld == \A p \in Requests : openLock = p <=> req[p].pc \in Locked

(* A session that owns its channels: published, about to be, or being      *)
(* closed.                                                                 *)
Closing(r) == cleaner.r = r /\ cleaner.pc \in {"abort", "wait", "take"}
Live(r) == recs[r].listed \/ recs[r].builder = "waiting" \/ Closing(r)

Own(r) == {Channel(r, n) : n \in 1..PoolSize}

(* What a record of a session is made of at each point of its life.        *)
RecordFits(r) ==
  /\ recs[r].listed => openLock = None /\ ~recs[r].closed /\ recs[r].builder # "waiting"
                       /\ Channel(r, 1) \in recs[r].pool
  /\ recs[r].closed => cleaner.r = r
  /\ recs[r].builder = "waiting" =>
       /\ ~recs[r].closed
       /\ \E p \in Requests : req[p].pc = "publish" /\ req[p].r = r
  /\ recs[r].builder \in {"waiting", "opening"} => recs[r].pool = {Channel(r, 1)}
  /\ recs[r].builder \in {"opening", "results", "locking"} =>
       recs[r].listed \/ (cleaner.pc = "abort" /\ cleaner.r = r)
  /\ recs[r].builder \notin {"results", "locking"} => recs[r].fresh = {}
  /\ recs[r].pool \cap recs[r].fresh = {}
  /\ recs[r].pool \cup recs[r].fresh \subseteq Own(r)
RecordLife == \A r \in DOMAIN recs : RecordFits(r)

OneListed == \A r, s \in DOMAIN recs : recs[r].listed /\ recs[s].listed => r = s

Publishing ==
  \A p \in Requests : req[p].pc = "publish" =>
    req[p].r \in DOMAIN recs /\ recs[req[p].r].builder = "waiting"

(* The close of the sessions is behind every open in flight, and there is  *)
(* none after it.                                                          *)
CleanerLate ==
  /\ cleaner.pc = "idle" <=> conn.up
  /\ cleaner.pc \in {"idle", "lock", "abort", "wait"} => ~cleaner.late
  /\ cleaner.pc \in {"idle", "lock"} => \A r \in DOMAIN recs : ~recs[r].closed
  /\ cleaner.pc \in {"abort", "wait", "take", "closed"} =>
       /\ \A r \in DOMAIN recs : ~recs[r].listed
       /\ \A p \in Requests : req[p].pc \notin {"first", "publish"}
  /\ cleaner.pc \in {"abort", "wait", "take"} => cleaner.r \in DOMAIN recs /\ recs[cleaner.r].closed
  /\ cleaner.pc \in {"wait", "take"} => recs[cleaner.r].builder = "ended"

(* An open channel belongs to a session that owns its channels, and while  *)
(* the transport lasts these are open.                                     *)
ChannelsOwned ==
  /\ \A c \in chans : /\ c.r \in DOMAIN recs /\ Live(c.r)
                      /\ c \in recs[c.r].pool \cup recs[c.r].fresh
  /\ \A r \in DOMAIN recs : Live(r) /\ ~conn.lost => recs[r].pool \cup recs[r].fresh \subseteq chans

(* A transfer uses a session that was published, and a channel of its pool *)
(* unless the session has been closed.                                     *)
HeldBy(p, c) ==
  /\ req[p].r \in DOMAIN recs
  /\ recs[req[p].r].closed \/ (recs[req[p].r].listed /\ c \in recs[req[p].r].pool)
UsersHold ==
  \A p \in Requests :
    /\ req[p].pc \in UserPcs => /\ req[p].r \in DOMAIN recs
                                /\ recs[req[p].r].listed \/ recs[req[p].r].closed
    /\ req[p].pc # "done" /\ req[p].ch # None /\ ~Streaming(p) => HeldBy(p, req[p].ch)
    /\ \A i \in DOMAIN work[p] : ~Ended(work[p][i]) => HeldBy(p, work[p][i].ch)
    /\ work[p] # <<>> => req[p].r \in DOMAIN recs

(* The uploads a session counts, and what the close can rely on: an upload *)
(* with a staging file has its channel until the close gives up.           *)
Counted(r) == {p \in Requests : req[p].pc \in {"recheck"} \cup Staging /\ req[p].r = r}
UploadsCounted == \A r \in DOMAIN recs : recs[r].uploads = Cardinality(Counted(r))
StagingServed ==
  \A p \in Requests : req[p].pc \in Staging /\ ~cleaner.late =>
    /\ req[p].ch \in recs[req[p].r].pool
    /\ recs[req[p].r].closed => cleaner.pc \in {"abort", "wait"}
StagingKnown ==
  \A p \in Requests : temp[p] # None =>
    \/ req[p].pc \in {"copy", "replace", "cleanup", "sweep"}
    \/ req[p].pc = "done" /\ (cleaner.late \/ conn.lost)

(* The slots of a session: those that are not free are held, part by part, *)
(* by its transfers.                                                       *)
Holding(p) ==
  \/ req[p].pc \in {"register", "count", "recheck", "stage", "copy", "replace", "cleanup", "open",
                    "spawn"}
  \/ req[p].pc = "stream" /\ req[p].kind = "download"
  \/ \E i \in DOMAIN work[p] : ~Ended(work[p][i])
HeldSlots(r) ==
  {h \in Requests \X (1..Slots) : Holding(h[1]) /\ req[h[1]].r = r /\ h[2] <= req[h[1]].parts}
SlotsHeld == \A r \in DOMAIN recs : recs[r].free + Cardinality(HeldSlots(r)) = Slots

(* The blocks of a download: those delivered, followed by those a worker   *)
(* has queued, are consecutive, and a worker that has ended has read its   *)
(* range or says so.                                                       *)
Due(p, i) == IF i = req[p].front THEN Len(req[p].got) + 1 ELSE RangeStart(p, i)
InRange(p, i, w) ==
  /\ w.last = RangeEnd(p, i)
  /\ \A j \in DOMAIN w.q : \/ w.q[j] = Due(p, i) + (j - 1)
                           \/ j = Len(w.q) /\ w.q[j] = Error /\ Ended(w)
  /\ ~Ended(w) => w.next = Due(p, i) + Len(w.q) /\ w.next <= w.last + 1
                  /\ \A j \in DOMAIN w.q : w.q[j] # Error
  /\ w.pc = "send" => w.item = Error \/ (w.item = w.next /\ w.next <= w.last)
  /\ Ended(w) => \/ Due(p, i) + Len(w.q) = w.last + 1
                 \/ w.q # <<>> /\ w.q[Len(w.q)] = Error
Delivered ==
  \A p \in Requests :
    /\ \A k \in DOMAIN req[p].got : req[p].got[k] = k
    /\ req[p].pc \notin {"stream", "done"} => req[p].got = <<>> /\ req[p].front = 1
    /\ req[p].pc = "stream" /\ req[p].kind = "download" => Len(req[p].got) <= Blocks
    /\ req[p].reply = "ok" /\ req[p].kind # "upload" => Len(req[p].got) = Blocks
Ordered(p) ==
  req[p].pc \in {"spawn", "stream"} /\ req[p].kind = "parallel" =>
    /\ req[p].front <= req[p].parts + 1
    /\ req[p].front = req[p].parts + 1 => Len(req[p].got) = Blocks
    /\ \A i \in DOMAIN work[p] : i >= req[p].front => InRange(p, i, work[p][i])
InOrder == \A p \in Requests : Ordered(p)

SftpInv ==
  /\ SftpTypes /\ KindsFit /\ LockHeld /\ RecordLife /\ OneListed /\ Publishing /\ CleanerLate
  /\ ChannelsOwned /\ UsersHold /\ UploadsCounted /\ StagingServed /\ StagingKnown
  /\ SlotsHeld /\ Delivered /\ InOrder

-----------------------------------------------------------------------------
(* Updates of the records, and of one request.                             *)

LEMMA RecordChanged ==
  ASSUME RecsType, NEW r \in DOMAIN recs, NEW new \in Record, recs' = [recs EXCEPT ![r] = new]
  PROVE /\ RecsType' /\ Len(recs') = Len(recs) /\ DOMAIN recs' = DOMAIN recs
        /\ \A s \in DOMAIN recs : recs'[s] = IF s = r THEN new ELSE recs[s]
<1>1. recs \in Seq(Record) /\ r \in 1..Len(recs) /\ DOMAIN recs = 1..Len(recs)
  BY DEF RecsType
<1>2. recs' \in Seq(Record) /\ Len(recs') = Len(recs)
  BY <1>1, ExceptSeq, Zenon
<1> QED BY <1>1, <1>2 DEF RecsType

LEMMA Typed ==
  ASSUME RecsType, NEW r \in DOMAIN recs
  PROVE recs[r] \in Record /\ r \in Nat \ {0} /\ Len(recs) \in Nat /\ DOMAIN recs = 1..Len(recs)
BY ElementOfSeq DEF RecsType

LEMMA OwnFinite ==
  ASSUME NEW r
  PROVE IsFiniteSet(Own(r)) /\ \A c \in Own(r) : c.r = r
<1> DEFINE f == [n \in 1..PoolSize |-> Channel(r, n)]
<1>1. 1 \in Int /\ PoolSize \in Int
  BY SftpAssumption
<1>2. IsFiniteSet(1..PoolSize)
  BY <1>1, FS_Interval
<1>3. f \in Surjection(1..PoolSize, Own(r))
  BY DEF Surjection, Own
<1>4. IsFiniteSet(Own(r))
  BY <1>2, <1>3, FS_Surjection
<1> QED BY <1>4 DEF Own, Channel

(* What a step on the accounts of a session leaves alone.                  *)
Shell(s) ==
  /\ recs'[s].listed = recs[s].listed /\ recs'[s].closed = recs[s].closed
  /\ recs'[s].pool = recs[s].pool /\ recs'[s].fresh = recs[s].fresh
  /\ recs'[s].builder = recs[s].builder
Accounts(r, free, uploads) ==
  /\ RecsType' /\ DOMAIN recs' = DOMAIN recs
  /\ \A s \in DOMAIN recs : /\ Shell(s)
                            /\ recs'[s].free = IF s = r THEN free ELSE recs[s].free
                            /\ recs'[s].uploads = IF s = r THEN uploads ELSE recs[s].uploads

LEMMA SameAccounts ==
  ASSUME RecsType, NEW r \in DOMAIN recs, recs' = recs
  PROVE Accounts(r, recs[r].free, recs[r].uploads)
BY DEF Accounts, Shell, RecsType

LEMMA FreeSet ==
  ASSUME RecsType, NEW r \in DOMAIN recs, NEW n \in Nat, recs' = [recs EXCEPT ![r].free = n]
  PROVE Accounts(r, n, recs[r].uploads)
<1> DEFINE new == [recs[r] EXCEPT !.free = n]
<1>1. /\ new \in Record /\ new.free = n /\ new.uploads = recs[r].uploads
      /\ new.listed = recs[r].listed /\ new.closed = recs[r].closed /\ new.pool = recs[r].pool
      /\ new.fresh = recs[r].fresh /\ new.builder = recs[r].builder
  BY Typed DEF Record
<1>2. recs' = [recs EXCEPT ![r] = new]
  OBVIOUS
<1> HIDE DEF new
<1> QED BY <1>1, <1>2, RecordChanged DEF Accounts, Shell

LEMMA UploadsSet ==
  ASSUME RecsType, NEW r \in DOMAIN recs, NEW n \in Nat, recs' = [recs EXCEPT ![r].uploads = n]
  PROVE Accounts(r, recs[r].free, n)
<1> DEFINE new == [recs[r] EXCEPT !.uploads = n]
<1>1. /\ new \in Record /\ new.free = recs[r].free /\ new.uploads = n
      /\ new.listed = recs[r].listed /\ new.closed = recs[r].closed /\ new.pool = recs[r].pool
      /\ new.fresh = recs[r].fresh /\ new.builder = recs[r].builder
  BY Typed DEF Record
<1>2. recs' = [recs EXCEPT ![r] = new]
  OBVIOUS
<1> HIDE DEF new
<1> QED BY <1>1, <1>2, RecordChanged DEF Accounts, Shell

LEMMA BothSet ==
  ASSUME RecsType, NEW r \in DOMAIN recs, NEW n \in Nat, NEW m \in Nat,
         recs' = [recs EXCEPT ![r].free = n, ![r].uploads = m]
  PROVE Accounts(r, n, m)
<1> DEFINE new == [recs[r] EXCEPT !.free = n, !.uploads = m]
<1>1. /\ new \in Record /\ new.free = n /\ new.uploads = m
      /\ new.listed = recs[r].listed /\ new.closed = recs[r].closed /\ new.pool = recs[r].pool
      /\ new.fresh = recs[r].fresh /\ new.builder = recs[r].builder
  BY Typed DEF Record
<1>2. recs' = [recs EXCEPT ![r] = new]
  BY Typed DEF Record
<1> HIDE DEF new
<1> QED BY <1>1, <1>2, RecordChanged DEF Accounts, Shell

LEMMA Gives ==
  ASSUME RecsType, NEW r \in DOMAIN recs, NEW n \in Nat, recs' = Give(r, n)
  PROVE Accounts(r, recs[r].free + n, recs[r].uploads)
<1>1. recs[r].free \in Nat
  BY Typed DEF Record
<1>2. recs' = [recs EXCEPT ![r].free = recs[r].free + n] /\ recs[r].free + n \in Nat
  BY <1>1 DEF Give
<1> QED BY <1>2, FreeSet

LEMMA Unregisters ==
  ASSUME RecsType, NEW r \in DOMAIN recs, recs[r].uploads > 0, recs' = Unregister(r)
  PROVE Accounts(r, recs[r].free, recs[r].uploads - 1)
<1>1. recs[r].uploads \in Nat
  BY Typed DEF Record
<1>2. recs' = [recs EXCEPT ![r].uploads = recs[r].uploads - 1] /\ recs[r].uploads - 1 \in Nat
  BY <1>1 DEF Unregister
<1> QED BY <1>2, UploadsSet

LEMMA GivesUp ==
  ASSUME RecsType, NEW r \in DOMAIN recs, recs[r].uploads > 0, recs' = GiveUp(r)
  PROVE Accounts(r, recs[r].free + 1, recs[r].uploads - 1)
<1>1. recs[r].uploads \in Nat /\ recs[r].free \in Nat
  BY Typed DEF Record
<1>2. /\ recs' = [recs EXCEPT ![r].free = recs[r].free + 1, ![r].uploads = recs[r].uploads - 1]
      /\ recs[r].uploads - 1 \in Nat /\ recs[r].free + 1 \in Nat
  BY <1>1, Typed DEF GiveUp
<1> QED BY <1>2, BothSet

(* Request p moves to pc; what it has is given field by field.             *)
Moves(p, pc, r, ch, parts, front, got, reply) ==
  /\ ReqType'
  /\ \A q \in Requests : q # p => req'[q] = req[q]
  /\ req'[p].kind = req[p].kind /\ req'[p].pc = pc /\ req'[p].r = r /\ req'[p].ch = ch
  /\ req'[p].parts = parts /\ req'[p].front = front /\ req'[p].got = got /\ req'[p].reply = reply
Advances(p, pc) ==
  Moves(p, pc, req[p].r, req[p].ch, req[p].parts, req[p].front, req[p].got, req[p].reply)
Leaves(p, reply) ==
  Moves(p, "done", req[p].r, None, req[p].parts, 1, IF reply = "ok" THEN req[p].got ELSE <<>>, reply)

LEMMA RequestChanged ==
  ASSUME ReqType, NEW p \in Requests, NEW new \in Request, new.kind = req[p].kind,
         req' = [req EXCEPT ![p] = new]
  PROVE Moves(p, new.pc, new.r, new.ch, new.parts, new.front, new.got, new.reply)
BY DEF ReqType, Moves

LEMMA Goes ==
  ASSUME ReqType, NEW p \in Requests, NEW pc \in ReqPcs, Goto(p, pc)
  PROVE Advances(p, pc)
<1> DEFINE new == [req[p] EXCEPT !.pc = pc]
<1>1. req[p] \in Request
  BY DEF ReqType
<1>2. /\ new \in Request /\ new.kind = req[p].kind /\ new.pc = pc /\ new.r = req[p].r
      /\ new.ch = req[p].ch /\ new.parts = req[p].parts /\ new.front = req[p].front
      /\ new.got = req[p].got /\ new.reply = req[p].reply
  BY <1>1 DEF Request
<1>3. req' = [req EXCEPT ![p] = new]
  BY DEF Goto
<1> HIDE DEF new
<1> QED BY <1>2, <1>3, RequestChanged DEF Advances, Moves

LEMMA Replies ==
  ASSUME ReqType, NEW p \in Requests, NEW reply \in {"ok", "error", "gone"}, Reply(p, reply)
  PROVE Leaves(p, reply)
<1> DEFINE got == IF reply = "ok" THEN req[p].got ELSE <<>>
           f == Fresh(req[p].kind)
           new == [f EXCEPT !.pc = "done", !.reply = reply, !.r = req[p].r,
                            !.parts = req[p].parts, !.got = got]
<1>1. req[p] \in Request
  BY DEF ReqType
<1>2. got \in Seq(Nat)
  BY <1>1, EmptySeq DEF Request
<1>3. req' = [req EXCEPT ![p] = new]
  BY DEF Reply
<1>4. f \in Request /\ f.kind = req[p].kind /\ f.ch = None /\ f.front = 1
  BY <1>1, EmptySeq, SftpAssumption DEF Request, Fresh, ReqPcs
<1> HIDE DEF f, got
<1>5. /\ new \in Request /\ new.kind = req[p].kind /\ new.pc = "done" /\ new.r = req[p].r
      /\ new.ch = None /\ new.parts = req[p].parts /\ new.front = 1
      /\ new.got = got /\ new.reply = reply
  BY <1>1, <1>2, <1>4 DEF Request, ReqPcs
<1> HIDE DEF new
<1> QED BY <1>3, <1>5, RequestChanged DEF Leaves, Moves, got

-----------------------------------------------------------------------------
(* What the counters count.                                                *)

InCount(p) == req[p].pc \in {"recheck"} \cup Staging

LEMMA CountedFinite ==
  ASSUME NEW r
  PROVE IsFiniteSet(Counted(r)) /\ Cardinality(Counted(r)) \in Nat
BY SftpAssumption, FS_Subset, FS_CardinalityType DEF Counted

LEMMA UploadsSame ==
  ASSUME UploadsCounted, DOMAIN recs' = DOMAIN recs,
         \A s \in DOMAIN recs : recs'[s].uploads = recs[s].uploads,
         \A q \in Requests : /\ InCount(q)' <=> InCount(q)
                             /\ InCount(q) => req'[q].r = req[q].r
  PROVE UploadsCounted'
<1>1. ASSUME NEW s \in DOMAIN recs PROVE Counted(s)' = Counted(s)
  BY DEF Counted, InCount
<1> QED BY <1>1 DEF UploadsCounted

LEMMA UploadsIn ==
  ASSUME UploadsCounted, NEW p \in Requests, NEW r \in DOMAIN recs,
         DOMAIN recs' = DOMAIN recs,
         \A s \in DOMAIN recs : recs'[s].uploads = IF s = r THEN recs[s].uploads + 1
                                                   ELSE recs[s].uploads,
         \A q \in Requests : q # p => req'[q] = req[q],
         ~InCount(p), InCount(p)', req'[p].r = r
  PROVE UploadsCounted'
<1>1. ASSUME NEW s \in DOMAIN recs, s # r PROVE Counted(s)' = Counted(s)
  BY <1>1 DEF Counted, InCount
<1>2. Counted(r)' = Counted(r) \cup {p} /\ p \notin Counted(r)
  BY DEF Counted, InCount
<1>3. Cardinality(Counted(r)') = Cardinality(Counted(r)) + 1
  BY <1>2, CountedFinite, FS_AddElement
<1> QED BY <1>1, <1>3 DEF UploadsCounted

LEMMA UploadsOut ==
  ASSUME UploadsCounted, NEW p \in Requests, NEW r \in DOMAIN recs,
         DOMAIN recs' = DOMAIN recs,
         \A s \in DOMAIN recs : recs'[s].uploads = IF s = r THEN recs[s].uploads - 1
                                                   ELSE recs[s].uploads,
         \A q \in Requests : q # p => req'[q] = req[q],
         InCount(p), ~InCount(p)', req[p].r = r
  PROVE UploadsCounted'
<1>1. ASSUME NEW s \in DOMAIN recs, s # r PROVE Counted(s)' = Counted(s)
  BY <1>1 DEF Counted, InCount
<1>2. Counted(r)' = Counted(r) \ {p} /\ p \in Counted(r)
  BY DEF Counted, InCount
<1>3. Cardinality(Counted(r)') = Cardinality(Counted(r)) - 1
  BY <1>2, CountedFinite, FS_RemoveElement
<1> QED BY <1>1, <1>3 DEF UploadsCounted

LEMMA CountedMeansSome ==
  ASSUME UploadsCounted, NEW p \in Requests, InCount(p), req[p].r \in DOMAIN recs
  PROVE recs[req[p].r].uploads > 0
<1>1. p \in Counted(req[p].r)
  BY DEF Counted, InCount
<1>2. Cardinality(Counted(req[p].r)) # 0
  BY <1>1, CountedFinite, FS_EmptySet
<1> QED BY <1>2, CountedFinite DEF UploadsCounted

LEMMA NoneCounted ==
  ASSUME UploadsCounted, NEW r \in DOMAIN recs, recs[r].uploads = 0
  PROVE \A p \in Requests : InCount(p) => req[p].r # r
<1>1. Counted(r) = {}
  BY CountedFinite, FS_EmptySet DEF UploadsCounted
<1> QED BY <1>1 DEF Counted, InCount

(* The slots of one holder.                                                *)
Share(p) == {p} \X (1..req[p].parts)

LEMMA ShareSize ==
  ASSUME NEW p, req[p].parts \in 1..Slots
  PROVE IsFiniteSet(Share(p)) /\ Cardinality(Share(p)) = req[p].parts
<1>1. IsFiniteSet({p}) /\ Cardinality({p}) = 1
  BY FS_Singleton
<1>0. 1 \in Int /\ req[p].parts \in Int /\ req[p].parts >= 1
  BY SftpAssumption
<1>2. IsFiniteSet(1..req[p].parts) /\ Cardinality(1..req[p].parts) = req[p].parts
  <2>1. /\ IsFiniteSet(1..req[p].parts)
        /\ Cardinality(1..req[p].parts) = IF 1 > req[p].parts THEN 0 ELSE req[p].parts - 1 + 1
    BY <1>0, FS_Interval
  <2> QED BY <1>0, <2>1
<1>3. /\ IsFiniteSet({p} \X (1..req[p].parts))
      /\ Cardinality({p} \X (1..req[p].parts)) = 1 * req[p].parts
  BY <1>1, <1>2, FS_Product
<1> QED BY <1>3, SftpAssumption DEF Share

LEMMA HeldFinite ==
  ASSUME NEW r
  PROVE IsFiniteSet(HeldSlots(r)) /\ Cardinality(HeldSlots(r)) \in Nat
<1>1. IsFiniteSet(Requests \X (1..Slots))
  <2>1. 1 \in Int /\ Slots \in Int
    BY SftpAssumption
  <2>2. IsFiniteSet(1..Slots)
    BY <2>1, FS_Interval
  <2> QED BY <2>2, SftpAssumption, FS_Product
<1> QED BY <1>1, FS_Subset, FS_CardinalityType DEF HeldSlots

SameHolder(q) ==
  /\ Holding(q)' <=> Holding(q)
  /\ Holding(q) => req'[q].r = req[q].r /\ req'[q].parts = req[q].parts

LEMMA SlotsSame ==
  ASSUME SlotsHeld, DOMAIN recs' = DOMAIN recs,
         \A s \in DOMAIN recs : recs'[s].free = recs[s].free,
         \A q \in Requests : SameHolder(q)
  PROVE SlotsHeld'
<1>1. ASSUME NEW s \in DOMAIN recs PROVE HeldSlots(s)' = HeldSlots(s)
  BY DEF HeldSlots, SameHolder
<1> QED BY <1>1 DEF SlotsHeld

LEMMA SlotsTaken ==
  ASSUME SlotsHeld, RecsType, NEW p \in Requests, NEW r \in DOMAIN recs, DOMAIN recs' = DOMAIN recs,
         \A s \in DOMAIN recs : recs'[s].free = IF s = r THEN recs[s].free - req[p].parts
                                                ELSE recs[s].free,
         \A q \in Requests : q # p => SameHolder(q),
         ~Holding(p), Holding(p)', req'[p].r = r, req'[p].parts = req[p].parts,
         req[p].parts \in 1..Slots
  PROVE SlotsHeld'
<1>1. ASSUME NEW s \in DOMAIN recs, s # r PROVE HeldSlots(s)' = HeldSlots(s)
  BY <1>1 DEF HeldSlots, SameHolder
<1>2. HeldSlots(r)' = HeldSlots(r) \cup Share(p)
  BY SftpAssumption DEF HeldSlots, SameHolder, Share
<1>3. HeldSlots(r) \cap Share(p) = {}
  BY DEF HeldSlots, Share
<1>4. Cardinality(HeldSlots(r)') = Cardinality(HeldSlots(r)) + req[p].parts
  <2>1. /\ IsFiniteSet(HeldSlots(r)) /\ IsFiniteSet(Share(p))
        /\ Cardinality(HeldSlots(r)) \in Nat /\ Cardinality(Share(p)) = req[p].parts
    BY HeldFinite, ShareSize
  <2>2. Cardinality(HeldSlots(r) \cup Share(p))
          = Cardinality(HeldSlots(r)) + Cardinality(Share(p)) - Cardinality({})
    BY <1>3, <2>1, FS_Union
  <2>3. Cardinality({}) = 0
    BY FS_EmptySet
  <2> QED BY <1>2, <2>1, <2>2, <2>3, SftpAssumption
<1>5. recs[r].free \in Nat
  BY Typed DEF Record
<1> QED BY <1>1, <1>4, <1>5, HeldFinite, SftpAssumption DEF SlotsHeld

LEMMA SlotsGiven ==
  ASSUME SlotsHeld, RecsType, NEW p \in Requests, NEW r \in DOMAIN recs, DOMAIN recs' = DOMAIN recs,
         \A s \in DOMAIN recs : recs'[s].free = IF s = r THEN recs[s].free + req[p].parts
                                                ELSE recs[s].free,
         \A q \in Requests : q # p => SameHolder(q),
         Holding(p), ~Holding(p)', req[p].r = r, req[p].parts \in 1..Slots
  PROVE SlotsHeld'
<1>1. ASSUME NEW s \in DOMAIN recs, s # r PROVE HeldSlots(s)' = HeldSlots(s)
  BY <1>1 DEF HeldSlots, SameHolder
<1>2. HeldSlots(r)' = HeldSlots(r) \ Share(p)
  BY SftpAssumption DEF HeldSlots, SameHolder, Share
<1>3. HeldSlots(r) \cap Share(p) = Share(p)
  BY SftpAssumption DEF HeldSlots, Share
<1>4. Cardinality(HeldSlots(r)') = Cardinality(HeldSlots(r)) - req[p].parts
  <2>1. /\ IsFiniteSet(HeldSlots(r)) /\ Cardinality(HeldSlots(r)) \in Nat
        /\ Cardinality(Share(p)) = req[p].parts
    BY HeldFinite, ShareSize
  <2>2. Cardinality(HeldSlots(r) \ Share(p))
          = Cardinality(HeldSlots(r)) - Cardinality(HeldSlots(r) \cap Share(p))
    BY <2>1, FS_Difference
  <2> QED BY <1>2, <1>3, <2>1, <2>2
<1>5. recs[r].free \in Nat
  BY Typed DEF Record
<1> QED BY <1>1, <1>4, <1>5, HeldFinite, SftpAssumption DEF SlotsHeld

-----------------------------------------------------------------------------
(* A step of a request that holds no lock and touches no more of the       *)
(* sessions than their counters.                                           *)

Aside(p) ==
  /\ DOMAIN recs' = DOMAIN recs /\ \A s \in DOMAIN recs : Shell(s)
  /\ UNCHANGED <<chans, cleaner, openLock>> /\ conn'.up = conn.up /\ conn'.lost = conn.lost
  /\ \A q \in Requests : q # p => req'[q] = req[q] /\ work'[q] = work[q] /\ temp'[q] = temp[q]
  /\ req[p].pc \notin Locked /\ req'[p].pc \notin Locked

World == LockHeld /\ RecordLife /\ OneListed /\ Publishing /\ CleanerLate /\ ChannelsOwned

LEMMA WorldKept ==
  ASSUME SftpInv, NEW p \in Requests, Aside(p)
  PROVE World'
<1> USE DEF SftpInv, Aside
<1>1. LockHeld'
  BY DEF LockHeld
<1>2. RecordLife'
  BY DEF RecordLife, RecordFits, Shell, Locked
<1>3. OneListed'
  BY DEF OneListed, Shell
<1>4. Publishing'
  BY DEF Publishing, Shell, Locked
<1>5. CleanerLate'
  BY DEF CleanerLate, Shell, Locked
<1>6. ChannelsOwned'
  BY DEF ChannelsOwned, Live, Closing, Shell
<1> QED BY <1>1, <1>2, <1>3, <1>4, <1>5, <1>6 DEF World

LEMMA OrderedSame ==
  ASSUME NEW q, req'[q] = req[q], work'[q] = work[q], Ordered(q)
  PROVE Ordered(q)'
BY DEF Ordered, InRange, Due, RangeStart, RangeEnd, Ended

LEMMA HolderSame ==
  ASSUME NEW q, req'[q] = req[q], work'[q] = work[q]
  PROVE SameHolder(q)
BY DEF SameHolder, Holding, Ended

(* The request is over, and what it delivers is nothing or the whole file. *)
LEMMA LeaveKeeps ==
  ASSUME SftpInv, NEW p \in Requests, NEW reply \in {"ok", "error", "gone"},
         Aside(p), Leaves(p, reply), work' = work \/ work'[p] = <<>>,
         reply = "ok" => req[p].kind = "upload" \/ Len(req[p].got) = Blocks
  PROVE KindsFit' /\ UsersHold' /\ StagingServed' /\ Delivered' /\ InOrder'
<1> USE DEF SftpInv, Aside, Leaves, Moves
<1>1. KindsFit'
  BY DEF KindsFit, Uploading, Staging, Locked
<1>2. UsersHold'
  BY DEF UsersHold, Streaming, At, HeldBy, Shell, UserPcs, Uploading, Staging
<1>3. StagingServed'
  BY DEF StagingServed, Shell, Staging, UsersHold, UserPcs, Uploading
<1>4. Delivered'
  BY SftpAssumption DEF Delivered
<1>5. InOrder'
  <2>1. ASSUME NEW q \in Requests, q # p PROVE Ordered(q)'
    BY <2>1, OrderedSame DEF InOrder
  <2>2. Ordered(p)'
    BY DEF Ordered
  <2> QED BY <2>1, <2>2 DEF InOrder
<1> QED BY <1>1, <1>2, <1>3, <1>4, <1>5

(* The accounts of a request that is over.                                 *)
LEMMA OverHoldsNot ==
  ASSUME NEW p, req[p].pc = "done", \A i \in DOMAIN work[p] : Ended(work[p][i])
  PROVE ~Holding(p) /\ ~InCount(p)
BY DEF Holding, InCount, Staging

LEMMA AsideTypes ==
  ASSUME SftpInv, NEW p \in Requests, Aside(p), RecsType', ReqType', WorkType', ConnType',
         temp' \in [Requests -> {None, "partial", "whole"}]
  PROVE SftpTypes'
BY DEF SftpInv, SftpTypes, Aside, CleanerType

(* The steps of a handler that only move it on.                            *)
Walk(p, pc) ==
  \/ req[p].pc = "begin" /\ pc = "lock"
  \/ req[p].pc = "lock" /\ pc = "find"
  \/ req[p].pc = "permit" /\ req[p].kind = "upload" /\ pc = "register"
  \/ req[p].pc = "permit" /\ req[p].kind = "download" /\ pc = "open"
  \/ req[p].pc = "permit" /\ req[p].kind = "parallel" /\ pc = "spawn"
  \/ req[p].pc = "register" /\ pc = "count"
  \/ req[p].pc = "count" /\ pc = "recheck"
  \/ req[p].pc = "stage" /\ pc \in {"copy", "cleanup"}
  \/ req[p].pc = "copy" /\ pc \in {"replace", "cleanup"}
  \/ req[p].pc = "replace" /\ pc = "cleanup"
  \/ req[p].pc = "sweep" /\ pc = "done"

LEMMA WalkKeeps ==
  ASSUME SftpInv, NEW p \in Requests, NEW pc, Aside(p), Advances(p, pc), Walk(p, pc), work' = work
  PROVE KindsFit' /\ UsersHold' /\ StagingServed' /\ Delivered' /\ InOrder'
<1> USE DEF SftpInv, Aside, Advances, Moves, Walk
<1>0. req[p] \in Request
  BY DEF SftpTypes, ReqType
<1>1. KindsFit'
  BY <1>0, EmptySeq DEF KindsFit, Uploading, Staging, Locked, Request
<1>2. UsersHold'
  BY DEF UsersHold, Streaming, At, HeldBy, Shell, UserPcs, Uploading, Staging
<1>3. StagingServed'
  BY DEF StagingServed, Shell, Staging, UsersHold, UserPcs, Uploading
<1>4. Delivered'
  BY SftpAssumption DEF Delivered, KindsFit, Uploading, Staging
<1>5. InOrder'
  <2>1. ASSUME NEW q \in Requests, q # p PROVE Ordered(q)'
    BY <2>1, OrderedSame DEF InOrder
  <2>2. Ordered(p)'
    <3>1. CASE pc # "spawn"
      BY <3>1 DEF Ordered
    <3>2. CASE pc = "spawn"
      <4>1. work[p] = <<>> /\ req[p].front = 1 /\ req[p].parts >= 1 /\ req[p].parts \in Nat
        BY <1>0, <3>2, SftpAssumption DEF KindsFit, Delivered, Request
      <4>2. \A i \in DOMAIN work'[p] : FALSE
        BY <4>1
      <4> QED BY <3>2, <4>1, <4>2 DEF Ordered
    <3> QED BY <3>1, <3>2
  <2> QED BY <2>1, <2>2 DEF InOrder
<1> QED BY <1>1, <1>2, <1>3, <1>4, <1>5

(* A handler that leaves before it has a slot.                             *)
LEMMA EarlyLeave ==
  ASSUME SftpInv, NEW p \in Requests, NEW reply \in {"error", "gone"}, Reply(p, reply),
         req[p].pc \in {"begin", "lock", "find", "pool", "permit"},
         UNCHANGED <<openLock, recs, chans, work, cleaner, temp>>,
         conn'.up = conn.up, conn'.lost = conn.lost, ConnType'
  PROVE SftpInv'
<1> USE DEF SftpInv
<1>1. Leaves(p, reply)
  BY Replies DEF SftpTypes
<1>2. Aside(p)
  BY <1>1 DEF Aside, Shell, Leaves, Moves, Locked
<1>3. work[p] = <<>>
  BY DEF KindsFit
<1>4. ~Holding(p) /\ ~InCount(p) /\ temp[p] = None
  BY <1>3 DEF Holding, InCount, Staging, StagingKnown
<1>5. ~Holding(p)' /\ ~InCount(p)'
  BY <1>1, <1>3 DEF Holding, InCount, Staging, Leaves, Moves
<1>6. \A q \in Requests : SameHolder(q)
  BY <1>1, <1>4, <1>5, HolderSame DEF Leaves, Moves, SameHolder
<1>7. SftpTypes'
  BY <1>1, <1>2, AsideTypes DEF SftpTypes, RecsType, WorkType, Leaves, Moves
<1>8. UploadsCounted' /\ SlotsHeld'
  BY <1>1, <1>4, <1>5, <1>6, UploadsSame, SlotsSame DEF Leaves, Moves, InCount
<1>9. StagingKnown'
  BY <1>1, <1>2, <1>4 DEF StagingKnown, Leaves, Moves, Aside
<1> QED BY <1>1, <1>2, <1>7, <1>8, <1>9, WorldKept, LeaveKeeps DEF World

(* A handler that moves on and neither takes nor gives anything.           *)
LEMMA QuietWalk ==
  ASSUME SftpInv, NEW p \in Requests, NEW pc \in ReqPcs, Goto(p, pc), Walk(p, pc),
         req[p].pc \notin {"permit", "count", "sweep"},
         UNCHANGED <<conn, openLock, recs, chans, work, cleaner>>,
         temp' \in [Requests -> {None, "partial", "whole"}],
         \A q \in Requests : q # p => temp'[q] = temp[q],
         temp'[p] = temp[p] \/ temp'[p] = None \/ pc \in {"copy", "replace", "cleanup"}
  PROVE SftpInv'
<1> USE DEF SftpInv
<1>1. Advances(p, pc)
  BY Goes DEF SftpTypes
<1>2. Aside(p)
  BY <1>1 DEF Aside, Shell, Advances, Moves, Locked, Walk
<1>3. SftpTypes'
  BY <1>1, <1>2, AsideTypes DEF SftpTypes, RecsType, WorkType, ConnType, Advances, Moves
<1>4. (Holding(p)' <=> Holding(p)) /\ (InCount(p)' <=> InCount(p))
  BY <1>1 DEF Holding, InCount, Staging, Advances, Moves, Walk
<1>5. \A q \in Requests : SameHolder(q)
  BY <1>1, <1>4, HolderSame DEF Advances, Moves, SameHolder
<1>6. UploadsCounted' /\ SlotsHeld'
  BY <1>1, <1>4, <1>5, UploadsSame, SlotsSame DEF Advances, Moves, InCount
<1>7. StagingKnown'
  BY <1>1 DEF StagingKnown, Advances, Moves, Walk
<1> QED BY <1>1, <1>2, <1>3, <1>6, <1>7, WorldKept, WalkKeeps DEF World

LEMMA BeginKeeps ==
  ASSUME SftpInv, NEW p \in Requests, Begin(p)
  PROVE SftpInv'
<1>1. CASE conn.up
  BY <1>1, QuietWalk DEF Begin, At, Walk, ReqPcs, SftpInv, SftpTypes
<1>2. CASE ~conn.up
  BY <1>2, EarlyLeave DEF Begin, SftpInv, SftpTypes, At, ConnType
<1> QED BY <1>1, <1>2

-----------------------------------------------------------------------------
(* Opening a session.                                                      *)

LEMMA HoldersUse ==
  ASSUME SftpInv, NEW q \in Requests, Holding(q) \/ InCount(q)
  PROVE req[q].r \in DOMAIN recs
BY DEF SftpInv, Holding, InCount, UsersHold, UserPcs, Uploading, Staging, HeldBy

(* A step of a request that holds the lock, or waits for it: the transfers *)
(* of the others go on as before.                                          *)
LEMMA LockPhase ==
  ASSUME SftpInv, NEW p \in Requests, req[p].pc \in Locked \cup {"lock"},
         \A q \in Requests : q # p => req'[q] = req[q],
         req'[p].pc \in Locked \cup {"find", "done"}, req'[p].kind = req[p].kind,
         req'[p].ch = None, req'[p].parts = req[p].parts, req'[p].front = 1,
         req'[p].got = <<>>, req'[p].reply # "ok",
         UNCHANGED <<work, temp, cleaner>>, conn'.lost = conn.lost,
         \A s \in DOMAIN recs :
           /\ s \in DOMAIN recs' /\ recs'[s].closed = recs[s].closed
           /\ recs'[s].pool = recs[s].pool /\ recs'[s].free = recs[s].free
           /\ recs'[s].uploads = recs[s].uploads /\ (recs[s].listed => recs'[s].listed),
         \A s \in DOMAIN recs' : s \in DOMAIN recs \/ (recs'[s].uploads = 0 /\ recs'[s].free = Slots)
  PROVE /\ KindsFit' /\ UsersHold' /\ UploadsCounted' /\ StagingServed' /\ StagingKnown'
        /\ SlotsHeld' /\ Delivered' /\ InOrder'
<1> USE DEF SftpInv
<1>0. work[p] = <<>> /\ temp[p] = None
  BY DEF KindsFit, StagingKnown, Locked
<1>1. KindsFit'
  BY <1>0 DEF KindsFit, Uploading, Staging, Locked
<1>2. UsersHold'
  BY <1>0 DEF UsersHold, Streaming, At, HeldBy, UserPcs, Uploading, Staging, Locked
<1>3. \A q \in Requests : (InCount(q)' <=> InCount(q)) /\ (InCount(q) => req'[q].r = req[q].r)
  BY DEF InCount, Staging, Locked
<1>4. \A q \in Requests : SameHolder(q)
  <2>1. ~Holding(p) /\ ~Holding(p)'
    BY <1>0 DEF Holding, Locked
  <2> QED BY <2>1, HolderSame DEF SameHolder
<1>5. UploadsCounted'
  <2>1. ASSUME NEW s \in DOMAIN recs' PROVE recs'[s].uploads = Cardinality(Counted(s)')
    <3>1. Counted(s)' = Counted(s)
      BY <1>3 DEF Counted, InCount
    <3>2. CASE s \in DOMAIN recs
      BY <3>1, <3>2 DEF UploadsCounted
    <3>3. CASE s \notin DOMAIN recs
      <4>1. Counted(s) = {}
        BY <3>3, HoldersUse DEF Counted, InCount
      <4> QED BY <3>1, <3>3, <4>1, FS_EmptySet
    <3> QED BY <3>2, <3>3
  <2> QED BY <2>1 DEF UploadsCounted
<1>6. SlotsHeld'
  <2>1. ASSUME NEW s \in DOMAIN recs' PROVE recs'[s].free + Cardinality(HeldSlots(s)') = Slots
    <3>1. HeldSlots(s)' = HeldSlots(s)
      BY <1>4 DEF HeldSlots, SameHolder
    <3>2. CASE s \in DOMAIN recs
      BY <3>1, <3>2 DEF SlotsHeld
    <3>3. CASE s \notin DOMAIN recs
      <4>1. HeldSlots(s) = {}
        BY <3>3, HoldersUse DEF HeldSlots
      <4>2. Cardinality(HeldSlots(s)') = 0
        BY <3>1, <4>1, FS_EmptySet
      <4> QED BY <3>3, <4>2, SftpAssumption
    <3> QED BY <3>2, <3>3
  <2> QED BY <2>1 DEF SlotsHeld
<1>7. StagingServed'
  BY DEF StagingServed, Staging, Locked, UsersHold, UserPcs, Uploading
<1>8. StagingKnown'
  BY <1>0 DEF StagingKnown
<1>9. Delivered'
  BY DEF Delivered, Locked
<1>10. InOrder'
  <2>1. ASSUME NEW q \in Requests, q # p PROVE Ordered(q)'
    BY <2>1, OrderedSame DEF InOrder
  <2>2. Ordered(p)'
    BY DEF Ordered, Locked
  <2> QED BY <2>1, <2>2 DEF InOrder
<1> QED BY <1>1, <1>2, <1>5, <1>6, <1>7, <1>8, <1>9, <1>10

LEMMA OpenLockKeeps ==
  ASSUME SftpInv, NEW p \in Requests, OpenLock(p)
  PROVE SftpInv'
<1> USE DEF SftpInv
<1>1. CASE Usable # {}
  BY <1>1, QuietWalk DEF OpenLock, At, Walk, ReqPcs, SftpTypes
<1>2. CASE Usable = {}
  <2>1. Advances(p, "known") /\ openLock' = p /\ openLock = None /\ req[p].pc = "lock"
    BY <1>2, Goes DEF OpenLock, ReqPcs, Locked, SftpTypes, At
  <2>2. UNCHANGED <<conn, recs, chans, work, cleaner, temp>>
    BY DEF OpenLock
  <2>3. \A r \in DOMAIN recs : ~recs[r].listed
    BY <1>2 DEF Usable, RecordLife, RecordFits
  <2>4. SftpTypes'
    BY <2>1, <2>2 DEF SftpTypes, ConnType, RecsType, WorkType, CleanerType, Advances, Moves
  <2>5. /\ KindsFit' /\ UsersHold' /\ UploadsCounted' /\ StagingServed' /\ StagingKnown'
        /\ SlotsHeld' /\ Delivered' /\ InOrder'
    BY <2>1, <2>2, LockPhase DEF Advances, Moves, Locked, KindsFit, Delivered
  <2>6. LockHeld'
    BY <2>1, SftpAssumption DEF LockHeld, Advances, Moves, Locked
  <2>7. RecordLife'
    BY <2>1, <2>2, <2>3 DEF RecordLife, RecordFits, Advances, Moves
  <2>8. OneListed' /\ Publishing' /\ CleanerLate' /\ ChannelsOwned'
    BY <2>1, <2>2 DEF OneListed, Publishing, CleanerLate, ChannelsOwned, Live, Closing, Advances, Moves
  <2> QED BY <2>4, <2>5, <2>6, <2>7, <2>8
<1> QED BY <1>1, <1>2

(* The holder of the lock gives up before it has opened a channel.         *)
LEMMA LockLeave ==
  ASSUME SftpInv, NEW p \in Requests, NEW reply \in {"error", "gone"}, Reply(p, reply), Unlock(p),
         req[p].pc \in {"known", "first"},
         UNCHANGED <<recs, chans, work, cleaner, temp>>,
         conn'.up = conn.up, conn'.lost = conn.lost, ConnType'
  PROVE SftpInv'
<1> USE DEF SftpInv
<1>1. Leaves(p, reply) /\ openLock' = None /\ openLock = p
  BY Replies DEF SftpTypes, LockHeld, Locked, Unlock
<1>2. SftpTypes'
  BY <1>1 DEF SftpTypes, RecsType, WorkType, CleanerType, Leaves, Moves
<1>3. /\ KindsFit' /\ UsersHold' /\ UploadsCounted' /\ StagingServed' /\ StagingKnown'
      /\ SlotsHeld' /\ Delivered' /\ InOrder'
  BY <1>1, LockPhase DEF Leaves, Moves, Locked
<1>4. LockHeld'
  BY <1>1, SftpAssumption DEF LockHeld, Leaves, Moves, Locked
<1>5. RecordLife'
  BY <1>1 DEF RecordLife, RecordFits, Leaves, Moves
<1>6. OneListed' /\ Publishing' /\ CleanerLate' /\ ChannelsOwned'
  BY <1>1 DEF OneListed, Publishing, CleanerLate, ChannelsOwned, Live, Closing, Leaves, Moves
<1> QED BY <1>2, <1>3, <1>4, <1>5, <1>6

LEMMA KnownConnectionKeeps ==
  ASSUME SftpInv, NEW p \in Requests, KnownConnection(p)
  PROVE SftpInv'
<1> USE DEF SftpInv
<1>1. CASE conn.up
  <2>1. Advances(p, "first") /\ req[p].pc = "known"
    BY <1>1, Goes DEF KnownConnection, ReqPcs, Locked, SftpTypes, At
  <2>2. UNCHANGED <<conn, openLock, recs, chans, work, cleaner, temp>>
    BY <1>1 DEF KnownConnection
  <2>3. SftpTypes'
    BY <2>1, <2>2 DEF SftpTypes, ConnType, RecsType, WorkType, CleanerType, Advances, Moves
  <2>4. /\ KindsFit' /\ UsersHold' /\ UploadsCounted' /\ StagingServed' /\ StagingKnown'
        /\ SlotsHeld' /\ Delivered' /\ InOrder'
    BY <2>1, <2>2, LockPhase DEF Advances, Moves, Locked, KindsFit, Delivered
  <2>5. LockHeld' /\ RecordLife' /\ OneListed' /\ Publishing' /\ ChannelsOwned'
    BY <2>1, <2>2 DEF LockHeld, Locked, RecordLife, RecordFits, OneListed, Publishing, ChannelsOwned, Live,
       Closing, Advances, Moves
  <2>6. CleanerLate'
    BY <1>1, <2>1, <2>2 DEF CleanerLate, Advances, Moves
  <2> QED BY <2>3, <2>4, <2>5, <2>6
<1>2. CASE ~conn.up
  BY <1>2, LockLeave DEF KnownConnection, At, SftpTypes, ConnType
<1> QED BY <1>1, <1>2

LEMMA OpenFirstKeeps ==
  ASSUME SftpInv, NEW p \in Requests, OpenFirst(p)
  PROVE SftpInv'
<1> USE DEF SftpInv
<1>0. PICK r : r = Len(recs) + 1
  OBVIOUS
<1>1. CASE ~conn.lost /\ recs' = Append(recs, NewRecord(r))
  <2>0. req[p].pc = "first" /\ UNCHANGED <<conn, work, cleaner, temp>>
    BY DEF OpenFirst, At
  <2>1. /\ chans' = chans \cup {Channel(r, 1)} /\ openLock' = openLock
        /\ req' = [req EXCEPT ![p].r = r, ![p].pc = "publish"]
    <3>1. recs' # recs
      BY <1>1, AppendProperties DEF SftpTypes, RecsType
    <3> QED BY <1>0, <3>1 DEF OpenFirst
  <2>2. /\ NewRecord(r) \in Record /\ r \in Nat /\ Channel(r, 1) \in Channels
        /\ Len(recs) \in Nat /\ DOMAIN recs = 1..Len(recs)
    BY <1>0, SftpAssumption DEF SftpTypes, RecsType, NewRecord, Record, Channel, Channels
  <2>3. /\ RecsType' /\ DOMAIN recs' = DOMAIN recs \cup {r} /\ r \notin DOMAIN recs
        /\ recs'[r] = NewRecord(r) /\ \A s \in DOMAIN recs : recs'[s] = recs[s]
    BY <1>0, <1>1, <2>2, AppendProperties DEF SftpTypes, RecsType
  <2>4. Moves(p, "publish", r, req[p].ch, req[p].parts, req[p].front, req[p].got, req[p].reply)
    <3> DEFINE new == [req[p] EXCEPT !.r = r, !.pc = "publish"]
    <3>1. req[p] \in Request
      BY DEF SftpTypes, ReqType
    <3>2. /\ new \in Request /\ new.kind = req[p].kind /\ new.pc = "publish" /\ new.r = r
          /\ new.ch = req[p].ch /\ new.parts = req[p].parts /\ new.front = req[p].front
          /\ new.got = req[p].got /\ new.reply = req[p].reply
      BY <2>2, <3>1 DEF Request, ReqPcs, Locked
    <3>3. req' = [req EXCEPT ![p] = new]
      BY <2>1
    <3> HIDE DEF new
    <3> QED BY <3>2, <3>3, RequestChanged DEF Moves, SftpTypes
  <2>5. SftpTypes'
    BY <2>0, <2>1, <2>2, <2>3, <2>4 DEF SftpTypes, ConnType, WorkType, CleanerType, Moves
  <2>6. /\ KindsFit' /\ UsersHold' /\ UploadsCounted' /\ StagingServed' /\ StagingKnown'
        /\ SlotsHeld' /\ Delivered' /\ InOrder'
    BY <2>0, <2>3, <2>4, LockPhase DEF Moves, Locked, KindsFit, Delivered, NewRecord
  <2>7. LockHeld'
    BY <2>0, <2>1, <2>4 DEF LockHeld, Moves, Locked
  <2>8. openLock = p /\ cleaner.pc \in {"idle", "lock"} /\ \A s \in DOMAIN recs : ~recs[s].listed
    BY <2>0, SftpAssumption DEF LockHeld, Locked, CleanerLate, RecordLife, RecordFits, SftpTypes, CleanerType
  <2>9. RecordLife'
    <3>1. /\ ~recs'[r].listed /\ ~recs'[r].closed /\ recs'[r].builder = "waiting"
          /\ recs'[r].pool = {Channel(r, 1)} /\ recs'[r].fresh = {} /\ Channel(r, 1) \in Own(r)
      BY <2>3, SftpAssumption DEF NewRecord, Own
    <3>2. \A q \in Requests : req[q].pc = "publish" => req'[q] = req[q]
      BY <2>0, <2>4 DEF Moves
    <3>3. req'[p].pc = "publish" /\ req'[p].r = r
      BY <2>4 DEF Moves
    <3>4. RecordFits(r)'
      BY <3>1, <3>3 DEF RecordFits
    <3>5. ASSUME NEW s \in DOMAIN recs PROVE RecordFits(s)'
      BY <2>0, <2>3, <2>8, <3>2 DEF RecordLife, RecordFits
    <3> QED BY <2>3, <3>4, <3>5 DEF RecordLife
  <2>10. OneListed' /\ Publishing'
    BY <2>0, <2>3, <2>4, <2>8 DEF OneListed, Publishing, Moves, NewRecord
  <2>11. CleanerLate'
    BY <2>0, <2>3, <2>4, <2>8 DEF CleanerLate, Moves, NewRecord
  <2>12. ChannelsOwned'
    BY <2>0, <2>1, <2>3, <2>8 DEF ChannelsOwned, Live, Closing, NewRecord, Channel
  <2> QED BY <2>5, <2>6, <2>7, <2>9, <2>10, <2>11, <2>12
<1>2. CASE Reply(p, "error") /\ Unlock(p) /\ UNCHANGED <<recs, chans>>
  BY <1>2, LockLeave DEF OpenFirst, At, SftpTypes, ConnType
<1> QED BY <1>0, <1>1, <1>2 DEF OpenFirst

LEMMA PublishKeeps ==
  ASSUME SftpInv, NEW p \in Requests, Publish(p)
  PROVE SftpInv'
<1> USE DEF SftpInv
<1> DEFINE r == req[p].r
           new == [recs[r] EXCEPT !.listed = TRUE, !.builder = "opening"]
<1>1. /\ Advances(p, "find") /\ req[p].pc = "publish" /\ openLock = p /\ openLock' = None
      /\ UNCHANGED <<conn, chans, work, cleaner, temp>>
  BY Goes DEF Publish, ReqPcs, Locked, SftpTypes, At, LockHeld, Unlock
<1>2. /\ r \in DOMAIN recs /\ recs[r].builder = "waiting" /\ recs[r].pool = {Channel(r, 1)}
      /\ ~recs[r].closed /\ recs[r].fresh = {} /\ \A s \in DOMAIN recs : ~recs[s].listed
  BY <1>1, SftpAssumption DEF Publishing, RecordLife, RecordFits
<1>3. /\ new \in Record /\ new.listed /\ new.builder = "opening" /\ new.closed = recs[r].closed
      /\ new.pool = recs[r].pool /\ new.fresh = recs[r].fresh
      /\ new.free = recs[r].free /\ new.uploads = recs[r].uploads
  <2>1. recs[r] \in Record
    BY <1>2, Typed DEF SftpTypes
  <2> HIDE DEF r
  <2> QED BY <2>1 DEF Record
<1>4. recs' = [recs EXCEPT ![r] = new]
  BY <1>2, Typed DEF Publish, Record, SftpTypes
<1> HIDE DEF new
<1>5. /\ RecsType' /\ DOMAIN recs' = DOMAIN recs
      /\ \A s \in DOMAIN recs : recs'[s] = IF s = r THEN new ELSE recs[s]
  BY <1>2, <1>3, <1>4, RecordChanged DEF SftpTypes
<1> HIDE DEF r
<1>6. SftpTypes'
  BY <1>1, <1>5 DEF SftpTypes, ConnType, WorkType, CleanerType, Advances, Moves
<1>7. /\ KindsFit' /\ UsersHold' /\ UploadsCounted' /\ StagingServed' /\ StagingKnown'
      /\ SlotsHeld' /\ Delivered' /\ InOrder'
  BY <1>1, <1>3, <1>5, LockPhase DEF Advances, Moves, Locked, KindsFit, Delivered
<1>8. LockHeld'
  BY <1>1, SftpAssumption DEF LockHeld, Advances, Moves, Locked
<1>9. \A s \in DOMAIN recs : recs[s].builder = "waiting" => s = r
  <2>1. \A q \in Requests : req[q].pc = "publish" => q = p
    BY <1>1 DEF LockHeld, Locked
  <2> QED BY <2>1 DEF RecordLife, RecordFits, r
<1>10. RecordLife'
  BY <1>1, <1>2, <1>3, <1>5, <1>9 DEF RecordLife, RecordFits, Advances, Moves
<1>11. OneListed'
  BY <1>2, <1>3, <1>5 DEF OneListed
<1>12. Publishing'
  BY <1>1, <1>5, SftpAssumption DEF Publishing, Advances, Moves, LockHeld, Locked
<1>13. CleanerLate'
  BY <1>1, <1>3, <1>5 DEF CleanerLate, Advances, Moves, SftpTypes, CleanerType
<1>14. ChannelsOwned'
  BY <1>1, <1>2, <1>3, <1>5 DEF ChannelsOwned, Live, Closing
<1> QED BY <1>6, <1>7, <1>8, <1>10, <1>11, <1>12, <1>13, <1>14

-----------------------------------------------------------------------------
(* Finding a session and its slots.                                        *)

LEMMA RequestSet ==
  ASSUME ReqType, NEW p \in Requests, NEW pc \in ReqPcs, NEW r \in Nat,
         NEW ch \in Channels \cup {None}, NEW parts \in 1..Slots,
         \/ /\ req' = [req EXCEPT ![p].r = r, ![p].pc = pc]
            /\ ch = req[p].ch /\ parts = req[p].parts
         \/ /\ req' = [req EXCEPT ![p].ch = ch, ![p].pc = pc]
            /\ r = req[p].r /\ parts = req[p].parts
         \/ /\ req' = [req EXCEPT ![p].parts = parts, ![p].pc = pc]
            /\ ch = req[p].ch /\ r = req[p].r
  PROVE Moves(p, pc, r, ch, parts, req[p].front, req[p].got, req[p].reply)
<1>1. req[p] \in Request
  BY DEF ReqType
<1>2. CASE req' = [req EXCEPT ![p].r = r, ![p].pc = pc] /\ ch = req[p].ch /\ parts = req[p].parts
  <2> DEFINE new == [req[p] EXCEPT !.r = r, !.pc = pc]
  <2>1. /\ new \in Request /\ new.kind = req[p].kind /\ new.pc = pc /\ new.r = r
        /\ new.ch = req[p].ch /\ new.parts = req[p].parts /\ new.front = req[p].front
        /\ new.got = req[p].got /\ new.reply = req[p].reply
    BY <1>1 DEF Request
  <2>2. req' = [req EXCEPT ![p] = new]
    BY <1>2
  <2> HIDE DEF new
  <2>3. Moves(p, new.pc, new.r, new.ch, new.parts, new.front, new.got, new.reply)
    BY <2>1, <2>2, RequestChanged
  <2> QED BY <1>2, <2>1, <2>3
<1>3. CASE req' = [req EXCEPT ![p].ch = ch, ![p].pc = pc] /\ r = req[p].r /\ parts = req[p].parts
  <2> DEFINE new == [req[p] EXCEPT !.ch = ch, !.pc = pc]
  <2>1. /\ new \in Request /\ new.kind = req[p].kind /\ new.pc = pc /\ new.r = req[p].r
        /\ new.ch = ch /\ new.parts = req[p].parts /\ new.front = req[p].front
        /\ new.got = req[p].got /\ new.reply = req[p].reply
    BY <1>1 DEF Request
  <2>2. req' = [req EXCEPT ![p] = new]
    BY <1>3
  <2> HIDE DEF new
  <2>3. Moves(p, new.pc, new.r, new.ch, new.parts, new.front, new.got, new.reply)
    BY <2>1, <2>2, RequestChanged
  <2> QED BY <1>3, <2>1, <2>3
<1>4. CASE req' = [req EXCEPT ![p].parts = parts, ![p].pc = pc] /\ ch = req[p].ch /\ r = req[p].r
  <2> DEFINE new == [req[p] EXCEPT !.parts = parts, !.pc = pc]
  <2>1. /\ new \in Request /\ new.kind = req[p].kind /\ new.pc = pc /\ new.r = req[p].r
        /\ new.ch = req[p].ch /\ new.parts = parts /\ new.front = req[p].front
        /\ new.got = req[p].got /\ new.reply = req[p].reply
    BY <1>1 DEF Request
  <2>2. req' = [req EXCEPT ![p] = new]
    BY <1>4
  <2> HIDE DEF new
  <2>3. Moves(p, new.pc, new.r, new.ch, new.parts, new.front, new.got, new.reply)
    BY <2>1, <2>2, RequestChanged
  <2> QED BY <1>4, <2>1, <2>3
<1> QED BY <1>2, <1>3, <1>4

(* A handler with a published session that does not hold any slot yet.     *)
LEMMA Arrives ==
  ASSUME SftpInv, NEW p \in Requests, NEW pc \in {"pool", "permit"}, NEW r \in DOMAIN recs,
         NEW parts \in 1..Slots, req[p].pc \in {"find", "pool"},
         Moves(p, pc, r, req[p].ch, parts, req[p].front, req[p].got, req[p].reply),
         recs[r].listed \/ recs[r].closed, pc = "pool" => req[p].kind = "parallel",
         req[p].kind # "parallel" => parts = 1,
         UNCHANGED <<conn, openLock, recs, chans, work, cleaner, temp>>
  PROVE SftpInv'
<1> USE DEF SftpInv, Moves
<1>1. Aside(p)
  BY DEF Aside, Shell, Locked
<1>2. SftpTypes'
  BY <1>1, AsideTypes DEF SftpTypes, RecsType, WorkType, ConnType
<1>3. work[p] = <<>> /\ temp[p] = None /\ req[p].ch = None
  BY DEF KindsFit, StagingKnown
<1>4. ~Holding(p) /\ ~InCount(p) /\ ~Holding(p)' /\ ~InCount(p)'
  BY <1>3 DEF Holding, InCount, Staging
<1>5. \A q \in Requests : SameHolder(q)
  BY <1>4, HolderSame DEF SameHolder
<1>6. UploadsCounted' /\ SlotsHeld'
  BY <1>4, <1>5, UploadsSame, SlotsSame DEF InCount
<1>7. KindsFit' /\ StagingKnown'
  BY <1>3 DEF KindsFit, Uploading, Staging, Locked, StagingKnown
<1>8. UsersHold' /\ StagingServed'
  BY <1>3 DEF UsersHold, Streaming, At, HeldBy, StagingServed, Staging
<1>9. Delivered'
  BY DEF Delivered
<1>10. InOrder'
  <2>1. ASSUME NEW q \in Requests, q # p PROVE Ordered(q)'
    BY <2>1, OrderedSame DEF InOrder
  <2>2. Ordered(p)'
    BY DEF Ordered
  <2> QED BY <2>1, <2>2 DEF InOrder
<1> QED BY <1>1, <1>2, <1>6, <1>7, <1>8, <1>9, <1>10, WorldKept DEF World

LEMMA FindSessionKeeps ==
  ASSUME SftpInv, NEW p \in Requests, FindSession(p)
  PROVE SftpInv'
<1> USE DEF SftpInv
<1>1. CASE conn.up /\ Usable # {}
  <2> DEFINE pc == IF req[p].kind = "parallel" THEN "pool" ELSE "permit"
  <2>1. PICK r \in Usable : req' = [req EXCEPT ![p].r = r, ![p].pc = pc]
    BY <1>1 DEF FindSession
  <2>2. /\ r \in DOMAIN recs /\ r \in Nat /\ recs[r].listed
        /\ req[p] \in Request /\ pc \in ReqPcs
    BY Typed DEF Usable, SftpTypes, ReqType, ReqPcs, UserPcs
  <2>3. Moves(p, pc, r, req[p].ch, req[p].parts, req[p].front, req[p].got, req[p].reply)
    <3> HIDE DEF pc
    <3> QED BY <2>1, <2>2, RequestSet DEF SftpTypes, Request
  <2> QED BY <2>2, <2>3, Arrives DEF FindSession, At, KindsFit, Request
<1>2. CASE ~(conn.up /\ Usable # {})
  BY <1>2, EarlyLeave DEF FindSession, At, SftpTypes, ConnType
<1> QED BY <1>1, <1>2

LEMMA PoolWaitedKeeps ==
  ASSUME SftpInv, NEW p \in Requests, PoolWaited(p)
  PROVE SftpInv'
<1> USE DEF SftpInv
<1> DEFINE r == req[p].r
           size == Most(1, Cardinality(recs[r].pool))
           parts == Least(Parts, Least(size, Blocks))
<1>1. /\ req[p].pc = "pool" /\ r \in DOMAIN recs /\ (recs[r].listed \/ recs[r].closed)
      /\ req[p] \in Request /\ req[p].kind = "parallel"
  BY DEF PoolWaited, At, UsersHold, UserPcs, SftpTypes, ReqType, KindsFit
<1>2. parts \in 1..Slots
  <2>1. IsFiniteSet(recs[r].pool)
    BY <1>1, OwnFinite, FS_Subset DEF RecordLife, RecordFits
  <2>2. Cardinality(recs[r].pool) \in Nat
    BY <2>1, FS_CardinalityType
  <2> QED BY <2>2, SftpAssumption DEF Most, Least
<1>3. req' = [req EXCEPT ![p].parts = parts, ![p].pc = "permit"]
  BY DEF PoolWaited
<1> HIDE DEF parts
<1>4. Moves(p, "permit", r, req[p].ch, parts, req[p].front, req[p].got, req[p].reply)
  BY <1>1, <1>2, <1>3, RequestSet DEF SftpTypes, Request, ReqPcs, UserPcs
<1> QED BY <1>1, <1>2, <1>4, Arrives DEF PoolWaited

LEMMA PermitKeeps ==
  ASSUME SftpInv, NEW p \in Requests, Permit(p)
  PROVE SftpInv'
<1> USE DEF SftpInv
<1> DEFINE r == req[p].r
<1>1. /\ req[p].pc = "permit" /\ r \in DOMAIN recs /\ req[p] \in Request /\ recs[r] \in Record
      /\ work[p] = <<>> /\ temp[p] = None
  BY Typed DEF Permit, At, UsersHold, UserPcs, SftpTypes, ReqType, KindsFit, StagingKnown
<1>2. CASE recs[r].closed /\ req[p].kind # "upload"
  BY <1>1, <1>2, EarlyLeave DEF Permit, SftpTypes, ConnType
<1>3. CASE ~(recs[r].closed /\ req[p].kind # "upload")
  <2> DEFINE n == recs[r].free - req[p].parts
  <2>1. /\ n \in Nat /\ recs' = [recs EXCEPT ![r].free = n]
        /\ UNCHANGED <<conn, openLock, chans, work, cleaner, temp>>
    BY <1>1, <1>3, SftpAssumption DEF Permit, Record, Request
  <2>2. PICK pc \in {"register", "spawn", "open"} : Goto(p, pc) /\ Walk(p, pc)
    BY <1>1, <1>3 DEF Permit, Walk, Request, Kinds
  <2>3. Accounts(r, n, recs[r].uploads)
    <3> HIDE DEF n
    <3> QED BY <1>1, <2>1, FreeSet DEF SftpTypes
  <2>4. Advances(p, pc)
    BY <2>2, Goes DEF SftpTypes, ReqPcs, UserPcs, Uploading
  <2>5. Aside(p)
    BY <1>1, <2>1, <2>3, <2>4 DEF Aside, Accounts, Advances, Moves, Locked
  <2>6. SftpTypes'
    BY <2>1, <2>3, <2>4, <2>5, AsideTypes DEF SftpTypes, Accounts, WorkType, ConnType, Advances, Moves
  <2>7. ~Holding(p) /\ ~InCount(p) /\ Holding(p)' /\ ~InCount(p)'
    BY <1>1, <2>1, <2>4 DEF Holding, InCount, Staging, Advances, Moves
  <2>8. SlotsHeld'
    BY <1>1, <2>1, <2>3, <2>4, <2>7, SlotsTaken, HolderSame
       DEF Advances, Moves, Accounts, SftpTypes, Request
  <2>9. UploadsCounted'
    BY <2>3, <2>4, <2>7, UploadsSame DEF Advances, Moves, Accounts, InCount
  <2>10. StagingKnown'
    BY <1>1, <2>1, <2>4 DEF StagingKnown, Advances, Moves
  <2> QED BY <2>1, <2>2, <2>4, <2>5, <2>6, <2>8, <2>9, <2>10, WorldKept, WalkKeeps DEF World
<1> QED BY <1>2, <1>3

LEMMA PermitTimeoutKeeps ==
  ASSUME SftpInv, NEW p \in Requests, PermitTimeout(p)
  PROVE SftpInv'
BY EarlyLeave DEF PermitTimeout, At, SftpInv, SftpTypes, ConnType

-----------------------------------------------------------------------------
(* The end of a transfer that holds one slot.                              *)

LEMMA GiveLeave ==
  ASSUME SftpInv, NEW p \in Requests, NEW reply \in {"ok", "error", "gone"},
         req[p].pc \in {"register", "open", "stream"}, req[p].kind # "parallel",
         Reply(p, reply), reply = "ok" => Len(req[p].got) = Blocks, recs' = Give(req[p].r, 1),
         UNCHANGED <<openLock, chans, work, cleaner, temp>>,
         conn'.up = conn.up, conn'.lost = conn.lost, ConnType'
  PROVE SftpInv'
<1> USE DEF SftpInv
<1> DEFINE r == req[p].r
<1>1. /\ r \in DOMAIN recs /\ req[p] \in Request /\ work[p] = <<>> /\ temp[p] = None
      /\ req[p].parts = 1
  BY DEF UsersHold, UserPcs, Uploading, SftpTypes, ReqType, KindsFit, StagingKnown
<1>2. Leaves(p, reply)
  BY Replies DEF SftpTypes
<1>3. Accounts(r, recs[r].free + 1, recs[r].uploads)
  BY <1>1, Gives DEF SftpTypes
<1>4. Aside(p)
  BY <1>2, <1>3 DEF Aside, Accounts, Leaves, Moves, Locked
<1>5. SftpTypes'
  BY <1>2, <1>3, <1>4, AsideTypes DEF SftpTypes, Accounts, WorkType, Leaves, Moves
<1>6. Holding(p) /\ ~InCount(p) /\ ~Holding(p)' /\ ~InCount(p)'
  BY <1>1, <1>2 DEF Holding, InCount, Staging, Leaves, Moves, KindsFit
<1>7. SlotsHeld'
  BY <1>1, <1>2, <1>3, <1>6, SlotsGiven, HolderSame DEF Leaves, Moves, Accounts, SftpTypes, Request
<1>8. UploadsCounted'
  BY <1>2, <1>3, <1>6, UploadsSame DEF Leaves, Moves, Accounts, InCount
<1>9. StagingKnown'
  BY <1>1, <1>2, <1>4 DEF StagingKnown, Leaves, Moves, Aside
<1> QED BY <1>2, <1>4, <1>5, <1>7, <1>8, <1>9, WorldKept, LeaveKeeps DEF World

LEMMA GiveUpLeave ==
  ASSUME SftpInv, NEW p \in Requests, NEW reply \in {"ok", "error"},
         req[p].pc \in {"recheck", "replace", "cleanup"},
         Reply(p, reply), recs' = GiveUp(req[p].r),
         UNCHANGED <<conn, openLock, chans, work, cleaner>>,
         temp' \in [Requests -> {None, "partial", "whole"}],
         \A q \in Requests : q # p => temp'[q] = temp[q],
         temp'[p] = None \/ cleaner.late \/ conn.lost
  PROVE SftpInv'
<1> USE DEF SftpInv
<1> DEFINE r == req[p].r
<1>1. /\ r \in DOMAIN recs /\ req[p] \in Request /\ work[p] = <<>>
      /\ req[p].parts = 1 /\ req[p].kind = "upload"
  BY DEF UsersHold, UserPcs, Uploading, Staging, SftpTypes, ReqType, KindsFit
<1>2. Leaves(p, reply)
  BY Replies DEF SftpTypes
<1>3. InCount(p)
  BY DEF InCount, Staging
<1>4. Accounts(r, recs[r].free + 1, recs[r].uploads - 1)
  BY <1>1, <1>3, GivesUp, CountedMeansSome DEF SftpTypes
<1>5. Aside(p)
  BY <1>2, <1>4 DEF Aside, Accounts, Leaves, Moves, Locked
<1>6. SftpTypes'
  BY <1>2, <1>4, <1>5, AsideTypes DEF SftpTypes, Accounts, WorkType, ConnType, Leaves, Moves
<1>7. Holding(p) /\ ~Holding(p)' /\ ~InCount(p)'
  BY <1>1, <1>2 DEF Holding, InCount, Staging, Leaves, Moves
<1>8. SlotsHeld'
  BY <1>1, <1>2, <1>4, <1>7, SlotsGiven, HolderSame DEF Leaves, Moves, Accounts, SftpTypes, Request
<1>9. UploadsCounted'
  BY <1>1, <1>2, <1>3, <1>4, <1>7, UploadsOut DEF Leaves, Moves, Accounts
<1>10. StagingKnown'
  BY <1>2, <1>5 DEF StagingKnown, Leaves, Moves, Aside
<1> QED BY <1>1, <1>2, <1>5, <1>6, <1>8, <1>9, <1>10, WorldKept, LeaveKeeps DEF World

(* While an upload has its staging file, the close waits for it: its       *)
(* channel is open unless the close gave up or the transport was lost.     *)
LEMMA StagingOpen ==
  ASSUME SftpInv, NEW p \in Requests, req[p].pc \in Staging, ~cleaner.late, ~conn.lost
  PROVE Open(p)
<1> DEFINE r == req[p].r
<1>1. r \in DOMAIN recs /\ (recs[r].listed \/ recs[r].closed) /\ req[p].ch \in recs[r].pool
  BY DEF SftpInv, UsersHold, UserPcs, Uploading, StagingServed
<1>2. Live(r)
  BY <1>1 DEF SftpInv, StagingServed, RecordLife, RecordFits, Live, Closing
<1> QED BY <1>1, <1>2 DEF SftpInv, ChannelsOwned, Open

-----------------------------------------------------------------------------
(* Uploads.                                                                *)

LEMMA RegisterKeeps ==
  ASSUME SftpInv, NEW p \in Requests, Register(p)
  PROVE SftpInv'
<1>1. CASE recs[req[p].r].closed
  BY <1>1, GiveLeave DEF Register, At, SftpInv, SftpTypes, ConnType, KindsFit, Uploading
<1>2. CASE ~recs[req[p].r].closed
  BY <1>2, QuietWalk DEF Register, At, Walk, ReqPcs, UserPcs, Uploading, SftpInv, SftpTypes
<1> QED BY <1>1, <1>2

LEMMA CountKeeps ==
  ASSUME SftpInv, NEW p \in Requests, Count(p)
  PROVE SftpInv'
<1> USE DEF SftpInv
<1> DEFINE r == req[p].r
<1>1. /\ r \in DOMAIN recs /\ recs[r] \in Record /\ work[p] = <<>> /\ temp[p] = None
      /\ req[p].pc = "count" /\ UNCHANGED <<conn, openLock, chans, work, cleaner, temp>>
  BY Typed DEF Count, At, UsersHold, UserPcs, Uploading, SftpTypes, KindsFit, StagingKnown
<1>2. Advances(p, "recheck")
  BY Goes DEF Count, SftpTypes, ReqPcs, UserPcs, Uploading
<1>3. Accounts(r, recs[r].free, recs[r].uploads + 1)
  <2>1. recs[r].uploads + 1 \in Nat /\ recs' = [recs EXCEPT ![r].uploads = recs[r].uploads + 1]
    BY <1>1 DEF Count, Record
  <2> QED BY <1>1, <2>1, UploadsSet DEF SftpTypes
<1>4. Aside(p)
  BY <1>1, <1>2, <1>3 DEF Aside, Accounts, Advances, Moves, Locked
<1>5. SftpTypes'
  BY <1>1, <1>2, <1>3, <1>4, AsideTypes DEF SftpTypes, Accounts, WorkType, ConnType, Advances, Moves
<1>6. Holding(p) /\ Holding(p)' /\ ~InCount(p) /\ InCount(p)'
  BY <1>1, <1>2 DEF Holding, InCount, Staging, Advances, Moves
<1>7. \A q \in Requests : SameHolder(q)
  BY <1>1, <1>2, <1>6, HolderSame DEF Advances, Moves, SameHolder
<1>8. SlotsHeld'
  BY <1>3, <1>7, SlotsSame DEF Accounts
<1>9. UploadsCounted'
  BY <1>1, <1>2, <1>3, <1>6, UploadsIn DEF Advances, Moves, Accounts
<1>10. StagingKnown' /\ Walk(p, "recheck")
  BY <1>1, <1>2 DEF StagingKnown, Advances, Moves, Walk
<1> QED BY <1>1, <1>2, <1>4, <1>5, <1>8, <1>9, <1>10, WorldKept, WalkKeeps DEF World

LEMMA RecheckKeeps ==
  ASSUME SftpInv, NEW p \in Requests, Recheck(p)
  PROVE SftpInv'
<1> USE DEF SftpInv
<1> DEFINE r == req[p].r
<1>1. /\ r \in DOMAIN recs /\ (recs[r].listed \/ recs[r].closed) /\ req[p] \in Request
      /\ recs[r] \in Record /\ work[p] = <<>> /\ temp[p] = None /\ req[p].kind = "upload"
      /\ req[p].pc = "recheck" /\ UNCHANGED <<conn, openLock, chans, work, cleaner, temp>>
  BY Typed DEF Recheck, At, UsersHold, UserPcs, Uploading, SftpTypes, ReqType, KindsFit, StagingKnown
<1>2. CASE recs[r].closed
  BY <1>1, <1>2, GiveUpLeave DEF Recheck, SftpTypes
<1>3. CASE ~recs[r].closed
  <2>1. PICK ch \in NextSession(r) : req' = [req EXCEPT ![p].ch = ch, ![p].pc = "stage"]
    BY <1>3 DEF Recheck
  <2>2. recs' = recs /\ recs[r].listed
    BY <1>1, <1>3 DEF Recheck
  <2>3. ch \in recs[r].pool /\ ch \in Channels
    BY <1>1, <2>2 DEF NextSession, RecordLife, RecordFits, Record
  <2>4. Moves(p, "stage", r, ch, req[p].parts, req[p].front, req[p].got, req[p].reply)
    BY <1>1, <2>1, <2>3, RequestSet DEF SftpTypes, Request, ReqPcs, UserPcs, Uploading, Staging
  <2> HIDE DEF r
  <2>5. Aside(p)
    BY <1>1, <2>2, <2>4 DEF Aside, Shell, Moves, Locked
  <2>6. SftpTypes'
    BY <1>1, <2>2, <2>4, <2>5, AsideTypes DEF SftpTypes, RecsType, WorkType, ConnType, Moves
  <2>7. Holding(p) /\ Holding(p)' /\ InCount(p) /\ InCount(p)'
    BY <1>1, <2>4 DEF Holding, InCount, Staging, Moves
  <2>8. \A q \in Requests : SameHolder(q)
    BY <1>1, <2>4, <2>7, HolderSame DEF Moves, SameHolder, r
  <2>9. UploadsCounted' /\ SlotsHeld'
    BY <2>2, <2>4, <2>7, <2>8, UploadsSame, SlotsSame DEF Moves, InCount, r
  <2>10. KindsFit' /\ StagingKnown'
    BY <1>1, <2>4 DEF KindsFit, Uploading, Staging, Locked, StagingKnown, Moves
  <2>11. UsersHold'
    BY <1>1, <2>2, <2>3, <2>4 DEF UsersHold, Streaming, At, HeldBy, Moves
  <2>12. StagingServed'
    BY <1>1, <1>3, <2>2, <2>3, <2>4 DEF StagingServed, Moves
  <2>13. Delivered'
    BY <1>1, <2>4 DEF Delivered, Moves
  <2>14. InOrder'
    <3>1. ASSUME NEW q \in Requests, q # p PROVE Ordered(q)'
      BY <1>1, <2>4, <3>1, OrderedSame DEF InOrder, Moves
    <3>2. Ordered(p)'
      BY <2>4 DEF Ordered, Moves
    <3> QED BY <3>1, <3>2 DEF InOrder
  <2> QED BY <2>5, <2>6, <2>9, <2>10, <2>11, <2>12, <2>13, <2>14, WorldKept DEF World
<1> QED BY <1>2, <1>3

LEMMA StageKeeps ==
  ASSUME SftpInv, NEW p \in Requests, Stage(p)
  PROVE SftpInv'
<1>1. PICK pc \in {"copy", "cleanup"} :
        /\ Goto(p, pc) /\ (temp' = temp \/ temp' = [temp EXCEPT ![p] = "partial"])
        /\ req[p].pc = "stage" /\ UNCHANGED <<conn, openLock, recs, chans, work, cleaner>>
  BY DEF Stage, At
<1>2. /\ temp' \in [Requests -> {None, "partial", "whole"}] /\ pc \in ReqPcs /\ Walk(p, pc)
      /\ \A q \in Requests : q # p => temp'[q] = temp[q]
  BY <1>1 DEF SftpInv, SftpTypes, ReqPcs, UserPcs, Uploading, Staging, Walk
<1> QED BY <1>1, <1>2, QuietWalk

LEMMA CopyKeeps ==
  ASSUME SftpInv, NEW p \in Requests, Copy(p)
  PROVE SftpInv'
<1>1. PICK pc \in {"replace", "cleanup"} :
        /\ Goto(p, pc) /\ (temp' = temp \/ temp' = [temp EXCEPT ![p] = "whole"])
        /\ req[p].pc = "copy" /\ UNCHANGED <<conn, openLock, recs, chans, work, cleaner>>
  BY DEF Copy, At
<1>2. /\ temp' \in [Requests -> {None, "partial", "whole"}] /\ pc \in ReqPcs /\ Walk(p, pc)
      /\ \A q \in Requests : q # p => temp'[q] = temp[q]
  BY <1>1 DEF SftpInv, SftpTypes, ReqPcs, UserPcs, Uploading, Staging, Walk
<1> QED BY <1>1, <1>2, QuietWalk

LEMMA ReplaceRemoteFileKeeps ==
  ASSUME SftpInv, NEW p \in Requests, ReplaceRemoteFile(p)
  PROVE SftpInv'
<1>1. /\ req[p].pc = "replace" /\ UNCHANGED <<conn, openLock, chans, work, cleaner>>
      /\ temp' = temp \/ temp' = [temp EXCEPT ![p] = None]
  BY DEF ReplaceRemoteFile, At
<1>2. /\ temp' \in [Requests -> {None, "partial", "whole"}]
      /\ \A q \in Requests : q # p => temp'[q] = temp[q]
  BY <1>1 DEF SftpInv, SftpTypes
<1>3. CASE Goto(p, "cleanup") /\ recs' = recs
  BY <1>1, <1>2, <1>3, QuietWalk DEF Walk, ReqPcs, UserPcs, Uploading, Staging
<1>4. CASE temp' = [temp EXCEPT ![p] = None] /\ Reply(p, "ok") /\ recs' = GiveUp(req[p].r)
  <2>1. temp'[p] = None
    BY <1>4 DEF SftpInv, SftpTypes
  <2> QED BY <1>1, <1>2, <1>4, <2>1, GiveUpLeave
<1> QED BY <1>3, <1>4 DEF ReplaceRemoteFile

LEMMA CleanupKeeps ==
  ASSUME SftpInv, NEW p \in Requests, Cleanup(p)
  PROVE SftpInv'
<1>1. /\ temp' \in [Requests -> {None, "partial", "whole"}]
      /\ \A q \in Requests : q # p => temp'[q] = temp[q]
      /\ temp'[p] = None \/ cleaner.late \/ conn.lost
  BY StagingOpen DEF Cleanup, At, Swept, Staging, SftpInv, SftpTypes
<1> QED BY <1>1, GiveUpLeave DEF Cleanup, At

LEMMA SweepKeeps ==
  ASSUME SftpInv, NEW p \in Requests, Sweep(p)
  PROVE SftpInv'
<1> USE DEF SftpInv
<1> DEFINE r == req[p].r
<1>1. /\ temp' \in [Requests -> {None, "partial", "whole"}]
      /\ \A q \in Requests : q # p => temp'[q] = temp[q]
      /\ temp'[p] = None \/ cleaner.late \/ conn.lost
  BY StagingOpen DEF Sweep, At, Swept, Staging, SftpTypes
<1>2. /\ r \in DOMAIN recs /\ work[p] = <<>> /\ req[p].pc = "sweep"
      /\ UNCHANGED <<conn, openLock, chans, work, cleaner>>
  BY DEF Sweep, At, UsersHold, UserPcs, Uploading, Staging, KindsFit
<1>3. Advances(p, "done")
  BY Goes DEF Sweep, SftpTypes, ReqPcs
<1>4. InCount(p) /\ ~Holding(p) /\ ~InCount(p)' /\ ~Holding(p)'
  BY <1>2, <1>3 DEF InCount, Staging, Holding, Advances, Moves
<1>5. Accounts(r, recs[r].free, recs[r].uploads - 1)
  BY <1>2, <1>4, Unregisters, CountedMeansSome DEF SftpTypes, Sweep
<1>6. Aside(p)
  BY <1>1, <1>2, <1>3, <1>5 DEF Aside, Accounts, Advances, Moves, Locked
<1>7. SftpTypes'
  BY <1>1, <1>2, <1>3, <1>5, <1>6, AsideTypes DEF SftpTypes, Accounts, WorkType, ConnType, Advances, Moves
<1>8. \A q \in Requests : SameHolder(q)
  BY <1>2, <1>3, <1>4, HolderSame DEF Advances, Moves, SameHolder
<1>9. SlotsHeld'
  BY <1>5, <1>8, SlotsSame DEF Accounts
<1>10. UploadsCounted'
  BY <1>2, <1>3, <1>4, <1>5, UploadsOut DEF Advances, Moves, Accounts
<1>11. StagingKnown' /\ Walk(p, "done")
  BY <1>1, <1>2, <1>3, <1>6 DEF StagingKnown, Advances, Moves, Walk, Aside
<1> QED BY <1>2, <1>3, <1>6, <1>7, <1>9, <1>10, <1>11, WorldKept, WalkKeeps DEF World

-----------------------------------------------------------------------------
(* Single downloads.                                                       *)

LEMMA GotSet ==
  ASSUME ReqType, NEW p \in Requests, NEW got \in Seq(Nat), NEW front \in Nat \ {0},
         \/ req' = [req EXCEPT ![p].got = got] /\ front = req[p].front
         \/ req' = [req EXCEPT ![p].front = front] /\ got = req[p].got
  PROVE Moves(p, req[p].pc, req[p].r, req[p].ch, req[p].parts, front, got, req[p].reply)
<1>1. req[p] \in Request
  BY DEF ReqType
<1>2. CASE req' = [req EXCEPT ![p].got = got] /\ front = req[p].front
  <2> DEFINE new == [req[p] EXCEPT !.got = got]
  <2>1. /\ new \in Request /\ new.kind = req[p].kind /\ new.pc = req[p].pc /\ new.r = req[p].r
        /\ new.ch = req[p].ch /\ new.parts = req[p].parts /\ new.front = req[p].front
        /\ new.got = got /\ new.reply = req[p].reply
    BY <1>1 DEF Request
  <2>2. req' = [req EXCEPT ![p] = new]
    BY <1>2
  <2> HIDE DEF new
  <2>3. Moves(p, new.pc, new.r, new.ch, new.parts, new.front, new.got, new.reply)
    BY <2>1, <2>2, RequestChanged
  <2> QED BY <1>2, <2>1, <2>3
<1>3. CASE req' = [req EXCEPT ![p].front = front] /\ got = req[p].got
  <2> DEFINE new == [req[p] EXCEPT !.front = front]
  <2>1. /\ new \in Request /\ new.kind = req[p].kind /\ new.pc = req[p].pc /\ new.r = req[p].r
        /\ new.ch = req[p].ch /\ new.parts = req[p].parts /\ new.front = front
        /\ new.got = req[p].got /\ new.reply = req[p].reply
    BY <1>1 DEF Request
  <2>2. req' = [req EXCEPT ![p] = new]
    BY <1>3
  <2> HIDE DEF new
  <2>3. Moves(p, new.pc, new.r, new.ch, new.parts, new.front, new.got, new.reply)
    BY <2>1, <2>2, RequestChanged
  <2> QED BY <1>3, <2>1, <2>3
<1> QED BY <1>2, <1>3

LEMMA StreamKeeps ==
  ASSUME SftpInv, NEW p \in Requests, req[p].pc \in {"open", "stream"}, req[p].kind = "download",
         NEW ch, NEW got \in Seq(Nat),
         Moves(p, "stream", req[p].r, ch, req[p].parts, req[p].front, got, req[p].reply),
         \A k \in DOMAIN got : got[k] = k, Len(got) <= Blocks,
         UNCHANGED <<conn, openLock, recs, chans, work, cleaner, temp>>
  PROVE SftpInv'
<1> USE DEF SftpInv, Moves
<1>1. Aside(p)
  BY DEF Aside, Shell, Locked
<1>2. SftpTypes'
  BY <1>1, AsideTypes DEF SftpTypes, RecsType, WorkType, ConnType
<1>3. /\ work[p] = <<>> /\ temp[p] = None /\ req[p].reply # "ok" /\ req[p].parts = 1
      /\ req[p].r \in DOMAIN recs /\ (recs[req[p].r].listed \/ recs[req[p].r].closed)
  BY DEF KindsFit, StagingKnown, UsersHold, UserPcs
<1>4. Holding(p) /\ ~InCount(p) /\ Holding(p)' /\ ~InCount(p)'
  BY <1>3 DEF Holding, InCount, Staging
<1>5. \A q \in Requests : SameHolder(q)
  BY <1>4, HolderSame DEF SameHolder
<1>6. UploadsCounted' /\ SlotsHeld'
  BY <1>4, <1>5, UploadsSame, SlotsSame DEF InCount
<1>7. KindsFit' /\ StagingKnown'
  BY <1>3 DEF KindsFit, Uploading, Staging, Locked, StagingKnown
<1>8. UsersHold'
  BY <1>3 DEF UsersHold, Streaming, At, HeldBy
<1>9. StagingServed'
  BY <1>3 DEF StagingServed, Staging
<1>10. Delivered'
  BY <1>3 DEF Delivered
<1>11. InOrder'
  <2>1. ASSUME NEW q \in Requests, q # p PROVE Ordered(q)'
    BY <2>1, OrderedSame DEF InOrder
  <2>2. Ordered(p)'
    BY DEF Ordered
  <2> QED BY <2>1, <2>2 DEF InOrder
<1> QED BY <1>1, <1>2, <1>6, <1>7, <1>8, <1>9, <1>10, <1>11, WorldKept DEF World

(* A channel a transfer is given belongs to the pool of its session.       *)
LEMMA NextHeld ==
  ASSUME SftpInv, NEW p \in Requests, req[p].pc \in UserPcs, NEW ch \in NextSession(req[p].r)
  PROVE HeldBy(p, ch) /\ ch \in Channels
<1>1. /\ req[p].r \in DOMAIN recs /\ (recs[req[p].r].listed \/ recs[req[p].r].closed)
      /\ recs[req[p].r] \in Record /\ req[p].r \in Nat
  BY Typed DEF SftpInv, SftpTypes, UsersHold
<1>2. HeldBy(p, ch)
  BY <1>1 DEF SftpInv, HeldBy, NextSession, RecordLife, RecordFits
<1>3. ch \in Channels
  BY <1>1 DEF NextSession, Record, Channel, Channels
<1> QED BY <1>2, <1>3

LEMMA OpenFileKeeps ==
  ASSUME SftpInv, NEW p \in Requests, OpenFile(p)
  PROVE SftpInv'
<1> USE DEF SftpInv
<1> DEFINE r == req[p].r
<1>1. /\ req[p].pc = "open" /\ req[p] \in Request /\ req[p].kind = "download"
      /\ UNCHANGED <<conn, openLock, chans, work, cleaner, temp>>
  BY DEF OpenFile, At, SftpTypes, ReqType, KindsFit
<1>2. CASE Reply(p, "error") /\ recs' = Give(r, 1)
  BY <1>1, <1>2, GiveLeave DEF SftpTypes, ConnType
<1>3. CASE /\ \E ch \in NextSession(r) \cap chans : req' = [req EXCEPT ![p].ch = ch, ![p].pc = "stream"]
           /\ recs' = recs
  <2>1. PICK ch \in NextSession(r) : req' = [req EXCEPT ![p].ch = ch, ![p].pc = "stream"]
    BY <1>3
  <2>2. ch \in Channels
    BY <1>1, NextHeld DEF UserPcs
  <2>3. Moves(p, "stream", r, ch, req[p].parts, req[p].front, req[p].got, req[p].reply)
    BY <1>1, <2>1, <2>2, RequestSet DEF SftpTypes, Request, ReqPcs, UserPcs
  <2>4. req[p].got = <<>> /\ req[p].got \in Seq(Nat)
    BY <1>1 DEF Delivered, Request
  <2>5. (\A k \in DOMAIN req[p].got : req[p].got[k] = k) /\ Len(req[p].got) <= Blocks
    BY <2>4, SftpAssumption DEF Delivered
  <2> QED BY <1>1, <1>3, <2>2, <2>3, <2>4, <2>5, StreamKeeps
<1> QED BY <1>2, <1>3 DEF OpenFile

LEMMA PollSingleKeeps ==
  ASSUME SftpInv, NEW p \in Requests, PollSingle(p)
  PROVE SftpInv'
<1> USE DEF SftpInv
<1> DEFINE r == req[p].r
           sent == Len(req[p].got)
           got == Append(req[p].got, sent + 1)
<1>1. /\ req[p].pc = "stream" /\ req[p] \in Request /\ req[p].kind = "download"
      /\ UNCHANGED <<conn, openLock, chans, work, cleaner, temp>>
  BY DEF PollSingle, At, SftpTypes, ReqType
<1>2. CASE sent < Blocks /\ Open(p) /\ req' = [req EXCEPT ![p].got = got] /\ recs' = recs
  <2>1. req[p].got \in Seq(Nat) /\ sent \in Nat /\ \A k \in DOMAIN req[p].got : req[p].got[k] = k
    BY <1>1 DEF Request, Delivered
  <2>2. got \in Seq(Nat) /\ Len(got) = sent + 1 /\ \A k \in DOMAIN got : got[k] = k
    BY <2>1, AppendProperties
  <2> HIDE DEF got
  <2>3. Moves(p, req[p].pc, r, req[p].ch, req[p].parts, req[p].front, got, req[p].reply)
    BY <1>1, <1>2, <2>2, GotSet DEF SftpTypes, Request
  <2>4. Len(got) <= Blocks
    BY <1>2, <2>1, <2>2, SftpAssumption
  <2> QED BY <1>1, <1>2, <2>2, <2>3, <2>4, StreamKeeps
<1>3. CASE sent = Blocks /\ recs' = Give(r, 1) /\ Reply(p, "ok")
  BY <1>1, <1>3, GiveLeave DEF SftpTypes, ConnType
<1>4. CASE recs' = Give(r, 1) /\ Reply(p, "error")
  BY <1>1, <1>4, GiveLeave DEF SftpTypes, ConnType
<1> QED BY <1>2, <1>3, <1>4 DEF PollSingle
-----------------------------------------------------------------------------
(* Parallel downloads.                                                     *)

LEMMA WorkerSet ==
  ASSUME WorkType, NEW p \in Requests, NEW i \in DOMAIN work[p], NEW new \in WorkerRecord,
         work' = [work EXCEPT ![p][i] = new]
  PROVE /\ WorkType' /\ \A q \in Requests : q # p => work'[q] = work[q]
        /\ Len(work'[p]) = Len(work[p]) /\ DOMAIN work'[p] = DOMAIN work[p]
        /\ \A j \in DOMAIN work[p] : work'[p][j] = IF j = i THEN new ELSE work[p][j]
<1> DEFINE ws == [work[p] EXCEPT ![i] = new]
<1>1. work[p] \in Seq(WorkerRecord) /\ i \in 1..Len(work[p]) /\ DOMAIN work[p] = 1..Len(work[p])
  BY DEF WorkType
<1>2. ws \in Seq(WorkerRecord) /\ Len(ws) = Len(work[p])
  BY <1>1, ExceptSeq, Zenon
<1>3. \A j \in DOMAIN work[p] : ws[j] = IF j = i THEN new ELSE work[p][j]
  BY <1>1
<1>4. work' = [work EXCEPT ![p] = ws]
  OBVIOUS
<1>5. DOMAIN ws = DOMAIN work[p]
  OBVIOUS
<1> HIDE DEF ws
<1> QED BY <1>2, <1>3, <1>4, <1>5 DEF WorkType

LEMMA DivBelow ==
  ASSUME NEW n \in Nat, NEW m \in Nat \ {0}
  PROVE (n \div m) \in Nat /\ m * (n \div m) <= n
OBVIOUS

(* Where the ranges begin and end.                                         *)
LEMMA Ranges ==
  ASSUME NEW p, req[p].parts \in 1..Slots, NEW i \in 1..req[p].parts
  PROVE /\ RangeStart(p, i) \in Nat \ {0} /\ RangeEnd(p, i) \in Nat
        /\ RangeStart(p, i) <= RangeEnd(p, i) + 1
        /\ RangeStart(p, 1) = 1
        /\ i < req[p].parts => RangeStart(p, i + 1) = RangeEnd(p, i) + 1
<1> DEFINE m == req[p].parts
           d == Blocks \div m
<1>1. m \in Nat \ {0} /\ d \in Nat /\ m * d <= Blocks /\ i \in Nat \ {0} /\ i <= m /\ Blocks \in Nat
  BY SftpAssumption, DivBelow
<1>2. RangeStart(p, i) = (i - 1) * d + 1 /\ RangeStart(p, 1) = 0 * d + 1
      /\ RangeStart(p, i + 1) = i * d + 1 /\ RangeEnd(p, i) = IF i = m THEN Blocks ELSE i * d
  BY <1>1 DEF RangeStart, RangeEnd
<1> HIDE DEF d, m
<1>3. /\ (i - 1) * d \in Nat /\ i * d \in Nat /\ (i - 1) * d <= i * d /\ i * d <= m * d
      /\ 0 * d = 0
  <2>1. PICK k \in Nat : i = k + 1
    <3>1. i - 1 \in Nat /\ i = (i - 1) + 1
      BY <1>1
    <3> QED BY <3>1
  <2>2. PICK l \in Nat : m = i + l
    <3>1. m - i \in Nat /\ m = i + (m - i)
      BY <1>1
    <3> QED BY <3>1
  <2>3. k * d \in Nat /\ l * d \in Nat
    BY <1>1, <2>1, <2>2
  <2>4. i * d = k * d + d /\ m * d = i * d + l * d /\ i - 1 = k
    BY <1>1, <2>1, <2>2
  <2> QED BY <1>1, <2>3, <2>4
<1> QED BY <1>1, <1>2, <1>3 DEF m

(* A step on the workers of one download.                                  *)
WorkersFit(p) ==
  /\ req'[p].pc = "spawn" => Len(work'[p]) < req[p].parts
  /\ req'[p].pc = "stream" => Len(work'[p]) = req[p].parts
  /\ req[p].r \in DOMAIN recs
  /\ \A i \in DOMAIN work'[p] : ~Ended(work'[p][i]) => HeldBy(p, work'[p][i].ch)

LEMMA ParallelKeeps ==
  ASSUME SftpInv, NEW p \in Requests, req[p].kind = "parallel", Aside(p), temp' = temp,
         NEW pc, NEW got, NEW front,
         Moves(p, pc, req[p].r, req[p].ch, req[p].parts, front, got, req[p].reply),
         \/ req[p].pc = "spawn" /\ pc \in {"spawn", "stream"}
         \/ req[p].pc \in {"stream", "done"} /\ pc = req[p].pc,
         pc = "stream" \/ (got = req[p].got /\ front = req[p].front),
         \A k \in DOMAIN got : got[k] = k, WorkersFit(p), Ordered(p)',
         \A s \in DOMAIN recs : recs'[s].uploads = recs[s].uploads
  PROVE /\ KindsFit' /\ UsersHold' /\ UploadsCounted' /\ StagingServed' /\ StagingKnown'
        /\ Delivered' /\ InOrder'
<1> USE DEF SftpInv, Aside, Moves
<1>1. KindsFit'
  BY DEF KindsFit, Uploading, Staging, Locked, WorkersFit
<1>2. UsersHold'
  BY DEF UsersHold, Streaming, At, HeldBy, Shell, UserPcs, Uploading, Staging, WorkersFit
<1>3. StagingServed'
  BY DEF StagingServed, Shell, Staging, UsersHold, UserPcs, Uploading
<1>4. StagingKnown'
  BY DEF StagingKnown
<1>5. Delivered'
  BY DEF Delivered, KindsFit
<1>6. InOrder'
  <2>1. ASSUME NEW q \in Requests, q # p PROVE Ordered(q)'
    BY <2>1, OrderedSame DEF InOrder
  <2> QED BY <2>1 DEF InOrder
<1>7. UploadsCounted'
  BY UploadsSame DEF InCount, Staging
<1> QED BY <1>1, <1>2, <1>3, <1>4, <1>5, <1>6, <1>7

LEMMA SpawnWorkerKeeps ==
  ASSUME SftpInv, NEW p \in Requests, SpawnWorker(p)
  PROVE SftpInv'
<1> USE DEF SftpInv
<1> DEFINE n == Len(work[p])
<1>1. /\ req[p].pc = "spawn" /\ req[p].kind = "parallel" /\ req[p] \in Request
      /\ work[p] \in Seq(WorkerRecord) /\ n \in Nat /\ n < req[p].parts /\ req[p].r \in DOMAIN recs
      /\ req[p].got = <<>> /\ req[p].front = 1 /\ DOMAIN work[p] = 1..n
      /\ UNCHANGED <<conn, openLock, recs, chans, cleaner, temp>>
  BY DEF SpawnWorker, At, SftpTypes, ReqType, WorkType, KindsFit, UsersHold, UserPcs, Delivered
<1>2. PICK i : i = n + 1
  OBVIOUS
<1>3. i \in 1..req[p].parts /\ req[p].parts \in 1..Slots /\ i \in Nat
  BY <1>1, <1>2 DEF Request
<1>4. PICK ch \in NextSession(req[p].r) :
        work' = [work EXCEPT ![p] = Append(work[p],
          [pc |-> "open", ch |-> ch, next |-> RangeStart(p, i), last |-> RangeEnd(p, i),
           item |-> Error, q |-> <<>>])]
  BY <1>2 DEF SpawnWorker
<1>5. HeldBy(p, ch) /\ ch \in Channels
  BY <1>1, NextHeld DEF UserPcs
<1>6. PICK w : w = [pc |-> "open", ch |-> ch, next |-> RangeStart(p, i), last |-> RangeEnd(p, i),
                    item |-> Error, q |-> <<>>]
  OBVIOUS
<1>7. /\ w \in WorkerRecord /\ w.pc = "open" /\ w.ch = ch /\ w.next = RangeStart(p, i)
      /\ w.last = RangeEnd(p, i) /\ w.q = <<>>
  BY <1>3, <1>5, <1>6, Ranges, EmptySeq DEF WorkerRecord, Error
<1>8. /\ Append(work[p], w) \in Seq(WorkerRecord) /\ Len(Append(work[p], w)) = i
      /\ Append(work[p], w)[i] = w /\ \A j \in 1..n : Append(work[p], w)[j] = work[p][j]
  BY <1>1, <1>2, <1>7, AppendProperties
<1>9. work' = [work EXCEPT ![p] = Append(work[p], w)]
  BY <1>4, <1>6
<1>10. /\ WorkType' /\ Len(work'[p]) = i /\ DOMAIN work'[p] = 1..i /\ work'[p][i] = w
       /\ \A j \in 1..n : work'[p][j] = work[p][j]
       /\ \A q \in Requests : q # p => work'[q] = work[q]
  <2>1. /\ work'[p] = Append(work[p], w) /\ WorkType'
        /\ \A q \in Requests : q # p => work'[q] = work[q]
    BY <1>8, <1>9 DEF SftpTypes, WorkType
  <2> QED BY <1>8, <2>1
<1>11. PICK pc \in {"spawn", "stream"} :
         /\ Moves(p, pc, req[p].r, req[p].ch, req[p].parts, req[p].front, req[p].got, req[p].reply)
         /\ pc = "stream" <=> i = req[p].parts
  <2>1. CASE i = req[p].parts
    <3>1. Goto(p, "stream")
      BY <1>2, <2>1 DEF SpawnWorker
    <3>2. Advances(p, "stream")
      BY <3>1, Goes DEF SftpTypes, ReqPcs, UserPcs
    <3> QED BY <2>1, <3>2 DEF Advances
  <2>2. CASE i # req[p].parts
    <3>1. req' = req
      BY <1>2, <2>2 DEF SpawnWorker
    <3>2. Moves(p, "spawn", req[p].r, req[p].ch, req[p].parts, req[p].front, req[p].got, req[p].reply)
      BY <1>1, <3>1 DEF Moves, SftpTypes, ReqType
    <3> QED BY <2>2, <3>2
  <2> QED BY <2>1, <2>2
<1>12. Aside(p)
  BY <1>1, <1>10, <1>11 DEF Aside, Shell, Moves, Locked
<1>13. SftpTypes'
  BY <1>1, <1>10, <1>11, <1>12, AsideTypes DEF SftpTypes, RecsType, ConnType, Moves
<1>14. WorkersFit(p)
  <2>1. ASSUME NEW j \in DOMAIN work'[p], ~Ended(work'[p][j]) PROVE HeldBy(p, work'[p][j].ch)
    <3>1. CASE j = i
      BY <1>5, <1>7, <1>10, <3>1
    <3>2. CASE j # i
      <4>1. j \in 1..n
        BY <1>1, <1>2, <1>10, <3>2
      <4> QED BY <1>1, <1>10, <2>1, <4>1 DEF UsersHold, Ended
    <3> QED BY <3>1, <3>2
  <2> QED BY <1>1, <1>3, <1>10, <1>11, <2>1 DEF WorkersFit, Moves
<1>15. Ordered(p)'
  <2>1. \A j : /\ RangeStart(p, j)' = RangeStart(p, j) /\ RangeEnd(p, j)' = RangeEnd(p, j)
               /\ Due(p, j)' = Due(p, j)
    BY <1>11 DEF Moves, RangeStart, RangeEnd, Due
  <2>2. InRange(p, i, w)'
    <3>1. Due(p, i) = RangeStart(p, i)
      BY <1>1, <1>3, Ranges DEF Due
    <3>2. w.next = Due(p, i) + Len(w.q) /\ w.next <= w.last + 1
      BY <1>3, <1>7, <3>1, Ranges
    <3> QED BY <1>7, <2>1, <3>2 DEF InRange, Ended
  <2>3. ASSUME NEW j \in 1..n, NEW v, v = work[p][j] PROVE InRange(p, j, v)'
    <3>1. InRange(p, j, v)
      BY <1>1, <2>3 DEF InOrder, Ordered
    <3> QED BY <2>1, <3>1 DEF InRange, Ended
  <2>4. ASSUME NEW j \in DOMAIN work'[p], NEW v, v = work'[p][j] PROVE InRange(p, j, v)'
    <3>1. CASE j = i
      BY <1>10, <2>2, <2>4, <3>1
    <3>2. CASE j # i
      <4>1. j \in 1..n /\ v = work[p][j]
        BY <1>1, <1>2, <1>10, <2>4, <3>2
      <4> QED BY <2>3, <4>1
    <3> QED BY <3>1, <3>2
  <2>5. req'[p].front <= req'[p].parts + 1 /\ req'[p].front # req'[p].parts + 1
    BY <1>1, <1>3, <1>11 DEF Moves
  <2>6. \A j \in DOMAIN work'[p] : InRange(p, j, work[p][j])'
    BY <2>4 DEF InRange, Ended
  <2> QED BY <2>5, <2>6 DEF Ordered
<1>16. Holding(p) /\ Holding(p)'
  <2>1. Holding(p)
    BY <1>1 DEF Holding
  <2>2. \E j \in DOMAIN work'[p] : ~Ended(work'[p][j])
    BY <1>3, <1>7, <1>10 DEF Ended
  <2> QED BY <2>1, <2>2 DEF Holding, Ended
<1>17. \A q \in Requests : SameHolder(q)
  BY <1>10, <1>11, <1>16, HolderSame DEF Moves, SameHolder
<1>18. SlotsHeld'
  BY <1>1, <1>17, SlotsSame
<1>19. /\ KindsFit' /\ UsersHold' /\ UploadsCounted' /\ StagingServed' /\ StagingKnown'
       /\ Delivered' /\ InOrder'
  <2>1. \A k \in DOMAIN req[p].got : req[p].got[k] = k
    BY DEF Delivered
  <2> QED BY <1>1, <1>11, <1>12, <1>14, <1>15, <2>1, ParallelKeeps
<1> QED BY <1>12, <1>13, <1>18, <1>19, WorldKept DEF World

LEMMA WorkerStep ==
  ASSUME SftpInv, NEW p \in Requests, NEW i \in DOMAIN work[p], NEW new \in WorkerRecord,
         SetWorker(p, i, new), new.ch = work[p][i].ch, ~Ended(work[p][i]),
         UNCHANGED <<conn, openLock, chans, req, cleaner, temp>>,
         recs' = Returned(p, work'[p]) \/ (recs' = recs /\ ~Ended(new)),
         req[p].pc # "done" /\ InRange(p, i, work[p][i]) => InRange(p, i, new)
  PROVE SftpInv'
<1> USE DEF SftpInv
<1>1. /\ WorkType' /\ \A q \in Requests : q # p => work'[q] = work[q]
      /\ Len(work'[p]) = Len(work[p]) /\ DOMAIN work'[p] = DOMAIN work[p]
      /\ \A j \in DOMAIN work[p] : work'[p][j] = IF j = i THEN new ELSE work[p][j]
  BY WorkerSet DEF SetWorker, SftpTypes
<1>2. /\ req[p].kind = "parallel" /\ req[p].pc \in {"spawn", "stream", "done"} /\ req[p] \in Request
      /\ req[p].r \in DOMAIN recs
  BY DEF KindsFit, UsersHold, SftpTypes, ReqType, WorkType
<1>3. Moves(p, req[p].pc, req[p].r, req[p].ch, req[p].parts, req[p].front, req[p].got, req[p].reply)
  BY DEF Moves, SftpTypes, ReqType
<1>4. Holding(p)
  BY DEF Holding
<1>5. \/ Holding(p)' /\ recs' = recs
      \/ ~Holding(p)' /\ recs' = Give(req[p].r, req[p].parts)
  <2>1. CASE recs' = recs /\ ~Ended(new)
    BY <1>1, <2>1 DEF Holding, Ended
  <2>2. CASE recs' = Returned(p, work'[p])
    <3>1. CASE Settled(p, work'[p])
      BY <1>1, <1>2, <2>2, <3>1 DEF Settled, Returned, Holding, Ended, At
    <3>2. CASE ~Settled(p, work'[p])
      BY <1>1, <1>2, <2>2, <3>2 DEF Settled, Returned, Holding, Ended, At
    <3> QED BY <3>1, <3>2
  <2> QED BY <2>1, <2>2
<1>6. /\ RecsType' /\ DOMAIN recs' = DOMAIN recs
      /\ \A s \in DOMAIN recs : Shell(s) /\ recs'[s].uploads = recs[s].uploads
  <2>1. req[p].parts \in Nat
    BY <1>2, SftpAssumption DEF Request
  <2> QED BY <1>2, <1>5, <2>1, Gives, SameAccounts DEF Accounts, SftpTypes
<1>7. SlotsHeld'
  <2>1. \A q \in Requests : q # p => SameHolder(q)
    BY <1>1, HolderSame
  <2>2. CASE Holding(p)' /\ recs' = recs
    BY <1>4, <2>1, <2>2, SlotsSame DEF SameHolder
  <2>3. CASE ~Holding(p)' /\ recs' = Give(req[p].r, req[p].parts)
    <3>1. req[p].parts \in Nat /\ req[p].parts \in 1..Slots
      BY <1>2, SftpAssumption DEF Request
    <3>2. Accounts(req[p].r, recs[req[p].r].free + req[p].parts, recs[req[p].r].uploads)
      BY <1>2, <2>3, <3>1, Gives DEF SftpTypes
    <3> QED BY <1>2, <1>4, <2>1, <2>3, <3>1, <3>2, SlotsGiven DEF Accounts, SftpTypes
  <2> QED BY <1>5, <2>2, <2>3
<1>8. Aside(p)
  BY <1>1, <1>2, <1>6 DEF Aside, Locked
<1>9. SftpTypes'
  BY <1>1, <1>3, <1>6, <1>8, AsideTypes DEF SftpTypes, ConnType, Moves
<1>10. WorkersFit(p)
  BY <1>1, <1>2 DEF WorkersFit, KindsFit, UsersHold
<1>11. Ordered(p)'
  <2>1. ASSUME NEW j, NEW v, InRange(p, j, v) PROVE InRange(p, j, v)'
    BY <2>1 DEF InRange, Due, RangeStart, RangeEnd
  <2>2. ASSUME req[p].pc # "done", NEW j \in DOMAIN work[p], InRange(p, j, work[p][j])
        PROVE InRange(p, j, work[p][j])'
    <3>1. PICK v : v = work'[p][j]
      OBVIOUS
    <3>2. InRange(p, j, v)
      BY <1>1, <2>2, <3>1
    <3>3. InRange(p, j, v)'
      BY <2>1, <3>2
    <3> QED BY <3>1, <3>3 DEF InRange
  <2> QED BY <1>1, <1>2, <2>2 DEF InOrder, Ordered
<1>12. /\ KindsFit' /\ UsersHold' /\ UploadsCounted' /\ StagingServed' /\ StagingKnown'
       /\ Delivered' /\ InOrder'
  <2>1. \A k \in DOMAIN req[p].got : req[p].got[k] = k
    BY DEF Delivered
  <2> QED BY <1>2, <1>3, <1>6, <1>8, <1>10, <1>11, <2>1, ParallelKeeps
<1> QED BY <1>7, <1>8, <1>9, <1>12, WorldKept DEF World

(* The workers of a download that goes on, and where they are.             *)
LEMMA WorkerTyped ==
  ASSUME SftpInv, NEW p \in Requests, NEW i \in DOMAIN work[p]
  PROVE work[p][i] \in WorkerRecord /\ i \in Nat \ {0} /\ Due(p, i) \in Nat \ {0}
<1>1. work[p] \in Seq(WorkerRecord) /\ req[p] \in Request
  BY DEF SftpInv, SftpTypes, WorkType, ReqType
<1>2. work[p][i] \in WorkerRecord /\ i \in Nat \ {0}
  BY <1>1, ElementOfSeq
<1>3. RangeStart(p, i) \in Nat \ {0}
  <2>1. Blocks \div req[p].parts \in Nat /\ i - 1 \in Nat
    BY <1>1, <1>2, DivBelow, SftpAssumption DEF Request
  <2>2. (i - 1) * (Blocks \div req[p].parts) \in Nat
    BY <2>1
  <2> QED BY <2>2 DEF RangeStart
<1>4. Len(req[p].got) + 1 \in Nat \ {0}
  BY <1>1 DEF Request
<1> QED BY <1>2, <1>3, <1>4 DEF Due

LEMMA WorkerReadsKeeps ==
  ASSUME SftpInv, NEW p \in Requests, NEW i \in DOMAIN work[p], WorkerReads(p, i)
  PROVE SftpInv'
<1>1. PICK w : w = work[p][i]
  OBVIOUS
<1>2. /\ w \in WorkerRecord /\ w.pc \in {"open", "read"} /\ ~Ended(w)
      /\ UNCHANGED <<conn, openLock, recs, chans, req, cleaner, temp>>
  BY <1>1, WorkerTyped DEF WorkerReads, Ended
<1>3. PICK new \in WorkerRecord :
        /\ SetWorker(p, i, new) /\ new.pc \in {"read", "send"}
        /\ new.ch = w.ch /\ new.next = w.next /\ new.last = w.last /\ new.q = w.q
        /\ new.pc = "send" => new.item = Error \/ (new.item = w.next /\ w.next <= w.last)
  <2>1. CASE SetWorker(p, i, [w EXCEPT !.pc = "read"])
    <3>1. [w EXCEPT !.pc = "read"] \in WorkerRecord
      BY <1>2 DEF WorkerRecord
    <3> QED BY <1>2, <2>1, <3>1 DEF WorkerRecord
  <2>2. CASE w.next <= w.last /\ SetWorker(p, i, [w EXCEPT !.pc = "send", !.item = w.next])
    <3>1. [w EXCEPT !.pc = "send", !.item = w.next] \in WorkerRecord
      BY <1>2 DEF WorkerRecord
    <3> QED BY <1>2, <2>2, <3>1 DEF WorkerRecord
  <2>3. CASE SetWorker(p, i, [w EXCEPT !.pc = "send", !.item = Error])
    <3>1. [w EXCEPT !.pc = "send", !.item = Error] \in WorkerRecord
      BY <1>2 DEF WorkerRecord, Error
    <3> QED BY <1>2, <2>3, <3>1 DEF WorkerRecord
  <2> QED BY <1>1, <2>1, <2>2, <2>3 DEF WorkerReads
<1>4. ~Ended(new) /\ (InRange(p, i, w) => InRange(p, i, new))
  BY <1>2, <1>3 DEF InRange, Ended
<1> QED BY <1>1, <1>2, <1>3, <1>4, WorkerStep

LEMMA WorkerSendsKeeps ==
  ASSUME SftpInv, NEW p \in Requests, NEW i \in DOMAIN work[p], WorkerSends(p, i)
  PROVE SftpInv'
<1>1. PICK w : w = work[p][i]
  OBVIOUS
<1>2. /\ w \in WorkerRecord /\ w.pc = "send" /\ ~Ended(w) /\ recs' = Returned(p, work'[p])
      /\ UNCHANGED <<conn, openLock, chans, req, cleaner, temp>>
      /\ w.q \in Seq(Nat) /\ w.item \in Nat /\ w.next \in Nat /\ w.last \in Nat
      /\ Due(p, i) \in Nat \ {0}
  BY <1>1, WorkerTyped DEF WorkerSends, Ended, WorkerRecord
<1>3. PICK q : q = Append(w.q, w.item)
  OBVIOUS
<1>4. /\ q \in Seq(Nat) /\ Len(q) = Len(w.q) + 1 /\ Len(w.q) \in Nat /\ q[Len(q)] = w.item
      /\ \A j \in DOMAIN w.q : q[j] = w.q[j]
      /\ DOMAIN q = 1..Len(q) /\ DOMAIN w.q = 1..Len(w.q) /\ q # <<>>
  BY <1>2, <1>3, AppendProperties
<1>5. CASE w.item = Error
  <2>1. PICK new : new = [w EXCEPT !.pc = "ended", !.q = q]
    OBVIOUS
  <2>2. /\ new \in WorkerRecord /\ new.pc = "ended" /\ new.ch = w.ch /\ new.last = w.last
        /\ new.q = q
    BY <1>2, <1>4, <2>1 DEF WorkerRecord
  <2>3. SetWorker(p, i, new)
    BY <1>1, <1>3, <1>5, <2>1 DEF WorkerSends
  <2>4. ASSUME InRange(p, i, w) PROVE InRange(p, i, new)
    <3>1. \A j \in DOMAIN w.q : w.q[j] = Due(p, i) + (j - 1)
      BY <1>2, <2>4 DEF InRange
    <3>2. ASSUME NEW j \in DOMAIN q PROVE q[j] = Due(p, i) + (j - 1) \/ (j = Len(q) /\ q[j] = Error)
      <4>1. j = Len(q) \/ j \in DOMAIN w.q
        BY <1>4
      <4> QED BY <1>4, <1>5, <3>1, <4>1
    <3>3. w.last = RangeEnd(p, i)
      BY <2>4 DEF InRange
    <3> QED BY <1>4, <1>5, <2>2, <3>2, <3>3 DEF InRange, Ended
  <2> QED BY <1>1, <1>2, <2>2, <2>3, <2>4, WorkerStep
<1>6. CASE w.item # Error
  <2>0. PICK n \in Nat : n = w.next + 1
    BY <1>2
  <2>1. PICK new : new = [w EXCEPT !.pc = "read", !.q = q, !.next = n]
    OBVIOUS
  <2>2. /\ new \in WorkerRecord /\ new.pc = "read" /\ new.ch = w.ch /\ new.last = w.last
        /\ new.q = q /\ new.next = n
    BY <1>2, <1>4, <2>1 DEF WorkerRecord
  <2>3. SetWorker(p, i, new)
    BY <1>1, <1>3, <1>6, <2>0, <2>1 DEF WorkerSends
  <2>4. ASSUME InRange(p, i, w) PROVE InRange(p, i, new)
    <3>1. w.item = Due(p, i) + Len(w.q) /\ w.next = w.item /\ w.next <= w.last
      BY <1>2, <1>6, <2>4 DEF InRange
    <3>2. ASSUME NEW j \in DOMAIN q PROVE q[j] = Due(p, i) + (j - 1)
      <4>1. CASE j = Len(q)
        BY <1>2, <1>4, <3>1, <4>1
      <4>2. CASE j # Len(q)
        <5>1. j \in DOMAIN w.q
          BY <1>4, <4>2
        <5> QED BY <1>2, <1>4, <2>4, <5>1 DEF InRange
      <4> QED BY <4>1, <4>2
    <3>3. \A j \in DOMAIN q : q[j] # Error
      BY <1>2, <1>4, <3>2 DEF Error
    <3>4. w.last = RangeEnd(p, i)
      BY <2>4 DEF InRange
    <3>5. n = Due(p, i) + Len(q) /\ n <= w.last + 1
      <4>1. Due(p, i) \in Nat /\ Len(w.q) \in Nat /\ w.last \in Nat /\ w.next \in Nat
        BY <1>2, <1>4
      <4>2. w.next = Due(p, i) + Len(w.q) /\ w.next <= w.last
        BY <3>1
      <4>3. n <= w.last + 1
        BY <2>0, <4>1, <4>2
      <4>4. n = Due(p, i) + (Len(w.q) + 1)
        BY <2>0, <4>1, <4>2
      <4> QED BY <1>4, <4>3, <4>4
    <3> QED BY <2>2, <3>2, <3>3, <3>4, <3>5 DEF InRange, Ended
  <2> QED BY <1>1, <1>2, <2>2, <2>3, <2>4, WorkerStep
<1> QED BY <1>5, <1>6

LEMMA WorkerEndsKeeps ==
  ASSUME SftpInv, NEW p \in Requests, NEW i \in DOMAIN work[p], WorkerEnds(p, i)
  PROVE SftpInv'
<1>1. PICK w : w = work[p][i]
  OBVIOUS
<1>2. /\ w \in WorkerRecord /\ ~Ended(w) /\ recs' = Returned(p, work'[p])
      /\ (w.pc = "read" /\ w.next > w.last) \/ req[p].pc = "done"
      /\ UNCHANGED <<conn, openLock, chans, req, cleaner, temp>>
      /\ w.q \in Seq(Nat) /\ w.next \in Nat /\ w.last \in Nat
      /\ Due(p, i) \in Nat \ {0}
  BY <1>1, WorkerTyped DEF WorkerEnds, Ended, WorkerRecord, At
<1>3. PICK new : new = [w EXCEPT !.pc = "ended"]
  OBVIOUS
<1>4. /\ new \in WorkerRecord /\ new.pc = "ended" /\ new.ch = w.ch /\ new.last = w.last
      /\ new.q = w.q
  BY <1>2, <1>3 DEF WorkerRecord
<1>5. SetWorker(p, i, new)
  BY <1>1, <1>3 DEF WorkerEnds
<1>6. ASSUME req[p].pc # "done", InRange(p, i, w) PROVE InRange(p, i, new)
  <2>1. Due(p, i) + Len(w.q) = w.last + 1
    BY <1>2, <1>6 DEF InRange
  <2> QED BY <1>2, <1>4, <1>6, <2>1 DEF InRange, Ended
<1> QED BY <1>1, <1>2, <1>4, <1>5, <1>6, WorkerStep

(* A parallel download is over, or its handler is gone: the permits come   *)
(* back with the last of its workers.                                      *)
LEMMA PermitsBack ==
  ASSUME SftpInv, NEW p \in Requests, NEW reply \in {"ok", "error", "gone"}, Leaves(p, reply),
         req[p].kind = "parallel", req[p].pc \in {"spawn", "stream"}, WorkType',
         work' = work \/ (work'[p] = <<>> /\ \A q \in Requests : q # p => work'[q] = work[q]),
         \/ recs' = recs /\ (Holding(p) <=> Holding(p)')
         \/ recs' = Give(req[p].r, req[p].parts) /\ Holding(p) /\ ~Holding(p)',
         reply = "ok" => Len(req[p].got) = Blocks,
         UNCHANGED <<openLock, chans, cleaner, temp>>,
         conn'.up = conn.up, conn'.lost = conn.lost, ConnType'
  PROVE SftpInv'
<1> USE DEF SftpInv
<1>1. /\ req[p] \in Request /\ req[p].r \in DOMAIN recs /\ temp[p] = None
      /\ req[p].parts \in Nat /\ req[p].parts \in 1..Slots
  <2>1. req[p] \in Request
    BY DEF SftpTypes, ReqType
  <2>2. req[p].parts \in Nat /\ req[p].parts \in 1..Slots
    BY <2>1, SftpAssumption DEF Request
  <2>3. req[p].r \in DOMAIN recs /\ temp[p] = None
    BY DEF UsersHold, UserPcs, StagingKnown
  <2> QED BY <2>1, <2>2, <2>3
<1>2. \A q \in Requests : q # p => SameHolder(q)
  BY HolderSame DEF Leaves, Moves
<1>3. /\ RecsType' /\ DOMAIN recs' = DOMAIN recs
      /\ \A s \in DOMAIN recs : Shell(s) /\ recs'[s].uploads = recs[s].uploads
  BY <1>1, Gives, SameAccounts DEF Accounts, SftpTypes
<1>4. SlotsHeld'
  <2>1. CASE recs' = recs /\ (Holding(p) <=> Holding(p)')
    BY <1>2, <2>1, SlotsSame DEF SameHolder, Leaves, Moves
  <2>2. CASE recs' = Give(req[p].r, req[p].parts) /\ Holding(p) /\ ~Holding(p)'
    <3>1. Accounts(req[p].r, recs[req[p].r].free + req[p].parts, recs[req[p].r].uploads)
      BY <1>1, <2>2, Gives DEF SftpTypes
    <3> QED BY <1>1, <1>2, <2>2, <3>1, SlotsGiven DEF Accounts, SftpTypes
  <2> QED BY <2>1, <2>2
<1>5. Aside(p)
  BY <1>3 DEF Aside, Leaves, Moves, Locked
<1>6. SftpTypes'
  BY <1>3, <1>5, AsideTypes DEF SftpTypes, Leaves, Moves
<1>7. UploadsCounted'
  BY <1>3, UploadsSame DEF InCount, Staging, Leaves, Moves
<1>8. StagingKnown'
  BY <1>1, <1>5 DEF StagingKnown, Leaves, Moves, Aside
<1> QED BY <1>4, <1>5, <1>6, <1>7, <1>8, WorldKept, LeaveKeeps DEF World

LEMMA DropKeeps ==
  ASSUME SftpInv, NEW p \in Requests, NEW reply \in {"ok", "error", "gone"}, Dropped(p, reply),
         req[p].kind = "parallel", req[p].pc = "stream",
         reply = "ok" => Len(req[p].got) = Blocks,
         UNCHANGED <<openLock, chans, cleaner, temp>>,
         conn'.up = conn.up, conn'.lost = conn.lost, ConnType'
  PROVE SftpInv'
<1>1. Leaves(p, reply)
  BY Replies DEF Dropped, SftpInv, SftpTypes
<1>2. work'[p] = <<>> /\ WorkType' /\ \A q \in Requests : q # p => work'[q] = work[q]
  BY EmptySeq DEF Dropped, SftpInv, SftpTypes, WorkType
<1>3. ~Holding(p)'
  BY <1>1, <1>2 DEF Holding, Leaves, Moves
<1>4. CASE \A i \in DOMAIN work[p] : Ended(work[p][i])
  <2>1. recs' = recs /\ ~Holding(p)
    BY <1>4 DEF Dropped, Holding
  <2> QED BY <1>1, <1>2, <1>3, <2>1, PermitsBack
<1>5. CASE ~ \A i \in DOMAIN work[p] : Ended(work[p][i])
  <2>1. recs' = Give(req[p].r, req[p].parts) /\ Holding(p)
    BY <1>5 DEF Dropped, Holding
  <2> QED BY <1>1, <1>2, <1>3, <2>1, PermitsBack
<1> QED BY <1>4, <1>5

LEMMA OneLess ==
  ASSUME NEW d \in Nat, NEW m \in Nat, NEW n \in Nat, m = n - 1
  PROVE d + n = d + 1 + m /\ m + 1 = n /\ (n # 1 => m \in 1..m)
OBVIOUS

LEMMA PollParallelKeeps ==
  ASSUME SftpInv, NEW p \in Requests, PollParallel(p)
  PROVE SftpInv'
<1> USE DEF SftpInv
<1>1. PICK k : k = req[p].front
  OBVIOUS
<1>2. /\ req[p].pc = "stream" /\ req[p].kind = "parallel" /\ req[p] \in Request
      /\ UNCHANGED <<conn, openLock, chans, cleaner, temp>> /\ ConnType'
      /\ k \in Nat \ {0} /\ req[p].parts \in Nat \ {0} /\ req[p].got \in Seq(Nat) /\ req[p].r \in DOMAIN recs
      /\ req[p].parts \in 1..Slots
  BY <1>1, SftpAssumption DEF PollParallel, At, SftpTypes, ConnType, ReqType, Request, UsersHold, UserPcs
<1>3. /\ k <= req[p].parts + 1 /\ (k = req[p].parts + 1 => Len(req[p].got) = Blocks)
      /\ \A j \in DOMAIN work[p] : j >= k => InRange(p, j, work[p][j])
      /\ Len(work[p]) = req[p].parts /\ DOMAIN work[p] = 1..req[p].parts
      /\ \A j \in DOMAIN req[p].got : req[p].got[j] = j
  BY <1>1, <1>2 DEF InOrder, Ordered, KindsFit, Delivered, SftpTypes, WorkType
<1>4. CASE k > req[p].parts /\ Dropped(p, "ok")
  BY <1>2, <1>3, <1>4, DropKeeps
<1>5. CASE Dropped(p, "error")
  BY <1>2, <1>5, DropKeeps
<1>6. CASE /\ k <= req[p].parts /\ work[p][k].q # <<>> /\ Head(work[p][k].q) # Error
           /\ req' = [req EXCEPT ![p].got = Append(@, Head(work[p][k].q))]
           /\ work' = [work EXCEPT ![p][k].q = Tail(@)] /\ recs' = recs
  <2>1. PICK w : w = work[p][k]
    OBVIOUS
  <2>2. /\ k \in DOMAIN work[p] /\ w \in WorkerRecord /\ w.q \in Seq(Nat) /\ w.q # <<>>
        /\ w.next \in Nat /\ w.last \in Nat /\ InRange(p, k, w) /\ Due(p, k) = Len(req[p].got) + 1
        /\ Head(w.q) # Error
    <3>1. k \in DOMAIN work[p]
      BY <1>2, <1>3, <1>6
    <3>2. w \in WorkerRecord
      BY <2>1, <3>1, WorkerTyped
    <3>3. w.q \in Seq(Nat) /\ w.next \in Nat /\ w.last \in Nat
      BY <3>2 DEF WorkerRecord
    <3>4. InRange(p, k, w) /\ Due(p, k) = Len(req[p].got) + 1
      BY <1>1, <1>2, <1>3, <2>1, <3>1 DEF Due
    <3> QED BY <1>6, <2>1, <3>1, <3>2, <3>3, <3>4
  <2>3. PICK q : q = Tail(w.q)
    OBVIOUS
  <2>4. /\ q \in Seq(Nat) /\ Len(q) = Len(w.q) - 1 /\ Len(q) \in Nat /\ Len(w.q) \in Nat \ {0}
        /\ DOMAIN q = 1..Len(q) /\ DOMAIN w.q = 1..Len(w.q)
        /\ \A j \in DOMAIN q : q[j] = w.q[j + 1]
        /\ Head(w.q) = w.q[1] /\ 1 \in DOMAIN w.q
    <3>1. /\ q \in Seq(Nat) /\ Len(q) = Len(w.q) - 1 /\ \A j \in 1..Len(q) : q[j] = w.q[j + 1]
      BY <2>2, <2>3, HeadTailProperties
    <3>2. Len(w.q) \in Nat \ {0} /\ DOMAIN w.q = 1..Len(w.q) /\ Head(w.q) = w.q[1]
      BY <2>2, EmptySeq
    <3>3. DOMAIN q = 1..Len(q) /\ Len(q) \in Nat
      BY <3>1
    <3>4. \A j \in DOMAIN q : q[j] = w.q[j + 1]
      BY <3>1, <3>3
    <3>5. 1 \in DOMAIN w.q
      BY <3>2
    <3> QED BY <3>1, <3>2, <3>3, <3>4, <3>5
  <2>5. Head(w.q) = Len(req[p].got) + 1
    <3>1. w.q[1] = Due(p, k) + (1 - 1) \/ w.q[1] = Error
      BY <2>2, <2>4 DEF InRange
    <3>2. Len(req[p].got) \in Nat
      BY <1>2
    <3> QED BY <2>2, <2>4, <3>1, <3>2
  <2>6. PICK got : got = Append(req[p].got, Head(w.q))
    OBVIOUS
  <2>7. /\ got \in Seq(Nat) /\ Len(got) = Len(req[p].got) + 1
        /\ \A j \in DOMAIN got : got[j] = j
    <3>1. Head(w.q) \in Nat /\ Len(req[p].got) \in Nat
      BY <1>2, <2>5
    <3> QED BY <1>2, <1>3, <2>5, <2>6, <3>1, AppendProperties
  <2>8. Moves(p, req[p].pc, req[p].r, req[p].ch, req[p].parts, req[p].front, got, req[p].reply)
    <3>1. req' = [req EXCEPT ![p].got = got]
      BY <1>6, <2>1, <2>6
    <3> QED BY <1>1, <1>2, <2>7, <3>1, GotSet DEF SftpTypes
  <2>9. PICK new : new = [w EXCEPT !.q = q]
    OBVIOUS
  <2>10. /\ new \in WorkerRecord /\ new.pc = w.pc /\ new.ch = w.ch /\ new.next = w.next
         /\ new.last = w.last /\ new.item = w.item /\ new.q = q
    BY <2>2, <2>4, <2>9 DEF WorkerRecord
  <2>11. work' = [work EXCEPT ![p][k] = new]
    BY <1>6, <2>1, <2>3, <2>9
  <2>12. /\ WorkType' /\ \A o \in Requests : o # p => work'[o] = work[o]
         /\ Len(work'[p]) = Len(work[p]) /\ DOMAIN work'[p] = DOMAIN work[p]
         /\ \A j \in DOMAIN work[p] : work'[p][j] = IF j = k THEN new ELSE work[p][j]
    BY <2>2, <2>10, <2>11, WorkerSet DEF SftpTypes
  <2>13. Aside(p)
    BY <1>2, <1>6, <2>8, <2>12 DEF Aside, Shell, Moves, Locked
  <2>14. SftpTypes'
    BY <1>2, <1>6, <2>8, <2>12, <2>13, AsideTypes DEF SftpTypes, RecsType, Moves
  <2>15. WorkersFit(p)
    <3>1. ASSUME NEW j \in DOMAIN work[p], ~Ended(work'[p][j]) PROVE HeldBy(p, work'[p][j].ch)
      <4>1. ~Ended(work[p][j]) /\ work'[p][j].ch = work[p][j].ch
        BY <2>1, <2>10, <2>12, <3>1 DEF Ended
      <4> QED BY <4>1 DEF UsersHold
    <3>2. \A j \in DOMAIN work'[p] : ~Ended(work'[p][j]) => HeldBy(p, work'[p][j].ch)
      BY <2>12, <3>1
    <3>3. req'[p].pc = "stream" /\ Len(work'[p]) = req[p].parts
      BY <1>2, <1>3, <2>8, <2>12 DEF Moves
    <3> QED BY <1>2, <3>2, <3>3 DEF WorkersFit
  <2>16. Ordered(p)'
    <3>1. \A j : /\ RangeEnd(p, j)' = RangeEnd(p, j)
                 /\ Due(p, j)' = IF j = k THEN Due(p, k) + 1 ELSE Due(p, j)
      BY <1>1, <1>2, <2>2, <2>7, <2>8 DEF Moves, RangeStart, RangeEnd, Due
    <3>2. InRange(p, k, new)'
      <4>1. PICK d \in Nat \ {0} : d = Due(p, k)
        BY <1>2, <2>2
      <4>2. /\ Due(p, k)' = d + 1 /\ RangeEnd(p, k)' = w.last
        BY <2>2, <3>1, <4>1 DEF InRange
      <4>3. ASSUME NEW j \in DOMAIN q
            PROVE q[j] = d + 1 + (j - 1) \/ (j = Len(q) /\ q[j] = Error /\ Ended(w))
        <5>1. /\ j + 1 \in DOMAIN w.q /\ q[j] = w.q[j + 1] /\ j \in Nat
              /\ (j + 1 = Len(w.q) => j = Len(q))
          BY <2>4
        <5>2. w.q[j + 1] = d + (j + 1 - 1) \/ (j + 1 = Len(w.q) /\ w.q[j + 1] = Error /\ Ended(w))
          BY <2>2, <4>1, <5>1 DEF InRange
        <5> QED BY <4>1, <5>1, <5>2
      <4>4. /\ d \in Nat /\ Len(q) \in Nat /\ Len(w.q) \in Nat /\ Len(q) = Len(w.q) - 1
            /\ DOMAIN q = 1..Len(q) /\ DOMAIN w.q = 1..Len(w.q)
        BY <2>4, <4>1
      <4>5. d + Len(w.q) = d + 1 + Len(q) /\ Len(q) + 1 = Len(w.q) /\ (Len(w.q) # 1 => Len(q) \in 1..Len(q))
        BY <4>4, OneLess
      <4>6. ~Ended(w) => /\ w.next = d + 1 + Len(q) /\ w.next <= w.last + 1
                         /\ \A j \in DOMAIN q : q[j] # Error
        <5>1. ~Ended(w) => /\ w.next = d + Len(w.q) /\ w.next <= w.last + 1
                           /\ \A j \in DOMAIN w.q : w.q[j] # Error
          BY <2>2, <4>1 DEF InRange
        <5>3. \A j \in DOMAIN q : j + 1 \in DOMAIN w.q /\ q[j] = w.q[j + 1]
          BY <2>4, <4>4
        <5> QED BY <4>5, <5>1, <5>3
      <4>7. w.pc = "send" => w.item = Error \/ (w.item = w.next /\ w.next <= w.last)
        BY <2>2 DEF InRange
      <4>8. Ended(w) => d + 1 + Len(q) = w.last + 1 \/ (q # <<>> /\ q[Len(q)] = Error)
        <5>1. Ended(w) => d + Len(w.q) = w.last + 1 \/ w.q[Len(w.q)] = Error
          BY <2>2, <4>1 DEF InRange
        <5>3. ASSUME w.q[Len(w.q)] = Error PROVE q # <<>> /\ q[Len(q)] = Error
          <6>1. Len(w.q) # 1
            BY <2>2, <2>4, <5>3
          <6>2. Len(q) \in DOMAIN q /\ Len(q) + 1 = Len(w.q)
            BY <4>4, <4>5, <6>1
          <6>3. q[Len(q)] = w.q[Len(q) + 1]
            BY <2>4, <6>2
          <6>4. q # <<>>
            BY <6>2
          <6> QED BY <5>3, <6>2, <6>3, <6>4
        <5> QED BY <4>5, <5>1, <5>3
      <4> QED BY <2>10, <4>2, <4>3, <4>6, <4>7, <4>8 DEF InRange, Ended
    <3>3. ASSUME NEW j \in DOMAIN work[p], j >= k, NEW v, v = work'[p][j] PROVE InRange(p, j, v)'
      <4>1. CASE j = k
        BY <2>12, <3>2, <3>3, <4>1
      <4>2. CASE j # k
        <5>1. v = work[p][j] /\ InRange(p, j, v)
          BY <1>3, <2>12, <3>3, <4>2
        <5> QED BY <3>1, <4>2, <5>1 DEF InRange, Ended
      <4> QED BY <4>1, <4>2
    <3>4. ASSUME NEW j \in DOMAIN work'[p], j >= k PROVE InRange(p, j, work[p][j])'
      <4>1. PICK v : v = work'[p][j]
        OBVIOUS
      <4>2. InRange(p, j, v)'
        BY <2>12, <3>3, <3>4, <4>1
      <4> QED BY <4>1, <4>2 DEF InRange
    <3>5. req'[p].front = k /\ req'[p].parts = req[p].parts /\ k # req[p].parts + 1
      BY <1>1, <1>2, <1>6, <2>8 DEF Moves
    <3> QED BY <1>3, <3>4, <3>5 DEF Ordered
  <2>17. Holding(p) <=> Holding(p)'
    <3>1. \A j \in DOMAIN work[p] : work'[p][j].pc = work[p][j].pc
      BY <2>1, <2>10, <2>12
    <3>2. (\E j \in DOMAIN work[p] : ~Ended(work[p][j])) <=> (\E j \in DOMAIN work'[p] : ~Ended(work'[p][j]))
      BY <2>12, <3>1 DEF Ended
    <3>3. req'[p].pc = req[p].pc /\ req'[p].kind = req[p].kind
      BY <2>8 DEF Moves
    <3> QED BY <3>2, <3>3 DEF Holding, Ended
  <2>18. \A o \in Requests : SameHolder(o)
    BY <2>8, <2>12, <2>17, HolderSame DEF Moves, SameHolder
  <2>19. SlotsHeld'
    BY <1>6, <2>18, SlotsSame
  <2>20. /\ KindsFit' /\ UsersHold' /\ UploadsCounted' /\ StagingServed' /\ StagingKnown'
         /\ Delivered' /\ InOrder'
    BY <1>2, <1>6, <2>7, <2>8, <2>13, <2>15, <2>16, ParallelKeeps
  <2> QED BY <2>13, <2>14, <2>19, <2>20, WorldKept DEF World
<1>7. CASE /\ k <= req[p].parts /\ work[p][k].q = <<>> /\ Ended(work[p][k])
           /\ req' = [req EXCEPT ![p].front = k + 1] /\ UNCHANGED <<work, recs>>
  <2>1. Moves(p, req[p].pc, req[p].r, req[p].ch, req[p].parts, k + 1, req[p].got, req[p].reply)
    <3>1. PICK f \in Nat \ {0} : f = k + 1
      BY <1>2
    <3> QED BY <1>2, <1>7, <3>1, GotSet DEF SftpTypes
  <2>2. Aside(p)
    BY <1>2, <1>7, <2>1 DEF Aside, Shell, Moves, Locked
  <2>3. SftpTypes'
    BY <1>2, <1>7, <2>1, <2>2, AsideTypes DEF SftpTypes, RecsType, WorkType, Moves
  <2>4. WorkersFit(p)
    BY <1>2, <1>3, <1>7, <2>1 DEF WorkersFit, UsersHold, Moves
  <2>5. k \in DOMAIN work[p] /\ k \in 1..req[p].parts
    BY <1>2, <1>3, <1>7
  <2>6. Len(req[p].got) = RangeEnd(p, k)
    <3>1. InRange(p, k, work[p][k]) /\ Due(p, k) = Len(req[p].got) + 1 /\ work[p][k] \in WorkerRecord
      BY <1>1, <1>2, <1>3, <2>5, WorkerTyped DEF Due
    <3>2. work[p][k].last \in Nat /\ Len(req[p].got) \in Nat /\ Len(work[p][k].q) = 0
      BY <1>2, <1>7, <3>1 DEF WorkerRecord
    <3>3. Len(req[p].got) + 1 + 0 = work[p][k].last + 1 /\ work[p][k].last = RangeEnd(p, k)
      BY <1>7, <3>1, <3>2 DEF InRange
    <3> QED BY <3>2, <3>3
  <2>7. Ordered(p)'
    <3>1. \A j : /\ RangeEnd(p, j)' = RangeEnd(p, j)
                 /\ j > k /\ j \in DOMAIN work[p] => Due(p, j)' = Due(p, j)
      <4>1. \A j : RangeEnd(p, j)' = RangeEnd(p, j) /\ RangeStart(p, j)' = RangeStart(p, j)
        BY <2>1 DEF Moves, RangeStart, RangeEnd
      <4>2. ASSUME NEW j \in DOMAIN work[p], j > k PROVE Due(p, j)' = Due(p, j)
        <5>1. j \in Nat /\ j <= req[p].parts /\ Due(p, j) = RangeStart(p, j)
          BY <1>1, <1>2, <1>3, <4>2 DEF Due
        <5>2. CASE j = k + 1
          <6>1. RangeStart(p, k + 1) = RangeEnd(p, k) + 1
            BY <1>2, <2>5, <5>1, <5>2, Ranges
          <6>2. Due(p, j)' = Len(req[p].got) + 1
            BY <2>1, <5>2 DEF Due, Moves
          <6> QED BY <2>6, <5>1, <5>2, <6>1, <6>2
        <5>3. CASE j # k + 1
          <6>1. Due(p, j)' = RangeStart(p, j)'
            BY <2>1, <5>3 DEF Due, Moves
          <6> QED BY <4>1, <5>1, <6>1
        <5> QED BY <5>2, <5>3
      <4> QED BY <4>1, <4>2
    <3>2. ASSUME NEW j \in DOMAIN work[p], j >= k + 1, NEW v, v = work[p][j] PROVE InRange(p, j, v)'
      <4>1. j > k /\ j >= k
        BY <1>2, <1>3, <3>2
      <4>2. InRange(p, j, v)
        BY <1>3, <3>2, <4>1
      <4> QED BY <3>1, <4>1, <4>2 DEF InRange, Ended
    <3>3. \A j \in DOMAIN work'[p] : j >= k + 1 => InRange(p, j, work[p][j])'
      BY <1>7, <3>2 DEF InRange, Ended
    <3>4. req'[p].front = k + 1 /\ req'[p].parts = req[p].parts /\ req'[p].got = req[p].got
      BY <2>1 DEF Moves
    <3>5. k + 1 <= req[p].parts + 1 /\ (k + 1 = req[p].parts + 1 => Len(req[p].got) = Blocks)
      BY <1>2, <1>7, <2>6 DEF RangeEnd
    <3> QED BY <3>3, <3>4, <3>5 DEF Ordered
  <2>8. Holding(p) <=> Holding(p)'
    BY <1>7, <2>1 DEF Holding, Ended, Moves
  <2>9. \A o \in Requests : SameHolder(o)
    BY <1>7, <2>1, <2>8, HolderSame DEF Moves, SameHolder
  <2>10. SlotsHeld'
    BY <1>7, <2>9, SlotsSame
  <2>11. /\ KindsFit' /\ UsersHold' /\ UploadsCounted' /\ StagingServed' /\ StagingKnown'
         /\ Delivered' /\ InOrder'
    BY <1>2, <1>3, <1>7, <2>1, <2>2, <2>4, <2>7, ParallelKeeps
  <2> QED BY <2>2, <2>3, <2>10, <2>11, WorldKept DEF World
<1> QED BY <1>1, <1>4, <1>5, <1>6, <1>7 DEF PollParallel

-----------------------------------------------------------------------------
(* A client that goes away.                                                *)

LEMMA FaultCounts ==
  ASSUME ConnType, NEW lost \in BOOLEAN, Fault(lost)
  PROVE ConnType' /\ conn'.up = conn.up /\ (conn'.lost <=> lost \/ conn.lost)
<1>1. PICK b \in BOOLEAN, n \in Nat :
        (b <=> lost \/ conn.lost) /\ conn' = [conn EXCEPT !.faults = n, !.lost = b]
  <2>1. conn.faults - 1 \in Nat
    BY DEF ConnType, Fault
  <2>2. conn' = [conn EXCEPT !.faults = conn.faults - 1, !.lost = lost \/ conn.lost]
    BY DEF Fault
  <2> QED BY <2>1, <2>2, Zenon
<1> QED BY <1>1 DEF ConnType

LEMMA SweepSet ==
  ASSUME ReqType, NEW p \in Requests, req' = [req EXCEPT ![p].pc = "sweep", ![p].reply = "gone"]
  PROVE Moves(p, "sweep", req[p].r, req[p].ch, req[p].parts, req[p].front, req[p].got, "gone")
<1> DEFINE new == [req[p] EXCEPT !.pc = "sweep", !.reply = "gone"]
<1>1. /\ new \in Request /\ new.kind = req[p].kind /\ new.pc = "sweep" /\ new.r = req[p].r
      /\ new.ch = req[p].ch /\ new.parts = req[p].parts /\ new.front = req[p].front
      /\ new.got = req[p].got /\ new.reply = "gone"
  BY DEF ReqType, Request, ReqPcs, UserPcs, Uploading, Staging
<1>2. req' = [req EXCEPT ![p] = new]
  OBVIOUS
<1> HIDE DEF new
<1>3. Moves(p, new.pc, new.r, new.ch, new.parts, new.front, new.got, new.reply)
  BY <1>1, <1>2, RequestChanged
<1> QED BY <1>1, <1>3

(* What a step of the builder, or of the close, does to one session.       *)
Becomes(r, listed, pool, fresh, builder) ==
  /\ RecsType' /\ DOMAIN recs' = DOMAIN recs
  /\ \A s \in DOMAIN recs :
       /\ recs'[s].closed = recs[s].closed
       /\ recs'[s].free = recs[s].free /\ recs'[s].uploads = recs[s].uploads
       /\ recs'[s].listed = IF s = r THEN listed ELSE recs[s].listed
       /\ recs'[s].pool = IF s = r THEN pool ELSE recs[s].pool
       /\ recs'[s].fresh = IF s = r THEN fresh ELSE recs[s].fresh
       /\ recs'[s].builder = IF s = r THEN builder ELSE recs[s].builder

LEMMA RecordSet ==
  ASSUME RecsType, NEW r \in DOMAIN recs, NEW new \in Record, recs' = [recs EXCEPT ![r] = new],
         new.closed = recs[r].closed, new.free = recs[r].free, new.uploads = recs[r].uploads
  PROVE Becomes(r, new.listed, new.pool, new.fresh, new.builder)
BY RecordChanged DEF Becomes

LEMMA BuilderSet ==
  ASSUME RecsType, NEW r \in DOMAIN recs, NEW b \in {"results", "locking", "ended"},
         recs' = [recs EXCEPT ![r].builder = b]
  PROVE Becomes(r, recs[r].listed, recs[r].pool, recs[r].fresh, b)
<1> DEFINE new == [recs[r] EXCEPT !.builder = b]
<1>1. /\ new \in Record /\ new.listed = recs[r].listed /\ new.builder = b
      /\ new.closed = recs[r].closed /\ new.pool = recs[r].pool /\ new.fresh = recs[r].fresh
      /\ new.free = recs[r].free /\ new.uploads = recs[r].uploads
  BY Typed DEF Record
<1>2. recs' = [recs EXCEPT ![r] = new]
  OBVIOUS
<1> HIDE DEF new
<1>3. Becomes(r, new.listed, new.pool, new.fresh, new.builder)
  BY <1>1, <1>2, RecordSet
<1> QED BY <1>1, <1>3

LEMMA FreshSet ==
  ASSUME RecsType, NEW r \in DOMAIN recs, NEW b \in {"results", "locking", "ended"},
         NEW fresh \in SUBSET Channels,
         recs' = [recs EXCEPT ![r].builder = b, ![r].fresh = fresh]
  PROVE Becomes(r, recs[r].listed, recs[r].pool, fresh, b)
<1> DEFINE new == [recs[r] EXCEPT !.builder = b, !.fresh = fresh]
<1>1. /\ new \in Record /\ new.listed = recs[r].listed /\ new.builder = b
      /\ new.closed = recs[r].closed /\ new.pool = recs[r].pool /\ new.fresh = fresh
      /\ new.free = recs[r].free /\ new.uploads = recs[r].uploads
  BY Typed DEF Record
<1>2. recs' = [recs EXCEPT ![r] = new]
  BY Typed
<1> HIDE DEF new
<1>3. Becomes(r, new.listed, new.pool, new.fresh, new.builder)
  BY <1>1, <1>2, RecordSet
<1> QED BY <1>1, <1>3

LEMMA PoolSet ==
  ASSUME RecsType, NEW r \in DOMAIN recs, NEW pool \in SUBSET Channels,
         recs' = [recs EXCEPT ![r].pool = pool]
  PROVE Becomes(r, recs[r].listed, pool, recs[r].fresh, recs[r].builder)
<1> DEFINE new == [recs[r] EXCEPT !.pool = pool]
<1>1. /\ new \in Record /\ new.listed = recs[r].listed /\ new.builder = recs[r].builder
      /\ new.closed = recs[r].closed /\ new.pool = pool /\ new.fresh = recs[r].fresh
      /\ new.free = recs[r].free /\ new.uploads = recs[r].uploads
  BY Typed DEF Record
<1>2. recs' = [recs EXCEPT ![r] = new]
  OBVIOUS
<1> HIDE DEF new
<1>3. Becomes(r, new.listed, new.pool, new.fresh, new.builder)
  BY <1>1, <1>2, RecordSet
<1> QED BY <1>1, <1>3

LEMMA PushSet ==
  ASSUME RecsType, NEW r \in DOMAIN recs, NEW pool \in SUBSET Channels, NEW fresh \in SUBSET Channels,
         recs' = [recs EXCEPT ![r].pool = pool, ![r].fresh = fresh, ![r].builder = "results"]
  PROVE Becomes(r, recs[r].listed, pool, fresh, "results")
<1> DEFINE new == [recs[r] EXCEPT !.pool = pool, !.fresh = fresh, !.builder = "results"]
<1>1. /\ new \in Record /\ new.listed = recs[r].listed /\ new.builder = "results"
      /\ new.closed = recs[r].closed /\ new.pool = pool /\ new.fresh = fresh
      /\ new.free = recs[r].free /\ new.uploads = recs[r].uploads
  BY Typed DEF Record
<1>2. recs' = [recs EXCEPT ![r] = new]
  BY Typed
<1> HIDE DEF new
<1>3. Becomes(r, new.listed, new.pool, new.fresh, new.builder)
  BY <1>1, <1>2, RecordSet
<1> QED BY <1>1, <1>3

LEMMA StagingGone ==
  ASSUME SftpInv, NEW p \in Requests, req[p].pc \in {"stage", "copy", "replace", "cleanup"},
         Moves(p, "sweep", req[p].r, req[p].ch, req[p].parts, req[p].front, req[p].got, "gone"),
         recs' = Give(req[p].r, 1),
         UNCHANGED <<openLock, chans, work, cleaner, temp>>,
         conn'.up = conn.up, conn'.lost = conn.lost, ConnType'
  PROVE SftpInv'
<1> USE DEF SftpInv
<1> DEFINE r == req[p].r
<1>1. /\ r \in DOMAIN recs /\ req[p] \in Request /\ work[p] = <<>>
      /\ req[p].parts = 1 /\ req[p].kind = "upload" /\ (recs[r].listed \/ recs[r].closed)
  BY DEF UsersHold, UserPcs, Uploading, Staging, SftpTypes, ReqType, KindsFit
<1>2. Moves(p, "sweep", r, req[p].ch, req[p].parts, req[p].front, req[p].got, "gone")
  OBVIOUS
<1>3. Accounts(r, recs[r].free + 1, recs[r].uploads)
  BY <1>1, Gives DEF SftpTypes
<1>4. Aside(p)
  BY <1>2, <1>3 DEF Aside, Accounts, Moves, Locked
<1>5. SftpTypes'
  BY <1>2, <1>3, <1>4, AsideTypes DEF SftpTypes, Accounts, WorkType, Moves
<1>6. Holding(p) /\ InCount(p) /\ ~Holding(p)' /\ InCount(p)'
  BY <1>1, <1>2 DEF Holding, InCount, Staging, Moves
<1>7. SlotsHeld'
  BY <1>1, <1>2, <1>3, <1>6, SlotsGiven, HolderSame DEF Moves, Accounts, SftpTypes, Request
<1>8. UploadsCounted'
  BY <1>2, <1>3, <1>6, UploadsSame DEF Moves, Accounts, InCount
<1> HIDE DEF r
<1>9. StagingKnown'
  BY <1>2, <1>4 DEF StagingKnown, Moves, Aside
<1>10. KindsFit'
  BY <1>1, <1>2, <1>4 DEF KindsFit, Uploading, Staging, Locked, Moves, Aside
<1>11. UsersHold'
  <2>1. \A s \in DOMAIN recs : Shell(s)
    BY <1>4 DEF Aside
  <2>2. DOMAIN recs' = DOMAIN recs
    BY <1>4 DEF Aside
  <2> QED BY <1>1, <1>2, <2>1, <2>2 DEF UsersHold, Streaming, At, HeldBy, Shell, UserPcs, Uploading, Staging, Moves, r
<1>12. StagingServed'
  BY <1>1, <1>2, <1>4 DEF StagingServed, Shell, Staging, UsersHold, UserPcs, Uploading, Moves, Aside, r
<1>13. Delivered'
  BY <1>1, <1>2 DEF Delivered, Moves
<1>14. InOrder'
  <2>1. ASSUME NEW q \in Requests, q # p PROVE Ordered(q)'
    BY <1>2, <2>1, OrderedSame DEF InOrder, Moves
  <2>2. Ordered(p)'
    BY <1>2 DEF Ordered, Moves
  <2> QED BY <2>1, <2>2 DEF InOrder
<1> QED BY <1>4, <1>5, <1>7, <1>8, <1>9, <1>10, <1>11, <1>12, <1>13, <1>14, WorldKept DEF World

(* The new session goes with its opener: it was not listed yet.            *)
LEMMA PublishGone ==
  ASSUME SftpInv, NEW p \in Requests, req[p].pc = "publish", Reply(p, "gone"), Unlock(p),
         Becomes(req[p].r, recs[req[p].r].listed, recs[req[p].r].pool, recs[req[p].r].fresh, "ended"),
         chans' = chans \ {Channel(req[p].r, 1)},
         UNCHANGED <<work, cleaner, temp>>,
         conn'.up = conn.up, conn'.lost = conn.lost, ConnType'
  PROVE SftpInv'
<1> USE DEF SftpInv
<1>0. PICK r : r = req[p].r
  OBVIOUS
<1>1. Leaves(p, "gone") /\ openLock = p /\ openLock' = None
  BY Replies DEF SftpTypes, LockHeld, Locked, Unlock
<1>2. /\ r \in DOMAIN recs /\ recs[r].builder = "waiting" /\ recs[r].pool = {Channel(r, 1)}
      /\ ~recs[r].closed /\ recs[r].fresh = {} /\ \A s \in DOMAIN recs : ~recs[s].listed
  BY <1>0, <1>1, SftpAssumption DEF Publishing, RecordLife, RecordFits
<1>3. Becomes(r, recs[r].listed, recs[r].pool, recs[r].fresh, "ended")
  BY <1>0
<1>4. SftpTypes'
  BY <1>1, <1>3 DEF Becomes, SftpTypes, WorkType, CleanerType, Leaves, Moves
<1>5. /\ KindsFit' /\ UsersHold' /\ UploadsCounted' /\ StagingServed' /\ StagingKnown'
      /\ SlotsHeld' /\ Delivered' /\ InOrder'
  BY <1>1, <1>3, LockPhase DEF Becomes, Leaves, Moves, Locked
<1>6. LockHeld'
  BY <1>1, SftpAssumption DEF LockHeld, Leaves, Moves, Locked
<1>7. \A s \in DOMAIN recs : recs[s].builder = "waiting" => s = r
  <2>1. \A q \in Requests : req[q].pc = "publish" => q = p
    BY <1>1 DEF LockHeld, Locked
  <2> QED BY <1>0, <2>1 DEF RecordLife, RecordFits
<1>8. RecordLife'
  BY <1>1, <1>2, <1>3, <1>7 DEF Becomes, RecordLife, RecordFits, Leaves, Moves
<1>9. OneListed'
  BY <1>2, <1>3 DEF Becomes, OneListed
<1>10. Publishing'
  BY <1>1, <1>3, SftpAssumption DEF Becomes, Publishing, Leaves, Moves, LockHeld, Locked
<1>11. CleanerLate'
  BY <1>1, <1>3 DEF Becomes, CleanerLate, Leaves, Moves, SftpTypes, CleanerType
<1>12. ~Live(r)'
  BY <1>2, <1>3 DEF Becomes, Live, Closing, CleanerLate
<1>13. ASSUME NEW s \in DOMAIN recs, s # r PROVE Live(s)' <=> Live(s)
  BY <1>3, <1>13 DEF Becomes, Live, Closing
<1>14. ASSUME NEW c \in chans' PROVE c \in chans /\ c.r # r
  BY <1>0, <1>2 DEF ChannelsOwned
<1>15. ChannelsOwned'
  <2>1. ASSUME NEW c \in chans'
        PROVE c.r \in DOMAIN recs' /\ Live(c.r)' /\ c \in (recs[c.r].pool \cup recs[c.r].fresh)'
    BY <1>3, <1>13, <1>14 DEF ChannelsOwned, Becomes
  <2>2. ASSUME NEW s \in DOMAIN recs', Live(s)', ~conn'.lost
        PROVE (recs[s].pool \cup recs[s].fresh \subseteq chans)'
    <3>1. s \in DOMAIN recs /\ s # r /\ Live(s) /\ recs'[s].pool = recs[s].pool /\ recs'[s].fresh = recs[s].fresh
      BY <1>3, <1>12, <1>13, <2>2 DEF Becomes
    <3>2. recs[s].pool \cup recs[s].fresh \subseteq chans /\ recs[s].pool \cup recs[s].fresh \subseteq Own(s)
      BY <2>2, <3>1 DEF ChannelsOwned, RecordLife, RecordFits
    <3>3. Channel(r, 1) \notin Own(s)
      BY <3>1 DEF Own, Channel
    <3> QED BY <1>0, <3>1, <3>2, <3>3
  <2> QED BY <2>1, <2>2 DEF ChannelsOwned
<1> QED BY <1>4, <1>5, <1>6, <1>8, <1>9, <1>10, <1>11, <1>15

LEMMA ClientGoneKeeps ==
  ASSUME SftpInv, NEW p \in Requests, ClientGone(p)
  PROVE SftpInv'
<1> USE DEF SftpInv
<1> DEFINE r == req[p].r
<1>1. ConnType' /\ conn'.up = conn.up /\ conn'.lost = conn.lost
  <2>1. ConnType' /\ conn'.up = conn.up /\ (conn'.lost <=> conn.lost)
    BY FaultCounts DEF ClientGone, SftpTypes
  <2>2. conn.lost \in BOOLEAN /\ conn'.lost \in BOOLEAN
    BY <2>1 DEF SftpTypes, ConnType
  <2> QED BY <2>1, <2>2
<1>2. CASE /\ req[p].pc \in {"lock", "known", "first", "find", "pool", "permit"}
           /\ Reply(p, "gone") /\ Unlock(p)
           /\ UNCHANGED <<recs, chans, work, cleaner, temp>>
  <2>1. CASE req[p].pc \in {"known", "first"}
    BY <1>1, <1>2, <2>1, LockLeave
  <2>2. CASE req[p].pc \in {"lock", "find", "pool", "permit"}
    <3>1. openLock' = openLock
      BY <1>2, <2>2 DEF Unlock, LockHeld, Locked
    <3> QED BY <1>1, <1>2, <2>2, <3>1, EarlyLeave
  <2> QED BY <1>2, <2>1, <2>2
<1>3. CASE /\ At(p, "publish") /\ Reply(p, "gone") /\ Unlock(p)
           /\ recs' = [recs EXCEPT ![r].builder = "ended"] /\ chans' = chans \ {Channel(r, 1)}
           /\ UNCHANGED <<work, cleaner, temp>>
  <2>1. r \in DOMAIN recs
    BY <1>3 DEF Publishing, At
  <2>2. Becomes(r, recs[r].listed, recs[r].pool, recs[r].fresh, "ended")
    BY <1>3, <2>1, BuilderSet DEF SftpTypes
  <2> QED BY <1>1, <1>3, <2>2, PublishGone DEF At
<1>4. CASE /\ req[p].pc \in {"stage", "copy", "replace", "cleanup"}
           /\ req' = [req EXCEPT ![p].pc = "sweep", ![p].reply = "gone"]
           /\ recs' = Give(r, 1) /\ UNCHANGED <<openLock, chans, work, cleaner, temp>>
  <2>1. Moves(p, "sweep", req[p].r, req[p].ch, req[p].parts, req[p].front, req[p].got, "gone")
    BY <1>4, SweepSet DEF SftpTypes
  <2> QED BY <1>1, <1>4, <2>1, StagingGone
<1>5. CASE /\ At(p, "open") \/ (At(p, "stream") /\ req[p].kind = "download")
           /\ Reply(p, "gone") /\ recs' = Give(r, 1)
           /\ UNCHANGED <<openLock, chans, work, cleaner, temp>>
  <2>1. req[p].pc \in {"open", "stream"} /\ req[p].kind # "parallel"
    BY <1>5 DEF At, KindsFit
  <2> QED BY <1>1, <1>5, <2>1, GiveLeave
<1>6. CASE /\ At(p, "spawn") /\ Reply(p, "gone")
           /\ recs' = IF \A i \in DOMAIN work[p] : Ended(work[p][i])
                        THEN Give(r, req[p].parts) ELSE recs
           /\ UNCHANGED <<openLock, chans, work, cleaner, temp>>
  <2>1. Leaves(p, "gone") /\ req[p].kind = "parallel" /\ req[p].pc = "spawn" /\ WorkType'
    BY <1>6, Replies DEF SftpTypes, WorkType, At, KindsFit
  <2>2. Holding(p) /\ (Holding(p)' <=> ~ \A i \in DOMAIN work[p] : Ended(work[p][i]))
    BY <1>6, <2>1 DEF Holding, Leaves, Moves, Ended
  <2> QED BY <1>1, <1>6, <2>1, <2>2, PermitsBack
<1>7. CASE /\ At(p, "stream") /\ req[p].kind = "parallel" /\ Dropped(p, "gone")
           /\ UNCHANGED <<openLock, chans, cleaner, temp>>
  BY <1>1, <1>7, DropKeeps DEF At
<1> QED BY <1>2, <1>3, <1>4, <1>5, <1>6, <1>7 DEF ClientGone

-----------------------------------------------------------------------------
(* The builder of a pool, and the steps that take channels from it.        *)

LEMMA RequestsRest ==
  ASSUME SftpInv, UNCHANGED <<openLock, req, work, temp>>, DOMAIN recs' = DOMAIN recs,
         \A s \in DOMAIN recs : recs'[s].free = recs[s].free /\ recs'[s].uploads = recs[s].uploads
  PROVE KindsFit' /\ LockHeld' /\ UploadsCounted' /\ SlotsHeld' /\ Delivered' /\ InOrder'
<1> USE DEF SftpInv
<1>1. KindsFit' /\ LockHeld' /\ Delivered'
  BY DEF KindsFit, LockHeld, Delivered
<1>2. InOrder'
  BY OrderedSame DEF InOrder
<1>3. UploadsCounted'
  BY UploadsSame DEF InCount
<1>4. SlotsHeld'
  BY SlotsSame, HolderSame
<1> QED BY <1>1, <1>2, <1>3, <1>4

(* What must hold of the new pool of a session, its channels on the way to *)
(* the pool, and the open channels.                                        *)
SessionFits(r, pool, fresh, b) ==
  /\ recs[r].builder \in {"opening", "results", "locking", "ended"}
  /\ b \in {"results", "locking", "ended"} /\ (recs[r].builder = "ended" => b = "ended")
  /\ b = "ended" => fresh = {}
  /\ pool \cap fresh = {} /\ pool \cup fresh \subseteq Own(r)
  /\ recs[r].listed => Channel(r, 1) \in pool
  /\ \A c \in recs[r].pool : InUse(c) => c \in pool
  /\ \A c \in chans' : \/ c.r # r /\ c \in chans
                       \/ c.r = r /\ c \in pool \cup fresh /\ (c \in chans \/ Live(r))
  /\ \A c \in chans : c.r # r => c \in chans'
  /\ Live(r) /\ ~conn.lost => pool \cup fresh \subseteq chans'

LEMMA SessionStep ==
  ASSUME SftpInv, NEW r \in DOMAIN recs, NEW pool, NEW fresh, NEW b,
         Becomes(r, recs[r].listed, pool, fresh, b), SessionFits(r, pool, fresh, b),
         UNCHANGED <<openLock, req, work, temp, cleaner>>, chans' \in SUBSET Channels, ConnType',
         conn'.up = conn.up, conn'.lost = conn.lost
  PROVE SftpInv'
<1> USE DEF SftpInv, SessionFits
<1>1. SftpTypes'
  BY DEF SftpTypes, Becomes, ReqType, WorkType, CleanerType
<1>2. KindsFit' /\ LockHeld' /\ UploadsCounted' /\ SlotsHeld' /\ Delivered' /\ InOrder'
  BY RequestsRest DEF Becomes
<1>3. RecordLife'
  <2>1. ASSUME NEW s \in DOMAIN recs, s # r PROVE RecordFits(s)'
    BY <2>1 DEF Becomes, RecordLife, RecordFits
  <2>2. RecordFits(r)'
    <3>1. recs'[r].listed => openLock' = None /\ ~recs'[r].closed
      BY DEF Becomes, RecordLife, RecordFits
    <3>2. recs'[r].closed => cleaner'.r = r
      BY DEF Becomes, RecordLife, RecordFits
    <3>3. recs'[r].builder \in {"opening", "results", "locking"} =>
            recs'[r].listed \/ (cleaner'.pc = "abort" /\ cleaner'.r = r)
      BY DEF Becomes, RecordLife, RecordFits
    <3> QED BY <3>1, <3>2, <3>3 DEF Becomes, RecordFits
  <2> QED BY <2>1, <2>2 DEF RecordLife, Becomes
<1>4. OneListed' /\ Publishing'
  BY DEF OneListed, Publishing, Becomes
<1>5. CleanerLate'
  BY DEF CleanerLate, Becomes
<1>6. ASSUME NEW s \in DOMAIN recs PROVE Live(s)' <=> Live(s)
  BY DEF Live, Closing, Becomes
<1>7. ChannelsOwned'
  <2>1. ASSUME NEW c \in chans'
        PROVE c.r \in DOMAIN recs' /\ Live(c.r)' /\ c \in recs'[c.r].pool \cup recs'[c.r].fresh
    BY <1>6 DEF ChannelsOwned, Becomes
  <2>2. ASSUME NEW s \in DOMAIN recs', Live(s)', ~conn'.lost
        PROVE recs'[s].pool \cup recs'[s].fresh \subseteq chans'
    <3>1. s \in DOMAIN recs /\ Live(s) /\ ~conn.lost
      BY <1>6, <2>2 DEF Becomes
    <3>2. CASE s = r
      BY <3>1, <3>2 DEF Becomes
    <3>3. CASE s # r
      <4>1. /\ recs[s].pool \cup recs[s].fresh \subseteq chans
            /\ recs[s].pool \cup recs[s].fresh \subseteq Own(s)
        BY <3>1 DEF ChannelsOwned, RecordLife, RecordFits
      <4>2. \A c \in Own(s) : c.r # r
        BY <3>3, OwnFinite
      <4> QED BY <3>1, <3>3, <4>1, <4>2 DEF Becomes
    <3> QED BY <3>2, <3>3
  <2> QED BY <2>1, <2>2 DEF ChannelsOwned
<1>8. UsersHold'
  <2>1. ASSUME NEW p \in Requests, NEW c, HeldBy(p, c), InUse(c) PROVE HeldBy(p, c)'
    BY <2>1 DEF HeldBy, Becomes
  <2>2. ASSUME NEW p \in Requests PROVE
          /\ req[p].pc # "done" /\ req[p].ch # None /\ ~Streaming(p)
               => HeldBy(p, req[p].ch) /\ InUse(req[p].ch)
          /\ \A i \in DOMAIN work[p] : ~Ended(work[p][i]) => HeldBy(p, work[p][i].ch) /\ InUse(work[p][i].ch)
    BY DEF UsersHold, InUse, At
  <2>3. ASSUME NEW p \in Requests, req'[p].pc # "done", req'[p].ch # None, ~Streaming(p)'
        PROVE HeldBy(p, req[p].ch)'
    <3>1. PICK c : c = req[p].ch
      OBVIOUS
    <3>2. HeldBy(p, c)'
      BY <2>1, <2>2, <2>3, <3>1 DEF Streaming, At
    <3> QED BY <3>1, <3>2 DEF HeldBy
  <2>4. ASSUME NEW p \in Requests, NEW i \in DOMAIN work'[p], ~Ended(work'[p][i])
        PROVE HeldBy(p, work[p][i].ch)'
    <3>1. PICK c : c = work[p][i].ch
      OBVIOUS
    <3>2. HeldBy(p, c)'
      BY <2>1, <2>2, <2>4, <3>1
    <3> QED BY <3>1, <3>2 DEF HeldBy
  <2>5. \A p \in Requests : /\ req'[p].pc \in UserPcs => /\ req'[p].r \in DOMAIN recs'
                                                        /\ (recs'[req'[p].r].listed \/ recs'[req'[p].r].closed)
                            /\ work'[p] # <<>> => req'[p].r \in DOMAIN recs'
    BY DEF UsersHold, Becomes
  <2> QED BY <2>3, <2>4, <2>5 DEF UsersHold, Streaming, At, Ended
<1>9. StagingServed'
  <2>1. ASSUME NEW p \in Requests, req[p].pc \in Staging, ~cleaner.late
        PROVE /\ req[p].ch \in recs'[req[p].r].pool
              /\ recs'[req[p].r].closed => cleaner.pc \in {"abort", "wait"}
    <3>1. req[p].r \in DOMAIN recs /\ InUse(req[p].ch)
      BY <2>1 DEF UsersHold, UserPcs, Uploading, InUse, Streaming, At, Staging
    <3>2. req[p].ch \in recs[req[p].r].pool /\ (recs[req[p].r].closed => cleaner.pc \in {"abort", "wait"})
      BY <2>1 DEF StagingServed
    <3> QED BY <3>1, <3>2 DEF Becomes
  <2> QED BY <2>1 DEF StagingServed
<1>10. StagingKnown'
  BY DEF StagingKnown
<1> QED BY <1>1, <1>2, <1>3, <1>4, <1>5, <1>7, <1>8, <1>9, <1>10

LEMMA BuilderOpensKeeps ==
  ASSUME SftpInv, NEW r \in DOMAIN recs, BuilderOpens(r)
  PROVE SftpInv'
<1> USE DEF SftpInv
<1>1. PICK n \in 0..(PoolSize - 1) :
        /\ n > 0 => ~conn.lost
        /\ recs' = [recs EXCEPT ![r].fresh = {Channel(r, i + 1) : i \in 1..n}, ![r].builder = "results"]
        /\ chans' = chans \cup {Channel(r, i + 1) : i \in 1..n}
  BY DEF BuilderOpens
<1>2. PICK fresh : fresh = {Channel(r, i + 1) : i \in 1..n}
  OBVIOUS
<1>3. /\ recs[r].builder = "opening" /\ UNCHANGED <<conn, openLock, req, work, cleaner, temp>>
      /\ recs[r].pool = {Channel(r, 1)} /\ recs[r] \in Record /\ r \in Nat
      /\ recs[r].listed \/ (cleaner.pc = "abort" /\ cleaner.r = r)
  BY Typed DEF BuilderOpens, RecordLife, RecordFits, SftpTypes
<1>4. /\ fresh \in SUBSET Channels /\ Channel(r, 1) \notin fresh
      /\ fresh \subseteq Own(r) /\ Channel(r, 1) \in Own(r) /\ (n = 0 => fresh = {})
  <2>0. n \in Nat /\ n <= PoolSize - 1 /\ PoolSize \in Nat
    BY SftpAssumption
  <2>1. ASSUME NEW i \in 1..n PROVE i + 1 \in 1..PoolSize /\ i + 1 # 1 /\ i + 1 \in Nat
    BY <2>0
  <2>2. fresh \in SUBSET Channels /\ Channel(r, 1) \notin fresh
    <3>1. ASSUME NEW i \in 1..n PROVE Channel(r, i + 1) \in Channels /\ Channel(r, i + 1) # Channel(r, 1)
      <4>1. PICK m \in Nat : m = i + 1 /\ m # 1
        BY <2>1
      <4> QED BY <1>3, <4>1 DEF Channel, Channels
    <3> QED BY <1>2, <3>1
  <2>3. fresh \subseteq Own(r) /\ Channel(r, 1) \in Own(r)
    BY <1>2, <2>1, SftpAssumption DEF Own
  <2>4. n = 0 => fresh = {}
    BY <1>2
  <2> QED BY <2>2, <2>3, <2>4
<1>5. Becomes(r, recs[r].listed, recs[r].pool, fresh, "results")
  <2>1. recs' = [recs EXCEPT ![r].builder = "results", ![r].fresh = fresh]
    BY <1>1, <1>2
  <2> QED BY <1>4, <2>1, FreshSet DEF SftpTypes
<1>6. Live(r) /\ \A c \in Own(r) : c.r = r
  BY <1>3, OwnFinite DEF Live, Closing
<1>7. chans' = chans \cup fresh
  BY <1>1, <1>2
<1>8. \A c \in chans' : \/ c.r # r /\ c \in chans
                        \/ c.r = r /\ c \in recs[r].pool \cup fresh /\ (c \in chans \/ Live(r))
  <2>1. \A c \in chans : c.r = r => c \in recs[r].pool
    BY <1>3 DEF ChannelsOwned, RecordLife, RecordFits
  <2>2. \A c \in fresh : c.r = r
    BY <1>4, <1>6
  <2> QED BY <1>6, <1>7, <2>1, <2>2
<1>9. ~conn.lost => recs[r].pool \cup fresh \subseteq chans'
  BY <1>6, <1>7 DEF ChannelsOwned
<1>10. chans' \in SUBSET Channels /\ ConnType'
  BY <1>3, <1>4, <1>7 DEF SftpTypes, ConnType
<1>11. \A c \in chans : c.r # r => c \in chans'
  BY <1>7
<1>12. SessionFits(r, recs[r].pool, fresh, "results")
  BY <1>3, <1>4, <1>8, <1>9, <1>11 DEF SessionFits
<1> QED BY <1>3, <1>5, <1>10, <1>12, SessionStep

(* The builder stops: what it has not put into the pool is dropped.        *)
LEMMA BuilderDrops ==
  ASSUME SftpInv, NEW r \in DOMAIN recs, recs[r].builder \in {"results", "locking"},
         recs' = [recs EXCEPT ![r].builder = "ended", ![r].fresh = {}],
         chans' = chans \ recs[r].fresh,
         UNCHANGED <<conn, openLock, req, work, cleaner, temp>>
  PROVE SftpInv'
<1> USE DEF SftpInv
<1>1. Becomes(r, recs[r].listed, recs[r].pool, {}, "ended")
  BY FreshSet DEF SftpTypes
<1>2. /\ recs[r].pool \cap recs[r].fresh = {} /\ recs[r].pool \cup recs[r].fresh \subseteq Own(r)
      /\ recs[r].listed => Channel(r, 1) \in recs[r].pool
      /\ \A c \in Own(r) : c.r = r
  BY OwnFinite DEF RecordLife, RecordFits
<1>3. \A c \in chans : c.r = r => c \in recs[r].pool \cup recs[r].fresh
  BY DEF ChannelsOwned
<1>4. chans' \in SUBSET Channels /\ ConnType' /\ conn'.up = conn.up /\ conn'.lost = conn.lost
  BY DEF SftpTypes, ConnType
<1>5. Live(r) /\ ~conn.lost => recs[r].pool \subseteq chans'
  BY <1>2 DEF ChannelsOwned
<1>6. \A c \in chans' : \/ c.r # r /\ c \in chans
                        \/ c.r = r /\ c \in recs[r].pool \cup {} /\ (c \in chans \/ Live(r))
  BY <1>3
<1>7. \A c \in chans : c.r # r => c \in chans'
  BY <1>2
<1>8. SessionFits(r, recs[r].pool, {}, "ended")
  BY <1>2, <1>5, <1>6, <1>7 DEF SessionFits
<1> QED BY <1>1, <1>4, <1>8, SessionStep

LEMMA BuilderNextKeeps ==
  ASSUME SftpInv, NEW r \in DOMAIN recs, BuilderNext(r)
  PROVE SftpInv'
<1> USE DEF SftpInv
<1>1. CASE recs[r].closed \/ recs[r].fresh = {}
  <2>1. recs' = [recs EXCEPT ![r].builder = "ended", ![r].fresh = {}] /\ chans' = chans \ recs[r].fresh
    BY <1>1 DEF BuilderNext
  <2> QED BY <2>1, BuilderDrops DEF BuilderNext
<1>2. CASE ~(recs[r].closed \/ recs[r].fresh = {})
  <2>1. /\ recs' = [recs EXCEPT ![r].builder = "locking"] /\ recs[r].builder = "results"
        /\ UNCHANGED <<conn, openLock, chans, req, work, cleaner, temp>>
    BY <1>2 DEF BuilderNext
  <2>2. Becomes(r, recs[r].listed, recs[r].pool, recs[r].fresh, "locking")
    BY <2>1, BuilderSet DEF SftpTypes
  <2>3. /\ recs[r].pool \cap recs[r].fresh = {} /\ recs[r].pool \cup recs[r].fresh \subseteq Own(r)
        /\ recs[r].listed => Channel(r, 1) \in recs[r].pool
    BY DEF RecordLife, RecordFits
  <2>4. chans' \in SUBSET Channels /\ ConnType' /\ conn'.up = conn.up /\ conn'.lost = conn.lost
    BY <2>1 DEF SftpTypes, ConnType
  <2>5. Live(r) /\ ~conn.lost => recs[r].pool \cup recs[r].fresh \subseteq chans'
    BY <2>1 DEF ChannelsOwned
  <2>6. \A c \in chans' : \/ c.r # r /\ c \in chans
                          \/ c.r = r /\ c \in recs[r].pool \cup recs[r].fresh /\ (c \in chans \/ Live(r))
    BY <2>1 DEF ChannelsOwned
  <2>7. SessionFits(r, recs[r].pool, recs[r].fresh, "locking")
    BY <2>1, <2>3, <2>5, <2>6 DEF SessionFits
  <2> QED BY <2>1, <2>2, <2>4, <2>7, SessionStep
<1> QED BY <1>1, <1>2

LEMMA BuilderPushesKeeps ==
  ASSUME SftpInv, NEW r \in DOMAIN recs, BuilderPushes(r)
  PROVE SftpInv'
<1> USE DEF SftpInv
<1>1. CASE recs[r].closed
  <2>1. recs' = [recs EXCEPT ![r].builder = "ended", ![r].fresh = {}] /\ chans' = chans \ recs[r].fresh
    BY <1>1 DEF BuilderPushes
  <2> QED BY <2>1, BuilderDrops DEF BuilderPushes
<1>2. CASE ~recs[r].closed
  <2>1. PICK c \in recs[r].fresh :
          recs' = [recs EXCEPT ![r].pool = @ \cup {c}, ![r].fresh = @ \ {c}, ![r].builder = "results"]
    BY <1>2 DEF BuilderPushes
  <2>2. /\ recs[r].builder = "locking" /\ recs[r] \in Record
        /\ UNCHANGED <<conn, openLock, chans, req, work, cleaner, temp>>
    BY <1>2, Typed DEF BuilderPushes, SftpTypes
  <2>3. PICK pool \in SUBSET Channels, fresh \in SUBSET Channels :
          pool = recs[r].pool \cup {c} /\ fresh = recs[r].fresh \ {c}
    BY <2>2 DEF Record
  <2>4. Becomes(r, recs[r].listed, pool, fresh, "results")
    <3>1. recs' = [recs EXCEPT ![r].pool = pool, ![r].fresh = fresh, ![r].builder = "results"]
      BY <2>1, <2>3
    <3> QED BY <3>1, PushSet DEF SftpTypes
  <2>5. /\ pool \cap fresh = {} /\ pool \cup fresh = recs[r].pool \cup recs[r].fresh
        /\ recs[r].listed => Channel(r, 1) \in pool
        /\ recs[r].pool \cup recs[r].fresh \subseteq Own(r)
    BY <2>3 DEF RecordLife, RecordFits
  <2>6. chans' \in SUBSET Channels /\ ConnType' /\ conn'.up = conn.up /\ conn'.lost = conn.lost
    BY <2>2 DEF SftpTypes, ConnType
  <2>7. Live(r) /\ ~conn.lost => pool \cup fresh \subseteq chans'
    BY <2>2, <2>5 DEF ChannelsOwned
  <2>8. \A d \in chans' : \/ d.r # r /\ d \in chans
                          \/ d.r = r /\ d \in pool \cup fresh /\ (d \in chans \/ Live(r))
    BY <2>2, <2>5 DEF ChannelsOwned
  <2>9. SessionFits(r, pool, fresh, "results")
    BY <2>2, <2>3, <2>5, <2>7, <2>8 DEF SessionFits
  <2> QED BY <2>2, <2>4, <2>6, <2>9, SessionStep
<1> QED BY <1>1, <1>2

LEMMA CompactKeeps ==
  ASSUME SftpInv, NEW r \in DOMAIN recs, Compact(r)
  PROVE SftpInv'
<1> USE DEF SftpInv
<1>1. PICK idle : idle = {c \in recs[r].pool \ {Channel(r, 1)} : ~InUse(c)}
  OBVIOUS
<1>2. /\ recs[r].listed /\ idle # {} /\ Fault(FALSE) /\ chans' = chans \ idle
      /\ recs' = [recs EXCEPT ![r].pool = @ \ idle]
      /\ UNCHANGED <<openLock, req, work, cleaner, temp>>
  BY <1>1 DEF Compact
<1>3. ConnType' /\ conn'.up = conn.up /\ conn'.lost = conn.lost
  <2>1. ConnType' /\ conn'.up = conn.up /\ (conn'.lost <=> conn.lost)
    BY <1>2, FaultCounts DEF SftpTypes
  <2>2. conn.lost \in BOOLEAN /\ conn'.lost \in BOOLEAN
    BY <2>1 DEF SftpTypes, ConnType
  <2> QED BY <2>1, <2>2
<1>4. recs[r] \in Record /\ recs[r].builder \in {"results", "locking", "ended"}
  BY <1>1, <1>2, Typed DEF RecordLife, RecordFits, SftpTypes, Record
<1>5. PICK pool \in SUBSET Channels : pool = recs[r].pool \ idle
  BY <1>4 DEF Record
<1>6. Becomes(r, recs[r].listed, pool, recs[r].fresh, recs[r].builder)
  <2>1. recs' = [recs EXCEPT ![r].pool = pool]
    BY <1>2, <1>5
  <2> QED BY <2>1, PoolSet DEF SftpTypes
<1>7. /\ recs[r].pool \cap recs[r].fresh = {} /\ recs[r].pool \cup recs[r].fresh \subseteq Own(r)
      /\ recs[r].listed => Channel(r, 1) \in recs[r].pool
      /\ \A c \in Own(r) : c.r = r
      /\ recs[r].builder = "ended" => recs[r].fresh = {}
  BY OwnFinite DEF RecordLife, RecordFits
<1>8. chans' \in SUBSET Channels
  BY <1>2 DEF SftpTypes
<1>9. /\ \A c \in recs[r].pool : InUse(c) => c \in pool
      /\ Channel(r, 1) \in recs[r].pool => Channel(r, 1) \in pool
      /\ pool \cap recs[r].fresh = {} /\ pool \cup recs[r].fresh \subseteq Own(r)
  BY <1>1, <1>5, <1>7
<1>10. Live(r) /\ ~conn.lost => pool \cup recs[r].fresh \subseteq chans'
  BY <1>1, <1>2, <1>5, <1>7 DEF ChannelsOwned
<1>11. \A c \in chans' : \/ c.r # r /\ c \in chans
                         \/ c.r = r /\ c \in pool \cup recs[r].fresh /\ (c \in chans \/ Live(r))
  BY <1>2, <1>5 DEF ChannelsOwned
<1>12. \A c \in chans : c.r # r => c \in chans'
  BY <1>1, <1>2, <1>7
<1>13. SessionFits(r, pool, recs[r].fresh, recs[r].builder)
  BY <1>2, <1>4, <1>7, <1>9, <1>10, <1>11, <1>12 DEF SessionFits
<1> QED BY <1>2, <1>3, <1>6, <1>8, <1>13, SessionStep

-----------------------------------------------------------------------------
(* The connection and its sessions going away.                             *)

LEMMA TransportLostKeeps ==
  ASSUME SftpInv, TransportLost
  PROVE SftpInv'
<1> USE DEF SftpInv
<1>1. UNCHANGED <<openLock, recs, req, work, cleaner, temp>> /\ chans' = {}
  BY DEF TransportLost
<1>2. ConnType' /\ conn'.up = conn.up /\ conn'.lost
  BY FaultCounts DEF TransportLost, SftpTypes
<1>3. SftpTypes'
  BY <1>1, <1>2 DEF SftpTypes, RecsType, ReqType, WorkType, CleanerType
<1>4. KindsFit' /\ LockHeld' /\ UploadsCounted' /\ SlotsHeld' /\ Delivered' /\ InOrder'
  BY <1>1, RequestsRest
<1>5. RecordLife' /\ OneListed' /\ Publishing'
  BY <1>1 DEF RecordLife, RecordFits, OneListed, Publishing
<1>6. CleanerLate' /\ ChannelsOwned'
  BY <1>1, <1>2 DEF CleanerLate, ChannelsOwned
<1>7. UsersHold' /\ StagingServed' /\ StagingKnown'
  BY <1>1, <1>2 DEF UsersHold, Streaming, At, HeldBy, StagingServed, StagingKnown
<1> QED BY <1>3, <1>4, <1>5, <1>6, <1>7

LEMMA CleanerSet ==
  ASSUME CleanerType, NEW pc \in {"lock", "abort", "wait", "take", "closed"}, NEW r \in Nat,
         NEW late \in BOOLEAN,
         \/ cleaner' = [cleaner EXCEPT !.pc = pc] /\ r = cleaner.r /\ late = cleaner.late
         \/ cleaner' = [cleaner EXCEPT !.pc = pc, !.r = r] /\ late = cleaner.late
         \/ cleaner' = [cleaner EXCEPT !.pc = pc, !.late = late] /\ r = cleaner.r
  PROVE CleanerType' /\ cleaner'.pc = pc /\ cleaner'.r = r /\ cleaner'.late = late
BY DEF CleanerType

LEMMA DisconnectKeeps ==
  ASSUME SftpInv, Disconnect
  PROVE SftpInv'
<1> USE DEF SftpInv
<1>1. /\ UNCHANGED <<openLock, recs, chans, req, work, temp>> /\ conn.up
      /\ conn' = [conn EXCEPT !.up = FALSE] /\ cleaner' = [cleaner EXCEPT !.pc = "lock"]
  BY DEF Disconnect
<1>2. ConnType' /\ ~conn'.up /\ conn'.lost = conn.lost
  BY <1>1 DEF SftpTypes, ConnType
<1>3. CleanerType' /\ cleaner'.pc = "lock" /\ cleaner'.r = cleaner.r /\ cleaner'.late = cleaner.late
  <2>1. cleaner.r \in Nat /\ cleaner.late \in BOOLEAN
    BY DEF SftpTypes, CleanerType
  <2> QED BY <1>1, <2>1, CleanerSet DEF SftpTypes
<1>4. cleaner.pc = "idle"
  BY <1>1 DEF CleanerLate
<1>5. SftpTypes'
  BY <1>1, <1>2, <1>3 DEF SftpTypes, RecsType, ReqType, WorkType
<1>6. KindsFit' /\ LockHeld' /\ UploadsCounted' /\ SlotsHeld' /\ Delivered' /\ InOrder'
  BY <1>1, RequestsRest
<1>7. RecordLife' /\ OneListed' /\ Publishing'
  BY <1>1, <1>3, <1>4 DEF RecordLife, RecordFits, OneListed, Publishing
<1>8. CleanerLate'
  BY <1>1, <1>2, <1>3, <1>4 DEF CleanerLate
<1>9. ChannelsOwned'
  BY <1>1, <1>2, <1>3, <1>4 DEF ChannelsOwned, Live, Closing
<1>10. UsersHold' /\ StagingKnown'
  BY <1>1, <1>2, <1>3 DEF UsersHold, Streaming, At, HeldBy, StagingKnown
<1>11. StagingServed'
  BY <1>1, <1>3, <1>4 DEF StagingServed
<1> QED BY <1>5, <1>6, <1>7, <1>8, <1>9, <1>10, <1>11

LEMMA AbortBuilderKeeps ==
  ASSUME SftpInv, AbortBuilder
  PROVE SftpInv'
<1> USE DEF SftpInv
<1>1. PICK r : r = cleaner.r
  OBVIOUS
<1>2. /\ cleaner.pc = "abort" /\ UNCHANGED <<conn, openLock, req, work, temp>>
      /\ recs' = [recs EXCEPT ![r].builder = "ended", ![r].fresh = {}]
      /\ chans' = chans \ recs[r].fresh /\ cleaner' = [cleaner EXCEPT !.pc = "wait"]
  BY <1>1 DEF AbortBuilder
<1>3. r \in DOMAIN recs /\ recs[r].closed /\ \A s \in DOMAIN recs : ~recs[s].listed
  BY <1>1, <1>2 DEF CleanerLate
<1>4. Becomes(r, recs[r].listed, recs[r].pool, {}, "ended")
  BY <1>2, <1>3, FreshSet DEF SftpTypes
<1>5. CleanerType' /\ cleaner'.pc = "wait" /\ cleaner'.r = r /\ cleaner'.late = cleaner.late
  <2>1. cleaner.r \in Nat /\ cleaner.late \in BOOLEAN
    BY DEF SftpTypes, CleanerType
  <2> QED BY <1>1, <1>2, <2>1, CleanerSet DEF SftpTypes
<1>6. /\ UNCHANGED <<conn, openLock, req, work, temp>> /\ cleaner.pc = "abort"
      /\ chans' = chans \ recs[r].fresh
  BY <1>2
<1>7. SftpTypes'
  BY <1>4, <1>5, <1>6 DEF SftpTypes, Becomes, ReqType, WorkType, ConnType
<1>8. KindsFit' /\ LockHeld' /\ UploadsCounted' /\ SlotsHeld' /\ Delivered' /\ InOrder'
  BY <1>4, <1>6, RequestsRest DEF Becomes
<1>9. RecordLife'
  <2>1. RecordFits(r)'
    BY <1>3, <1>4, <1>5 DEF RecordLife, RecordFits, Becomes
  <2>2. ASSUME NEW s \in DOMAIN recs, s # r PROVE RecordFits(s)'
    BY <1>1, <1>3, <1>4, <1>5, <1>6, <2>2 DEF RecordLife, RecordFits, Becomes
  <2> QED BY <1>4, <2>1, <2>2 DEF RecordLife, Becomes
<1>10. OneListed' /\ Publishing'
  BY <1>3, <1>4, <1>6 DEF OneListed, Publishing, Becomes, CleanerLate
<1>11. CleanerLate'
  BY <1>3, <1>4, <1>5, <1>6 DEF CleanerLate, Becomes
<1>12. Live(r) /\ Live(r)'
  BY <1>1, <1>5, <1>6 DEF Live, Closing
<1>13. ASSUME NEW s \in DOMAIN recs, s # r PROVE Live(s)' <=> Live(s)
  BY <1>1, <1>4, <1>5, <1>13 DEF Live, Closing, Becomes
<1>14. ChannelsOwned'
  <2>1. ASSUME NEW c \in chans'
        PROVE c.r \in DOMAIN recs' /\ Live(c.r)' /\ c \in recs'[c.r].pool \cup recs'[c.r].fresh
    BY <1>4, <1>6, <1>12, <1>13 DEF ChannelsOwned, Becomes
  <2>2. ASSUME NEW s \in DOMAIN recs', Live(s)', ~conn'.lost
        PROVE recs'[s].pool \cup recs'[s].fresh \subseteq chans'
    <3>1. s \in DOMAIN recs /\ Live(s) /\ ~conn.lost
      BY <1>4, <1>6, <1>12, <1>13, <2>2 DEF Becomes
    <3>2. recs[s].pool \cup recs[s].fresh \subseteq chans
      BY <3>1 DEF ChannelsOwned
    <3>3. CASE s = r
      <4>1. recs[r].pool \cap recs[r].fresh = {}
        BY <1>3 DEF RecordLife, RecordFits
      <4> QED BY <1>3, <1>4, <1>6, <3>2, <3>3, <4>1 DEF Becomes
    <3>4. CASE s # r
      <4>1. recs[s].pool \cup recs[s].fresh \subseteq Own(s) /\ recs[r].fresh \subseteq Own(r)
        BY <1>3, <3>1 DEF RecordLife, RecordFits
      <4>2. \A c \in recs[s].pool \cup recs[s].fresh : c \notin recs[r].fresh
        BY <3>4, <4>1, OwnFinite
      <4> QED BY <1>4, <1>6, <3>1, <3>2, <3>4, <4>2 DEF Becomes
    <3> QED BY <3>3, <3>4
  <2> QED BY <2>1, <2>2 DEF ChannelsOwned
<1>15. UsersHold' /\ StagingKnown'
  BY <1>4, <1>5, <1>6 DEF UsersHold, Streaming, At, HeldBy, StagingKnown, Becomes
<1>16. StagingServed'
  BY <1>4, <1>5, <1>6 DEF StagingServed, Becomes, UsersHold, UserPcs, Uploading
<1> QED BY <1>7, <1>8, <1>9, <1>10, <1>11, <1>14, <1>15, <1>16

LEMMA WaitForUploadsKeeps ==
  ASSUME SftpInv, WaitForUploads
  PROVE SftpInv'
<1> USE DEF SftpInv
<1>1. PICK late \in BOOLEAN : late <=> recs[cleaner.r].uploads > 0
  OBVIOUS
<1>2. /\ cleaner.pc = "wait" /\ UNCHANGED <<conn, openLock, recs, chans, req, work, temp>>
      /\ cleaner' = [cleaner EXCEPT !.pc = "take", !.late = late]
  <2>1. late = (recs[cleaner.r].uploads > 0)
    BY <1>1
  <2> QED BY <2>1 DEF WaitForUploads
<1>3. CleanerType' /\ cleaner'.pc = "take" /\ cleaner'.r = cleaner.r /\ cleaner'.late = late
  <2>1. cleaner.r \in Nat
    BY DEF SftpTypes, CleanerType
  <2> QED BY <1>2, <2>1, CleanerSet DEF SftpTypes
<1>4. SftpTypes'
  BY <1>2, <1>3 DEF SftpTypes, RecsType, ReqType, WorkType, ConnType
<1>5. KindsFit' /\ LockHeld' /\ UploadsCounted' /\ SlotsHeld' /\ Delivered' /\ InOrder'
  BY <1>2, RequestsRest
<1>6. RecordLife' /\ OneListed' /\ Publishing'
  BY <1>2, <1>3 DEF RecordLife, RecordFits, OneListed, Publishing
<1>7. CleanerLate'
  BY <1>2, <1>3 DEF CleanerLate
<1>8. ChannelsOwned'
  BY <1>2, <1>3 DEF ChannelsOwned, Live, Closing
<1>9. UsersHold' /\ StagingKnown'
  BY <1>2, <1>3 DEF UsersHold, Streaming, At, HeldBy, StagingKnown, CleanerLate
<1>10. StagingServed'
  <2>1. ASSUME NEW p \in Requests, req[p].pc \in Staging, ~late PROVE FALSE
    <3>1. /\ req[p].r \in DOMAIN recs /\ cleaner.r \in DOMAIN recs
          /\ recs[req[p].r].closed
      BY <1>2, <2>1 DEF UsersHold, UserPcs, Uploading, CleanerLate
    <3>2. req[p].r = cleaner.r
      BY <3>1 DEF RecordLife, RecordFits
    <3>3. recs[cleaner.r].uploads \in Nat
      BY <3>1, Typed DEF SftpTypes, Record
    <3>4. recs[cleaner.r].uploads = 0
      BY <1>1, <2>1, <3>3
    <3>5. InCount(p)
      BY <2>1 DEF InCount
    <3> QED BY <3>1, <3>2, <3>4, <3>5, NoneCounted
  <2> QED BY <1>2, <1>3, <2>1 DEF StagingServed
<1> QED BY <1>4, <1>5, <1>6, <1>7, <1>8, <1>9, <1>10

LEMMA TakePoolKeeps ==
  ASSUME SftpInv, TakePool
  PROVE SftpInv'
<1> USE DEF SftpInv
<1>1. PICK r : r = cleaner.r
  OBVIOUS
<1>2. /\ cleaner.pc = "take" /\ UNCHANGED <<conn, openLock, req, work, temp>>
      /\ recs' = [recs EXCEPT ![r].pool = {}]
      /\ chans' = chans \ recs[r].pool /\ cleaner' = [cleaner EXCEPT !.pc = "closed"]
  BY <1>1 DEF TakePool
<1>3. /\ r \in DOMAIN recs /\ recs[r].closed /\ recs[r].builder = "ended" /\ recs[r].fresh = {}
      /\ \A s \in DOMAIN recs : ~recs[s].listed /\ recs[s].builder # "waiting"
  BY <1>1, <1>2 DEF CleanerLate, RecordLife, RecordFits
<1>4. Becomes(r, recs[r].listed, {}, recs[r].fresh, recs[r].builder)
  BY <1>2, <1>3, PoolSet DEF SftpTypes
<1>5. CleanerType' /\ cleaner'.pc = "closed" /\ cleaner'.r = r /\ cleaner'.late = cleaner.late
  <2>1. cleaner.r \in Nat /\ cleaner.late \in BOOLEAN
    BY DEF SftpTypes, CleanerType
  <2> QED BY <1>1, <1>2, <2>1, CleanerSet DEF SftpTypes
<1>6. /\ UNCHANGED <<conn, openLock, req, work, temp>> /\ cleaner.pc = "take"
      /\ chans' = chans \ recs[r].pool
  BY <1>2
<1>7. SftpTypes'
  BY <1>4, <1>5, <1>6 DEF SftpTypes, Becomes, ReqType, WorkType, ConnType
<1>8. KindsFit' /\ LockHeld' /\ UploadsCounted' /\ SlotsHeld' /\ Delivered' /\ InOrder'
  BY <1>4, <1>6, RequestsRest DEF Becomes
<1>9. RecordLife'
  <2>1. RecordFits(r)'
    BY <1>3, <1>4, <1>5 DEF RecordFits, Becomes
  <2>2. ASSUME NEW s \in DOMAIN recs, s # r PROVE RecordFits(s)'
    BY <1>1, <1>3, <1>4, <1>5, <1>6, <2>2 DEF RecordLife, RecordFits, Becomes
  <2> QED BY <1>4, <2>1, <2>2 DEF RecordLife, Becomes
<1>10. OneListed' /\ Publishing'
  BY <1>3, <1>4, <1>6 DEF OneListed, Publishing, Becomes, CleanerLate
<1>11. CleanerLate'
  BY <1>3, <1>4, <1>5, <1>6 DEF CleanerLate, Becomes
<1>12. ChannelsOwned'
  <2>1. \A s \in DOMAIN recs : Live(s) => s = r
    BY <1>1, <1>3 DEF Live, Closing
  <2>2. chans' = {}
    BY <1>3, <1>6, <2>1 DEF ChannelsOwned
  <2>3. \A s \in DOMAIN recs : ~Live(s)'
    BY <1>3, <1>4, <1>5 DEF Live, Closing, Becomes
  <2> QED BY <1>4, <2>2, <2>3 DEF ChannelsOwned, Becomes
<1>13. UsersHold' /\ StagingKnown'
  BY <1>3, <1>4, <1>5, <1>6 DEF UsersHold, Streaming, At, HeldBy, StagingKnown, Becomes
<1>14. StagingServed'
  BY <1>3, <1>4, <1>5, <1>6 DEF StagingServed, UsersHold, UserPcs, Uploading
<1> QED BY <1>7, <1>8, <1>9, <1>10, <1>11, <1>12, <1>13, <1>14

LEMMA RemoveSessionsKeeps ==
  ASSUME SftpInv, RemoveSessions
  PROVE SftpInv'
<1> USE DEF SftpInv
<1>1. PICK listed : listed = {r \in DOMAIN recs : recs[r].listed}
  OBVIOUS
<1>2. /\ cleaner.pc = "lock" /\ openLock = None
      /\ recs' = [r \in DOMAIN recs |-> IF r \in listed
                    THEN [recs[r] EXCEPT !.listed = FALSE, !.closed = TRUE] ELSE recs[r]]
      /\ UNCHANGED <<conn, openLock, chans, req, work, temp>>
  BY <1>1 DEF RemoveSessions
<1>3. /\ RecsType' /\ DOMAIN recs' = DOMAIN recs
      /\ \A s \in DOMAIN recs :
           /\ ~recs'[s].listed /\ (recs'[s].closed <=> s \in listed)
           /\ recs'[s].pool = recs[s].pool /\ recs'[s].fresh = recs[s].fresh
           /\ recs'[s].free = recs[s].free /\ recs'[s].uploads = recs[s].uploads
           /\ recs'[s].builder = recs[s].builder
  <2>1. /\ \A s \in DOMAIN recs : recs[s] \in Record /\ ~recs[s].closed
        /\ DOMAIN recs = 1..Len(recs) /\ Len(recs) \in Nat
    <3>1. \A s \in DOMAIN recs : recs[s] \in Record
      BY Typed DEF SftpTypes
    <3>2. \A s \in DOMAIN recs : ~recs[s].closed
      BY <1>2 DEF CleanerLate
    <3>3. DOMAIN recs = 1..Len(recs) /\ Len(recs) \in Nat
      BY DEF SftpTypes, RecsType
    <3> QED BY <3>1, <3>2, <3>3
  <2>2. ASSUME NEW s \in DOMAIN recs
        PROVE /\ recs'[s] \in Record /\ ~recs'[s].listed /\ (recs'[s].closed <=> s \in listed)
              /\ recs'[s].pool = recs[s].pool /\ recs'[s].fresh = recs[s].fresh
              /\ recs'[s].free = recs[s].free /\ recs'[s].uploads = recs[s].uploads
              /\ recs'[s].builder = recs[s].builder
    <3>1. CASE s \in listed
      <4>1. recs'[s] = [recs[s] EXCEPT !.listed = FALSE, !.closed = TRUE] /\ recs[s] \in Record
        BY <1>2, <2>1, <3>1
      <4> QED BY <3>1, <4>1 DEF Record
    <3>2. CASE s \notin listed
      <4>1. recs'[s] = recs[s] /\ recs[s] \in Record /\ ~recs[s].listed /\ ~recs[s].closed
        BY <1>1, <1>2, <2>1, <3>2
      <4> QED BY <3>2, <4>1
    <3> QED BY <3>1, <3>2
  <2>3. DOMAIN recs' = DOMAIN recs /\ recs' = [s \in 1..Len(recs) |-> recs'[s]]
    BY <1>2, <2>1
  <2>4. recs' \in Seq(Record)
    <3>1. recs' \in [1..Len(recs) -> Record]
      BY <2>1, <2>2, <2>3
    <3> QED BY <2>1, <3>1, SeqDef
  <2> QED BY <2>2, <2>3, <2>4 DEF RecsType
<1>4. /\ \A s \in DOMAIN recs : ~recs[s].closed /\ recs[s].builder # "waiting"
      /\ \A p \in Requests : req[p].pc \notin Locked
      /\ ~conn.up /\ ~cleaner.late
  BY <1>2, SftpAssumption DEF LockHeld, Locked, RecordLife, RecordFits, CleanerLate
<1>5. KindsFit' /\ LockHeld' /\ UploadsCounted' /\ SlotsHeld' /\ Delivered' /\ InOrder'
  BY <1>2, <1>3, RequestsRest
<1>6. OneListed' /\ Publishing'
  BY <1>2, <1>3, <1>4 DEF OneListed, Publishing, Locked
<1>7. UNCHANGED <<conn, openLock, chans, req, work, temp>> /\ openLock = None /\ cleaner.pc = "lock"
  BY <1>2
<1>8. UsersHold'
  BY <1>1, <1>3, <1>4, <1>7 DEF UsersHold, Streaming, At, HeldBy
<1>9. \A p \in Requests : req[p].pc \in Staging => req[p].r \in DOMAIN recs /\ req[p].r \in listed
  BY <1>1, <1>4 DEF UsersHold, UserPcs, Uploading
<1>10. CASE listed = {} /\ cleaner' = [cleaner EXCEPT !.pc = "closed"]
  <2>1. CleanerType' /\ cleaner'.pc = "closed" /\ cleaner'.r = cleaner.r /\ cleaner'.late = cleaner.late
    <3>1. cleaner.r \in Nat /\ cleaner.late \in BOOLEAN
      BY DEF SftpTypes, CleanerType
    <3> QED BY <1>10, <3>1, CleanerSet DEF SftpTypes
  <2>2. SftpTypes'
    BY <1>3, <1>7, <2>1 DEF SftpTypes, ReqType, WorkType, ConnType
  <2>3. RecordLife'
    BY <1>1, <1>3, <1>4, <1>7, <1>10, <2>1 DEF RecordLife, RecordFits
  <2>4. CleanerLate'
    BY <1>3, <1>4, <1>7, <2>1 DEF CleanerLate, Locked
  <2>5. ChannelsOwned'
    <3>1. \A s \in DOMAIN recs : ~Live(s) /\ ~Live(s)'
      BY <1>1, <1>3, <1>4, <1>7, <1>10, <2>1 DEF Live, Closing
    <3>2. chans = {}
      BY <3>1 DEF ChannelsOwned
    <3> QED BY <1>3, <1>7, <3>1, <3>2 DEF ChannelsOwned
  <2>6. StagingServed' /\ StagingKnown'
    BY <1>7, <1>9, <1>10, <2>1 DEF StagingServed, StagingKnown
  <2> QED BY <1>5, <1>6, <1>8, <2>2, <2>3, <2>4, <2>5, <2>6
<1>11. ASSUME NEW r \in listed, cleaner' = [cleaner EXCEPT !.pc = "abort", !.r = r] PROVE SftpInv'
  <2>1. r \in DOMAIN recs /\ r \in Nat /\ recs[r].listed /\ listed = {r}
    BY <1>1, Typed DEF SftpTypes, OneListed
  <2>2. CleanerType' /\ cleaner'.pc = "abort" /\ cleaner'.r = r /\ cleaner'.late = cleaner.late
    <3>1. cleaner.late \in BOOLEAN
      BY DEF SftpTypes, CleanerType
    <3> QED BY <1>11, <2>1, <3>1, CleanerSet DEF SftpTypes
  <2>3. SftpTypes'
    BY <1>3, <1>7, <2>2 DEF SftpTypes, ReqType, WorkType, ConnType
  <2>4. RecordLife'
    BY <1>1, <1>3, <1>4, <1>7, <2>1, <2>2 DEF RecordLife, RecordFits
  <2>5. CleanerLate'
    BY <1>3, <1>4, <1>7, <2>1, <2>2 DEF CleanerLate, Locked
  <2>6. ChannelsOwned'
    <3>1. ASSUME NEW s \in DOMAIN recs PROVE (Live(s) <=> s = r) /\ (Live(s)' <=> s = r)
      BY <1>1, <1>3, <1>4, <1>7, <2>1, <2>2 DEF Live, Closing
    <3> QED BY <1>3, <1>7, <3>1 DEF ChannelsOwned
  <2>7. StagingKnown'
    BY <1>7, <2>2 DEF StagingKnown
  <2>8. StagingServed'
    BY <1>3, <1>7, <1>9, <2>2 DEF StagingServed
  <2> QED BY <1>5, <1>6, <1>8, <2>3, <2>4, <2>5, <2>6, <2>7, <2>8
<1> QED BY <1>1, <1>10, <1>11 DEF RemoveSessions

-----------------------------------------------------------------------------

LEMMA SftpStarts ==
  ASSUME Init
  PROVE SftpInv
<1>1. PICK job \in Jobs : req = [p \in Requests |-> Fresh(job[p])]
  BY DEF Init
<1>2. /\ openLock = None /\ recs = <<>> /\ chans = {} /\ work = [p \in Requests |-> <<>>]
      /\ conn = [up |-> TRUE, lost |-> FALSE, faults |-> Faults]
      /\ cleaner = [pc |-> "idle", r |-> 0, late |-> FALSE] /\ temp = [p \in Requests |-> None]
  BY DEF Init
<1>3. ASSUME NEW p \in Requests
      PROVE /\ req[p] \in Request /\ req[p].pc = "begin" /\ req[p].ch = None /\ req[p].parts = 1
            /\ req[p].front = 1 /\ req[p].got = <<>> /\ req[p].reply = None
            /\ work[p] = <<>> /\ temp[p] = None
  <2>1. job[p] \in Kinds /\ 1 \in 1..Slots /\ <<>> \in Seq(Nat)
    BY SftpAssumption, EmptySeq DEF Kinds
  <2>2. req[p] = Fresh(job[p])
    BY <1>1
  <2> QED BY <1>2, <2>1, <2>2 DEF Fresh, Request, ReqPcs
<1>4. SftpTypes
  <2>1. req \in [Requests -> Request]
    BY <1>1, <1>3
  <2>2. recs \in Seq(Record) /\ work \in [Requests -> Seq(WorkerRecord)]
    BY <1>2, EmptySeq
  <2>3. ConnType /\ CleanerType
    BY <1>2, SftpAssumption DEF ConnType, CleanerType
  <2>4. openLock \in Requests \cup {None} /\ chans \in SUBSET Channels
        /\ temp \in [Requests -> {None, "partial", "whole"}]
    BY <1>2
  <2> QED BY <2>1, <2>2, <2>3, <2>4 DEF SftpTypes, ReqType, RecsType, WorkType
<1>5. DOMAIN recs = {} /\ cleaner.pc = "idle" /\ ~cleaner.late /\ conn.up /\ None \notin Requests
      /\ None # "ok"
  BY <1>2, SftpAssumption
<1>6. KindsFit /\ LockHeld /\ StagingServed /\ StagingKnown /\ Publishing
  BY <1>2, <1>3, <1>5 DEF KindsFit, LockHeld, StagingServed, StagingKnown, Publishing, Uploading, Staging,
     Locked
<1>7. RecordLife /\ OneListed /\ CleanerLate /\ ChannelsOwned /\ UploadsCounted /\ SlotsHeld
  BY <1>2, <1>5 DEF RecordLife, OneListed, CleanerLate, ChannelsOwned, UploadsCounted, SlotsHeld
<1>8. UsersHold /\ Delivered /\ InOrder
  <2>1. ASSUME NEW p \in Requests PROVE DOMAIN work[p] = {} /\ DOMAIN req[p].got = {}
    BY <1>3
  <2>2. UsersHold
    BY <1>3, <2>1 DEF UsersHold, UserPcs, Uploading, Staging
  <2>3. Delivered
    BY <1>3, <1>5, <2>1 DEF Delivered
  <2>4. InOrder
    BY <1>3 DEF InOrder, Ordered
  <2> QED BY <2>2, <2>3, <2>4
<1> QED BY <1>4, <1>6, <1>7, <1>8 DEF SftpInv

LEMMA SftpStutters ==
  ASSUME SftpInv, UNCHANGED vars
  PROVE SftpInv'
<1> USE DEF SftpInv, vars
<1>1. SftpTypes'
  BY DEF SftpTypes, ConnType, RecsType, ReqType, WorkType, CleanerType
<1>2. KindsFit' /\ LockHeld' /\ UploadsCounted' /\ SlotsHeld' /\ Delivered' /\ InOrder'
  BY RequestsRest
<1>3. RecordLife' /\ OneListed' /\ Publishing' /\ CleanerLate'
  BY DEF RecordLife, RecordFits, OneListed, Publishing, CleanerLate
<1>4. ChannelsOwned' /\ UsersHold' /\ StagingServed' /\ StagingKnown'
  BY DEF ChannelsOwned, Live, Closing, UsersHold, Streaming, At, HeldBy, Ended, StagingServed, StagingKnown
<1> QED BY <1>1, <1>2, <1>3, <1>4

LEMMA SftpSteps ==
  ASSUME SftpInv, [Next]_vars
  PROVE SftpInv'
<1>1. ASSUME NEW p \in Requests, Handler(p) PROVE SftpInv'
  BY <1>1, BeginKeeps, OpenLockKeeps, KnownConnectionKeeps, OpenFirstKeeps, PublishKeeps,
     FindSessionKeeps, PoolWaitedKeeps, PermitKeeps, PermitTimeoutKeeps, RegisterKeeps, CountKeeps,
     RecheckKeeps, StageKeeps, CopyKeeps, ReplaceRemoteFileKeeps, CleanupKeeps, SweepKeeps,
     OpenFileKeeps, PollSingleKeeps, SpawnWorkerKeeps, PollParallelKeeps
     DEF Handler
<1>2. ASSUME NEW p \in Requests, ClientGone(p) PROVE SftpInv'
  BY <1>2, ClientGoneKeeps
<1>3. ASSUME NEW p \in Requests, NEW i \in DOMAIN work[p], Worker(p, i) PROVE SftpInv'
  BY <1>3, WorkerReadsKeeps, WorkerSendsKeeps, WorkerEndsKeeps DEF Worker
<1>4. ASSUME NEW r \in DOMAIN recs, Builder(r) \/ Compact(r) PROVE SftpInv'
  BY <1>4, BuilderOpensKeeps, BuilderNextKeeps, BuilderPushesKeeps, CompactKeeps DEF Builder
<1>5. CASE Cleaner
  BY <1>5, RemoveSessionsKeeps, AbortBuilderKeeps, WaitForUploadsKeeps, TakePoolKeeps DEF Cleaner
<1>6. CASE TransportLost \/ Disconnect
  BY <1>6, TransportLostKeeps, DisconnectKeeps
<1>7. CASE Finished \/ UNCHANGED vars
  BY <1>7, SftpStutters DEF Finished
<1> QED BY <1>1, <1>2, <1>3, <1>4, <1>5, <1>6, <1>7 DEF Next

(* The inductive invariant of the SFTP sessions: what each record, each    *)
(* request and each worker is at every point, what the counters of a       *)
(* session count, and who owns an open channel.                            *)
THEOREM SftpInvariant == Spec => []SftpInv
<1>1. Init => SftpInv
  BY SftpStarts
<1>2. SftpInv /\ [Next]_vars => SftpInv'
  BY SftpSteps
<1> QED BY <1>1, <1>2, PTL DEF Spec

(* RemoteTempFileGuard and register_api_upload: an upload that is over     *)
(* leaves no staging file, unless the close gave up waiting for it or the  *)
(* transport was lost.                                                     *)
THEOREM NoStagingLeftTheorem == Spec => []NoStagingLeft
<1>1. SftpInv => NoStagingLeft
  BY DEF SftpInv, StagingKnown, NoStagingLeft, At
<1> QED BY <1>1, SftpInvariant, PTL

(* transfer_slots and task_permit: no permit of a session is given twice,  *)
(* and when nothing runs all of them are back and no upload is counted.    *)
THEOREM SlotsReturnedTheorem == Spec => []SlotsReturned
<1>1. ASSUME SftpInv, NEW r \in DOMAIN recs
      PROVE /\ recs[r].free \in 0..Slots
            /\ Quiet => recs[r].free = Slots /\ recs[r].uploads = 0
  <2>1. recs[r].free \in Nat /\ recs[r].free + Cardinality(HeldSlots(r)) = Slots
        /\ recs[r].uploads = Cardinality(Counted(r))
    BY <1>1, Typed DEF SftpInv, SftpTypes, Record, SlotsHeld, UploadsCounted
  <2>2. recs[r].free \in 0..Slots
    BY <2>1, HeldFinite, SftpAssumption
  <2>3. ASSUME Quiet PROVE HeldSlots(r) = {} /\ Counted(r) = {}
    <3>1. \A p \in Requests : ~Holding(p) /\ ~InCount(p)
      BY <2>3, OverHoldsNot DEF Quiet, At
    <3> QED BY <3>1 DEF HeldSlots, Counted, InCount
  <2>4. Cardinality({}) = 0
    BY FS_EmptySet
  <2> QED BY <2>1, <2>2, <2>3, <2>4, SftpAssumption
<1>2. SftpInv => SlotsReturned
  BY <1>1 DEF SlotsReturned
<1> QED BY <1>2, SftpInvariant, PTL

(* SftpDownloadStream and OrderedChunkStream: a download delivers the      *)
(* blocks of its file in order, and ends well only when it is whole.       *)
THEOREM DownloadExactTheorem == Spec => []DownloadExact
<1>1. ASSUME SftpInv, NEW p \in Requests
      PROVE /\ req[p].got = [i \in 1..Len(req[p].got) |-> i]
            /\ req[p].reply = "ok" /\ req[p].kind # "upload" => Len(req[p].got) = Blocks
  <2>1. req[p].got \in Seq(Nat)
    BY <1>1 DEF SftpInv, SftpTypes, ReqType, Request
  <2>2. \A k \in DOMAIN req[p].got : req[p].got[k] = k
    BY <1>1 DEF SftpInv, Delivered
  <2>3. DOMAIN req[p].got = 1..Len(req[p].got)
    BY <2>1
  <2>4. req[p].got = [i \in 1..Len(req[p].got) |-> i]
    BY <2>1, <2>2, <2>3
  <2> QED BY <1>1, <2>4 DEF SftpInv, Delivered
<1>2. SftpInv => DownloadExact
  BY <1>1 DEF DownloadExact
<1> QED BY <1>2, SftpInvariant, PTL

(* take_idle_extra_sessions: while a session is not closed and the         *)
(* transport lasts, every channel that an upload, its sweep or a worker    *)
(* uses is open.  That of a streaming single download may not be.          *)
THEOREM HolderKeepsTheorem == Spec => []HolderKeepsChannel
<1>1. ASSUME SftpInv, NEW r \in DOMAIN recs, ~recs[r].closed, ~conn.lost, NEW p \in Requests,
             req[p].r = r, NEW c, HeldBy(p, c)
      PROVE c \in chans
  BY <1>1 DEF HeldBy, SftpInv, ChannelsOwned, Live
<1>2. SftpInv => HolderKeepsChannel
  BY <1>1 DEF HolderKeepsChannel, SftpInv, UsersHold, At, Open
<1> QED BY <1>2, SftpInvariant, PTL

(* remove_sftp_sessions_for_connection: once the sessions of a connection  *)
(* are closed no channel of it is open, and none is opened any more.       *)
THEOREM NoChannelLeftTheorem == Spec => []NoChannelLeft
<1>1. ASSUME SftpInv, cleaner.pc = "closed", NEW c \in chans PROVE FALSE
  <2>1. c.r \in DOMAIN recs /\ Live(c.r)
    BY <1>1 DEF SftpInv, ChannelsOwned
  <2>2. ~recs[c.r].listed /\ recs[c.r].builder # "waiting"
    BY <1>1, <2>1 DEF SftpInv, CleanerLate, RecordLife, RecordFits
  <2> QED BY <1>1, <2>1, <2>2 DEF Live, Closing
<1>2. SftpInv => NoChannelLeft
  BY <1>1 DEF NoChannelLeft
<1> QED BY <1>2, SftpInvariant, PTL
=============================================================================
