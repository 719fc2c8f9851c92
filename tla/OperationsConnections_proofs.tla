-------------------- MODULE OperationsConnections_proofs --------------------
(* What holds of Connections for any number of connects and children,    *)
(* and of Operations for any number of processes, any operations in any  *)
(* order and any world the program can be in.                            *)
EXTENDS Connections, Operations, Discipline, TLAPS, FiniteSetTheorems, SequenceTheorems

-----------------------------------------------------------------------------
(* Connections.                                                          *)

Cleaning == {"terminal", "sftp", "telemetry", "forward", "announce"}

ConnTypes ==
  /\ cpc \in [Conns -> {"idle", "session", "stale", "evict", "dial", "done"}]
  /\ fresh \in SUBSET Conns /\ stale \in [Conns -> Conns \cup {None}]
  /\ reg \in SUBSET Conns /\ dead \in SUBSET Conns
  /\ stage \in [Conns -> Cleaning \cup {"none", "over", "aborted"}]
  /\ owner \in [Conns -> Kids \cup {None, "command", "reaper", "shutdown"}]
  /\ told \in [Conns -> Nat]
  /\ kid \in [Kids -> {"idle", "begun", "opening", "registered", "failed", "closing",
                       "stopping", "over"}]
  /\ kind \in [Kids -> Kinds \cup {None}] /\ parent \in [Kids -> Conns \cup {None}]
  /\ reader \in [Kids -> {"none", "run", "check", "clean", "gone"}]
  /\ victims \in SUBSET Conns
  /\ shut \in {"idle", "waiting", "conns", "empty"} \cup Cleaning /\ list \in SUBSET Conns

(* A registered connection is not being cleaned up, and one that has not   *)
(* been made yet is neither registered nor cleaned up.                     *)
RegFresh ==
  /\ \A c \in reg : stage[c] = "none" /\ cpc[c] = "done"
  /\ \A c \in Conns : cpc[c] # "done" => stage[c] = "none"

(* Whoever was opened knows its kind and its connection, which exists or   *)
(* has existed; a reader that runs belongs to a terminal that was opened.  *)
KidsPlaced ==
  \A k \in Kids : /\ kid[k] # "idle" => kind[k] \in Kinds /\ parent[k] \in Known
                  /\ reader[k] \in {"run", "check", "clean"} =>
                       kid[k] \notin {"idle", "begun", "opening"}

(* A reader that cleans up owns the clean-up of its connection, which is   *)
(* under way, and its own terminal is out of the registry.                 *)
ReaderOwns ==
  \A k \in Kids : reader[k] = "clean" =>
    owner[parent[k]] = k /\ stage[parent[k]] \in Cleaning

(* An SFTP session being opened is behind no clean-up of SFTP sessions.    *)
SftpLate ==
  \A k \in Kids : kid[k] = "opening" /\ kind[k] = "sftp" =>
    parent[k] \in reg \/ stage[parent[k]] \in {"terminal", "sftp", "aborted"}

Announced == \A c \in Conns : told[c] = IF stage[c] = "over" THEN 1 ELSE 0

(* While the shutdown holds the gate nothing is connected or opened, and   *)
(* what it has drained stays empty.                                        *)
Drained(kd) == shut \in {"announce", "empty"} \cup (Kinds \ StagesLeft(kd))
ShutInv ==
  /\ shut \notin {"idle", "waiting"} => ~GateHeld
  /\ \A k \in Kids : kind[k] \in Kinds /\ Drained(kind[k]) => kid[k] # "registered"
  /\ shut = "empty" => reg = {}

(* The lock of the session: one connect at a time searches, evicts and     *)
(* dials, and unless there is a connect_new it does so on its own.         *)
SessionInv ==
  /\ \A c, d \in Conns :
       cpc[c] \in {"stale", "evict", "dial"} /\ cpc[d] \in {"stale", "evict", "dial"} => c = d
  /\ \A c \in Conns : cpc[c] = "stale" => stale[c] \in Conns
  /\ fresh = {} =>
       /\ \A c, d \in reg : c = d
       /\ \A c \in Conns : /\ cpc[c] \in {"evict", "dial"} => reg = {}
                           /\ cpc[c] = "stale" => reg \subseteq {stale[c]}

ConnInv ==
  /\ ConnTypes /\ RegFresh /\ KidsPlaced /\ ReaderOwns /\ SftpLate /\ Announced /\ ShutInv
  /\ SessionInv /\ NoOrphanChild

-----------------------------------------------------------------------------
(* The stages of a clean-up are the kinds in their order, then the end.    *)
LEMMA KindsAre == Kinds = {"terminal", "sftp", "telemetry", "forward"}
BY DEF Kinds, KindOrder

LEMMA ConnectBeginKeeps ==
  ASSUME ConnInv, NEW c \in Conns, ConnectBegin(c)
  PROVE ConnInv'
<1> USE ConnectionsAssumption, KindsAre DEF ConnInv, ConnTypes
<1>1. KidsPlaced' /\ ReaderOwns' /\ SftpLate' /\ Announced' /\ NoOrphanChild'
  BY DEF ConnectBegin, KidsPlaced, ReaderOwns, SftpLate, Announced, NoOrphanChild, GateOpen,
        Goto, children, cleaning, shutting, Known, Cleaning, StagesLeft
<1>2. ConnTypes'
  BY DEF ConnectBegin, GateOpen, Goto, children, cleaning, shutting, Cleaning
<1>3. RegFresh'
  BY DEF ConnectBegin, RegFresh, GateOpen, Goto, children, cleaning, shutting
<1>4. ShutInv'
  BY DEF ConnectBegin, ShutInv, GateOpen, Goto, children, cleaning, shutting, Drained, GateHeld,
        StagesLeft, InsideConnect, InsideOpen
<1>5. SessionInv'
  BY DEF ConnectBegin, SessionInv, GateOpen, Goto, children, cleaning, shutting
<1> QED BY <1>1, <1>2, <1>3, <1>4, <1>5

LEMMA ConnectFindKeeps ==
  ASSUME ConnInv, NEW c \in Conns, ConnectFind(c)
  PROVE ConnInv'
<1> USE ConnectionsAssumption, KindsAre DEF ConnInv, ConnTypes
<1>1. KidsPlaced' /\ ReaderOwns' /\ SftpLate' /\ Announced' /\ NoOrphanChild'
  BY DEF ConnectFind, KidsPlaced, ReaderOwns, SftpLate, Announced, NoOrphanChild, Goto,
        children, cleaning, shutting, Known, Cleaning, StagesLeft
<1>2. ConnTypes'
  BY DEF ConnectFind, Goto, children, cleaning, shutting, Cleaning
<1>3. RegFresh'
  BY DEF ConnectFind, RegFresh, Goto, children, cleaning, shutting
<1>4. ShutInv'
  BY DEF ConnectFind, ShutInv, Goto, children, cleaning, shutting, Drained, GateHeld,
        StagesLeft, InsideConnect, InsideOpen
<1>5. SessionInv'
  BY DEF ConnectFind, SessionInv, Goto, children, cleaning, shutting
<1> QED BY <1>1, <1>2, <1>3, <1>4, <1>5

LEMMA ConnectEvictKeeps ==
  ASSUME ConnInv, NEW c \in Conns, ConnectEvict(c)
  PROVE ConnInv'
<1> USE ConnectionsAssumption, KindsAre DEF ConnInv, ConnTypes
<1>1. ConnTypes'
  BY DEF ConnectEvict, Goto, TakeOut, children, cleaning, shutting, Cleaning
<1>2. RegFresh'
  BY DEF ConnectEvict, RegFresh, Goto, TakeOut, children, cleaning, shutting
<1>3. KidsPlaced'
  BY DEF ConnectEvict, KidsPlaced, Goto, TakeOut, children, cleaning, shutting, Known
<1>4. ReaderOwns'
  BY DEF ConnectEvict, ReaderOwns, RegFresh, KidsPlaced, Goto, TakeOut, children, cleaning,
        shutting, Cleaning, Known
<1>5. SftpLate'
  BY DEF ConnectEvict, SftpLate, RegFresh, KidsPlaced, Goto, TakeOut, children, cleaning,
        shutting, Known
<1>6. Announced'
  BY DEF ConnectEvict, Announced, RegFresh, KidsPlaced, Goto, TakeOut, children, cleaning,
        shutting, Known
<1>7. ShutInv'
  BY DEF ConnectEvict, ShutInv, Goto, TakeOut, children, cleaning, shutting, Drained, GateHeld,
        StagesLeft, InsideConnect, InsideOpen
<1>8. SessionInv'
  BY DEF ConnectEvict, SessionInv, Goto, TakeOut, children, cleaning, shutting
<1>9. NoOrphanChild'
  BY DEF ConnectEvict, NoOrphanChild, RegFresh, KidsPlaced, Goto, TakeOut, children, cleaning,
        shutting, StagesLeft, Known
<1> QED BY <1>1, <1>2, <1>3, <1>4, <1>5, <1>6, <1>7, <1>8, <1>9

LEMMA ConnectEvictedKeeps ==
  ASSUME ConnInv, NEW c \in Conns, ConnectEvicted(c)
  PROVE ConnInv'
<1> USE ConnectionsAssumption, KindsAre DEF ConnInv, ConnTypes
<1>1. KidsPlaced' /\ ReaderOwns' /\ SftpLate' /\ Announced' /\ NoOrphanChild'
  BY DEF ConnectEvicted, KidsPlaced, ReaderOwns, SftpLate, Announced, NoOrphanChild, Goto,
        children, cleaning, shutting, Known, Cleaning, StagesLeft
<1>2. ConnTypes'
  BY DEF ConnectEvicted, Goto, children, cleaning, shutting, Cleaning
<1>3. RegFresh'
  BY DEF ConnectEvicted, RegFresh, Goto, children, cleaning, shutting
<1>4. ShutInv'
  BY DEF ConnectEvicted, ShutInv, Goto, children, cleaning, shutting, Drained, GateHeld,
        StagesLeft, InsideConnect, InsideOpen
<1>5. SessionInv'
  BY DEF ConnectEvicted, SessionInv, Goto, children, cleaning, shutting
<1> QED BY <1>1, <1>2, <1>3, <1>4, <1>5

LEMMA ConnectFailsKeeps ==
  ASSUME ConnInv, NEW c \in Conns, ConnectFails(c)
  PROVE ConnInv'
<1> USE ConnectionsAssumption, KindsAre DEF ConnInv, ConnTypes
<1>1. KidsPlaced' /\ ReaderOwns' /\ SftpLate' /\ Announced' /\ NoOrphanChild'
  BY DEF ConnectFails, KidsPlaced, ReaderOwns, SftpLate, Announced, NoOrphanChild, Goto,
        children, cleaning, shutting, Known, Cleaning, StagesLeft
<1>2. ConnTypes'
  BY DEF ConnectFails, Goto, children, cleaning, shutting, Cleaning
<1>3. RegFresh'
  BY DEF ConnectFails, RegFresh, Goto, children, cleaning, shutting
<1>4. ShutInv'
  BY DEF ConnectFails, ShutInv, Goto, children, cleaning, shutting, Drained, GateHeld,
        StagesLeft, InsideConnect, InsideOpen
<1>5. SessionInv'
  BY DEF ConnectFails, SessionInv, Goto, children, cleaning, shutting
<1> QED BY <1>1, <1>2, <1>3, <1>4, <1>5

LEMMA ConnectInsertsKeeps ==
  ASSUME ConnInv, NEW c \in Conns, ConnectInserts(c)
  PROVE ConnInv'
<1> USE ConnectionsAssumption, KindsAre DEF ConnInv, ConnTypes
<1>1. ReaderOwns' /\ Announced'
  BY DEF ConnectInserts, ReaderOwns, Announced, Goto, children, cleaning, shutting, Cleaning
<1>2. ConnTypes'
  BY DEF ConnectInserts, Goto, children, cleaning, shutting, Cleaning
<1>3. RegFresh'
  BY DEF ConnectInserts, RegFresh, Goto, children, cleaning, shutting
<1>4. KidsPlaced'
  BY DEF ConnectInserts, KidsPlaced, Goto, children, cleaning, shutting, Known
<1>5. SftpLate'
  BY DEF ConnectInserts, SftpLate, Goto, children, cleaning, shutting
<1>6. ShutInv'
  BY DEF ConnectInserts, ShutInv, Goto, children, cleaning, shutting, Drained, GateHeld,
        StagesLeft, InsideConnect, InsideOpen
<1>7. SessionInv'
  BY DEF ConnectInserts, SessionInv, Goto, children, cleaning, shutting
<1>8. NoOrphanChild'
  BY DEF ConnectInserts, NoOrphanChild, Goto, children, cleaning, shutting, StagesLeft
<1> QED BY <1>1, <1>2, <1>3, <1>4, <1>5, <1>6, <1>7, <1>8

LEMMA HandleDiesKeeps ==
  ASSUME ConnInv, NEW c \in Conns, HandleDies(c)
  PROVE ConnInv'
<1> USE ConnectionsAssumption, KindsAre DEF ConnInv, ConnTypes
<1>1. /\ RegFresh' /\ KidsPlaced' /\ ReaderOwns' /\ SftpLate'
      /\ Announced' /\ ShutInv' /\ SessionInv' /\ NoOrphanChild'
  BY DEF HandleDies, RegFresh, KidsPlaced, ReaderOwns, SftpLate, Announced, ShutInv, SessionInv,
        NoOrphanChild, children, cleaning, connecting, shutting, Known, Cleaning, Drained,
        GateHeld, StagesLeft, InsideConnect, InsideOpen
<1>2. ConnTypes'
  BY DEF HandleDies, children, cleaning, connecting, shutting, Cleaning
<1> QED BY <1>1, <1>2

LEMMA OpenBeginKeeps ==
  ASSUME ConnInv, NEW k \in Kids, NEW kd \in Kinds, NEW c \in Conns, OpenBegin(k, kd, c)
  PROVE ConnInv'
<1> USE ConnectionsAssumption, KindsAre DEF ConnInv, ConnTypes
<1>1. RegFresh' /\ Announced' /\ SessionInv'
  BY DEF OpenBegin, RegFresh, Announced, SessionInv, GateOpen, Known, LookedUp, cleaning,
        connecting, shutting, Of, Registered, Reusable, ChildrenOf
<1>2. ConnTypes'
  BY DEF OpenBegin, GateOpen, Known, LookedUp, cleaning, connecting, shutting, Cleaning, Of,
        Registered, Reusable, ChildrenOf
<1>3. KidsPlaced'
  BY DEF OpenBegin, KidsPlaced, GateOpen, Known, LookedUp, cleaning, connecting, shutting, Of,
        Registered, Reusable, ChildrenOf
<1>4. ReaderOwns'
  BY DEF OpenBegin, ReaderOwns, KidsPlaced, GateOpen, Known, LookedUp, cleaning, connecting,
        shutting, Cleaning, Of, Registered, Reusable, ChildrenOf
<1>5. SftpLate'
  BY DEF OpenBegin, SftpLate, GateOpen, Known, LookedUp, cleaning, connecting, shutting, Of,
        Registered, Reusable, ChildrenOf
<1>6. ShutInv'
  BY DEF OpenBegin, ShutInv, GateOpen, Known, LookedUp, cleaning, connecting, shutting, Drained,
        GateHeld, Of, Registered, Reusable, StagesLeft, InsideConnect, InsideOpen, ChildrenOf
<1>7. NoOrphanChild'
  <2>1. ASSUME NEW j \in Kids, kid'[j] = "registered" PROVE j # k /\ kid[j] = "registered"
    BY <2>1 DEF OpenBegin, LookedUp
  <2>2. UNCHANGED <<reg, stage>> /\ \A j \in Kids : j # k => parent'[j] = parent[j] /\ kind'[j] = kind[j]
    BY DEF OpenBegin, cleaning
  <2> QED
    BY <2>1, <2>2 DEF NoOrphanChild, StagesLeft
<1> QED BY <1>1, <1>2, <1>3, <1>4, <1>5, <1>6, <1>7

LEMMA OpenSftpKeeps ==
  ASSUME ConnInv, NEW k \in Kids, OpenSftp(k)
  PROVE ConnInv'
<1> USE ConnectionsAssumption, KindsAre DEF ConnInv, ConnTypes
<1>1. RegFresh' /\ ReaderOwns' /\ Announced' /\ SessionInv'
  BY DEF OpenSftp, RegFresh, ReaderOwns, Announced, SessionInv, LookedUp, SftpOpening, cleaning,
        connecting, shutting, Cleaning, Of, Registered, Reusable, ChildrenOf
<1>2. ConnTypes'
  BY DEF OpenSftp, LookedUp, SftpOpening, cleaning, connecting, shutting, Cleaning, Of,
        Registered, Reusable, ChildrenOf
<1>3. KidsPlaced'
  BY DEF OpenSftp, KidsPlaced, LookedUp, SftpOpening, cleaning, connecting, shutting, Known, Of,
        Registered, Reusable, ChildrenOf
<1>4. SftpLate'
  BY DEF OpenSftp, SftpLate, LookedUp, SftpOpening, cleaning, connecting, shutting, Of,
        Registered, Reusable, ChildrenOf
<1>5. ShutInv'
  BY DEF OpenSftp, ShutInv, LookedUp, SftpOpening, cleaning, connecting, shutting, Drained,
        GateHeld, Of, Registered, Reusable, ChildrenOf, StagesLeft, InsideConnect, InsideOpen
<1>6. NoOrphanChild'
  BY DEF OpenSftp, NoOrphanChild, LookedUp, SftpOpening, cleaning, connecting, shutting,
        StagesLeft, Of, Registered, Reusable, ChildrenOf
<1> QED BY <1>1, <1>2, <1>3, <1>4, <1>5, <1>6

LEMMA PublishKeeps ==
  ASSUME ConnInv, NEW k \in Kids, Publish(k)
  PROVE ConnInv'
<1> USE ConnectionsAssumption, KindsAre DEF ConnInv, ConnTypes
<1>1. RegFresh' /\ Announced' /\ SessionInv'
  BY DEF Publish, RegFresh, Announced, SessionInv, Kid, cleaning, connecting, shutting
<1>2. ConnTypes'
  BY DEF Publish, Kid, cleaning, connecting, shutting, Cleaning
<1>3. KidsPlaced'
  BY DEF Publish, KidsPlaced, Kid, cleaning, connecting, shutting, Known
<1>4. ReaderOwns'
  BY DEF Publish, ReaderOwns, Kid, cleaning, connecting, shutting, Cleaning
<1>5. SftpLate'
  BY DEF Publish, SftpLate, Kid, cleaning, connecting, shutting
<1>6. ShutInv'
  BY DEF Publish, ShutInv, Kid, cleaning, connecting, shutting, Drained, GateHeld, StagesLeft,
        InsideConnect, InsideOpen
<1>7. NoOrphanChild'
  BY DEF Publish, NoOrphanChild, SftpLate, KidsPlaced, Kid, cleaning, connecting, shutting,
        StagesLeft, Known
<1> QED BY <1>1, <1>2, <1>3, <1>4, <1>5, <1>6, <1>7

LEMMA ReaderEndsKeeps ==
  ASSUME ConnInv, NEW k \in Kids, ReaderEnds(k)
  PROVE ConnInv'
<1> USE ConnectionsAssumption, KindsAre DEF ConnInv, ConnTypes
<1>1. RegFresh' /\ Announced' /\ SessionInv'
  BY DEF ReaderEnds, RegFresh, Announced, SessionInv, Kid, cleaning, connecting, shutting
<1>2. ConnTypes'
  BY DEF ReaderEnds, Kid, cleaning, connecting, shutting, Cleaning
<1>3. KidsPlaced'
  BY DEF ReaderEnds, KidsPlaced, Kid, cleaning, connecting, shutting, Known
<1>4. ReaderOwns'
  BY DEF ReaderEnds, ReaderOwns, Kid, cleaning, connecting, shutting, Cleaning
<1>5. SftpLate'
  BY DEF ReaderEnds, SftpLate, Kid, cleaning, connecting, shutting
<1>6. ShutInv'
  BY DEF ReaderEnds, ShutInv, Kid, cleaning, connecting, shutting, Drained, GateHeld,
        StagesLeft, InsideConnect, InsideOpen
<1>7. NoOrphanChild'
  BY DEF ReaderEnds, NoOrphanChild, Kid, cleaning, connecting, shutting, StagesLeft
<1> QED BY <1>1, <1>2, <1>3, <1>4, <1>5, <1>6, <1>7

LEMMA ReaderChecksKeeps ==
  ASSUME ConnInv, NEW k \in Kids, ReaderChecks(k)
  PROVE ConnInv'
<1> USE ConnectionsAssumption, KindsAre DEF ConnInv, ConnTypes
<1>1. ConnTypes'
  BY DEF ReaderChecks, TakeOut, cleaning, connecting, shutting, Cleaning
<1>2. RegFresh'
  BY DEF ReaderChecks, RegFresh, TakeOut, cleaning, connecting, shutting
<1>3. KidsPlaced'
  BY DEF ReaderChecks, KidsPlaced, TakeOut, cleaning, connecting, shutting, Known
<1>4. ReaderOwns'
  BY DEF ReaderChecks, ReaderOwns, RegFresh, KidsPlaced, TakeOut, cleaning, connecting,
        shutting, Cleaning, Known
<1>5. SftpLate'
  BY DEF ReaderChecks, SftpLate, RegFresh, KidsPlaced, TakeOut, cleaning, connecting, shutting,
        Known
<1>6. Announced'
  BY DEF ReaderChecks, Announced, RegFresh, KidsPlaced, TakeOut, cleaning, connecting, shutting,
        Known
<1>7. ShutInv'
  BY DEF ReaderChecks, ShutInv, TakeOut, cleaning, connecting, shutting, Drained, GateHeld,
        StagesLeft, InsideConnect, InsideOpen
<1>8. SessionInv'
  BY DEF ReaderChecks, SessionInv, TakeOut, cleaning, connecting, shutting
<1>9. NoOrphanChild'
  BY DEF ReaderChecks, NoOrphanChild, RegFresh, KidsPlaced, TakeOut, cleaning, connecting,
        shutting, StagesLeft, Known
<1> QED BY <1>1, <1>2, <1>3, <1>4, <1>5, <1>6, <1>7, <1>8, <1>9

LEMMA TerminalCloseKeeps ==
  ASSUME ConnInv, NEW k \in Kids, TerminalClose(k)
  PROVE ConnInv'
<1> USE ConnectionsAssumption, KindsAre DEF ConnInv, ConnTypes
<1>1. RegFresh' /\ ReaderOwns' /\ Announced' /\ SessionInv'
  BY DEF TerminalClose, RegFresh, ReaderOwns, Announced, SessionInv, Kid, cleaning, connecting,
        shutting, Cleaning
<1>2. ConnTypes'
  BY DEF TerminalClose, Kid, cleaning, connecting, shutting, Cleaning
<1>3. KidsPlaced'
  BY DEF TerminalClose, KidsPlaced, Kid, cleaning, connecting, shutting, Known
<1>4. SftpLate'
  BY DEF TerminalClose, SftpLate, Kid, cleaning, connecting, shutting
<1>5. ShutInv'
  BY DEF TerminalClose, ShutInv, Kid, cleaning, connecting, shutting, Drained, GateHeld,
        StagesLeft, InsideConnect, InsideOpen
<1>6. NoOrphanChild'
  BY DEF TerminalClose, NoOrphanChild, Kid, cleaning, connecting, shutting, StagesLeft
<1> QED BY <1>1, <1>2, <1>3, <1>4, <1>5, <1>6

LEMMA TerminalAbortKeeps ==
  ASSUME ConnInv, NEW k \in Kids, TerminalAbort(k)
  PROVE ConnInv'
<1> USE ConnectionsAssumption, KindsAre DEF ConnInv, ConnTypes
<1>1. SessionInv'
  BY DEF TerminalAbort, SessionInv, Kid, connecting, shutting
<1>2. ConnTypes'
  BY DEF TerminalAbort, Kid, connecting, shutting, Cleaning
<1>3. RegFresh'
  BY DEF TerminalAbort, RegFresh, ReaderOwns, KidsPlaced, Kid, connecting, shutting, Cleaning,
        Known
<1>4. KidsPlaced'
  BY DEF TerminalAbort, KidsPlaced, Kid, connecting, shutting, Known
<1>5. ReaderOwns'
  BY DEF TerminalAbort, ReaderOwns, Kid, connecting, shutting, Cleaning
<1>6. SftpLate'
  BY DEF TerminalAbort, SftpLate, Kid, connecting, shutting
<1>7. Announced'
  BY DEF TerminalAbort, Announced, ReaderOwns, KidsPlaced, Kid, connecting, shutting, Cleaning,
        Known
<1>8. ShutInv'
  BY DEF TerminalAbort, ShutInv, Kid, connecting, shutting, Drained, GateHeld, StagesLeft,
        InsideConnect, InsideOpen
<1>9. NoOrphanChild'
  BY DEF TerminalAbort, NoOrphanChild, ReaderOwns, KidsPlaced, RegFresh, Kid, connecting,
        shutting, StagesLeft, Cleaning, Known
<1> QED BY <1>1, <1>2, <1>3, <1>4, <1>5, <1>6, <1>7, <1>8, <1>9

LEMMA ChildEndsKeeps ==
  ASSUME ConnInv, NEW k \in Kids, ChildEnds(k)
  PROVE ConnInv'
<1> USE ConnectionsAssumption, KindsAre DEF ConnInv, ConnTypes
<1>1. RegFresh' /\ ReaderOwns' /\ Announced' /\ SessionInv'
  BY DEF ChildEnds, RegFresh, ReaderOwns, Announced, SessionInv, Kid, cleaning, connecting,
        shutting, Cleaning
<1>2. ConnTypes'
  BY DEF ChildEnds, Kid, cleaning, connecting, shutting, Cleaning
<1>3. KidsPlaced'
  BY DEF ChildEnds, KidsPlaced, Kid, cleaning, connecting, shutting, Known
<1>4. SftpLate'
  BY DEF ChildEnds, SftpLate, Kid, cleaning, connecting, shutting
<1>5. ShutInv'
  BY DEF ChildEnds, ShutInv, Kid, cleaning, connecting, shutting, Drained, GateHeld, StagesLeft,
        InsideConnect, InsideOpen
<1>6. NoOrphanChild'
  BY DEF ChildEnds, NoOrphanChild, Kid, cleaning, connecting, shutting, StagesLeft
<1> QED BY <1>1, <1>2, <1>3, <1>4, <1>5, <1>6

LEMMA ForwardStopKeeps ==
  ASSUME ConnInv, NEW k \in Kids, ForwardStop(k)
  PROVE ConnInv'
<1> USE ConnectionsAssumption, KindsAre DEF ConnInv, ConnTypes
<1>1. RegFresh' /\ ReaderOwns' /\ Announced' /\ SessionInv'
  BY DEF ForwardStop, RegFresh, ReaderOwns, Announced, SessionInv, Kid, cleaning, connecting,
        shutting, Cleaning
<1>2. ConnTypes'
  BY DEF ForwardStop, Kid, cleaning, connecting, shutting, Cleaning
<1>3. KidsPlaced'
  BY DEF ForwardStop, KidsPlaced, Kid, cleaning, connecting, shutting, Known
<1>4. SftpLate'
  BY DEF ForwardStop, SftpLate, Kid, cleaning, connecting, shutting
<1>5. ShutInv'
  BY DEF ForwardStop, ShutInv, Kid, cleaning, connecting, shutting, Drained, GateHeld,
        StagesLeft, InsideConnect, InsideOpen
<1>6. NoOrphanChild'
  BY DEF ForwardStop, NoOrphanChild, Kid, cleaning, connecting, shutting, StagesLeft
<1> QED BY <1>1, <1>2, <1>3, <1>4, <1>5, <1>6

LEMMA ForwardStopEndsKeeps ==
  ASSUME ConnInv, NEW k \in Kids, ForwardStopEnds(k)
  PROVE ConnInv'
<1> USE ConnectionsAssumption, KindsAre DEF ConnInv, ConnTypes
<1>1. RegFresh' /\ ReaderOwns' /\ Announced' /\ SessionInv'
  BY DEF ForwardStopEnds, RegFresh, ReaderOwns, Announced, SessionInv, Kid, cleaning,
        connecting, shutting, Cleaning
<1>2. ConnTypes'
  BY DEF ForwardStopEnds, Kid, cleaning, connecting, shutting, Cleaning
<1>3. KidsPlaced'
  BY DEF ForwardStopEnds, KidsPlaced, Kid, cleaning, connecting, shutting, Known
<1>4. SftpLate'
  BY DEF ForwardStopEnds, SftpLate, Kid, cleaning, connecting, shutting
<1>5. ShutInv'
  BY DEF ForwardStopEnds, ShutInv, Kid, cleaning, connecting, shutting, Drained, GateHeld,
        StagesLeft, InsideConnect, InsideOpen
<1>6. NoOrphanChild'
  <2>1. \A j \in Kids : kid'[j] = "registered" => kid[j] = "registered"
    BY DEF ForwardStopEnds, Kid
  <2>2. UNCHANGED <<reg, stage, parent, kind>>
    BY DEF ForwardStopEnds, cleaning
  <2> QED
    BY <2>1, <2>2 DEF NoOrphanChild, StagesLeft
<1> QED BY <1>1, <1>2, <1>3, <1>4, <1>5, <1>6

LEMMA CleanTerminalKeeps ==
  ASSUME ConnInv, NEW c \in Conns, NEW k \in Kids, CleanTerminal(c, k)
  PROVE ConnInv'
<1> USE ConnectionsAssumption, KindsAre DEF ConnInv, ConnTypes
<1>1. RegFresh' /\ Announced' /\ SessionInv'
  BY DEF CleanTerminal, RegFresh, Announced, SessionInv, ChildrenOf, Kid, cleaning, connecting,
        shutting, Of
<1>2. ConnTypes'
  BY DEF CleanTerminal, ChildrenOf, Kid, cleaning, connecting, shutting, Cleaning, Of
<1>3. KidsPlaced'
  BY DEF CleanTerminal, KidsPlaced, ChildrenOf, Kid, cleaning, connecting, shutting, Known, Of
<1>4. ReaderOwns'
  BY DEF CleanTerminal, ReaderOwns, ChildrenOf, Kid, cleaning, connecting, shutting, Cleaning,
        Of
<1>5. SftpLate'
  BY DEF CleanTerminal, SftpLate, ChildrenOf, Kid, cleaning, connecting, shutting, Of
<1>6. ShutInv'
  BY DEF CleanTerminal, ShutInv, ChildrenOf, Kid, cleaning, connecting, shutting, Drained,
        GateHeld, Of, StagesLeft, InsideConnect, InsideOpen
<1>7. NoOrphanChild'
  BY DEF CleanTerminal, NoOrphanChild, ChildrenOf, Kid, cleaning, connecting, shutting,
        StagesLeft, Of
<1> QED BY <1>1, <1>2, <1>3, <1>4, <1>5, <1>6, <1>7

LEMMA CleanKindKeeps ==
  ASSUME ConnInv, NEW c \in Conns, NEW kd \in Kinds, CleanKind(c, kd)
  PROVE ConnInv'
<1> USE ConnectionsAssumption, KindsAre DEF ConnInv, ConnTypes
<1>1. SessionInv'
  BY DEF CleanKind, SessionInv, ChildrenOf, NextStage, Registered, SftpOpening, connecting,
        shutting, Of
<1>2. ConnTypes'
  BY DEF CleanKind, ChildrenOf, NextStage, Registered, SftpOpening, connecting, shutting,
        Cleaning, Of
<1>3. RegFresh'
  BY DEF CleanKind, RegFresh, ChildrenOf, NextStage, Registered, SftpOpening, connecting,
        shutting, Of
<1>4. KidsPlaced'
  BY DEF CleanKind, KidsPlaced, ChildrenOf, NextStage, Registered, SftpOpening, connecting,
        shutting, Known, Of
<1>5. ReaderOwns'
  BY DEF CleanKind, ReaderOwns, RegFresh, ChildrenOf, NextStage, Registered, SftpOpening,
        connecting, shutting, Cleaning, Of
<1>6. SftpLate'
  BY DEF CleanKind, SftpLate, RegFresh, KidsPlaced, ChildrenOf, NextStage, Registered,
        SftpOpening, connecting, shutting, Known, Of
<1>7. Announced'
  BY DEF CleanKind, Announced, RegFresh, ChildrenOf, NextStage, Registered, SftpOpening,
        connecting, shutting, Of
<1>8. ShutInv'
  BY DEF CleanKind, ShutInv, ChildrenOf, NextStage, Registered, SftpOpening, connecting,
        shutting, Drained, GateHeld, Of, StagesLeft, InsideConnect, InsideOpen
<1>9. NoOrphanChild'
  BY DEF CleanKind, NoOrphanChild, KidsPlaced, RegFresh, ChildrenOf, NextStage, Registered,
        SftpOpening, connecting, shutting, StagesLeft, Known, Of
<1> QED BY <1>1, <1>2, <1>3, <1>4, <1>5, <1>6, <1>7, <1>8, <1>9

LEMMA AnnounceKeeps ==
  ASSUME ConnInv, NEW c \in Conns, Announce(c)
  PROVE ConnInv'
<1> USE ConnectionsAssumption, KindsAre DEF ConnInv, ConnTypes
<1>1. ShutInv' /\ SessionInv'
  BY DEF Announce, ShutInv, SessionInv, connecting, shutting, Drained, GateHeld, StagesLeft,
        InsideConnect, InsideOpen
<1>2. ConnTypes'
  BY DEF Announce, connecting, shutting, Cleaning
<1>3. RegFresh'
  BY DEF Announce, RegFresh, connecting, shutting
<1>4. KidsPlaced'
  BY DEF Announce, KidsPlaced, RegFresh, connecting, shutting, Known
<1>5. ReaderOwns'
  BY DEF Announce, ReaderOwns, connecting, shutting, Cleaning
<1>6. SftpLate'
  BY DEF Announce, SftpLate, connecting, shutting
<1>7. Announced'
  BY DEF Announce, Announced, connecting, shutting
<1>8. NoOrphanChild'
  BY DEF Announce, NoOrphanChild, KidsPlaced, RegFresh, connecting, shutting, StagesLeft, Known
<1> QED BY <1>1, <1>2, <1>3, <1>4, <1>5, <1>6, <1>7, <1>8

LEMMA DisconnectKeeps ==
  ASSUME ConnInv, NEW c \in Conns, Disconnect(c)
  PROVE ConnInv'
<1> USE ConnectionsAssumption, KindsAre DEF ConnInv, ConnTypes
<1>1. ConnTypes'
  BY DEF Disconnect, TakeOut, children, connecting, shutting, Cleaning
<1>2. RegFresh'
  BY DEF Disconnect, RegFresh, TakeOut, children, connecting, shutting
<1>3. KidsPlaced'
  BY DEF Disconnect, KidsPlaced, TakeOut, children, connecting, shutting, Known
<1>4. ReaderOwns'
  BY DEF Disconnect, ReaderOwns, RegFresh, KidsPlaced, TakeOut, children, connecting, shutting,
        Cleaning, Known
<1>5. SftpLate'
  BY DEF Disconnect, SftpLate, RegFresh, KidsPlaced, TakeOut, children, connecting, shutting,
        Known
<1>6. Announced'
  BY DEF Disconnect, Announced, RegFresh, KidsPlaced, TakeOut, children, connecting, shutting,
        Known
<1>7. ShutInv'
  BY DEF Disconnect, ShutInv, TakeOut, children, connecting, shutting, Drained, GateHeld,
        StagesLeft, InsideConnect, InsideOpen
<1>8. SessionInv'
  BY DEF Disconnect, SessionInv, TakeOut, children, connecting, shutting
<1>9. NoOrphanChild'
  BY DEF Disconnect, NoOrphanChild, RegFresh, KidsPlaced, TakeOut, children, connecting,
        shutting, StagesLeft, Known
<1> QED BY <1>1, <1>2, <1>3, <1>4, <1>5, <1>6, <1>7, <1>8, <1>9

LEMMA ReapScanKeeps ==
  ASSUME ConnInv, ReapScan
  PROVE ConnInv'
<1> USE ConnectionsAssumption, KindsAre DEF ConnInv, ConnTypes
<1>1. /\ RegFresh' /\ KidsPlaced' /\ ReaderOwns' /\ SftpLate'
      /\ Announced' /\ ShutInv' /\ SessionInv' /\ NoOrphanChild'
  BY DEF ReapScan, RegFresh, KidsPlaced, ReaderOwns, SftpLate, Announced, ShutInv, SessionInv,
        NoOrphanChild, Busy, children, cleaning, connecting, shutting, Known, Cleaning, Drained,
        GateHeld, StagesLeft, InsideConnect, InsideOpen
<1>2. ConnTypes'
  BY DEF ReapScan, Busy, children, cleaning, connecting, shutting, Cleaning
<1> QED BY <1>1, <1>2

LEMMA ReapTakeKeeps ==
  ASSUME ConnInv, NEW c \in victims, ReapTake(c)
  PROVE ConnInv'
<1> USE ConnectionsAssumption, KindsAre DEF ConnInv, ConnTypes
<1>1. ConnTypes'
  BY DEF ReapTake, Busy, TakeOut, children, cleaning, connecting, shutting, Cleaning
<1>2. RegFresh'
  BY DEF ReapTake, RegFresh, Busy, TakeOut, children, cleaning, connecting, shutting
<1>3. KidsPlaced'
  BY DEF ReapTake, KidsPlaced, Busy, TakeOut, children, cleaning, connecting, shutting, Known
<1>4. ReaderOwns'
  BY DEF ReapTake, ReaderOwns, RegFresh, KidsPlaced, Busy, TakeOut, children, cleaning,
        connecting, shutting, Cleaning, Known
<1>5. SftpLate'
  BY DEF ReapTake, SftpLate, RegFresh, KidsPlaced, Busy, TakeOut, children, cleaning,
        connecting, shutting, Known
<1>6. Announced'
  BY DEF ReapTake, Announced, RegFresh, KidsPlaced, Busy, TakeOut, children, cleaning,
        connecting, shutting, Known
<1>7. ShutInv'
  BY DEF ReapTake, ShutInv, Busy, TakeOut, children, cleaning, connecting, shutting, Drained,
        GateHeld, StagesLeft, InsideConnect, InsideOpen
<1>8. SessionInv'
  BY DEF ReapTake, SessionInv, Busy, TakeOut, children, cleaning, connecting, shutting
<1>9. NoOrphanChild'
  BY DEF ReapTake, NoOrphanChild, RegFresh, KidsPlaced, Busy, TakeOut, children, cleaning,
        connecting, shutting, StagesLeft, Known
<1> QED BY <1>1, <1>2, <1>3, <1>4, <1>5, <1>6, <1>7, <1>8, <1>9

LEMMA ShutdownRequestKeeps ==
  ASSUME ConnInv, ShutdownRequest
  PROVE ConnInv'
<1> USE ConnectionsAssumption, KindsAre DEF ConnInv, ConnTypes
<1>1. /\ RegFresh' /\ KidsPlaced' /\ ReaderOwns' /\ SftpLate'
      /\ Announced' /\ SessionInv' /\ NoOrphanChild'
  BY DEF ShutdownRequest, RegFresh, KidsPlaced, ReaderOwns, SftpLate, Announced, SessionInv,
        NoOrphanChild, children, cleaning, connecting, Known, Cleaning, StagesLeft
<1>2. ConnTypes'
  BY DEF ShutdownRequest, children, cleaning, connecting, Cleaning
<1>3. ShutInv'
  BY DEF ShutdownRequest, ShutInv, children, cleaning, connecting, Drained, GateHeld,
        StagesLeft, InsideConnect, InsideOpen
<1> QED BY <1>1, <1>2, <1>3

LEMMA ShutdownEnterKeeps ==
  ASSUME ConnInv, ShutdownEnter
  PROVE ConnInv'
<1> USE ConnectionsAssumption, KindsAre DEF ConnInv, ConnTypes
<1>1. /\ RegFresh' /\ KidsPlaced' /\ ReaderOwns' /\ SftpLate'
      /\ Announced' /\ SessionInv' /\ NoOrphanChild'
  BY DEF ShutdownEnter, RegFresh, KidsPlaced, ReaderOwns, SftpLate, Announced, SessionInv,
        NoOrphanChild, GateHeld, children, cleaning, connecting, Known, Cleaning, StagesLeft,
        InsideConnect, InsideOpen
<1>2. ConnTypes'
  BY DEF ShutdownEnter, GateHeld, children, cleaning, connecting, Cleaning, InsideConnect,
        InsideOpen
<1>3. ShutInv'
  BY DEF ShutdownEnter, ShutInv, GateHeld, children, cleaning, connecting, Drained,
        InsideConnect, InsideOpen, StagesLeft
<1> QED BY <1>1, <1>2, <1>3

LEMMA ShutdownTakeKeeps ==
  ASSUME ConnInv, NEW c \in list, ShutdownTake(c)
  PROVE ConnInv'
<1> USE ConnectionsAssumption, KindsAre DEF ConnInv, ConnTypes
<1>1. ConnTypes'
  BY DEF ShutdownTake, Busy, TakeOut, children, cleaning, connecting, Cleaning
<1>2. RegFresh'
  BY DEF ShutdownTake, RegFresh, Busy, TakeOut, children, cleaning, connecting
<1>3. KidsPlaced'
  BY DEF ShutdownTake, KidsPlaced, Busy, TakeOut, children, cleaning, connecting, Known
<1>4. ReaderOwns'
  BY DEF ShutdownTake, ReaderOwns, RegFresh, KidsPlaced, Busy, TakeOut, children, cleaning,
        connecting, Cleaning, Known
<1>5. SftpLate'
  BY DEF ShutdownTake, SftpLate, RegFresh, KidsPlaced, Busy, TakeOut, children, cleaning,
        connecting, Known
<1>6. Announced'
  BY DEF ShutdownTake, Announced, RegFresh, KidsPlaced, Busy, TakeOut, children, cleaning,
        connecting, Known
<1>7. ShutInv'
  BY DEF ShutdownTake, ShutInv, Busy, TakeOut, children, cleaning, connecting, Drained,
        GateHeld, StagesLeft, InsideConnect, InsideOpen
<1>8. SessionInv'
  BY DEF ShutdownTake, SessionInv, Busy, TakeOut, children, cleaning, connecting
<1>9. NoOrphanChild'
  BY DEF ShutdownTake, NoOrphanChild, RegFresh, KidsPlaced, Busy, TakeOut, children, cleaning,
        connecting, StagesLeft, Known
<1> QED BY <1>1, <1>2, <1>3, <1>4, <1>5, <1>6, <1>7, <1>8, <1>9

LEMMA ShutdownConnsDoneKeeps ==
  ASSUME ConnInv, ShutdownConnsDone
  PROVE ConnInv'
<1> USE ConnectionsAssumption, KindsAre DEF ConnInv, ConnTypes
<1>1. /\ RegFresh' /\ KidsPlaced' /\ ReaderOwns' /\ SftpLate'
      /\ Announced' /\ SessionInv' /\ NoOrphanChild'
  BY DEF ShutdownConnsDone, RegFresh, KidsPlaced, ReaderOwns, SftpLate, Announced, SessionInv,
        NoOrphanChild, Busy, children, cleaning, connecting, Known, Cleaning, StagesLeft
<1>2. ConnTypes'
  BY DEF ShutdownConnsDone, Busy, children, cleaning, connecting, Cleaning
<1>3. ShutInv'
  BY DEF ShutdownConnsDone, ShutInv, Busy, children, cleaning, connecting, Drained, GateHeld,
        StagesLeft, InsideConnect, InsideOpen
<1> QED BY <1>1, <1>2, <1>3

LEMMA ShutdownDrainKeeps ==
  ASSUME ConnInv, ShutdownDrain
  PROVE ConnInv'
<1> USE ConnectionsAssumption, KindsAre DEF ConnInv, ConnTypes
<1>1. RegFresh' /\ Announced' /\ SessionInv'
  BY DEF ShutdownDrain, RegFresh, Announced, SessionInv, NextStage, Of, Registered, cleaning,
        connecting
<1>2. ConnTypes'
  BY DEF ShutdownDrain, NextStage, Of, Registered, cleaning, connecting, Cleaning
<1>3. KidsPlaced'
  BY DEF ShutdownDrain, KidsPlaced, NextStage, Of, Registered, cleaning, connecting, Known
<1>4. ReaderOwns'
  BY DEF ShutdownDrain, ReaderOwns, NextStage, Of, Registered, cleaning, connecting, Cleaning
<1>5. SftpLate'
  BY DEF ShutdownDrain, SftpLate, NextStage, Of, Registered, cleaning, connecting
<1>6. ShutInv'
  BY DEF ShutdownDrain, ShutInv, NextStage, Of, Registered, cleaning, connecting, Drained,
        GateHeld, StagesLeft, InsideConnect, InsideOpen
<1>7. NoOrphanChild'
  BY DEF ShutdownDrain, NoOrphanChild, NextStage, Of, Registered, cleaning, connecting,
        StagesLeft
<1> QED BY <1>1, <1>2, <1>3, <1>4, <1>5, <1>6, <1>7

LEMMA ShutdownDrainConnsKeeps ==
  ASSUME ConnInv, ShutdownDrainConns
  PROVE ConnInv'
<1> USE ConnectionsAssumption, KindsAre DEF ConnInv, ConnTypes
<1>1. ConnTypes'
  BY DEF ShutdownDrainConns, children, connecting, Cleaning
<1>2. RegFresh'
  BY DEF ShutdownDrainConns, RegFresh, children, connecting
<1>3. KidsPlaced'
  BY DEF ShutdownDrainConns, KidsPlaced, children, connecting, Known
<1>4. ReaderOwns'
  BY DEF ShutdownDrainConns, ReaderOwns, RegFresh, KidsPlaced, ShutInv, children, connecting,
        Cleaning, Known, Drained, GateHeld, StagesLeft, InsideConnect, InsideOpen
<1>5. SftpLate'
  BY DEF ShutdownDrainConns, SftpLate, RegFresh, KidsPlaced, ShutInv, children, connecting,
        Known, Drained, GateHeld, StagesLeft, InsideConnect, InsideOpen
<1>6. Announced'
  BY DEF ShutdownDrainConns, Announced, RegFresh, KidsPlaced, ShutInv, children, connecting,
        Known, Drained, GateHeld, StagesLeft, InsideConnect, InsideOpen
<1>7. ShutInv'
  BY DEF ShutdownDrainConns, ShutInv, children, connecting, Drained, GateHeld, StagesLeft,
        InsideConnect, InsideOpen
<1>8. SessionInv'
  BY DEF ShutdownDrainConns, SessionInv, children, connecting
<1>9. NoOrphanChild'
  BY DEF ShutdownDrainConns, NoOrphanChild, RegFresh, KidsPlaced, ShutInv, children, connecting,
        StagesLeft, Known, Drained, GateHeld, InsideConnect, InsideOpen
<1> QED BY <1>1, <1>2, <1>3, <1>4, <1>5, <1>6, <1>7, <1>8, <1>9

LEMMA ShutdownEndsKeeps ==
  ASSUME ConnInv, ShutdownEnds
  PROVE ConnInv'
<1> USE ConnectionsAssumption, KindsAre DEF ConnInv, ConnTypes
<1>1. /\ RegFresh' /\ KidsPlaced' /\ ReaderOwns' /\ SftpLate'
      /\ Announced' /\ SessionInv' /\ NoOrphanChild'
  BY DEF ShutdownEnds, RegFresh, KidsPlaced, ReaderOwns, SftpLate, Announced, SessionInv,
        NoOrphanChild, children, cleaning, connecting, Known, Cleaning, StagesLeft
<1>2. ConnTypes'
  BY DEF ShutdownEnds, children, cleaning, connecting, Cleaning
<1>3. ShutInv'
  BY DEF ShutdownEnds, ShutInv, children, cleaning, connecting, Drained, GateHeld, StagesLeft,
        InsideConnect, InsideOpen
<1> QED BY <1>1, <1>2, <1>3

-----------------------------------------------------------------------------
(* ConnInv is inductive: it holds at the start, and every step of every    *)
(* actor keeps it.                                                         *)
LEMMA ConnectionsInit == Init => ConnInv
<1> SUFFICES ASSUME Init PROVE ConnInv
  OBVIOUS
<1> USE ConnectionsAssumption, KindsAre DEF Init
<1>1. ConnTypes
  BY DEF ConnTypes, Cleaning
<1>2. RegFresh /\ KidsPlaced /\ ReaderOwns /\ SftpLate /\ Announced
  BY DEF RegFresh, KidsPlaced, ReaderOwns, SftpLate, Announced
<1>3. ShutInv /\ SessionInv /\ NoOrphanChild
  BY DEF ShutInv, Drained, SessionInv, NoOrphanChild
<1> QED BY <1>1, <1>2, <1>3 DEF ConnInv

LEMMA ConnectionsStep == ConnInv /\ [Next]_vars => ConnInv'
<1> SUFFICES ASSUME ConnInv, [Next]_vars PROVE ConnInv'
  OBVIOUS
<1>1. ASSUME NEW c \in Conns, ConnectStep(c) PROVE ConnInv'
  BY <1>1, ConnectBeginKeeps, ConnectFindKeeps, ConnectEvictKeeps, ConnectEvictedKeeps,
     ConnectFailsKeeps, ConnectInsertsKeeps DEF ConnectStep
<1>2. ASSUME NEW c \in Conns, CleanStep(c) PROVE ConnInv'
  BY <1>2, CleanTerminalKeeps, CleanKindKeeps, AnnounceKeeps DEF CleanStep
<1>3. ASSUME NEW c \in Conns, HandleDies(c) \/ Disconnect(c) PROVE ConnInv'
  BY <1>3, HandleDiesKeeps, DisconnectKeeps
<1>4. ASSUME NEW k \in Kids, ChildStep(k) PROVE ConnInv'
  BY <1>4, OpenBeginKeeps, OpenSftpKeeps, PublishKeeps, ReaderEndsKeeps, ReaderChecksKeeps,
     TerminalCloseKeeps, TerminalAbortKeeps, ChildEndsKeeps, ForwardStopKeeps,
     ForwardStopEndsKeeps DEF ChildStep
<1>5. CASE ReapScan \/ (\E c \in victims : ReapTake(c))
  BY <1>5, ReapScanKeeps, ReapTakeKeeps
<1>6. CASE ShutdownRequest \/ ShutdownStep
  BY <1>6, ShutdownRequestKeeps, ShutdownEnterKeeps, ShutdownTakeKeeps, ShutdownConnsDoneKeeps,
     ShutdownDrainKeeps, ShutdownDrainConnsKeeps, ShutdownEndsKeeps DEF ShutdownStep
<1>7. CASE UNCHANGED vars
  <2> USE <1>7 DEF ConnInv, vars, connecting, cleaning, children, shutting
  <2>1. ConnTypes' /\ RegFresh' /\ KidsPlaced'
    BY DEF ConnTypes, RegFresh, KidsPlaced, Known
  <2>2. ReaderOwns' /\ SftpLate' /\ Announced' /\ NoOrphanChild'
    BY DEF ReaderOwns, SftpLate, Announced, NoOrphanChild
  <2>3. ShutInv' /\ SessionInv'
    BY DEF ShutInv, SessionInv, Drained, GateHeld
  <2> QED BY <2>1, <2>2, <2>3
<1> QED BY <1>1, <1>2, <1>3, <1>4, <1>5, <1>6, <1>7 DEF Next

(* ConnInv holds in every state, for any number of connects and children.  *)
THEOREM ConnectionsInvariant == Spec => []ConnInv
BY ConnectionsInit, ConnectionsStep, PTL DEF Spec

(* No child is published behind the back of a clean-up of its connection   *)
(* (remote.rs, close_children_for_connection against open_terminal,        *)
(* open_sftp, telemetry_start and forward_start).                          *)
THEOREM NoOrphanChildTheorem == Spec => []NoOrphanChild
<1>1. ConnInv => NoOrphanChild
  BY DEF ConnInv
<1> QED BY <1>1, ConnectionsInvariant, PTL

(* Disconnected is emitted once for a connection, whichever of its takers  *)
(* won, and no child of it is registered from then on.                     *)
THEOREM DisconnectedLastTheorem == Spec => []DisconnectedLast
<1>1. ASSUME ConnInv PROVE DisconnectedLast
  <2>1. ASSUME NEW c \in Conns, NEW k \in Kids,
               stage[c] = "over", parent[k] = c, kid[k] = "registered"
        PROVE FALSE
    <3>1. c \notin reg
      BY <1>1, <2>1 DEF ConnInv, RegFresh
    <3>2. kind[k] \in Kinds
      BY <1>1, <2>1 DEF ConnInv, KidsPlaced
    <3> QED BY <1>1, <2>1, <3>1, <3>2, KindsAre DEF ConnInv, NoOrphanChild, StagesLeft
  <2> QED BY <1>1, <2>1 DEF ConnInv, Announced, DisconnectedLast
<1> QED BY <1>1, ConnectionsInvariant, PTL

(* shutdown_all ends with empty registries, however many opens, connects   *)
(* and clean-ups it met on its way.                                        *)
THEOREM ShutdownTheorem == Spec => []ShutdownLeavesNothing
<1>1. ASSUME ConnInv, shut = "empty" PROVE reg = {} /\ \A k \in Kids : kid[k] # "registered"
  <2>1. ASSUME NEW k \in Kids PROVE kid[k] # "registered"
    BY <1>1, KindsAre DEF ConnInv, ShutInv, Drained, KidsPlaced
  <2> QED BY <1>1, <2>1 DEF ConnInv, ShutInv
<1>2. ConnInv => ShutdownLeavesNothing
  BY <1>1 DEF ShutdownLeavesNothing
<1> QED BY <1>2, ConnectionsInvariant, PTL

(* A session whose connects all go through connect_inner has at most one   *)
(* registered connection, whoever takes dead ones out meanwhile.           *)
THEOREM OneConnectionTheorem == Spec => []OneConnectionPerSession
<1>1. ASSUME ConnInv, fresh = {} PROVE Cardinality(reg) <= 1
  <2>1. \A c, d \in reg : c = d
    BY <1>1 DEF ConnInv, SessionInv
  <2>2. CASE reg = {}
    BY <2>2, FS_EmptySet
  <2>3. CASE reg # {}
    <3>1. PICK c \in reg : reg = {c}
      BY <2>1, <2>3
    <3>2. Cardinality({c}) = 1
      BY FS_Singleton
    <3> QED BY <3>1, <3>2
  <2> QED BY <2>2, <2>3
<1>2. ConnInv => OneConnectionPerSession
  BY <1>1 DEF OneConnectionPerSession
<1> QED BY <1>2, ConnectionsInvariant, PTL

-----------------------------------------------------------------------------
(* What a step of an operation is: the state it may write, and where it  *)
(* leads.                                                                *)

TypeOK ==
  /\ todo \in Seq(DOMAIN Programs) /\ proc \in [All -> Process]
  /\ queue \in [Locks -> Seq([by : All, shared : BOOLEAN])]
  /\ epoch \in Nat /\ conf \in Vault /\ clock \in Nat
  /\ conns \in SUBSET Connection /\ fwds \in SUBSET Forward /\ server \in Listener
  /\ startup \in [cancelled : BOOLEAN, phase : {"none", "in progress", "complete"}]
  /\ files \in SUBSET Nat
  /\ seen \in [overrun : BOOLEAN, imported : BOOLEAN, stopped : BOOLEAN, revived : BOOLEAN, late : SUBSET LateOps]

LEMMA TypeInit == OperationsInit => TypeOK
<1> SUFFICES ASSUME OperationsInit PROVE TypeOK
  OBVIOUS
<1>1. Idle \in Process
  BY DEF Idle, Process
<1>2. proc \in [All -> Process] /\ queue \in [Locks -> Seq([by : All, shared : BOOLEAN])]
  BY <1>1 DEF OperationsInit
<1>3. PICK w \in Worlds : conf = w.conf /\ conns = w.conns /\ fwds = w.fwds /\ server = w.server /\ files = w.conf.recs
  BY DEF OperationsInit
<1>4. w \in [conf : Vault, conns : SUBSET Connection, fwds : SUBSET Forward, server : Listener]
  BY WorldsAssumption
<1>5. conf \in Vault /\ files \in SUBSET Nat /\ conns \in SUBSET Connection /\ fwds \in SUBSET Forward /\ server \in Listener
  BY <1>3, <1>4 DEF Vault
<1> QED
  BY <1>2, <1>5, OperationsAssumption DEF OperationsInit, TypeOK, Given

LEMMA SkipProcess ==
  ASSUME NEW r \in Process, NEW n \in Nat
  PROVE /\ Skip(r, n) \in Process
        /\ Skip(r, n).op = r.op /\ Skip(r, n).pc = r.pc + n /\ Skip(r, n).failed = r.failed
        /\ Skip(r, n).recs = r.recs /\ Skip(r, n).doomed = r.doomed /\ Skip(r, n).built = r.built
        /\ Skip(r, n).handle = r.handle /\ Skip(r, n).changed = r.changed /\ Skip(r, n).view = r.view
  BY DEF Skip, Process

LEMMA FailProcess ==
  ASSUME NEW r \in Process, NEW c \in Nat
  PROVE LET s == [r EXCEPT !.pc = c, !.failed = TRUE] IN
        /\ s \in Process
        /\ s.op = r.op /\ s.pc = c /\ s.failed = TRUE
        /\ s.recs = r.recs /\ s.doomed = r.doomed /\ s.built = r.built
        /\ s.handle = r.handle /\ s.changed = r.changed /\ s.view = r.view
  BY DEF Process

-----------------------------------------------------------------------------
Steady(q) ==
  /\ proc'[q].op = proc[q].op /\ proc'[q].pc = proc[q].pc /\ proc'[q].failed = proc[q].failed
  /\ proc'[q].recs = proc[q].recs /\ proc'[q].doomed = proc[q].doomed
  /\ proc'[q].built = proc[q].built /\ proc'[q].handle = proc[q].handle
  /\ proc'[q].changed = proc[q].changed
Begins(q) ==
  /\ proc[q].op = Nothing /\ proc'[q].op \in DOMAIN Programs /\ proc'[q].pc = 1
  /\ ~proc'[q].failed /\ proc'[q].view = Nothing
Aside(p) == \A q \in All : q # p => Steady(q) \/ (Begins(q) /\ ~IsRest(proc'[q].op))
Alone(p) == \A q \in All : q # p => proc'[q] = proc[q]

Here(p) == proc[p].op # Nothing /\ ~Ended(p)
Advances(p) ==
  /\ ~proc[p].failed /\ ~proc'[p].failed /\ Here(p) /\ Instr(p)[1] # "catch"
  /\ proc'[p].pc = proc[p].pc + 1 /\ proc'[p].op = proc[p].op
Skips(p) ==
  /\ ~proc[p].failed /\ ~proc'[p].failed /\ Here(p) /\ Instr(p)[1] = "unless"
  /\ ~Condition(p, Arg(p)[1]) /\ proc'[p].pc = proc[p].pc + 1 + Arg(p)[2]
Passes(p) ==
  /\ ~proc[p].failed /\ ~proc'[p].failed /\ Here(p) /\ Instr(p)[1] = "catch"
  /\ proc'[p].pc = proc[p].pc + 1 + Arg(p)[3]
Retries(p) ==
  /\ ~proc[p].failed /\ ~proc'[p].failed /\ Here(p) /\ Instr(p)[1] = "again" /\ proc'[p].pc = 1
Fails(p) ==
  /\ ~proc[p].failed /\ proc'[p].failed /\ Here(p) /\ MayFail(Instr(p))
  /\ proc'[p].pc = Catcher(p)
Handles(p) ==
  /\ proc[p].failed /\ ~proc'[p].failed /\ Here(p) /\ Instr(p)[1] = "catch"
  /\ proc'[p].pc = proc[p].pc + 1
\* a handler whose client is gone
Dropped(p) ==
  /\ p \in Live /\ IsRest(proc[p].op)
  /\ \/ Waiting(p)
     \/ \E what \in {"connect", "use", "open", "forward", "stopForwards", "edit", "writeBackup",
                     "removeFiles"} : At(p, what)
Moves(p) ==
  \/ proc'[p].op = Nothing /\ (Ended(p) \/ Dropped(p)) /\ Unlock(p, Locks)
  \/ Begins(p)
  \/ proc[p].op # Nothing /\ Steady(p)
  \/ /\ proc[p].op # Nothing /\ proc'[p].op = proc[p].op
     /\ \/ Advances(p) \/ Skips(p) \/ Passes(p) \/ Retries(p) \/ Fails(p) \/ Handles(p)

\* the locals of a process that goes on change only where they are set
Locals(p) ==
  /\ proc'[p].view \in {proc[p].view, Nothing}
  /\ proc'[p].op = proc[p].op /\ ~proc'[p].failed =>
       /\ Instr(p)[1] \notin {"plan", "writeBackup"} => proc'[p].recs = proc[p].recs
       /\ Instr(p)[1] # "edit" => proc'[p].doomed = proc[p].doomed /\ proc'[p].changed = proc[p].changed
       /\ Instr(p)[1] # "build" => proc'[p].built = proc[p].built
       /\ Instr(p)[1] \notin {"take", "drain"} => proc'[p].handle = proc[p].handle

Control ==
  \A p \in All : proc[p].op # Nothing =>
    /\ proc[p].pc \in 1..(Len(Program(proc[p].op)) + 1)
    /\ proc[p].failed /\ ~Ended(p) =>
         Instr(p)[1] = "catch" /\ KnownAt(proc[p].op, proc[p].pc + 1).facts \subseteq Debts

\* where the program of a process is known to be well formed
LEMMA Static ==
  ASSUME TypeOK, Control, NEW p \in All, proc[p].op # Nothing
  PROVE /\ proc[p].op \in DOMAIN Programs /\ Disciplined(proc[p].op)
        /\ Len(Program(proc[p].op)) \in Nat /\ proc[p].pc \in Nat
        /\ ~Ended(p) => /\ proc[p].pc \in 1..Len(Program(proc[p].op))
                        /\ FlowKept(proc[p].op, proc[p].pc)
                        /\ LocksOrdered(proc[p].op, proc[p].pc)
                        /\ DebtsPaid(proc[p].op, proc[p].pc)
                        /\ StepsFounded(proc[p].op, proc[p].pc)
<1>1. proc[p].op \in DOMAIN Programs /\ proc[p].pc \in Nat
  BY DEF TypeOK, Process
<1>2. Disciplined(proc[p].op)
  BY <1>1, DisciplineAssumption
<1>3. Len(Program(proc[p].op)) \in Nat
  BY <1>2 DEF Disciplined
<1>4. ~Ended(p) => proc[p].pc \in 1..Len(Program(proc[p].op))
  BY <1>1, <1>3 DEF Control, Ended
<1> QED
  BY <1>1, <1>2, <1>3, <1>4 DEF Disciplined

LEMMA Went ==
  ASSUME TypeOK, Control, NEW p \in All, Here(p), ~proc[p].failed, Instr(p)[1] # "catch",
         NEW r \in Process, r.op = proc[p].op, r.pc = proc[p].pc, r.failed = proc[p].failed,
         GoWith(p, r)
  PROVE /\ proc' \in [All -> Process] /\ Alone(p) /\ Moves(p) /\ Advances(p)
        /\ proc'[p].recs = r.recs /\ proc'[p].doomed = r.doomed /\ proc'[p].built = r.built
        /\ proc'[p].handle = r.handle /\ proc'[p].changed = r.changed /\ proc'[p].view = r.view
<1>1. proc \in [All -> Process] /\ proc' = [proc EXCEPT ![p] = Skip(r, 1)]
  BY DEF TypeOK, GoWith, Become
<1>2. proc'[p] = Skip(r, 1) /\ \A q \in All : q # p => proc'[q] = proc[q]
  BY <1>1
<1>3. proc'[p].op = proc[p].op /\ proc'[p].pc = proc[p].pc + 1 /\ ~proc'[p].failed
  BY <1>2, SkipProcess
<1> QED
  BY <1>1, <1>2, <1>3, SkipProcess DEF Alone, Moves, Advances, Here

LEMMA Gone ==
  ASSUME TypeOK, Control, NEW p \in All, Here(p), ~proc[p].failed, Instr(p)[1] # "catch", Go(p)
  PROVE /\ proc' \in [All -> Process] /\ Alone(p) /\ Moves(p) /\ Locals(p) /\ Advances(p)
        /\ proc'[p].recs = proc[p].recs /\ proc'[p].doomed = proc[p].doomed
        /\ proc'[p].built = proc[p].built /\ proc'[p].handle = proc[p].handle
        /\ proc'[p].changed = proc[p].changed /\ proc'[p].view = proc[p].view
<1>1. proc[p] \in Process /\ GoWith(p, proc[p])
  BY DEF TypeOK, Go, GoWith
<1> QED
  BY <1>1, Went DEF Locals

LEMMA FailedAs ==
  ASSUME TypeOK, Control, NEW p \in All, Here(p), ~proc[p].failed, MayFail(Instr(p)),
         NEW r \in Process, r.op = proc[p].op, r.view = proc[p].view, FailAs(p, r)
  PROVE /\ proc' \in [All -> Process] /\ Alone(p) /\ Moves(p) /\ Locals(p) /\ Fails(p)
<1>1. proc \in [All -> Process] /\ proc' = [proc EXCEPT ![p] = [r EXCEPT !.pc = Catcher(p), !.failed = TRUE]]
  BY DEF TypeOK, FailAs, Become
<1>2. Catcher(p) \in Nat
  BY Static DEF FlowKept, Catcher, Instr, Here
<1>3. proc'[p] = [r EXCEPT !.pc = Catcher(p), !.failed = TRUE] /\ \A q \in All : q # p => proc'[q] = proc[q]
  BY <1>1
<1> QED
  BY <1>1, <1>2, <1>3, FailProcess DEF Alone, Moves, Fails, Here, Locals

LEMMA Failed ==
  ASSUME TypeOK, Control, NEW p \in All, Here(p), ~proc[p].failed, MayFail(Instr(p)), Fail(p)
  PROVE /\ proc' \in [All -> Process] /\ Alone(p) /\ Moves(p) /\ Locals(p) /\ Fails(p)
<1>1. proc[p] \in Process /\ FailAs(p, proc[p])
  BY DEF TypeOK, Fail
<1> QED
  BY <1>1, FailedAs

-----------------------------------------------------------------------------
(* The shape of every action of Operations: the types it keeps, where    *)
(* its process goes, what it leaves alone.                               *)

LEMMA AtHere ==
  ASSUME TypeOK, Control, NEW p \in Live, NEW what, At(p, what), what # "catch"
  PROVE /\ p \in All /\ Here(p) /\ ~proc[p].failed /\ Instr(p)[1] = what /\ Instr(p)[1] # "catch"
        /\ proc[p] \in Process
  BY DEF Live, At, Here, Control, TypeOK

\* the cache of a server that is gone is kept only by a handler that outlived its drain
Views ==
  /\ seen.overrun => seen'.overrun
  /\ seen'.overrun \/ \A q \in All : proc'[q].view \in {proc[q].view, Nothing}
Shape(p) == TypeOK' /\ Aside(p) /\ Moves(p) /\ Locals(p) /\ Views

\* what remains to be shown of a step that moves only p
LEMMA ShapeAlone ==
  ASSUME TypeOK, NEW p \in All, Alone(p), Moves(p), Locals(p), TypeOK', seen'.overrun = seen.overrun
  PROVE Shape(p)
  BY DEF Shape, Alone, Aside, Steady, Locals, Views

LEMMA TypeSame ==
  ASSUME TypeOK, proc' \in [All -> Process], UNCHANGED <<todo, locking, world>>
  PROVE TypeOK' /\ seen' = seen
  BY DEF TypeOK, locking, world, remote

LEMMA ShapeSame ==
  ASSUME TypeOK, NEW p \in All, proc' \in [All -> Process], Alone(p), Moves(p), Locals(p),
         UNCHANGED <<todo, locking, world>>
  PROVE Shape(p)
  BY TypeSame, ShapeAlone

LEMMA TypeWorld ==
  ASSUME TypeOK, proc' \in [All -> Process], UNCHANGED <<todo, locking>>,
         conf' \in Vault, clock' \in Nat, conns' \in SUBSET Connection, fwds' \in SUBSET Forward,
         server' \in Listener, startup' \in [cancelled : BOOLEAN, phase : {"none", "in progress", "complete"}],
         files' \in SUBSET Nat, seen' \in [overrun : BOOLEAN, imported : BOOLEAN, stopped : BOOLEAN, revived : BOOLEAN, late : SUBSET LateOps]
  PROVE TypeOK'
  BY DEF TypeOK, locking

LEMMA ClockNat ==
  ASSUME TypeOK PROVE clock \in Nat /\ NewVersion \in Nat /\ NewVersion = clock + 1 /\ NewVersion > clock
<1>1. clock \in Nat
  BY DEF TypeOK
<1> QED
  BY <1>1 DEF NewVersion

Like(r, s) ==
  /\ r \in Process /\ r.op = s.op /\ r.pc = s.pc /\ r.failed = s.failed
  /\ r.recs = s.recs /\ r.doomed = s.doomed /\ r.built = s.built
  /\ r.handle = s.handle /\ r.changed = s.changed /\ r.view = s.view

LEMMA WentLike ==
  ASSUME TypeOK, Control, NEW p \in All, Here(p), ~proc[p].failed, Instr(p)[1] # "catch",
         NEW r, Like(r, proc[p]), GoWith(p, r)
  PROVE /\ proc' \in [All -> Process] /\ Alone(p) /\ Moves(p) /\ Advances(p) /\ Locals(p)
        /\ proc'[p].built = proc[p].built
  BY Went DEF Like, Locals

LEMMA TicketShape ==
  ASSUME TypeOK, Control, NEW p \in Live, Ticket(p) PROVE Shape(p)
<1>1. /\ p \in All /\ Here(p) /\ ~proc[p].failed /\ Instr(p)[1] # "catch" /\ proc[p] \in Process
  BY AtHere DEF Ticket
<1> DEFINE r == [proc[p] EXCEPT !.ticket = epoch]
<1>2. Like(r, proc[p])
  BY <1>1 DEF TypeOK, Process, Like
<1>3. GoWith(p, r) /\ UNCHANGED <<todo, locking, world>>
  BY DEF Ticket
<1> HIDE DEF r
<1> QED
  BY <1>1, <1>2, <1>3, WentLike, ShapeSame

LEMMA FreshShape ==
  ASSUME TypeOK, Control, NEW p \in Live, Fresh(p) PROVE Shape(p)
<1>1. /\ p \in All /\ Here(p) /\ ~proc[p].failed /\ Instr(p)[1] = "fresh" /\ Instr(p)[1] # "catch"
  BY AtHere DEF Fresh
<1>2. MayFail(Instr(p))
  BY <1>1 DEF MayFail
<1>3. (Go(p) \/ Fail(p)) /\ UNCHANGED <<todo, locking, world>>
  BY DEF Fresh
<1> QED
  BY <1>1, <1>2, <1>3, Gone, Failed, ShapeSame

LEMMA GoFail ==
  ASSUME TypeOK, Control, NEW p \in All, Here(p), ~proc[p].failed, MayFail(Instr(p)), Go(p) \/ Fail(p)
  PROVE proc' \in [All -> Process] /\ Alone(p) /\ Moves(p) /\ Locals(p)
<1>1. Instr(p)[1] # "catch"
  BY DEF MayFail, Checks, Refusals
<1> QED
  BY <1>1, Gone, Failed

LEMMA LeaveSeq ==
  ASSUME NEW S, NEW q \in Seq(S), NEW p PROVE Leave(q, p) \in Seq(S)
<1> DEFINE at == {i \in DOMAIN q : q[i].by = p}
           k == CHOOSE i \in at : TRUE
           rest == [i \in 1..(Len(q) - 1) |-> IF i < k THEN q[i] ELSE q[i + 1]]
<1>1. CASE at = {}
  BY <1>1 DEF Leave
<1>2. CASE at # {}
  <2>1. k \in 1..Len(q) /\ Len(q) \in Nat
    BY <1>2
  <2>2. rest \in [1..(Len(q) - 1) -> S]
    BY <2>1
  <2>3. Len(q) - 1 \in Nat
    BY <2>1
  <2>4. Leave(q, p) = rest
    BY <1>2 DEF Leave
  <2> HIDE DEF rest
  <2> QED
    BY <2>2, <2>3, <2>4, SeqDef
<1> QED
  BY <1>1, <1>2

LEMMA UnlockType ==
  ASSUME TypeOK, NEW p \in All, NEW ls, Unlock(p, ls)
  PROVE queue' \in [Locks -> Seq([by : All, shared : BOOLEAN])] /\ epoch' \in Nat
<1> DEFINE R == [by : All, shared : BOOLEAN]
<1>1. queue \in [Locks -> Seq(R)] /\ epoch \in Nat
  BY DEF TypeOK
<1> HIDE DEF R
<1>2. \A l \in Locks : (IF l \in ls THEN Leave(queue[l], p) ELSE queue[l]) \in Seq(R)
  BY <1>1, LeaveSeq
<1>3. queue' \in [Locks -> Seq(R)]
  BY <1>2 DEF Unlock
<1>4. epoch' \in Nat
  BY <1>1 DEF Unlock
<1> QED
  BY <1>3, <1>4 DEF R

LEMMA TypeLocking ==
  ASSUME TypeOK, proc' \in [All -> Process], UNCHANGED <<todo, world>>, epoch' \in Nat,
         queue' \in [Locks -> Seq([by : All, shared : BOOLEAN])]
  PROVE TypeOK' /\ seen' = seen
  BY DEF TypeOK, world, remote

LEMMA AcquireShape ==
  ASSUME TypeOK, Control, NEW p \in Live, Acquire(p) PROVE Shape(p)
<1>1. /\ p \in All /\ Here(p) /\ ~proc[p].failed /\ Instr(p)[1] # "catch" /\ Asks(Instr(p))
  BY AtHere DEF Acquire, Asks
<1>2. Arg(p) \in Locks
  BY <1>1, Static DEF LocksOrdered, Instr, Arg, Here
<1>3. Go(p) /\ UNCHANGED <<todo, epoch, world>>
  BY DEF Acquire
<1> DEFINE R == [by : All, shared : BOOLEAN]
           e == [by |-> p, shared |-> Instr(p)[1] = "read"]
<1>4. e \in R
  BY <1>1
<1>5. queue \in [Locks -> Seq(R)] /\ epoch \in Nat
  BY DEF TypeOK
<1>6. queue' = [queue EXCEPT ![Arg(p)] = Append(@, e)]
  BY DEF Acquire
<1> HIDE DEF R, e
<1>7. queue' \in [Locks -> Seq(R)]
  BY <1>2, <1>4, <1>5, <1>6
<1>8. TypeOK' /\ seen' = seen
  BY <1>1, <1>3, <1>5, <1>7, Gone, TypeLocking DEF R
<1> QED
  BY <1>1, <1>3, <1>8, Gone, ShapeAlone

LEMMA ReleaseShape ==
  ASSUME TypeOK, Control, NEW p \in Live, Release(p) PROVE Shape(p)
<1>1. /\ p \in All /\ Here(p) /\ ~proc[p].failed /\ Instr(p)[1] # "catch" /\ proc[p] \in Process
  BY AtHere DEF Release
<1> DEFINE r == [proc[p] EXCEPT !.replacing = @ /\ "mutation" \notin Arg(p)]
<1>2. Like(r, proc[p])
  BY <1>1 DEF Process, Like
<1>3. GoWith(p, r) /\ Unlock(p, Arg(p)) /\ UNCHANGED <<todo, world>>
  BY DEF Release
<1> HIDE DEF r
<1>4. TypeOK' /\ seen' = seen
  BY <1>1, <1>2, <1>3, WentLike, UnlockType, TypeLocking
<1> QED
  BY <1>1, <1>2, <1>3, <1>4, WentLike, TypeLocking, ShapeAlone

LEMMA CatchCases ==
  ASSUME TypeOK, Control, NEW p \in Live, CatchStep(p)
  PROVE /\ Shape(p) /\ Instr(p)[1] = "catch" /\ proc'[p].op = proc[p].op
        /\ \/ Handles(p) /\ Unlock(p, Locks \ Arg(p)[1])
           \/ Passes(p) /\ queue' = queue
<1>1. /\ p \in All /\ Here(p) /\ Instr(p)[1] = "catch" /\ proc[p] \in Process /\ proc \in [All -> Process]
  BY DEF CatchStep, At, Live, Here, TypeOK
<1>2. CASE proc[p].failed
  <2> DEFINE s == [proc[p] EXCEPT !.failed = FALSE, !.replacing = @ /\ "mutation" \in Arg(p)[1]]
  <2>1. /\ s \in Process /\ s.op = proc[p].op /\ s.pc = proc[p].pc /\ s.failed = FALSE
        /\ s.recs = proc[p].recs /\ s.doomed = proc[p].doomed /\ s.built = proc[p].built
        /\ s.handle = proc[p].handle /\ s.changed = proc[p].changed /\ s.view = proc[p].view
    BY <1>1 DEF Process
  <2>2. proc' = [proc EXCEPT ![p] = Skip(s, 1)] /\ Unlock(p, Locks \ Arg(p)[1]) /\ UNCHANGED <<todo, world>>
    BY <1>2 DEF CatchStep, GoWith, Become
  <2> HIDE DEF s
  <2>3. Skip(s, 1) \in Process /\ Skip(s, 1).op = proc[p].op /\ Skip(s, 1).pc = proc[p].pc + 1
        /\ ~Skip(s, 1).failed
    BY <2>1, SkipProcess
  <2>4. proc' \in [All -> Process] /\ Alone(p) /\ proc'[p] = Skip(s, 1)
    BY <1>1, <2>2, <2>3 DEF Alone
  <2>5. Moves(p)
    BY <1>1, <1>2, <2>3, <2>4 DEF Moves, Handles, Here
  <2>6. Locals(p)
    BY <2>1, <2>4, SkipProcess DEF Locals
  <2> QED
    BY <1>1, <1>2, <2>2, <2>3, <2>4, <2>5, <2>6, UnlockType, TypeLocking, ShapeAlone DEF Handles
<1>3. CASE ~proc[p].failed
  <2>1. Arg(p)[3] \in Nat /\ proc[p].pc \in Nat
    BY <1>1, Static DEF FlowKept, Instr, Arg, Here
  <2>2. proc' = [proc EXCEPT ![p] = Skip(proc[p], 1 + Arg(p)[3])] /\ UNCHANGED <<todo, locking, world>>
    BY <1>3 DEF CatchStep, Become
  <2> DEFINE s == Skip(proc[p], 1 + Arg(p)[3])
  <2>3. 1 + Arg(p)[3] \in Nat
    BY <2>1
  <2>4. /\ s \in Process /\ s.op = proc[p].op /\ s.pc = proc[p].pc + (1 + Arg(p)[3]) /\ s.failed = proc[p].failed
        /\ s.recs = proc[p].recs /\ s.doomed = proc[p].doomed /\ s.built = proc[p].built
        /\ s.handle = proc[p].handle /\ s.changed = proc[p].changed /\ s.view = proc[p].view
    BY <1>1, <2>3, SkipProcess
  <2> HIDE DEF s
  <2>5. proc' \in [All -> Process] /\ Alone(p) /\ proc'[p] = s
    BY <1>1, <2>2, <2>4 DEF Alone, s
  <2>6. Moves(p) /\ Locals(p)
    BY <1>1, <1>3, <2>1, <2>4, <2>5 DEF Moves, Passes, Here, Locals
  <2>7. Passes(p) /\ queue' = queue
    BY <1>1, <1>3, <2>1, <2>2, <2>4, <2>5 DEF Passes, locking
  <2> QED
    BY <1>1, <2>2, <2>4, <2>5, <2>6, <2>7, ShapeSame
<1> QED
  BY <1>2, <1>3

LEMMA IdleProcess ==
  /\ Idle \in Process /\ Idle.op = Nothing /\ Idle.view = Nothing
  /\ \A op \in DOMAIN Programs : LET s == [Idle EXCEPT !.op = op] IN
       s \in Process /\ s.op = op /\ s.pc = 1 /\ ~s.failed /\ s.view = Nothing
  BY DEF Idle, Process

LEMMA ReturnShape ==
  ASSUME TypeOK, Control, NEW p \in Live, Return(p) PROVE Shape(p)
<1>0. Ended(p) /\ Unlock(p, Locks) /\ Become(p, Idle) /\ UNCHANGED <<todo, world>>
  BY DEF Return
<1>1. proc \in [All -> Process] /\ proc' = [proc EXCEPT ![p] = Idle] /\ p \in All /\ proc[p].op # Nothing
  BY <1>0 DEF TypeOK, Become, Live
<1>2. proc' \in [All -> Process] /\ Alone(p) /\ proc'[p].op = Nothing /\ proc'[p].view = Nothing
  BY <1>1, IdleProcess DEF Alone
<1> QED
  BY <1>0, <1>1, <1>2, UnlockType, TypeLocking, ShapeAlone DEF Moves, Locals

LEMMA LateProgram ==
  ASSUME NEW op \in LateOps PROVE op \in DOMAIN Programs /\ ~IsRest(op) /\ op # Nothing
<1>1. op \in DOMAIN Programs
  BY DEF Programs
<1>2. op \notin RestOps
  BY DEF LateOps, LateEdits, RestOps, Rest
<1> QED
  BY <1>1, <1>2, OperationsAssumption DEF IsRest

\* a process that begins an operation of LateOps
BeginsLate(q) == Begins(q) /\ proc'[q].op \in LateOps
Hands(p) ==
  /\ proc' \in [All -> Process] /\ proc'[p] = Idle
  /\ \A q \in All : q # p => proc'[q] = proc[q] \/ BeginsLate(q)

\* a thread goes on with what p was waiting for
LEMMA GoesOnHands ==
  ASSUME TypeOK, NEW p \in Live, NEW what \in LateOps, NEW left \in SUBSET Nat, GoesOn(p, what, left)
  PROVE Hands(p)
<1>1. proc \in [All -> Process] /\ p \in All /\ proc[p] \in Process /\ proc[p].op # Nothing
  BY DEF TypeOK, Live
<1> DEFINE R == proc[p].recs
           s == [Idle EXCEPT !.op = what, !.recs = R, !.doomed = left]
<1>2. R \in SUBSET Nat /\ what \in DOMAIN Programs
  BY <1>1, LateProgram DEF Process
<1>3. PICK t \in Pool : proc[t].op = Nothing /\ proc' = [proc EXCEPT ![p] = Idle, ![t] = s]
  BY DEF GoesOn
<1>4. t \in All /\ t # p
  BY <1>1, <1>3 DEF All
<1> HIDE DEF R
<1>5. s \in Process /\ s.op = what /\ s.pc = 1 /\ ~s.failed /\ s.view = Nothing
  BY <1>2 DEF Idle, Process
<1> HIDE DEF s
<1>6. proc' \in [All -> Process] /\ proc'[p] = Idle /\ proc'[t] = s
      /\ \A q \in All : q \notin {p, t} => proc'[q] = proc[q]
  BY <1>1, <1>3, <1>4, <1>5, IdleProcess
<1>7. BeginsLate(t)
  BY <1>2, <1>3, <1>5, <1>6 DEF BeginsLate, Begins
<1> QED
  BY <1>6, <1>7 DEF Hands

LEMMA IdleHands ==
  ASSUME TypeOK, NEW p \in Live, Become(p, Idle) PROVE Hands(p)
<1>1. proc \in [All -> Process] /\ p \in All /\ proc' = [proc EXCEPT ![p] = Idle]
  BY DEF TypeOK, Live, Become
<1> QED
  BY <1>1, IdleProcess DEF Hands

\* a handler that is dropped
LEMMA GoneCases ==
  ASSUME TypeOK, NEW p, ClientGone(p)
  PROVE /\ p \in Live /\ Dropped(p) /\ Unlock(p, Locks) /\ Hands(p)
        /\ UNCHANGED <<todo, conf, clock, conns, server, startup, seen>>
        /\ fwds' \subseteq fwds /\ files' \subseteq files /\ files \ proc[p].doomed \subseteq files'
        /\ files' = files \/ At(p, "removeFiles")
<1>1. /\ p \in Live /\ IsRest(proc[p].op) /\ Unlock(p, Locks)
      /\ UNCHANGED <<todo, conf, clock, conns, server, startup, seen>>
  BY DEF ClientGone
<1>2. CASE /\ Waiting(p) \/ \E what \in {"connect", "use", "open", "forward"} : At(p, what)
           /\ Become(p, Idle) /\ UNCHANGED <<fwds, files>>
  BY <1>1, <1>2, IdleHands DEF Dropped
<1>3. CASE /\ At(p, "stopForwards")
           /\ \E gone \in SUBSET Stopped(p) : fwds' = fwds \ gone
           /\ Become(p, Idle) /\ UNCHANGED files
  BY <1>1, <1>3, IdleHands DEF Dropped
<1>4. CASE /\ At(p, "edit") /\ Arg(p) \in LateEdits /\ GoesOn(p, Arg(p), {})
           /\ UNCHANGED <<fwds, files>>
  <2>1. Arg(p) \in LateOps
    BY <1>4 DEF LateOps
  <2> QED
    BY <1>1, <1>4, <2>1, GoesOnHands DEF Dropped
<1>5. CASE At(p, "writeBackup") /\ GoesOn(p, "writeBackup", {}) /\ UNCHANGED <<fwds, files>>
  <2>1. "writeBackup" \in LateOps
    BY DEF LateOps
  <2> QED
    BY <1>1, <1>5, <2>1, GoesOnHands DEF Dropped
<1>6. ASSUME At(p, "removeFiles"), NEW gone \in SUBSET proc[p].doomed, files' = files \ gone,
             NEW f \in proc[p].doomed, GoesOn(p, "removeFiles", {f}), UNCHANGED fwds
      PROVE /\ Dropped(p) /\ Hands(p)
            /\ fwds' \subseteq fwds /\ files' \subseteq files /\ files \ proc[p].doomed \subseteq files'
  <2>1. "removeFiles" \in LateOps
    BY DEF LateOps
  <2>2. {f} \in SUBSET Nat
    <3>1. proc[p] \in Process
      BY <1>1 DEF TypeOK, Live
    <3> QED
      BY <3>1 DEF Process
  <2> QED
    BY <1>1, <1>6, <2>1, <2>2, GoesOnHands DEF Dropped
<1> QED
  BY <1>1, <1>2, <1>3, <1>4, <1>5, <1>6 DEF ClientGone

LEMMA GoneShape ==
  ASSUME TypeOK, NEW p \in All, ClientGone(p) PROVE Shape(p)
<1>1. /\ p \in Live /\ Dropped(p) /\ Unlock(p, Locks) /\ Hands(p)
      /\ UNCHANGED <<todo, conf, clock, conns, server, startup, seen>>
      /\ fwds' \subseteq fwds /\ files' \subseteq files
  BY GoneCases
<1>2. proc' \in [All -> Process] /\ proc'[p].op = Nothing /\ proc'[p].view = Nothing
  BY <1>1, IdleProcess DEF Hands
<1>3. TypeOK'
  BY <1>1, <1>2, UnlockType DEF TypeOK
<1>4. Aside(p)
  BY <1>1, LateProgram DEF Hands, BeginsLate, Aside, Steady
<1>5. Views
  BY <1>1, <1>2 DEF Hands, BeginsLate, Begins, Views
<1>6. proc[p].op # Nothing
  BY <1>1 DEF Live
<1>7. Moves(p) /\ Locals(p)
  BY <1>1, <1>2, <1>6 DEF Moves, Locals
<1> QED
  BY <1>3, <1>4, <1>5, <1>7 DEF Shape

LEMMA StartShape ==
  ASSUME TypeOK, Control, NEW p \in All, Start(p) PROVE Shape(p)
<1>1. PICK i \in DOMAIN todo : todo' = RemoveAt(todo, i) /\ Begin(p, todo[i])
  BY DEF Start
<1>0. todo \in Seq(DOMAIN Programs)
  BY DEF TypeOK
<1>2. todo[i] \in DOMAIN Programs /\ i \in 1..Len(todo) /\ todo \in Seq(DOMAIN Programs)
  BY <1>0, <1>1
<1> DEFINE s == [Idle EXCEPT !.op = todo[i]]
<1>3. s \in Process /\ s.op = todo[i] /\ s.pc = 1 /\ ~s.failed /\ s.view = Nothing
  BY <1>2, IdleProcess
<1>4. proc' = [proc EXCEPT ![p] = s] /\ proc \in [All -> Process] /\ UNCHANGED <<locking, world>>
  BY <1>1 DEF Begin, Become, TypeOK
<1> HIDE DEF s
<1>5. proc' \in [All -> Process] /\ Alone(p) /\ proc'[p] = s
  BY <1>3, <1>4 DEF Alone
<1>6. todo' \in Seq(DOMAIN Programs)
  <2>1. SubSeq(todo, 1, i - 1) \in Seq(DOMAIN Programs)
    BY <1>2
  <2>2. SubSeq(todo, i + 1, Len(todo)) \in Seq(DOMAIN Programs)
    BY <1>2
  <2> QED
    BY <1>1, <2>1, <2>2 DEF RemoveAt
<1>7. TypeOK'
  BY <1>4, <1>5, <1>6 DEF TypeOK, locking, world, remote
<1>8. Moves(p) /\ Locals(p) /\ seen' = seen
  BY <1>2, <1>3, <1>4, <1>5, OperationsAssumption DEF Moves, Begins, Start, Locals, world
<1> QED
  BY <1>5, <1>7, <1>8, ShapeAlone

LEMMA BeginReplacementShape ==
  ASSUME TypeOK, Control, NEW p \in Live, BeginReplacement(p) PROVE Shape(p)
<1>1. /\ p \in All /\ Here(p) /\ ~proc[p].failed /\ Instr(p)[1] # "catch" /\ proc[p] \in Process
  BY AtHere DEF BeginReplacement
<1> DEFINE r == [proc[p] EXCEPT !.replacing = TRUE]
<1>2. Like(r, proc[p])
  BY <1>1 DEF Process, Like
<1>3. GoWith(p, r) /\ epoch' = epoch + 1 /\ UNCHANGED <<todo, queue, world>>
  BY DEF BeginReplacement
<1> HIDE DEF r
<1>a. epoch \in Nat /\ queue \in [Locks -> Seq([by : All, shared : BOOLEAN])]
  BY DEF TypeOK
<1>c. queue' = queue
  BY <1>3
<1>d. epoch' = epoch + 1
  BY <1>3
<1>e. epoch' \in Nat
  BY <1>a, <1>d
<1>b. epoch' \in Nat /\ queue' \in [Locks -> Seq([by : All, shared : BOOLEAN])]
  BY <1>a, <1>c, <1>e
<1>4. TypeOK' /\ seen' = seen
  BY <1>1, <1>2, <1>3, <1>b, WentLike, TypeLocking
<1> QED
  BY <1>1, <1>2, <1>3, <1>4, WentLike, TypeLocking, ShapeAlone

LEMMA UnlessShape ==
  ASSUME TypeOK, Control, NEW p \in Live, Unless(p) PROVE Shape(p)
<1>1. /\ p \in All /\ Here(p) /\ ~proc[p].failed /\ Instr(p)[1] = "unless" /\ Instr(p)[1] # "catch"
      /\ proc[p] \in Process /\ proc \in [All -> Process]
  BY AtHere DEF Unless, TypeOK
<1>2. UNCHANGED <<todo, locking, world>>
  BY DEF Unless
<1>3. CASE Condition(p, Arg(p)[1])
  <2>1. Go(p)
    BY <1>3 DEF Unless, Go
  <2> QED
    BY <1>1, <1>2, <2>1, Gone, ShapeSame
<1>4. CASE ~Condition(p, Arg(p)[1])
  <2>1. Arg(p)[2] \in Nat /\ proc[p].pc \in Nat
    BY <1>1, Static DEF FlowKept, Instr, Arg, Here
  <2>2. proc' = [proc EXCEPT ![p] = Skip(proc[p], 1 + Arg(p)[2])]
    BY <1>4 DEF Unless, Become
  <2> DEFINE s == Skip(proc[p], 1 + Arg(p)[2])
  <2>3. 1 + Arg(p)[2] \in Nat
    BY <2>1
  <2>4. /\ s \in Process /\ s.op = proc[p].op /\ s.pc = proc[p].pc + (1 + Arg(p)[2]) /\ s.failed = proc[p].failed
        /\ s.recs = proc[p].recs /\ s.doomed = proc[p].doomed /\ s.built = proc[p].built
        /\ s.handle = proc[p].handle /\ s.changed = proc[p].changed /\ s.view = proc[p].view
    BY <1>1, <2>3, SkipProcess
  <2> HIDE DEF s
  <2>5. proc' \in [All -> Process] /\ Alone(p) /\ proc'[p] = s
    BY <1>1, <2>2, <2>4 DEF Alone, s
  <2>6. Moves(p) /\ Locals(p)
    BY <1>1, <1>4, <2>1, <2>4, <2>5 DEF Moves, Skips, Here, Locals
  <2> QED
    BY <1>1, <1>2, <2>5, <2>6, ShapeSame
<1> QED
  BY <1>3, <1>4

LEMMA VerifyShape ==
  ASSUME TypeOK, Control, NEW p \in Live, Verify(p) PROVE Shape(p)
<1>1. PICK c \in Checks : At(p, c) /\ (Go(p) \/ Fail(p))
  BY DEF Verify
<1>2. /\ p \in All /\ Here(p) /\ ~proc[p].failed /\ Instr(p)[1] = c
  BY <1>1, AtHere DEF Checks, Refusals
<1>3. MayFail(Instr(p)) /\ UNCHANGED <<todo, locking, world>>
  BY <1>1, <1>2 DEF MayFail, Verify
<1> QED
  BY <1>1, <1>2, <1>3, GoFail, ShapeSame

LEMMA SetAllowed ==
  ASSUME TypeOK, Control, NEW p \in All, Here(p), ~proc[p].failed, Instr(p)[1] # "catch",
         NEW A \in SUBSET Sessions, GoWith(p, [proc[p] EXCEPT !.allowed = A])
  PROVE proc' \in [All -> Process] /\ Alone(p) /\ Moves(p) /\ Locals(p)
<1> DEFINE r == [proc[p] EXCEPT !.allowed = A]
<1>0. proc[p] \in Process
  BY DEF TypeOK
<1>1. Like(r, proc[p])
  BY <1>0 DEF Process, Like
<1>2. GoWith(p, r)
  OBVIOUS
<1> HIDE DEF r
<1> QED
  BY <1>1, <1>2, WentLike

LEMMA ChooseShape ==
  ASSUME TypeOK, Control, NEW p \in Live, Choose(p) PROVE Shape(p)
<1>1. UNCHANGED <<todo, locking, world>>
  BY DEF Choose
<1>2. /\ p \in All /\ Here(p) /\ ~proc[p].failed /\ Instr(p)[1] # "catch"
      /\ Instr(p)[1] \in {"configured", "normalized", "cached", "wantsStart"}
  BY AtHere DEF Choose
<1>3. Configured \in SUBSET Sessions /\ conf.allow \in SUBSET Sessions /\ server.cache \in SUBSET Sessions
  BY DEF TypeOK, Vault, Listener, Configured
<1>4. CASE Fail(p) /\ (At(p, "normalized") \/ At(p, "wantsStart"))
  <2>1. MayFail(Instr(p))
    BY <1>4 DEF At, MayFail
  <2> QED
    BY <1>1, <1>2, <1>4, <2>1, Failed, ShapeSame
<1>5. CASE \E A \in {Configured, conf.allow, server.cache} : GoWith(p, [proc[p] EXCEPT !.allowed = A])
  BY <1>1, <1>2, <1>3, <1>5, SetAllowed, ShapeSame
<1> QED
  BY <1>4, <1>5 DEF Choose

-----------------------------------------------------------------------------
LEMMA WrittenType ==
  ASSUME TypeOK, NEW p \in All, NEW what \in Edits, NEW c \in Written(p, what)
  PROVE c \in Vault
<1>1. conf \in Vault /\ clock \in Nat /\ NewVersion \in Nat /\ Target \in Sessions /\ conf.recs \in SUBSET Nat
      /\ proc[p].recs \in SUBSET Nat /\ Exists \in SUBSET Sessions /\ conf.allow \in SUBSET Sessions
  <2>1. conf \in Vault /\ clock \in Nat /\ NewVersion \in Nat /\ Target \in Sessions
    BY ClockNat, OperationsAssumption DEF TypeOK
  <2>2. conf.recs \in SUBSET Nat /\ conf.allow \in SUBSET Sessions
    BY <2>1 DEF Vault
  <2>3. proc[p].recs \in SUBSET Nat
    BY DEF TypeOK, Process
  <2> QED
    BY <2>1, <2>2, <2>3 DEF Exists
<1>2. \A v \in Nat : SetVersion(v) \in Vault
  BY <1>1 DEF SetVersion, Vault
<1>3. \A rs \in SUBSET Nat, n \in Nat : Newest(rs, n) \in SUBSET Nat
  BY DEF Newest
<1>4. ASSUME NEW rs \in SUBSET Nat PROVE [conf EXCEPT !.recs = rs] \in Vault
  BY <1>1 DEF Vault
<1>5. ASSUME NEW b \in BOOLEAN PROVE [conf EXCEPT !.on = b] \in Vault
  BY <1>1 DEF Vault
<1>6. CASE what \in {"other"}
  BY <1>1, <1>6 DEF Written
<1>7. CASE what = "key"
  BY <1>1, <1>7 DEF Written, store_settings_ai_api_key_update, Vault
<1>8. CASE what = "session"
  BY <1>1, <1>2, <1>8 DEF Written, store_update_session
<1>9. CASE what = "delete"
  <2> DEFINE allow == conf.allow \ {Target}
             v == SetVersion(0)
  <2>1. c = [v EXCEPT !.tunnel = 0, !.on = FALSE, !.allow = allow, !.auto = @ /\ allow # {}]
    BY <1>9 DEF Written, store_delete_session
  <2>2. v \in Vault /\ allow \in SUBSET Sessions
    BY <1>1, <1>2
  <2> HIDE DEF v, allow
  <2> QED
    BY <2>1, <2>2 DEF Vault
<1>10. CASE what = "trust"
  BY <1>1, <1>10 DEF Written, store_trust_host_key, Vault
<1>11. CASE what = "proxy"
  <2> DEFINE f == [s \in Sessions |-> IF s \in Exists THEN NewVersion ELSE 0]
  <2>1. f \in [Sessions -> Nat]
    BY <1>1
  <2>2. c = [conf EXCEPT !.ver = f]
    BY <1>11 DEF Written, store_settings_proxy_update
  <2> HIDE DEF f
  <2> QED
    BY <1>1, <2>1, <2>2 DEF Vault
<1>12. CASE what = "allow"
  <2>0. c \in store_settings_ai_api_update(p)
    BY <1>12 DEF Written
  <2>1. PICK a \in SUBSET Exists, b \in BOOLEAN : c = Authorised(a, b)
    BY <2>0 DEF store_settings_ai_api_update
  <2> QED
    BY <1>1, <2>1 DEF Vault, Authorised
<1>13. CASE what = "tunnelCreate"
  <2>1. PICK b \in BOOLEAN : c = [conf EXCEPT !.tunnel = NewVersion, !.on = b]
    BY <1>13 DEF Written, store_create_tunnel
  <2> QED
    BY <1>1, <2>1 DEF Vault
<1>14. CASE what = "tunnelUpdate"
  BY <1>1, <1>14 DEF Written, store_update_tunnel, Vault
<1>15. CASE what = "tunnelDelete"
  <2>1. c = [conf EXCEPT !.tunnel = 0, !.on = FALSE]
    BY <1>15 DEF Written, store_delete_tunnel
  <2> QED
    BY <1>1, <2>1 DEF Vault
<1>16. CASE what \in {"enabled", "disable"}
  BY <1>5, <1>16 DEF Written, store_set_tunnel_enabled
<1>17. CASE what = "retention"
  BY <1>1, <1>3, <1>4, <1>17, OperationsAssumption DEF Written, store_settings_backup_update
<1>18. CASE what = "records"
  BY <1>1, <1>3, <1>4, <1>18, OperationsAssumption DEF Written, store_replace_backup_records
<1>19. CASE what = "recordDelete"
  <2>1. PICK r \in conf.recs : c = [conf EXCEPT !.recs = @ \ {r}]
    BY <1>19 DEF Written, store_delete_backup_record
  <2>2. conf.recs \ {r} \in SUBSET Nat
    BY <1>1
  <2> QED
    BY <1>1, <2>1, <2>2 DEF Vault
<1>20. CASE what = "recordsClear"
  BY <1>4, <1>20 DEF Written
<1>21. CASE what = "import"
  <2>0. c \in store_backup_import
    BY <1>21 DEF Written
  <2>1. PICK v \in {conf.ver[Target], NewVersion, 0}, a \in SUBSET Sessions : c = Imported(v, a)
    BY <2>0 DEF store_backup_import
  <2>2. v \in Nat
    BY <1>1, <2>1 DEF Vault
  <2> DEFINE w == SetVersion(v)
             t == IF v = NewVersion THEN v ELSE 0
             b == a # {}
             o == v = NewVersion
  <2>3. w \in Vault /\ t \in Nat /\ b \in BOOLEAN /\ o \in BOOLEAN
    BY <1>2, <2>2
  <2>4. c = [w EXCEPT !.allow = a, !.auto = b, !.recs = {1}, !.tunnel = t, !.on = o]
    BY <2>1 DEF Imported
  <2> HIDE DEF w, t, b, o
  <2>5. {1} \in SUBSET Nat /\ a \in SUBSET Sessions
    OBVIOUS
  <2> QED
    BY <2>3, <2>4, <2>5 DEF Vault
<1> QED
  BY <1>6, <1>7, <1>8, <1>9, <1>10, <1>11, <1>12, <1>13, <1>14, <1>15, <1>16, <1>17, <1>18, <1>19,
     <1>20, <1>21 DEF Edits

\* an edit that was written
Writes(p, c, d) ==
  /\ At(p, "edit") /\ Arg(p) \in Edits
  /\ c \in Written(p, Arg(p)) /\ conf' = c
  /\ d \in {{}, CleanupTargets(p, Arg(p), c)}
  /\ GoWith(p, [proc[p] EXCEPT !.changed = c.ver # conf.ver, !.doomed = d,
                               !.allowed = IF Arg(p) = "allow" THEN c.allow ELSE @])
  /\ clock' = IF Arg(p) \in {"session", "trust", "proxy", "tunnelCreate", "tunnelUpdate", "import"}
              THEN NewVersion ELSE clock
  /\ seen' = [seen EXCEPT !.imported = @ \/ Arg(p) = "import", !.late = Noted(p)]
  /\ UNCHANGED <<todo, locking, remote, server, startup, files>>

LEMMA NotedType ==
  ASSUME TypeOK, NEW p
  PROVE Noted(p) \in SUBSET LateOps /\ seen.late \subseteq Noted(p)
        /\ (proc[p].op \in LateOps => proc[p].op \in Noted(p))
  BY DEF TypeOK, Noted

LEMMA EditCases ==
  ASSUME TypeOK, Control, NEW p \in Live, Edit(p)
  PROVE \/ \E c \in Vault : \E d : Writes(p, c, d)
        \/ /\ At(p, "edit") /\ Fail(p) /\ UNCHANGED <<conf, clock, seen>>
           /\ UNCHANGED <<todo, locking, remote, server, startup, files>>
<1>1. Arg(p) \in Edits
  <2>1. p \in All /\ Here(p) /\ Instr(p)[1] = "edit"
    BY AtHere, Zenon DEF Edit
  <2> QED
    BY <2>1, Static DEF StepsFounded, Instr, Arg, Here
<1>2. p \in All
  BY DEF Live
<1>3. ASSUME NEW c \in Written(p, Arg(p)) PROVE c \in Vault
  BY <1>1, <1>2, <1>3, WrittenType
<1> QED
  BY <1>1, <1>3, Zenon DEF Edit, Writes

LEMMA WritesGo ==
  ASSUME TypeOK, Control, NEW p \in Live, NEW c \in Vault, NEW d, Writes(p, c, d)
  PROVE /\ proc' \in [All -> Process] /\ Alone(p) /\ Moves(p) /\ Locals(p) /\ Advances(p)
        /\ proc'[p].doomed = d /\ proc'[p].changed = (c.ver # conf.ver)
<1>1. /\ p \in All /\ Here(p) /\ ~proc[p].failed /\ Instr(p)[1] # "catch" /\ proc[p] \in Process
  BY AtHere DEF Writes
<1>2. d \in SUBSET Nat
  <2>1. proc[p].recs \in SUBSET Nat /\ conf.recs \in SUBSET Nat
    BY <1>1 DEF TypeOK, Process, Vault
  <2> QED
    BY <2>1 DEF Writes, CleanupTargets
<1> DEFINE A == IF Arg(p) = "allow" THEN c.allow ELSE proc[p].allowed
           b == c.ver # conf.ver
           r == [proc[p] EXCEPT !.changed = b, !.doomed = d, !.allowed = A]
<1>3. A \in SUBSET Sessions /\ b \in BOOLEAN
  BY <1>1 DEF Vault, Process
<1>4. GoWith(p, r)
  BY DEF Writes
<1> HIDE DEF A, b
<1>5. /\ r \in Process /\ r.op = proc[p].op /\ r.pc = proc[p].pc /\ r.failed = proc[p].failed
      /\ r.recs = proc[p].recs /\ r.doomed = d /\ r.built = proc[p].built /\ r.handle = proc[p].handle
      /\ r.changed = b /\ r.view = proc[p].view
  BY <1>1, <1>2, <1>3 DEF Process
<1> HIDE DEF r
<1> QED
  BY <1>1, <1>4, <1>5, Went DEF b, Locals, Writes, At

LEMMA EditShape ==
  ASSUME TypeOK, Control, NEW p \in Live, Edit(p) PROVE Shape(p)
<1>0. p \in All
  BY DEF Live
<1>1. ASSUME NEW c \in Vault, NEW d, Writes(p, c, d) PROVE Shape(p)
  <2>1. proc' \in [All -> Process] /\ Alone(p) /\ Moves(p) /\ Locals(p)
    BY <1>1, WritesGo
  <2>2. UNCHANGED <<todo, locking, remote, server, startup, files>> /\ conf' \in Vault
    BY <1>1 DEF Writes
  <2>3. clock' \in Nat
    <3>1. clock \in Nat /\ NewVersion \in Nat
      BY ClockNat
    <3>2. clock' \in {clock, NewVersion}
      BY <1>1 DEF Writes
    <3> QED
      BY <3>1, <3>2
  <2>4. seen' \in [overrun : BOOLEAN, imported : BOOLEAN, stopped : BOOLEAN, revived : BOOLEAN, late : SUBSET LateOps]
    BY <1>1, NotedType DEF Writes, TypeOK
  <2>5. TypeOK'
    BY <2>1, <2>2, <2>3, <2>4 DEF TypeOK, locking, remote
  <2>6. seen'.overrun = seen.overrun
    BY <1>1 DEF Writes, TypeOK
  <2> QED
    BY <1>0, <2>1, <2>5, <2>6, ShapeAlone
<1>2. CASE /\ At(p, "edit") /\ Fail(p) /\ UNCHANGED <<conf, clock, seen>>
           /\ UNCHANGED <<todo, locking, remote, server, startup, files>>
  <2>1. Here(p) /\ ~proc[p].failed /\ MayFail(Instr(p))
    BY <1>2, AtHere DEF MayFail
  <2>2. UNCHANGED <<todo, locking, world>>
    BY <1>2 DEF world
  <2> QED
    BY <1>0, <1>2, <2>1, <2>2, Failed, ShapeSame
<1> QED
  BY <1>1, <1>2, EditCases

-----------------------------------------------------------------------------
LEMMA BuildShape ==
  ASSUME TypeOK, Control, NEW p \in Live, Build(p) PROVE Shape(p)
<1>1. /\ p \in All /\ Here(p) /\ ~proc[p].failed /\ Instr(p)[1] # "catch" /\ Instr(p)[1] = "build"
      /\ proc[p] \in Process
  BY AtHere DEF Build
<1>2. MayFail(Instr(p)) /\ UNCHANGED <<todo, locking, world>>
  BY <1>1 DEF MayFail, Build
<1>3. CASE Fail(p)
  BY <1>1, <1>2, <1>3, Failed, ShapeSame
<1>4. CASE GoWith(p, [proc[p] EXCEPT !.built = conf.ver[Target], !.pin = conf.pin])
  <2> DEFINE v == conf.ver[Target]
             h == conf.pin
             r == [proc[p] EXCEPT !.built = v, !.pin = h]
  <2>1. v \in Nat /\ h \in Nat
    BY OperationsAssumption DEF TypeOK, Vault
  <2>2. GoWith(p, r)
    BY <1>4
  <2> HIDE DEF v, h
  <2>3. /\ r \in Process /\ r.op = proc[p].op /\ r.pc = proc[p].pc /\ r.failed = proc[p].failed
        /\ r.recs = proc[p].recs /\ r.doomed = proc[p].doomed /\ r.handle = proc[p].handle
        /\ r.changed = proc[p].changed /\ r.view = proc[p].view
    BY <1>1, <2>1 DEF Process
  <2> HIDE DEF r
  <2>4. proc' \in [All -> Process] /\ Alone(p) /\ Moves(p) /\ Locals(p)
    BY <1>1, <2>2, <2>3, Went DEF Locals
  <2> QED
    BY <1>1, <1>2, <2>4, ShapeSame
<1> QED
  BY <1>3, <1>4 DEF Build

LEMMA SetConn ==
  ASSUME TypeOK, Control, NEW p \in All, Here(p), ~proc[p].failed, Instr(p)[1] # "catch",
         NEW n \in Nat, GoWith(p, [proc[p] EXCEPT !.conn = n])
  PROVE /\ proc' \in [All -> Process] /\ Alone(p) /\ Moves(p) /\ Locals(p) /\ Advances(p)
        /\ proc'[p].built = proc[p].built
<1> DEFINE r == [proc[p] EXCEPT !.conn = n]
<1>0. proc[p] \in Process
  BY DEF TypeOK
<1>1. Like(r, proc[p])
  BY <1>0 DEF Process, Like
<1>2. GoWith(p, r)
  OBVIOUS
<1> HIDE DEF r
<1> QED
  BY <1>1, <1>2, WentLike

\* the connection a process makes
Made(p) == [o |-> IF Arg(p) = "automation" THEN "automation" ELSE "desktop", s |-> Target,
            v |-> proc[p].built, id |-> NewVersion]

LEMMA ConnectCases ==
  ASSUME TypeOK, Control, NEW p \in Live, Connect(p)
  PROVE /\ p \in All /\ Here(p) /\ ~proc[p].failed /\ Instr(p)[1] = "connect"
        /\ UNCHANGED <<todo, locking, conf, fwds, server, startup, files, seen>>
        /\ proc' \in [All -> Process] /\ Alone(p) /\ Moves(p) /\ Locals(p)
        /\ \/ UNCHANGED <<conns, clock>>
           \/ /\ conns' = conns \cup {Made(p)} /\ clock' = NewVersion
              /\ Advances(p) /\ proc'[p].built = proc[p].built
              /\ Arg(p) = "automation" => OfTarget("automation") = {}
<1>1. /\ p \in All /\ Here(p) /\ ~proc[p].failed /\ Instr(p)[1] # "catch" /\ Instr(p)[1] = "connect"
      /\ proc[p] \in Process
  BY AtHere DEF Connect
<1>2. MayFail(Instr(p)) /\ UNCHANGED <<todo, locking, conf, fwds, server, startup, files, seen>>
  BY <1>1 DEF MayFail, Connect
<1>3. CASE Fail(p) /\ UNCHANGED <<conns, clock>>
  BY <1>1, <1>2, <1>3, Failed
<1>4. ASSUME NEW o, NEW c \in OfTarget(o), GoWith(p, [proc[p] EXCEPT !.conn = c.id]),
             UNCHANGED <<conns, clock>>
      PROVE /\ proc' \in [All -> Process] /\ Alone(p) /\ Moves(p) /\ Locals(p)
  <2>1. c.id \in Nat
    BY DEF OfTarget, TypeOK, Connection
  <2> QED
    BY <1>1, <1>4, <2>1, SetConn
<1>5. CASE /\ conns' = conns \cup {Made(p)} /\ clock' = NewVersion
           /\ Arg(p) = "automation" => OfTarget("automation") = {}
           /\ GoWith(p, [proc[p] EXCEPT !.conn = NewVersion])
  <2>1. NewVersion \in Nat
    BY ClockNat
  <2> QED
    BY <1>1, <1>2, <1>5, <2>1, SetConn
<1>6. \/ \E c \in OfTarget(IF Arg(p) = "automation" THEN "automation" ELSE "desktop") :
           GoWith(p, [proc[p] EXCEPT !.conn = c.id]) /\ UNCHANGED <<conns, clock>>
      \/ /\ conns' = conns \cup {Made(p)} /\ clock' = NewVersion
         /\ Arg(p) = "automation" => OfTarget("automation") = {}
         /\ GoWith(p, [proc[p] EXCEPT !.conn = NewVersion])
      \/ Fail(p) /\ UNCHANGED <<conns, clock>>
  BY DEF Connect, Made
<1> QED
  BY <1>1, <1>2, <1>3, <1>4, <1>5, <1>6

LEMMA MadeType ==
  ASSUME TypeOK, NEW p \in All PROVE Made(p) \in Connection
<1>1. proc[p].built \in Nat /\ NewVersion \in Nat /\ Target \in Sessions
  BY ClockNat, OperationsAssumption DEF TypeOK, Process
<1> QED
  BY <1>1 DEF Made, Connection, Origins

LEMMA ConnectShape ==
  ASSUME TypeOK, Control, NEW p \in Live, Connect(p) PROVE Shape(p)
<1>1. /\ p \in All /\ UNCHANGED <<todo, locking, conf, fwds, server, startup, files, seen>>
      /\ proc' \in [All -> Process] /\ Alone(p) /\ Moves(p) /\ Locals(p)
      /\ UNCHANGED <<conns, clock>> \/ (conns' = conns \cup {Made(p)} /\ clock' = NewVersion)
  BY ConnectCases
<1>2. conns' \in SUBSET Connection
  BY <1>1, MadeType DEF TypeOK
<1>3. clock' \in Nat
  BY <1>1, ClockNat
<1>4. TypeOK' /\ seen' = seen
  BY <1>1, <1>2, <1>3 DEF TypeOK, locking
<1> QED
  BY <1>1, <1>4, ShapeAlone

LEMMA TypeCloses ==
  ASSUME TypeOK, proc' \in [All -> Process], conns' \subseteq conns, fwds' \subseteq fwds,
         UNCHANGED <<todo, locking, conf, clock, server, startup, files, seen>>
  PROVE TypeOK' /\ seen' = seen
  BY DEF TypeOK, locking

LEMMA RetainSubset ==
  ASSUME NEW cs, cs \subseteq conns, Retain(cs)
  PROVE conns' \subseteq conns /\ fwds' \subseteq fwds
  BY DEF Retain

LEMMA DisconnectSubset ==
  ASSUME DisconnectAutomation PROVE conns' \subseteq conns /\ fwds' \subseteq fwds
  BY DEF DisconnectAutomation, Retain, remote

LEMMA StillValidShape ==
  ASSUME TypeOK, Control, NEW p \in Live, StillValid(p) PROVE Shape(p)
<1>1. p \in All /\ Here(p) /\ ~proc[p].failed /\ Instr(p)[1] = "valid"
  BY AtHere DEF StillValid
<1>2. MayFail(Instr(p)) /\ UNCHANGED <<todo, locking, conf, clock, server, startup, files, seen>>
      /\ (Go(p) \/ Fail(p))
  BY <1>1 DEF MayFail, StillValid
<1>3. conns' \subseteq conns /\ fwds' \subseteq fwds
  BY DisconnectSubset DEF StillValid, Retain, remote
<1> QED
  BY <1>1, <1>2, <1>3, GoFail, TypeCloses, ShapeAlone

LEMMA StillAllowedShape ==
  ASSUME TypeOK, Control, NEW p \in Live, StillAllowed(p) PROVE Shape(p)
<1>1. p \in All /\ Here(p) /\ ~proc[p].failed /\ Instr(p)[1] \in {"stillAllowed", "stillAllowedForward"}
  BY AtHere DEF StillAllowed
<1>2. MayFail(Instr(p)) /\ UNCHANGED <<todo, locking, conf, clock, server, startup, files, seen>>
      /\ (Go(p) \/ Fail(p))
  BY <1>1 DEF MayFail, StillAllowed
<1>3. conns' \subseteq conns /\ fwds' \subseteq fwds
  BY DisconnectSubset DEF StillAllowed, remote
<1> QED
  BY <1>1, <1>2, <1>3, GoFail, TypeCloses, ShapeAlone

LEMMA CloseShape ==
  ASSUME TypeOK, Control, NEW p \in Live, Close(p) PROVE Shape(p)
<1>1. p \in All /\ Here(p) /\ ~proc[p].failed /\ Instr(p)[1] # "catch"
  BY AtHere DEF Close
<1>2. Go(p) /\ UNCHANGED <<todo, locking, conf, clock, server, startup, files, seen>>
  BY DEF Close
<1>3. conns' \subseteq conns /\ fwds' \subseteq fwds
  BY DisconnectSubset DEF Close, Retain, remote
<1> QED
  BY <1>1, <1>2, <1>3, Gone, TypeCloses, ShapeAlone

LEMMA UseShape ==
  ASSUME TypeOK, Control, NEW p \in Live, Use(p) PROVE Shape(p)
<1>1. p \in All /\ Here(p) /\ ~proc[p].failed /\ Instr(p)[1] \in {"use", "open"}
  BY AtHere DEF Use
<1>2. MayFail(Instr(p)) /\ UNCHANGED <<todo, locking, world>> /\ (Go(p) \/ Fail(p))
  BY <1>1 DEF MayFail, Use
<1> QED
  BY <1>1, <1>2, GoFail, ShapeSame

LEMMA ReplyShape ==
  ASSUME TypeOK, Control, NEW p \in Live, Reply(p) PROVE Shape(p)
<1>1. p \in All /\ Here(p) /\ ~proc[p].failed /\ Instr(p)[1] = "reply"
  BY AtHere DEF Reply
<1>2. MayFail(Instr(p)) /\ UNCHANGED <<todo, locking, world>> /\ (Go(p) \/ Fail(p))
  BY <1>1 DEF MayFail, Reply
<1> QED
  BY <1>1, <1>2, GoFail, ShapeSame
LEMMA TypeForwards ==
  ASSUME TypeOK, proc' \in [All -> Process], fwds' \in SUBSET Forward,
         UNCHANGED <<todo, locking, conf, clock, conns, server, startup, files, seen>>
  PROVE TypeOK' /\ seen' = seen
  BY DEF TypeOK, locking

\* the forward a process starts on the connection c
Record(p, c, active) ==
  [v |-> IF Arg(p) = "form" THEN 0 ELSE conf.tunnel, c |-> c.id,
   o |-> IF Arg(p) = "automation" THEN "automation" ELSE "desktop", on |-> active]

LEMMA ForwardCases ==
  ASSUME NEW p, ForwardStart(p)
  PROVE /\ At(p, "forward") /\ (Go(p) \/ Fail(p))
        /\ \/ UNCHANGED fwds
           \/ \E c \in OfTarget(IF Arg(p) = "automation" THEN "automation" ELSE "desktop"), b \in BOOLEAN :
                fwds' = fwds \cup {Record(p, c, b)}
        /\ UNCHANGED <<todo, locking, conf, clock, conns, server, startup, files, seen>>
  BY DEF ForwardStart, Record

LEMMA ForwardShape ==
  ASSUME TypeOK, Control, NEW p \in Live, ForwardStart(p) PROVE Shape(p)
<1>1. p \in All /\ Here(p) /\ ~proc[p].failed /\ Instr(p)[1] = "forward"
  BY AtHere, ForwardCases
<1>2. MayFail(Instr(p)) /\ (Go(p) \/ Fail(p))
      /\ UNCHANGED <<todo, locking, conf, clock, conns, server, startup, files, seen>>
  BY <1>1, ForwardCases DEF MayFail
<1>3. fwds' \in SUBSET Forward
  <2>1. fwds \in SUBSET Forward /\ conf.tunnel \in Nat /\ conns \in SUBSET Connection
    BY DEF TypeOK, Vault
  <2>2. ASSUME NEW c \in conns, NEW b \in BOOLEAN PROVE Record(p, c, b) \in Forward
    BY <2>1 DEF Record, Forward, Connection, Origins
  <2> QED
    BY <2>1, <2>2, ForwardCases DEF OfTarget
<1> QED
  BY <1>1, <1>2, <1>3, GoFail, TypeForwards, ShapeAlone

\* a forward whose cancellation failed stays, as failed
Halted(f) == [f EXCEPT !.on = FALSE]

LEMMA HaltedType ==
  ASSUME NEW f \in Forward
  PROVE Halted(f) \in Forward /\ Halted(f).v = f.v /\ Halted(f).c = f.c /\ Halted(f).o = f.o
  BY DEF Halted, Forward

LEMMA StopForwardsShape ==
  ASSUME TypeOK, Control, NEW p \in Live, StopForwards(p) PROVE Shape(p)
<1>1. p \in All /\ Here(p) /\ ~proc[p].failed /\ Instr(p)[1] = "stopForwards"
  BY AtHere DEF StopForwards
<1>2. MayFail(Instr(p)) /\ (Go(p) \/ Fail(p))
      /\ UNCHANGED <<todo, locking, conf, clock, conns, server, startup, files, seen>>
  BY <1>1 DEF MayFail, StopForwards
<1>3. fwds' \subseteq fwds \cup {Halted(f) : f \in fwds}
  BY DEF StopForwards, Stopped, Halted
<1>4. fwds' \in SUBSET Forward
  <2>1. fwds \in SUBSET Forward
    BY DEF TypeOK
  <2> QED
    BY <1>3, <2>1, HaltedType
<1> QED
  BY <1>1, <1>2, <1>4, GoFail, TypeForwards, ShapeAlone

LEMMA StopOneShape ==
  ASSUME TypeOK, Control, NEW p \in Live, StopOne(p) PROVE Shape(p)
<1>1. p \in All /\ Here(p) /\ ~proc[p].failed /\ Instr(p)[1] = "forwardStop"
  BY AtHere DEF StopOne
<1>2. MayFail(Instr(p)) /\ (Go(p) \/ Fail(p))
      /\ UNCHANGED <<todo, locking, conf, clock, conns, server, startup, files, seen>>
  BY <1>1 DEF MayFail, StopOne
<1>3. fwds' \subseteq fwds \cup {Halted(f) : f \in fwds}
  BY DEF StopOne, Halted
<1>4. fwds' \in SUBSET Forward
  <2>1. fwds \in SUBSET Forward
    BY DEF TypeOK
  <2> QED
    BY <1>3, <2>1, HaltedType
<1> QED
  BY <1>1, <1>2, <1>4, GoFail, TypeForwards, ShapeAlone

LEMMA RestoreProgram ==
  "restore_tunnels_after_connect" \in DOMAIN Programs /\ ~IsRest("restore_tunnels_after_connect")
<1>1. "restore_tunnels_after_connect" \in DOMAIN Desktop
  BY DEF Desktop
<1>2. "restore_tunnels_after_connect" \notin RestOps
  BY DEF RestOps, Rest
<1> QED
  BY <1>1, <1>2 DEF Programs, IsRest

LEMMA SpawnRestoreShape ==
  ASSUME TypeOK, Control, NEW p \in Live, SpawnRestore(p) PROVE Shape(p)
<1>1. p \in All /\ Here(p) /\ ~proc[p].failed /\ Instr(p)[1] # "catch" /\ proc[p] \in Process
  BY AtHere DEF SpawnRestore
<1>2. p # Restorer /\ Restorer \in All /\ proc \in [All -> Process] /\ proc[Restorer].op = Nothing
  BY DEF SpawnRestore, Live, All, TypeOK
<1> DEFINE n == proc[p].conn
           s == [Idle EXCEPT !.op = "restore_tunnels_after_connect", !.conn = n]
           t == Skip(proc[p], 1)
<1>3. "restore_tunnels_after_connect" \in DOMAIN Programs
  BY RestoreProgram
<1>4. n \in Nat
  BY <1>1 DEF Process
<1>5. proc' = [proc EXCEPT ![p] = t, ![Restorer] = s] /\ UNCHANGED <<todo, locking, world>>
  BY DEF SpawnRestore
<1> HIDE DEF n
<1>6. s \in Process /\ s.op = "restore_tunnels_after_connect" /\ s.pc = 1 /\ ~s.failed /\ s.view = Nothing
  BY <1>3, <1>4 DEF Idle, Process
<1>7. /\ t \in Process /\ t.op = proc[p].op /\ t.pc = proc[p].pc + 1 /\ t.failed = proc[p].failed
      /\ t.recs = proc[p].recs /\ t.doomed = proc[p].doomed /\ t.built = proc[p].built
      /\ t.handle = proc[p].handle /\ t.changed = proc[p].changed /\ t.view = proc[p].view
  BY <1>1, SkipProcess
<1> HIDE DEF s, t
<1>8. /\ proc' \in [All -> Process] /\ proc'[p] = t /\ proc'[Restorer] = s
      /\ \A q \in All : q \notin {p, Restorer} => proc'[q] = proc[q]
  BY <1>1, <1>2, <1>5, <1>6, <1>7
<1>9. TypeOK' /\ seen' = seen
  BY <1>5, <1>8, TypeSame
<1>10. Begins(Restorer)
  BY <1>2, <1>3, <1>6, <1>8 DEF Begins
<1>11. Aside(p)
  BY <1>6, <1>8, <1>10, RestoreProgram DEF Aside, Steady
<1>12. Moves(p) /\ Locals(p)
  BY <1>1, <1>7, <1>8 DEF Moves, Advances, Here, Locals
<1>13. Views
  BY <1>6, <1>7, <1>8, <1>9 DEF Views
<1> QED
  BY <1>9, <1>11, <1>12, <1>13 DEF Shape

-----------------------------------------------------------------------------
LEMMA TypeServer ==
  ASSUME TypeOK, proc' \in [All -> Process], server' \in Listener,
         UNCHANGED <<todo, locking, conf, clock, remote, startup, files>>, seen' = seen
  PROVE TypeOK'
  BY DEF TypeOK, locking, remote

LEMMA TakeGoes ==
  ASSUME TypeOK, Control, NEW p \in All, Here(p), ~proc[p].failed, Instr(p)[1] = "take",
         NEW h \in BOOLEAN, NEW w \in BOOLEAN, GoWith(p, [proc[p] EXCEPT !.handle = h, !.was = w])
  PROVE proc' \in [All -> Process] /\ Alone(p) /\ Moves(p) /\ Locals(p) /\ Advances(p) /\ proc'[p].handle = h
<1> DEFINE r == [proc[p] EXCEPT !.handle = h, !.was = w]
<1>0. proc[p] \in Process
  BY DEF TypeOK
<1>1. /\ r \in Process /\ r.op = proc[p].op /\ r.pc = proc[p].pc /\ r.failed = proc[p].failed
      /\ r.recs = proc[p].recs /\ r.doomed = proc[p].doomed /\ r.built = proc[p].built
      /\ r.changed = proc[p].changed /\ r.view = proc[p].view /\ r.handle = h
  BY <1>0 DEF Process
<1>2. GoWith(p, r)
  OBVIOUS
<1> HIDE DEF r
<1> QED
  BY <1>1, <1>2, Went DEF Locals

LEMMA ServerStepCases ==
  ASSUME TypeOK, Control, NEW p \in Live, ServerStep(p)
  PROVE /\ p \in All /\ Here(p) /\ ~proc[p].failed
        /\ Instr(p)[1] \in {"requestShutdown", "take", "cache", "install"}
        /\ proc' \in [All -> Process] /\ Alone(p) /\ Moves(p) /\ Locals(p) /\ Advances(p)
        /\ server' \in Listener
        /\ UNCHANGED <<todo, locking, conf, clock, remote, startup, files>> /\ seen' = seen
        /\ server'.open => server.open
        /\ Instr(p)[1] = "take" => /\ ~server'.inSlot /\ server'.open = server.open
                                   /\ proc'[p].handle = server.inSlot
        /\ Instr(p)[1] = "install" => server'.inSlot
        /\ Instr(p)[1] \in {"requestShutdown", "cache"} => server'.inSlot = server.inSlot
<1>1. /\ p \in All /\ Here(p) /\ ~proc[p].failed /\ Instr(p)[1] # "catch" /\ proc[p] \in Process
      /\ Instr(p)[1] \in {"requestShutdown", "take", "cache", "install"}
  BY AtHere DEF ServerStep
<1>2. UNCHANGED <<todo, locking, conf, clock, remote, startup, files>> /\ seen' = seen
  BY DEF ServerStep
<1>3. server \in Listener /\ proc[p].allowed \in SUBSET Sessions
  BY <1>1 DEF TypeOK, Process
<1>4. CASE At(p, "requestShutdown")
  <2> DEFINE b == server.open /\ ~server.inSlot
  <2>1. server' = [server EXCEPT !.open = b] /\ Go(p) /\ b \in BOOLEAN /\ Instr(p)[1] = "requestShutdown"
    BY <1>3, <1>4 DEF ServerStep, At, Listener
  <2> QED
    BY <1>1, <1>2, <1>3, <2>1, Gone DEF Listener
<1>5. CASE At(p, "take")
  <2> DEFINE h == server.inSlot
             w == server.inSlot /\ server.open
  <2>1. server' = [server EXCEPT !.inSlot = FALSE] /\ Instr(p)[1] = "take"
        /\ GoWith(p, [proc[p] EXCEPT !.handle = h, !.was = w]) /\ h \in BOOLEAN /\ w \in BOOLEAN
    BY <1>3, <1>5 DEF ServerStep, At, Listener
  <2> HIDE DEF w
  <2>2. server' \in Listener /\ ~server'.inSlot /\ server'.open = server.open
    BY <1>3, <2>1 DEF Listener
  <2> QED
    BY <1>1, <1>2, <2>1, <2>2, TakeGoes
<1>6. CASE At(p, "cache")
  <2>1. server' = [server EXCEPT !.cache = proc[p].allowed] /\ Go(p) /\ Instr(p)[1] = "cache"
    BY <1>6 DEF ServerStep, At
  <2> QED
    BY <1>1, <1>2, <1>3, <2>1, Gone DEF Listener
<1>7. CASE At(p, "install")
  <2>1. server' = [server EXCEPT !.inSlot = TRUE] /\ Go(p) /\ Instr(p)[1] = "install"
    BY <1>7 DEF ServerStep, At
  <2> QED
    BY <1>1, <1>2, <1>3, <2>1, Gone DEF Listener
<1> QED
  BY <1>4, <1>5, <1>6, <1>7 DEF ServerStep

LEMMA ServerStepShape ==
  ASSUME TypeOK, Control, NEW p \in Live, ServerStep(p) PROVE Shape(p)
  BY ServerStepCases, TypeServer, ShapeAlone

LEMMA StartServerCases ==
  ASSUME TypeOK, Control, NEW p \in Live, StartServer(p)
  PROVE /\ p \in All /\ Here(p) /\ ~proc[p].failed /\ Instr(p)[1] \in {"start", "restart"}
        /\ proc' \in [All -> Process] /\ Alone(p) /\ Moves(p) /\ Locals(p)
        /\ UNCHANGED <<todo, locking, conf, clock, remote, startup, files>>
        /\ \/ /\ Advances(p)
              /\ server' = [open |-> TRUE, inSlot |-> Instr(p)[1] = "start", cache |-> proc[p].allowed]
              /\ seen' = [seen EXCEPT !.revived = @ \/ (/\ seen.stopped
                                                        /\ proc[p].op = "spawn_api_server_autostart")]
           \/ Fails(p) /\ UNCHANGED <<server, seen>>
<1>1. /\ p \in All /\ Here(p) /\ ~proc[p].failed /\ Instr(p)[1] # "catch" /\ proc[p] \in Process
      /\ Instr(p)[1] \in {"start", "restart"}
  BY AtHere DEF StartServer
<1>2. MayFail(Instr(p)) /\ UNCHANGED <<todo, locking, conf, clock, remote, startup, files>>
  BY <1>1 DEF MayFail, StartServer
<1>3. ASSUME NEW b \in BOOLEAN, FailAs(p, [proc[p] EXCEPT !.busy = b])
      PROVE proc' \in [All -> Process] /\ Alone(p) /\ Moves(p) /\ Locals(p) /\ Fails(p)
  <2> DEFINE r == [proc[p] EXCEPT !.busy = b]
  <2>1. r \in Process /\ r.op = proc[p].op /\ r.view = proc[p].view
    BY <1>1 DEF Process
  <2>2. FailAs(p, r)
    BY <1>3
  <2> HIDE DEF r
  <2> QED
    BY <1>1, <1>2, <2>1, <2>2, FailedAs
<1>5. CASE (\E b \in BOOLEAN : FailAs(p, [proc[p] EXCEPT !.busy = b])) /\ UNCHANGED <<server, seen>>
  BY <1>1, <1>2, <1>3, <1>5
<1>6. \/ /\ Go(p)
         /\ server' = [open |-> TRUE, inSlot |-> Instr(p)[1] = "start", cache |-> proc[p].allowed]
         /\ seen' = [seen EXCEPT !.revived = @ \/ (/\ seen.stopped
                                                   /\ proc[p].op = "spawn_api_server_autostart")]
      \/ (\E b \in BOOLEAN : FailAs(p, [proc[p] EXCEPT !.busy = b])) /\ UNCHANGED <<server, seen>>
  BY DEF StartServer
<1>7. CASE /\ Go(p)
           /\ server' = [open |-> TRUE, inSlot |-> Instr(p)[1] = "start", cache |-> proc[p].allowed]
           /\ seen' = [seen EXCEPT !.revived = @ \/ (/\ seen.stopped
                                                     /\ proc[p].op = "spawn_api_server_autostart")]
  BY <1>1, <1>2, <1>7, Gone
<1> QED
  BY <1>5, <1>6, <1>7

LEMMA StartServerShape ==
  ASSUME TypeOK, Control, NEW p \in Live, StartServer(p) PROVE Shape(p)
<1>1. /\ p \in All /\ proc' \in [All -> Process] /\ Alone(p) /\ Moves(p) /\ Locals(p)
      /\ UNCHANGED <<todo, locking, conf, clock, remote, startup, files>>
  BY StartServerCases
<1>2. seen' \in [overrun : BOOLEAN, imported : BOOLEAN, stopped : BOOLEAN, revived : BOOLEAN, late : SUBSET LateOps]
      /\ seen'.overrun = seen.overrun
  BY StartServerCases DEF TypeOK
<1>3. server' \in Listener
  <2>1. server \in Listener /\ proc[p].allowed \in SUBSET Sessions
    BY <1>1 DEF TypeOK, Process
  <2>2. (Instr(p)[1] = "start") \in BOOLEAN
    OBVIOUS
  <2>3. [open |-> TRUE, inSlot |-> Instr(p)[1] = "start", cache |-> proc[p].allowed] \in Listener
    BY <2>1, <2>2 DEF Listener
  <2> QED
    BY <2>1, <2>3, StartServerCases
<1>4. TypeOK'
  BY <1>1, <1>2, <1>3 DEF TypeOK, locking, remote
<1> QED
  BY <1>1, <1>2, <1>4, ShapeAlone

LEMMA AgainShape ==
  ASSUME TypeOK, Control, NEW p \in Live, Again(p) PROVE Shape(p)
<1>1. /\ p \in All /\ Here(p) /\ ~proc[p].failed /\ Instr(p)[1] = "again" /\ Instr(p)[1] # "catch"
      /\ proc[p] \in Process /\ proc \in [All -> Process]
  BY AtHere DEF Again, TypeOK
<1>2. UNCHANGED <<todo, locking, world>>
  BY DEF Again
<1>3. CASE Go(p)
  BY <1>1, <1>2, <1>3, Gone, ShapeSame
<1>4. CASE Become(p, [proc[p] EXCEPT !.pc = 1, !.busy = FALSE, !.tries = @ + 1])
  <2> DEFINE n == proc[p].tries + 1
             s == [proc[p] EXCEPT !.pc = 1, !.busy = FALSE, !.tries = n]
  <2>1. proc[p].tries \in Nat
    BY <1>1 DEF Process
  <2>2. n \in Nat
    BY <2>1
  <2>3. proc' = [proc EXCEPT ![p] = s]
    BY <1>4 DEF Become
  <2> HIDE DEF n
  <2>4. /\ s \in Process /\ s.op = proc[p].op /\ s.pc = 1 /\ s.failed = proc[p].failed
        /\ s.recs = proc[p].recs /\ s.doomed = proc[p].doomed /\ s.built = proc[p].built
        /\ s.handle = proc[p].handle /\ s.changed = proc[p].changed /\ s.view = proc[p].view
    BY <1>1, <2>2 DEF Process
  <2> HIDE DEF s
  <2>5. proc' \in [All -> Process] /\ Alone(p) /\ proc'[p] = s
    BY <1>1, <2>3, <2>4 DEF Alone
  <2>6. Moves(p) /\ Locals(p)
    BY <1>1, <2>4, <2>5 DEF Moves, Retries, Here, Locals
  <2> QED
    BY <1>1, <1>2, <2>5, <2>6, ShapeSame
<1> QED
  BY <1>3, <1>4 DEF Again

-----------------------------------------------------------------------------
LEMMA TypeDrain ==
  ASSUME TypeOK, proc' \in [All -> Process], conns' \subseteq conns, fwds' \subseteq fwds,
         server' \in Listener,
         seen' \in [overrun : BOOLEAN, imported : BOOLEAN, stopped : BOOLEAN, revived : BOOLEAN, late : SUBSET LateOps],
         UNCHANGED <<todo, locking, conf, clock, startup, files>>
  PROVE TypeOK'
  BY DEF TypeOK, locking

\* a handler outlived the drain
Outlived(p) ==
  /\ proc' = [q \in All |-> IF q = p THEN Skip([proc[p] EXCEPT !.handle = FALSE], 1)
                            ELSE IF q \in Handlers THEN [proc[q] EXCEPT !.view = server.cache]
                            ELSE proc[q]]
  /\ seen' = [seen EXCEPT !.overrun = TRUE]

LEMMA OutlivedGoes ==
  ASSUME TypeOK, Control, NEW p \in Live, At(p, "drain"), Outlived(p)
  PROVE /\ proc' \in [All -> Process] /\ Aside(p) /\ Moves(p) /\ Locals(p) /\ Views /\ Advances(p)
        /\ ~proc'[p].handle
        /\ seen' \in [overrun : BOOLEAN, imported : BOOLEAN, stopped : BOOLEAN, revived : BOOLEAN, late : SUBSET LateOps]
<1>1. /\ p \in All /\ Here(p) /\ ~proc[p].failed /\ Instr(p)[1] = "drain" /\ proc[p] \in Process
      /\ proc \in [All -> Process]
  BY AtHere DEF TypeOK
<1> DEFINE r == [proc[p] EXCEPT !.handle = FALSE]
           s == Skip(r, 1)
           v(q) == [proc[q] EXCEPT !.view = server.cache]
<1>2. /\ r \in Process /\ r.op = proc[p].op /\ r.pc = proc[p].pc /\ r.failed = proc[p].failed
      /\ r.recs = proc[p].recs /\ r.doomed = proc[p].doomed /\ r.built = proc[p].built
      /\ r.changed = proc[p].changed /\ r.view = proc[p].view /\ r.handle = FALSE
  BY <1>1 DEF Process
<1>3. server.cache \in SUBSET Sessions
  BY DEF TypeOK, Listener
<1>4. ASSUME NEW q \in All
      PROVE /\ v(q) \in Process /\ v(q).op = proc[q].op /\ v(q).pc = proc[q].pc
            /\ v(q).failed = proc[q].failed /\ v(q).recs = proc[q].recs /\ v(q).doomed = proc[q].doomed
            /\ v(q).built = proc[q].built /\ v(q).handle = proc[q].handle /\ v(q).changed = proc[q].changed
  <2>1. proc[q] \in Process
    BY <1>1
  <2> QED
    BY <1>3, <2>1 DEF Process
<1>5. proc' = [q \in All |-> IF q = p THEN s ELSE IF q \in Handlers THEN v(q) ELSE proc[q]]
  BY DEF Outlived
<1> HIDE DEF r, v
<1>6. /\ s \in Process /\ s.op = proc[p].op /\ s.pc = proc[p].pc + 1 /\ s.failed = proc[p].failed
      /\ s.recs = proc[p].recs /\ s.doomed = proc[p].doomed /\ s.built = proc[p].built
      /\ s.changed = proc[p].changed /\ s.view = proc[p].view /\ s.handle = FALSE
  BY <1>2, SkipProcess
<1> HIDE DEF s
<1>7. proc' \in [All -> Process] /\ proc'[p] = s
  BY <1>1, <1>4, <1>5, <1>6
<1>8. Aside(p)
  BY <1>4, <1>5 DEF Aside, Steady
<1>9. Moves(p) /\ Locals(p) /\ Advances(p)
  BY <1>1, <1>6, <1>7 DEF Moves, Advances, Here, Locals
<1>10. seen' \in [overrun : BOOLEAN, imported : BOOLEAN, stopped : BOOLEAN, revived : BOOLEAN, late : SUBSET LateOps]
       /\ seen'.overrun
  BY DEF Outlived, TypeOK
<1> QED
  BY <1>6, <1>7, <1>8, <1>9, <1>10 DEF Views

LEMMA DrainCases ==
  ASSUME TypeOK, Control, NEW p \in Live, Drain(p)
  PROVE /\ p \in All /\ Here(p) /\ ~proc[p].failed /\ Instr(p)[1] = "drain"
        /\ proc' \in [All -> Process] /\ Aside(p) /\ Moves(p) /\ Locals(p) /\ Views
        /\ UNCHANGED <<todo, locking, conf, clock, startup, files>>
        /\ server' \in Listener
        /\ seen' \in [overrun : BOOLEAN, imported : BOOLEAN, stopped : BOOLEAN, revived : BOOLEAN, late : SUBSET LateOps]
        /\ seen'.imported = seen.imported /\ seen'.stopped = seen.stopped /\ seen'.revived = seen.revived
        /\ seen'.late = seen.late
        /\ server'.inSlot = server.inSlot
        /\ \/ UNCHANGED <<remote, server, seen>> /\ ~proc[p].handle /\ Advances(p)
           \/ /\ UNCHANGED <<proc, remote, seen>> /\ ~server'.open
           \/ /\ Retain({c \in conns : c.o # "automation"}) /\ Advances(p) /\ server' = server
              /\ ~server.open /\ ((Handlers = {} /\ UNCHANGED seen) \/ seen'.overrun)
<1>1. /\ p \in All /\ Here(p) /\ ~proc[p].failed /\ Instr(p)[1] = "drain" /\ Instr(p)[1] # "catch"
      /\ proc[p] \in Process /\ UNCHANGED <<todo, locking, conf, clock, startup, files>>
  BY AtHere DEF Drain
<1>2. /\ server \in Listener
      /\ seen \in [overrun : BOOLEAN, imported : BOOLEAN, stopped : BOOLEAN, revived : BOOLEAN, late : SUBSET LateOps]
  BY DEF TypeOK
<1>3. ASSUME Alone(p), Locals(p), UNCHANGED seen PROVE Aside(p) /\ Views
  BY <1>1, <1>3 DEF Alone, Aside, Steady, Locals, Views
<1>4. CASE ~proc[p].handle /\ Go(p) /\ UNCHANGED <<remote, server, seen>>
  BY <1>1, <1>2, <1>3, <1>4, Gone
<1>5. CASE server' = [server EXCEPT !.open = FALSE] /\ UNCHANGED <<proc, remote, seen>>
  <2>1. server' \in Listener /\ ~server'.open /\ server'.inSlot = server.inSlot
    BY <1>2, <1>5 DEF Listener
  <2>2. proc' \in [All -> Process] /\ Alone(p) /\ Moves(p) /\ Locals(p)
    BY <1>1, <1>5 DEF TypeOK, Alone, Moves, Steady, Here, Locals
  <2> QED
    BY <1>1, <1>2, <1>3, <1>5, <2>1, <2>2
<1>6. CASE /\ Retain({c \in conns : c.o # "automation"}) /\ ~server.open /\ Handlers = {}
           /\ GoWith(p, [proc[p] EXCEPT !.handle = FALSE]) /\ UNCHANGED <<server, seen>>
  <2> DEFINE r == [proc[p] EXCEPT !.handle = FALSE]
  <2>1. /\ r \in Process /\ r.op = proc[p].op /\ r.pc = proc[p].pc /\ r.failed = proc[p].failed
        /\ r.recs = proc[p].recs /\ r.doomed = proc[p].doomed /\ r.built = proc[p].built
        /\ r.changed = proc[p].changed /\ r.view = proc[p].view
    BY <1>1 DEF Process
  <2>2. GoWith(p, r)
    BY <1>6
  <2> HIDE DEF r
  <2>3. proc' \in [All -> Process] /\ Alone(p) /\ Moves(p) /\ Advances(p) /\ Locals(p)
    BY <1>1, <2>1, <2>2, Went DEF Locals
  <2> QED
    BY <1>1, <1>2, <1>3, <1>6, <2>3
<1>7. CASE /\ Retain({c \in conns : c.o # "automation"}) /\ ~server.open /\ UNCHANGED server /\ Outlived(p)
  <2>1. At(p, "drain")
    BY DEF Drain
  <2>2. /\ seen'.overrun /\ seen'.imported = seen.imported /\ seen'.stopped = seen.stopped
        /\ seen'.revived = seen.revived /\ seen'.late = seen.late
    BY <1>2, <1>7 DEF Outlived
  <2> QED
    BY <1>1, <1>2, <1>7, <2>1, <2>2, OutlivedGoes
<1> QED
  BY <1>4, <1>5, <1>6, <1>7 DEF Drain, Outlived

LEMMA DrainShape ==
  ASSUME TypeOK, Control, NEW p \in Live, Drain(p) PROVE Shape(p)
<1>1. conns' \subseteq conns /\ fwds' \subseteq fwds
  BY DrainCases DEF Retain, remote
<1> QED
  BY <1>1, DrainCases, TypeDrain DEF Shape

-----------------------------------------------------------------------------
LEMMA StartupCases ==
  ASSUME TypeOK, Control, NEW p \in Live, Startup(p)
  PROVE /\ p \in All /\ Here(p) /\ ~proc[p].failed
        /\ Instr(p)[1] \in {"cancelStartup", "beginShutdown", "shutdownDone", "stopReturns"}
        /\ proc' \in [All -> Process] /\ Alone(p) /\ Moves(p) /\ Locals(p) /\ Advances(p)
        /\ UNCHANGED <<todo, locking, conf, clock, remote, server, files>>
        /\ startup' \in [cancelled : BOOLEAN, phase : {"none", "in progress", "complete"}]
        /\ seen' \in [overrun : BOOLEAN, imported : BOOLEAN, stopped : BOOLEAN, revived : BOOLEAN, late : SUBSET LateOps]
        /\ seen'.overrun = seen.overrun /\ seen'.imported = seen.imported /\ seen'.revived = seen.revived
        /\ seen'.late = seen.late
        /\ startup.cancelled => startup'.cancelled
        /\ Instr(p)[1] = "cancelStartup" => startup'.cancelled
        /\ Instr(p)[1] \notin {"shutdownDone", "stopReturns"} => seen' = seen
<1>1. /\ p \in All /\ Here(p) /\ ~proc[p].failed /\ Instr(p)[1] # "catch"
      /\ Instr(p)[1] \in {"cancelStartup", "beginShutdown", "shutdownDone", "stopReturns"}
  BY AtHere DEF Startup
<1>2. Go(p) /\ UNCHANGED <<todo, locking, conf, clock, remote, server, files>>
  BY DEF Startup
<1>3. /\ startup \in [cancelled : BOOLEAN, phase : {"none", "in progress", "complete"}]
      /\ seen \in [overrun : BOOLEAN, imported : BOOLEAN, stopped : BOOLEAN, revived : BOOLEAN, late : SUBSET LateOps]
  BY DEF TypeOK
<1>4. /\ startup' \in [cancelled : BOOLEAN, phase : {"none", "in progress", "complete"}]
      /\ startup.cancelled => startup'.cancelled
      /\ Instr(p)[1] = "cancelStartup" => startup'.cancelled
  BY <1>3 DEF Startup, At
<1>5. /\ seen' \in [overrun : BOOLEAN, imported : BOOLEAN, stopped : BOOLEAN, revived : BOOLEAN, late : SUBSET LateOps]
      /\ seen'.overrun = seen.overrun /\ seen'.imported = seen.imported /\ seen'.revived = seen.revived
      /\ seen'.late = seen.late
      /\ Instr(p)[1] \notin {"shutdownDone", "stopReturns"} => seen' = seen
  BY <1>3 DEF Startup, At
<1> QED
  BY <1>1, <1>2, <1>4, <1>5, Gone

LEMMA StartupShape ==
  ASSUME TypeOK, Control, NEW p \in Live, Startup(p) PROVE Shape(p)
<1>1. TypeOK'
  BY StartupCases DEF TypeOK, locking, remote
<1> QED
  BY <1>1, StartupCases, ShapeAlone

-----------------------------------------------------------------------------
LEMMA SetRecs ==
  ASSUME TypeOK, Control, NEW p \in All, Here(p), ~proc[p].failed, Instr(p)[1] \in {"plan", "writeBackup"},
         NEW R \in SUBSET Nat, GoWith(p, [proc[p] EXCEPT !.recs = R])
  PROVE /\ proc' \in [All -> Process] /\ Alone(p) /\ Moves(p) /\ Locals(p) /\ Advances(p)
        /\ proc'[p].recs = R
<1> DEFINE r == [proc[p] EXCEPT !.recs = R]
<1>0. proc[p] \in Process
  BY DEF TypeOK
<1>1. /\ r \in Process /\ r.op = proc[p].op /\ r.pc = proc[p].pc /\ r.failed = proc[p].failed
      /\ r.recs = R /\ r.doomed = proc[p].doomed /\ r.built = proc[p].built
      /\ r.changed = proc[p].changed /\ r.view = proc[p].view /\ r.handle = proc[p].handle
  BY <1>0 DEF Process
<1>2. GoWith(p, r)
  OBVIOUS
<1> HIDE DEF r
<1> QED
  BY <1>1, <1>2, Went DEF Locals

LEMMA PlanCases ==
  ASSUME TypeOK, Control, NEW p \in Live, Plan(p)
  PROVE /\ p \in All /\ Here(p) /\ ~proc[p].failed /\ Instr(p)[1] = "plan"
        /\ UNCHANGED <<todo, locking, world>>
        /\ proc' \in [All -> Process] /\ Alone(p) /\ Moves(p) /\ Locals(p) /\ Advances(p)
        /\ proc'[p].recs = conf.recs
<1>1. p \in All /\ Here(p) /\ ~proc[p].failed /\ Instr(p)[1] = "plan"
  BY AtHere DEF Plan
<1>2. conf.recs \in SUBSET Nat
  BY DEF TypeOK, Vault
<1>3. GoWith(p, [proc[p] EXCEPT !.recs = conf.recs]) /\ UNCHANGED <<todo, locking, world>>
  BY DEF Plan
<1> QED
  BY <1>1, <1>2, <1>3, SetRecs

LEMMA PlanShape ==
  ASSUME TypeOK, Control, NEW p \in Live, Plan(p) PROVE Shape(p)
  BY PlanCases, ShapeSame

LEMMA WriteBackupCases ==
  ASSUME TypeOK, Control, NEW p \in Live, WriteBackup(p)
  PROVE /\ p \in All /\ Here(p) /\ ~proc[p].failed /\ Instr(p)[1] = "writeBackup"
        /\ UNCHANGED <<todo, locking, conf, remote, server, startup, seen>>
        /\ proc' \in [All -> Process] /\ Alone(p) /\ Moves(p) /\ Locals(p)
        /\ clock' \in {clock, NewVersion} /\ files' \in SUBSET Nat /\ files \subseteq files'
        /\ \/ Fails(p)
           \/ Advances(p) /\ (proc[p].recs \subseteq files => proc'[p].recs \subseteq files')
<1>1. p \in All /\ Here(p) /\ ~proc[p].failed /\ Instr(p)[1] = "writeBackup"
  BY AtHere DEF WriteBackup
<1>2. MayFail(Instr(p)) /\ UNCHANGED <<todo, locking, conf, remote, server, startup, seen>>
  BY <1>1 DEF MayFail, WriteBackup
<1>3. files \in SUBSET Nat /\ proc[p].recs \in SUBSET Nat /\ NewVersion \in Nat
  BY <1>1, ClockNat DEF TypeOK, Process
<1>4. CASE Fail(p) /\ UNCHANGED <<files, clock>>
  BY <1>1, <1>2, <1>3, <1>4, Failed
<1>5. ASSUME NEW new \in {{}, {NewVersion}}, NEW old \in {files, proc[p].recs},
             files' = files \cup new, clock' = IF new = {} THEN clock ELSE NewVersion,
             GoWith(p, [proc[p] EXCEPT !.recs = old \cup new])
      PROVE /\ proc' \in [All -> Process] /\ Alone(p) /\ Moves(p) /\ Locals(p)
            /\ clock' \in {clock, NewVersion} /\ files' \in SUBSET Nat /\ files \subseteq files'
            /\ Advances(p) /\ (proc[p].recs \subseteq files => proc'[p].recs \subseteq files')
  <2>1. old \cup new \in SUBSET Nat
    BY <1>3
  <2>2. proc' \in [All -> Process] /\ Alone(p) /\ Moves(p) /\ Locals(p) /\ Advances(p)
        /\ proc'[p].recs = old \cup new
    BY <1>1, <1>5, <2>1, SetRecs
  <2> QED
    BY <1>3, <1>5, <2>2
<1> QED
  BY <1>1, <1>2, <1>4, <1>5 DEF WriteBackup

LEMMA WriteBackupShape ==
  ASSUME TypeOK, Control, NEW p \in Live, WriteBackup(p) PROVE Shape(p)
<1>1. clock' \in Nat
  BY WriteBackupCases, ClockNat
<1>2. TypeOK' /\ seen' = seen
  BY <1>1, WriteBackupCases DEF TypeOK, locking, remote
<1> QED
  BY <1>2, WriteBackupCases, ShapeAlone

LEMMA RemoveFilesCases ==
  ASSUME TypeOK, Control, NEW p \in Live, RemoveFiles(p)
  PROVE /\ p \in All /\ Here(p) /\ ~proc[p].failed /\ Instr(p)[1] = "removeFiles"
        /\ UNCHANGED <<todo, locking, conf, clock, remote, server, startup>>
        /\ seen' = [seen EXCEPT !.late = Noted(p)]
        /\ proc' \in [All -> Process] /\ Alone(p) /\ Moves(p) /\ Locals(p) /\ Advances(p)
        /\ files' \subseteq files /\ files \ proc[p].doomed \subseteq files'
<1>1. p \in All /\ Here(p) /\ ~proc[p].failed /\ Instr(p)[1] = "removeFiles" /\ Instr(p)[1] # "catch"
  BY AtHere DEF RemoveFiles
<1>2. Go(p) /\ UNCHANGED <<todo, locking, conf, clock, remote, server, startup>>
      /\ seen' = [seen EXCEPT !.late = Noted(p)]
      /\ files' \subseteq files /\ files \ proc[p].doomed \subseteq files'
  BY DEF RemoveFiles
<1> QED
  BY <1>1, <1>2, Gone

LEMMA RemoveFilesShape ==
  ASSUME TypeOK, Control, NEW p \in Live, RemoveFiles(p) PROVE Shape(p)
<1>0. /\ seen \in [overrun : BOOLEAN, imported : BOOLEAN, stopped : BOOLEAN, revived : BOOLEAN, late : SUBSET LateOps]
      /\ files \subseteq Nat
  BY DEF TypeOK
<1>2. /\ seen' \in [overrun : BOOLEAN, imported : BOOLEAN, stopped : BOOLEAN, revived : BOOLEAN, late : SUBSET LateOps]
      /\ seen'.overrun = seen.overrun /\ files' \subseteq Nat
  <2> DEFINE N == Noted(p)
  <2>1. N \in SUBSET LateOps /\ seen' = [seen EXCEPT !.late = N] /\ files' \subseteq files
    BY RemoveFilesCases, NotedType
  <2> HIDE DEF N
  <2> QED
    BY <1>0, <2>1
<1>1. TypeOK' /\ seen'.overrun = seen.overrun
  BY <1>2, RemoveFilesCases DEF TypeOK, locking, remote
<1> QED
  BY <1>1, RemoveFilesCases, ShapeAlone

-----------------------------------------------------------------------------
(* What the outline of the programs says of a process: the facts it has  *)
(* and the debts it owes follow it from step to step.                    *)

\* the steps that leave the world as it is and establish nothing but an exclusive gate
Silent ==
  {"lock", "read", "drop", "catch", "ticket", "fresh", "replace", "unless", "configured", "normalized",
   "cached", "wantsStart", "use", "open", "spawnRestore", "again", "reply"}
Rests(p) == UNCHANGED world /\ (Here(p) => Instr(p)[1] \in Silent \/ proc'[p].op = Nothing)

LEMMA StepShape ==
  ASSUME TypeOK, Control, NEW p \in Live, Step(p) PROVE Shape(p)
<1> QED
  BY ReturnShape, AcquireShape, ReleaseShape, CatchCases, TicketShape, FreshShape, BeginReplacementShape,
     UnlessShape, VerifyShape, ChooseShape, EditShape, BuildShape, ConnectShape, StillValidShape,
     StillAllowedShape, CloseShape, UseShape, ForwardShape, StopForwardsShape, StopOneShape,
     SpawnRestoreShape, ServerStepShape, StartServerShape, AgainShape, DrainShape, StartupShape,
     ReplyShape, PlanShape, WriteBackupShape, RemoveFilesShape DEF Step

LEMMA StepWhat ==
  ASSUME TypeOK, NEW p \in Live, Step(p)
  PROVE \/ Edit(p) \/ Connect(p) \/ StillValid(p) \/ StillAllowed(p) \/ Close(p)
        \/ ForwardStart(p) \/ StopForwards(p) \/ StopOne(p) \/ ServerStep(p) \/ StartServer(p)
        \/ Drain(p) \/ Startup(p) \/ WriteBackup(p) \/ RemoveFiles(p) \/ Plan(p) \/ Build(p)
        \/ Verify(p) \/ Rests(p)
<1>1. CASE Acquire(p)
  BY <1>1 DEF Acquire, Rests, Silent, At
<1>2. CASE Release(p) \/ CatchStep(p)
  BY <1>2 DEF Release, CatchStep, Rests, Silent, At
<1>3. CASE Return(p)
  BY <1>3 DEF Return, Rests, Here
<1>4. CASE Ticket(p) \/ Fresh(p) \/ BeginReplacement(p) \/ Unless(p)
  BY <1>4 DEF Ticket, Fresh, BeginReplacement, Unless, Rests, Silent, At
<1>5. CASE Choose(p) \/ Use(p)
  BY <1>5 DEF Choose, Use, Rests, Silent, At
<1>6. CASE SpawnRestore(p) \/ Again(p) \/ Reply(p)
  BY <1>6 DEF SpawnRestore, Again, Reply, Rests, Silent, At
<1> QED
  BY <1>1, <1>2, <1>3, <1>4, <1>5, <1>6 DEF Step

\* a step of one process
Acts(p) == (Runs(p) /\ Step(p)) \/ Start(p) \/ ClientGone(p)

LEMMA ActsShape ==
  ASSUME TypeOK, Control, NEW p \in All, Acts(p) PROVE Shape(p)
<1>1. CASE Runs(p) /\ Step(p)
  BY <1>1, StepShape DEF Runs
<1>2. CASE Start(p)
  BY <1>2, StartShape
<1> QED
  BY <1>1, <1>2, GoneShape DEF Acts

LEMMA StartRests ==
  ASSUME NEW p \in All, Start(p) PROVE Rests(p)
  BY DEF Start, Begin, Rests, Here

-----------------------------------------------------------------------------
\* Control, of a single process
Placed(o, c, b) ==
  /\ c \in 1..(Len(Program(o)) + 1)
  /\ b /\ ~(c > Len(Program(o))) =>
       Program(o)[c][1] = "catch" /\ KnownAt(o, c + 1).facts \subseteq Debts

LEMMA ControlIs ==
  Control <=> \A p \in All : proc[p].op # Nothing => Placed(proc[p].op, proc[p].pc, proc[p].failed)
  BY DEF Control, Placed, Ended, Instr

LEMMA PlacedBegin ==
  ASSUME NEW o \in DOMAIN Programs PROVE Placed(o, 1, FALSE)
<1>1. Len(Program(o)) \in Nat
  BY DisciplineAssumption DEF Disciplined
<1> QED
  BY <1>1 DEF Placed

LEMMA PlacedMove ==
  ASSUME TypeOK, Control, NEW p \in All, Moves(p), proc'[p].op # Nothing
  PROVE Placed(proc'[p].op, proc'[p].pc, proc'[p].failed)
<1>1. CASE Begins(p)
  <2>1. ~proc'[p].failed /\ proc'[p].pc = 1 /\ proc'[p].op \in DOMAIN Programs
    BY <1>1 DEF Begins
  <2> QED
    BY <2>1, PlacedBegin DEF Placed
<1>2. CASE proc[p].op # Nothing /\ Steady(p)
  BY <1>2, ControlIs DEF Steady
<1> DEFINE o == proc[p].op
           c == proc[p].pc
<1>3. CASE /\ proc[p].op # Nothing /\ proc'[p].op = proc[p].op
           /\ \/ Advances(p) \/ Skips(p) \/ Passes(p) \/ Retries(p) \/ Fails(p) \/ Handles(p)
  <2>1. Here(p)
    BY <1>3 DEF Advances, Skips, Passes, Retries, Fails, Handles
  <2>2. /\ Len(Program(o)) \in Nat /\ c \in 1..Len(Program(o)) /\ FlowKept(o, c)
    BY <1>3, <2>1, Static DEF Here
  <2>3. CASE Advances(p)
    <3>1. c + 1 \in 1..(Len(Program(o)) + 1)
      BY <2>2
    <3> QED
      BY <1>3, <2>3, <3>1 DEF Advances, Placed
  <2>4. CASE Handles(p)
    <3>1. c + 1 \in 1..(Len(Program(o)) + 1)
      BY <2>2
    <3> QED
      BY <1>3, <2>4, <3>1 DEF Handles, Placed
  <2>5. CASE Skips(p)
    <3>1. c + 1 + Program(o)[c][2][2] \in 1..(Len(Program(o)) + 1)
      BY <2>2, <2>5, Zenon DEF FlowKept, Follows, Skips, Instr
    <3> QED
      BY <1>3, <2>5, <3>1, Zenon DEF Skips, Placed, Arg, Instr
  <2>6. CASE Passes(p)
    <3>1. c + 1 + Program(o)[c][2][3] \in 1..(Len(Program(o)) + 1)
      BY <2>2, <2>6, Zenon DEF FlowKept, Follows, Passes, Instr
    <3> QED
      BY <1>3, <2>6, <3>1, Zenon DEF Passes, Placed, Arg, Instr
  <2>7. CASE Retries(p)
    <3>1. 1 \in 1..(Len(Program(o)) + 1)
      BY <2>2
    <3> QED
      BY <1>3, <2>7, <3>1 DEF Retries, Placed
  <2>8. CASE Fails(p)
    <3> DEFINE d == CatcherOf(Program(o), c)
    <3>1. /\ d \in (c + 1)..(Len(Program(o)) + 1)
          /\ d <= Len(Program(o)) => /\ Program(o)[d][1] = "catch"
                                     /\ KnownAt(o, d + 1).facts \subseteq Debts
      BY <2>2, <2>8, Zenon DEF FlowKept, Follows, Fails, Instr, AfterFailure
    <3>2. proc'[p].pc = d /\ proc'[p].op = o
      BY <1>3, <2>8 DEF Fails, Catcher
    <3> HIDE DEF d
    <3>3. d \in 1..(Len(Program(o)) + 1) /\ (~(d > Len(Program(o))) => d <= Len(Program(o)))
      BY <2>2, <3>1
    <3> QED
      BY <3>1, <3>2, <3>3 DEF Placed
  <2> QED
    BY <1>3, <2>3, <2>4, <2>5, <2>6, <2>7, <2>8
<1> QED
  BY <1>1, <1>2, <1>3 DEF Moves

LEMMA ControlNext ==
  ASSUME TypeOK, Control, NEW p \in All, Shape(p) PROVE Control'
<1>1. ASSUME NEW q \in All, proc'[q].op # Nothing PROVE Placed(proc'[q].op, proc'[q].pc, proc'[q].failed)
  <2>1. CASE q = p
    BY <1>1, <2>1, PlacedMove DEF Shape
  <2>2. CASE q # p /\ Steady(q)
    BY <1>1, <2>2, ControlIs DEF Steady
  <2>3. CASE Begins(q)
    <3>1. ~proc'[q].failed /\ proc'[q].pc = 1 /\ proc'[q].op \in DOMAIN Programs
      BY <2>3 DEF Begins
    <3> QED
      BY <3>1, PlacedBegin DEF Placed
  <2> QED
    BY <2>1, <2>2, <2>3 DEF Shape, Aside
<1> QED
  BY <1>1 DEF Control, Placed, Ended, Instr

-----------------------------------------------------------------------------
Kn(p) == KnownAt(proc[p].op, proc[p].pc)
Active(p) == proc[p].op # Nothing /\ ~proc[p].failed
\* what is known of a process that has not failed, and what it owes
Fact(p, f) == Active(p) /\ f \in Kn(p).facts
Owes(p, d) == Active(p) /\ d \notin Kn(p).facts

\* the locals of q are as before
Remembers(q) ==
  /\ proc'[q].op = proc[q].op /\ proc'[q].pc = proc[q].pc
  /\ proc'[q].recs = proc[q].recs /\ proc'[q].doomed = proc[q].doomed /\ proc'[q].built = proc[q].built
  /\ proc'[q].handle = proc[q].handle /\ proc'[q].changed = proc[q].changed

LEMMA SteadyKeeps ==
  ASSUME NEW q, Steady(q)
  PROVE /\ Remembers(q) /\ (Active(q)' <=> Active(q))
        /\ \A f : (Fact(q, f)' <=> Fact(q, f)) /\ (Owes(q, f)' <=> Owes(q, f))
  BY DEF Steady, Remembers, Active, Fact, Owes, Kn

LEMMA BeginsFresh ==
  ASSUME NEW q, Begins(q)
  PROVE \A f : (Fact(q, f)' => f \in Debts) /\ ~Fact(q, f) /\ ~Owes(q, f) /\ (Owes(q, f)' => f \notin Debts)
<1>1. proc'[q].op \in DOMAIN Programs /\ proc'[q].pc = 1 /\ proc[q].op = Nothing
  BY DEF Begins
<1>2. KnownAt(proc'[q].op, proc'[q].pc).facts = Debts
  BY <1>1, DisciplineAssumption DEF Disciplined, Beginning
<1>3. Kn(q)' = KnownAt(proc'[q].op, proc'[q].pc)
  BY DEF Kn
<1> QED
  BY <1>1, <1>2, <1>3 DEF Fact, Owes, Active

\* where a fact of the next state comes from
LEMMA FactFrom ==
  ASSUME TypeOK, Control, NEW p \in All, Shape(p), NEW q \in All, NEW f, f \notin Debts, Fact(q, f)'
  PROVE \/ Fact(q, f) /\ Steady(q) /\ Remembers(q)
        \/ /\ q = p /\ Here(p) /\ ~proc[p].failed /\ ~proc'[p].failed /\ proc'[p].op = proc[p].op
           /\ (Fact(p, f) /\ ~Loses(Instr(p), f)) \/ (Gains(Instr(p), f) /\ Advances(p))
<1>1. CASE Steady(q)
  BY <1>1, SteadyKeeps
<1>2. CASE Begins(q)
  BY <1>2, BeginsFresh
<1>3. CASE q = p /\ ~Steady(p) /\ ~Begins(p)
  <2> DEFINE o == proc[p].op
             c == proc[p].pc
             i == Program(o)[c]
             k == KnownAt(o, c)
  <2>0. proc'[p].op # Nothing /\ ~proc'[p].failed /\ f \in KnownAt(proc'[p].op, proc'[p].pc).facts
    BY <1>3 DEF Fact, Active, Kn
  <2>1. /\ proc[p].op # Nothing /\ proc'[p].op = proc[p].op
        /\ \/ Advances(p) \/ Skips(p) \/ Passes(p) \/ Retries(p) \/ Fails(p) \/ Handles(p)
    BY <1>3, <2>0 DEF Shape, Moves
  <2>2. Here(p)
    BY <2>1 DEF Advances, Skips, Passes, Retries, Fails, Handles
  <2>3. FlowKept(o, c) /\ Disciplined(o) /\ c \in Nat /\ c \in 1..Len(Program(o))
    BY <2>1, <2>2, Static DEF Here
  <2>4. CASE Advances(p)
    <3>1. proc'[p].pc = c + 1 /\ i[1] # "catch" /\ ~proc[p].failed
      BY <2>4 DEF Advances, Instr
    <3>2. f \in After(i, k).facts
      BY <2>0, <2>1, <2>3, <3>1, Zenon DEF FlowKept, Follows
    <3>3. Gains(i, f) \/ (f \in k.facts /\ ~Loses(i, f))
      BY <3>2 DEF After, Kept
    <3> QED
      BY <1>3, <2>0, <2>1, <2>2, <2>4, <3>1, <3>3 DEF Fact, Active, Kn, Instr
  <2>5. CASE Skips(p)
    <3>1. proc'[p].pc = c + 1 + i[2][2] /\ i[1] = "unless" /\ ~proc[p].failed
      BY <2>5 DEF Skips, Instr, Arg
    <3>2. f \in AfterSkip(i, k).facts
      BY <2>0, <2>1, <2>3, <3>1, Zenon DEF FlowKept, Follows
    <3>3. f \in k.facts
      <4>1. AfterSkip(i, k).facts \subseteq k.facts \cup {g \in Facts : GainsSkipped(i[2][1], g)}
        BY DEF AfterSkip, KnownAt, Kn
      <4> QED
        BY <3>2, <4>1 DEF GainsSkipped, Debts
    <3>4. ~Loses(i, f)
      BY <3>1 DEF Loses, Is
    <3> QED
      BY <1>3, <2>0, <2>1, <2>2, <3>1, <3>3, <3>4 DEF Fact, Active, Kn, Instr
  <2>6. CASE Passes(p)
    <3>1. proc'[p].pc = c + 1 + i[2][3] /\ i[1] = "catch" /\ ~proc[p].failed
      BY <2>6 DEF Passes, Instr, Arg
    <3>2. f \in k.facts
      BY <2>0, <2>1, <2>3, <3>1, Zenon DEF FlowKept, Follows
    <3>3. ~Loses(i, f)
      BY <3>1 DEF Loses, Is
    <3> QED
      BY <1>3, <2>0, <2>1, <2>2, <3>1, <3>2, <3>3 DEF Fact, Active, Kn, Instr
  <2>7. CASE Retries(p)
    BY <2>0, <2>1, <2>3, <2>7 DEF Retries, Disciplined, Beginning
  <2>8. CASE Fails(p)
    BY <2>0, <2>8 DEF Fails
  <2>9. CASE Handles(p)
    <3>1. proc'[p].pc = c + 1 /\ proc[p].failed /\ ~Ended(p)
      BY <2>9 DEF Handles, Here
    <3>2. KnownAt(o, c + 1).facts \subseteq Debts
      BY <2>1, <3>1 DEF Control
    <3> QED
      BY <2>0, <2>1, <3>1, <3>2
  <2> QED
    BY <2>1, <2>4, <2>5, <2>6, <2>7, <2>8, <2>9
<1> QED
  BY <1>1, <1>2, <1>3 DEF Shape, Aside
\* how a debt is paid
Pays(p, d) ==
  \/ Advances(p) /\ Gains(Instr(p), d)
  \/ Skips(p) /\ GainsSkipped(Arg(p)[1], d)
  \/ d = "checked" /\ (Fails(p) \/ Dropped(p))

LEMMA DebtorHere ==
  ASSUME TypeOK, Control, NEW p \in All, NEW d \in Debts, Owes(p, d)
  PROVE Here(p) /\ ~proc[p].failed /\ proc[p].op # Nothing /\ d \notin KnownAt(proc[p].op, proc[p].pc).facts
<1>1. proc[p].op # Nothing /\ ~proc[p].failed /\ d \notin KnownAt(proc[p].op, proc[p].pc).facts
  BY DEF Owes, Active, Kn
<1>2. ASSUME Ended(p) PROVE FALSE
  <2>1. Disciplined(proc[p].op) /\ Len(Program(proc[p].op)) \in Nat /\ proc[p].pc \in Nat
    BY <1>1, Static
  <2>2. proc[p].pc \in 1..(Len(Program(proc[p].op)) + 1)
    BY <1>1 DEF Control
  <2>3. proc[p].pc = Len(Program(proc[p].op)) + 1
    BY <1>2, <2>1, <2>2 DEF Ended
  <2> QED
    BY <1>1, <2>1, <2>3 DEF Disciplined
<1> QED
  BY <1>1, <1>2 DEF Here

LEMMA DebtKept ==
  ASSUME TypeOK, Control, NEW p \in All, Shape(p), NEW q \in All, NEW d \in Debts, Owes(q, d)
  PROVE (Owes(q, d)' /\ Remembers(q)) \/ (q = p /\ (Pays(p, d) \/ (Owes(p, d)' /\ proc'[p].op = proc[p].op /\ ~proc'[p].failed)))
<1>0. Here(q) /\ ~proc[q].failed /\ proc[q].op # Nothing /\ d \notin KnownAt(proc[q].op, proc[q].pc).facts
  BY DebtorHere
<1>1. CASE Steady(q)
  BY <1>1, SteadyKeeps
<1>2. CASE Begins(q)
  BY <1>0, <1>2 DEF Begins
<1>3. CASE q = p /\ ~Steady(p) /\ ~Begins(p)
  <2> DEFINE o == proc[p].op
             c == proc[p].pc
             i == Program(o)[c]
             k == KnownAt(o, c)
  <2>3. FlowKept(o, c) /\ DebtsPaid(o, c) /\ Disciplined(o) /\ c \in Nat
    BY <1>0, <1>3, Static DEF Here
  <2>4. CASE proc'[p].op = Nothing
    <3>1. Dropped(p)
      BY <1>0, <1>3, <2>4 DEF Shape, Moves, Here, Begins
    <3>2. d = "checked"
      BY <1>0, <1>3, <2>3, <3>1 DEF Dropped, DebtsPaid, Debts
    <3> QED
      BY <1>3, <3>1, <3>2 DEF Pays
  <2>5. CASE Fails(p)
    <3>1. MayFail(i)
      BY <2>5 DEF Fails, Instr
    <3>2. d = "checked"
      BY <1>0, <1>3, <2>3, <3>1 DEF DebtsPaid, Debts
    <3> QED
      BY <1>3, <2>5, <3>2 DEF Pays
  <2>6. CASE Handles(p)
    BY <1>0, <1>3, <2>6 DEF Handles
  <2>7. ASSUME NEW n, proc'[p].op = o, proc'[p].pc = n, ~proc'[p].failed, d \notin KnownAt(o, n).facts
        PROVE Owes(p, d)' /\ proc'[p].op = proc[p].op /\ ~proc'[p].failed
    BY <1>0, <1>3, <2>7 DEF Owes, Active, Kn
  <2>8. CASE proc'[p].op = proc[p].op /\ Advances(p)
    <3>1. proc'[p].pc = c + 1 /\ i[1] # "catch" /\ ~proc'[p].failed
      BY <2>8 DEF Advances, Instr
    <3>2. KnownAt(o, c + 1).facts \subseteq After(i, k).facts
      BY <2>3, <3>1, Zenon DEF FlowKept, Follows
    <3>3. ASSUME d \in After(i, k).facts PROVE Gains(i, d)
      BY <1>0, <1>3, <3>3, SMTT(30) DEF After, Kept
    <3> QED
      BY <1>3, <2>7, <2>8, <3>1, <3>2, <3>3 DEF Pays, Instr
  <2>9. CASE proc'[p].op = proc[p].op /\ Skips(p)
    <3>1. proc'[p].pc = c + 1 + i[2][2] /\ i[1] = "unless" /\ ~proc'[p].failed
      BY <2>9 DEF Skips, Instr, Arg
    <3>2. KnownAt(o, c + 1 + i[2][2]).facts \subseteq AfterSkip(i, k).facts
      BY <2>3, <3>1, Zenon DEF FlowKept, Follows
    <3>3. ASSUME d \in AfterSkip(i, k).facts PROVE GainsSkipped(i[2][1], d)
      BY <1>0, <1>3, <3>3, SMTT(30) DEF AfterSkip
    <3> QED
      BY <1>3, <2>7, <2>9, <3>1, <3>2, <3>3 DEF Pays, Instr, Arg
  <2>10. CASE proc'[p].op = proc[p].op /\ Passes(p)
    <3>1. proc'[p].pc = c + 1 + i[2][3] /\ i[1] = "catch" /\ ~proc'[p].failed
      BY <2>10 DEF Passes, Instr, Arg
    <3>2. KnownAt(o, c + 1 + i[2][3]).facts \subseteq k.facts
      BY <2>3, <3>1, Zenon DEF FlowKept, Follows
    <3> QED
      BY <1>0, <1>3, <2>7, <2>10, <3>1, <3>2
  <2>11. CASE Retries(p)
    <3>1. i[1] = "again"
      BY <2>11 DEF Retries, Instr
    <3>2. Debts \subseteq k.facts
      BY <2>3, <3>1 DEF FlowKept
    <3> QED
      BY <1>0, <1>3, <3>2
  <2> QED
    BY <1>3, <2>4, <2>5, <2>6, <2>8, <2>9, <2>10, <2>11 DEF Shape, Moves
<1> QED
  BY <1>0, <1>1, <1>2, <1>3 DEF Shape, Aside

\* what a step loses is owed after it
LEMMA DebtMade ==
  ASSUME TypeOK, Control, NEW p \in All, Advances(p), proc'[p].op = proc[p].op,
         NEW d, Loses(Instr(p), d), ~Gains(Instr(p), d)
  PROVE Owes(p, d)'
<1> DEFINE o == proc[p].op
           c == proc[p].pc
           i == Program(o)[c]
           k == KnownAt(o, c)
<1>1. /\ proc'[p].pc = c + 1 /\ i[1] # "catch" /\ ~proc'[p].failed /\ Here(p) /\ proc[p].op # Nothing
  BY DEF Advances, Instr, Here
<1>2. FlowKept(o, c)
  BY <1>1, Static DEF Here
<1>3. KnownAt(o, c + 1).facts \subseteq After(i, k).facts
  BY <1>1, <1>2, Zenon DEF FlowKept, Follows
<1>4. d \notin After(i, k).facts
  BY DEF After, Kept, Instr
<1> QED
  BY <1>1, <1>3, <1>4 DEF Owes, Active, Kn

-----------------------------------------------------------------------------
(* Requests of a lock: one per process, and who has the lock while the   *)
(* queue moves.                                                          *)

\* requests of one lock: p's is among them, it is granted, it is a writer's
In(s, p) == \E i \in DOMAIN s : s[i].by = p
Heads(s, p) == \E i \in DOMAIN s : s[i].by = p /\ \A j \in 1..(i - 1) : s[i].shared /\ s[j].shared
Writer(s, p) == \A i \in DOMAIN s : s[i].by = p => ~s[i].shared
Single(s) == \A i, j \in DOMAIN s : s[i].by = s[j].by => i = j

LEMMA LocksOf ==
  ASSUME NEW p, NEW l \in Locks
  PROVE /\ l \in Wants(p) <=> In(queue[l], p)
        /\ Granted(p, l) <=> Heads(queue[l], p)
  BY DEF Wants, Place, Granted, In, Heads

LEMMA AppendQueue ==
  ASSUME NEW S, NEW s \in Seq(S), NEW e \in S, NEW q, q # e.by
  PROVE /\ In(Append(s, e), q) <=> In(s, q)
        /\ Heads(s, q) => Heads(Append(s, e), q)
        /\ Writer(s, q) => Writer(Append(s, e), q)
<1> DEFINE t == Append(s, e)
<1>1. /\ Len(s) \in Nat /\ DOMAIN s = 1..Len(s) /\ DOMAIN t = 1..(Len(s) + 1)
      /\ t[Len(s) + 1] = e /\ \A i \in 1..Len(s) : t[i] = s[i]
  OBVIOUS
<1> HIDE DEF t
<1>2. In(t, q) <=> In(s, q)
  BY <1>1 DEF In
<1>3. ASSUME Heads(s, q) PROVE Heads(t, q)
  <2>1. PICK i \in 1..Len(s) : s[i].by = q /\ \A j \in 1..(i - 1) : s[i].shared /\ s[j].shared
    BY <1>1, <1>3 DEF Heads
  <2>2. i \in 1..(Len(s) + 1) /\ \A j \in 1..(i - 1) : j \in 1..Len(s)
    BY <1>1
  <2> QED
    BY <1>1, <2>1, <2>2 DEF Heads
<1>4. Writer(s, q) => Writer(t, q)
  BY <1>1 DEF Writer
<1> QED
  BY <1>2, <1>3, <1>4 DEF t

LEMMA AppendOwn ==
  ASSUME NEW S, NEW s \in Seq(S), NEW e \in S, Single(s), ~In(s, e.by)
  PROVE /\ Single(Append(s, e)) /\ In(Append(s, e), e.by)
        /\ ~e.shared => Writer(Append(s, e), e.by)
        /\ \A i \in DOMAIN Append(s, e) : Append(s, e)[i] = e \/ \E j \in DOMAIN s : Append(s, e)[i] = s[j]
<1> DEFINE t == Append(s, e)
<1>1. /\ Len(s) \in Nat /\ DOMAIN s = 1..Len(s) /\ DOMAIN t = 1..(Len(s) + 1)
      /\ t[Len(s) + 1] = e /\ \A i \in 1..Len(s) : t[i] = s[i]
  OBVIOUS
<1> HIDE DEF t
<1>2. Single(t)
  BY <1>1 DEF Single, In
<1>3. In(t, e.by)
  BY <1>1 DEF In
<1>4. ~e.shared => Writer(t, e.by)
  BY <1>1 DEF Writer, In
<1>5. \A i \in DOMAIN t : t[i] = e \/ \E j \in DOMAIN s : t[i] = s[j]
  BY <1>1
<1> QED
  BY <1>2, <1>3, <1>4, <1>5 DEF t

\* what Leave does to a queue in which p has one request
LEMMA LeaveIs ==
  ASSUME NEW S, NEW s \in Seq(S), NEW p, Single(s)
  PROVE \/ ~In(s, p) /\ Leave(s, p) = s
        \/ \E k \in 1..Len(s) :
             /\ s[k].by = p /\ DOMAIN Leave(s, p) = 1..(Len(s) - 1)
             /\ \A i \in 1..(Len(s) - 1) : Leave(s, p)[i] = IF i < k THEN s[i] ELSE s[i + 1]
<1> DEFINE at == {i \in DOMAIN s : s[i].by = p}
           k == CHOOSE i \in at : TRUE
           rest == [i \in 1..(Len(s) - 1) |-> IF i < k THEN s[i] ELSE s[i + 1]]
<1>1. CASE at = {}
  BY <1>1 DEF Leave, In
<1>2. CASE at # {}
  <2>1. k \in 1..Len(s) /\ s[k].by = p
    BY <1>2
  <2>2. Leave(s, p) = rest
    BY <1>2 DEF Leave
  <2> HIDE DEF k
  <2> QED
    BY <2>1, <2>2
<1> QED
  BY <1>1, <1>2

LEMMA LeaveQueue ==
  ASSUME NEW S, NEW s \in Seq(S), NEW p, Single(s)
  PROVE /\ ~In(Leave(s, p), p) /\ Single(Leave(s, p))
        /\ \A i \in DOMAIN Leave(s, p) : \E j \in DOMAIN s : Leave(s, p)[i] = s[j]
        /\ \A q : q # p => /\ In(Leave(s, p), q) <=> In(s, q)
                           /\ Heads(s, q) => Heads(Leave(s, p), q)
                           /\ Writer(s, q) => Writer(Leave(s, p), q)
<1> DEFINE t == Leave(s, p)
<1>0. Len(s) \in Nat /\ DOMAIN s = 1..Len(s)
  OBVIOUS
<1>1. CASE ~In(s, p) /\ t = s
  BY <1>1
<1>2. ASSUME NEW k \in 1..Len(s), s[k].by = p, DOMAIN t = 1..(Len(s) - 1),
             \A i \in 1..(Len(s) - 1) : t[i] = IF i < k THEN s[i] ELSE s[i + 1]
      PROVE /\ ~In(t, p) /\ Single(t)
            /\ \A i \in DOMAIN t : \E j \in DOMAIN s : t[i] = s[j]
            /\ \A q : q # p => /\ In(t, q) <=> In(s, q)
                               /\ Heads(s, q) => Heads(t, q)
                               /\ Writer(s, q) => Writer(t, q)
  <2> DEFINE n == Len(s)
             m(i) == IF i < k THEN i ELSE i + 1
  <2> HIDE DEF t, n
  <2>0. n \in Nat /\ k \in 1..n /\ DOMAIN s = 1..n /\ DOMAIN t = 1..(n - 1)
    BY <1>0, <1>2 DEF n
  <2>1. \A i \in 1..(n - 1) : t[i] = s[m(i)] /\ m(i) \in 1..n /\ m(i) # k
    <3>1. \A i \in 1..(n - 1) : t[i] = s[m(i)]
      BY <1>2 DEF n
    <3> QED
      BY <2>0, <3>1
  <2>2. \A i, j \in 1..(n - 1) : m(i) = m(j) => i = j
    BY <2>0
  <2>3. \A j \in 1..n : j # k => \E i \in 1..(n - 1) : m(i) = j
    <3> SUFFICES ASSUME NEW j \in 1..n, j # k PROVE \E i \in 1..(n - 1) : m(i) = j
      OBVIOUS
    <3>1. CASE j < k
      <4>1. j \in 1..(n - 1) /\ m(j) = j
        BY <2>0, <3>1
      <4> QED
        BY <4>1
    <3>2. CASE j > k
      <4>1. j - 1 \in 1..(n - 1) /\ m(j - 1) = j
        BY <2>0, <3>2
      <4> QED
        BY <4>1
    <3> QED
      BY <2>0, <3>1, <3>2
  <2>4. \A i, j \in 1..(n - 1) : m(j) < m(i) <=> j < i
    BY <2>0
  <2> HIDE DEF m
  <2>5. ~In(t, p)
    <3>1. ASSUME NEW i \in 1..(n - 1), t[i].by = p PROVE FALSE
      <4>1. m(i) \in DOMAIN s /\ s[m(i)].by = s[k].by /\ m(i) # k /\ k \in DOMAIN s
        BY <1>2, <2>0, <2>1, <3>1
      <4> QED
        BY <4>1 DEF Single
    <3> QED
      BY <2>0, <3>1 DEF In
  <2>6. Single(t)
    BY <2>0, <2>1, <2>2 DEF Single
  <2>7. \A i \in DOMAIN t : \E j \in DOMAIN s : t[i] = s[j]
    BY <2>0, <2>1
  <2>8. ASSUME NEW q, q # p PROVE In(t, q) <=> In(s, q)
    <3>1. In(t, q) => In(s, q)
      BY <2>0, <2>1 DEF In
    <3>2. ASSUME NEW a \in 1..n, s[a].by = q PROVE In(t, q)
      <4>1. PICK i \in 1..(n - 1) : m(i) = a
        BY <1>2, <2>3, <2>8, <3>2
      <4>2. t[i].by = q
        BY <2>1, <3>2, <4>1
      <4> QED
        BY <2>0, <4>2 DEF In
    <3> QED
      BY <2>0, <3>1, <3>2 DEF In
  <2>9. ASSUME NEW q, q # p, Writer(s, q) PROVE Writer(t, q)
    BY <2>0, <2>1, <2>9 DEF Writer
  <2>10. ASSUME NEW q, q # p, Heads(s, q) PROVE Heads(t, q)
    <3>1. PICK a \in 1..n : s[a].by = q /\ \A j \in 1..(a - 1) : s[a].shared /\ s[j].shared
      BY <2>0, <2>10 DEF Heads
    <3>2. PICK i \in 1..(n - 1) : m(i) = a
      BY <1>2, <2>3, <2>10, <3>1
    <3>3. ASSUME NEW j \in 1..(i - 1) PROVE t[i].shared /\ t[j].shared
      <4>1. j \in 1..(n - 1) /\ j < i
        BY <2>0
      <4>2. m(j) \in 1..n /\ m(j) < a
        BY <2>1, <2>4, <3>2, <4>1
      <4>3. m(j) \in 1..(a - 1)
        BY <2>0, <4>2
      <4> QED
        BY <2>1, <3>1, <3>2, <4>1, <4>3
    <3> QED
      BY <2>0, <2>1, <3>1, <3>2, <3>3 DEF Heads
  <2> QED
    BY <2>5, <2>6, <2>7, <2>8, <2>9, <2>10
<1>3. \/ ~In(s, p) /\ t = s
      \/ \E k \in 1..Len(s) :
             /\ s[k].by = p /\ DOMAIN t = 1..(Len(s) - 1)
             /\ \A i \in 1..(Len(s) - 1) : t[i] = IF i < k THEN s[i] ELSE s[i + 1]
  BY LeaveIs
<1> HIDE DEF t
<1>4. /\ ~In(t, p) /\ Single(t)
      /\ \A i \in DOMAIN t : \E j \in DOMAIN s : t[i] = s[j]
      /\ \A q : q # p => /\ In(t, q) <=> In(s, q)
                         /\ Heads(s, q) => Heads(t, q)
                         /\ Writer(s, q) => Writer(t, q)
  BY <1>1, <1>2, <1>3
<1> QED
  BY <1>4 DEF t

\* two requests that are granted are readers', or one
LEMMA HeadsShared ==
  ASSUME NEW S, NEW s \in Seq(S), NEW p, NEW q, Heads(s, p), Heads(s, q)
  PROVE \/ p = q
        \/ \E i, j \in DOMAIN s : s[i].by = p /\ s[j].by = q /\ s[i].shared /\ s[j].shared
<1>1. PICK i \in DOMAIN s : s[i].by = p /\ \A a \in 1..(i - 1) : s[i].shared /\ s[a].shared
  BY DEF Heads
<1>2. PICK j \in DOMAIN s : s[j].by = q /\ \A a \in 1..(j - 1) : s[j].shared /\ s[a].shared
  BY DEF Heads
<1>3. i \in Nat \ {0} /\ j \in Nat \ {0}
  OBVIOUS
<1>4. CASE i = j
  BY <1>1, <1>2, <1>4
<1>5. CASE i < j
  <2>1. i \in 1..(j - 1)
    BY <1>3, <1>5
  <2> QED
    BY <1>1, <1>2, <2>1
<1>6. CASE j < i
  <2>1. j \in 1..(i - 1)
    BY <1>3, <1>6
  <2> QED
    BY <1>1, <1>2, <2>1
<1> QED
  BY <1>3, <1>4, <1>5, <1>6

\* the first request is granted
LEMMA FirstHeads ==
  ASSUME NEW S, NEW s \in Seq(S), NEW p, In(s, p)
  PROVE 1 \in DOMAIN s /\ Heads(s, s[1].by)
<1>1. PICK i \in DOMAIN s : s[i].by = p
  BY DEF In
<1>2. 1 \in DOMAIN s
  BY <1>1
<1> QED
  BY <1>2 DEF Heads

-----------------------------------------------------------------------------
(* Every process has and wants the locks the outline of its program      *)
(* says.                                                                 *)

Queues ==
  \A l \in Locks : /\ Single(queue[l])
                   /\ \A i \in DOMAIN queue[l] : /\ proc[queue[l][i].by].op # Nothing
                                                 /\ queue[l][i].shared => l = "gate"

\* p has just asked for l, and has all else it wants
Asked(p, l) ==
  /\ Active(p) /\ proc[p].pc > 1 /\ Asks(Program(proc[p].op)[proc[p].pc - 1])
  /\ Program(proc[p].op)[proc[p].pc - 1][2] = l
  /\ Wants(p) \ {l} \subseteq KnownAt(proc[p].op, proc[p].pc - 1).may
  /\ KnownAt(proc[p].op, proc[p].pc - 1).has \subseteq Wants(p) \ {l}

Keeping(p) ==
  /\ Active(p) => Wants(p) \subseteq Kn(p).may /\ Kn(p).has \subseteq Wants(p)
  /\ proc[p].failed /\ ~Ended(p) =>
       /\ Wants(p) \cap Arg(p)[1] \subseteq KnownAt(proc[p].op, proc[p].pc + 1).may
       /\ KnownAt(proc[p].op, proc[p].pc + 1).has \subseteq Wants(p) \cap Arg(p)[1]
Granting(p) == \A l \in Wants(p) : Granted(p, l) \/ Asked(p, l)
Excluding(p) == Fact(p, "exclusive") => Writer(queue["gate"], p)

LockInv ==
  /\ Queues
  /\ \A p \in All : proc[p].op # Nothing => Keeping(p) /\ Granting(p) /\ Excluding(p)

LEMMA LockInit == OperationsInit => LockInv
<1> SUFFICES ASSUME OperationsInit PROVE LockInv
  OBVIOUS
<1>1. \A l \in Locks : queue[l] = <<>>
  BY DEF OperationsInit
<1>2. \A p \in All : proc[p].op = Nothing
  BY IdleProcess DEF OperationsInit
<1> QED
  BY <1>1, <1>2 DEF LockInv, Queues, Single

\* the requests of q are not disturbed
Sparing(s, t, q) ==
  (In(t, q) <=> In(s, q)) /\ (Heads(s, q) => Heads(t, q)) /\ (Writer(s, q) => Writer(t, q))
Spared(q) == \A l \in Locks : Sparing(queue[l], queue'[l], q)

LEMMA SparedWants ==
  ASSUME NEW q, Spared(q)
  PROVE /\ Wants(q)' = Wants(q)
        /\ \A l \in Locks : Granted(q, l) => Granted(q, l)'
        /\ Writer(queue["gate"], q) => Writer(queue["gate"], q)'
<1>1. \A l \in Locks : Granted(q, l)' <=> Heads(queue'[l], q)
  BY DEF Granted, Place, Heads
<1>2. \A l \in Locks : l \in Wants(q)' <=> In(queue'[l], q)
  BY DEF Wants, Place, In
<1>3. Wants(q)' \subseteq Locks /\ Wants(q) \subseteq Locks /\ "gate" \in Locks
  BY DEF Wants, Locks
<1>4. Writer(queue["gate"], q)' <=> Writer(queue'["gate"], q)
  BY DEF Writer
<1> QED
  BY <1>1, <1>2, <1>3, <1>4, LocksOf DEF Spared, Sparing

LEMMA LockSteady ==
  ASSUME NEW q, Spared(q), Steady(q), Keeping(q), Granting(q), Excluding(q)
  PROVE (Keeping(q) /\ Granting(q) /\ Excluding(q))'
<1>1. Kn(q)' = Kn(q) /\ (Active(q)' <=> Active(q)) /\ (Fact(q, "exclusive")' <=> Fact(q, "exclusive"))
      /\ (Ended(q)' <=> Ended(q)) /\ Arg(q)' = Arg(q)
  BY DEF Steady, Kn, Active, Fact, Ended, Arg, Instr
<1>2. Wants(q)' = Wants(q) /\ \A l \in Locks : Granted(q, l) => Granted(q, l)'
  BY SparedWants
<1>3. Keeping(q)'
  BY <1>1, <1>2 DEF Keeping, Steady
<1>4. \A l : Asked(q, l) => Asked(q, l)'
  BY <1>1, <1>2 DEF Asked, Steady
<1>5. Granting(q)'
  BY <1>2, <1>4 DEF Granting, Wants
<1>6. Excluding(q)'
  BY <1>1, SparedWants DEF Excluding
<1> QED
  BY <1>3, <1>5, <1>6

LEMMA LockBegins ==
  ASSUME TypeOK, NEW q \in All, Queues, Spared(q), Begins(q)
  PROVE (Keeping(q) /\ Granting(q) /\ Excluding(q))'
<1>1. proc[q].op = Nothing /\ proc'[q].op \in DOMAIN Programs /\ proc'[q].pc = 1 /\ ~proc'[q].failed
  BY DEF Begins
<1>2. Wants(q) = {}
  BY <1>1 DEF Queues, Wants, Place
<1>3. Wants(q)' = {}
  BY <1>2, SparedWants
<1>4. KnownAt(proc'[q].op, proc'[q].pc) = Beginning
  BY <1>1, DisciplineAssumption DEF Disciplined
<1>5. Kn(q)' = KnownAt(proc'[q].op, proc'[q].pc)
  BY DEF Kn
<1>6. Keeping(q)'
  BY <1>1, <1>3, <1>4, <1>5 DEF Keeping, Beginning
<1>7. Granting(q)'
  BY <1>3 DEF Granting
<1>8. ~Fact(q, "exclusive")'
  BY BeginsFresh DEF Debts
<1> QED
  BY <1>6, <1>7, <1>8 DEF Excluding

\* locks p gives up
Sheds(p, ls) == queue' = [l \in Locks |-> IF l \in ls THEN Leave(queue[l], p) ELSE queue[l]]

LEMMA ShedsQueues ==
  ASSUME TypeOK, Queues, NEW p \in All, NEW ls, Sheds(p, ls)
  PROVE /\ Wants(p)' = Wants(p) \ ls
        /\ \A l \in Wants(p) \ ls : Granted(p, l) => Granted(p, l)'
        /\ Writer(queue["gate"], p) => Writer(queue["gate"], p)'
        /\ \A q \in All : q # p => Spared(q)
        /\ \A l \in Locks : Single(queue'[l])
        /\ \A l \in Locks : \A i \in DOMAIN queue'[l] : \E j \in DOMAIN queue[l] : queue'[l][i] = queue[l][j]
<1> DEFINE R == [by : All, shared : BOOLEAN]
<1>0. \A l \in Locks : queue[l] \in Seq(R) /\ Single(queue[l])
  BY DEF TypeOK, Queues
<1> HIDE DEF R
<1>1. \A l \in Locks : queue'[l] = IF l \in ls THEN Leave(queue[l], p) ELSE queue[l]
  BY DEF Sheds
<1>2. ASSUME NEW l \in Locks
      PROVE /\ In(queue'[l], p) <=> In(queue[l], p) /\ l \notin ls
            /\ l \notin ls => queue'[l] = queue[l]
            /\ Writer(queue[l], p) => Writer(queue'[l], p)
            /\ Single(queue'[l])
            /\ \A i \in DOMAIN queue'[l] : \E j \in DOMAIN queue[l] : queue'[l][i] = queue[l][j]
            /\ \A q : q # p => Sparing(queue[l], queue'[l], q)
  <2>1. CASE l \notin ls
    BY <1>0, <1>1, <2>1 DEF Sparing
  <2>2. CASE l \in ls
    <3>1. queue'[l] = Leave(queue[l], p) /\ queue[l] \in Seq(R) /\ Single(queue[l])
      BY <1>0, <1>1, <2>2
    <3>2. /\ ~In(queue'[l], p) /\ Single(queue'[l])
          /\ \A i \in DOMAIN queue'[l] : \E j \in DOMAIN queue[l] : queue'[l][i] = queue[l][j]
          /\ \A q : q # p => Sparing(queue[l], queue'[l], q)
      BY <3>1, LeaveQueue DEF Sparing
    <3>3. Writer(queue'[l], p)
      BY <3>2 DEF Writer, In
    <3>4. /\ In(queue'[l], p) <=> In(queue[l], p) /\ l \notin ls
          /\ l \notin ls => queue'[l] = queue[l]
      BY <2>2, <3>2
    <3> QED
      BY <3>2, <3>3, <3>4
  <2> QED
    BY <2>1, <2>2
<1>3. \A l \in Locks : Granted(p, l)' <=> Heads(queue'[l], p)
  BY DEF Granted, Place, Heads
<1>4. \A l \in Locks : l \in Wants(p)' <=> In(queue'[l], p)
  BY DEF Wants, Place, In
<1>5. Wants(p)' \subseteq Locks /\ Wants(p) \subseteq Locks /\ "gate" \in Locks
  BY DEF Wants, Locks
<1>6. Wants(p)' = Wants(p) \ ls
  BY <1>2, <1>4, <1>5, LocksOf
<1>7. \A l \in Wants(p) \ ls : Granted(p, l) => Granted(p, l)'
  BY <1>2, <1>3, <1>5, LocksOf
<1>8. Writer(queue["gate"], p)' <=> Writer(queue'["gate"], p)
  BY DEF Writer
<1>9. \A q \in All : q # p => Spared(q)
  BY <1>2 DEF Spared
<1> QED
  BY <1>2, <1>5, <1>6, <1>7, <1>8, <1>9

LEMMA SameSpared ==
  ASSUME NEW q, queue' = queue PROVE Spared(q)
  BY DEF Spared, Sparing

-----------------------------------------------------------------------------
\* what a step does to the queues
LEMMA StepQueue ==
  ASSUME TypeOK, Control, NEW p \in Live, Step(p)
  PROVE \/ Acquire(p) \/ Release(p) \/ CatchStep(p) \/ Return(p)
        \/ queue' = queue /\ Here(p) /\ Instr(p)[1] \notin {"lock", "read", "drop", "catch"}
<1>1. CASE Ticket(p) \/ Fresh(p) \/ BeginReplacement(p) \/ Unless(p)
  BY <1>1, AtHere DEF Ticket, Fresh, BeginReplacement, Unless, locking
<1>2. CASE Verify(p)
  BY <1>2, AtHere DEF Verify, locking, Checks, Refusals
<1>3. CASE Choose(p)
  BY <1>3, AtHere DEF Choose, locking
<1>9. CASE Edit(p)
  <2>1. At(p, "edit") /\ UNCHANGED locking
    BY <1>9, Zenon DEF Edit
  <2> QED
    BY <2>1, AtHere DEF locking
<1>10. CASE Build(p)
  BY <1>10, AtHere DEF Build, locking
<1>4. CASE Connect(p) \/ StillValid(p) \/ StillAllowed(p) \/ Close(p) \/ Use(p)
  BY <1>4, AtHere DEF Connect, StillValid, StillAllowed, Close, Use, locking
<1>5. CASE ForwardStart(p) \/ StopForwards(p) \/ StopOne(p) \/ SpawnRestore(p)
  BY <1>5, AtHere DEF ForwardStart, StopForwards, StopOne, SpawnRestore, locking
<1>6. CASE ServerStep(p) \/ StartServer(p) \/ Again(p)
  BY <1>6, AtHere DEF ServerStep, StartServer, Again, locking
<1>7. CASE Reply(p)
  BY <1>7, AtHere DEF Reply, locking
<1>12. CASE Startup(p)
  BY <1>12, StartupCases DEF locking
<1>11. CASE Drain(p)
  BY <1>11, DrainCases DEF locking
<1>8. CASE Plan(p) \/ WriteBackup(p) \/ RemoveFiles(p)
  BY <1>8, AtHere DEF Plan, WriteBackup, RemoveFiles, locking
<1> QED
  BY <1>1, <1>2, <1>3, <1>4, <1>5, <1>6, <1>7, <1>8, <1>9, <1>10, <1>11, <1>12 DEF Step

\* p has every lock it wants
LEMMA RunsGranted ==
  ASSUME NEW p, ~Waiting(p), NEW l \in Wants(p) PROVE Granted(p, l)
  BY DEF Waiting

LEMMA LockAcquire ==
  ASSUME TypeOK, Control, LockInv, NEW p \in Live, ~Waiting(p), Acquire(p)
  PROVE LockInv'
<1> DEFINE o == proc[p].op
           c == proc[p].pc
           i == Program(o)[c]
           k == KnownAt(o, c)
           l == i[2]
           e == [by |-> p, shared |-> i[1] = "read"]
           R == [by : All, shared : BOOLEAN]
<1>1. /\ p \in All /\ Here(p) /\ ~proc[p].failed /\ Instr(p)[1] # "catch" /\ Asks(i) /\ o # Nothing
  BY AtHere, SMTT(30) DEF Acquire, Asks, Instr, Here
<1>2. Go(p) /\ queue' = [queue EXCEPT ![l] = Append(@, e)]
  BY DEF Acquire, Instr, Arg
<1>3. Shape(p) /\ Advances(p) /\ proc'[p].op = o /\ proc'[p].pc = c + 1 /\ ~proc'[p].failed /\ Alone(p)
  <2>1. Advances(p) /\ Alone(p) /\ Moves(p)
    BY <1>1, <1>2, Gone
  <2>2. proc'[p].op = o
    <3>1. Skip(proc[p], 1).op = o
      BY <1>1, SkipProcess DEF TypeOK
    <3>2. proc'[p] = Skip(proc[p], 1)
      BY <1>1, <1>2, Zenon DEF Go, Become, TypeOK
    <3> QED
      BY <3>1, <3>2
  <2> QED
    BY <2>1, <2>2, AcquireShape, SMTT(30) DEF Advances
<1>4. /\ FlowKept(o, c) /\ LocksOrdered(o, c) /\ c \in 1..Len(Program(o)) /\ Disciplined(o)
  BY <1>1, Static DEF Here
<1>5. /\ l \in Locks \ k.may /\ (i[1] = "read" => l = "gate")
      /\ Follows(After(i, k), o, c + 1)
  BY <1>1, <1>4 DEF LocksOrdered, FlowKept, Asks
<1>6. Active(p) /\ Wants(p) \subseteq k.may /\ k.has \subseteq Wants(p) /\ Excluding(p)
  BY <1>1 DEF LockInv, Keeping, Active, Kn
<1>7. \A m \in Locks : queue[m] \in Seq(R) /\ Single(queue[m])
  BY DEF TypeOK, LockInv, Queues
<1>8. e \in R /\ e.by = p /\ (e.shared <=> i[1] = "read")
  BY <1>1
<1>9. queue'[l] = Append(queue[l], e) /\ \A m \in Locks : m # l => queue'[m] = queue[m]
  <2>1. queue \in [Locks -> Seq(R)]
    BY DEF TypeOK
  <2> HIDE DEF e, R
  <2> QED
    BY <1>2, <1>5, <2>1, Zenon
<1> HIDE DEF e, R
<1>10. ~In(queue[l], p)
  BY <1>5, <1>6, LocksOf
<1>11. ASSUME NEW q \in All, q # p PROVE Spared(q)
  <2>1. ASSUME NEW m \in Locks PROVE Sparing(queue[m], queue'[m], q)
    <3>1. CASE m = l
      <4>1. queue[m] \in Seq(R) /\ e \in R /\ q # e.by
        BY <1>7, <1>8, <1>11
      <4>2. Sparing(queue[m], Append(queue[m], e), q)
        BY <4>1, AppendQueue DEF Sparing
      <4> QED
        BY <1>9, <3>1, <4>2, Zenon
    <3>2. CASE m # l
      BY <1>9, <3>2, Zenon DEF Sparing
    <3> QED
      BY <3>1, <3>2
  <2> QED
    BY <2>1 DEF Spared
<1>12. /\ Single(queue'[l]) /\ In(queue'[l], p)
       /\ ~e.shared => Writer(queue'[l], p)
       /\ \A a \in DOMAIN queue'[l] : queue'[l][a] = e \/ \E b \in DOMAIN queue[l] : queue'[l][a] = queue[l][b]
  <2> HIDE DEF l
  <2>1. queue[l] \in Seq(R) /\ e \in R /\ Single(queue[l]) /\ ~In(queue[l], e.by) /\ e.by = p
    BY <1>5, <1>7, <1>8, <1>10
  <2> DEFINE t == Append(queue[l], e)
  <2>2. /\ Single(t) /\ In(t, e.by) /\ (~e.shared => Writer(t, e.by))
        /\ \A a \in DOMAIN t : t[a] = e \/ \E b \in DOMAIN queue[l] : t[a] = queue[l][b]
    BY <2>1, AppendOwn
  <2>3. queue'[l] = t
    BY <1>9
  <2> HIDE DEF t
  <2> QED
    BY <2>1, <2>2, <2>3
<1>13. \A q \in All : proc[q].op # Nothing => proc'[q].op # Nothing
  BY <1>1, <1>3 DEF Alone
<1>14. Queues'
  <2> SUFFICES ASSUME NEW m \in Locks
               PROVE /\ Single(queue'[m])
                     /\ \A a \in DOMAIN queue'[m] : /\ proc'[queue'[m][a].by].op # Nothing
                                                    /\ queue'[m][a].shared => m = "gate"
    BY DEF Queues, Single
  <2>0. \A a \in DOMAIN queue[m] : /\ queue[m][a].by \in All /\ proc[queue[m][a].by].op # Nothing
                                   /\ queue[m][a].shared => m = "gate"
    <3>1. \A a \in DOMAIN queue[m] : queue[m][a] \in R
      BY <1>7
    <3> QED
      BY <3>1 DEF LockInv, Queues, R
  <2>1. CASE m = l
    <3> HIDE DEF l
    <3>1. proc'[e.by].op # Nothing /\ (e.shared => m = "gate")
      BY <1>1, <1>3, <1>5, <1>8, <2>1
    <3>2. ASSUME NEW a \in DOMAIN queue'[m]
          PROVE proc'[queue'[m][a].by].op # Nothing /\ (queue'[m][a].shared => m = "gate")
      <4>1. CASE queue'[m][a] = e
        BY <3>1, <4>1
      <4>2. ASSUME NEW b \in DOMAIN queue[m], queue'[m][a] = queue[m][b]
            PROVE proc'[queue'[m][a].by].op # Nothing /\ (queue'[m][a].shared => m = "gate")
        BY <1>13, <2>0, <4>2
      <4> QED
        BY <1>12, <2>1, <4>1, <4>2
    <3> QED
      BY <1>12, <2>1, <3>2
  <2>2. CASE m # l
    BY <1>7, <1>9, <1>13, <2>0, <2>2, Zenon
  <2> QED
    BY <2>1, <2>2
<1>15. Wants(p)' = Wants(p) \cup {l} /\ l \notin Wants(p)
  <2>1. \A m \in Locks : m \in Wants(p)' <=> In(queue'[m], p)
    BY DEF Wants, Place, In
  <2>2. Wants(p)' \subseteq Locks /\ Wants(p) \subseteq Locks
    BY DEF Wants
  <2> QED
    BY <1>5, <1>9, <1>10, <1>12, <2>1, <2>2, LocksOf, ZenonT(60)
<1>16. \A m \in Wants(p) : Granted(p, m)'
  <2>1. ASSUME NEW m \in Wants(p) PROVE Granted(p, m)'
    <3>1. m \in Locks /\ m # l /\ Heads(queue[m], p)
      BY <1>15, RunsGranted, LocksOf DEF Wants
    <3>2. Granted(p, m)' <=> Heads(queue'[m], p)
      BY DEF Granted, Place, Heads
    <3> QED
      BY <1>9, <3>1, <3>2, Zenon
  <2> QED
    BY <2>1
<1>17. Kn(p)' = KnownAt(o, c + 1) /\ Active(p)'
  BY <1>1, <1>3 DEF Kn, Active
<1>18. Keeping(p)'
  <2>1. After(i, k).has = k.has \cup {l} /\ After(i, k).may = k.may \cup {l}
    BY <1>1 DEF After, Kept, LocksAfter
  <2>2. Wants(p)' \subseteq Kn(p).may' /\ Kn(p).has' \subseteq Wants(p)'
    BY <1>5, <1>6, <1>15, <1>17, <2>1 DEF Follows
  <2> QED
    BY <1>3, <2>2 DEF Keeping
<1>19. Granting(p)'
  <2>1. proc'[p].pc - 1 = c /\ proc'[p].pc > 1
    BY <1>3, <1>4
  <2>3. Wants(p)' \ {l} = Wants(p)
    BY <1>15
  <2>4. Program(proc'[p].op)[proc'[p].pc - 1] = i /\ KnownAt(proc'[p].op, proc'[p].pc - 1) = k
    BY <1>3, <2>1
  <2>5. Asks(Program(proc'[p].op)[proc'[p].pc - 1]) /\ Program(proc'[p].op)[proc'[p].pc - 1][2] = l
    BY <1>1, <2>4
  <2>6. /\ Wants(p)' \ {l} \subseteq KnownAt(proc'[p].op, proc'[p].pc - 1).may
        /\ KnownAt(proc'[p].op, proc'[p].pc - 1).has \subseteq Wants(p)' \ {l}
    BY <1>6, <2>3, <2>4
  <2> HIDE DEF o, c, i, k, l
  <2>2. \A m : m = l => Asked(p, m)'
    BY <1>17, <2>1, <2>5, <2>6 DEF Asked
  <2>8. \A m \in Wants(p)' : Granted(p, m)' \/ Asked(p, m)'
    BY <1>15, <1>16, <2>2
  <2> QED
    BY <2>8 DEF Granting
<1>20. Excluding(p)'
  <2> SUFFICES ASSUME Fact(p, "exclusive")' PROVE Writer(queue'["gate"], p)
    BY DEF Excluding, Writer
  <2>1. ~Steady(p)
    BY <1>3, <1>4 DEF Steady
  <2>2. Fact(p, "exclusive") \/ Gains(i, "exclusive")
    BY <1>1, <1>3, <2>1, FactFrom DEF Debts, Instr
  <2>3. CASE Fact(p, "exclusive")
    <3>1. "gate" \in k.has
      BY <1>4, <2>3 DEF Fact, Kn, Disciplined, FactsGuarded
    <3>2. "gate" # l /\ "gate" \in Locks
      BY <1>6, <1>15, <3>1 DEF Locks
    <3> QED
      BY <1>6, <1>9, <2>3, <3>2, Zenon DEF Excluding
  <2>4. CASE Gains(i, "exclusive")
    <3>1. i[1] = "lock" /\ l = "gate"
      BY <2>4 DEF Gains, Is
    <3> QED
      BY <1>8, <1>12, <3>1
  <2> QED
    BY <2>2, <2>3, <2>4
<1>21. ASSUME NEW q \in All, proc'[q].op # Nothing PROVE (Keeping(q) /\ Granting(q) /\ Excluding(q))'
  <2>1. CASE q = p
    BY <1>18, <1>19, <1>20, <2>1
  <2>2. CASE q # p
    <3>1. Steady(q) /\ proc[q].op # Nothing
      BY <1>3, <1>21, <2>2 DEF Alone, Steady
    <3> QED
      BY <1>11, <2>2, <3>1, LockSteady DEF LockInv
  <2> QED
    BY <2>1, <2>2
<1> QED
  BY <1>14, <1>21 DEF LockInv
LEMMA SameSheds ==
  ASSUME TypeOK, NEW p, queue' = queue PROVE Sheds(p, {})
  BY DEF TypeOK, Sheds

\* p gives up locks, and what is known of its own locks is shown elsewhere
LEMMA LockShed ==
  ASSUME TypeOK, Control, LockInv, NEW p \in All, Shape(p), NEW ls, Sheds(p, ls),
         proc'[p].op = Nothing => Locks \subseteq ls,
         proc'[p].op # Nothing => (Keeping(p) /\ Granting(p))'
  PROVE LockInv'
<1>0. Queues /\ \A q \in All : proc[q].op # Nothing => Keeping(q) /\ Granting(q) /\ Excluding(q)
  BY DEF LockInv
<1>1. /\ Wants(p)' = Wants(p) \ ls
      /\ Writer(queue["gate"], p) => Writer(queue["gate"], p)'
      /\ \A q \in All : q # p => Spared(q)
      /\ \A l \in Locks : Single(queue'[l])
      /\ \A l \in Locks : \A i \in DOMAIN queue'[l] : \E j \in DOMAIN queue[l] : queue'[l][i] = queue[l][j]
  BY <1>0, ShedsQueues
<1>2. \A q \in All : q # p /\ proc[q].op # Nothing => proc'[q].op # Nothing
  BY DEF Shape, Aside, Steady, Begins
<1>3. ASSUME NEW l \in Locks, NEW i \in DOMAIN queue'[l]
      PROVE proc'[queue'[l][i].by].op # Nothing /\ (queue'[l][i].shared => l = "gate")
  <2>1. PICK j \in DOMAIN queue[l] : queue'[l][i] = queue[l][j]
    BY <1>1
  <2> DEFINE q == queue[l][j].by
  <2>2. q \in All /\ proc[q].op # Nothing /\ (queue[l][j].shared => l = "gate")
    <3> DEFINE R == [by : All, shared : BOOLEAN]
    <3>1. queue[l] \in Seq(R)
      BY DEF TypeOK
    <3> HIDE DEF R
    <3>2. queue[l][j] \in R
      BY <2>1, <3>1
    <3> QED
      BY <1>0, <2>1, <3>2 DEF Queues, R
  <2>3. CASE q = p /\ proc'[p].op = Nothing
    <3>1. Wants(p)' = {}
      BY <1>1, <2>3 DEF Wants
    <3>2. l \in Wants(p)'
      BY <2>1, <2>3 DEF Wants, Place
    <3> QED
      BY <3>1, <3>2
  <2> QED
    BY <1>2, <2>1, <2>2, <2>3
<1>4. Queues'
  <2>1. \A l \in Locks : /\ Single(queue'[l])
                         /\ \A i \in DOMAIN queue'[l] : /\ proc'[queue'[l][i].by].op # Nothing
                                                        /\ queue'[l][i].shared => l = "gate"
    BY <1>1, <1>3
  <2> QED
    BY <2>1 DEF Queues, Single
<1>5. ASSUME proc'[p].op # Nothing PROVE Excluding(p)'
  <2>1. ASSUME Fact(p, "exclusive")' PROVE Writer(queue["gate"], p)'
    <3>1. CASE Fact(p, "exclusive")
      BY <1>0, <1>1, <3>1 DEF Excluding, Fact, Active
    <3>2. CASE Here(p) /\ ~proc[p].failed /\ Gains(Instr(p), "exclusive") /\ Advances(p) /\ proc'[p].op = proc[p].op
      <4> DEFINE o == proc[p].op
                 c == proc[p].pc
      <4>1. Is(Program(o)[c], "lock", "gate") /\ o # Nothing /\ ~Ended(p)
        BY <3>2 DEF Gains, Instr, Here, Is
      <4>2. FlowKept(o, c) /\ LocksOrdered(o, c)
        BY <4>1, Static
      <4>3. "gate" \notin KnownAt(o, c).may
        BY <4>1, <4>2 DEF LocksOrdered, Is, Asks
      <4>4. Wants(p) \subseteq KnownAt(o, c).may
        BY <1>0, <3>2, <4>1 DEF Keeping, Active, Kn
      <4>5. ~In(queue["gate"], p)
        BY <4>3, <4>4, LocksOf DEF Locks
      <4>6. Writer(queue["gate"], p)
        BY <4>5 DEF Writer, In
      <4> QED
        BY <1>1, <4>6
    <3> QED
      BY <2>1, <3>1, <3>2, FactFrom DEF Debts
  <2> QED
    BY <2>1 DEF Excluding
<1>6. ASSUME NEW q \in All, proc'[q].op # Nothing PROVE (Keeping(q) /\ Granting(q) /\ Excluding(q))'
  <2>1. CASE q = p
    BY <1>5, <1>6, <2>1
  <2>2. CASE q # p /\ Steady(q)
    <3>1. proc[q].op # Nothing
      BY <1>6, <2>2 DEF Steady
    <3> QED
      BY <1>0, <1>1, <2>2, <3>1, LockSteady
  <2>3. CASE q # p /\ Begins(q)
    BY <1>0, <1>1, <2>3, LockBegins
  <2> QED
    BY <2>1, <2>2, <2>3 DEF Shape, Aside
<1> QED
  BY <1>4, <1>6 DEF LockInv

\* p itself goes on with the locks W it has left
LEMMA LockOn ==
  ASSUME NEW p, NEW W, Wants(p)' = W, \A l \in W : Granted(p, l)',
         proc'[p].op # Nothing, ~proc'[p].failed,
         W \subseteq KnownAt(proc'[p].op, proc'[p].pc).may, KnownAt(proc'[p].op, proc'[p].pc).has \subseteq W
  PROVE (Keeping(p) /\ Granting(p))'
<1>1. Kn(p)' = KnownAt(proc'[p].op, proc'[p].pc)
  BY DEF Kn
<1>2. Keeping(p)'
  BY <1>1 DEF Keeping
<1>3. Granting(p)'
  BY DEF Granting
<1> QED
  BY <1>2, <1>3

LEMMA LockRelease ==
  ASSUME TypeOK, Control, LockInv, NEW p \in Live, ~Waiting(p), Release(p)
  PROVE LockInv'
<1> DEFINE o == proc[p].op
           c == proc[p].pc
           i == Program(o)[c]
           k == KnownAt(o, c)
           ls == i[2]
<1>1. /\ p \in All /\ Here(p) /\ ~proc[p].failed /\ i[1] = "drop" /\ o # Nothing /\ Shape(p)
  BY AtHere, ReleaseShape DEF Release, Instr, Here
<1>2. proc'[p].op = o /\ proc'[p].pc = c + 1 /\ ~proc'[p].failed
  <2> DEFINE r == [proc[p] EXCEPT !.replacing = @ /\ "mutation" \notin Arg(p)]
  <2>0. proc[p] \in Process /\ proc \in [All -> Process]
    BY <1>1 DEF TypeOK
  <2>1. r \in Process /\ r.op = o /\ r.pc = c /\ r.failed = proc[p].failed
    BY <2>0 DEF Process
  <2>2. proc' = [proc EXCEPT ![p] = Skip(r, 1)]
    BY DEF Release, GoWith, Become
  <2> HIDE DEF r
  <2>3. proc'[p] = Skip(r, 1)
    BY <1>1, <2>0, <2>2
  <2> QED
    BY <1>1, <2>1, <2>3, SkipProcess
<1>3. Sheds(p, ls)
  BY DEF Release, Unlock, Sheds, Instr, Arg
<1>4. Follows(After(i, k), o, c + 1)
  BY <1>1, Static DEF FlowKept, Here
<1>5. After(i, k).has = k.has \ ls /\ After(i, k).may = k.may \ ls
  BY <1>1 DEF After, Kept, LocksAfter, Asks
<1>6. Wants(p) \subseteq k.may /\ k.has \subseteq Wants(p) /\ Queues
  BY <1>1 DEF LockInv, Keeping, Active, Kn
<1>7. Wants(p)' = Wants(p) \ ls /\ \A l \in Wants(p) \ ls : Granted(p, l)'
  BY <1>1, <1>3, <1>6, ShedsQueues, RunsGranted
<1> HIDE DEF ls
<1>8. (Keeping(p) /\ Granting(p))'
  <2>1. Wants(p) \ ls \subseteq KnownAt(o, c + 1).may /\ KnownAt(o, c + 1).has \subseteq Wants(p) \ ls
    BY <1>4, <1>5, <1>6 DEF Follows
  <2> QED
    BY <1>1, <1>2, <1>7, <2>1, LockOn
<1> QED
  BY <1>1, <1>2, <1>3, <1>8, LockShed

LEMMA LockCatch ==
  ASSUME TypeOK, Control, LockInv, NEW p \in Live, ~Waiting(p), CatchStep(p)
  PROVE LockInv'
<1> DEFINE o == proc[p].op
           c == proc[p].pc
           i == Program(o)[c]
           k == KnownAt(o, c)
<1>0. p \in All /\ o # Nothing
  BY DEF Live
<1>1. Shape(p) /\ proc'[p].op = o /\ i[1] = "catch"
  BY CatchCases DEF Instr
<1>2. Keeping(p) /\ Queues
  BY <1>0 DEF LockInv
<1>3. CASE Handles(p) /\ Unlock(p, Locks \ Arg(p)[1])
  <2> DEFINE keep == i[2][1]
             ls == Locks \ keep
  <2>1. proc'[p].pc = c + 1 /\ ~proc'[p].failed /\ proc[p].failed /\ ~Ended(p)
    BY <1>3 DEF Handles, Here
  <2>2. Sheds(p, ls)
    BY <1>3 DEF Unlock, Sheds, Instr, Arg
  <2>3. /\ Wants(p) \cap keep \subseteq KnownAt(o, c + 1).may
        /\ KnownAt(o, c + 1).has \subseteq Wants(p) \cap keep
    BY <1>2, <2>1 DEF Keeping, Instr, Arg
  <2> HIDE DEF keep
  <2>4. Wants(p)' = Wants(p) \ ls /\ \A l \in Wants(p) \ ls : Granted(p, l)'
    BY <1>0, <1>2, <2>2, ShedsQueues, RunsGranted
  <2>5. Wants(p) \ ls = Wants(p) \cap keep
    BY DEF Wants
  <2> HIDE DEF ls
  <2>6. (Keeping(p) /\ Granting(p))'
    BY <1>0, <1>1, <2>1, <2>3, <2>4, <2>5, LockOn
  <2> QED
    BY <1>0, <1>1, <2>2, <2>6, LockShed
<1>4. CASE Passes(p) /\ queue' = queue
  <2>1. proc'[p].pc = c + 1 + i[2][3] /\ ~proc'[p].failed /\ ~proc[p].failed /\ Here(p)
    BY <1>4 DEF Passes, Instr, Arg
  <2>2. Sheds(p, {})
    BY <1>4, SameSheds
  <2>3. Follows(k, o, c + 1 + i[2][3])
    BY <1>0, <1>1, <2>1, Static, Zenon DEF FlowKept, Here
  <2>4. Wants(p) \subseteq k.may /\ k.has \subseteq Wants(p)
    BY <1>0, <1>2, <2>1 DEF Keeping, Active, Kn
  <2>5. Wants(p)' = Wants(p) \ {} /\ \A l \in Wants(p) \ {} : Granted(p, l)'
    BY <1>0, <1>2, <2>2, ShedsQueues, RunsGranted, SMTT(30)
  <2>6. (Keeping(p) /\ Granting(p))'
    <3>1. Wants(p) \subseteq KnownAt(o, c + 1 + i[2][3]).may /\ KnownAt(o, c + 1 + i[2][3]).has \subseteq Wants(p)
      BY <2>3, <2>4, Zenon DEF Follows
    <3>2. Wants(p)' = Wants(p) /\ \A l \in Wants(p) : Granted(p, l)'
      BY <2>5
    <3> QED
      BY <1>0, <1>1, <2>1, <3>1, <3>2, LockOn
  <2> QED
    BY <1>0, <1>1, <2>2, <2>6, LockShed
<1> QED
  BY <1>3, <1>4, CatchCases

\* any other step
LEMMA LockSame ==
  ASSUME TypeOK, Control, LockInv, NEW p \in Live, ~Waiting(p), Shape(p),
         queue' = queue, Here(p), Instr(p)[1] \notin {"lock", "read", "drop", "catch"}
  PROVE LockInv'
<1> DEFINE o == proc[p].op
           c == proc[p].pc
           i == Program(o)[c]
           k == KnownAt(o, c)
<1>0. /\ p \in All /\ o # Nothing /\ ~proc[p].failed /\ ~Ended(p)
      /\ i[1] \notin {"lock", "read", "drop", "catch"}
  BY DEF Live, Control, Here, Instr
<1>1. Keeping(p) /\ Granting(p) /\ Queues
  BY <1>0 DEF LockInv
<1>2. Sheds(p, {})
  BY SameSheds
<1>3. Wants(p)' = Wants(p) /\ \A l \in Wants(p) : Granted(p, l)'
  <2>1. Wants(p)' = Wants(p) \ {} /\ \A l \in Wants(p) \ {} : Granted(p, l)'
    BY <1>0, <1>1, <1>2, ShedsQueues, RunsGranted
  <2> QED
    BY <2>1
<1>4. Wants(p) \subseteq k.may /\ k.has \subseteq Wants(p)
  BY <1>0, <1>1 DEF Keeping, Active, Kn
<1>5. FlowKept(o, c) /\ Disciplined(o)
  BY <1>0, Static
<1>6. ASSUME NEW m, Follows(m, o, proc'[p].pc), m.has = k.has, m.may = k.may, proc'[p].op = o, ~proc'[p].failed
      PROVE (Keeping(p) /\ Granting(p))'
  <2>1. Wants(p) \subseteq KnownAt(o, proc'[p].pc).may /\ KnownAt(o, proc'[p].pc).has \subseteq Wants(p)
    BY <1>4, <1>6 DEF Follows
  <2> QED
    BY <1>0, <1>3, <1>6, <2>1, LockOn
<1>7. CASE proc'[p].op # Nothing
  <2>1. CASE Steady(p)
    <3>1. Excluding(p) /\ Spared(p)
      BY <1>0, SameSpared DEF LockInv
    <3>2. (Keeping(p) /\ Granting(p))'
      BY <1>1, <2>1, <3>1, LockSteady
    <3> QED
      BY <1>0, <1>2, <1>7, <3>2, LockShed
  <2>2. CASE Advances(p) /\ proc'[p].op = o
    <3>1. After(i, k).has = k.has /\ After(i, k).may = k.may
      BY <1>0 DEF After, Kept, LocksAfter, Asks
    <3>2. Follows(After(i, k), o, proc'[p].pc) /\ ~proc'[p].failed
      BY <1>0, <1>5, <2>2 DEF FlowKept, Advances
    <3> QED
      BY <1>0, <1>2, <1>6, <2>2, <3>1, <3>2, LockShed
  <2>3. CASE Skips(p) /\ proc'[p].op = o
    <3>1. AfterSkip(i, k).has = k.has /\ AfterSkip(i, k).may = k.may
      BY SMTT(30) DEF AfterSkip
    <3>2. Follows(AfterSkip(i, k), o, proc'[p].pc) /\ ~proc'[p].failed
      BY <1>0, <1>5, <2>3 DEF FlowKept, Skips, Instr, Arg
    <3> QED
      BY <1>0, <1>2, <1>6, <2>3, <3>1, <3>2, LockShed
  <2>4. CASE Retries(p) /\ proc'[p].op = o
    <3>1. proc'[p].pc = 1 /\ ~proc'[p].failed /\ i[1] = "again"
      BY <2>4 DEF Retries, Instr
    <3>2. k.may = {} /\ KnownAt(o, 1) = Beginning
      BY <1>5, <3>1 DEF FlowKept, Disciplined
    <3>3. Wants(p) = {} /\ KnownAt(o, 1).has = {} /\ KnownAt(o, 1).may = {}
      BY <1>4, <3>2 DEF Beginning
    <3>4. (Keeping(p) /\ Granting(p))'
      BY <1>0, <1>3, <2>4, <3>1, <3>3, LockOn
    <3> QED
      BY <1>0, <1>2, <2>4, <3>4, LockShed
  <2>5. CASE Fails(p) /\ proc'[p].op = o
    <3> DEFINE d == CatcherOf(Program(o), c)
               keep == Program(o)[d][2][1]
    <3>1. proc'[p].pc = d /\ proc'[p].failed /\ MayFail(i)
      BY <2>5 DEF Fails, Catcher, Instr
    <3>2. /\ d \in Nat /\ Len(Program(o)) \in Nat
          /\ d <= Len(Program(o)) => Follows(AfterFailure(keep, k), o, d + 1)
      <4>1. Len(Program(o)) \in Nat /\ c \in Nat
        BY <1>0, Static
      <4>2. /\ d \in (c + 1)..(Len(Program(o)) + 1)
            /\ d <= Len(Program(o)) => Follows(AfterFailure(keep, k), o, d + 1)
        BY <1>5, <3>1 DEF FlowKept
      <4> QED
        BY <4>1, <4>2
    <3>3. Ended(p)' <=> d > Len(Program(o))
      BY <2>5, <3>1 DEF Ended
    <3>4. Arg(p)'[1] = keep
      BY <2>5, <3>1 DEF Arg, Instr
    <3>5. KnownAt(proc[p].op, proc[p].pc + 1)' = KnownAt(o, d + 1)
      BY <2>5, <3>1
    <3>6. d <= Len(Program(o)) => /\ Wants(p) \cap keep \subseteq KnownAt(o, d + 1).may
                                  /\ KnownAt(o, d + 1).has \subseteq Wants(p) \cap keep
      BY <1>4, <3>2 DEF Follows, AfterFailure
    <3> HIDE DEF d, keep
    <3>7. Keeping(p)'
      <4>1. ~Ended(p)' => d <= Len(Program(o))
        BY <3>2, <3>3
      <4> QED
        BY <1>3, <3>1, <3>4, <3>5, <3>6, <4>1 DEF Keeping, Active
    <3>8. Granting(p)'
      BY <1>3 DEF Granting
    <3> QED
      BY <1>0, <1>2, <2>5, <3>7, <3>8, LockShed
  <2> QED
    BY <1>0, <1>7, <2>1, <2>2, <2>3, <2>4, <2>5 DEF Shape, Moves, Begins, Passes, Handles, Instr
<1>8. CASE proc'[p].op = Nothing
  <2>1. Unlock(p, Locks)
    BY <1>0, <1>8, OperationsAssumption DEF Shape, Moves, Begins, Steady
  <2>2. Sheds(p, Locks)
    BY <2>1 DEF Unlock, Sheds
  <2> QED
    BY <1>0, <1>8, <2>2, LockShed
<1> QED
  BY <1>7, <1>8

LEMMA LockNext ==
  ASSUME TypeOK, Control, LockInv, NEW p \in All, Acts(p) PROVE LockInv'
<1>0. Shape(p)
  BY ActsShape
<1>1. CASE Runs(p) /\ Step(p)
  <2>0. p \in Live /\ ~Waiting(p) /\ Step(p)
    BY <1>1 DEF Runs
  <2>1. CASE Return(p)
    <3>1. Sheds(p, Locks) /\ proc'[p].op = Nothing
      <4>1. proc' = [proc EXCEPT ![p] = Idle] /\ proc \in [All -> Process]
        BY <2>1 DEF Return, Become, TypeOK
      <4> QED
        BY <2>1, <4>1, IdleProcess DEF Return, Unlock, Sheds
    <3> QED
      BY <1>0, <3>1, LockShed
  <2> QED
    BY <1>0, <2>0, <2>1, StepQueue, LockAcquire, LockRelease, LockCatch, LockSame
<1>2. CASE Start(p)
  <2>1. proc[p].op = Nothing /\ queue' = queue
    BY <1>2 DEF Start, Begin, locking
  <2>2. Begins(p) \/ proc'[p].op = Nothing
    BY <1>0, <2>1 DEF Shape, Moves
  <2>3. Begins(p)
    <3>1. proc'[p].op # Nothing
      <4>1. PICK i \in DOMAIN todo : Begin(p, todo[i])
        BY <1>2 DEF Start
      <4>2. todo[i] \in DOMAIN Programs
        <5>1. todo \in Seq(DOMAIN Programs)
          BY DEF TypeOK
        <5> QED
          BY <4>1, <5>1
      <4>3. proc' = [proc EXCEPT ![p] = [Idle EXCEPT !.op = todo[i]]] /\ proc \in [All -> Process]
        BY <4>1 DEF Begin, Become, TypeOK
      <4>4. proc'[p] = [Idle EXCEPT !.op = todo[i]]
        BY <4>3
      <4> QED
        BY <4>2, <4>4, IdleProcess, OperationsAssumption
    <3> QED
      BY <2>2, <3>1
  <2>4. (Keeping(p) /\ Granting(p))'
    BY <2>1, <2>3, LockBegins, SameSpared DEF LockInv
  <2>5. proc'[p].op # Nothing
    BY <2>3, OperationsAssumption DEF Begins
  <2> QED
    BY <1>0, <2>1, <2>4, <2>5, SameSheds, LockShed
<1>3. CASE ClientGone(p)
  <2>1. Sheds(p, Locks) /\ proc'[p] = Idle
    BY <1>3, GoneCases DEF Hands, Unlock, Sheds
  <2>2. proc'[p].op = Nothing
    BY <2>1, IdleProcess
  <2> QED
    BY <1>0, <2>1, <2>2, LockShed
<1> QED
  BY <1>1, <1>2, <1>3 DEF Acts

-----------------------------------------------------------------------------
(* The order of the locks: whoever waits, waits for somebody below it.   *)

LEMMA LockOfAll ==
  ASSUME TypeOK, LockInv, NEW l \in Locks, NEW i \in DOMAIN queue[l]
  PROVE queue[l] \in Seq([by : All, shared : BOOLEAN]) /\ queue[l][i].by \in Live
<1> DEFINE R == [by : All, shared : BOOLEAN]
<1>1. queue[l] \in Seq(R)
  BY DEF TypeOK
<1> HIDE DEF R
<1>2. queue[l][i] \in R
  BY <1>1
<1> QED
  BY <1>1, <1>2 DEF LockInv, Queues, R, Live

\* only one process has a lock, readers of the gate apart
LEMMA Exclusive ==
  ASSUME TypeOK, LockInv, NEW l \in Locks, NEW p, NEW q, Granted(p, l), Granted(q, l),
         l # "gate" \/ Writer(queue[l], p)
  PROVE p = q
<1> DEFINE R == [by : All, shared : BOOLEAN]
<1>1. queue[l] \in Seq(R)
  BY DEF TypeOK
<1> HIDE DEF R
<1>2. \/ p = q
      \/ \E i, j \in DOMAIN queue[l] : /\ queue[l][i].by = p /\ queue[l][j].by = q
                                       /\ queue[l][i].shared /\ queue[l][j].shared
  BY <1>1, LocksOf, HeadsShared
<1> QED
  BY <1>2 DEF LockInv, Queues, Writer

\* the locks a process surely has
LEMMA HeldGranted ==
  ASSUME TypeOK, Control, LockInv, NEW p \in All, Active(p), NEW l, l \in Held(proc[p].op, proc[p].pc)
  PROVE Granted(p, l) /\ l \in Locks
<1>1. Keeping(p) /\ Granting(p) /\ proc[p].op # Nothing
  BY DEF LockInv, Active
<1>2. l \in Wants(p)
  BY <1>1 DEF Keeping, Held, Kn
<1>3. ~Asked(p, l)
  BY DEF Asked, Held
<1> QED
  BY <1>1, <1>2, <1>3 DEF Granting, Wants

\* one that runs has all the locks it is known to have
LEMMA HasGranted ==
  ASSUME TypeOK, LockInv, NEW p \in All, Active(p), ~Waiting(p), NEW l, l \in Kn(p).has
  PROVE Granted(p, l) /\ l \in Locks
<1>1. Keeping(p)
  BY DEF LockInv, Active
<1> QED
  BY <1>1, RunsGranted DEF Keeping, Wants

\* a process that waits has asked for one lock, in the order of the locks
LEMMA WaitsFor ==
  ASSUME TypeOK, Control, LockInv, NEW p \in Live, NEW l \in Wants(p), ~Granted(p, l)
  PROVE /\ Asked(p, l) /\ Active(p) /\ l \in Locks
        /\ \A m \in Wants(p) : m # l =>
             /\ Granted(p, m) /\ l \in Below[m]
             /\ m \in {"server", "mutation"} => "apiOp" \in Wants(p) /\ Granted(p, "apiOp")
        /\ IsRest(proc[p].op) => l \in {"backup", "tunnel", "gate", "mutation"}
<1>0. p \in All /\ proc[p].op # Nothing
  BY DEF Live
<1>1. Asked(p, l) /\ Active(p) /\ l \in Locks
  BY <1>0 DEF LockInv, Granting, Asked, Wants
<1> DEFINE o == proc[p].op
           c == proc[p].pc
           k == KnownAt(o, c - 1)
           i == Program(o)[c - 1]
<1>2. c > 1 /\ Asks(i) /\ i[2] = l /\ Wants(p) \ {l} \subseteq k.may /\ k.has \subseteq Wants(p) \ {l}
  BY <1>1 DEF Asked
<1>3. c - 1 \in 1..Len(Program(o)) /\ Disciplined(o)
  <2>1. Len(Program(o)) \in Nat /\ c \in Nat /\ Disciplined(o)
    BY <1>0, Static
  <2>2. c \in 1..(Len(Program(o)) + 1)
    BY <1>0 DEF Control
  <2> QED
    BY <1>2, <2>1, <2>2
<1>4. LocksOrdered(o, c - 1)
  BY <1>3 DEF Disciplined
<1> HIDE DEF o, c
<1>5. /\ \A m \in k.may : l \in Below[m] /\ (m \in {"server", "mutation"} => "apiOp" \in k.has)
      /\ IsRest(o) => l \in {"backup", "tunnel", "gate", "mutation"}
  BY <1>2, <1>4 DEF LocksOrdered
<1>6. ASSUME NEW m \in Wants(p), m # l PROVE Granted(p, m)
  <2>1. ~Asked(p, m)
    BY <1>1, <1>6 DEF Asked
  <2> QED
    BY <1>0, <2>1 DEF LockInv, Granting
<1>7. ASSUME NEW m \in Wants(p), m # l
      PROVE /\ l \in Below[m]
            /\ m \in {"server", "mutation"} => "apiOp" \in Wants(p) /\ Granted(p, "apiOp")
  <2>1. m \in k.may
    BY <1>2, <1>7
  <2>2. "apiOp" \in k.has => "apiOp" \in Wants(p) /\ "apiOp" # l
    BY <1>2
  <2> QED
    BY <1>5, <1>6, <2>1, <2>2
<1> QED
  BY <1>1, <1>5, <1>6, <1>7 DEF o

\* whoever is first for a lock has it
LEMMA HolderOf ==
  ASSUME TypeOK, LockInv, NEW p, NEW l \in Wants(p)
  PROVE \E q \in Live : l \in Wants(q) /\ Granted(q, l)
<1> DEFINE R == [by : All, shared : BOOLEAN]
           q == queue[l][1].by
<1>0. l \in Locks
  BY DEF Wants
<1>1. queue[l] \in Seq(R) /\ In(queue[l], p)
  BY <1>0, LocksOf DEF TypeOK
<1> HIDE DEF R
<1>2. 1 \in DOMAIN queue[l] /\ Heads(queue[l], q)
  BY <1>1, FirstHeads
<1>3. q \in Live /\ In(queue[l], q)
  BY <1>0, <1>2, LockOfAll DEF In
<1> QED
  BY <1>0, <1>2, <1>3, LocksOf

\* all wait: then for each lock someone waits for, someone has it and waits for another
Stuck == \A p \in Live : Waiting(p)
Awaited(l) == \E p \in Live : l \in Wants(p) /\ ~Granted(p, l)

LEMMA AwaitedNext ==
  ASSUME TypeOK, Control, LockInv, Stuck, NEW l, Awaited(l)
  PROVE \E q \in Live, m \in Locks :
          /\ l \in Wants(q) /\ Granted(q, l)
          /\ m \in Wants(q) /\ ~Granted(q, m) /\ m \in Below[l]
          /\ l \in {"server", "mutation"} => Granted(q, "apiOp")
<1>1. PICK p \in Live : l \in Wants(p) /\ ~Granted(p, l)
  BY DEF Awaited
<1>2. PICK q \in Live : l \in Wants(q) /\ Granted(q, l)
  BY <1>1, HolderOf
<1>3. PICK m \in Wants(q) : ~Granted(q, m)
  BY DEF Stuck, Waiting
<1>4. m # l
  BY <1>2, <1>3
<1> QED
  BY <1>2, <1>3, <1>4, WaitsFor DEF Wants

LEMMA NotAwaited ==
  ASSUME TypeOK, Control, LockInv, Stuck PROVE \A l \in Locks : ~Awaited(l)
<1>2. ASSUME Awaited("mutation") PROVE FALSE
  <2>1. PICK q \in Live : "server" \in Wants(q) /\ ~Granted(q, "server") /\ Granted(q, "apiOp")
    BY <1>2, AwaitedNext DEF Below
  <2>2. Awaited("server")
    BY <2>1 DEF Awaited
  <2>3. PICK r \in Live : Granted(r, "server") /\ Granted(r, "apiOp")
    BY <2>2, AwaitedNext
  <2>4. q = r
    BY <2>1, <2>3, Exclusive DEF Locks
  <2> QED
    BY <2>1, <2>3, <2>4
<1>3. ~Awaited("server")
  <2> SUFFICES ASSUME Awaited("server") PROVE FALSE
    OBVIOUS
  <2>1. PICK q \in Live : "mutation" \in Wants(q) /\ ~Granted(q, "mutation")
    BY AwaitedNext DEF Below
  <2> QED
    BY <1>2, <2>1 DEF Awaited
<1>4. ASSUME NEW l, NEW S, Below[l] = S, \A m \in S : ~Awaited(m) PROVE ~Awaited(l)
  BY <1>4, AwaitedNext DEF Awaited
<1>5. ~Awaited("gate")
  BY <1>2, <1>3, <1>4 DEF Below
<1>6. ~Awaited("tunnel")
  BY <1>2, <1>3, <1>4, <1>5 DEF Below
<1>7. ~Awaited("backup")
  BY <1>2, <1>3, <1>4, <1>5, <1>6 DEF Below
<1>8. ~Awaited("apiOp")
  BY <1>2, <1>3, <1>4, <1>5, <1>6, <1>7 DEF Below
<1> QED
  BY <1>2, <1>3, <1>5, <1>6, <1>7, <1>8 DEF Locks

LEMMA LocksNoStuck ==
  ASSUME TypeOK, Control, LockInv PROVE NoStuck
<1> SUFFICES ASSUME NEW p \in Live, Stuck PROVE FALSE
  BY DEF NoStuck, Stuck
<1>1. PICK l \in Wants(p) : ~Granted(p, l)
  BY DEF Stuck, Waiting
<1> QED
  BY <1>1, NotAwaited DEF Awaited, Wants

LEMMA LocksDrain ==
  ASSUME TypeOK, Control, LockInv PROVE DrainNotSelfBlocked
<1> SUFFICES ASSUME NEW p \in Live, NEW q \in Handlers, At(p, "drain"), Blocks(p, q) PROVE FALSE
  BY DEF DrainNotSelfBlocked
<1>1. Wants(p) \subseteq {"apiOp"}
  <2>1. p \in All /\ Here(p) /\ ~proc[p].failed /\ Instr(p)[1] = "drain"
    BY AtHere
  <2>2. KnownAt(proc[p].op, proc[p].pc).may \subseteq {"apiOp"}
    BY <2>1, Static DEF LocksOrdered, Here, Instr
  <2>3. Keeping(p) /\ Active(p)
    BY <2>1 DEF LockInv, Here, Active
  <2> QED
    BY <2>2, <2>3 DEF Keeping, Kn
<1>2. q \in Live /\ IsRest(proc[q].op)
  BY DEF Handlers
<1>3. ASSUME NEW r \in Live, Ahead(p, r) PROVE "apiOp" \in Wants(r) /\ ~Granted(r, "apiOp")
  BY <1>1, <1>3 DEF Ahead, Wants
<1>4. ASSUME NEW r, NEW l \in Wants(q), ~Granted(q, l) PROVE l \in {"backup", "tunnel", "gate", "mutation"}
  BY <1>2, <1>4, WaitsFor
<1>5. ~Ahead(p, q)
  BY <1>2, <1>3, <1>4
<1>6. ASSUME NEW r \in Live, Ahead(p, r), Ahead(r, q) PROVE FALSE
  <2>1. PICK l \in Wants(q) : ~Granted(q, l) /\ l \in Wants(r)
    BY <1>6 DEF Ahead, Wants
  <2>2. l \in {"backup", "tunnel", "gate", "mutation"} /\ l \in Wants(r) /\ l # "apiOp"
    BY <1>4, <2>1
  <2>3. "apiOp" \in Below[l]
    BY <1>3, <1>6, <2>2, WaitsFor
  <2> QED
    BY <2>2, <2>3 DEF Below
<1> QED
  BY <1>5, <1>6 DEF Blocks

-----------------------------------------------------------------------------
LEMMA NextWhat ==
  ASSUME [OperationsNext]_operationsVars
  PROVE (\E p \in All : Acts(p)) \/ (UNCHANGED <<proc, locking, world>> /\ (todo' = todo \/ todo' = <<>>))
  BY DEF OperationsNext, Acts, Refused, Done, operationsVars

Core == TypeOK /\ Control /\ LockInv

LEMMA CoreInit == OperationsInit => Core
<1> SUFFICES ASSUME OperationsInit PROVE Core
  OBVIOUS
<1>1. Control
  BY IdleProcess DEF OperationsInit, Control
<1> QED
  BY <1>1, TypeInit, LockInit DEF Core

LEMMA CoreNext ==
  ASSUME Core, [OperationsNext]_operationsVars PROVE Core'
<1>1. ASSUME NEW p \in All, Acts(p) PROVE Core'
  BY <1>1, ActsShape, ControlNext, LockNext DEF Core, Shape
<1>2. CASE UNCHANGED <<proc, locking, world>> /\ (todo' = todo \/ todo' = <<>>)
  <2>1. TypeOK'
    <3>0. \A S : <<>> \in Seq(S)
      OBVIOUS
    <3>1. todo \in Seq(DOMAIN Programs)
      BY DEF Core, TypeOK
    <3>2. todo' \in Seq(DOMAIN Programs)
      BY <1>2, <3>0, <3>1
    <3> QED
      BY <1>2, <3>2 DEF Core, TypeOK, locking, world, remote
  <2>2. Control'
    BY <1>2 DEF Core, Control, Ended, Instr
  <2>3. LockInv'
    <3>1. queue' = queue /\ proc' = proc
      BY <1>2 DEF locking
    <3>2. Queues'
      BY <3>1 DEF Core, LockInv, Queues, Single
    <3>3. ASSUME NEW q \in All, proc'[q].op # Nothing PROVE (Keeping(q) /\ Granting(q) /\ Excluding(q))'
      <4>1. Spared(q) /\ Steady(q)
        BY <3>1, SameSpared DEF Steady
      <4>2. Keeping(q) /\ Granting(q) /\ Excluding(q)
        BY <3>1, <3>3 DEF Core, LockInv
      <4> QED
        BY <4>1, <4>2, LockSteady
    <3> QED
      BY <3>2, <3>3 DEF LockInv
  <2> QED
    BY <2>1, <2>2, <2>3 DEF Core
<1> QED
  BY <1>1, <1>2, NextWhat

(* The induction the other theorems share: in every state of every set   *)
(* of operations, the state has its types, every process is at a step of *)
(* its program or past it, and the requests of the six locks that        *)
(* commands/ and api_server/ take are the ones the outline of the        *)
(* programs says.                                                        *)
THEOREM CoreInvariant == OperationsSpec => []Core
  BY CoreInit, CoreNext, PTL DEF OperationsSpec

(* Type correctness of the state that the commands and the REST handlers *)
(* share: locks, vault, connections, forwards, server and backup files.  *)
THEOREM OperationsTypeCorrect == OperationsSpec => []TypeOK
  BY CoreInvariant, PTL DEF Core

(* The commands and the REST handlers never wait on each other in a      *)
(* circle: as long as operations run, one of them does not wait for a    *)
(* lock. The mutation lock is taken under the server's lock by some and  *)
(* over it by others; this is safe, for each of them has the lock of the *)
(* operations on the server (commands/mod.rs).                           *)
THEOREM OperationsNoStuck == OperationsSpec => []NoStuck
<1>1. Core => NoStuck
  BY LocksNoStuck DEF Core
<1> QED
  BY <1>1, CoreInvariant, PTL

(* Whoever waits for the requests in flight to end (stop_running_server) *)
(* has no lock that one of these requests waits for, so that a stop or a *)
(* restart of the server never waits for itself.                         *)
THEOREM OperationsDrain == OperationsSpec => []DrainNotSelfBlocked
<1>1. Core => DrainNotSelfBlocked
  BY LocksDrain DEF Core
<1> QED
  BY <1>1, CoreInvariant, PTL

-----------------------------------------------------------------------------
(* The stop of the server: spawn_api_server_autostart starts it only     *)
(* while no stop has returned.                                           *)

\* every action and the steps it takes
LEMMA ActionInstr ==
  ASSUME NEW p
  PROVE /\ Edit(p) => Instr(p)[1] = "edit"
        /\ Connect(p) => Instr(p)[1] = "connect"
        /\ StillValid(p) => Instr(p)[1] = "valid"
        /\ StillAllowed(p) => Instr(p)[1] \in {"stillAllowed", "stillAllowedForward"}
        /\ Close(p) => Instr(p)[1] \in {"closeSession", "closeAll", "closeDisallowed", "apiDisconnect", "disconnect"}
        /\ ForwardStart(p) => Instr(p)[1] = "forward"
        /\ StopForwards(p) => Instr(p)[1] = "stopForwards"
        /\ StopOne(p) => Instr(p)[1] = "forwardStop"
        /\ ServerStep(p) => Instr(p)[1] \in {"requestShutdown", "take", "cache", "install"}
        /\ StartServer(p) => Instr(p)[1] \in {"start", "restart"}
        /\ Drain(p) => Instr(p)[1] = "drain"
        /\ Startup(p) => Instr(p)[1] \in {"cancelStartup", "beginShutdown", "shutdownDone", "stopReturns"}
        /\ WriteBackup(p) => Instr(p)[1] = "writeBackup"
        /\ RemoveFiles(p) => Instr(p)[1] = "removeFiles"
        /\ Plan(p) => Instr(p)[1] = "plan"
        /\ Build(p) => Instr(p)[1] = "build"
        /\ Verify(p) => Instr(p)[1] \in Checks
<1>1. Edit(p) => Instr(p)[1] = "edit"
  BY Zenon DEF Edit, At
<1>2. Connect(p) => Instr(p)[1] = "connect"
  BY DEF Connect, At
<1>3. /\ StillValid(p) => Instr(p)[1] = "valid"
      /\ StillAllowed(p) => Instr(p)[1] \in {"stillAllowed", "stillAllowedForward"}
  BY DEF StillValid, StillAllowed, At
<1>4. Close(p) => Instr(p)[1] \in {"closeSession", "closeAll", "closeDisallowed", "apiDisconnect", "disconnect"}
  BY DEF Close, At
<1>5. ForwardStart(p) => Instr(p)[1] = "forward"
  BY DEF ForwardStart, At
<1>6. (StopForwards(p) => Instr(p)[1] = "stopForwards") /\ (StopOne(p) => Instr(p)[1] = "forwardStop")
  BY DEF StopForwards, StopOne, At
<1>7. ServerStep(p) => Instr(p)[1] \in {"requestShutdown", "take", "cache", "install"}
  BY DEF ServerStep, At
<1>8. StartServer(p) => Instr(p)[1] \in {"start", "restart"}
  BY DEF StartServer, At
<1>9. Drain(p) => Instr(p)[1] = "drain"
  BY DEF Drain, At
<1>10. Startup(p) => Instr(p)[1] \in {"cancelStartup", "beginShutdown", "shutdownDone", "stopReturns"}
  BY DEF Startup, At
<1>11. (WriteBackup(p) => Instr(p)[1] = "writeBackup") /\ (RemoveFiles(p) => Instr(p)[1] = "removeFiles")
  BY DEF WriteBackup, RemoveFiles, At
<1>12. (Plan(p) => Instr(p)[1] = "plan") /\ (Build(p) => Instr(p)[1] = "build")
  BY DEF Plan, Build, At
<1>13. Verify(p) => Instr(p)[1] \in Checks
  BY DEF Verify, At
<1> QED
  BY <1>1, <1>2, <1>3, <1>4, <1>5, <1>6, <1>7, <1>8, <1>9, <1>10, <1>11, <1>12, <1>13

\* the action of a process that is at a step which is not silent
LEMMA ActIs ==
  ASSUME TypeOK, NEW p \in All, Acts(p), Here(p), proc'[p].op # Nothing, Instr(p)[1] \notin Silent
  PROVE /\ p \in Live /\ ~Waiting(p)
        /\ \/ Edit(p) \/ Connect(p) \/ StillValid(p) \/ StillAllowed(p) \/ Close(p)
           \/ ForwardStart(p) \/ StopForwards(p) \/ StopOne(p) \/ ServerStep(p) \/ StartServer(p)
           \/ Drain(p) \/ Startup(p) \/ WriteBackup(p) \/ RemoveFiles(p) \/ Plan(p) \/ Build(p)
           \/ Verify(p)
<1>1. ~Rests(p)
  BY DEF Rests
<1>2. Runs(p) /\ Step(p)
  <2>1. ~ClientGone(p)
    BY GoneCases, IdleProcess DEF Hands
  <2> QED
    BY <1>1, <2>1, StartRests DEF Acts
<1> QED
  BY <1>1, <1>2, StepWhat DEF Runs

\* which actions change what
LEMMA Effects ==
  ASSUME TypeOK, Control, NEW p \in All, Acts(p)
  PROVE /\ (Runs(p) /\ Startup(p)) \/ (startup' = startup /\ seen'.stopped = seen.stopped)
        /\ (Runs(p) /\ StartServer(p)) \/ seen'.revived = seen.revived
        /\ (Runs(p) /\ Edit(p)) \/ (conf' = conf /\ seen'.imported = seen.imported)
        /\ (Runs(p) /\ (Edit(p) \/ Connect(p) \/ WriteBackup(p))) \/ clock' = clock
        /\ \/ Runs(p) /\ (WriteBackup(p) \/ RemoveFiles(p))
           \/ ClientGone(p) /\ At(p, "removeFiles")
           \/ files' = files
        /\ (Runs(p) /\ (Edit(p) \/ RemoveFiles(p))) \/ seen'.late = seen.late
        /\ \/ Runs(p) /\ (Connect(p) \/ StillValid(p) \/ StillAllowed(p) \/ Close(p) \/ Drain(p))
           \/ conns' = conns
        /\ \/ Runs(p) /\ \/ StillValid(p) \/ StillAllowed(p) \/ Close(p) \/ Drain(p)
                         \/ ForwardStart(p) \/ StopForwards(p) \/ StopOne(p)
           \/ ClientGone(p)
           \/ fwds' = fwds
        /\ (Runs(p) /\ (ServerStep(p) \/ StartServer(p) \/ Drain(p))) \/ server' = server
        /\ (Runs(p) /\ Drain(p)) \/ seen'.overrun = seen.overrun
<1>1. CASE Rests(p)
  BY <1>1 DEF Rests, world, remote
<1>2. CASE Runs(p) /\ ~Rests(p)
  <2>0. p \in Live /\ seen \in [overrun : BOOLEAN, imported : BOOLEAN, stopped : BOOLEAN, revived : BOOLEAN, late : SUBSET LateOps]
    BY <1>2 DEF Runs, TypeOK
  <2>1. CASE Edit(p)
    <3>1. /\ UNCHANGED <<todo, locking, remote, server, startup, files>>
          /\ \/ seen' = [seen EXCEPT !.imported = @ \/ Arg(p) = "import", !.late = Noted(p)]
             \/ seen' = seen
      BY <2>1, Zenon DEF Edit
    <3> QED
      BY <1>2, <2>0, <2>1, <3>1 DEF remote
  <2>2. CASE Connect(p)
    BY <1>2, <2>2 DEF Connect
  <2>3. CASE StillValid(p) \/ StillAllowed(p) \/ Close(p)
    BY <1>2, <2>3 DEF StillValid, StillAllowed, Close
  <2>4. CASE ForwardStart(p) \/ StopForwards(p) \/ StopOne(p)
    <3>1. UNCHANGED <<todo, locking, conf, clock, conns, server, startup, files, seen>>
      BY <2>4, ForwardCases DEF StopForwards, StopOne
    <3> QED
      BY <1>2, <2>4, <3>1
  <2>5. CASE ServerStep(p)
    BY <1>2, <2>5 DEF ServerStep, remote
  <2>6. CASE StartServer(p)
    <3>1. /\ UNCHANGED <<todo, locking, conf, clock, remote, startup, files>>
          /\ seen' = [seen EXCEPT !.revived = @ \/ (seen.stopped /\ proc[p].op = "spawn_api_server_autostart")]
             \/ seen' = seen
      BY <2>6 DEF StartServer
    <3> QED
      BY <1>2, <2>0, <2>6, <3>1 DEF remote
  <2>7. CASE Drain(p)
    <3>1. /\ UNCHANGED <<todo, locking, conf, clock, startup, files>>
          /\ seen'.imported = seen.imported /\ seen'.stopped = seen.stopped /\ seen'.revived = seen.revived
          /\ seen'.late = seen.late
      BY <2>0, <2>7, DrainCases
    <3> QED
      BY <1>2, <2>7, <3>1
  <2>8. CASE Startup(p)
    <3>1. /\ UNCHANGED <<todo, locking, conf, clock, remote, server, files>>
          /\ seen'.overrun = seen.overrun /\ seen'.imported = seen.imported /\ seen'.revived = seen.revived
          /\ seen'.late = seen.late
      BY <2>0, <2>8, StartupCases
    <3> QED
      BY <1>2, <2>8, <3>1 DEF remote
  <2>9. CASE WriteBackup(p) \/ RemoveFiles(p)
    BY <1>2, <2>0, <2>9 DEF WriteBackup, RemoveFiles, remote
  <2>10. CASE Plan(p) \/ Build(p) \/ Verify(p)
    BY <2>10 DEF Plan, Build, Verify, world, remote
  <2>11. CASE ClientGone(p)
    BY <2>11, GoneCases
  <2>12. Step(p) \/ Start(p) \/ ClientGone(p)
    BY DEF Acts
  <2> QED
    BY <1>2, <2>0, <2>1, <2>2, <2>3, <2>4, <2>5, <2>6, <2>7, <2>8, <2>9, <2>10, <2>11, <2>12, StepWhat, StartRests
<1>3. CASE ClientGone(p)
  BY <1>3, GoneCases
<1> QED
  BY <1>1, <1>2, <1>3, StartRests DEF Acts

-----------------------------------------------------------------------------
\* no stop has returned unless the start is cancelled, and a start that was found not
\* cancelled under apiOp is ahead of any stop that returns
StopInv ==
  /\ seen.stopped => startup.cancelled
  /\ \A p \in All : Fact(p, "cancelled") => startup.cancelled
  /\ \A p \in All : Fact(p, "unstopped") => ~seen.stopped
  /\ ~seen.revived

LEMMA StopInit == OperationsInit => StopInv
<1> SUFFICES ASSUME OperationsInit PROVE StopInv
  OBVIOUS
<1>1. \A p \in All : ~Active(p)
  BY IdleProcess DEF OperationsInit, Active
<1> QED
  BY <1>1 DEF OperationsInit, StopInv, Fact

\* who relies on a fact has its lock
LEMMA FactHeld ==
  ASSUME Core, NEW p \in All, NEW f \in DOMAIN Guard, f # "exclusive", Fact(p, f)
  PROVE Granted(p, Guard[f]) /\ Guard[f] \in Locks
<1>1. Active(p) /\ f \in KnownAt(proc[p].op, proc[p].pc).facts
  BY DEF Fact, Kn
<1>2. proc[p].op # Nothing /\ Disciplined(proc[p].op) /\ proc[p].pc \in 1..(Len(Program(proc[p].op)) + 1)
  BY <1>1, Static DEF Core, Active, Control
<1>3. FactsGuarded(proc[p].op, proc[p].pc)
  BY <1>2 DEF Disciplined
<1> QED
  BY <1>1, <1>3, HeldGranted DEF Core, FactsGuarded

LEMMA StopNext ==
  ASSUME Core, StopInv, NEW p \in All, Acts(p) PROVE StopInv'
<1>0. TypeOK /\ Control /\ LockInv
  BY DEF Core
<1>1. Shape(p)
  BY <1>0, ActsShape
<1>2. startup.cancelled => startup'.cancelled
  BY <1>0, Effects, StartupCases DEF Runs
<1>3. ASSUME seen'.stopped, ~seen.stopped
      PROVE /\ p \in Live /\ ~Waiting(p) /\ Here(p) /\ ~proc[p].failed
            /\ Instr(p)[1] \in {"shutdownDone", "stopReturns"}
            /\ startup.cancelled /\ Granted(p, "apiOp") /\ Advances(p)
  <2>1. Runs(p) /\ Startup(p)
    BY <1>0, <1>3, Effects
  <2>2. p \in Live /\ ~Waiting(p)
    BY <2>1 DEF Runs
  <2>3. Here(p) /\ ~proc[p].failed /\ Instr(p)[1] \in {"shutdownDone", "stopReturns"} /\ Advances(p)
    BY <1>0, <1>3, <2>1, <2>2, StartupCases
  <2>4. StepsFounded(proc[p].op, proc[p].pc)
    BY <1>0, <2>3, Static DEF Here
  <2>5. "cancelled" \in Kn(p).facts /\ "apiOp" \in Kn(p).has /\ Active(p)
    BY <2>3, <2>4 DEF StepsFounded, Kn, Instr, Active, Here
  <2> QED
    BY <1>0, <2>2, <2>3, <2>5, HasGranted DEF StopInv, Fact
<1>4. seen'.stopped => startup'.cancelled
  BY <1>2, <1>3 DEF StopInv
<1>5. ASSUME NEW q \in All, Fact(q, "cancelled")' PROVE startup'.cancelled
  <2>1. CASE Fact(q, "cancelled")
    BY <1>2, <2>1 DEF StopInv
  <2>2. CASE ~Fact(q, "cancelled")
    <3>1. /\ q = p /\ Here(p) /\ ~proc[p].failed /\ proc'[p].op = proc[p].op
          /\ Gains(Instr(p), "cancelled")
      BY <1>0, <1>1, <1>5, <2>2, FactFrom DEF Debts
    <3>2. Instr(p)[1] = "cancelStartup"
      BY <3>1 DEF Gains, Is
    <3>3. Startup(p) /\ p \in Live
      BY <1>0, <3>1, <3>2, ActIs, ActionInstr DEF Silent, Here, Checks, Refusals
    <3> QED
      BY <1>0, <3>2, <3>3, StartupCases
  <2> QED
    BY <2>1, <2>2
<1>6. ASSUME NEW q \in All, Fact(q, "unstopped")' PROVE ~seen'.stopped
  <2>1. CASE Fact(q, "unstopped") /\ (Steady(q) \/ ~Loses(Instr(p), "unstopped"))
    <3> SUFFICES ASSUME seen'.stopped PROVE FALSE
      OBVIOUS
    <3>1. ~seen.stopped
      BY <2>1 DEF StopInv
    <3>2. Granted(q, "apiOp")
      BY <2>1, FactHeld DEF Guard
    <3>3. q = p
      BY <1>0, <1>3, <3>1, <3>2, Exclusive DEF Locks
    <3>4. proc[p].pc \in Nat /\ proc'[p].pc = proc[p].pc + 1
      BY <1>0, <1>3, <3>1, Static DEF Advances, Here
    <3>5. ~Steady(p)
      BY <3>4 DEF Steady
    <3> QED
      BY <1>3, <2>1, <3>1, <3>3, <3>5 DEF Loses
  <2>2. CASE q = p /\ Here(p) /\ Gains(Instr(p), "unstopped") /\ Advances(p) /\ proc'[p].op = proc[p].op
    <3>1. Instr(p)[1] = "notCancelled"
      BY <2>2 DEF Gains, Is
    <3>2. Verify(p) /\ p \in Live
      BY <1>0, <2>2, <3>1, ActIs, ActionInstr DEF Silent, Here
    <3>3. ~startup.cancelled
      <4>1. ~Fail(p)
        BY <1>0, <2>2, <3>1, Failed DEF MayFail, Checks, Advances, Fails
      <4>2. \E c \in Checks : At(p, c) /\ Check(p, c)
        BY <3>2, <4>1 DEF Verify
      <4>3. Check(p, "notCancelled")
        BY <3>1, <4>2 DEF At
      <4> QED
        BY <4>3 DEF Check, Refusals
    <3>4. ~seen.stopped
      BY <3>3 DEF StopInv
    <3>5. ~(seen'.stopped)
      BY <1>3, <3>1, <3>4
    <3> QED
      BY <3>5
  <2> QED
    BY <1>0, <1>1, <1>6, <2>1, <2>2, FactFrom DEF Debts
<1>7. ~seen'.revived
  <2> SUFFICES ASSUME seen'.revived PROVE FALSE
    OBVIOUS
  <2>1. Runs(p) /\ StartServer(p) /\ seen'.revived # seen.revived
    BY <1>0, Effects DEF StopInv
  <2>2. p \in Live
    BY <2>1 DEF Runs
  <2>3. /\ p \in All /\ Here(p) /\ ~proc[p].failed /\ Instr(p)[1] \in {"start", "restart"}
        /\ seen' = [seen EXCEPT !.revived = @ \/ (/\ seen.stopped
                                                  /\ proc[p].op = "spawn_api_server_autostart")]
    BY <1>0, <2>1, <2>2, StartServerCases
  <2>4. seen.stopped /\ proc[p].op = "spawn_api_server_autostart"
    BY <1>0, <2>3 DEF TypeOK, StopInv
  <2>5. StepsFounded(proc[p].op, proc[p].pc)
    BY <1>0, <2>3, Static DEF Here
  <2>6. Fact(p, "unstopped")
    BY <2>3, <2>4, <2>5 DEF StepsFounded, Fact, Active, Kn, Here, Instr
  <2> QED
    BY <2>3, <2>4, <2>6 DEF StopInv
<1> QED
  BY <1>4, <1>5, <1>6, <1>7 DEF StopInv

\* an invariant I of the locks and one about what processes do is kept when nobody acts
LEMMA FactSame ==
  ASSUME proc' = proc, NEW q, NEW f
  PROVE (Fact(q, f)' <=> Fact(q, f)) /\ (Owes(q, f)' <=> Owes(q, f))
  BY DEF Fact, Owes, Active, Kn

(* What StopWins needs: once a stop has returned, the automatic start is *)
(* cancelled, and one that has found it not cancelled holds the lock     *)
(* that the stop returns under.                                          *)
THEOREM StopInvariant == OperationsSpec => []StopInv
<1>1. ASSUME Core, StopInv, [OperationsNext]_operationsVars PROVE StopInv'
  <2>1. CASE UNCHANGED <<proc, locking, world>>
    <3>1. proc' = proc /\ seen' = seen /\ startup' = startup
      BY <2>1 DEF world
    <3>2. \A q \in All : /\ Fact(q, "cancelled")' => Fact(q, "cancelled")
                         /\ Fact(q, "unstopped")' => Fact(q, "unstopped")
      BY <3>1, FactSame
    <3> QED
      BY <1>1, <3>1, <3>2 DEF StopInv
  <2> QED
    BY <1>1, <2>1, NextWhat, StopNext
<1> QED
  BY <1>1, StopInit, CoreInvariant, PTL DEF OperationsSpec

(* A stop by the user wins over spawn_api_server_autostart: once         *)
(* api_server_stop or the shutdown has returned, the automatic start     *)
(* does not bring the server back.                                       *)
THEOREM OperationsStopWins == OperationsSpec => []StopWins
<1>1. StopInv => StopWins
  BY DEF StopInv, StopWins
<1> QED
  BY <1>1, StopInvariant, PTL

-----------------------------------------------------------------------------
(* The records of the backups and their files, under the backup lock.    *)

LEMMA AdvancesMoves ==
  ASSUME TypeOK, Control, NEW p \in All, Advances(p) PROVE ~Steady(p)
<1>1. proc[p].pc \in Nat /\ proc'[p].pc = proc[p].pc + 1
  BY Static DEF Advances, Here
<1> QED
  BY <1>1 DEF Steady

\* an edit adds no record, but for the records of a backup and those of another vault
LEMMA WrittenRecords ==
  ASSUME TypeOK, NEW p \in All, NEW what \in Edits \ {"import"}, NEW c \in Written(p, what)
  PROVE /\ what # "records" => c.recs \subseteq conf.recs
        /\ what = "records" => c.recs \subseteq proc[p].recs
        /\ CleanupTargets(p, what, c) \cap c.recs = {}
<1>0. conf \in Vault
  BY DEF TypeOK
<1>1. \A rs, n : Newest(rs, n) \subseteq rs
  BY DEF Newest
<1>2. CleanupTargets(p, what, c) \cap c.recs = {}
  BY DEF CleanupTargets
<1>3. CASE what = "other" \/ what = "key"
  BY <1>0, <1>2, <1>3 DEF Written, store_settings_ai_api_key_update, Vault
<1>4. CASE what = "session" \/ what = "trust"
  BY <1>0, <1>2, <1>4 DEF Written, store_update_session, store_trust_host_key, SetVersion, Vault
<1>5. CASE what = "delete"
  BY <1>0, <1>2, <1>5 DEF Written, store_delete_session, SetVersion, Vault
<1>6. CASE what = "proxy"
  BY <1>0, <1>2, <1>6 DEF Written, store_settings_proxy_update, Vault
<1>7. CASE what = "allow"
  <2>1. PICK a \in SUBSET Exists, b \in BOOLEAN : c = Authorised(a, b)
    BY <1>7 DEF Written, store_settings_ai_api_update
  <2> QED
    BY <1>0, <1>2, <1>7, <2>1 DEF Authorised, Vault
<1>8. CASE what = "tunnelCreate"
  <2>1. c \in {[conf EXCEPT !.tunnel = NewVersion, !.on = b] : b \in BOOLEAN}
    BY <1>8 DEF Written, store_create_tunnel
  <2> QED
    BY <1>0, <1>2, <1>8, <2>1 DEF Vault
<1>9. CASE what = "tunnelUpdate" \/ what = "tunnelDelete"
  BY <1>0, <1>2, <1>9 DEF Written, store_update_tunnel, store_delete_tunnel, Vault
<1>10. CASE what = "enabled" \/ what = "disable"
  BY <1>0, <1>2, <1>10 DEF Written, store_set_tunnel_enabled, Vault
<1>11. CASE what = "retention"
  BY <1>0, <1>1, <1>2, <1>11 DEF Written, store_settings_backup_update, Vault
<1>12. CASE what = "records"
  BY <1>0, <1>1, <1>2, <1>12 DEF Written, store_replace_backup_records, Vault
<1>13. CASE what = "recordDelete" \/ what = "recordsClear"
  BY <1>0, <1>2, <1>13 DEF Written, store_delete_backup_record, Vault
<1> QED
  BY <1>3, <1>4, <1>5, <1>6, <1>7, <1>8, <1>9, <1>10, <1>11, <1>12, <1>13 DEF Edits

\* what was done for dropped handlers is remembered
LEMMA LateGrows ==
  ASSUME TypeOK, Control, NEW p \in All, Acts(p)
  PROVE seen.late \subseteq seen'.late /\ (seen.imported => seen'.imported)
<1>0. seen \in [overrun : BOOLEAN, imported : BOOLEAN, stopped : BOOLEAN, revived : BOOLEAN, late : SUBSET LateOps]
  BY DEF TypeOK
<1> DEFINE N == Noted(p)
<1>1. N \in SUBSET LateOps /\ seen.late \subseteq N
  BY NotedType
<1>2. CASE Runs(p) /\ Edit(p)
  <2>1. \/ \E b \in BOOLEAN : seen' = [seen EXCEPT !.imported = @ \/ b, !.late = N]
        \/ seen' = seen
    <3>1. (Arg(p) = "import") \in BOOLEAN
      OBVIOUS
    <3>2. \/ seen' = [seen EXCEPT !.imported = @ \/ Arg(p) = "import", !.late = N]
          \/ seen' = seen
      BY <1>2, Zenon DEF Edit
    <3> QED
      BY <3>1, <3>2, Zenon
  <2> HIDE DEF N
  <2> QED
    BY <1>0, <1>1, <2>1
<1>3. CASE Runs(p) /\ RemoveFiles(p)
  <2>1. seen' = [seen EXCEPT !.late = N]
    BY <1>3 DEF RemoveFiles
  <2> HIDE DEF N
  <2> QED
    BY <1>0, <1>1, <2>1
<1>4. CASE seen'.late = seen.late /\ seen'.imported = seen.imported
  BY <1>4
<1> QED
  BY <1>2, <1>3, <1>4, Effects

\* no vault with older records was put in place, and no dropped handler's records were
\* stored, or its file removed, without the lock
Undisturbed == ~seen.imported /\ seen.late \cap {"records", "removeFiles"} = {}

LEMMA UndisturbedBefore ==
  ASSUME TypeOK, Control, NEW p \in All, Acts(p), Undisturbed' PROVE Undisturbed
  BY LateGrows DEF Undisturbed

\* every record has its file, and so have the records a backup will leave; what
\* is to be removed has no record
BackupInv ==
  Undisturbed =>
    /\ conf.recs \subseteq files
    /\ \A p \in All : Fact(p, "planned") => proc[p].recs \subseteq files
    /\ \A p \in All : Fact(p, "doomed") => proc[p].doomed \cap conf.recs = {}

LEMMA NobodyActive ==
  ASSUME OperationsInit PROVE \A p \in All : ~Active(p) /\ proc[p].op = Nothing /\ proc[p].view = Nothing
  BY IdleProcess DEF OperationsInit, Active

LEMMA BackupInit == OperationsInit => BackupInv
<1> SUFFICES ASSUME OperationsInit PROVE BackupInv
  OBVIOUS
<1>1. \A p \in All : ~Active(p)
  BY NobodyActive
<1> QED
  BY <1>1 DEF OperationsInit, BackupInv, Fact

\* what an edit does, as far as the backups are concerned
LEMMA BackupEdit ==
  ASSUME Core, BackupInv, NEW p \in Live, ~Waiting(p), Edit(p), Undisturbed, Undisturbed'
  PROVE /\ conf'.recs \subseteq files
        /\ \A q \in All : q # p /\ Fact(q, "doomed") => proc[q].doomed \cap conf'.recs = {}
        /\ Advances(p) => proc'[p].doomed \cap conf'.recs = {}
        /\ Advances(p) \/ Fails(p)
<1>0. TypeOK /\ Control /\ LockInv /\ p \in All
  BY DEF Core, Live
<1>1. At(p, "edit") /\ Here(p) /\ ~proc[p].failed /\ Instr(p)[1] = "edit"
  BY <1>0, AtHere, Zenon DEF Edit
<1>2. CASE \E c \in Vault : \E d : Writes(p, c, d)
  <2>0. PICK c \in Vault : \E d : Writes(p, c, d)
    BY <1>2
  <2>1. PICK d : Writes(p, c, d)
    BY <2>0
  <2>2. /\ Arg(p) \in Edits /\ c \in Written(p, Arg(p)) /\ conf' = c
        /\ d \in {{}, CleanupTargets(p, Arg(p), c)}
        /\ seen' = [seen EXCEPT !.imported = @ \/ Arg(p) = "import", !.late = Noted(p)]
    BY <2>1 DEF Writes
  <2>3. Arg(p) # "import" /\ seen'.late = Noted(p)
    BY <1>0, <2>2 DEF TypeOK, Undisturbed
  <2>4. /\ Arg(p) # "records" => c.recs \subseteq conf.recs
        /\ Arg(p) = "records" => c.recs \subseteq proc[p].recs
        /\ CleanupTargets(p, Arg(p), c) \cap c.recs = {}
    BY <1>0, <2>2, <2>3, WrittenRecords
  <2>5. Advances(p) /\ proc'[p].doomed = d
    BY <1>0, <2>1, WritesGo
  <2>6. ASSUME Arg(p) = "records" PROVE Fact(p, "planned") /\ Granted(p, "backup")
    <3>1. StepsFounded(proc[p].op, proc[p].pc)
      BY <1>0, <1>1, Static DEF Here
    <3>2. proc[p].op # "records"
      <4>1. "records" \in LateOps
        BY DEF LateOps, LateEdits
      <4> QED
        BY <1>0, <2>3, <4>1, NotedType DEF Undisturbed
    <3>3. Fact(p, "planned")
      BY <1>1, <2>6, <3>1, <3>2 DEF StepsFounded, Is, Fact, Active, Kn, Here, Instr, Arg
    <3> QED
      BY <1>0, <3>3, FactHeld DEF Guard
  <2>7. conf'.recs \subseteq files
    BY <1>0, <2>2, <2>3, <2>4, <2>6 DEF BackupInv
  <2>8. ASSUME NEW q \in All, q # p, Fact(q, "doomed") PROVE proc[q].doomed \cap conf'.recs = {}
    <3>1. Granted(q, "backup")
      BY <2>8, FactHeld DEF Guard
    <3>2. Arg(p) # "records"
      BY <1>0, <2>6, <2>8, <3>1, Exclusive DEF Locks
    <3> QED
      BY <2>2, <2>3, <2>4, <2>8, <3>2 DEF BackupInv
  <2> QED
    BY <2>2, <2>3, <2>4, <2>5, <2>7, <2>8
<1>3. CASE Fail(p) /\ UNCHANGED <<conf, clock, seen>>
  <2>1. Fails(p)
    BY <1>0, <1>1, <1>3, Failed DEF MayFail
  <2>2. ~Advances(p)
    BY <2>1 DEF Fails, Advances
  <2> QED
    BY <1>3, <2>1, <2>2 DEF BackupInv
<1> QED
  BY <1>0, <1>2, <1>3, EditCases

\* p removes the files of its list, or is dropped while it does
Removes(p) ==
  \/ p \in Live /\ ~Waiting(p) /\ RemoveFiles(p)
  \/ ClientGone(p) /\ At(p, "removeFiles")

LEMMA BackupRemove ==
  ASSUME Core, BackupInv, NEW p \in All, Removes(p), Undisturbed, Undisturbed'
  PROVE /\ conf.recs \subseteq files' /\ Here(p) /\ Instr(p)[1] = "removeFiles"
        /\ Advances(p) \/ proc'[p].op = Nothing
        /\ \A q \in All : q # p => ~Fact(q, "planned")
<1>0. TypeOK /\ Control /\ LockInv
  BY DEF Core
<1>1. /\ p \in Live /\ Here(p) /\ ~proc[p].failed /\ Instr(p)[1] = "removeFiles"
      /\ Advances(p) \/ proc'[p].op = Nothing
      /\ files \ proc[p].doomed \subseteq files'
      /\ proc[p].op # "removeFiles"
  <2>0. "removeFiles" \in LateOps
    BY DEF LateOps
  <2>1. CASE p \in Live /\ RemoveFiles(p)
    <3>1. seen'.late = Noted(p)
      BY <1>0, <2>1, RemoveFilesCases DEF TypeOK
    <3> QED
      BY <1>0, <2>0, <2>1, <3>1, RemoveFilesCases, NotedType DEF Undisturbed
  <2>2. CASE ClientGone(p) /\ At(p, "removeFiles")
    <3>1. p \in Live /\ IsRest(proc[p].op) /\ files \ proc[p].doomed \subseteq files' /\ proc'[p].op = Nothing
      BY <1>0, <2>2, GoneCases, IdleProcess DEF Dropped, Hands
    <3>2. Here(p) /\ ~proc[p].failed /\ Instr(p)[1] = "removeFiles"
      BY <1>0, <2>2, <3>1, AtHere
    <3> QED
      BY <2>0, <3>1, <3>2, LateProgram
  <2> QED
    BY <2>1, <2>2 DEF Removes
<1>2. StepsFounded(proc[p].op, proc[p].pc)
  BY <1>0, <1>1, Static DEF Here
<1>3. Fact(p, "doomed")
  BY <1>1, <1>2 DEF StepsFounded, Fact, Active, Kn, Here, Instr
<1>4. Granted(p, "backup")
  BY <1>0, <1>3, FactHeld DEF Guard
<1>5. ASSUME NEW q \in All, q # p, Fact(q, "planned") PROVE FALSE
  <2>1. Granted(q, "backup")
    BY <1>5, FactHeld DEF Guard
  <2> QED
    BY <1>0, <1>4, <1>5, <2>1, Exclusive DEF Locks
<1> QED
  BY <1>0, <1>1, <1>3, <1>5 DEF BackupInv

LEMMA BackupNext ==
  ASSUME Core, BackupInv, NEW p \in All, Acts(p) PROVE BackupInv'
<1>0. TypeOK /\ Control /\ LockInv /\ Shape(p)
  BY ActsShape DEF Core
<1> SUFFICES ASSUME Undisturbed'
             PROVE /\ conf'.recs \subseteq files'
                   /\ \A q \in All : Fact(q, "planned")' => proc'[q].recs \subseteq files'
                   /\ \A q \in All : Fact(q, "doomed")' => proc'[q].doomed \cap conf'.recs = {}
  BY DEF BackupInv
<1>1. Undisturbed
  BY <1>0, UndisturbedBefore
<1>2. conf.recs \subseteq files
  BY <1>1 DEF BackupInv
<1>3. conf'.recs \subseteq files
  BY <1>0, <1>1, <1>2, Effects, BackupEdit DEF Runs
<1>4. \/ files \subseteq files'
      \/ Removes(p) /\ conf' = conf
  BY <1>0, Effects, WriteBackupCases, RemoveFilesCases, GoneCases DEF Runs, Removes
<1>5. conf'.recs \subseteq files'
  BY <1>1, <1>3, <1>4, BackupRemove
<1>6. ASSUME NEW q \in All, Fact(q, "planned")' PROVE proc'[q].recs \subseteq files'
  <2>1. CASE Fact(q, "planned") /\ Remembers(q) /\ Steady(q)
    <3>1. proc'[q].recs \subseteq files
      BY <1>1, <2>1 DEF BackupInv, Remembers
    <3>2. ~Removes(p)
      BY <1>0, <1>1, <1>6, <2>1, BackupRemove, AdvancesMoves DEF Fact, Active
    <3> QED
      BY <1>4, <3>1, <3>2
  <2>2. CASE q = p /\ Fact(p, "planned") /\ ~Loses(Instr(p), "planned") /\ Here(p) /\ proc'[p].op = proc[p].op /\ ~proc'[p].failed
    <3>1. Instr(p)[1] # "removeFiles" /\ proc[p].op # Nothing
      BY <2>2 DEF Loses, Here
    <3>2. files \subseteq files' /\ proc[p].recs \subseteq files
      BY <1>1, <1>4, <2>2, <3>1, BackupRemove DEF BackupInv
    <3>3. CASE Instr(p)[1] = "plan"
      <4>1. Plan(p) /\ p \in Live
        BY <1>0, <2>2, <3>1, <3>3, ActIs, ActionInstr DEF Silent, Checks, Refusals
      <4> QED
        BY <1>0, <1>2, <2>2, <3>2, <4>1, PlanCases
    <3>4. CASE Instr(p)[1] = "writeBackup"
      <4>1. WriteBackup(p) /\ p \in Live
        BY <1>0, <2>2, <3>1, <3>4, ActIs, ActionInstr DEF Silent, Checks, Refusals
      <4> QED
        BY <1>0, <2>2, <3>2, <4>1, WriteBackupCases DEF Fails
    <3>5. CASE Instr(p)[1] \notin {"plan", "writeBackup"}
      BY <1>0, <2>2, <3>2, <3>5 DEF Shape, Locals
    <3> QED
      BY <3>3, <3>4, <3>5
  <2>3. CASE q = p /\ Gains(Instr(p), "planned") /\ Advances(p) /\ proc'[p].op = proc[p].op
    <3>1. Instr(p)[1] = "plan" /\ Here(p)
      BY <2>3 DEF Gains, Is, Advances
    <3>2. Plan(p) /\ p \in Live
      BY <1>0, <2>3, <3>1, ActIs, ActionInstr DEF Silent, Checks, Refusals, Here
    <3>3. proc'[p].recs = conf.recs
      BY <1>0, <3>2, PlanCases
    <3>4. files \subseteq files'
      BY <1>1, <1>4, <3>1, BackupRemove
    <3> QED
      BY <1>2, <2>3, <3>3, <3>4
  <2> QED
    BY <1>0, <1>6, <2>1, <2>2, <2>3, FactFrom DEF Debts
<1>7. ASSUME NEW q \in All, Fact(q, "doomed")' PROVE proc'[q].doomed \cap conf'.recs = {}
  <2>1. CASE Runs(p) /\ Edit(p)
    <3>1. CASE q = p
      <4>1. ~Fails(p)
        BY <1>7, <3>1 DEF Fact, Active, Fails
      <4> QED
        BY <1>1, <2>1, <3>1, <4>1, BackupEdit DEF Runs
    <3>2. CASE q # p
      <4>1. Fact(q, "doomed") /\ Remembers(q)
        BY <1>0, <1>7, <3>2, FactFrom DEF Debts
      <4> QED
        BY <1>1, <2>1, <3>2, <4>1, BackupEdit DEF Runs, Remembers
    <3> QED
      BY <3>1, <3>2
  <2>2. CASE ~(Runs(p) /\ Edit(p))
    <3>1. conf' = conf
      BY <1>0, <2>2, Effects
    <3>2. CASE Fact(q, "doomed") /\ Remembers(q)
      BY <1>1, <3>1, <3>2 DEF BackupInv, Remembers
    <3>3. CASE q = p /\ Here(p) /\ proc'[p].op = proc[p].op /\ ~proc'[p].failed
      <4>1. Instr(p)[1] # "edit"
        BY <1>0, <2>2, <3>3, ActIs, ActionInstr DEF Silent, Checks, Refusals, Here, Runs
      <4>2. Fact(q, "doomed")
        BY <1>0, <1>7, <3>3, <4>1, FactFrom DEF Debts, Gains
      <4> QED
        BY <1>0, <1>1, <3>1, <3>3, <4>1, <4>2 DEF BackupInv, Shape, Locals
    <3> QED
      BY <1>0, <1>7, <3>2, <3>3, FactFrom DEF Debts
  <2> QED
    BY <2>1, <2>2
<1> QED
  BY <1>5, <1>6, <1>7

(* What NoDanglingRecord needs: a backup that plans its records has      *)
(* written their files, and one that removes files has removed their     *)
(* records before, both under the backup lock, as long as nothing was    *)
(* stored or removed without it for a handler that was dropped.          *)
THEOREM BackupInvariant == OperationsSpec => []BackupInv
<1>1. ASSUME Core, BackupInv, [OperationsNext]_operationsVars PROVE BackupInv'
  <2>1. CASE UNCHANGED <<proc, locking, world>>
    <3>1. proc' = proc /\ seen' = seen /\ conf' = conf /\ files' = files
      BY <2>1 DEF world
    <3>2. \A q \in All : /\ Fact(q, "planned")' => Fact(q, "planned")
                         /\ Fact(q, "doomed")' => Fact(q, "doomed")
      BY <3>1, FactSame
    <3> QED
      BY <1>1, <3>1, <3>2 DEF BackupInv, Undisturbed
  <2> QED
    BY <1>1, <2>1, NextWhat, BackupNext
<1> QED
  BY <1>1, BackupInit, CoreInvariant, PTL DEF OperationsSpec

(* While nobody works on backups, every record of a backup that the      *)
(* vault lists has its file, whatever backups, deletions and retention   *)
(* updates ran at once and wherever they failed (backup_operation,       *)
(* backup.rs), unless the vault was replaced by one with older records,  *)
(* or a blocking pool thread stored the records, or removed the file, of *)
(* a REST backup operation that was dropped with its lock.               *)
THEOREM OperationsNoDanglingRecord == OperationsSpec => []NoDanglingRecord
<1>1. BackupInv => NoDanglingRecord
  BY DEF BackupInv, NoDanglingRecord, Undisturbed
<1> QED
  BY <1>1, BackupInvariant, PTL

-----------------------------------------------------------------------------
(* The forwards and their tunnels, under the tunnel lock.                *)

\* connections are closed, and with them their forwards
Closes == (conns' = conns /\ fwds' = fwds) \/ \E cs \in SUBSET conns : Retain(cs)

LEMMA ClosesWhen ==
  ASSUME TypeOK, Control, NEW p \in Live, StillValid(p) \/ StillAllowed(p) \/ Close(p) \/ Drain(p)
  PROVE Closes
<1>1. ASSUME DisconnectAutomation PROVE Closes
  BY <1>1 DEF DisconnectAutomation, Closes, OfTarget, remote
<1>2. CASE StillValid(p)
  BY <1>1, <1>2 DEF StillValid, Closes, remote
<1>3. CASE StillAllowed(p)
  BY <1>1, <1>3 DEF StillAllowed, Closes, remote
<1>4. CASE Close(p)
  BY <1>1, <1>4 DEF Close, Closes, remote
<1>5. CASE Drain(p)
  BY <1>5 DEF Drain, Closes, remote
<1> QED
  BY <1>2, <1>3, <1>4, <1>5

\* the connections are distinct and none has an identifier that is still to be given out
Numbered ==
  /\ \A c \in conns : c.id <= clock
  /\ \A c, d \in conns : c.id = d.id => c = d
Carried == \A f \in fwds : \E c \in conns : c.id = f.c /\ c.o = f.o /\ c.s = Target
Matching == \A f \in fwds : f.v \in {0, conf.tunnel}
\* the tunnel was changed, without the lock, for a handler that was dropped
LateTunnel == seen.late \cap {"tunnelUpdate", "tunnelDelete"} # {}
\* a forward is on a connection of its kind, and of the tunnel that is, or whoever
\* deleted the tunnel is about to close it
ForwardInv ==
  /\ Numbered
  /\ Carried
  /\ \A p \in All : Fact(p, "noForwards") => fwds = {}
  /\ Matching \/ LateTunnel \/ \E p \in All : Owes(p, "clean")

LEMMA ForwardInit == OperationsInit => ForwardInv
<1> SUFFICES ASSUME OperationsInit PROVE ForwardInv
  OBVIOUS
<1>1. \A p \in All : ~Active(p)
  BY NobodyActive
<1>2. PICK w \in Worlds : conf = w.conf /\ conns = w.conns /\ fwds = w.fwds
  BY DEF OperationsInit
<1>3. clock = Given
  BY DEF OperationsInit
<1>4. Numbered
  BY <1>2, <1>3, WorldsAssumption DEF Numbered
<1>5. Carried /\ Matching
  BY <1>2, WorldsAssumption DEF Carried, Matching
<1> QED
  BY <1>1, <1>4, <1>5 DEF ForwardInv, Fact

LEMMA ClockGrows ==
  ASSUME TypeOK, Control, NEW p \in All, Acts(p) PROVE clock' \in {clock, NewVersion}
<1>1. ASSUME p \in Live, Edit(p) PROVE clock' \in {clock, NewVersion}
  BY <1>1, Zenon DEF Edit
<1>2. ASSUME p \in Live, Connect(p) PROVE clock' \in {clock, NewVersion}
  BY <1>2 DEF Connect
<1>3. ASSUME p \in Live, WriteBackup(p) PROVE clock' \in {clock, NewVersion}
  BY <1>3, WriteBackupCases
<1> QED
  BY <1>1, <1>2, <1>3, Effects DEF Runs

LEMMA ConnsChange ==
  ASSUME TypeOK, Control, NEW p \in All, Acts(p)
  PROVE \/ conns' \subseteq conns
        \/ /\ Runs(p) /\ Connect(p) /\ Advances(p) /\ Here(p) /\ Instr(p)[1] = "connect"
           /\ conns' = conns \cup {Made(p)} /\ clock' = NewVersion
           /\ proc'[p].built = proc[p].built
           /\ Arg(p) = "automation" => OfTarget("automation") = {}
<1>1. ASSUME p \in Live, StillValid(p) \/ StillAllowed(p) \/ Close(p) \/ Drain(p) PROVE conns' \subseteq conns
  BY <1>1, ClosesWhen DEF Closes, Retain
<1> QED
  BY <1>1, Effects, ConnectCases DEF Runs

LEMMA NumberedNext ==
  ASSUME TypeOK, Control, Numbered, NEW p \in All, Acts(p) PROVE Numbered'
<1>0. clock \in Nat /\ NewVersion = clock + 1 /\ \A c \in conns : c.id \in Nat
  BY ClockNat DEF TypeOK, Connection
<1>1. CASE conns' \subseteq conns
  <2>1. \A c \in conns : c.id <= clock /\ c.id <= NewVersion
    BY <1>0 DEF Numbered
  <2> QED
    BY <1>1, <2>1, ClockGrows DEF Numbered
<1>2. CASE conns' = conns \cup {Made(p)} /\ clock' = NewVersion
  <2>1. Made(p).id = NewVersion
    BY DEF Made
  <2> DEFINE m == Made(p)
  <2> HIDE DEF m
  <2>2. \A c \in conns : c.id # m.id /\ c.id <= NewVersion
    BY <1>0, <2>1 DEF Numbered, m
  <2>3. m.id <= NewVersion
    BY <1>0, <2>1 DEF m
  <2>4. conns' = conns \cup {m}
    BY <1>2 DEF m
  <2> QED
    BY <1>2, <2>2, <2>3, <2>4 DEF Numbered
<1> QED
  BY <1>1, <1>2, ConnsChange

\* forwards that stay or are halted
Thins == \A f \in fwds' : \E g \in fwds : f.v = g.v /\ f.c = g.c /\ f.o = g.o

LEMMA StopsThin ==
  ASSUME TypeOK, NEW p, StopForwards(p) \/ StopOne(p)
  PROVE Thins /\ conns' = conns /\ conf' = conf
<1>0. fwds \subseteq Forward
  BY DEF TypeOK
<1>1. ASSUME NEW f \in fwds, fwds' \subseteq fwds \cup {Halted(f)} PROVE Thins
  BY <1>0, <1>1, HaltedType DEF Thins
<1>2. ASSUME fwds' \subseteq fwds PROVE Thins
  BY <1>2 DEF Thins
<1>3. CASE StopForwards(p)
  <2>1. fwds' \subseteq fwds \/ \E f \in fwds : fwds' \subseteq fwds \cup {Halted(f)}
    BY <1>3 DEF StopForwards, Stopped, Halted
  <2> QED
    BY <1>1, <1>2, <1>3, <2>1 DEF StopForwards
<1>4. CASE StopOne(p)
  <2>1. fwds' \subseteq fwds \/ \E f \in fwds : fwds' \subseteq fwds \cup {Halted(f)}
    BY <1>4 DEF StopOne, Halted
  <2> QED
    BY <1>1, <1>2, <1>4, <2>1 DEF StopOne
<1> QED
  BY <1>3, <1>4

\* how the forwards change
LEMMA FwdsChange ==
  ASSUME TypeOK, Control, NEW p \in All, Acts(p)
  PROVE \/ fwds' = fwds /\ conns \subseteq conns'
        \/ Thins /\ conns' = conns /\ conf' = conf
        \/ /\ Runs(p) /\ ForwardStart(p) /\ conns' = conns /\ conf' = conf
           /\ \E c \in OfTarget(IF Arg(p) = "automation" THEN "automation" ELSE "desktop"), b \in BOOLEAN :
                fwds' = fwds \cup {Record(p, c, b)}
        \/ conf' = conf /\ \E cs \in SUBSET conns : Retain(cs)
<1>1. CASE Runs(p) /\ (StillValid(p) \/ StillAllowed(p) \/ Close(p) \/ Drain(p))
  <2>1. Closes
    BY <1>1, ClosesWhen DEF Runs
  <2>2. conf' = conf
    BY <1>1 DEF StillValid, StillAllowed, Close, Drain
  <2> QED
    BY <2>1, <2>2 DEF Closes
<1>2. CASE Runs(p) /\ ForwardStart(p)
  BY <1>2, ForwardCases
<1>3. CASE StopForwards(p) \/ StopOne(p)
  BY <1>3, StopsThin
<1>4. CASE Runs(p) /\ Connect(p)
  BY <1>4, ConnectCases DEF Runs
<1>5. CASE ClientGone(p)
  BY <1>5, GoneCases DEF Thins
<1> QED
  BY <1>1, <1>2, <1>3, <1>4, <1>5, Effects

LEMMA RecordIs ==
  ASSUME NEW p, NEW b, NEW c
  PROVE /\ Record(p, c, b).v \in {0, conf.tunnel} /\ Record(p, c, b).c = c.id
        /\ Record(p, c, b).o = IF Arg(p) = "automation" THEN "automation" ELSE "desktop"
  BY DEF Record

LEMMA CarriedNext ==
  ASSUME TypeOK, Control, Numbered, Carried, NEW p \in All, Acts(p) PROVE Carried'
<1>1. CASE fwds' = fwds /\ conns \subseteq conns'
  BY <1>1 DEF Carried
<1>2. CASE Thins /\ conns' = conns
  BY <1>2 DEF Carried, Thins
<1>3. CASE /\ conns' = conns
           /\ \E c \in OfTarget(IF Arg(p) = "automation" THEN "automation" ELSE "desktop"), b \in BOOLEAN :
                fwds' = fwds \cup {Record(p, c, b)}
  <2> DEFINE o == IF Arg(p) = "automation" THEN "automation" ELSE "desktop"
  <2>1. PICK c \in OfTarget(o), b \in BOOLEAN : fwds' = fwds \cup {Record(p, c, b)}
    BY <1>3
  <2> DEFINE r == Record(p, c, b)
  <2>2. r.c = c.id /\ r.o = o
    BY RecordIs
  <2>3. c \in conns /\ c.o = o /\ c.s = Target
    BY DEF OfTarget
  <2>4. fwds' = fwds \cup {r}
    BY <2>1
  <2> HIDE DEF o, r
  <2> QED
    BY <1>3, <2>2, <2>3, <2>4 DEF Carried
<1>4. ASSUME NEW cs \in SUBSET conns, Retain(cs) PROVE Carried'
  <2>1. conns' = cs /\ fwds' = {f \in fwds : \E c \in cs : c.id = f.c}
    BY <1>4 DEF Retain
  <2>2. ASSUME NEW f \in fwds' PROVE \E c \in conns' : c.id = f.c /\ c.o = f.o /\ c.s = Target
    <3>1. PICK c \in cs : c.id = f.c
      BY <2>1, <2>2
    <3>2. PICK d \in conns : d.id = f.c /\ d.o = f.o /\ d.s = Target
      BY <2>1, <2>2 DEF Carried
    <3>3. c = d
      BY <3>1, <3>2 DEF Numbered
    <3> QED
      BY <2>1, <3>1, <3>2, <3>3
  <2> QED
    BY <2>2 DEF Carried
<1> QED
  BY <1>1, <1>2, <1>3, <1>4, FwdsChange

\* no forward is added behind the back of a process that has found or left none
LEMMA StaysEmpty ==
  ASSUME Core, fwds = {}, NEW p \in All, Acts(p), ~(Runs(p) /\ ForwardStart(p)) PROVE fwds' = {}
<1>1. \/ fwds' = fwds \/ Thins \/ \E cs \in SUBSET conns : Retain(cs)
  BY FwdsChange DEF Core
<1> QED
  BY <1>1 DEF Thins, Retain

LEMMA ForwardLocked ==
  ASSUME Core, NEW p \in All, Runs(p), ForwardStart(p)
  PROVE Granted(p, "tunnel") /\ Here(p) /\ Instr(p)[1] = "forward" /\ (Advances(p) \/ Fails(p))
<1>0. TypeOK /\ Control /\ LockInv /\ p \in Live /\ ~Waiting(p)
  BY DEF Core, Runs
<1>1. Here(p) /\ ~proc[p].failed /\ Instr(p)[1] = "forward"
  BY <1>0, AtHere, ForwardCases
<1>2. StepsFounded(proc[p].op, proc[p].pc)
  BY <1>0, <1>1, Static DEF Here
<1>3. "tunnel" \in Kn(p).has /\ Active(p)
  BY <1>1, <1>2 DEF StepsFounded, Kn, Active, Here, Instr
<1>4. Advances(p) \/ Fails(p)
  BY <1>0, <1>1, ForwardCases, Gone, Failed DEF MayFail
<1> QED
  BY <1>0, <1>1, <1>3, <1>4, HasGranted

LEMMA NoForwardsNext ==
  ASSUME Core, ForwardInv, NEW p \in All, Acts(p), NEW q \in All, Fact(q, "noForwards")'
  PROVE fwds' = {}
<1>0. TypeOK /\ Control /\ LockInv /\ Shape(p)
  BY ActsShape DEF Core
<1>1. CASE Fact(q, "noForwards") /\ (Steady(q) \/ ~Loses(Instr(p), "noForwards"))
  <2>1. fwds = {}
    BY <1>1 DEF ForwardInv
  <2>2. ASSUME Runs(p), ForwardStart(p) PROVE FALSE
    <3>1. Granted(p, "tunnel") /\ Here(p) /\ Instr(p)[1] = "forward" /\ (Advances(p) \/ Fails(p))
      BY <2>2, ForwardLocked
    <3>2. Granted(q, "tunnel")
      BY <1>1, FactHeld DEF Guard
    <3>3. p = q
      BY <1>0, <3>1, <3>2, Exclusive DEF Locks
    <3>4. ~Fails(p)
      BY <3>3 DEF Fact, Active, Fails
    <3> QED
      BY <1>0, <1>1, <3>1, <3>3, <3>4, AdvancesMoves DEF Loses
  <2> QED
    BY <2>1, <2>2, StaysEmpty
<1>2. CASE q = p /\ Gains(Instr(p), "noForwards") /\ Advances(p) /\ proc'[p].op = proc[p].op
  <2>0. Here(p) /\ ~Fails(p) /\ proc'[p].op # Nothing
    BY <1>2 DEF Advances, Fails, Here
  <2>1. CASE Is(Instr(p), "stopForwards", "any")
    <3>1. Instr(p)[1] = "stopForwards" /\ Arg(p) = "any"
      BY <2>1 DEF Is, Arg
    <3>2. StopForwards(p) /\ p \in Live
      BY <1>0, <2>0, <3>1, ActIs, ActionInstr DEF Silent, Checks, Refusals
    <3>3. ~Fail(p)
      BY <1>0, <1>2, <2>0, <3>1, Failed DEF MayFail, Advances
    <3> QED
      BY <3>1, <3>2, <3>3 DEF StopForwards, Stopped
  <2>2. CASE Instr(p)[1] = "closeAll"
    <3>1. Close(p) /\ p \in Live
      BY <1>0, <2>0, <2>2, ActIs, ActionInstr DEF Silent, Checks, Refusals
    <3>2. Retain({})
      BY <2>2, <3>1 DEF Close, At
    <3> QED
      BY <3>2 DEF Retain
  <2> QED
    BY <1>2, <2>1, <2>2 DEF Gains, Is
<1> QED
  BY <1>0, <1>1, <1>2, FactFrom DEF Debts

-----------------------------------------------------------------------------
\* what an edit does to the tunnel
LEMMA WrittenTunnel ==
  ASSUME TypeOK, NEW p \in All, NEW what \in Edits, NEW c \in Written(p, what)
  PROVE \/ c.tunnel = conf.tunnel
        \/ what \in {"tunnelUpdate", "tunnelDelete", "import", "delete"}
        \/ conf.tunnel = 0
<1>0. conf \in Vault
  BY DEF TypeOK
<1>3. CASE what = "other" \/ what = "key"
  BY <1>0, <1>3 DEF Written, store_settings_ai_api_key_update, Vault
<1>4. CASE what = "session" \/ what = "trust"
  BY <1>0, <1>4 DEF Written, store_update_session, store_trust_host_key, SetVersion, Vault
<1>6. CASE what = "proxy"
  BY <1>0, <1>6 DEF Written, store_settings_proxy_update, Vault
<1>7. CASE what = "allow"
  <2>1. PICK a \in SUBSET Exists, b \in BOOLEAN : c = Authorised(a, b)
    BY <1>7 DEF Written, store_settings_ai_api_update
  <2> QED
    BY <1>0, <1>7, <2>1 DEF Authorised, Vault
<1>8. CASE what = "tunnelCreate"
  BY <1>8 DEF Written, store_create_tunnel
<1>10. CASE what = "enabled" \/ what = "disable"
  BY <1>0, <1>10 DEF Written, store_set_tunnel_enabled, Vault
<1>11. CASE what = "retention" \/ what = "records"
  BY <1>0, <1>11 DEF Written, store_settings_backup_update, store_replace_backup_records, Vault
<1>13. CASE what = "recordDelete" \/ what = "recordsClear"
  BY <1>0, <1>13 DEF Written, store_delete_backup_record, Vault
<1> QED
  BY <1>3, <1>4, <1>6, <1>7, <1>8, <1>10, <1>11, <1>13 DEF Edits

\* an edit leaves no forward of a tunnel that is gone, or owes to close it
LEMMA MatchingEdit ==
  ASSUME Core, ForwardInv, Matching, NEW p \in All, Runs(p), Edit(p)
  PROVE Matching' \/ LateTunnel' \/ Owes(p, "clean")'
<1>0. TypeOK /\ Control /\ LockInv /\ p \in Live
  BY DEF Core, Runs
<1>1. At(p, "edit") /\ Here(p) /\ ~proc[p].failed /\ Instr(p)[1] = "edit" /\ fwds' = fwds
  BY <1>0, AtHere, Zenon DEF Edit, remote
<1>2. CASE \E c \in Vault : \E d : Writes(p, c, d)
  <2>0. PICK c \in Vault : \E d : Writes(p, c, d)
    BY <1>2
  <2>1. PICK d : Writes(p, c, d)
    BY <2>0
  <2>2. Arg(p) \in Edits /\ c \in Written(p, Arg(p)) /\ conf' = c
    BY <2>1 DEF Writes
  <2>3. Advances(p)
    BY <1>0, <2>1, WritesGo
  <2>4. CASE c.tunnel = conf.tunnel \/ conf.tunnel = 0
    BY <1>1, <2>2, <2>4 DEF Matching
  <2>5. CASE Arg(p) \in {"tunnelUpdate", "tunnelDelete", "import"}
    <3>1. StepsFounded(proc[p].op, proc[p].pc)
      BY <1>0, <1>1, Static DEF Here
    <3>2. CASE Fact(p, "noForwards")
      BY <1>1, <3>2 DEF ForwardInv, Matching
    <3>3. CASE proc[p].op \in {"tunnelUpdate", "tunnelDelete"}
      <4>1. seen'.late = Noted(p)
        BY <1>0, <2>1 DEF Writes, TypeOK
      <4>2. {"tunnelUpdate", "tunnelDelete"} \subseteq LateOps
        BY DEF LateOps, LateEdits
      <4> QED
        BY <1>0, <3>3, <4>1, <4>2, NotedType DEF LateTunnel
    <3> QED
      BY <1>1, <2>5, <3>1, <3>2, <3>3 DEF StepsFounded, Fact, Active, Kn, Here, Instr, Arg
  <2>6. CASE Arg(p) = "delete"
    <3>1. Loses(Instr(p), "clean") /\ ~Gains(Instr(p), "clean")
      BY <1>1, <2>6 DEF Loses, Gains, Is, Arg
    <3>2. proc'[p].op = proc[p].op
      BY <2>3 DEF Advances
    <3> QED
      BY <1>0, <2>3, <3>1, <3>2, DebtMade
  <2> QED
    BY <1>0, <2>2, <2>4, <2>5, <2>6, WrittenTunnel
<1>3. CASE conf' = conf
  BY <1>1, <1>3 DEF Matching
<1> QED
  BY <1>0, <1>2, <1>3, EditCases

LEMMA MatchingNext ==
  ASSUME Core, ForwardInv, NEW p \in All, Acts(p)
  PROVE Matching' \/ LateTunnel' \/ \E q \in All : Owes(q, "clean")'
<1>0. TypeOK /\ Control /\ LockInv /\ Shape(p)
  BY ActsShape DEF Core
<1>1. CASE Matching
  <2>1. CASE Runs(p) /\ Edit(p)
    BY <1>1, <2>1, MatchingEdit
  <2>2. CASE conf' = conf
    <3>1. CASE fwds' = fwds \/ Thins
      BY <1>1, <2>2, <3>1 DEF Matching, Thins
    <3>2. ASSUME NEW c, NEW b, fwds' = fwds \cup {Record(p, c, b)} PROVE Matching'
      <4> DEFINE r == Record(p, c, b)
      <4>1. r.v \in {0, conf.tunnel} /\ fwds' = fwds \cup {r}
        BY <3>2, RecordIs
      <4> HIDE DEF r
      <4> QED
        BY <1>1, <2>2, <4>1 DEF Matching
    <3>3. ASSUME NEW cs, Retain(cs) PROVE Matching'
      BY <1>1, <2>2, <3>3 DEF Retain, Matching
    <3> QED
      BY <1>0, <3>1, <3>2, <3>3, FwdsChange
  <2> QED
    BY <1>0, <2>1, <2>2, Effects
<1>2. ASSUME NEW q \in All, Owes(q, "clean") PROVE Matching' \/ Owes(q, "clean")'
  <2>1. CASE Owes(q, "clean")'
    BY <2>1
  <2>2. CASE q = p /\ Pays(p, "clean")
    <3>1. Advances(p) /\ Instr(p)[1] \in {"closeAll", "closeSession"}
      BY <2>2 DEF Pays, Gains, GainsSkipped, Is
    <3>2. Here(p) /\ proc'[p].op # Nothing
      BY <3>1 DEF Advances, Here
    <3>3. Close(p) /\ p \in Live
      BY <1>0, <3>1, <3>2, ActIs, ActionInstr DEF Silent, Checks, Refusals
    <3>4. Retain({c \in conns : c.s # Target}) \/ Retain({})
      BY <3>1, <3>3 DEF Close, At
    <3>5. ASSUME NEW f \in fwds' PROVE FALSE
      <4>1. PICK c \in conns : c.id = f.c /\ c.s # Target /\ f \in fwds
        BY <3>4, <3>5 DEF Retain
      <4>2. PICK d \in conns : d.id = f.c /\ d.s = Target
        BY <4>1 DEF ForwardInv, Carried
      <4> QED
        BY <4>1, <4>2 DEF ForwardInv, Numbered
    <3> QED
      BY <3>5 DEF Matching
  <2> QED
    BY <1>0, <1>2, <2>1, <2>2, DebtKept DEF Debts
<1>3. CASE LateTunnel
  BY <1>0, <1>3, LateGrows DEF LateTunnel
<1> QED
  BY <1>1, <1>2, <1>3 DEF ForwardInv

LEMMA ForwardNext ==
  ASSUME Core, ForwardInv, NEW p \in All, Acts(p) PROVE ForwardInv'
<1>1. Numbered' /\ Carried'
  BY NumberedNext, CarriedNext DEF Core, ForwardInv
<1>2. \A q \in All : Fact(q, "noForwards")' => fwds' = {}
  BY NoForwardsNext
<1>3. Matching' \/ LateTunnel' \/ \E q \in All : Owes(q, "clean")'
  BY MatchingNext
<1> QED
  BY <1>1, <1>2, <1>3 DEF ForwardInv

(* What ForwardsMatch needs: a forward is of a tunnel as the vault holds *)
(* it, or whoever changed the vault still holds the tunnel lock and is   *)
(* about to close its connection, or a thread changed the tunnel for a   *)
(* handler that was dropped.                                             *)
THEOREM ForwardInvariant == OperationsSpec => []ForwardInv
<1>1. ASSUME Core, ForwardInv, [OperationsNext]_operationsVars PROVE ForwardInv'
  <2>1. CASE UNCHANGED <<proc, locking, world>>
    <3>1. proc' = proc /\ conf' = conf /\ conns' = conns /\ fwds' = fwds /\ clock' = clock /\ seen' = seen
      BY <2>1 DEF world, remote
    <3>2. \A q \in All : /\ Fact(q, "noForwards")' => Fact(q, "noForwards")
                         /\ Owes(q, "clean") => Owes(q, "clean")'
      BY <3>1, FactSame
    <3>3. Numbered' /\ Carried' /\ (Matching => Matching') /\ (LateTunnel => LateTunnel')
      BY <1>1, <3>1 DEF ForwardInv, Numbered, Carried, Matching, LateTunnel
    <3> QED
      BY <1>1, <3>1, <3>2, <3>3 DEF ForwardInv
  <2> QED
    BY <1>1, <2>1, NextWhat, ForwardNext
<1> QED
  BY <1>1, ForwardInit, CoreInvariant, PTL DEF OperationsSpec

LEMMA QuietOwes ==
  ASSUME Quiet, NEW p \in All, NEW d PROVE ~Owes(p, d)
  BY DEF Quiet, Live, Owes, Active

(* When no operation is under way, every forward that runs is of the     *)
(* tunnel as the vault holds it: updates, deletions and starts of        *)
(* tunnels, from the desktop and over REST, leave no stale forward. Only *)
(* an update or deletion whose REST handler was dropped while it waited  *)
(* for the store can come after a start and leave one.                   *)
THEOREM OperationsForwardsMatch == OperationsSpec => []ForwardsMatch
<1>1. ForwardInv => ForwardsMatch
  BY QuietOwes DEF ForwardInv, ForwardsMatch, Matching, LateTunnel, Carried
<1> QED
  BY <1>1, ForwardInvariant, PTL

-----------------------------------------------------------------------------
(* The server and its slot, under the lock of the operations on it.      *)

\* the server is shut down, and no handler runs
ShutDown == ~server.open /\ \A q \in All : proc[q].op # Nothing => ~IsRest(proc[q].op)
Closed == seen.overrun \/ ShutDown
\* a server is in its slot, is shut down, or someone owes to do either
ServerInv ==
  /\ seen.overrun \/ \A q \in All : proc[q].view = Nothing
  /\ \A p \in All : /\ Fact(p, "drained") => Closed
                    /\ Fact(p, "taken") => proc[p].handle \/ Closed
  /\ server.inSlot \/ Closed \/ \E p \in All : Owes(p, "settled")

LEMMA ServerInit == OperationsInit => ServerInv
<1> SUFFICES ASSUME OperationsInit PROVE ServerInv
  OBVIOUS
<1>1. \A p \in All : ~Active(p) /\ proc[p].op = Nothing /\ proc[p].view = Nothing
  BY NobodyActive
<1>2. PICK w \in Worlds : server = w.server
  BY DEF OperationsInit
<1>3. server.open => server.inSlot
  BY <1>2, WorldsAssumption
<1> QED
  BY <1>1, <1>3 DEF ServerInv, Fact, Closed, ShutDown

LEMMA OverrunStays ==
  ASSUME TypeOK, Control, NEW p \in All, Acts(p), seen.overrun PROVE seen'.overrun
  BY ActsShape DEF Shape, Views

\* the listener is opened only by a start
LEMMA OpensWhen ==
  ASSUME TypeOK, Control, NEW p \in All, Acts(p), server'.open, ~server.open
  PROVE Runs(p) /\ StartServer(p) /\ Advances(p)
<1>1. server' # server
  OBVIOUS
<1>2. Runs(p) /\ (ServerStep(p) \/ StartServer(p) \/ Drain(p))
  BY <1>1, Effects
<1>3. p \in Live
  BY <1>2 DEF Runs
<1>4. ~ServerStep(p)
  BY <1>3, ServerStepCases
<1>5. ~Drain(p)
  BY <1>1, <1>3, DrainCases
<1> QED
  BY <1>1, <1>2, <1>3, <1>4, <1>5, StartServerCases

\* a handler begins only while the listener is open
LEMMA RestBegins ==
  ASSUME TypeOK, Control, NEW p \in All, Acts(p), NEW q \in All, proc'[q].op # Nothing, IsRest(proc'[q].op)
  PROVE server.open \/ (proc[q].op = proc'[q].op)
<1>0. Shape(p)
  BY ActsShape
<1>1. CASE Runs(p) /\ Step(p)
  <2>1. CASE q = p
    <3>1. proc[p].op # Nothing
      BY <1>1 DEF Runs, Live
    <3> QED
      BY <1>0, <2>1, <3>1 DEF Shape, Moves, Begins, Steady
  <2>2. CASE q # p
    BY <1>0, <2>2 DEF Shape, Aside, Steady
  <2> QED
    BY <2>1, <2>2
<1>2. CASE Start(p)
  <2>1. proc \in [All -> Process]
    BY DEF TypeOK
  <2>2. CASE q = p
    <3>1. PICK i \in DOMAIN todo : (IsRest(todo[i]) => server.open) /\ Begin(p, todo[i])
      BY <1>2 DEF Start
    <3>2. proc'[p].op = todo[i]
      BY <2>1, <3>1 DEF Begin, Become, Idle
    <3> QED
      BY <2>2, <3>1, <3>2
  <2>3. CASE q # p
    BY <1>2, <2>1, <2>3 DEF Start, Begin, Become
  <2> QED
    BY <2>2, <2>3
<1>3. CASE ClientGone(p)
  BY <1>3, GoneCases, IdleProcess, LateProgram DEF Hands, BeginsLate
<1> QED
  BY <1>1, <1>2, <1>3 DEF Acts

\* a server that is shut down stays so until it is started
LEMMA ClosedStays ==
  ASSUME Core, Closed, NEW p \in All, Acts(p), ~(Runs(p) /\ StartServer(p) /\ Advances(p))
  PROVE Closed'
<1>0. TypeOK /\ Control
  BY DEF Core
<1>1. CASE seen.overrun
  BY <1>0, <1>1, OverrunStays DEF Closed
<1>2. CASE ShutDown
  <2>1. ~server'.open
    BY <1>0, <1>2, OpensWhen DEF ShutDown
  <2>2. \A q \in All : proc'[q].op # Nothing => ~IsRest(proc'[q].op)
    BY <1>0, <1>2, RestBegins DEF ShutDown
  <2> QED
    BY <2>1, <2>2 DEF Closed, ShutDown
<1> QED
  BY <1>1, <1>2 DEF Closed

\* who takes or starts a server has apiOp, and owes no server
LEMMA ServerLocked ==
  ASSUME Core, NEW p \in All, Runs(p), Here(p), ~proc[p].failed, Instr(p)[1] \in {"take", "start", "restart"}
  PROVE Granted(p, "apiOp") /\ Fact(p, "settled")
<1>0. TypeOK /\ Control /\ LockInv /\ p \in Live /\ ~Waiting(p)
  BY DEF Core, Runs
<1>2. StepsFounded(proc[p].op, proc[p].pc)
  BY <1>0, Static DEF Here
<1>3. "apiOp" \in Kn(p).has /\ Active(p) /\ "settled" \in Kn(p).facts
  BY <1>2 DEF StepsFounded, Kn, Active, Here, Instr
<1> QED
  BY <1>0, <1>3, HasGranted DEF Fact

\* who owes a server has apiOp
LEMMA DebtorLocked ==
  ASSUME Core, NEW p \in All, Owes(p, "settled") PROVE Granted(p, "apiOp")
<1>0. TypeOK /\ Control /\ LockInv
  BY DEF Core
<1>1. /\ Here(p) /\ ~proc[p].failed /\ proc[p].op # Nothing
      /\ "settled" \notin KnownAt(proc[p].op, proc[p].pc).facts
  BY <1>0, DebtorHere DEF Debts
<1>2. DebtsPaid(proc[p].op, proc[p].pc)
  BY <1>0, <1>1, Static DEF Here
<1>3. "apiOp" \in Held(proc[p].op, proc[p].pc) /\ Active(p)
  BY <1>1, <1>2 DEF DebtsPaid, Active
<1> QED
  BY <1>0, <1>3, HeldGranted

\* a start by p: nobody else relies on a server that is shut down
LEMMA StartAlone ==
  ASSUME Core, NEW p \in All, Runs(p), StartServer(p), Advances(p), NEW q \in All,
         NEW f \in {"drained", "taken"}, Fact(q, f)
  PROVE q = p /\ Loses(Instr(p), f)
<1>0. TypeOK /\ Control /\ LockInv /\ p \in Live
  BY DEF Core, Runs
<1>1. Here(p) /\ ~proc[p].failed /\ Instr(p)[1] \in {"start", "restart"}
  BY <1>0, StartServerCases
<1>2. Granted(p, "apiOp")
  BY <1>1, ServerLocked
<1>3. Granted(q, "apiOp")
  BY FactHeld DEF Guard
<1>4. q = p
  BY <1>0, <1>2, <1>3, Exclusive DEF Locks
<1> QED
  BY <1>1, <1>4 DEF Loses

\* when a drain has ended, the server is shut down
LEMMA DrainCloses ==
  ASSUME Core, ServerInv, NEW p \in All, Acts(p), Advances(p), Instr(p)[1] = "drain" PROVE Closed'
<1>0. TypeOK /\ Control /\ LockInv
  BY DEF Core
<1>1. Here(p) /\ ~proc[p].failed /\ proc'[p].op # Nothing
  BY DEF Advances, Here
<1>2. Drain(p) /\ p \in Live
  BY <1>0, <1>1, ActIs, ActionInstr DEF Silent, Checks, Refusals
<1>3. Fact(p, "taken")
  <2>1. StepsFounded(proc[p].op, proc[p].pc)
    BY <1>0, <1>1, Static DEF Here
  <2> QED
    BY <1>1, <2>1 DEF StepsFounded, Fact, Active, Kn, Here, Instr
<1>4. CASE Closed
  <2>1. ~StartServer(p)
    BY ActionInstr
  <2> QED
    BY <1>4, <2>1, ClosedStays
<1>5. CASE ~Closed
  <2>1. proc[p].handle
    BY <1>3, <1>5 DEF ServerInv
  <2>2. ~(UNCHANGED proc)
    BY <1>0, AdvancesMoves DEF Steady
  <2>3. server' = server /\ ~server.open /\ ((Handlers = {} /\ UNCHANGED seen) \/ seen'.overrun)
    BY <1>0, <1>2, <2>1, <2>2, DrainCases
  <2>4. CASE seen'.overrun
    BY <2>4 DEF Closed
  <2>5. CASE Handlers = {} /\ UNCHANGED seen
    <3>1. \A q \in All : proc[q].view = Nothing
      BY <1>5 DEF ServerInv, Closed
    <3>2. ShutDown
      BY <2>3, <2>5, <3>1 DEF ShutDown, Handlers, Live
    <3> QED
      BY <1>5, <3>2 DEF Closed
  <2> QED
    BY <2>3, <2>4, <2>5
<1> QED
  BY <1>4, <1>5

LEMMA ServerFacts ==
  ASSUME Core, ServerInv, NEW p \in All, Acts(p), NEW q \in All
  PROVE /\ Fact(q, "drained")' => Closed'
        /\ Fact(q, "taken")' => proc'[q].handle \/ Closed'
<1>0. TypeOK /\ Control /\ LockInv /\ Shape(p)
  BY ActsShape DEF Core
<1>1. ASSUME NEW f \in {"drained", "taken"}, Fact(q, f), Steady(q) \/ ~Loses(Instr(p), f)
      PROVE ~(Runs(p) /\ StartServer(p) /\ Advances(p))
  BY <1>0, <1>1, StartAlone, AdvancesMoves
<1>2. ASSUME Fact(q, "drained")' PROVE Closed'
  <2>1. CASE Fact(q, "drained") /\ (Steady(q) \/ ~Loses(Instr(p), "drained"))
    <3>1. Closed
      BY <2>1 DEF ServerInv
    <3> QED
      BY <1>1, <2>1, <3>1, ClosedStays
  <2>2. CASE q = p /\ Gains(Instr(p), "drained") /\ Advances(p)
    BY <2>2, DrainCloses DEF Gains, Is
  <2> QED
    BY <1>0, <1>2, <2>1, <2>2, FactFrom DEF Debts
<1>3. ASSUME Fact(q, "taken")' PROVE proc'[q].handle \/ Closed'
  <2>1. CASE Fact(q, "taken") /\ Steady(q)
    <3>1. proc[q].handle \/ Closed
      BY <2>1 DEF ServerInv
    <3> QED
      BY <1>1, <2>1, <3>1, ClosedStays DEF Steady
  <2>2. CASE q = p /\ Here(p) /\ Fact(p, "taken") /\ ~Loses(Instr(p), "taken") /\ ~Steady(p) /\ Instr(p)[1] # "take"
             /\ proc'[p].op = proc[p].op /\ ~proc'[p].failed
    <3>1. proc[p].handle \/ Closed
      BY <2>2 DEF ServerInv
    <3>2. CASE Instr(p)[1] = "drain"
      <4>1. proc[p].op # Nothing
        BY <2>2 DEF Here
      <4>2. Drain(p) /\ p \in Live
        BY <1>0, <2>2, <3>2, <4>1, ActIs, ActionInstr DEF Silent, Checks, Refusals
      <4>3. ~(UNCHANGED proc)
        BY <2>2 DEF Steady
      <4>4. Advances(p)
        BY <1>0, <4>2, <4>3, DrainCases
      <4> QED
        BY <3>2, <4>4, DrainCloses
    <3>3. CASE Instr(p)[1] # "drain"
      <4>1. proc'[p].handle = proc[p].handle
        BY <1>0, <2>2, <3>3 DEF Shape, Locals
      <4> QED
        BY <1>1, <2>2, <3>1, <4>1, ClosedStays
    <3> QED
      BY <3>2, <3>3
  <2>3. CASE q = p /\ Here(p) /\ Instr(p)[1] = "take" /\ proc'[p].op = proc[p].op
    <3>1. proc[p].op # Nothing
      BY <2>3 DEF Here
    <3>2. ServerStep(p) /\ p \in Live /\ ~Waiting(p)
      BY <1>0, <2>3, <3>1, ActIs, ActionInstr DEF Silent, Checks, Refusals
    <3>3. proc'[p].handle = server.inSlot /\ ~proc[p].failed
      BY <1>0, <2>3, <3>2, ServerStepCases
    <3>4. ASSUME ~server.inSlot PROVE Closed
      <4>1. ASSUME NEW r \in All, Owes(r, "settled") PROVE FALSE
        <5>1. Granted(r, "apiOp") /\ Granted(p, "apiOp") /\ Fact(p, "settled")
          BY <2>3, <3>2, <3>3, <4>1, DebtorLocked, ServerLocked DEF Runs
        <5>2. r = p
          BY <1>0, <5>1, Exclusive DEF Locks
        <5> QED
          BY <4>1, <5>1, <5>2 DEF Owes, Fact
      <4> QED
        BY <3>4, <4>1 DEF ServerInv
    <3>5. ~StartServer(p)
      BY <2>3, ActionInstr
    <3> QED
      BY <2>3, <3>3, <3>4, <3>5, ClosedStays
  <2>4. CASE q = p /\ Gains(Instr(p), "taken") /\ Here(p) /\ proc'[p].op = proc[p].op
    BY <2>3, <2>4 DEF Gains, Is
  <2> QED
    BY <1>0, <1>3, <2>1, <2>2, <2>3, <2>4, FactFrom DEF Debts
<1> QED
  BY <1>2, <1>3

LEMMA SlotNext ==
  ASSUME Core, ServerInv, NEW p \in All, Acts(p)
  PROVE server'.inSlot \/ Closed' \/ \E q \in All : Owes(q, "settled")'
<1>0. TypeOK /\ Control /\ LockInv /\ Shape(p)
  BY ActsShape DEF Core
<1>1. CASE Runs(p) /\ StartServer(p) /\ Advances(p)
  <2>1. p \in Live
    BY <1>1 DEF Runs
  <2>2. Instr(p)[1] \in {"start", "restart"} /\ Here(p)
    BY <1>0, <2>1, <1>1, StartServerCases
  <2>3. CASE Instr(p)[1] = "start"
    <3>1. server' = [open |-> TRUE, inSlot |-> Instr(p)[1] = "start", cache |-> proc[p].allowed]
      BY <1>0, <1>1, <2>1, StartServerCases DEF Fails, Advances
    <3> QED
      BY <2>3, <3>1
  <2>4. CASE Instr(p)[1] = "restart"
    <3>1. Loses(Instr(p), "settled") /\ ~Gains(Instr(p), "settled")
      BY <2>4 DEF Loses, Gains, Is
    <3>2. Owes(p, "settled")'
      BY <1>0, <1>1, <3>1, DebtMade DEF Advances
    <3> QED
      BY <3>2
  <2> QED
    BY <2>2, <2>3, <2>4
<1>2. CASE ~(Runs(p) /\ StartServer(p) /\ Advances(p))
  <2>1. CASE Closed
    BY <1>2, <2>1, ClosedStays
  <2>2. CASE server.inSlot
    <3>1. CASE Runs(p) /\ ServerStep(p) /\ Instr(p)[1] = "take"
      <4>1. Advances(p)
        BY <1>0, <3>1, ServerStepCases DEF Runs
      <4>2. Loses(Instr(p), "settled") /\ ~Gains(Instr(p), "settled")
        BY <3>1 DEF Loses, Gains, Is
      <4>3. Owes(p, "settled")'
        BY <1>0, <4>1, <4>2, DebtMade DEF Advances
      <4> QED
        BY <4>3
    <3>2. CASE ~(Runs(p) /\ ServerStep(p) /\ Instr(p)[1] = "take")
      <4>1. CASE Runs(p) /\ ServerStep(p)
        BY <1>0, <2>2, <3>2, <4>1, ServerStepCases DEF Runs
      <4>2. CASE Runs(p) /\ Drain(p)
        BY <1>0, <2>2, <4>2, DrainCases DEF Runs
      <4>3. CASE Runs(p) /\ StartServer(p)
        BY <1>0, <1>2, <2>2, <4>3, StartServerCases DEF Runs
      <4> QED
        BY <1>0, <2>2, <4>1, <4>2, <4>3, Effects
    <3> QED
      BY <3>1, <3>2
  <2>3. ASSUME NEW q \in All, Owes(q, "settled") PROVE server'.inSlot \/ Closed' \/ Owes(q, "settled")'
    <3>1. CASE q = p /\ Pays(p, "settled")
      <4>0. Here(p) /\ ~proc[p].failed /\ proc[p].op # Nothing
        BY <1>0, <2>3, <3>1, DebtorHere DEF Debts
      <4>1. CASE Advances(p) /\ Instr(p)[1] = "drain"
        BY <4>1, DrainCloses
      <4>2. CASE Advances(p) /\ Instr(p)[1] = "install"
        <5>1. ServerStep(p) /\ p \in Live
          BY <1>0, <4>0, <4>2, ActIs, ActionInstr DEF Silent, Checks, Refusals, Advances
        <5> QED
          BY <1>0, <4>2, <5>1, ServerStepCases
      <4>3. CASE Skips(p) /\ Arg(p)[1] = "hadHandle"
        <5>1. Instr(p)[1] = "unless" /\ ~proc[p].handle
          BY <4>3 DEF Skips, Condition
        <5>2. StepsFounded(proc[p].op, proc[p].pc)
          BY <1>0, <4>0, Static DEF Here
        <5>3. Fact(p, "taken")
          BY <4>0, <4>3, <5>1, <5>2 DEF StepsFounded, Fact, Active, Kn, Instr, Arg
        <5>4. Closed
          BY <5>1, <5>3 DEF ServerInv
        <5> QED
          BY <1>2, <5>4, ClosedStays
      <4> QED
        BY <3>1, <4>1, <4>2, <4>3 DEF Pays, Gains, GainsSkipped, Is
    <3>2. CASE Owes(q, "settled")'
      BY <3>2
    <3> QED
      BY <1>0, <2>3, <3>1, <3>2, DebtKept DEF Debts
  <2> QED
    BY <2>1, <2>2, <2>3 DEF ServerInv
<1> QED
  BY <1>1, <1>2

LEMMA ServerNext ==
  ASSUME Core, ServerInv, NEW p \in All, Acts(p) PROVE ServerInv'
<1>0. TypeOK /\ Control /\ LockInv /\ Shape(p)
  BY ActsShape DEF Core
<1>1. seen'.overrun \/ \A q \in All : proc'[q].view = Nothing
  BY <1>0 DEF Shape, Views, ServerInv
<1>2. \A q \in All : /\ Fact(q, "drained")' => Closed'
                     /\ Fact(q, "taken")' => proc'[q].handle \/ Closed'
  BY ServerFacts
<1> QED
  BY <1>1, <1>2, SlotNext DEF ServerInv

-----------------------------------------------------------------------------
(* The connections and the configurations they were made with, under the *)
(* gate.                                                                 *)

\* p will close the connections of session s
Owed(s) == \E p \in All : proc[p].changed /\ Owes(p, IF s = Target THEN "current" ELSE "currentAll")
\* p will compare the connection c it made with the vault
Pending(c) == c.o = "automation" /\ c.s = Target /\ \E q \in All : Owes(q, "checked") /\ proc[q].built = c.v
Justified(c) == c.v = conf.ver[c.s] \/ Owed(c.s) \/ Pending(c)
Sole == \A c, d \in conns : c.s = Target /\ d.s = Target /\ c.o = "automation" /\ d.o = "automation" => c = d
\* a connection is of the configuration of its session, or whoever has changed the one or
\* made the other is about to close it
CurrentInv ==
  /\ Sole
  /\ \A p \in All : /\ Fact(p, "built") => proc[p].built = conf.ver[Target]
                    /\ Fact(p, "noConns") => seen.overrun \/ conns = {}
  /\ seen.overrun \/ \A c \in conns : Justified(c)

LEMMA ConnInit == OperationsInit => CurrentInv
<1> SUFFICES ASSUME OperationsInit PROVE CurrentInv
  OBVIOUS
<1>1. \A p \in All : ~Active(p)
  BY NobodyActive
<1>2. PICK w \in Worlds : conf = w.conf /\ conns = w.conns
  BY DEF OperationsInit
<1>3. Sole /\ \A c \in conns : c.v = conf.ver[c.s]
  BY <1>2, WorldsAssumption DEF Sole
<1> QED
  BY <1>1, <1>3 DEF CurrentInv, Fact, Justified

LEMMA SoleNext ==
  ASSUME TypeOK, Control, Sole, NEW p \in All, Acts(p) PROVE Sole'
<1>1. CASE conns' \subseteq conns
  BY <1>1 DEF Sole
<1>2. CASE conns' = conns \cup {Made(p)} /\ (Arg(p) = "automation" => OfTarget("automation") = {})
  <2> DEFINE m == Made(p)
  <2>1. conns' = conns \cup {m} /\ (m.o = "automation" => OfTarget("automation") = {})
    BY <1>2 DEF Made
  <2> HIDE DEF m
  <2> QED
    BY <2>1 DEF Sole, OfTarget
<1> QED
  BY <1>1, <1>2, ConnsChange

\* the edits that change what connections depend on
LEMMA WrittenVersions ==
  ASSUME TypeOK, NEW p \in All, NEW what \in Edits, NEW c \in Written(p, what)
  PROVE /\ what \notin {"session", "delete", "proxy", "import"} => c.ver = conf.ver
        /\ what # "proxy" => \A s \in Sessions : s # Target => c.ver[s] = conf.ver[s]
<1>0. conf \in Vault /\ Target \in Sessions
  BY OperationsAssumption DEF TypeOK
<1>1. \A v : LET w == SetVersion(v) IN /\ \A s \in Sessions : s # Target => w.ver[s] = conf.ver[s]
                                       /\ w = [conf EXCEPT !.ver[Target] = v]
  BY <1>0 DEF SetVersion, Vault
<1>3. CASE what = "other" \/ what = "key"
  BY <1>0, <1>3 DEF Written, store_settings_ai_api_key_update, Vault
<1>4. CASE what = "session"
  BY <1>0, <1>1, <1>4 DEF Written, store_update_session
<1>5. CASE what = "delete"
  BY <1>0, <1>5, Zenon DEF Written, store_delete_session, SetVersion, Vault
<1>6. CASE what = "proxy"
  BY <1>6
<1>7. CASE what = "allow"
  <2>1. PICK a \in SUBSET Exists, b \in BOOLEAN : c = Authorised(a, b)
    BY <1>7 DEF Written, store_settings_ai_api_update
  <2> QED
    BY <1>0, <1>7, <2>1 DEF Authorised, Vault
<1>8. CASE what = "tunnelCreate"
  <2>1. c \in {[conf EXCEPT !.tunnel = NewVersion, !.on = b] : b \in BOOLEAN}
    BY <1>8 DEF Written, store_create_tunnel
  <2> QED
    BY <1>0, <1>8, <2>1 DEF Vault
<1>9. CASE what = "trust" \/ what = "tunnelUpdate" \/ what = "tunnelDelete"
  BY <1>0, <1>9 DEF Written, store_trust_host_key, store_update_tunnel, store_delete_tunnel, Vault
<1>10. CASE what = "enabled" \/ what = "disable"
  BY <1>0, <1>10 DEF Written, store_set_tunnel_enabled, Vault
<1>11. CASE what = "retention" \/ what = "records"
  BY <1>0, <1>11 DEF Written, store_settings_backup_update, store_replace_backup_records, Vault
<1>12. CASE what = "import"
  <2>1. PICK v \in {conf.ver[Target], NewVersion, 0}, a \in SUBSET Sessions : c = Imported(v, a)
    BY <1>12 DEF Written, store_backup_import
  <2>2. c.ver = SetVersion(v).ver
    BY <1>0, <2>1 DEF Imported, SetVersion, Vault
  <2> QED
    BY <1>1, <1>12, <2>2
<1>13. CASE what = "recordDelete" \/ what = "recordsClear"
  BY <1>0, <1>13 DEF Written, store_delete_backup_record, Vault
<1> QED
  BY <1>3, <1>4, <1>5, <1>6, <1>7, <1>8, <1>9, <1>10, <1>11, <1>12, <1>13 DEF Edits

\* who changes it has the gate for itself
LEMMA VersionsChange ==
  ASSUME Core, NEW p \in All, Acts(p), conf'.ver # conf.ver
  PROVE /\ Runs(p) /\ Here(p) /\ ~proc[p].failed /\ Instr(p)[1] = "edit" /\ Advances(p)
        /\ Arg(p) \in {"session", "delete", "proxy", "import"}
        /\ Arg(p) # "proxy" => \A s \in Sessions : s # Target => conf'.ver[s] = conf.ver[s]
        /\ proc'[p].changed /\ conns' = conns /\ seen'.overrun = seen.overrun
        /\ Granted(p, "gate") /\ Writer(queue["gate"], p)
        /\ Arg(p) = "import" => Fact(p, "noConns")
<1>0. TypeOK /\ Control /\ LockInv
  BY DEF Core
<1>1. Runs(p) /\ Edit(p)
  BY <1>0, Effects
<1>2. p \in Live /\ ~Waiting(p)
  BY <1>1 DEF Runs
<1>3. Here(p) /\ ~proc[p].failed /\ Instr(p)[1] = "edit"
  BY <1>0, <1>1, <1>2, AtHere, Zenon DEF Edit
<1>12. PICK c \in Vault : \E d : Writes(p, c, d)
  BY <1>0, <1>1, <1>2, EditCases
<1>4. PICK d : Writes(p, c, d)
  BY <1>12
<1>5. Arg(p) \in Edits /\ c \in Written(p, Arg(p)) /\ conf' = c /\ conns' = conns
  BY <1>4 DEF Writes, remote
<1>6. Advances(p) /\ proc'[p].changed
  BY <1>0, <1>2, <1>4, <1>5, WritesGo
<1>7. /\ Arg(p) \in {"session", "delete", "proxy", "import"}
      /\ Arg(p) # "proxy" => \A s \in Sessions : s # Target => conf'.ver[s] = conf.ver[s]
  BY <1>0, <1>5, WrittenVersions
<1>8. StepsFounded(proc[p].op, proc[p].pc)
  BY <1>0, <1>3, Static DEF Here
<1>9. /\ Fact(p, "exclusive") /\ "gate" \in Kn(p).has /\ Active(p)
      /\ Arg(p) = "import" => Fact(p, "noConns")
  BY <1>3, <1>7, <1>8 DEF StepsFounded, Is, Fact, Active, Kn, Here, Instr, Arg
<1>10. Writer(queue["gate"], p)
  BY <1>0, <1>3, <1>9 DEF LockInv, Excluding, Here
<1>11. ~Drain(p)
  BY <1>3, ActionInstr
<1> QED
  BY <1>0, <1>1, <1>2, <1>3, <1>5, <1>6, <1>7, <1>9, <1>10, <1>11, HasGranted, Effects

LEMMA BuildNext ==
  ASSUME TypeOK, Control, NEW p \in All, Acts(p), Here(p), Instr(p)[1] = "build", proc'[p].op # Nothing,
         ~proc'[p].failed
  PROVE proc'[p].built = conf'.ver[Target]
<1>1. Build(p) /\ p \in Live
  BY ActIs, ActionInstr DEF Silent, Checks, Refusals
<1>2. ~proc[p].failed /\ proc[p] \in Process /\ proc \in [All -> Process] /\ conf' = conf
  BY <1>1, AtHere DEF Build, TypeOK, world
<1>3. ~Fail(p)
  BY <1>2, Failed DEF MayFail, Fails
<1>4. GoWith(p, [proc[p] EXCEPT !.built = conf.ver[Target], !.pin = conf.pin])
  BY <1>1, <1>3 DEF Build
<1> DEFINE v == conf.ver[Target]
           h == conf.pin
<1>5. proc'[p] = Skip([proc[p] EXCEPT !.built = v, !.pin = h], 1)
  BY <1>2, <1>4 DEF GoWith, Become
<1> HIDE DEF v, h
<1>6. proc'[p].built = v
  BY <1>2, <1>5 DEF Skip, Process
<1> QED
  BY <1>2, <1>6 DEF v

LEMMA BuiltNext ==
  ASSUME Core, CurrentInv, NEW p \in All, Acts(p), NEW q \in All, Fact(q, "built")'
  PROVE proc'[q].built = conf'.ver[Target]
<1>0. TypeOK /\ Control /\ LockInv /\ Shape(p)
  BY ActsShape DEF Core
<1>1. CASE Fact(q, "built") /\ (Steady(q) \/ ~Loses(Instr(p), "built"))
  <2>1. proc[q].built = conf.ver[Target] /\ Granted(q, "gate")
    BY <1>1, FactHeld DEF CurrentInv, Guard
  <2>2. ASSUME conf'.ver # conf.ver PROVE FALSE
    <3>1. /\ Instr(p)[1] = "edit" /\ Advances(p) /\ Arg(p) \in {"session", "delete", "proxy", "import"}
          /\ Granted(p, "gate") /\ Writer(queue["gate"], p)
      BY <2>2, VersionsChange
    <3>2. p = q
      BY <1>0, <2>1, <3>1, Exclusive DEF Locks
    <3>3. Loses(Instr(p), "built")
      BY <3>1 DEF Loses, Arg
    <3> QED
      BY <1>0, <1>1, <3>1, <3>2, <3>3, AdvancesMoves
  <2>3. CASE Steady(q)
    BY <2>1, <2>2, <2>3 DEF Steady
  <2>4. CASE q = p /\ Here(p) /\ proc'[p].op = proc[p].op /\ ~proc'[p].failed
    <3>1. proc[p].op # Nothing
      BY <2>4 DEF Here
    <3>2. CASE Instr(p)[1] # "build"
      BY <1>0, <2>1, <2>2, <2>4, <3>2 DEF Shape, Locals
    <3>3. CASE Instr(p)[1] = "build"
      BY <1>0, <2>2, <2>4, <3>1, <3>3, BuildNext
    <3> QED
      BY <3>2, <3>3
  <2>5. Steady(q) \/ (q = p /\ Here(p) /\ proc'[p].op = proc[p].op /\ ~proc'[p].failed)
    BY <1>0, FactFrom DEF Debts
  <2> QED
    BY <2>3, <2>4, <2>5
<1>2. CASE q = p /\ Gains(Instr(p), "built") /\ Advances(p) /\ Here(p)
  <2>1. Instr(p)[1] = "build"
    BY <1>2 DEF Gains, Is
  <2> QED
    BY <1>0, <1>2, <2>1, BuildNext DEF Advances, Here
<1> QED
  BY <1>0, <1>1, <1>2, FactFrom DEF Debts

\* who relies on there being no connections has the gate for itself, and no handler runs
LEMMA NoConnsAlone ==
  ASSUME Core, ServerInv, NEW p \in All, NEW q \in All, Runs(p), Connect(p), Advances(p), Fact(q, "noConns"),
         ~seen.overrun
  PROVE q = p /\ Loses(Instr(p), "noConns")
<1>0. TypeOK /\ Control /\ LockInv /\ p \in Live
  BY DEF Core, Runs
<1>1. Here(p) /\ ~proc[p].failed /\ Instr(p)[1] = "connect" /\ proc[p].op # Nothing
  BY <1>0, ConnectCases DEF Here
<1>2. Granted(q, "gate")
  BY FactHeld DEF Guard
<1>3. Fact(q, "drained") /\ Fact(q, "exclusive")
  <2>1. Active(q) /\ "noConns" \in KnownAt(proc[q].op, proc[q].pc).facts
    BY DEF Fact, Kn
  <2>2. proc[q].op # Nothing /\ Disciplined(proc[q].op) /\ proc[q].pc \in 1..(Len(Program(proc[q].op)) + 1)
    BY <1>0, <2>1, Static DEF Active, Control
  <2>3. FactsGuarded(proc[q].op, proc[q].pc)
    BY <2>2 DEF Disciplined
  <2> QED
    BY <2>1, <2>3 DEF FactsGuarded, Fact, Kn
<1>4. Writer(queue["gate"], q)
  BY <1>0, <1>3 DEF LockInv, Excluding, Fact, Active
<1>5. ~IsRest(proc[p].op)
  BY <1>1, <1>3 DEF ServerInv, Closed, ShutDown
<1>6. StepsFounded(proc[p].op, proc[p].pc)
  BY <1>0, <1>1, Static DEF Here
<1>7. Fact(p, "built")
  BY <1>1, <1>5, <1>6 DEF StepsFounded, Fact, Active, Kn, Instr
<1>8. Granted(p, "gate")
  BY <1>7, FactHeld DEF Guard
<1>9. q = p
  BY <1>0, <1>2, <1>4, <1>8, Exclusive DEF Locks
<1> QED
  BY <1>1, <1>9 DEF Loses

LEMMA NoConnsNext ==
  ASSUME Core, ServerInv, CurrentInv, NEW p \in All, Acts(p), NEW q \in All, Fact(q, "noConns")'
  PROVE seen'.overrun \/ conns' = {}
<1>0. TypeOK /\ Control /\ LockInv /\ Shape(p)
  BY ActsShape DEF Core
<1> SUFFICES ASSUME ~seen'.overrun PROVE conns' = {}
  OBVIOUS
<1>1. ~seen.overrun
  BY <1>0, OverrunStays
<1>2. CASE Fact(q, "noConns") /\ (Steady(q) \/ ~Loses(Instr(p), "noConns"))
  <2>1. conns = {}
    BY <1>1, <1>2 DEF CurrentInv
  <2>2. ~(Runs(p) /\ Connect(p) /\ Advances(p))
    BY <1>0, <1>1, <1>2, NoConnsAlone, AdvancesMoves
  <2> QED
    BY <1>0, <2>1, <2>2, ConnsChange
<1>3. CASE q = p /\ Gains(Instr(p), "noConns") /\ Advances(p)
  <2>1. Instr(p)[1] = "closeAll" /\ Here(p) /\ proc'[p].op # Nothing
    BY <1>3 DEF Gains, Is, Advances, Here
  <2>2. Close(p)
    BY <1>0, <2>1, ActIs, ActionInstr DEF Silent, Checks, Refusals
  <2>3. Retain({})
    BY <2>1, <2>2 DEF Close, At
  <2> QED
    BY <2>3 DEF Retain
<1> QED
  BY <1>0, <1>2, <1>3, Fact(q, "noConns")', FactFrom DEF Debts

-----------------------------------------------------------------------------
\* whoever owes to close connections still does, or has closed them
LEMMA OwedNext ==
  ASSUME Core, NEW p \in All, Acts(p), NEW s, Owed(s)
  PROVE Owed(s)' \/ \A c \in conns' : c.s # s
<1>0. TypeOK /\ Control /\ LockInv /\ Shape(p)
  BY ActsShape DEF Core
<1> DEFINE d == IF s = Target THEN "current" ELSE "currentAll"
<1>1. d \in Debts
  BY DEF Debts
<1>2. PICK q \in All : proc[q].changed /\ Owes(q, d)
  BY DEF Owed
<1>3. CASE Owes(q, d)' /\ Remembers(q)
  <2>1. proc'[q].changed
    BY <1>2, <1>3 DEF Remembers
  <2> QED
    BY <1>3, <2>1 DEF Owed
<1>4. CASE q = p /\ Owes(p, d)' /\ proc'[p].op = proc[p].op /\ ~proc'[p].failed
  <2>1. /\ Here(p) /\ ~proc[p].failed /\ proc[p].op # Nothing
        /\ d \notin KnownAt(proc[p].op, proc[p].pc).facts
    BY <1>0, <1>1, <1>2, <1>4, DebtorHere
  <2>2. DebtsPaid(proc[p].op, proc[p].pc)
    BY <1>0, <2>1, Static DEF Here
  <2>3. ~MayFail(Instr(p))
    BY <2>1, <2>2 DEF DebtsPaid, Instr
  <2>4. Instr(p)[1] # "edit"
    BY <2>3 DEF MayFail
  <2>5. proc'[p].changed = proc[p].changed
    BY <1>0, <1>4, <2>4 DEF Shape, Locals
  <2> QED
    BY <1>2, <1>4, <2>5 DEF Owed
<1>5. CASE q = p /\ Pays(p, d)
  <2>1. CASE Skips(p) /\ Arg(p)[1] = "changed"
    BY <1>2, <1>5, <2>1 DEF Skips, Condition
  <2>2. CASE Advances(p) /\ Instr(p)[1] \in {"closeAll", "closeSession"} /\ (Instr(p)[1] = "closeSession" => s = Target)
    <3>1. Here(p) /\ proc'[p].op # Nothing
      BY <2>2 DEF Advances, Here
    <3>2. Close(p)
      BY <1>0, <2>2, <3>1, ActIs, ActionInstr DEF Silent, Checks, Refusals
    <3>3. \/ Retain({})
          \/ s = Target /\ Retain({c \in conns : c.s # Target})
      BY <2>2, <3>2 DEF Close, At
    <3> QED
      BY <3>3 DEF Retain
  <2> QED
    BY <1>5, <2>1, <2>2 DEF Pays, Gains, GainsSkipped, Is
<1> HIDE DEF d
<1> QED
  BY <1>0, <1>1, <1>2, <1>3, <1>4, <1>5, DebtKept

\* a connection that is to be compared still is, or is of the present version, or closed
LEMMA PendingNext ==
  ASSUME Core, Sole, NEW p \in All, Acts(p), NEW c \in conns, Pending(c)
  PROVE Pending(c)' \/ c.v = conf'.ver[c.s] \/ c \notin conns'
<1>0. TypeOK /\ Control /\ LockInv /\ Shape(p)
  BY ActsShape DEF Core
<1>1. PICK q \in All : Owes(q, "checked") /\ proc[q].built = c.v
  BY DEF Pending
<1>2. c.o = "automation" /\ c.s = Target /\ c \in OfTarget("automation")
  BY DEF Pending, OfTarget
<1>3. ASSUME Owes(q, "checked")', proc'[q].built = proc[q].built PROVE Pending(c)'
  BY <1>1, <1>2, <1>3 DEF Pending
<1>4. CASE Owes(q, "checked")' /\ Remembers(q)
  BY <1>3, <1>4 DEF Remembers
<1>5. CASE q = p /\ (Pays(p, "checked") \/ (Owes(p, "checked")' /\ proc'[p].op = proc[p].op /\ ~proc'[p].failed))
  <2>1. /\ Here(p) /\ ~proc[p].failed /\ proc[p].op # Nothing
        /\ "checked" \notin KnownAt(proc[p].op, proc[p].pc).facts
    BY <1>0, <1>1, <1>5, DebtorHere DEF Debts
  <2>2. DebtsPaid(proc[p].op, proc[p].pc)
    BY <1>0, <2>1, Static DEF Here
  <2>3. Instr(p)[1] = "stillAllowed" \/ Is(Instr(p), "valid", "automation")
    BY <2>1, <2>2 DEF DebtsPaid, Instr
  <2>4. proc[p].pc > 1 /\ ~Asks(Program(proc[p].op)[proc[p].pc - 1])
    BY <2>1, <2>2 DEF DebtsPaid
  <2>5. ~Waiting(p)
    <3> SUFFICES ASSUME NEW l \in Wants(p), ~Granted(p, l) PROVE FALSE
      BY DEF Waiting
    <3>1. Asked(p, l)
      BY <1>0, <2>1 DEF LockInv, Granting
    <3> QED
      BY <2>4, <3>1 DEF Asked
  <2>6. ~Dropped(p)
    BY <2>3, <2>5 DEF Dropped, At, Is
  <2>7. CASE Owes(p, "checked")' /\ proc'[p].op = proc[p].op /\ ~proc'[p].failed
    <3>1. Instr(p)[1] # "build"
      BY <2>3 DEF Is
    <3> QED
      BY <1>0, <1>3, <1>5, <2>7, <3>1 DEF Shape, Locals
  <2>8. CASE Advances(p) /\ Is(Instr(p), "valid", "automation")
    <3>1. StillValid(p)
      BY <1>0, <2>1, <2>8, ActIs, ActionInstr DEF Silent, Checks, Refusals, Advances, Is
    <3>2. ~Fail(p)
      BY <1>0, <2>1, <2>8, Failed DEF MayFail, Fails, Advances, Is
    <3>3. proc[p].built = conf.ver[Target] /\ conf' = conf
      BY <3>1, <3>2 DEF StillValid
    <3> QED
      BY <1>1, <1>2, <1>5, <3>3
  <2>9. CASE Fails(p)
    <3>1. DisconnectAutomation
      <4>1. proc'[p].op # Nothing
        BY <1>0, <2>1, <2>6 DEF Shape, Moves, Here, Begins, Steady
      <4>2. ~Go(p)
        BY <1>0, <2>1, <2>3, <2>9, Gone DEF Fails, Advances, Is
      <4>3. CASE Instr(p)[1] = "stillAllowed"
        <5>1. StillAllowed(p)
          BY <1>0, <2>1, <4>1, <4>3, ActIs, ActionInstr DEF Silent, Checks, Refusals
        <5> QED
          BY <4>2, <5>1 DEF StillAllowed
      <4>4. CASE Is(Instr(p), "valid", "automation")
        <5>1. StillValid(p)
          BY <1>0, <2>1, <4>1, <4>4, ActIs, ActionInstr DEF Silent, Checks, Refusals, Is
        <5> QED
          BY <4>2, <4>4, <5>1 DEF StillValid, Is, Arg
      <4> QED
        BY <2>3, <4>3, <4>4
    <3>2. PICK e \in OfTarget("automation") : Retain(conns \ {e})
      BY <1>2, <3>1 DEF DisconnectAutomation
    <3>3. e = c
      BY <1>2, <3>2 DEF Sole, OfTarget
    <3> QED
      BY <3>2, <3>3 DEF Retain
  <2> QED
    BY <1>5, <2>6, <2>7, <2>8, <2>9 DEF Pays, Gains, GainsSkipped, Is
<1> QED
  BY <1>0, <1>1, <1>4, <1>5, DebtKept DEF Debts

LEMMA JustifiedNext ==
  ASSUME Core, ServerInv, CurrentInv, NEW p \in All, Acts(p), ~seen'.overrun, NEW c \in conns'
  PROVE Justified(c)'
<1>0. TypeOK /\ Control /\ LockInv /\ Shape(p)
  BY ActsShape DEF Core
<1>1. ~seen.overrun
  BY <1>0, OverrunStays
<1>2. CASE c \in conns
  <2>1. Justified(c) /\ c.s \in Sessions
    BY <1>0, <1>1, <1>2 DEF CurrentInv, TypeOK, Connection
  <2>2. CASE Owed(c.s)
    <3>1. Owed(c.s)'
      BY <2>2, OwedNext
    <3> QED
      BY <3>1 DEF Justified
  <2>3. CASE Pending(c)
    <3>1. Pending(c)' \/ c.v = conf'.ver[c.s]
      BY <1>2, <2>3, PendingNext DEF CurrentInv
    <3> QED
      BY <3>1 DEF Justified
  <2>4. CASE c.v = conf.ver[c.s]
    <3>1. CASE conf'.ver[c.s] = conf.ver[c.s]
      BY <2>4, <3>1 DEF Justified
    <3>2. CASE conf'.ver[c.s] # conf.ver[c.s]
      <4>1. /\ Instr(p)[1] = "edit" /\ Advances(p) /\ Arg(p) \in {"session", "delete", "proxy", "import"}
            /\ Arg(p) # "proxy" => c.s = Target
            /\ proc'[p].changed
            /\ Arg(p) = "import" => Fact(p, "noConns")
        BY <2>1, <3>2, VersionsChange
      <4>2. Arg(p) # "import"
        BY <1>1, <1>2, <4>1 DEF CurrentInv
      <4> DEFINE d == IF c.s = Target THEN "current" ELSE "currentAll"
      <4>3. Loses(Instr(p), d) /\ ~Gains(Instr(p), d)
        BY <4>1, <4>2 DEF Loses, Gains, Is, Arg
      <4>4. Owes(p, d)'
        BY <1>0, <4>1, <4>3, DebtMade DEF Advances
      <4>5. Owed(c.s)'
        BY <4>1, <4>4 DEF Owed
      <4> QED
        BY <4>5 DEF Justified
    <3> QED
      BY <3>1, <3>2
  <2> QED
    BY <2>1, <2>2, <2>3, <2>4 DEF Justified
<1>3. CASE c \notin conns
  <2>1. /\ Runs(p) /\ Connect(p) /\ Advances(p) /\ Here(p) /\ Instr(p)[1] = "connect"
        /\ c = Made(p) /\ proc'[p].built = proc[p].built
    BY <1>0, <1>3, ConnsChange
  <2>2. /\ c.o = (IF Arg(p) = "automation" THEN "automation" ELSE "desktop") /\ c.s = Target
        /\ c.v = proc[p].built
    BY <2>1 DEF Made
  <2>3. conf' = conf /\ ~proc[p].failed /\ proc[p].op # Nothing
    BY <2>1 DEF Connect, Advances, Here
  <2>4. StepsFounded(proc[p].op, proc[p].pc)
    BY <1>0, <2>1, <2>3, Static DEF Here
  <2>5. CASE "built" \in KnownAt(proc[p].op, proc[p].pc).facts
    <3>1. Fact(p, "built")
      BY <2>3, <2>5 DEF Fact, Active, Kn
    <3> QED
      BY <2>2, <2>3, <3>1 DEF CurrentInv, Justified
  <2>6. CASE Arg(p) = "automation"
    <3>1. Loses(Instr(p), "checked") /\ ~Gains(Instr(p), "checked")
      BY <2>1, <2>6 DEF Loses, Gains, Is, Arg
    <3>2. Owes(p, "checked")'
      BY <1>0, <2>1, <3>1, DebtMade DEF Advances
    <3>3. Pending(c)'
      BY <2>1, <2>2, <2>6, <3>2 DEF Pending
    <3> QED
      BY <3>3 DEF Justified
  <2> QED
    BY <2>1, <2>4, <2>5, <2>6 DEF StepsFounded, Instr, Arg
<1> QED
  BY <1>2, <1>3

LEMMA ConnNext ==
  ASSUME Core, ServerInv, CurrentInv, NEW p \in All, Acts(p) PROVE CurrentInv'
<1>1. Sole'
  BY SoleNext DEF Core, CurrentInv
<1>2. \A q \in All : /\ Fact(q, "built")' => proc'[q].built = conf'.ver[Target]
                     /\ Fact(q, "noConns")' => seen'.overrun \/ conns' = {}
  BY BuiltNext, NoConnsNext
<1>3. seen'.overrun \/ \A c \in conns' : Justified(c)'
  BY JustifiedNext
<1> QED
  BY <1>1, <1>2, <1>3 DEF CurrentInv

(* What ConnectionsCurrent needs: the server that was taken out of its   *)
(* slot is shut down or put back by whoever took it, and a connection    *)
(* made with an older configuration is about to be closed, by whoever    *)
(* changed the configuration or by whoever made the connection.          *)
THEOREM CurrentInvariant == OperationsSpec => [](ServerInv /\ CurrentInv)
<1>1. ASSUME Core, ServerInv, CurrentInv, [OperationsNext]_operationsVars PROVE ServerInv' /\ CurrentInv'
  <2>1. CASE UNCHANGED <<proc, locking, world>>
    <3>1. proc' = proc /\ conf' = conf /\ conns' = conns /\ server' = server /\ seen' = seen
      BY <2>1 DEF world, remote
    <3>2. \A q \in All : \A f : (Fact(q, f)' <=> Fact(q, f)) /\ (Owes(q, f)' <=> Owes(q, f))
      BY <3>1, FactSame
    <3>3. ServerInv'
      BY <1>1, <3>1, <3>2 DEF ServerInv, Closed, ShutDown
    <3>4. Sole'
      BY <1>1, <3>1 DEF CurrentInv, Sole
    <3>5. \A c : Justified(c) => Justified(c)'
      BY <3>1, <3>2 DEF Justified, Owed, Pending
    <3> QED
      BY <1>1, <3>1, <3>2, <3>3, <3>4, <3>5 DEF CurrentInv
  <2> QED
    BY <1>1, <2>1, NextWhat, ServerNext, ConnNext
<1> QED
  BY <1>1, ServerInit, ConnInit, CoreInvariant, PTL DEF OperationsSpec

(* When no operation is under way, every connection was made with the    *)
(* session and the proxy the vault holds (unless a handler outlived the  *)
(* drain): one built from a stale profile does not stay, whether the     *)
(* change or the connect came first.                                     *)
THEOREM OperationsConnectionsCurrent == OperationsSpec => []ConnectionsCurrent
<1>1. CurrentInv => ConnectionsCurrent
  BY QuietOwes DEF CurrentInv, ConnectionsCurrent, Justified, Owed, Pending
<1> QED
  BY <1>1, CurrentInvariant, PTL
=============================================================================
