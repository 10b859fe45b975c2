------------------------------ MODULE Traffic -------------------------------
(***************************************************************************)
(* What one job computes: FlowAccumulator adds the lines of the flow files *)
(* up to traffic per client address and channel, Result says what became   *)
(* of them, and SiftTraffic turns the traffic into chunks for the online   *)
(* sessions of the nas_ip, which SaveChunkList inserts.  The specification *)
(* reads some lines one by one, then calls Result and, when there is       *)
(* traffic, SiftTraffic and SaveChunkList; what fails is read again by the *)
(* job of the next cycle, with what has come since.                        *)
(***************************************************************************)
EXTENDS Integers, Sequences, FiniteSets

CONSTANTS
    Addr,           \* addresses that net.ParseIP accepts, as net.IP.String() writes them
    InternalNet,    \* those in a subnet of the file "internal"
    Unclassified,   \* those on which cidranger's Contains returns an error
    NoAddr,         \* a field that is no address
    SessionIP,      \* texts of the column ip of online_session, in Addr or written otherwise
    SessID,         \* sess_id of that table
    NasIP,          \* nas_ip of that table
    ByteSize,       \* doctets of a record: what strconv.Atoi accepts, a sign included
    MaxInteger,     \* the largest value of an INTEGER column
    MaxLines        \* bound: lines of one batch, which is retried while it may still grow

ASSUME TrafficAssumption ==
    /\ InternalNet \cup Unclassified \subseteq Addr
    /\ InternalNet \cap Unclassified = {}
    /\ NoAddr \notin Addr
    /\ ByteSize \subseteq Int
    /\ MaxInteger \in Nat /\ MaxLines \in Nat

Channel == {"Internal", "External", "Other"}

Record == [ByteSize : ByteSize, SrcIP : Addr, DstIP : Addr]

\* Rows of the tables channel and online_session.  The latter has two keys.
ChannelRow == [ID : Channel, Enabled : BOOLEAN]
OnlineSession == [IP : SessionIP, SessID : SessID, NasIP : NasIP]

\* What gensql.Select may return: no row at all is ErrNoData, and the cycle ends.
Select(Row, keys) ==
    {rows \in (SUBSET Row) \ {{}} :
        \A key \in keys : \A r, s \in rows : r[key] = s[key] => r = s}

\* A channel without a row reads as disabled from the map.
LoadChannelMap(rows) == [c \in Channel |-> [ID |-> c, Enabled |-> TRUE] \in rows]

LoadOnlineSessionMap(rows) ==
    [n \in {r.NasIP : r \in rows} |-> {r \in rows : r.NasIP = n}]

\* A header, an empty line, a line of another number of fields, or one that parseRecord refuses.
Skipped == [ByteSize |-> 0, SrcIP |-> NoAddr, DstIP |-> NoAddr]

VARIABLES
    channelMap,         \* [Channel -> BOOLEAN], an absent channel counts as disabled
    sessionList,        \* the online sessions of the job's nas_ip
    lines,              \* the lines read so far
    trafficMap,         \* [subset of Addr -> [enabled channels -> Traffic]]
    parsedRecords,
    classifyErrCount,
    result,             \* of the last call: "reading" before Result, then "traffic",
                        \* "chunks", "saved", "refused", "ErrNoData" or "ErrInternalError"
    chunkList,          \* what SiftTraffic returned
    backlog,            \* the lines of the files an earlier job left in tmp
    refused             \* history: addresses and channels of chunks that do not fit

accumulator == <<trafficMap, parsedRecords, classifyErrCount>>
batch == <<backlog, refused>>
trafficVars == <<channelMap, sessionList, lines, accumulator, result, chunkList, batch>>

Traffic == [Download : Int, Upload : Int]
Enabled == {c \in Channel : channelMap[c]}

NewTrafficDownload(b) == [Download |-> b, Upload |-> 0]
NewTrafficUpload(b) == [Download |-> 0, Upload |-> b]
NewEmptyTraffic == [Download |-> 0, Upload |-> 0]

Merge(t, t1) == [Download |-> t.Download + t1.Download, Upload |-> t.Upload + t1.Upload]

CreateNewEmptyTrafficMap == [c \in Enabled |-> NewEmptyTraffic]

NewFlowAccumulator ==
    /\ trafficMap = [a \in {} |-> CreateNewEmptyTrafficMap]
    /\ parsedRecords = 0
    /\ classifyErrCount = 0

\* What a cycle may load for a nas_ip that has online sessions.
ChannelMaps == {LoadChannelMap(rows) : rows \in Select(ChannelRow, {"ID"})}
SessionLists ==
    UNION {{LoadOnlineSessionMap(rows)[n] : n \in DOMAIN LoadOnlineSessionMap(rows)} :
            rows \in Select(OnlineSession, {"IP", "SessID"})}

TrafficInit ==
    /\ channelMap \in ChannelMaps
    /\ sessionList \in SessionLists
    /\ lines = <<>>
    /\ NewFlowAccumulator
    /\ result = "reading"
    /\ chunkList = {}
    /\ backlog = <<>> /\ refused = {}

-----------------------------------------------------------------------------
\* Faulty: the traffic counted before is replaced.
CountLastTraffic(old, new, c) ==
    LET map == IF DOMAIN old = {} THEN CreateNewEmptyTrafficMap ELSE old
    IN  IF channelMap[c] THEN [map EXCEPT ![c] = new] ELSE map

\* Faulty: the first traffic of an address is counted on a disabled channel too.
CountAnyChannel(old, new, c) ==
    IF DOMAIN old = {} THEN [d \in Enabled \cup {c} |-> IF d = c THEN new ELSE NewEmptyTraffic]
    ELSE IF channelMap[c] THEN [old EXCEPT ![c] = Merge(new, @)] ELSE old

CountTraffic(old, new, c) ==
    LET map == IF DOMAIN old = {} THEN CreateNewEmptyTrafficMap ELSE old
    IN  IF channelMap[c] THEN [map EXCEPT ![c] = Merge(new, @)] ELSE map

\* trafficMap[a] = CountTraffic(trafficMap[a], new, ...), where a missing entry reads as empty.
Counted(map, a, new, c) ==
    [b \in DOMAIN map \cup {a} |->
        IF b # a THEN map[b]
        ELSE CountTraffic(IF a \in DOMAIN map THEN map[a] ELSE <<>>, new, c)]

\* SrcIP is the receiver of the bytes.
Count(r) ==
    LET srcIn == r.SrcIP \in InternalNet
        dstIn == r.DstIP \in InternalNet
        channel == IF srcIn /\ dstIn THEN "Internal" ELSE "External"
        received == IF srcIn
                    THEN Counted(trafficMap, r.SrcIP, NewTrafficDownload(r.ByteSize), channel)
                    ELSE trafficMap
    IN  trafficMap' = IF dstIn
                      THEN Counted(received, r.DstIP, NewTrafficUpload(r.ByteSize), channel)
                      ELSE received

Reads(line) ==
    /\ result = "reading"
    /\ Len(lines) < MaxLines
    /\ Len(lines) < Len(backlog) => line = backlog[Len(lines) + 1]
    /\ lines' = Append(lines, line)
    /\ UNCHANGED <<channelMap, sessionList, result, chunkList, batch>>

SkipLine == Reads(Skipped) /\ UNCHANGED accumulator

AccumulateLine(r) ==
    /\ Reads(r)
    /\ parsedRecords' = parsedRecords + 1
    /\ IF {r.SrcIP, r.DstIP} \cap Unclassified # {}
       THEN classifyErrCount' = classifyErrCount + 1 /\ UNCHANGED trafficMap
       ELSE Count(r) /\ UNCHANGED classifyErrCount

\* Faulty: lines that could not be classified pass for external ones.
ResultOfParsed ==
    /\ result = "reading"
    /\ result' = IF DOMAIN trafficMap # {} THEN "traffic"
                 ELSE IF parsedRecords = 0 THEN "ErrInternalError"
                 ELSE "ErrNoData"
    /\ UNCHANGED <<channelMap, sessionList, lines, accumulator, chunkList, batch>>

Result ==
    /\ result = "reading"
    /\ Len(lines) >= Len(backlog)
    /\ result' = IF DOMAIN trafficMap # {} THEN "traffic"
                 ELSE IF parsedRecords = 0 \/ classifyErrCount = parsedRecords
                      THEN "ErrInternalError"
                 ELSE "ErrNoData"
    /\ UNCHANGED <<channelMap, sessionList, lines, accumulator, chunkList, batch>>

NewChunk(id, c, t) ==
    [SessID |-> id, ChannelID |-> c, Download |-> t.Download, Upload |-> t.Upload]

\* Faulty: sessions without traffic are passed over.
ChannelListIfExists(a) == IF a \in DOMAIN trafficMap THEN trafficMap[a] ELSE <<>>

\* A session without traffic gets empty traffic on every enabled channel, and so does one
\* whose ip is not written as net.IP.String() writes the keys of the map.
ChannelList(a) == IF a \in DOMAIN trafficMap THEN trafficMap[a] ELSE CreateNewEmptyTrafficMap

SiftTraffic ==
    /\ result = "traffic"
    /\ chunkList' = UNION {{NewChunk(s.SessID, c, ChannelList(s.IP)[c]) : c \in DOMAIN ChannelList(s.IP)} :
                            s \in sessionList}
    /\ result' = IF chunkList' = {} THEN "ErrNoData" ELSE "chunks"
    /\ UNCHANGED <<channelMap, sessionList, lines, accumulator, batch>>

\* Postgres refuses a value its column cannot hold.
FitsInteger(v) == -MaxInteger - 1 <= v /\ v <= MaxInteger
Fits(chunk) == FitsInteger(chunk.Download) /\ FitsInteger(chunk.Upload)

\* Whose bytes, and on which channel, do not fit.
Unfit ==
    {p \in [IP : SessionIP, ChannelID : Channel] :
        \E s \in sessionList, k \in chunkList :
            /\ s.IP = p.IP /\ s.SessID = k.SessID
            /\ k.ChannelID = p.ChannelID /\ ~Fits(k)}

\* Faulty: a chunk that cannot be inserted is passed over.
SaveThoseThatFit ==
    /\ result = "chunks"
    /\ result' = "saved"
    /\ refused' = refused \cup Unfit
    /\ UNCHANGED <<channelMap, sessionList, lines, accumulator, chunkList, backlog>>

\* One insert that fails ends the transaction: the whole batch is saved or nothing.
SaveChunkList ==
    /\ result = "chunks"
    /\ refused' = refused \cup Unfit
    /\ result' = IF \A k \in chunkList : Fits(k) THEN "saved" ELSE "refused"
    /\ UNCHANGED <<channelMap, sessionList, lines, accumulator, chunkList, backlog>>

\* The files stay in tmp: the job of the next cycle, with the channels and sessions of
\* that cycle, reads them again before the ones that have come since.
ReadsAgain ==
    /\ result \in {"refused", "ErrInternalError"}
    /\ Len(lines) < MaxLines
    /\ channelMap' \in ChannelMaps
    /\ sessionList' \in SessionLists
    /\ backlog' = lines
    /\ lines' = <<>>
    /\ trafficMap' = [a \in {} |-> CreateNewEmptyTrafficMap]
    /\ parsedRecords' = 0 /\ classifyErrCount' = 0
    /\ result' = "reading"
    /\ chunkList' = {}
    /\ UNCHANGED refused

TrafficNext ==
    \/ SkipLine
    \/ \E r \in Record : AccumulateLine(r)
    \/ Result
    \/ SiftTraffic
    \/ SaveChunkList
    \/ ReadsAgain

TrafficSpec == TrafficInit /\ [][TrafficNext]_trafficVars

-----------------------------------------------------------------------------
(***************************************************************************)
(* The reference: the bytes of the lines, whatever their order.  A byte is *)
(* a line and a place in it, so that a sum of doctets is a number of bytes. *)
(***************************************************************************)
IsClassified(r) == {r.SrcIP, r.DstIP} \subseteq Addr \ Unclassified

ChannelOf(r) == IF {r.SrcIP, r.DstIP} \subseteq InternalNet THEN "Internal" ELSE "External"

Classified(ls) == {i \in DOMAIN ls : IsClassified(ls[i])}

Received(ls, a, c) == {i \in Classified(ls) : ls[i].SrcIP = a /\ ChannelOf(ls[i]) = c}

Sent(ls, a, c) == {i \in Classified(ls) : ls[i].DstIP = a /\ ChannelOf(ls[i]) = c}

Bytes(ls, S) == UNION {{i} \X (1..ls[i].ByteSize) : i \in S}

\* A negative number of doctets takes bytes back.
BytesBack(ls, S) == UNION {{i} \X (1..-ls[i].ByteSize) : i \in S}

Total(ls, S) == Cardinality(Bytes(ls, S)) - Cardinality(BytesBack(ls, S))

Expected(ls, a, c) ==
    [Download |-> Total(ls, Received(ls, a, c)), Upload |-> Total(ls, Sent(ls, a, c))]

Billable(ls, a, c) == IF a \in InternalNet THEN Expected(ls, a, c) ELSE NewEmptyTraffic

Clients(ls) == InternalNet \cap UNION {{ls[i].SrcIP, ls[i].DstIP} : i \in Classified(ls)}

Line == Record \cup {Skipped}

\* NetFlow counts bytes and never takes any back; AccumulateLine does not rely on it.
Unsigned(ls) == \A i \in DOMAIN ls : ls[i].ByteSize >= 0

TrafficTypeOK ==
    /\ channelMap \in [Channel -> BOOLEAN]
    /\ sessionList \in (SUBSET OnlineSession) \ {{}}
    /\ \A r, s \in sessionList : r.SessID = s.SessID => r = s
    /\ lines \in Seq(Line) /\ backlog \in Seq(Line)
    /\ DOMAIN trafficMap \subseteq Addr
    /\ trafficMap \in [DOMAIN trafficMap -> [Enabled -> Traffic]]
    /\ parsedRecords \in Nat /\ classifyErrCount \in 0..parsedRecords
    /\ result \in {"reading", "traffic", "chunks", "saved", "refused", "ErrNoData",
                   "ErrInternalError"}
    /\ refused \in SUBSET [IP : SessionIP, ChannelID : Channel]

\* Nothing is lost, counted for someone else, on another channel or in the other
\* direction, in whatever order the lines come: every internal address has the sums
\* of its records on each enabled channel, and nobody else has any
\* (src/src/internal/usecase/traffic.go:118-158).
TrafficIsSum ==
    /\ DOMAIN trafficMap = Clients(lines)
    /\ \A a \in Clients(lines), c \in Enabled : trafficMap[a][c] = Expected(lines, a, c)

\* The verdict on which Aggregate deletes or keeps the files: "no data" means some
\* record was classified and none was internal, "internal error" that no record was
\* (src/src/internal/usecase/traffic.go:160-180).
VerdictIsSound ==
    /\ result = "ErrInternalError" => Classified(lines) = {}
    /\ result = "ErrNoData" /\ Enabled # {} => Classified(lines) # {} /\ Clients(lines) = {}

\* Each session is billed just what its address moved on each enabled channel, also before
\* the address was its own, and gets a chunk of zeros where it moved nothing, is not internal
\* or is written in another way (src/src/internal/usecase/traffic.go:250-280).
ChunksBillSessions ==
    result \in {"chunks", "saved", "refused"} =>
        chunkList = {NewChunk(s.SessID, c, Billable(lines, s.IP, c)) : s \in sessionList, c \in Enabled}

\* Bytes are summed in Go's int but stored in INTEGER columns
\* (src/docker/migrate/20240903131514_db_init.up.sql:33-34): what does not fit keeps all
\* of its nas_ip unbilled, however often it is retried and whichever session has the
\* address by then, until no session has it or its channel is disabled in a later cycle, or
\* a negative number of doctets makes up for it
\* (src/src/internal/repository/postgresql/session.go:49-53).
OverflowBlocksBatch ==
    result = "saved" /\ Unsigned(lines) =>
        \A p \in refused : ~channelMap[p.ChannelID] \/ p.IP \notin {s.IP : s \in sessionList}

(***************************************************************************)
(* The inductive invariant behind the four.                                *)
(***************************************************************************)

\* The counters tell whether any line was classified.
VerdictInv == classifyErrCount = parsedRecords <=> Classified(lines) = {}

\* A batch that is read again begins with the backlog.
BacklogInv ==
    /\ result # "reading" => Len(lines) >= Len(backlog)
    /\ \A i \in DOMAIN lines \cap DOMAIN backlog : lines[i] = backlog[i]

TooMuch(ls, p) ==
    LET t == Expected(ls, p.IP, p.ChannelID)
    IN  t.Download > MaxInteger \/ t.Upload > MaxInteger

\* What was refused once stays too much: files are added to a batch, never taken away.
RefusedInv ==
    \A p \in refused :
        /\ p.IP \in InternalNet
        /\ \/ Unsigned(backlog) => TooMuch(backlog, p)
           \/ result = "refused" /\ (Unsigned(lines) => TooMuch(lines, p))

TrafficInv ==
    /\ TrafficTypeOK /\ TrafficIsSum /\ VerdictInv /\ VerdictIsSound
    /\ ChunksBillSessions /\ BacklogInv /\ RefusedInv /\ OverflowBlocksBatch
=============================================================================
