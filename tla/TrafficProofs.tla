---------------------------- MODULE TrafficProofs ---------------------------
(***************************************************************************)
(* Proofs about module Traffic for any addresses, sizes of records, tables *)
(* and lengths of batches.  The sums of the reference are numbers of       *)
(* elements of sets of bytes, to which a line adds its own.                *)
(***************************************************************************)
EXTENDS Traffic, FiniteSetTheorems, TLAPS

-----------------------------------------------------------------------------
(***************************************************************************)
(* Bytes.                                                                  *)
(***************************************************************************)
LEMMA LineType ==
    /\ Record \subseteq Line /\ Skipped \in Line /\ ~IsClassified(Skipped)
    /\ \A r \in Line : r.ByteSize \in Int
    /\ \A r \in Line : IsClassified(r) => r \in Record
<1>1. Skipped.ByteSize = 0 /\ Skipped.SrcIP = NoAddr /\ NoAddr \notin Addr /\ ByteSize \subseteq Int
  BY TrafficAssumption DEF Skipped
<1>2. ~IsClassified(Skipped)
  BY <1>1 DEF IsClassified
<1>3. \A r \in Record : r.ByteSize \in Int
  BY <1>1 DEF Record
<1> QED
  BY <1>1, <1>2, <1>3 DEF Line

\* A row of boxes for each i, as many as size[i] says.  Bytes that are counted are boxes,
\* and so are bytes that are taken back.
Boxes(size, S) == UNION {{i} \X (1..size[i]) : i \in S}

LEMMA BoxesFinite ==
    ASSUME NEW S, IsFiniteSet(S), NEW size, \A i \in S : size[i] \in Int
    PROVE  IsFiniteSet(Boxes(size, S)) /\ Cardinality(Boxes(size, S)) \in Nat
<1> DEFINE f == [i \in S |-> {i} \X (1..size[i])]
           T == {f[i] : i \in S}
<1>1. f \in Surjection(S, T)
  BY DEF Surjection
<1>2. IsFiniteSet(T)
  <2> HIDE DEF f, T
  <2> QED
    BY <1>1, FS_Surjection
<1>3. \A X \in T : IsFiniteSet(X)
  <2> SUFFICES ASSUME NEW i \in S PROVE IsFiniteSet({i} \X (1..size[i]))
    OBVIOUS
  <2>1. IsFiniteSet(1..size[i])
    BY FS_Interval
  <2>2. IsFiniteSet({i})
    BY FS_Singleton
  <2> QED
    BY <2>1, <2>2, FS_Product
<1>4. IsFiniteSet(UNION T)
  <2> HIDE DEF T
  <2> QED
    BY <1>2, <1>3, FS_UNION
<1>5. UNION T = Boxes(size, S)
  BY DEF Boxes
<1> QED
  BY <1>4, <1>5, FS_CardinalityType

\* One more row adds its boxes.
LEMMA BoxesGrow ==
    ASSUME NEW S, IsFiniteSet(S), NEW size, \A j \in S : size[j] \in Int,
           NEW i, i \notin S, NEW larger, \A j \in S : larger[j] = size[j], larger[i] \in Int
    PROVE  Cardinality(Boxes(larger, S \cup {i}))
               = Cardinality(Boxes(size, S)) + (IF larger[i] > 0 THEN larger[i] ELSE 0)
<1> DEFINE n == IF larger[i] > 0 THEN larger[i] ELSE 0
           new == {i} \X (1..larger[i])
<1>1. Boxes(larger, S \cup {i}) = Boxes(size, S) \cup new
  BY DEF Boxes
<1>2. Boxes(size, S) \cap new = {}
  BY DEF Boxes
<1>3. IsFiniteSet(new) /\ Cardinality(new) = n
  <2>1. IsFiniteSet(1..larger[i]) /\ Cardinality(1..larger[i]) = n
    <3>1. /\ IsFiniteSet(1..larger[i])
          /\ Cardinality(1..larger[i]) = IF 1 > larger[i] THEN 0 ELSE larger[i] - 1 + 1
      <4>1. 1 \in Int /\ larger[i] \in Int
        OBVIOUS
      <4> QED
        BY <4>1, FS_Interval
    <3> QED
      BY <3>1
  <2>2. IsFiniteSet({i}) /\ Cardinality({i}) = 1
    BY FS_Singleton
  <2>3. IsFiniteSet(new) /\ Cardinality(new) = 1 * Cardinality(1..larger[i])
    BY <2>1, <2>2, FS_Product
  <2>4. n \in Nat
    OBVIOUS
  <2> HIDE DEF n, new
  <2> QED
    BY <2>1, <2>3, <2>4
<1>4. IsFiniteSet(Boxes(size, S)) /\ Cardinality(Boxes(size, S)) \in Nat /\ n \in Nat
  BY BoxesFinite
<1> HIDE DEF new, n
<1>5. Cardinality(Boxes(size, S) \cup new)
          = Cardinality(Boxes(size, S)) + n - Cardinality(Boxes(size, S) \cap new)
  BY <1>3, <1>4, FS_Union
<1>6. Cardinality(Boxes(size, S) \cap new) = 0
  BY <1>2, FS_EmptySet
<1>7. Cardinality(Boxes(size, S) \cup new) = Cardinality(Boxes(size, S)) + n
  BY <1>4, <1>5, <1>6
<1> QED
  BY <1>1, <1>7 DEF n

Sizes(ls) == [i \in DOMAIN ls |-> ls[i].ByteSize]
Backs(ls) == [i \in DOMAIN ls |-> -ls[i].ByteSize]

LEMMA TotalIsOfBoxes ==
    ASSUME NEW ls \in Seq(Line), NEW S \in SUBSET DOMAIN ls
    PROVE  /\ IsFiniteSet(S)
           /\ \A i \in S : Sizes(ls)[i] \in Int /\ Backs(ls)[i] \in Int
           /\ Bytes(ls, S) = Boxes(Sizes(ls), S) /\ BytesBack(ls, S) = Boxes(Backs(ls), S)
<1>1. IsFiniteSet(S)
  <2>1. DOMAIN ls = 1..Len(ls) /\ Len(ls) \in Nat
    OBVIOUS
  <2>2. IsFiniteSet(1..Len(ls))
    BY <2>1, FS_Interval
  <2> QED
    BY <2>1, <2>2, FS_Subset
<1>2. \A i \in S : ls[i].ByteSize \in Int
  <2>1. \A i \in S : ls[i] \in Line
    OBVIOUS
  <2> QED
    BY <2>1, LineType
<1>3. Bytes(ls, S) = Boxes(Sizes(ls), S)
  <2>1. \A i \in S : Sizes(ls)[i] = ls[i].ByteSize
    BY DEF Sizes
  <2> QED
    BY <2>1 DEF Bytes, Boxes
<1>4. BytesBack(ls, S) = Boxes(Backs(ls), S)
  <2>1. \A i \in S : Backs(ls)[i] = -ls[i].ByteSize
    BY DEF Backs
  <2> QED
    BY <2>1 DEF BytesBack, Boxes
<1> QED
  BY <1>1, <1>2, <1>3, <1>4 DEF Sizes, Backs

LEMMA TotalType ==
    ASSUME NEW ls \in Seq(Line), NEW S \in SUBSET DOMAIN ls
    PROVE  /\ IsFiniteSet(Bytes(ls, S)) /\ Cardinality(Bytes(ls, S)) \in Nat
           /\ Cardinality(BytesBack(ls, S)) \in Nat
           /\ Total(ls, S) \in Int
<1>1. /\ IsFiniteSet(Bytes(ls, S)) /\ Cardinality(Bytes(ls, S)) \in Nat
      /\ Cardinality(BytesBack(ls, S)) \in Nat
  BY TotalIsOfBoxes, BoxesFinite
<1> QED
  BY <1>1 DEF Total

\* The bytes of no line are none.
LEMMA NoTotal == \A ls : Total(ls, {}) = 0
<1>1. \A ls : Bytes(ls, {}) = {} /\ BytesBack(ls, {}) = {}
  BY DEF Bytes, BytesBack
<1> QED
  BY <1>1, FS_EmptySet DEF Total

-----------------------------------------------------------------------------
(***************************************************************************)
(* One more line, in the terms of the reference.                           *)
(***************************************************************************)
LEMMA AppendLine ==
    ASSUME NEW ls \in Seq(Line), NEW r \in Line
    PROVE  /\ Append(ls, r) \in Seq(Line)
           /\ DOMAIN Append(ls, r) = DOMAIN ls \cup {Len(ls) + 1}
           /\ Len(ls) + 1 \notin DOMAIN ls
           /\ \A i \in DOMAIN ls : Append(ls, r)[i] = ls[i]
           /\ Append(ls, r)[Len(ls) + 1] = r
OBVIOUS

LEMMA ClassifiedGrows ==
    ASSUME NEW ls \in Seq(Line), NEW r \in Line
    PROVE  Classified(Append(ls, r)) =
               Classified(ls) \cup (IF IsClassified(r) THEN {Len(ls) + 1} ELSE {})
BY AppendLine DEF Classified

LEMMA ReceivedGrows ==
    ASSUME NEW ls \in Seq(Line), NEW r \in Line, NEW a, NEW c
    PROVE  Received(Append(ls, r), a, c) =
               Received(ls, a, c) \cup (IF IsClassified(r) /\ r.SrcIP = a /\ ChannelOf(r) = c
                                       THEN {Len(ls) + 1} ELSE {})
BY AppendLine, ClassifiedGrows DEF Received, Classified

LEMMA SentGrows ==
    ASSUME NEW ls \in Seq(Line), NEW r \in Line, NEW a, NEW c
    PROVE  Sent(Append(ls, r), a, c) =
               Sent(ls, a, c) \cup (IF IsClassified(r) /\ r.DstIP = a /\ ChannelOf(r) = c
                                   THEN {Len(ls) + 1} ELSE {})
BY AppendLine, ClassifiedGrows DEF Sent, Classified

\* What some lines sum up to, with or without the new one.
LEMMA TotalGrows ==
    ASSUME NEW ls \in Seq(Line), NEW r \in Line, NEW S \in SUBSET DOMAIN ls, NEW yes \in BOOLEAN
    PROVE  Total(Append(ls, r), S \cup (IF yes THEN {Len(ls) + 1} ELSE {}))
               = Total(ls, S) + (IF yes THEN r.ByteSize ELSE 0)
<1> DEFINE more == Append(ls, r)
           i == Len(ls) + 1
<1>1. /\ more \in Seq(Line) /\ S \in SUBSET DOMAIN more /\ S \cup {i} \in SUBSET DOMAIN more
      /\ i \notin S /\ \A j \in S : more[j] = ls[j]
      /\ more[i] = r /\ r.ByteSize \in Int
  BY AppendLine, LineType
<1>2. /\ \A j \in S : Sizes(more)[j] = Sizes(ls)[j] /\ Backs(more)[j] = Backs(ls)[j]
      /\ Sizes(more)[i] = r.ByteSize /\ Backs(more)[i] = -r.ByteSize
  BY <1>1 DEF Sizes, Backs
<1> HIDE DEF more, i
<1>3. CASE yes
  <2>1. Cardinality(Bytes(more, S \cup {i}))
            = Cardinality(Bytes(ls, S)) + (IF r.ByteSize > 0 THEN r.ByteSize ELSE 0)
    <3>1. Bytes(more, S \cup {i}) = Boxes(Sizes(more), S \cup {i})
      BY <1>1, TotalIsOfBoxes
    <3>2. /\ IsFiniteSet(S) /\ \A j \in S : Sizes(ls)[j] \in Int
          /\ Bytes(ls, S) = Boxes(Sizes(ls), S)
      BY TotalIsOfBoxes
    <3>3. Sizes(more)[i] \in Int
      BY <1>1, <1>2
    <3>4. Cardinality(Boxes(Sizes(more), S \cup {i})) = Cardinality(Boxes(Sizes(ls), S))
              + (IF Sizes(more)[i] > 0 THEN Sizes(more)[i] ELSE 0)
      BY <1>1, <1>2, <3>2, <3>3, BoxesGrow
    <3> QED
      BY <1>2, <3>1, <3>2, <3>4
  <2>2. Cardinality(BytesBack(more, S \cup {i}))
            = Cardinality(BytesBack(ls, S)) + (IF -r.ByteSize > 0 THEN -r.ByteSize ELSE 0)
    <3>1. BytesBack(more, S \cup {i}) = Boxes(Backs(more), S \cup {i})
      BY <1>1, TotalIsOfBoxes
    <3>2. /\ IsFiniteSet(S) /\ \A j \in S : Backs(ls)[j] \in Int
          /\ BytesBack(ls, S) = Boxes(Backs(ls), S)
      BY TotalIsOfBoxes
    <3>3. Backs(more)[i] \in Int
      BY <1>1, <1>2
    <3>4. Cardinality(Boxes(Backs(more), S \cup {i})) = Cardinality(Boxes(Backs(ls), S))
              + (IF Backs(more)[i] > 0 THEN Backs(more)[i] ELSE 0)
      BY <1>1, <1>2, <3>2, <3>3, BoxesGrow
    <3> QED
      BY <1>2, <3>1, <3>2, <3>4
  <2>3. Cardinality(Bytes(ls, S)) \in Nat /\ Cardinality(BytesBack(ls, S)) \in Nat
    BY TotalType
  <2>4. Total(more, S \cup {i}) = Total(ls, S) + r.ByteSize
    BY <1>1, <2>1, <2>2, <2>3 DEF Total
  <2> QED
    BY <1>3, <2>4 DEF more, i
<1>4. CASE ~yes
  <2>1. Total(more, S) = Total(ls, S)
    <3>1. Bytes(more, S) = Bytes(ls, S) /\ BytesBack(more, S) = BytesBack(ls, S)
      BY <1>1 DEF Bytes, BytesBack
    <3> QED
      BY <3>1 DEF Total
  <2>2. S \cup (IF yes THEN {i} ELSE {}) = S
    BY <1>4
  <2>3. Total(ls, S) \in Int
    BY TotalType
  <2> QED
    BY <1>4, <2>1, <2>2, <2>3 DEF more, i
<1> QED
  BY <1>3, <1>4

LEMMA ExpectedType ==
    ASSUME NEW ls \in Seq(Line), NEW a, NEW c
    PROVE  Expected(ls, a, c) \in Traffic
<1>1. Received(ls, a, c) \in SUBSET DOMAIN ls /\ Sent(ls, a, c) \in SUBSET DOMAIN ls
  BY DEF Received, Sent, Classified
<1> QED
  BY <1>1, TotalType DEF Expected, Traffic

LEMMA ExpectedGrows ==
    ASSUME NEW ls \in Seq(Line), NEW r \in Line, NEW a, NEW c
    PROVE  LET on == IsClassified(r) /\ ChannelOf(r) = c
               old == Expected(ls, a, c)
           IN  Expected(Append(ls, r), a, c) =
                   [Download |-> old.Download + (IF on /\ r.SrcIP = a THEN r.ByteSize ELSE 0),
                    Upload |-> old.Upload + (IF on /\ r.DstIP = a THEN r.ByteSize ELSE 0)]
<1> DEFINE in == IsClassified(r) /\ r.SrcIP = a /\ ChannelOf(r) = c
           out == IsClassified(r) /\ r.DstIP = a /\ ChannelOf(r) = c
<1>1. Received(ls, a, c) \in SUBSET DOMAIN ls /\ Sent(ls, a, c) \in SUBSET DOMAIN ls
  BY DEF Received, Sent, Classified
<1>2. in \in BOOLEAN /\ out \in BOOLEAN
  BY DEF IsClassified
<1>3. Total(Append(ls, r), Received(Append(ls, r), a, c))
          = Total(ls, Received(ls, a, c)) + (IF in THEN r.ByteSize ELSE 0)
  <2>1. Received(Append(ls, r), a, c)
            = Received(ls, a, c) \cup (IF in THEN {Len(ls) + 1} ELSE {})
    BY ReceivedGrows
  <2> HIDE DEF in
  <2> QED
    BY <1>1, <1>2, <2>1, TotalGrows
<1>4. Total(Append(ls, r), Sent(Append(ls, r), a, c))
          = Total(ls, Sent(ls, a, c)) + (IF out THEN r.ByteSize ELSE 0)
  <2>1. Sent(Append(ls, r), a, c)
            = Sent(ls, a, c) \cup (IF out THEN {Len(ls) + 1} ELSE {})
    BY SentGrows
  <2> HIDE DEF out
  <2> QED
    BY <1>1, <1>2, <2>1, TotalGrows
<1> QED
  BY <1>3, <1>4 DEF Expected

\* Nobody who is in no classified line has traffic.
LEMMA NothingExpected ==
    ASSUME NEW ls \in Seq(Line), NEW a \in InternalNet, a \notin Clients(ls), NEW c
    PROVE  Expected(ls, a, c) = NewEmptyTraffic
<1>1. Received(ls, a, c) = {} /\ Sent(ls, a, c) = {}
  BY DEF Received, Sent, Clients
<1> QED
  BY <1>1, NoTotal DEF Expected, NewEmptyTraffic

LEMMA ClientsGrow ==
    ASSUME NEW ls \in Seq(Line), NEW r \in Line
    PROVE  Clients(Append(ls, r)) =
               Clients(ls) \cup (IF IsClassified(r) THEN {r.SrcIP, r.DstIP} \cap InternalNet ELSE {})
<1>1. \A i \in Classified(ls) : i \in DOMAIN ls
  BY DEF Classified
<1> QED
  BY <1>1, AppendLine, ClassifiedGrows DEF Clients

\* Lines that take nothing back sum up to their bytes.
LEMMA UnsignedTotal ==
    ASSUME NEW ls \in Seq(Line), Unsigned(ls), NEW S \in SUBSET DOMAIN ls
    PROVE  Total(ls, S) = Cardinality(Bytes(ls, S)) /\ Total(ls, S) \in Nat
<1>1. \A i \in S : 1..-ls[i].ByteSize = {}
  <2>1. \A i \in S : ls[i] \in Line
    OBVIOUS
  <2>2. \A i \in S : ls[i].ByteSize \in Int /\ ls[i].ByteSize >= 0
    BY <2>1, LineType DEF Unsigned
  <2> QED
    BY <2>2
<1>2. BytesBack(ls, S) = {}
  BY <1>1 DEF BytesBack
<1>3. Cardinality(BytesBack(ls, S)) = 0 /\ Cardinality(Bytes(ls, S)) \in Nat
  BY <1>2, FS_EmptySet, TotalType
<1> QED
  BY <1>3 DEF Total

LEMMA UnsignedExpected ==
    ASSUME NEW ls \in Seq(Line), Unsigned(ls), NEW a, NEW c
    PROVE  Expected(ls, a, c) \in [Download : Nat, Upload : Nat]
<1>1. Received(ls, a, c) \in SUBSET DOMAIN ls /\ Sent(ls, a, c) \in SUBSET DOMAIN ls
  BY DEF Received, Sent, Classified
<1> QED
  BY <1>1, UnsignedTotal DEF Expected

\* A batch that begins like another one begins with its lines.
LEMMA BeginsWith ==
    ASSUME NEW ls \in Seq(Line), NEW longer \in Seq(Line), Len(ls) <= Len(longer),
           \A i \in DOMAIN ls \cap DOMAIN longer : longer[i] = ls[i]
    PROVE  /\ DOMAIN ls \subseteq DOMAIN longer /\ \A i \in DOMAIN ls : longer[i] = ls[i]
           /\ Unsigned(longer) => Unsigned(ls)
<1>1. DOMAIN ls \subseteq DOMAIN longer
  <2>1. DOMAIN ls = 1..Len(ls) /\ DOMAIN longer = 1..Len(longer)
        /\ Len(ls) \in Nat /\ Len(longer) \in Nat
    OBVIOUS
  <2> QED
    BY <2>1
<1> QED
  BY <1>1 DEF Unsigned

\* It has at least the bytes of that one, unless one of its lines takes some back.
LEMMA LongerBatch ==
    ASSUME NEW ls \in Seq(Line), NEW longer \in Seq(Line), Len(ls) <= Len(longer),
           \A i \in DOMAIN ls \cap DOMAIN longer : longer[i] = ls[i],
           Unsigned(longer),
           NEW a, NEW c
    PROVE  /\ Expected(ls, a, c).Download <= Expected(longer, a, c).Download
           /\ Expected(ls, a, c).Upload <= Expected(longer, a, c).Upload
<1>1. DOMAIN ls \subseteq DOMAIN longer /\ (\A i \in DOMAIN ls : longer[i] = ls[i]) /\ Unsigned(ls)
  BY BeginsWith
<1>2. Received(ls, a, c) \subseteq Received(longer, a, c) /\ Sent(ls, a, c) \subseteq Sent(longer, a, c)
  BY <1>1 DEF Received, Sent, Classified
<1>3. \A S \in SUBSET DOMAIN ls, T \in SUBSET DOMAIN longer :
          S \subseteq T => Total(ls, S) <= Total(longer, T)
  <2> SUFFICES ASSUME NEW S \in SUBSET DOMAIN ls, NEW T \in SUBSET DOMAIN longer, S \subseteq T
               PROVE  Total(ls, S) <= Total(longer, T)
    OBVIOUS
  <2>1. Bytes(ls, S) \subseteq Bytes(longer, T)
    BY <1>1 DEF Bytes
  <2>2. Cardinality(Bytes(ls, S)) <= Cardinality(Bytes(longer, T))
    BY <2>1, TotalType, FS_Subset
  <2> QED
    BY <1>1, <2>2, UnsignedTotal
<1>4. /\ Received(ls, a, c) \in SUBSET DOMAIN ls /\ Received(longer, a, c) \in SUBSET DOMAIN longer
      /\ Sent(ls, a, c) \in SUBSET DOMAIN ls /\ Sent(longer, a, c) \in SUBSET DOMAIN longer
  BY DEF Received, Sent, Classified
<1> QED
  BY <1>2, <1>3, <1>4 DEF Expected

-----------------------------------------------------------------------------
(***************************************************************************)
(* The accumulator.                                                        *)
(***************************************************************************)
TrafficMaps(D) == [D -> [Enabled -> Traffic]]

\* What an address has, where one that is missing has nothing on each channel.
Has(map, a) == IF a \in DOMAIN map THEN map[a] ELSE CreateNewEmptyTrafficMap

LEMMA NoTraffic ==
    /\ NewEmptyTraffic \in Traffic
    /\ CreateNewEmptyTrafficMap \in [Enabled -> Traffic]
    /\ \A t \in Traffic : Merge(t, NewEmptyTraffic) = t
BY DEF NewEmptyTraffic, Traffic, CreateNewEmptyTrafficMap, Merge

LEMMA MergeType == \A t, u \in Traffic : Merge(t, u) \in Traffic
BY DEF Merge, Traffic

LEMMA HasType ==
    ASSUME NEW D, NEW map \in TrafficMaps(D), NEW a PROVE Has(map, a) \in [Enabled -> Traffic]
BY NoTraffic DEF TrafficMaps, Has

LEMMA CountTrafficAdds ==
    ASSUME channelMap \in [Channel -> BOOLEAN], NEW old \in [Enabled -> Traffic], NEW new \in Traffic,
           NEW c \in Channel
    PROVE  /\ CountTraffic(old, new, c) \in [Enabled -> Traffic]
           /\ \A d \in Enabled :
                 CountTraffic(old, new, c)[d] = IF d = c THEN Merge(new, old[d]) ELSE old[d]
<1>1. CASE DOMAIN old = {}
  <2>1. Enabled = {}
    BY <1>1
  <2> QED
    BY <1>1, <2>1, NoTraffic DEF CountTraffic, Enabled
<1>2. CASE DOMAIN old # {}
  <2>1. CountTraffic(old, new, c) = IF channelMap[c] THEN [old EXCEPT ![c] = Merge(new, @)] ELSE old
    BY <1>2 DEF CountTraffic
  <2>2. c \in Enabled <=> channelMap[c]
    BY DEF Enabled
  <2> QED
    BY <2>1, <2>2, MergeType
<1> QED
  BY <1>1, <1>2

\* A missing entry reads as empty, and is counted on as the empty map would be.
LEMMA CountsMissing ==
    ASSUME NEW new, NEW c
    PROVE  CountTraffic(<<>>, new, c) = CountTraffic(CreateNewEmptyTrafficMap, new, c)
BY DEF CountTraffic, CreateNewEmptyTrafficMap

LEMMA CountedAdds ==
    ASSUME channelMap \in [Channel -> BOOLEAN], NEW D, NEW map \in TrafficMaps(D), NEW a,
           NEW new \in Traffic, NEW c \in Channel
    PROVE  /\ Counted(map, a, new, c) \in TrafficMaps(D \cup {a})
           /\ \A b \in D \cup {a}, d \in Enabled :
                 Counted(map, a, new, c)[b][d] =
                     IF b = a /\ d = c THEN Merge(new, Has(map, b)[d]) ELSE Has(map, b)[d]
<1> DEFINE entry == CountTraffic(Has(map, a), new, c)
<1>1. DOMAIN map = D
  BY DEF TrafficMaps
<1>2. CountTraffic(IF a \in DOMAIN map THEN map[a] ELSE <<>>, new, c) = entry
  BY CountsMissing DEF Has
<1>3. Counted(map, a, new, c) = [b \in D \cup {a} |-> IF b # a THEN map[b] ELSE entry]
  BY <1>1, <1>2 DEF Counted
<1>4. /\ entry \in [Enabled -> Traffic]
      /\ \A d \in Enabled : entry[d] = IF d = c THEN Merge(new, Has(map, a)[d]) ELSE Has(map, a)[d]
  BY HasType, CountTrafficAdds
<1> HIDE DEF entry
<1> QED
  BY <1>1, <1>3, <1>4 DEF TrafficMaps, Has

\* CountedAdds for whatever address, and only if there is something to count.
CountedIf(yes, map, a, new, c) == IF yes THEN Counted(map, a, new, c) ELSE map

\* The traffic of after is that of map, and new more for an address on a channel.
AddsIf(yes, map, a, new, c, after) ==
    \A b : \A d \in Enabled :
        Has(after, b)[d] = IF yes /\ b = a /\ d = c THEN Merge(new, Has(map, b)[d]) ELSE Has(map, b)[d]

LEMMA CountedIfAdds ==
    ASSUME channelMap \in [Channel -> BOOLEAN], NEW D, NEW map \in TrafficMaps(D), NEW a,
           NEW new \in Traffic, NEW c \in Channel, NEW yes \in BOOLEAN
    PROVE  /\ CountedIf(yes, map, a, new, c) \in TrafficMaps(D \cup (IF yes THEN {a} ELSE {}))
           /\ AddsIf(yes, map, a, new, c, CountedIf(yes, map, a, new, c))
<1> DEFINE after == Counted(map, a, new, c)
<1>1. CASE yes
  <2>1. /\ after \in TrafficMaps(D \cup {a})
        /\ \A b \in D \cup {a}, d \in Enabled :
              after[b][d] = IF b = a /\ d = c THEN Merge(new, Has(map, b)[d]) ELSE Has(map, b)[d]
    BY CountedAdds
  <2> HIDE DEF after
  <2>2. DOMAIN after = D \cup {a} /\ DOMAIN map = D
    BY <2>1 DEF TrafficMaps
  <2>3. ASSUME NEW b, NEW d \in Enabled
        PROVE  Has(after, b)[d] =
                   IF b = a /\ d = c THEN Merge(new, Has(map, b)[d]) ELSE Has(map, b)[d]
    <3>1. CASE b \in D \cup {a}
      <4>1. Has(after, b) = after[b]
        BY <2>2, <3>1 DEF Has
      <4> QED
        BY <2>1, <3>1, <4>1
    <3>2. CASE b \notin D \cup {a}
      <4>1. Has(after, b) = Has(map, b) /\ b # a
        BY <2>2, <3>2 DEF Has
      <4> QED
        BY <4>1
    <3> QED
      BY <3>1, <3>2
  <2>4. CountedIf(yes, map, a, new, c) = after
    BY <1>1 DEF CountedIf, after
  <2> QED
    BY <1>1, <2>1, <2>3, <2>4 DEF AddsIf
<1>2. CASE ~yes
  <2>1. CountedIf(yes, map, a, new, c) = map /\ D \cup (IF yes THEN {a} ELSE {}) = D
    BY <1>2 DEF CountedIf
  <2> QED
    BY <1>2, <2>1 DEF AddsIf
<1> QED
  BY <1>1, <1>2

LEMMA CountStep ==
    ASSUME TrafficTypeOK, NEW r \in Record, Count(r)
    PROVE  /\ trafficMap' \in TrafficMaps(DOMAIN trafficMap \cup ({r.SrcIP, r.DstIP} \cap InternalNet))
           /\ \A b \in InternalNet, d \in Enabled :
                 LET old == Has(trafficMap, b)[d]
                     on == d = ChannelOf(r)
                 IN  Has(trafficMap', b)[d] =
                         [Download |-> old.Download + (IF on /\ r.SrcIP = b THEN r.ByteSize ELSE 0),
                          Upload |-> old.Upload + (IF on /\ r.DstIP = b THEN r.ByteSize ELSE 0)]
<1> DEFINE D == DOMAIN trafficMap
           c == ChannelOf(r)
           srcIn == r.SrcIP \in InternalNet
           dstIn == r.DstIP \in InternalNet
           down == NewTrafficDownload(r.ByteSize)
           up == NewTrafficUpload(r.ByteSize)
           received == CountedIf(srcIn, trafficMap, r.SrcIP, down, c)
           D1 == D \cup (IF srcIn THEN {r.SrcIP} ELSE {})
           D2 == D1 \cup (IF dstIn THEN {r.DstIP} ELSE {})
<1>1. /\ channelMap \in [Channel -> BOOLEAN] /\ trafficMap \in TrafficMaps(D) /\ c \in Channel
      /\ r.ByteSize \in Int /\ down \in Traffic /\ up \in Traffic
  <2>1. r.ByteSize \in Int
    BY LineType
  <2> QED
    BY <2>1 DEF TrafficTypeOK, TrafficMaps, ChannelOf, Channel, NewTrafficDownload, NewTrafficUpload,
                Traffic
<1>2. trafficMap' = CountedIf(dstIn, received, r.DstIP, up, c)
  <2>1. c = IF srcIn /\ dstIn THEN "Internal" ELSE "External"
    BY DEF ChannelOf
  <2> QED
    BY <2>1 DEF Count, CountedIf
<1>3. srcIn \in BOOLEAN /\ dstIn \in BOOLEAN
  OBVIOUS
<1> HIDE DEF D, c, down, up, srcIn, dstIn, received, D1, D2
<1>4. /\ received \in TrafficMaps(D1)
      /\ AddsIf(srcIn, trafficMap, r.SrcIP, down, c, received)
  BY <1>1, <1>3, CountedIfAdds DEF received, D1
<1>5. /\ trafficMap' \in TrafficMaps(D2)
      /\ AddsIf(dstIn, received, r.DstIP, up, c, trafficMap')
  BY <1>1, <1>2, <1>3, <1>4, CountedIfAdds DEF D2
<1>6. D2 = D \cup ({r.SrcIP, r.DstIP} \cap InternalNet)
  BY DEF D1, D2, srcIn, dstIn
<1>7. ASSUME NEW b \in InternalNet, NEW d \in Enabled
      PROVE  LET old == Has(trafficMap, b)[d]
                 on == d = ChannelOf(r)
             IN  Has(trafficMap', b)[d] =
                     [Download |-> old.Download + (IF on /\ r.SrcIP = b THEN r.ByteSize ELSE 0),
                      Upload |-> old.Upload + (IF on /\ r.DstIP = b THEN r.ByteSize ELSE 0)]
  <2> DEFINE old == Has(trafficMap, b)[d]
             mid == Has(received, b)[d]
             isSrc == d = c /\ r.SrcIP = b
             isDst == d = c /\ r.DstIP = b
  <2>1. old \in [Download : Int, Upload : Int]
    BY <1>1, HasType DEF Traffic
  <2>2. mid = IF isSrc THEN Merge(down, old) ELSE old
    BY <1>4 DEF AddsIf, srcIn
  <2>3. Has(trafficMap', b)[d] = IF isDst THEN Merge(up, mid) ELSE mid
    BY <1>5 DEF AddsIf, dstIn
  <2> HIDE DEF old, mid
  <2>4. Merge(down, old) = [Download |-> r.ByteSize + old.Download, Upload |-> old.Upload]
    BY <2>1 DEF Merge, down, NewTrafficDownload
  <2>5. mid = [Download |-> old.Download + (IF isSrc THEN r.ByteSize ELSE 0), Upload |-> old.Upload]
    BY <1>1, <2>1, <2>2, <2>4
  <2>6. Merge(up, mid) = [Download |-> mid.Download, Upload |-> r.ByteSize + mid.Upload]
    BY <1>1, <2>1, <2>5 DEF Merge, up, NewTrafficUpload
  <2>7. Has(trafficMap', b)[d] =
            [Download |-> old.Download + (IF isSrc THEN r.ByteSize ELSE 0),
             Upload |-> old.Upload + (IF isDst THEN r.ByteSize ELSE 0)]
    BY <1>1, <2>1, <2>3, <2>5, <2>6
  <2> QED
    BY <2>7 DEF old, c
<1> QED
  BY <1>5, <1>6, <1>7 DEF D

\* While the traffic is the sum of the lines, every internal address has what it moved.
LEMMA HasExpected ==
    ASSUME TrafficTypeOK, TrafficIsSum, NEW b \in InternalNet, NEW d \in Enabled
    PROVE  Has(trafficMap, b)[d] = Expected(lines, b, d)
<1>1. CASE b \in Clients(lines)
  BY <1>1 DEF TrafficIsSum, Has
<1>2. CASE b \notin Clients(lines)
  <2>1. Has(trafficMap, b)[d] = NewEmptyTraffic
    BY <1>2 DEF TrafficIsSum, Has, CreateNewEmptyTrafficMap
  <2>2. lines \in Seq(Line)
    BY DEF TrafficTypeOK
  <2> QED
    BY <1>2, <2>1, <2>2, NothingExpected
<1> QED
  BY <1>1, <1>2

\* A line that is not classified leaves every sum alone.
LEMMA UnclassifiedLine ==
    ASSUME NEW ls \in Seq(Line), NEW r \in Line, ~IsClassified(r)
    PROVE  /\ Clients(Append(ls, r)) = Clients(ls)
           /\ Classified(Append(ls, r)) = Classified(ls)
           /\ \A a, c : Expected(Append(ls, r), a, c) = Expected(ls, a, c)
<1>1. ASSUME NEW a, NEW c PROVE Expected(Append(ls, r), a, c) = Expected(ls, a, c)
  <2> DEFINE old == Expected(ls, a, c)
  <2>1. Expected(Append(ls, r), a, c) = [Download |-> old.Download + 0, Upload |-> old.Upload + 0]
    BY ExpectedGrows
  <2>2. old \in [Download : Int, Upload : Int]
    BY ExpectedType DEF Traffic
  <2> HIDE DEF old
  <2>3. [Download |-> old.Download + 0, Upload |-> old.Upload + 0] = old
    BY <2>2
  <2> QED
    BY <2>1, <2>3 DEF old
<1> QED
  BY <1>1, ClientsGrow, ClassifiedGrows

\* A line that is counted keeps the traffic the sum of the lines.
LEMMA SumStep ==
    ASSUME TrafficTypeOK, TrafficIsSum, NEW r \in Record, IsClassified(r), Count(r),
           lines' = Append(lines, r), UNCHANGED channelMap
    PROVE  /\ trafficMap' \in [DOMAIN trafficMap' -> [Enabled -> Traffic]]
           /\ DOMAIN trafficMap' = Clients(lines')
           /\ \A a \in Clients(lines'), c \in Enabled : trafficMap'[a][c] = Expected(lines', a, c)
<1>1. lines \in Seq(Line) /\ r \in Line
  BY LineType DEF TrafficTypeOK
<1>2. Clients(lines') = Clients(lines) \cup ({r.SrcIP, r.DstIP} \cap InternalNet)
  BY <1>1, ClientsGrow
<1>3. DOMAIN trafficMap = Clients(lines)
  BY DEF TrafficIsSum
<1>4. trafficMap' \in [Clients(lines') -> [Enabled -> Traffic]]
  BY <1>2, <1>3, CountStep DEF TrafficMaps
<1>5. DOMAIN trafficMap' = Clients(lines')
  BY <1>4
<1>6. ASSUME NEW a \in Clients(lines'), NEW c \in Enabled
      PROVE  trafficMap'[a][c] = Expected(lines', a, c)
  <2>1. a \in InternalNet
    BY DEF Clients
  <2>2. trafficMap'[a] = Has(trafficMap', a)
    BY <1>5 DEF Has
  <2>3. Has(trafficMap, a)[c] = Expected(lines, a, c)
    BY <2>1, HasExpected
  <2> DEFINE old == Expected(lines, a, c)
             on == c = ChannelOf(r)
             more == [Download |-> old.Download + (IF on /\ r.SrcIP = a THEN r.ByteSize ELSE 0),
                      Upload |-> old.Upload + (IF on /\ r.DstIP = a THEN r.ByteSize ELSE 0)]
  <2>4. Has(trafficMap', a)[c] = more
    <3> DEFINE has == Has(trafficMap, a)[c]
    <3>1. Has(trafficMap', a)[c] =
              [Download |-> has.Download + (IF on /\ r.SrcIP = a THEN r.ByteSize ELSE 0),
               Upload |-> has.Upload + (IF on /\ r.DstIP = a THEN r.ByteSize ELSE 0)]
      BY <2>1, CountStep
    <3> QED
      BY <2>3, <3>1
  <2>5. Expected(Append(lines, r), a, c) = more
    BY <1>1, ExpectedGrows
  <2> QED
    BY <2>2, <2>4, <2>5
<1> QED
  BY <1>4, <1>5, <1>6

-----------------------------------------------------------------------------
(***************************************************************************)
(* Reading the lines of a batch.                                           *)
(***************************************************************************)
\* What the channels and sessions of a cycle look like.
LEMMA LoadedType ==
    /\ \A m \in ChannelMaps : m \in [Channel -> BOOLEAN]
    /\ \A l \in SessionLists :
          l \in (SUBSET OnlineSession) \ {{}} /\ \A r, s \in l : r.SessID = s.SessID => r = s
<1>1. ASSUME NEW m \in ChannelMaps PROVE m \in [Channel -> BOOLEAN]
  <2>1. PICK rows \in Select(ChannelRow, {"ID"}) : m = LoadChannelMap(rows)
    BY DEF ChannelMaps
  <2>2. \A c \in Channel : ([ID |-> c, Enabled |-> TRUE] \in rows) \in BOOLEAN
    OBVIOUS
  <2> QED
    BY <2>1, <2>2, Zenon DEF LoadChannelMap
<1>2. ASSUME NEW l \in SessionLists
      PROVE  l \in (SUBSET OnlineSession) \ {{}} /\ \A r, s \in l : r.SessID = s.SessID => r = s
  <2>1. PICK rows \in Select(OnlineSession, {"IP", "SessID"}) :
            l \in {LoadOnlineSessionMap(rows)[n] : n \in DOMAIN LoadOnlineSessionMap(rows)}
    BY DEF SessionLists
  <2>2. PICK n \in {r.NasIP : r \in rows} : l = {r \in rows : r.NasIP = n}
    BY <2>1 DEF LoadOnlineSessionMap
  <2>3. rows \subseteq OnlineSession
    BY Zenon DEF Select
  <2>4. \A r, s \in rows : r.SessID = s.SessID => r = s
    <3>1. \A key \in {"IP", "SessID"} : \A r, s \in rows : r[key] = s[key] => r = s
      BY Zenon DEF Select
    <3>2. \A r, s \in rows : r["SessID"] = s["SessID"] => r = s
      BY <3>1
    <3> QED
      BY <3>2
  <2> QED
    BY <2>2, <2>3, <2>4
<1> QED
  BY <1>1, <1>2

\* A batch of which nothing has been read.
LEMMA EmptyBatch ==
    /\ <<>> \in Seq(Line) /\ DOMAIN <<>> = {}
    /\ Classified(<<>>) = {} /\ Clients(<<>>) = {}
BY DEF Classified, Clients

LEMMA ReadsLine ==
    ASSUME TrafficInv, NEW line \in Line, Reads(line)
    PROVE  /\ lines' \in Seq(Line) /\ lines' = Append(lines, line)
           /\ UNCHANGED <<channelMap, sessionList, result, chunkList, backlog, refused>>
           /\ Enabled' = Enabled
           /\ BacklogInv' /\ RefusedInv' /\ VerdictIsSound' /\ ChunksBillSessions'
           /\ OverflowBlocksBatch'
<1>1. /\ result = "reading" /\ result' = "reading"
      /\ lines' = Append(lines, line) /\ lines \in Seq(Line) /\ backlog \in Seq(Line)
      /\ UNCHANGED <<channelMap, sessionList, result, chunkList, backlog, refused>>
  BY DEF Reads, batch, TrafficInv, TrafficTypeOK
<1>2. lines' \in Seq(Line)
  BY <1>1, AppendLine
<1>3. BacklogInv'
  <2> SUFFICES ASSUME NEW i \in DOMAIN lines' \cap DOMAIN backlog PROVE lines'[i] = backlog[i]
    BY <1>1 DEF BacklogInv
  <2>1. CASE i \in DOMAIN lines
    <3>1. lines'[i] = lines[i]
      BY <1>1, <2>1, AppendLine
    <3> QED
      BY <2>1, <3>1 DEF TrafficInv, BacklogInv
  <2>2. CASE i = Len(lines) + 1
    <3>1. DOMAIN backlog = 1..Len(backlog) /\ Len(backlog) \in Nat /\ Len(lines) \in Nat
      BY <1>1
    <3>2. Len(lines) < Len(backlog)
      BY <2>2, <3>1
    <3>3. line = backlog[i]
      BY <2>2, <3>2 DEF Reads
    <3> QED
      BY <1>1, <2>2, <3>3, AppendLine
  <2> QED
    BY <1>1, <2>1, <2>2, AppendLine
<1>4. RefusedInv'
  BY <1>1 DEF TrafficInv, RefusedInv, TooMuch, Expected, Unsigned
<1>5. VerdictIsSound' /\ ChunksBillSessions' /\ OverflowBlocksBatch'
  BY <1>1 DEF VerdictIsSound, ChunksBillSessions, OverflowBlocksBatch
<1> QED
  BY <1>1, <1>2, <1>3, <1>4, <1>5 DEF Enabled

LEMMA SkipLineStep ==
    ASSUME TrafficInv, SkipLine PROVE TrafficInv'
<1>1. Reads(Skipped) /\ UNCHANGED <<trafficMap, parsedRecords, classifyErrCount>>
  BY DEF SkipLine, accumulator
<1>2. /\ lines' \in Seq(Line) /\ lines' = Append(lines, Skipped) /\ Enabled' = Enabled
      /\ UNCHANGED <<channelMap, sessionList, result, chunkList, backlog, refused>>
      /\ BacklogInv' /\ RefusedInv' /\ VerdictIsSound' /\ ChunksBillSessions'
      /\ OverflowBlocksBatch'
  BY <1>1, LineType, ReadsLine
<1>3. /\ Clients(lines') = Clients(lines) /\ Classified(lines') = Classified(lines)
      /\ \A a, c : Expected(lines', a, c) = Expected(lines, a, c)
  <2>1. lines \in Seq(Line)
    BY DEF TrafficInv, TrafficTypeOK
  <2> QED
    BY <1>2, <2>1, LineType, UnclassifiedLine
<1>4. TrafficTypeOK'
  BY <1>1, <1>2 DEF TrafficInv, TrafficTypeOK
<1>5. TrafficIsSum' /\ VerdictInv'
  BY <1>1, <1>2, <1>3 DEF TrafficInv, TrafficIsSum, VerdictInv
<1> QED
  BY <1>2, <1>4, <1>5 DEF TrafficInv

LEMMA AccumulateLineStep ==
    ASSUME TrafficInv, NEW r \in Record, AccumulateLine(r) PROVE TrafficInv'
<1>1. Reads(r) /\ parsedRecords' = parsedRecords + 1 /\ r \in Line
  BY LineType DEF AccumulateLine
<1>2. /\ lines' \in Seq(Line) /\ lines' = Append(lines, r) /\ Enabled' = Enabled
      /\ UNCHANGED <<channelMap, sessionList, result, chunkList, backlog, refused>>
      /\ BacklogInv' /\ RefusedInv' /\ VerdictIsSound' /\ ChunksBillSessions'
      /\ OverflowBlocksBatch'
  BY <1>1, ReadsLine
<1>3. TrafficTypeOK /\ TrafficIsSum /\ VerdictInv /\ lines \in Seq(Line)
  BY DEF TrafficInv, TrafficTypeOK
<1>4. /\ parsedRecords \in Nat /\ classifyErrCount \in Nat /\ classifyErrCount <= parsedRecords
  BY <1>3 DEF TrafficTypeOK
<1>5. IsClassified(r) <=> {r.SrcIP, r.DstIP} \cap Unclassified = {}
  BY DEF IsClassified, Record
<1>6. CASE IsClassified(r)
  <2>1. Count(r) /\ classifyErrCount' = classifyErrCount
    BY <1>5, <1>6 DEF AccumulateLine
  <2>2. /\ trafficMap' \in [DOMAIN trafficMap' -> [Enabled -> Traffic]]
        /\ DOMAIN trafficMap' = Clients(lines')
        /\ \A a \in Clients(lines'), c \in Enabled : trafficMap'[a][c] = Expected(lines', a, c)
    BY <1>2, <1>3, <1>6, <2>1, SumStep
  <2>3. TrafficIsSum'
    BY <1>2, <2>2 DEF TrafficIsSum
  <2>4. TrafficTypeOK'
    <3>1. DOMAIN trafficMap' \subseteq Addr
      BY <2>2, TrafficAssumption DEF Clients
    <3>2. parsedRecords' \in Nat /\ classifyErrCount' \in 0..parsedRecords'
      BY <1>1, <1>4, <2>1
    <3> QED
      BY <1>2, <1>3, <2>2, <3>1, <3>2 DEF TrafficTypeOK
  <2>5. VerdictInv'
    <3>1. Classified(lines') # {}
      BY <1>2, <1>3, <1>1, <1>6, ClassifiedGrows
    <3>2. classifyErrCount' # parsedRecords'
      BY <1>1, <1>4, <2>1
    <3> QED
      BY <3>1, <3>2 DEF VerdictInv
  <2> QED
    BY <1>2, <2>3, <2>4, <2>5 DEF TrafficInv
<1>7. CASE ~IsClassified(r)
  <2>1. UNCHANGED trafficMap /\ classifyErrCount' = classifyErrCount + 1
    BY <1>5, <1>7 DEF AccumulateLine
  <2>2. /\ Clients(lines') = Clients(lines) /\ Classified(lines') = Classified(lines)
        /\ \A a, c : Expected(lines', a, c) = Expected(lines, a, c)
    BY <1>1, <1>2, <1>3, <1>7, UnclassifiedLine
  <2>3. TrafficIsSum'
    BY <1>2, <1>3, <2>1, <2>2 DEF TrafficIsSum
  <2>4. parsedRecords' \in Nat /\ classifyErrCount' \in 0..parsedRecords'
    BY <1>1, <1>4, <2>1
  <2>5. TrafficTypeOK'
    BY <1>2, <1>3, <2>1, <2>4 DEF TrafficTypeOK
  <2>6. classifyErrCount' = parsedRecords' <=> classifyErrCount = parsedRecords
    BY <1>1, <1>4, <2>1
  <2>7. VerdictInv'
    BY <1>3, <2>2, <2>6 DEF VerdictInv
  <2> QED
    BY <1>2, <2>3, <2>5, <2>7 DEF TrafficInv
<1> QED
  BY <1>6, <1>7

-----------------------------------------------------------------------------
(***************************************************************************)
(* What the job does with them.                                            *)
(***************************************************************************)
LEMMA ResultStep ==
    ASSUME TrafficInv, Result PROVE TrafficInv'
<1>1. /\ result = "reading" /\ Len(lines) >= Len(backlog)
      /\ UNCHANGED <<channelMap, sessionList, lines, trafficMap, parsedRecords, classifyErrCount,
                     chunkList, backlog, refused>>
      /\ result' = IF DOMAIN trafficMap # {} THEN "traffic"
                   ELSE IF parsedRecords = 0 \/ classifyErrCount = parsedRecords
                        THEN "ErrInternalError"
                   ELSE "ErrNoData"
  BY DEF Result, accumulator, batch
<1>2. result' \in {"traffic", "ErrInternalError", "ErrNoData"}
  BY <1>1
<1>3. Enabled' = Enabled
  BY <1>1 DEF Enabled
<1>4. TrafficTypeOK' /\ TrafficIsSum' /\ VerdictInv' /\ BacklogInv'
  <2>1. TrafficTypeOK'
    BY <1>1, <1>2, <1>3 DEF TrafficInv, TrafficTypeOK
  <2>2. TrafficIsSum' /\ VerdictInv' /\ BacklogInv'
    BY <1>1, <1>3 DEF TrafficInv, TrafficIsSum, VerdictInv, BacklogInv
  <2> QED
    BY <2>1, <2>2
<1>5. VerdictIsSound'
  <2>1. parsedRecords = 0 => classifyErrCount = parsedRecords
    BY DEF TrafficInv, TrafficTypeOK
  <2> QED
    BY <1>1, <1>3, <2>1 DEF TrafficInv, TrafficIsSum, VerdictInv, VerdictIsSound
<1>6. ChunksBillSessions' /\ OverflowBlocksBatch'
  BY <1>2 DEF ChunksBillSessions, OverflowBlocksBatch
<1>7. RefusedInv'
  BY <1>1 DEF TrafficInv, RefusedInv, TooMuch, Expected, Unsigned
<1> QED
  BY <1>4, <1>5, <1>6, <1>7 DEF TrafficInv

\* A session is billed what its address has, or nothing.
LEMMA ChannelListIsBillable ==
    ASSUME TrafficTypeOK, TrafficIsSum, NEW a
    PROVE  /\ DOMAIN ChannelList(a) = Enabled
           /\ \A c \in Enabled : ChannelList(a)[c] = Billable(lines, a, c)
<1>1. CASE a \in Clients(lines)
  <2>1. a \in DOMAIN trafficMap /\ a \in InternalNet
    BY <1>1 DEF TrafficIsSum, Clients
  <2>2. ChannelList(a) = trafficMap[a]
    BY <2>1 DEF ChannelList
  <2> QED
    BY <1>1, <2>1, <2>2 DEF TrafficTypeOK, TrafficIsSum, Billable
<1>2. CASE a \notin Clients(lines)
  <2>1. ChannelList(a) = [c \in Enabled |-> NewEmptyTraffic]
    BY <1>2 DEF TrafficIsSum, ChannelList, CreateNewEmptyTrafficMap
  <2>2. \A c : Billable(lines, a, c) = NewEmptyTraffic
    <3>1. lines \in Seq(Line)
      BY DEF TrafficTypeOK
    <3> QED
      BY <1>2, <3>1, NothingExpected DEF Billable
  <2> QED
    BY <2>1, <2>2
<1> QED
  BY <1>1, <1>2

LEMMA SiftTrafficStep ==
    ASSUME TrafficInv, SiftTraffic PROVE TrafficInv'
<1>1. /\ result = "traffic"
      /\ chunkList' = UNION {{NewChunk(s.SessID, c, ChannelList(s.IP)[c]) : c \in DOMAIN ChannelList(s.IP)} :
                              s \in sessionList}
      /\ result' = IF chunkList' = {} THEN "ErrNoData" ELSE "chunks"
      /\ UNCHANGED <<channelMap, sessionList, lines, trafficMap, parsedRecords, classifyErrCount,
                     backlog, refused>>
  BY DEF SiftTraffic, accumulator, batch
<1>2. Enabled' = Enabled /\ TrafficTypeOK /\ TrafficIsSum
  BY <1>1 DEF Enabled, TrafficInv
<1> DEFINE bill(s, c) == NewChunk(s.SessID, c, Billable(lines, s.IP, c))
<1>3. chunkList' = {bill(s, c) : s \in sessionList, c \in Enabled}
  <2>1. \A id, a : \A c \in Enabled :
            NewChunk(id, c, ChannelList(a)[c]) = NewChunk(id, c, Billable(lines, a, c))
    BY <1>2, ChannelListIsBillable
  <2>2. \A a : DOMAIN ChannelList(a) = Enabled
    BY <1>2, ChannelListIsBillable
  <2>3. ASSUME NEW k PROVE k \in chunkList' <=> \E s \in sessionList : \E c \in Enabled : k = bill(s, c)
    <3> DEFINE bills(s) == {NewChunk(s.SessID, c, ChannelList(s.IP)[c]) : c \in DOMAIN ChannelList(s.IP)}
    <3>1. chunkList' = UNION {bills(s) : s \in sessionList}
      BY <1>1
    <3>2. \A s \in sessionList : k \in bills(s) <=> \E c \in Enabled : k = bill(s, c)
      BY <2>1, <2>2
    <3> HIDE DEF bill, bills
    <3>3. k \in chunkList' <=> \E s \in sessionList : k \in bills(s)
      BY <3>1
    <3> QED
      BY <3>2, <3>3
  <2> HIDE DEF bill
  <2> QED
    BY <2>3
<1>4. result' \in {"chunks", "ErrNoData"} /\ (result' = "ErrNoData" => Enabled = {})
  <2>1. PICK s \in sessionList : TRUE
    BY <1>2 DEF TrafficTypeOK
  <2>2. \A c \in Enabled : bill(s, c) \in chunkList'
    <3> HIDE DEF bill
    <3> QED
      BY <1>3
  <2>3. chunkList' = {} => Enabled = {}
    BY <2>2
  <2> QED
    BY <1>1, <2>3
<1>5. TrafficTypeOK'
  BY <1>1, <1>2, <1>4 DEF TrafficTypeOK
<1>6. TrafficIsSum' /\ VerdictInv' /\ BacklogInv'
  BY <1>1, <1>2 DEF TrafficInv, TrafficIsSum, VerdictInv, BacklogInv
<1>7. VerdictIsSound' /\ OverflowBlocksBatch'
  BY <1>2, <1>4 DEF VerdictIsSound, OverflowBlocksBatch
<1>8. ChunksBillSessions'
  <2>1. chunkList' = {NewChunk(s.SessID, c, Billable(lines', s.IP, c)) :
                          s \in sessionList', c \in Enabled'}
    <3>1. lines' = lines /\ sessionList' = sessionList /\ Enabled' = Enabled
      BY <1>1, <1>2
    <3> QED
      BY <1>3, <3>1
  <2> QED
    BY <2>1, SMT DEF ChunksBillSessions
<1>9. RefusedInv'
  BY <1>1, <1>4 DEF TrafficInv, RefusedInv, TooMuch, Expected, Unsigned
<1> QED
  BY <1>5, <1>6, <1>7, <1>8, <1>9 DEF TrafficInv

\* What was too much once is too much in a batch that begins with it.
LEMMA StaysTooMuch ==
    ASSUME TrafficTypeOK, BacklogInv, result # "reading", NEW p,
           Unsigned(backlog) => TooMuch(backlog, p)
    PROVE  Unsigned(lines) => TooMuch(lines, p)
<1> SUFFICES ASSUME Unsigned(lines) PROVE TooMuch(lines, p)
  OBVIOUS
<1> DEFINE a == p.IP
           c == p.ChannelID
<1>1. lines \in Seq(Line) /\ backlog \in Seq(Line) /\ Len(backlog) <= Len(lines)
  <2>1. lines \in Seq(Line) /\ backlog \in Seq(Line)
    BY DEF TrafficTypeOK
  <2>2. Len(lines) >= Len(backlog)
    BY DEF BacklogInv
  <2>3. Len(lines) \in Nat /\ Len(backlog) \in Nat
    BY <2>1
  <2> QED
    BY <2>1, <2>2, <2>3
<1>2. /\ Expected(backlog, a, c).Download <= Expected(lines, a, c).Download
      /\ Expected(backlog, a, c).Upload <= Expected(lines, a, c).Upload
      /\ Unsigned(backlog)
  <2>1. \A i \in DOMAIN backlog \cap DOMAIN lines : lines[i] = backlog[i]
    BY Zenon DEF BacklogInv
  <2> QED
    BY <1>1, <2>1, LongerBatch, BeginsWith
<1>3. /\ Expected(backlog, a, c) \in [Download : Int, Upload : Int]
      /\ Expected(lines, a, c) \in [Download : Int, Upload : Int]
  BY <1>1, ExpectedType DEF Traffic
<1>4. Expected(backlog, a, c).Download > MaxInteger \/ Expected(backlog, a, c).Upload > MaxInteger
  BY <1>2 DEF TooMuch
<1> DEFINE before == Expected(backlog, a, c)
           after == Expected(lines, a, c)
<1> HIDE DEF before, after
<1>5. after.Download > MaxInteger \/ after.Upload > MaxInteger
  <2>1. MaxInteger \in Nat /\ before \in [Download : Int, Upload : Int]
        /\ after \in [Download : Int, Upload : Int]
        /\ before.Download <= after.Download /\ before.Upload <= after.Upload
        /\ (before.Download > MaxInteger \/ before.Upload > MaxInteger)
    BY <1>2, <1>3, <1>4, TrafficAssumption DEF before, after
  <2>2. before.Download \in Int /\ before.Upload \in Int /\ after.Download \in Int /\ after.Upload \in Int
    BY <2>1
  <2> QED
    BY <2>1, <2>2
<1> QED
  BY <1>5 DEF TooMuch, after

LEMMA SaveChunkListStep ==
    ASSUME TrafficInv, SaveChunkList PROVE TrafficInv'
<1>1. /\ result = "chunks"
      /\ refused' = refused \cup Unfit
      /\ result' = IF \A k \in chunkList : Fits(k) THEN "saved" ELSE "refused"
      /\ UNCHANGED <<channelMap, sessionList, lines, trafficMap, parsedRecords, classifyErrCount,
                     chunkList, backlog>>
  BY DEF SaveChunkList, accumulator
<1>2. Enabled' = Enabled /\ TrafficTypeOK /\ BacklogInv
  BY <1>1 DEF Enabled, TrafficInv
<1>3. result' \in {"saved", "refused"}
  BY <1>1
<1>4. ASSUME NEW p \in Unfit
      PROVE  /\ p \in [IP : SessionIP, ChannelID : Channel] /\ p.IP \in InternalNet
             /\ Unsigned(lines) => TooMuch(lines, p)
  <2>1. PICK s \in sessionList, k \in chunkList :
            /\ s.IP = p.IP /\ s.SessID = k.SessID
            /\ k.ChannelID = p.ChannelID /\ ~Fits(k)
    BY DEF Unfit
  <2>2. PICK payer \in sessionList, c \in Enabled :
            k = NewChunk(payer.SessID, c, Billable(lines, payer.IP, c))
    BY <1>1 DEF TrafficInv, ChunksBillSessions
  <2> DEFINE t == Billable(lines, p.IP, c)
  <2>3. k.SessID = payer.SessID /\ k.ChannelID = c
    BY <2>2 DEF NewChunk
  <2>4. payer = s
    BY <1>2, <2>1, <2>3 DEF TrafficTypeOK
  <2>5. /\ k.Download = t.Download /\ k.Upload = t.Upload /\ p.ChannelID = c
        /\ t \in [Download : Int, Upload : Int]
    <3>1. lines \in Seq(Line)
      BY <1>2 DEF TrafficTypeOK
    <3>2. t \in Traffic
      BY <3>1, ExpectedType, NoTraffic DEF Billable
    <3> QED
      BY <2>1, <2>2, <2>3, <2>4, <3>2 DEF NewChunk, Traffic
  <2>6. ~(FitsInteger(t.Download) /\ FitsInteger(t.Upload))
    <3> HIDE DEF t
    <3> QED
      BY <2>1, <2>5 DEF Fits
  <2>7. p.IP \in InternalNet
    <3>1. CASE p.IP \notin InternalNet
      <4>1. t.Download = 0 /\ t.Upload = 0
        BY <3>1 DEF Billable, NewEmptyTraffic
      <4> HIDE DEF t
      <4> QED
        BY <2>6, <4>1, TrafficAssumption DEF FitsInteger
    <3> QED
      BY <3>1
  <2>8. ASSUME Unsigned(lines) PROVE TooMuch(lines, p)
    <3>1. t = Expected(lines, p.IP, p.ChannelID)
      BY <2>5, <2>7 DEF Billable
    <3>2. lines \in Seq(Line)
      BY <1>2 DEF TrafficTypeOK
    <3>3. t \in [Download : Nat, Upload : Nat]
      BY <2>8, <3>1, <3>2, UnsignedExpected
    <3>4. t.Download > MaxInteger \/ t.Upload > MaxInteger
      <4> HIDE DEF t
      <4>1. t.Download \in Nat /\ t.Upload \in Nat
        BY <3>3
      <4> QED
        BY <2>6, <4>1, TrafficAssumption DEF FitsInteger
    <3> QED
      BY <3>1, <3>4 DEF TooMuch
  <2> QED
    BY <2>7, <2>8 DEF Unfit
<1>5. \A p \in refused :
          /\ p.IP \in InternalNet
          /\ Unsigned(backlog) => TooMuch(backlog, p)
          /\ Unsigned(lines) => TooMuch(lines, p)
  BY <1>1, <1>2, StaysTooMuch DEF TrafficInv, RefusedInv
<1>6. TrafficTypeOK'
  <2>1. refused' \in SUBSET [IP : SessionIP, ChannelID : Channel]
    BY <1>1, <1>2, <1>4 DEF TrafficTypeOK
  <2> QED
    BY <1>1, <1>2, <1>3, <2>1 DEF TrafficTypeOK
<1>7. TrafficIsSum' /\ VerdictInv' /\ BacklogInv'
  BY <1>1, <1>2 DEF TrafficInv, TrafficIsSum, VerdictInv, BacklogInv
<1>8. VerdictIsSound'
  BY <1>3 DEF VerdictIsSound
<1>9. ChunksBillSessions'
  <2>1. chunkList = {NewChunk(s.SessID, c, Billable(lines, s.IP, c)) : s \in sessionList, c \in Enabled}
    BY <1>1 DEF TrafficInv, ChunksBillSessions
  <2>2. chunkList' = {NewChunk(s.SessID, c, Billable(lines', s.IP, c)) :
                          s \in sessionList', c \in Enabled'}
    <3>1. lines' = lines /\ sessionList' = sessionList /\ Enabled' = Enabled /\ chunkList' = chunkList
      BY <1>1, <1>2
    <3> QED
      BY <2>1, <3>1
  <2> QED
    BY <2>2, SMT DEF ChunksBillSessions
<1>10. RefusedInv'
  <2> SUFFICES ASSUME NEW p \in refused'
               PROVE  /\ p.IP \in InternalNet
                      /\ \/ Unsigned(backlog) => TooMuch(backlog, p)
                         \/ result' = "refused" /\ (Unsigned(lines) => TooMuch(lines, p))
    BY <1>1 DEF RefusedInv, TooMuch, Expected, Unsigned
  <2>1. CASE p \in refused
    BY <1>5, <2>1
  <2>2. CASE p \in Unfit
    <3>1. result' = "refused"
      BY <1>1, <2>2 DEF Unfit
    <3> QED
      BY <1>4, <2>2, <3>1
  <2> QED
    BY <1>1, <2>1, <2>2
<1>11. OverflowBlocksBatch'
  <2> SUFFICES ASSUME result' = "saved", Unsigned(lines), NEW p \in refused',
                      channelMap[p.ChannelID], NEW s \in sessionList, p.IP = s.IP
               PROVE  FALSE
    BY <1>1 DEF OverflowBlocksBatch, Unsigned
  <2>1. \A j \in chunkList : Fits(j)
    BY <1>1
  <2>2. p \in refused
    BY <1>1, <2>1 DEF Unfit
  <2> DEFINE c == p.ChannelID
             t == Expected(lines, s.IP, c)
  <2>3. c \in Enabled
    BY <1>2, <2>2 DEF TrafficTypeOK, Enabled
  <2>4. s.IP \in InternalNet /\ (t.Download > MaxInteger \/ t.Upload > MaxInteger)
    BY <1>5, <2>2 DEF TooMuch
  <2>5. NewChunk(s.SessID, c, t) \in chunkList
    <3>1. Billable(lines, s.IP, c) = t
      BY <2>4 DEF Billable
    <3>2. NewChunk(s.SessID, c, Billable(lines, s.IP, c)) \in chunkList
      BY <1>1, <2>3 DEF TrafficInv, ChunksBillSessions
    <3> QED
      BY <3>1, <3>2
  <2>6. t.Download <= MaxInteger /\ t.Upload <= MaxInteger
    BY <2>1, <2>5 DEF Fits, FitsInteger, NewChunk
  <2>7. t.Download \in Int /\ t.Upload \in Int
    <3>1. t \in Traffic
      BY <1>2, ExpectedType DEF TrafficTypeOK
    <3> QED
      BY <3>1 DEF Traffic
  <2> HIDE DEF t
  <2> QED
    BY <2>4, <2>6, <2>7, TrafficAssumption
<1> QED
  BY <1>6, <1>7, <1>8, <1>9, <1>10, <1>11 DEF TrafficInv

\* Nothing has been read, and nobody has any traffic.
LEMMA NewBatch ==
    ASSUME DOMAIN trafficMap = {}, lines = <<>>
    PROVE  TrafficIsSum
BY EmptyBatch DEF TrafficIsSum

LEMMA ReadsAgainStep ==
    ASSUME TrafficInv, ReadsAgain PROVE TrafficInv'
<1>1. /\ result \in {"refused", "ErrInternalError"}
      /\ channelMap' \in [Channel -> BOOLEAN]
      /\ sessionList' \in (SUBSET OnlineSession) \ {{}}
      /\ \A r, s \in sessionList' : r.SessID = s.SessID => r = s
      /\ backlog' = lines /\ lines' = <<>>
      /\ trafficMap' = [a \in {} |-> CreateNewEmptyTrafficMap]
      /\ parsedRecords' = 0 /\ classifyErrCount' = 0
      /\ result' = "reading" /\ chunkList' = {} /\ refused' = refused
  BY LoadedType DEF ReadsAgain
<1>2. TrafficTypeOK /\ BacklogInv /\ lines \in Seq(Line) /\ result # "reading"
  BY <1>1 DEF TrafficInv, TrafficTypeOK
<1>3. DOMAIN trafficMap' = {} /\ trafficMap' \in [DOMAIN trafficMap' -> [Enabled' -> Traffic]]
  BY <1>1
<1>4. TrafficTypeOK'
  BY <1>1, <1>2, <1>3, EmptyBatch DEF TrafficTypeOK
<1>5. TrafficIsSum' /\ VerdictInv'
  BY <1>1, <1>3, EmptyBatch DEF TrafficIsSum, VerdictInv
<1>6. BacklogInv'
  BY <1>1, EmptyBatch DEF BacklogInv
<1>7. VerdictIsSound' /\ ChunksBillSessions' /\ OverflowBlocksBatch'
  BY <1>1 DEF VerdictIsSound, ChunksBillSessions, OverflowBlocksBatch
<1>8. RefusedInv'
  <2>1. \A p \in refused : p.IP \in InternalNet /\ (Unsigned(lines) => TooMuch(lines, p))
    BY <1>2, StaysTooMuch DEF TrafficInv, RefusedInv
  <2> QED
    BY <1>1, <2>1 DEF RefusedInv, TooMuch, Expected, Unsigned
<1> QED
  BY <1>4, <1>5, <1>6, <1>7, <1>8 DEF TrafficInv

LEMMA TrafficInitInv ==
    ASSUME TrafficInit PROVE TrafficInv
<1>1. /\ channelMap \in [Channel -> BOOLEAN]
      /\ sessionList \in (SUBSET OnlineSession) \ {{}}
      /\ \A r, s \in sessionList : r.SessID = s.SessID => r = s
      /\ lines = <<>> /\ backlog = <<>> /\ refused = {} /\ result = "reading"
      /\ DOMAIN trafficMap = {} /\ parsedRecords = 0 /\ classifyErrCount = 0
  BY LoadedType DEF TrafficInit, NewFlowAccumulator
<1>2. trafficMap \in [DOMAIN trafficMap -> [Enabled -> Traffic]]
  BY DEF TrafficInit, NewFlowAccumulator
<1>3. TrafficTypeOK
  BY <1>1, <1>2, EmptyBatch DEF TrafficTypeOK
<1>4. TrafficIsSum /\ VerdictInv
  BY <1>1, NewBatch, EmptyBatch DEF VerdictInv
<1>5. BacklogInv /\ RefusedInv /\ VerdictIsSound /\ ChunksBillSessions /\ OverflowBlocksBatch
  BY <1>1, EmptyBatch DEF BacklogInv, RefusedInv, VerdictIsSound, ChunksBillSessions,
                          OverflowBlocksBatch
<1> QED
  BY <1>3, <1>4, <1>5 DEF TrafficInv

LEMMA TrafficStep ==
    ASSUME TrafficInv, [TrafficNext]_trafficVars PROVE TrafficInv'
<1>1. CASE SkipLine
  BY <1>1, SkipLineStep
<1>2. ASSUME NEW r \in Record, AccumulateLine(r) PROVE TrafficInv'
  BY <1>2, AccumulateLineStep
<1>3. CASE Result
  BY <1>3, ResultStep
<1>4. CASE SiftTraffic
  BY <1>4, SiftTrafficStep
<1>5. CASE SaveChunkList
  BY <1>5, SaveChunkListStep
<1>6. CASE ReadsAgain
  BY <1>6, ReadsAgainStep
<1>7. CASE UNCHANGED trafficVars
  <2>1. /\ lines' = lines /\ backlog' = backlog /\ trafficMap' = trafficMap /\ result' = result
        /\ channelMap' = channelMap /\ sessionList' = sessionList /\ refused' = refused
        /\ parsedRecords' = parsedRecords /\ classifyErrCount' = classifyErrCount
        /\ chunkList' = chunkList /\ Enabled' = Enabled
    BY <1>7 DEF trafficVars, accumulator, batch, Enabled
  <2>2. TrafficTypeOK' /\ TrafficIsSum' /\ VerdictInv' /\ VerdictIsSound' /\ BacklogInv'
    BY <2>1 DEF TrafficInv, TrafficTypeOK, TrafficIsSum, VerdictInv, VerdictIsSound, BacklogInv
  <2>3. RefusedInv' /\ OverflowBlocksBatch'
    BY <2>1 DEF TrafficInv, RefusedInv, TooMuch, Expected, OverflowBlocksBatch, Unsigned
  <2>4. ChunksBillSessions'
    BY <2>1 DEF TrafficInv, ChunksBillSessions, Billable, Expected, NewChunk
  <2> QED
    BY <2>2, <2>3, <2>4 DEF TrafficInv
<1> QED
  BY <1>1, <1>2, <1>3, <1>4, <1>5, <1>6, <1>7 DEF TrafficNext

-----------------------------------------------------------------------------
(***************************************************************************)
(* The theorems.                                                           *)
(***************************************************************************)

\* The inductive invariant holds in every state: the traffic, the counters, the verdict,
\* the chunks, what is read again and what was refused have their types and fit together
\* (src/src/internal/usecase/traffic.go:118-280).
THEOREM TrafficInvariance == TrafficSpec => []TrafficInv
<1>1. TrafficInit => TrafficInv
  BY TrafficInitInv
<1>2. TrafficInv /\ [TrafficNext]_trafficVars => TrafficInv'
  BY TrafficStep
<1> QED
  BY <1>1, <1>2, PTL DEF TrafficSpec

\* However many lines come in whatever order, every internal address has exactly the bytes
\* of its classified records per enabled channel and direction, and nobody else has any
\* (src/src/internal/usecase/traffic.go:118-158).
THEOREM TrafficIsSummed == TrafficSpec => []TrafficIsSum
<1>1. TrafficInv => TrafficIsSum
  BY DEF TrafficInv
<1> QED
  BY <1>1, TrafficInvariance, PTL

\* The files of a job are kept for the next cycle only if none of its records could be
\* classified, and dropped as "no data" only if some record was and none was internal
\* (src/src/internal/usecase/traffic.go:160-180).
THEOREM VerdictsAreSound == TrafficSpec => []VerdictIsSound
<1>1. TrafficInv => VerdictIsSound
  BY DEF TrafficInv
<1> QED
  BY <1>1, TrafficInvariance, PTL

\* The chunks of a job bill each online session what its address moved on each enabled
\* channel, with zeros where it moved nothing, and nobody else
\* (src/src/internal/usecase/traffic.go:250-280).
THEOREM SessionsAreBilled == TrafficSpec => []ChunksBillSessions
<1>1. TrafficInv => ChunksBillSessions
  BY DEF TrafficInv
<1> QED
  BY <1>1, TrafficInvariance, PTL

\* Bytes of an address that do not fit an INTEGER column were never billed by a batch saved
\* later while a session had the address and the channel was enabled, whichever session it
\* was, unless a negative number of doctets was among the lines
\* (src/src/internal/repository/postgresql/session.go:49-53).
THEOREM OverflowBlocks == TrafficSpec => []OverflowBlocksBatch
<1>1. TrafficInv => OverflowBlocksBatch
  BY DEF TrafficInv
<1> QED
  BY <1>1, TrafficInvariance, PTL

=============================================================================
