------------------------- MODULE GameServersProofs -------------------------
(***************************************************************************)
(* Proofs about the table of GameServers, for every set of addresses, keys *)
(* and heartbeats.                                                         *)
(*                                                                         *)
(* The argument.  Only the thread of the QR server writes rows, so that    *)
(* the row a heartbeat has merged with is, but for its verification, still *)
(* the row in the table when the heartbeat is written (Beats).  What the   *)
(* columns then hold follows from the merge, key by key (MergedKeys).  The *)
(* web's handler meets this thread between its calls: moved names every    *)
(* server that has been written since.                                     *)
(*                                                                         *)
(* The second half is about the browser.  A loop of the code is a          *)
(* recursive function here; that it has a value is RecursionExists, and    *)
(* what it computes is shown by looking for the least place at which it    *)
(* would be wrong (NoFirst).  Each of the two loops that take servers out  *)
(* of a list selects some positions of it (LoopSelects), and a selection   *)
(* of a selection is one (SelectedTwice).  For requests the invariant is   *)
(* HeardFirst: what is heard is the first of what was asked, and the bytes *)
(* of the rest wait on the connection.                                     *)
(***************************************************************************)
EXTENDS GameServers, TLAPS, SequenceTheorems, FiniteSetTheorems, WellFoundedInduction

Carries(a, n, k) == k \in DOMAIN Say[a][n] /\ Readable(k, Say[a][n][k])

\* What the heartbeat under way relies on.
Beats ==
  qr # Idle =>
    /\ IsBeat(qr)
    /\ qr.next = "insert" => qr.row.keys = Merge(Default, Say[qr.addr][qr.n])
    /\ qr.next = "update" =>
         /\ qr.addr \in Listed
         /\ qr.row.keys = Merge(Load(servers[qr.addr].keys), Say[qr.addr][qr.n])

\* The last heartbeat written has written all that it carries.
Histories ==
  \A a \in Address :
    /\ a \in Listed =>
         /\ stored[a] \in Datagram(a)
         /\ \A k \in Key : Carries(a, stored[a], k) => carried[a][k] = stored[a]
    /\ a \notin Listed => \A k \in Key : carried[a][k] = 0

IInv ==
  /\ TypeOK
  /\ Beats
  /\ Histories
  /\ ClansOfLatest
  /\ ColumnsKeepTheLatest
  /\ PlayersOfLatest
  /\ LiveAnswerWhole

-----------------------------------------------------------------------------
(***************************************************************************)
(* Keys, and what a heartbeat makes of them.                               *)
(***************************************************************************)
LEMMA DatagramIs ==
  ASSUME NEW a \in Address, NEW n \in Datagram(a)
  PROVE  /\ n \in Nat /\ n > 0
         /\ Playing[a][n] \in SUBSET Name
         /\ DOMAIN Say[a][n] \subseteq Key
         /\ \A k \in DOMAIN Say[a][n] : Say[a][n][k] \in Said(k)
<1>1. Playing[a] \in Seq(SUBSET Name) /\ DOMAIN Say[a] = DOMAIN Playing[a]
  BY GameServersAssumption
<1>2. n \in 1 .. Len(Playing[a]) /\ n \in DOMAIN Say[a]
  BY <1>1 DEF Datagram
<1>3. Playing[a][n] \in SUBSET Name
  BY <1>1, <1>2, ElementOfSeq
<1>4. QED
  BY <1>2, <1>3, GameServersAssumption

LEMMA Kinds ==
  /\ \A k \in ByteKeys : k \in NumberKeys /\ k # "region" /\ k \notin ShortKeys \union IntegerKeys
  /\ \A k \in ShortKeys : k \in NumberKeys /\ k # "region" /\ k \notin ByteKeys \union IntegerKeys
  /\ \A k \in IntegerKeys : k \in NumberKeys /\ k # "region" /\ k \notin ByteKeys \union ShortKeys
  /\ "region" \in NumberKeys /\ "region" \notin ByteKeys \union ShortKeys \union IntegerKeys
  /\ \A k \in NumberKeys : k \in ByteKeys \union ShortKeys \union IntegerKeys \/ k = "region"
  /\ "fraglimit" \in ByteKeys /\ "teamfraglimit" \in ByteKeys /\ "teamfraglimit" \notin ClanKeys
<1>1. \A k \in ByteKeys : k # "region"
  BY DEF ByteKeys
<1>2. \A k \in ShortKeys : k # "region" /\ k \notin ByteKeys
  BY DEF ByteKeys, ShortKeys
<1>3. \A k \in IntegerKeys : k # "region" /\ k \notin ByteKeys \union ShortKeys
  BY DEF ByteKeys, ShortKeys, IntegerKeys
<1>4. "fraglimit" \in ByteKeys /\ "teamfraglimit" \in ByteKeys /\ "teamfraglimit" \notin ClanKeys
  BY DEF ByteKeys, ClanKeys
<1>5. QED
  BY <1>1, <1>2, <1>3, <1>4 DEF NumberKeys

LEMMA ShortIs == Short \in Nat /\ Short > 0
  BY DEF Short

LEMMA NarrowFits ==
  ASSUME NEW k \in Key, NEW v \in Said(k), Readable(k, v)
  PROVE  Narrow(k, v) \in Column(k)
<1>1. CASE k \in ByteKeys
  <2>1. k \in NumberKeys /\ k # "region" /\ k \notin ShortKeys \union IntegerKeys
    BY <1>1, Kinds
  <2>2. v \in Int
    BY <2>1 DEF Said, Readable
  <2>3. v % 256 \in 0 .. 255
    BY <2>2
  <2>4. Narrow(k, v) = v % 256
    BY <1>1, <2>1, <2>2 DEF Narrow
  <2>5. Column(k) = 0 .. 255
    BY <1>1, <2>1 DEF Column
  <2>6. QED
    BY <2>3, <2>4, <2>5
<1>2. CASE k \in ShortKeys
  <2>1. k \in NumberKeys /\ k # "region" /\ k \notin ByteKeys \union IntegerKeys
    BY <1>2, Kinds
  <2>2. v \in Int
    BY <2>1 DEF Said, Readable
  <2>3. v % Short \in 0 .. Short - 1
    BY <2>2, ShortIs
  <2>4. Narrow(k, v) = v % Short
    BY <1>2, <2>1, <2>2 DEF Narrow
  <2>5. Column(k) = 0 .. Short - 1
    BY <1>2, <2>1 DEF Column
  <2>6. QED
    BY <2>3, <2>4, <2>5
<1>3. CASE k \notin ByteKeys \union ShortKeys
  <2>1. Narrow(k, v) = v
    BY <1>3 DEF Narrow
  <2>2. CASE k \in IntegerKeys
    <3>1. k \in NumberKeys /\ k # "region"
      BY <2>2, Kinds
    <3>2. v \in Int
      BY <3>1 DEF Said, Readable
    <3>3. Column(k) = Int
      BY <1>3, <2>2, <3>1 DEF Column
    <3>4. QED
      BY <2>1, <3>2, <3>3
  <2>3. CASE k = "region"
    <3>1. k \in NumberKeys /\ k \notin IntegerKeys
      BY <2>3, Kinds
    <3>2. v \in SUBSET Bit
      BY <2>3, <3>1 DEF Said, Readable
    <3>3. Column(k) = SUBSET Bit
      BY <1>3, <2>3, <3>1 DEF Column
    <3>4. QED
      BY <2>1, <3>2, <3>3
  <2>4. CASE k \notin IntegerKeys /\ k # "region"
    <3>1. k \notin NumberKeys
      BY <1>3, <2>4, Kinds
    <3>2. QED
      BY <1>3, <2>1, <2>4, <3>1 DEF Said, Column
  <2>5. QED
    BY <2>2, <2>3, <2>4
<1>4. QED
  BY <1>1, <1>2, <1>3

LEMMA MergedKeys ==
  ASSUME NEW a \in Address, NEW n \in Datagram(a), NEW keys, IsKeys(keys)
  PROVE  /\ IsKeys(Merge(keys, Say[a][n]))
         /\ \A k \in Key :
              Merge(keys, Say[a][n])[k] =
                IF Carries(a, n, k) THEN Reported(a, n, k)
                ELSE IF k \in ClanKeys THEN Default[k] ELSE keys[k]
<1> DEFINE say == Say[a][n]
           old == [k \in Key |-> IF k \in ClanKeys THEN Default[k] ELSE keys[k]]
           new == [k \in Key |-> IF k \in DOMAIN say THEN SetKey(k, old[k], say[k]) ELSE old[k]]
<1>1. Merge(keys, say) = new
  BY DEF Merge
<1>2. \A k \in Key : /\ old[k] = IF k \in ClanKeys THEN Default[k] ELSE keys[k]
                     /\ old[k] \in Column(k)
  BY GameServersAssumption DEF IsKeys
<1>3. \A k \in Key : new[k] = IF k \in DOMAIN say THEN SetKey(k, old[k], say[k]) ELSE old[k]
  OBVIOUS
<1>4. new = [k \in Key |-> new[k]]
  OBVIOUS
<1> HIDE DEF old, new
<1>5. ASSUME NEW k \in Key
      PROVE  /\ new[k] \in Column(k)
             /\ new[k] = IF Carries(a, n, k) THEN Reported(a, n, k)
                         ELSE IF k \in ClanKeys THEN Default[k] ELSE keys[k]
  <2>1. CASE Carries(a, n, k)
    <3>1. say[k] \in Said(k)
      BY <2>1, DatagramIs DEF Carries
    <3>2. new[k] = Narrow(k, say[k])
      BY <1>3, <2>1 DEF Carries, SetKey
    <3>3. QED
      BY <2>1, <3>1, <3>2, NarrowFits DEF Carries, Reported
  <2>2. CASE ~ Carries(a, n, k)
    <3>1. new[k] = old[k]
      BY <1>3, <2>2 DEF Carries, SetKey
    <3>2. QED
      BY <1>2, <2>2, <3>1
  <2>3. QED
    BY <2>1, <2>2
<1>6. QED
  BY <1>1, <1>4, <1>5 DEF IsKeys

LEMMA LoadedKeys ==
  ASSUME NEW keys, IsKeys(keys)
  PROVE  /\ IsKeys(Load(keys))
         /\ \A k \in Key \ {"teamfraglimit"} : Load(keys)[k] = keys[k]
<1> DEFINE new == [k \in Key |-> IF k = "teamfraglimit" /\ "fraglimit" \in Key
                                 THEN keys["fraglimit"] ELSE keys[k]]
<1>1. Load(keys) = new /\ new = [k \in Key |-> new[k]]
  BY DEF Load
<1>2. \A k \in Key : new[k] = IF k = "teamfraglimit" /\ "fraglimit" \in Key
                              THEN keys["fraglimit"] ELSE keys[k]
  OBVIOUS
<1> HIDE DEF new
<1>3. "fraglimit" \in Key => keys["fraglimit"] \in Column("teamfraglimit")
  <2>1. \A k \in ByteKeys : Column(k) = 0 .. 255
    BY Kinds DEF Column
  <2>2. QED
    BY <2>1, Kinds DEF IsKeys
<1>4. \A k \in Key : new[k] \in Column(k)
  BY <1>2, <1>3 DEF IsKeys
<1>5. QED
  BY <1>1, <1>2, <1>4 DEF IsKeys

LEMMA BeatIs ==
  ASSUME NEW next \in {"insert", "update"}, NEW a \in Address, NEW n \in Datagram(a), NEW row,
         IsRow(row)
  PROVE  /\ IsBeat(Beating(next, a, n, row)) /\ Beating(next, a, n, row) # Idle
         /\ Beating(next, a, n, row).next = next /\ Beating(next, a, n, row).addr = a
         /\ Beating(next, a, n, row).n = n /\ Beating(next, a, n, row).row = row
<1>1. /\ Beating(next, a, n, row).next = next /\ Beating(next, a, n, row).addr = a
      /\ Beating(next, a, n, row).n = n /\ Beating(next, a, n, row).row = row
  BY DEF Beating
<1>2. Idle.next = "none"
  BY DEF Idle
<1>3. QED
  BY <1>1, <1>2 DEF IsBeat

LEMMA RowIs ==
  ASSUME NEW keys, NEW v \in BOOLEAN, IsKeys(keys)
  PROVE  /\ IsRow([keys |-> keys, verified |-> v])
         /\ [keys |-> keys, verified |-> v].keys = keys
         /\ [keys |-> keys, verified |-> v].verified = v
  BY DEF IsRow

LEMMA RowKeys ==
  ASSUME NEW r, NEW keys, IsRow(r), IsKeys(keys)
  PROVE  /\ IsRow([r EXCEPT !.keys = keys]) /\ [r EXCEPT !.keys = keys].keys = keys
         /\ [r EXCEPT !.keys = keys].verified = r.verified
  BY DEF IsRow

LEMMA RowVerified ==
  ASSUME NEW r, NEW v \in BOOLEAN, IsRow(r)
  PROVE  /\ IsRow([r EXCEPT !.verified = v]) /\ [r EXCEPT !.verified = v].keys = r.keys
         /\ [r EXCEPT !.verified = v].verified = v
  BY DEF IsRow

-----------------------------------------------------------------------------
(***************************************************************************)
(* Writing a heartbeat.                                                    *)
(***************************************************************************)
\* Every row but a's stays; a's gets the merged keys and keeps its verification,
\* which a new row has not.
RowWritten(a) ==
  /\ Listed' = Listed \union {a}
  /\ \A b \in Listed' : IsRow(servers'[b])
  /\ \A b \in Listed : servers'[b].verified = servers[b].verified
                        /\ (b # a => servers'[b] = servers[b])
  /\ servers'[a].keys = qr.row.keys
  /\ a \notin Listed => ~ servers'[a].verified

LEMMA BeatParts ==
  ASSUME Beats, qr # Idle
  PROVE  /\ qr.addr \in Address /\ qr.n \in Datagram(qr.addr) /\ IsRow(qr.row)
         /\ qr.next \in {"insert", "update"} /\ IsKeys(qr.row.keys)
  BY DEF Beats, IsBeat, IsRow

LEMMA Inserted ==
  ASSUME TypeOK, Beats, qr # Idle, qr.addr \notin Listed,
         servers' = insertGameServer(qr.addr, qr.row.keys)
  PROVE  RowWritten(qr.addr)
<1> DEFINE a == qr.addr
           new == NewRow(qr.row.keys)
<1>1. IsRow(new) /\ new.keys = qr.row.keys /\ new.verified = FALSE
  BY BeatParts, RowIs DEF NewRow
<1> HIDE DEF new
<1>2. servers' = [b \in Listed \union {a} |-> IF b = a THEN new ELSE servers[b]]
  BY DEF insertGameServer, new
<1>3. Listed' = Listed \union {a}
  BY <1>2 DEF Listed
<1>4. \A b \in Listed \union {a} : servers'[b] = IF b = a THEN new ELSE servers[b]
  BY <1>2
<1>5. QED
  BY <1>1, <1>3, <1>4 DEF RowWritten, TypeOK

LEMMA Refused ==
  ASSUME qr.addr \in Listed, servers' = insertGameServer(qr.addr, qr.row.keys)
  PROVE  Listed' = Listed /\ \A b \in Listed : servers'[b] = servers[b]
  BY DEF insertGameServer, Listed

LEMMA Updated ==
  ASSUME TypeOK, Beats, qr # Idle, qr.next = "update",
         servers' = updateGameServer(qr.addr, qr.row)
  PROVE  RowWritten(qr.addr)
<1> DEFINE a == qr.addr
           new == [servers[a] EXCEPT !.keys = qr.row.keys]
<1>1. a \in Listed /\ IsRow(servers[a])
  BY DEF Beats, TypeOK
<1>2. IsRow(new) /\ new.keys = qr.row.keys /\ new.verified = servers[a].verified
  BY <1>1, BeatParts, RowKeys
<1>3. servers' = [servers EXCEPT ![a] = new]
  BY DEF updateGameServer
<1> HIDE DEF new
<1>4. Listed' = Listed
  BY <1>3 DEF Listed
<1>5. \A b \in Listed : servers'[b] = IF b = a THEN new ELSE servers[b]
  BY <1>3 DEF Listed
<1>6. QED
  BY <1>1, <1>2, <1>4, <1>5 DEF RowWritten, TypeOK

\* What the columns of the merged row hold.
LEMMA MergedRow ==
  ASSUME TypeOK, Beats, qr # Idle, NEW k \in Key, k # "teamfraglimit",
         qr.next = "insert" => qr.addr \notin Listed
  PROVE  /\ Carries(qr.addr, qr.n, k) => qr.row.keys[k] = Reported(qr.addr, qr.n, k)
         /\ ~ Carries(qr.addr, qr.n, k) =>
              qr.row.keys[k] =
                IF k \in ClanKeys \/ qr.addr \notin Listed THEN Default[k]
                ELSE servers[qr.addr].keys[k]
<1>1. qr.addr \in Address /\ qr.n \in Datagram(qr.addr) /\ qr.next \in {"insert", "update"}
  BY BeatParts
<1>2. CASE qr.next = "insert"
  <2>1. qr.row.keys = Merge(Default, Say[qr.addr][qr.n]) /\ IsKeys(Default)
    BY <1>2, GameServersAssumption DEF Beats
  <2>2. QED
    BY <1>1, <1>2, <2>1, MergedKeys
<1>3. CASE qr.next = "update"
  <2> DEFINE old == servers[qr.addr].keys
  <2>1. /\ qr.addr \in Listed /\ IsKeys(old)
        /\ qr.row.keys = Merge(Load(old), Say[qr.addr][qr.n])
    BY <1>3 DEF Beats, TypeOK, IsRow
  <2>2. IsKeys(Load(old)) /\ Load(old)[k] = old[k]
    BY <2>1, LoadedKeys
  <2>3. QED
    BY <1>1, <2>1, <2>2, MergedKeys
<1>4. QED
  BY <1>1, <1>2, <1>3

LEMMA HistoryWritten ==
  ASSUME TypeOK, Beats, Histories, ClansOfLatest, ColumnsKeepTheLatest, qr # Idle,
         RowWritten(qr.addr), Remembered(qr.addr, qr.n),
         qr.next = "insert" => qr.addr \notin Listed
  PROVE  /\ stored' \in [Address -> Nat] /\ carried' \in [Address -> [Key -> Nat]]
         /\ Histories' /\ ClansOfLatest' /\ ColumnsKeepTheLatest'
<1> DEFINE a == qr.addr
           n == qr.n
<1>1. a \in Address /\ n \in Datagram(a) /\ n \in Nat /\ n > 0
  BY BeatParts, DatagramIs
<1>2. stored \in [Address -> Nat] /\ carried \in [Address -> [Key -> Nat]]
  BY DEF TypeOK
<1>3. stored' \in [Address -> Nat] /\ stored'[a] = n
      /\ \A b \in Address \ {a} : stored'[b] = stored[b]
  BY <1>1, <1>2 DEF Remembered
<1> DEFINE new == [k \in Key |-> IF k \in DOMAIN Say[a][n] /\ Readable(k, Say[a][n][k]) THEN n
                                 ELSE carried[a][k]]
<1>4. new \in [Key -> Nat] /\ \A k \in Key : new[k] = IF Carries(a, n, k) THEN n ELSE carried[a][k]
  BY <1>1, <1>2 DEF Carries
<1>5. carried' = [carried EXCEPT ![a] = new]
  BY DEF Remembered
<1> HIDE DEF new
<1>6. carried' \in [Address -> [Key -> Nat]] /\ carried'[a] = new
      /\ \A b \in Address \ {a} : carried'[b] = carried[b]
  BY <1>1, <1>2, <1>4, <1>5
<1>7. Histories'
  <2>1. SUFFICES ASSUME NEW b \in Address
                 PROVE  /\ b \in Listed' =>
                             /\ stored'[b] \in Datagram(b)
                             /\ \A k \in Key : Carries(b, stored'[b], k) => carried'[b][k] = stored'[b]
                        /\ b \notin Listed' => \A k \in Key : carried'[b][k] = 0
    BY DEF Histories, Carries
  <2>2. CASE b = a
    BY <1>1, <1>3, <1>4, <1>6, <2>2 DEF RowWritten
  <2>3. CASE b # a
    BY <1>3, <1>6, <2>3 DEF RowWritten, Histories
  <2>4. QED
    BY <2>2, <2>3
<1>8. ClansOfLatest'
  <2>1. SUFFICES ASSUME NEW b \in Listed', NEW k \in ClanKeys \intersect Key
                 PROVE  servers'[b].keys[k] =
                          IF Carries(b, stored'[b], k) THEN Reported(b, stored'[b], k) ELSE Default[k]
    BY DEF ClansOfLatest, Carries, Reported
  <2>2. CASE b = a
    <3>1. k # "teamfraglimit"
      BY Kinds
    <3>2. QED
      BY <1>3, <2>2, <3>1, MergedRow DEF RowWritten
  <2>3. CASE b # a
    <3>1. b \in Listed /\ b \in Address /\ servers'[b] = servers[b] /\ stored'[b] = stored[b]
      BY <1>3, <2>3 DEF RowWritten, TypeOK
    <3>2. QED
      BY <3>1 DEF ClansOfLatest, Carries
  <2>4. QED
    BY <2>2, <2>3
<1>9. ColumnsKeepTheLatest'
  <2>1. SUFFICES ASSUME NEW b \in Listed', NEW k \in Key \ (ClanKeys \union {"teamfraglimit"})
                 PROVE  servers'[b].keys[k] =
                          IF carried'[b][k] > 0 THEN Reported(b, carried'[b][k], k) ELSE Default[k]
    BY DEF ColumnsKeepTheLatest, Reported
  <2>2. CASE b = a
    <3>1. servers'[a].keys = qr.row.keys
      BY DEF RowWritten
    <3>2. CASE Carries(a, n, k)
      BY <1>1, <1>4, <1>6, <2>2, <3>1, <3>2, MergedRow
    <3>3. CASE ~ Carries(a, n, k)
      <4>1. carried'[a][k] = carried[a][k]
        BY <1>4, <1>6, <3>3
      <4>2. CASE a \in Listed
        <5>1. qr.row.keys[k] = servers[a].keys[k]
          BY <3>3, <4>2, MergedRow
        <5>2. QED
          BY <2>2, <3>1, <4>1, <4>2, <5>1 DEF ColumnsKeepTheLatest
      <4>3. CASE a \notin Listed
        <5>1. qr.row.keys[k] = Default[k] /\ carried[a][k] = 0
          BY <1>1, <3>3, <4>3, MergedRow DEF Histories
        <5>2. QED
          BY <2>2, <3>1, <4>1, <5>1
      <4>4. QED
        BY <4>2, <4>3
    <3>4. QED
      BY <3>2, <3>3
  <2>3. CASE b # a
    <3>1. b \in Listed /\ b \in Address /\ servers'[b] = servers[b] /\ carried'[b] = carried[b]
      BY <1>6, <2>3 DEF RowWritten, TypeOK
    <3>2. QED
      BY <3>1 DEF ColumnsKeepTheLatest
  <2>4. QED
    BY <2>2, <2>3
<1>10. QED
  BY <1>3, <1>6, <1>7, <1>8, <1>9

-----------------------------------------------------------------------------
(***************************************************************************)
(* Steps of one party leave the others' part of IInv alone.                *)
(***************************************************************************)
LEMMA WebFields ==
  ASSUME NEW rows, NEW left, NEW shown
  PROVE  /\ Showing(rows, left, shown) # Idle
         /\ Showing(rows, left, shown).rows = rows /\ Showing(rows, left, shown).left = left
         /\ Showing(rows, left, shown).shown = shown
<1>1. Showing(rows, left, shown).next = "players" /\ Idle.next = "none"
  BY DEF Showing, Idle
<1>2. QED
  BY <1>1 DEF Showing

LEMMA BrowserSteps ==
  ASSUME IInv, UNCHANGED <<tables, qr, web, history, moved>>,
         asked' \in Seq(Request), inbox' \in Seq(0 .. 255), listens' \in BOOLEAN, cut' \in BOOLEAN
  PROVE  IInv'
<1>1. UNCHANGED <<servers, players, stored, carried, noted>>
  BY DEF tables, history
<1>2. TypeOK'
  BY <1>1 DEF IInv, TypeOK, Listed, IsShow
<1>3. Beats' /\ Histories'
  BY <1>1 DEF IInv, Beats, Histories, Listed
<1>4. ClansOfLatest' /\ ColumnsKeepTheLatest' /\ PlayersOfLatest' /\ LiveAnswerWhole'
  BY <1>1 DEF IInv, ClansOfLatest, ColumnsKeepTheLatest, PlayersOfLatest, LiveAnswerWhole, Listed
<1>5. QED
  BY <1>2, <1>3, <1>4 DEF IInv

LEMMA WebSteps ==
  ASSUME IInv, UNCHANGED <<tables, qr, history>>, UNCHANGED browser,
         web' = Idle \/ IsShow(web'), DOMAIN web'.rows \subseteq Listed \/ web' = Idle,
         moved' \subseteq Address, LiveAnswerWhole'
  PROVE  IInv'
<1>1. UNCHANGED <<servers, players, stored, carried, noted>>
  BY DEF tables, history
<1>2. TypeOK'
  BY <1>1 DEF IInv, TypeOK, Listed, IsShow, browser
<1>3. Beats' /\ Histories'
  BY <1>1 DEF IInv, Beats, Histories, Listed
<1>4. ClansOfLatest' /\ ColumnsKeepTheLatest' /\ PlayersOfLatest'
  BY <1>1 DEF IInv, ClansOfLatest, ColumnsKeepTheLatest, PlayersOfLatest, Listed
<1>5. QED
  BY <1>2, <1>3, <1>4 DEF IInv

LEMMA BeatSteps ==
  ASSUME IInv, UNCHANGED <<tables, web, history, moved>>, UNCHANGED browser,
         qr' = Idle \/ IsBeat(qr'), Beats'
  PROVE  IInv'
<1>1. UNCHANGED <<servers, players, stored, carried, noted>>
  BY DEF tables, history
<1>2. TypeOK'
  BY <1>1 DEF IInv, TypeOK, Listed, IsShow, browser
<1>3. Histories'
  BY <1>1 DEF IInv, Histories, Listed
<1>4. ClansOfLatest' /\ ColumnsKeepTheLatest' /\ PlayersOfLatest' /\ LiveAnswerWhole'
  BY <1>1 DEF IInv, ClansOfLatest, ColumnsKeepTheLatest, PlayersOfLatest, LiveAnswerWhole, Listed
<1>5. QED
  BY <1>2, <1>3, <1>4 DEF IInv

LEMMA WriteSteps ==
  ASSUME IInv, qr # Idle, RowWritten(qr.addr), Remembered(qr.addr, qr.n),
         qr.next = "insert" => qr.addr \notin Listed,
         qr' = Idle, UNCHANGED web, UNCHANGED browser,
         players' \in [Address -> SUBSET Name],
         \A b \in Address \ {qr.addr} : players'[b] = players[b],
         \/ /\ noted' = noted \ {qr.addr}
            /\ players'[qr.addr] = Playing[qr.addr][qr.n]
         \/ noted' = noted \union {qr.addr}
  PROVE  IInv'
<1> DEFINE a == qr.addr
           n == qr.n
<1>1. TypeOK /\ Beats /\ Histories
  BY DEF IInv
<1>2. a \in Address /\ n \in Datagram(a)
  BY <1>1, BeatParts
<1>3. /\ stored' \in [Address -> Nat] /\ carried' \in [Address -> [Key -> Nat]]
      /\ Histories' /\ ClansOfLatest' /\ ColumnsKeepTheLatest'
  BY HistoryWritten DEF IInv
<1>4. /\ stored'[a] = n /\ \A b \in Address \ {a} : stored'[b] = stored[b]
      /\ moved' = IF web = Idle THEN moved ELSE moved \union {a}
  BY <1>1, <1>2 DEF Remembered, TypeOK
<1>5. Listed' = Listed \union {a}
  BY DEF RowWritten
<1>6. TypeOK'
  <2>1. Listed' \subseteq Address /\ \A b \in Listed' : IsRow(servers'[b])
    BY <1>1, <1>2, <1>5 DEF RowWritten, TypeOK
  <2>2. web' = Idle \/ IsShow(web)'
    BY <1>1, <1>5 DEF TypeOK, IsShow
  <2>3. noted' \subseteq Listed' /\ moved' \subseteq Address
    BY <1>1, <1>2, <1>4, <1>5 DEF TypeOK
  <2>4. QED
    BY <1>1, <1>3, <2>1, <2>2, <2>3 DEF TypeOK, browser
<1>7. Beats'
  BY DEF Beats
<1>8. PlayersOfLatest'
  <2>1. SUFFICES ASSUME NEW b \in Address \ noted'
                 PROVE  players'[b] = IF b \in Listed' THEN Playing[b][stored'[b]] ELSE {}
    BY DEF PlayersOfLatest
  <2>2. CASE b = a
    BY <1>4, <1>5, <2>1, <2>2
  <2>3. CASE b # a
    BY <1>4, <1>5, <2>1, <2>3 DEF IInv, PlayersOfLatest
  <2>4. QED
    BY <2>2, <2>3
<1>9. LiveAnswerWhole'
  <2>1. SUFFICES ASSUME web # Idle, NEW b \in DOMAIN web.rows \ moved'
                 PROVE  /\ web.rows[b].keys = servers'[b].keys
                        /\ b \notin web.left => web.shown[b] = players'[b]
    BY DEF LiveAnswerWhole
  <2>2. b # a /\ b \in DOMAIN web.rows \ moved
    BY <1>4, <2>1
  <2>3. b \in Listed /\ b \in Address
    BY <1>1, <2>1 DEF TypeOK, IsShow
  <2>4. servers'[b] = servers[b] /\ players'[b] = players[b]
    BY <2>2, <2>3 DEF RowWritten
  <2>5. QED
    BY <2>1, <2>2, <2>4 DEF IInv, LiveAnswerWhole
<1>10. QED
  BY <1>3, <1>6, <1>7, <1>8, <1>9 DEF IInv

-----------------------------------------------------------------------------
(***************************************************************************)
(* One lemma per action.                                                   *)
(***************************************************************************)
LEMMA StepHeartbeat ==
  ASSUME IInv, NEW a \in Address, NEW n \in Datagram(a), Heartbeat(a, n) \/ HeartbeatUnknown(a, n)
  PROVE  IInv'
<1>1. UNCHANGED <<tables, web, history, moved>> /\ UNCHANGED browser
  BY DEF Heartbeat, HeartbeatUnknown
<1>2. servers' = servers /\ TypeOK
  BY <1>1 DEF tables, IInv
<1> DEFINE fresh == NewRow(Merge(Default, Say[a][n]))
<1>3. IsRow(fresh) /\ fresh.keys = Merge(Default, Say[a][n])
  BY MergedKeys, RowIs, GameServersAssumption DEF NewRow
<1>4. CASE qr' = Beating("insert", a, n, fresh)
  <2> HIDE DEF fresh
  <2>1. /\ IsBeat(qr') /\ qr'.next = "insert" /\ qr'.addr = a /\ qr'.n = n /\ qr'.row = fresh
    BY <1>3, <1>4, BeatIs
  <2>2. IsBeat(qr)' /\ Beats'
    BY <1>3, <2>1 DEF Beats, IsBeat
  <2>3. QED
    BY <1>1, <2>1, <2>2, BeatSteps
<1>5. CASE /\ a \in Listed
           /\ qr' = Beating("update", a, n, [keys |-> Merge(Load(servers[a].keys), Say[a][n]),
                                             verified |-> servers[a].verified])
  <2> DEFINE row == [keys |-> Merge(Load(servers[a].keys), Say[a][n]),
                     verified |-> servers[a].verified]
  <2>1. IsKeys(servers[a].keys) /\ servers[a].verified \in BOOLEAN
    BY <1>2, <1>5 DEF TypeOK, IsRow
  <2>2. IsRow(row) /\ row.keys = Merge(Load(servers[a].keys), Say[a][n])
    BY <2>1, LoadedKeys, MergedKeys, RowIs
  <2> HIDE DEF row
  <2>3. qr' = Beating("update", a, n, row)
    BY <1>5 DEF row
  <2>4. /\ IsBeat(qr') /\ qr'.next = "update" /\ qr'.addr = a /\ qr'.n = n /\ qr'.row = row
    BY <2>2, <2>3, BeatIs
  <2>5. IsBeat(qr)' /\ Beats'
    BY <1>2, <1>5, <2>2, <2>4 DEF Beats, IsBeat, Listed
  <2>6. QED
    BY <1>1, <2>4, <2>5, BeatSteps
<1>6. QED
  BY <1>4, <1>5 DEF Heartbeat, HeartbeatUnknown

LEMMA ReplacedPlayers ==
  ASSUME TypeOK, NEW a \in Address, NEW S \in SUBSET Name
  PROVE  /\ [players EXCEPT ![a] = S] \in [Address -> SUBSET Name]
         /\ [players EXCEPT ![a] = S][a] = S
         /\ \A b \in Address \ {a} : [players EXCEPT ![a] = S][b] = players[b]
  BY DEF TypeOK

LEMMA StepInsertServer ==
  ASSUME IInv, InsertServer
  PROVE  IInv'
<1>1. TypeOK /\ Beats
  BY DEF IInv
<1>2. qr # Idle /\ qr.next = "insert" /\ qr' = Idle
      /\ UNCHANGED web /\ UNCHANGED browser /\ noted' = noted
      /\ servers' = insertGameServer(qr.addr, qr.row.keys)
  BY DEF InsertServer, Idle
<1>3. qr.addr \in Address /\ qr.n \in Datagram(qr.addr)
  BY <1>1, <1>2, BeatParts
<1>4. CASE qr.addr \notin Listed
  <2>1. /\ players' = [players EXCEPT ![qr.addr] = Playing[qr.addr][qr.n]]
        /\ Remembered(qr.addr, qr.n)
    BY <1>4 DEF InsertServer, replacePlayers
  <2>2. RowWritten(qr.addr)
    BY <1>1, <1>2, <1>4, Inserted
  <2>3. noted' = noted \ {qr.addr}
    BY <1>1, <1>2, <1>4 DEF TypeOK
  <2>4. /\ players' \in [Address -> SUBSET Name]
        /\ players'[qr.addr] = Playing[qr.addr][qr.n]
        /\ \A b \in Address \ {qr.addr} : players'[b] = players[b]
    BY <1>1, <1>3, <2>1, DatagramIs, ReplacedPlayers
  <2>5. QED
    BY <1>2, <1>4, <2>1, <2>2, <2>3, <2>4, WriteSteps
<1>5. CASE qr.addr \in Listed
  <2>1. UNCHANGED <<players, stored, carried, moved>>
    BY <1>5 DEF InsertServer
  <2>2. Listed' = Listed /\ \A b \in Listed : servers'[b] = servers[b]
    BY <1>2, <1>5, Refused
  <2>3. TypeOK'
    BY <1>1, <1>2, <2>1, <2>2 DEF TypeOK, IsShow, browser
  <2>4. Beats'
    BY <1>2 DEF Beats
  <2>5. Histories'
    BY <2>1, <2>2 DEF IInv, Histories
  <2>6. ClansOfLatest' /\ ColumnsKeepTheLatest' /\ PlayersOfLatest'
    BY <1>2, <2>1, <2>2 DEF IInv, ClansOfLatest, ColumnsKeepTheLatest, PlayersOfLatest
  <2>7. LiveAnswerWhole'
    BY <1>1, <1>2, <2>1, <2>2 DEF IInv, LiveAnswerWhole, TypeOK, IsShow
  <2>8. QED
    BY <2>3, <2>4, <2>5, <2>6, <2>7 DEF IInv
<1>6. QED
  BY <1>4, <1>5

LEMMA StepUpdateServer ==
  ASSUME IInv, UpdateServer
  PROVE  IInv'
<1>1. TypeOK /\ Beats
  BY DEF IInv
<1>2. /\ qr # Idle /\ qr.next = "update" /\ qr' = Idle
      /\ UNCHANGED web /\ UNCHANGED browser /\ noted' = noted \ {qr.addr}
      /\ servers' = updateGameServer(qr.addr, qr.row)
      /\ players' = [players EXCEPT ![qr.addr] = Playing[qr.addr][qr.n]]
      /\ Remembered(qr.addr, qr.n)
  BY DEF UpdateServer, Idle, replacePlayers
<1>3. qr.addr \in Address /\ qr.n \in Datagram(qr.addr)
  BY <1>1, <1>2, BeatParts
<1>4. RowWritten(qr.addr)
  BY <1>1, <1>2, Updated
<1>5. /\ players' \in [Address -> SUBSET Name]
      /\ players'[qr.addr] = Playing[qr.addr][qr.n]
      /\ \A b \in Address \ {qr.addr} : players'[b] = players[b]
  BY <1>1, <1>2, <1>3, DatagramIs, ReplacedPlayers
<1>6. QED
  BY <1>2, <1>4, <1>5, WriteSteps

LEMMA StepWritePlayersFails ==
  ASSUME IInv, WritePlayersFails
  PROVE  IInv'
<1>1. TypeOK /\ Beats
  BY DEF IInv
<1>2. /\ qr # Idle /\ qr' = Idle /\ (qr.next = "insert" => qr.addr \notin Listed)
      /\ UNCHANGED web /\ UNCHANGED browser /\ noted' = noted \union {qr.addr}
      /\ servers' = IF qr.next = "insert" THEN insertGameServer(qr.addr, qr.row.keys)
                    ELSE updateGameServer(qr.addr, qr.row)
      /\ Remembered(qr.addr, qr.n)
  BY DEF WritePlayersFails
<1>3. qr.addr \in Address /\ qr.n \in Datagram(qr.addr) /\ qr.next \in {"insert", "update"}
  BY <1>1, <1>2, BeatParts
<1>4. RowWritten(qr.addr)
  BY <1>1, <1>2, <1>3, Inserted, Updated
<1>5. PICK kept \in {{}, players[qr.addr]}, S \in SUBSET Playing[qr.addr][qr.n] :
        players' = [players EXCEPT ![qr.addr] = kept \union S]
  BY DEF WritePlayersFails
<1>6. kept \union S \in SUBSET Name
  BY <1>1, <1>3, DatagramIs DEF TypeOK
<1>7. /\ players' \in [Address -> SUBSET Name]
      /\ \A b \in Address \ {qr.addr} : players'[b] = players[b]
  BY <1>1, <1>3, <1>5, <1>6, ReplacedPlayers
<1>8. QED
  BY <1>2, <1>4, <1>7, WriteSteps

LEMMA StepWriteServerFails ==
  ASSUME IInv, WriteServerFails
  PROVE  IInv'
<1>1. UNCHANGED <<tables, web, history, moved>> /\ UNCHANGED browser /\ qr' = Idle
  BY DEF WriteServerFails
<1>2. Beats'
  BY <1>1 DEF Beats
<1>3. QED
  BY <1>1, <1>2, BeatSteps

\* A verification changes no key of any row.
LEMMA Verified ==
  ASSUME IInv, Verify
  PROVE  /\ UNCHANGED <<players, qr, web, stored, carried, noted, moved>> /\ UNCHANGED browser
         /\ Listed' = Listed
         /\ \A b \in Listed : IsRow(servers'[b]) /\ servers'[b].keys = servers[b].keys
                               /\ (servers[b].verified => servers'[b].verified)
<1>1. PICK a \in Listed : servers' = [servers EXCEPT ![a].verified = TRUE]
  BY DEF Verify
<1> DEFINE new == [servers[a] EXCEPT !.verified = TRUE]
<1>2. \A b \in Listed : IsRow(servers[b])
  BY DEF IInv, TypeOK
<1>3. IsRow(new) /\ new.keys = servers[a].keys /\ new.verified = TRUE
  <2>1. TRUE \in BOOLEAN /\ IsRow(servers[a])
    BY <1>2
  <2>2. QED
    BY <2>1, RowVerified
<1>4. servers' = [servers EXCEPT ![a] = new]
  BY <1>1
<1> HIDE DEF new
<1>5. Listed' = Listed /\ \A b \in Listed : servers'[b] = IF b = a THEN new ELSE servers[b]
  BY <1>4 DEF Listed
<1>6. UNCHANGED <<players, qr, web, stored, carried, noted, moved>> /\ UNCHANGED browser
  BY DEF Verify, history
<1>7. QED
  BY <1>2, <1>3, <1>5, <1>6

LEMMA StepVerify ==
  ASSUME IInv, Verify
  PROVE  IInv'
<1>1. /\ UNCHANGED <<players, qr, web, stored, carried, noted, moved>> /\ UNCHANGED browser
      /\ Listed' = Listed
      /\ \A b \in Listed : IsRow(servers'[b]) /\ servers'[b].keys = servers[b].keys
  BY Verified
<1>2. TypeOK'
  <2>1. web' = Idle \/ IsShow(web)'
    BY <1>1 DEF IInv, TypeOK, IsShow
  <2>2. qr' = Idle \/ IsBeat(qr)'
    BY <1>1 DEF IInv, TypeOK, IsBeat
  <2>3. Listed' \subseteq Address /\ \A b \in Listed' : IsRow(servers'[b])
    BY <1>1 DEF IInv, TypeOK
  <2>4. QED
    BY <1>1, <2>1, <2>2, <2>3 DEF IInv, TypeOK, browser
<1>3. Beats'
  <2>1. qr' = qr /\ Listed' = Listed
    BY <1>1
  <2>2. qr # Idle /\ qr.next = "update" => servers'[qr.addr].keys = servers[qr.addr].keys
    BY <1>1 DEF IInv, Beats
  <2>3. QED
    BY <2>1, <2>2 DEF IInv, Beats, IsBeat
<1>4. Histories'
  BY <1>1 DEF IInv, Histories
<1>5. ClansOfLatest'
  BY <1>1 DEF IInv, ClansOfLatest
<1>6. ColumnsKeepTheLatest'
  BY <1>1 DEF IInv, ColumnsKeepTheLatest
<1>7. PlayersOfLatest'
  BY <1>1 DEF IInv, PlayersOfLatest
<1>8. LiveAnswerWhole'
  <2>1. web # Idle => DOMAIN web.rows \subseteq Listed
    BY DEF IInv, TypeOK, IsShow
  <2>2. QED
    BY <1>1, <2>1 DEF IInv, LiveAnswerWhole
<1>9. QED
  BY <1>2, <1>3, <1>4, <1>5, <1>6, <1>7, <1>8 DEF IInv

LEMMA StepServersLive ==
  ASSUME IInv, ServersLive
  PROVE  IInv'
<1> DEFINE none == [a \in Address |-> {}]
<1>1. /\ UNCHANGED <<tables, qr, history>> /\ UNCHANGED browser /\ moved' = moved
      /\ web' = Showing(servers, Listed, none)
  BY DEF ServersLive
<1>2. none \in [Address -> SUBSET Name]
  OBVIOUS
<1> HIDE DEF none
<1>3. web' # Idle /\ web'.rows = servers /\ web'.left = Listed /\ web'.shown = none
  BY <1>1, WebFields
<1>4. TypeOK /\ servers' = servers
  BY <1>1 DEF IInv, tables
<1>5. IsShow(web')
  BY <1>1, <1>2, <1>3, <1>4 DEF IsShow, TypeOK, Listed
<1>6. LiveAnswerWhole'
  BY <1>3, <1>4 DEF LiveAnswerWhole, Listed
<1>7. QED
  BY <1>1, <1>3, <1>4, <1>5, <1>6, WebSteps DEF TypeOK, Listed

\* A query of players takes its server off what is left.
LEMMA Gathered ==
  ASSUME TypeOK, web # Idle, NEW a \in web.left, NEW shown \in [Address -> SUBSET Name],
         web' = Showing(web.rows, web.left \ {a}, shown)
  PROVE  /\ web' # Idle /\ web'.rows = web.rows /\ web'.left = web.left \ {a}
         /\ web'.shown = shown /\ IsShow(web')
<1>1. IsShow(web)
  BY DEF TypeOK
<1>2. /\ web' # Idle /\ web'.rows = web.rows /\ web'.left = web.left \ {a} /\ web'.shown = shown
  BY WebFields
<1>3. QED
  BY <1>1, <1>2 DEF IsShow

LEMMA StepServerPlayers ==
  ASSUME IInv, NEW a \in Address, ServerPlayers(a)
  PROVE  IInv'
<1> DEFINE shown == [web.shown EXCEPT ![a] = players[a]]
<1>1. /\ UNCHANGED <<tables, qr, history>> /\ UNCHANGED browser /\ moved' = moved
      /\ web # Idle /\ a \in web.left
      /\ web' = Showing(web.rows, web.left \ {a}, shown)
  BY DEF ServerPlayers
<1>2. TypeOK /\ servers' = servers /\ players' = players
  BY <1>1 DEF IInv, tables
<1>3. web.shown \in [Address -> SUBSET Name] /\ DOMAIN web.rows \subseteq Listed
  BY <1>1, <1>2 DEF TypeOK, IsShow
<1>4. /\ shown \in [Address -> SUBSET Name] /\ shown[a] = players[a]
      /\ \A b \in Address \ {a} : shown[b] = web.shown[b]
  BY <1>2, <1>3 DEF TypeOK
<1> HIDE DEF shown
<1>5. /\ web' # Idle /\ web'.rows = web.rows /\ web'.left = web.left \ {a}
      /\ web'.shown = shown /\ IsShow(web')
  BY <1>1, <1>2, <1>4, Gathered
<1>6. LiveAnswerWhole'
  <2>1. SUFFICES ASSUME NEW b \in DOMAIN web.rows \ moved
                 PROVE  /\ web.rows[b].keys = servers[b].keys
                        /\ b \notin web.left \ {a} => shown[b] = players[b]
    BY <1>1, <1>2, <1>5 DEF LiveAnswerWhole
  <2>2. b \in Address
    BY <1>2, <1>3 DEF TypeOK
  <2>3. QED
    BY <1>1, <1>4, <2>2 DEF IInv, LiveAnswerWhole
<1>7. QED
  BY <1>1, <1>2, <1>3, <1>5, <1>6, WebSteps DEF TypeOK

LEMMA StepServerPlayersFails ==
  ASSUME IInv, NEW a \in Address, ServerPlayersFails(a)
  PROVE  IInv'
<1>1. /\ UNCHANGED <<tables, qr, history>> /\ UNCHANGED browser /\ moved' = moved \union {a}
      /\ web # Idle /\ a \in web.left
      /\ web' = Showing(web.rows, web.left \ {a}, web.shown)
  BY DEF ServerPlayersFails
<1>2. TypeOK /\ servers' = servers /\ players' = players
  BY <1>1 DEF IInv, tables
<1>3. web.shown \in [Address -> SUBSET Name] /\ DOMAIN web.rows \subseteq Listed
  BY <1>1, <1>2 DEF TypeOK, IsShow
<1>4. /\ web' # Idle /\ web'.rows = web.rows /\ web'.left = web.left \ {a}
      /\ web'.shown = web.shown /\ IsShow(web')
  BY <1>1, <1>2, <1>3, Gathered
<1>5. LiveAnswerWhole'
  BY <1>1, <1>2, <1>4 DEF IInv, LiveAnswerWhole
<1>6. QED
  BY <1>1, <1>2, <1>3, <1>4, <1>5, WebSteps DEF TypeOK

LEMMA StepServersLiveSend ==
  ASSUME IInv, ServersLiveSend
  PROVE  IInv'
<1>1. UNCHANGED <<tables, qr, history>> /\ UNCHANGED browser /\ moved' = {} /\ web' = Idle
  BY DEF ServersLiveSend
<1>2. LiveAnswerWhole'
  BY <1>1 DEF LiveAnswerWhole
<1>3. QED
  BY <1>1, <1>2, WebSteps

LEMMA StepBrowser ==
  ASSUME IInv,
         (\E r \in Request : Ask(r)) \/ (\E n \in 1 .. Len(inbox) : ReadBuffer(n)) \/ ReadTimeOut
  PROVE  IInv'
<1>1. asked \in Seq(Request) /\ inbox \in Seq(0 .. 255) /\ listens \in BOOLEAN /\ cut \in BOOLEAN
  BY DEF IInv, TypeOK
<1>2. ASSUME NEW r \in Request, Ask(r)
      PROVE  IInv'
  <2>1. r \in Seq(0 .. 255)
    BY GameServersAssumption
  <2>2. asked' \in Seq(Request) /\ inbox' \in Seq(0 .. 255)
    BY <1>1, <1>2, <2>1, AppendProperties, ConcatProperties DEF Ask
  <2>3. QED
    BY <1>1, <1>2, <2>2, BrowserSteps DEF Ask
<1>3. ASSUME NEW n \in 1 .. Len(inbox), ReadBuffer(n)
      PROVE  IInv'
  <2>1. inbox' = SubSeq(inbox, n + 1, Len(inbox)) /\ Len(inbox) \in Nat
    BY <1>1, <1>3, LenProperties DEF ReadBuffer
  <2> DEFINE Bytes == 0 .. 255
  <2>2. inbox' \in Seq(Bytes)
    <3> HIDE DEF Bytes
    <3>1. inbox \in Seq(Bytes)
      BY <1>1 DEF Bytes
    <3>2. n + 1 \in Int /\ Len(inbox) \in Int /\ \A i \in n + 1 .. Len(inbox) : i \in 1 .. Len(inbox)
      BY <2>1
    <3>3. \A i \in n + 1 .. Len(inbox) : inbox[i] \in Bytes
      BY <3>1, <3>2, ElementOfSeq
    <3>4. QED
      BY <2>1, <3>2, <3>3, SubSeqProperties
  <2>3. listens' \in BOOLEAN
    BY <1>3, Zenon DEF ReadBuffer
  <2>4. cut' \in BOOLEAN
    BY <1>3, Zenon DEF ReadBuffer
  <2>5. asked' = asked /\ UNCHANGED <<tables, qr, web, history, moved>>
    BY <1>3, Zenon DEF ReadBuffer
  <2>6. QED
    BY <1>1, <2>2, <2>3, <2>4, <2>5, BrowserSteps
<1>4. CASE ReadTimeOut
  BY <1>1, <1>4, BrowserSteps DEF ReadTimeOut
<1>5. QED
  BY <1>2, <1>3, <1>4

LEMMA StepCrash ==
  ASSUME IInv, Crash
  PROVE  IInv'
<1>1. /\ UNCHANGED <<servers, players, stored, carried, noted>> /\ qr' = Idle /\ web' = Idle
      /\ asked' = <<>> /\ inbox' = <<>> /\ listens' = TRUE /\ cut' = FALSE /\ moved' = {}
  BY DEF Crash, tables, history
<1>2. asked' \in Seq(Request) /\ inbox' \in Seq(0 .. 255)
  BY <1>1
<1>3. TypeOK'
  BY <1>1, <1>2 DEF IInv, TypeOK, Listed
<1>4. Beats' /\ LiveAnswerWhole'
  BY <1>1 DEF Beats, LiveAnswerWhole
<1>5. Histories'
  BY <1>1 DEF IInv, Histories, Listed
<1>6. ClansOfLatest' /\ ColumnsKeepTheLatest' /\ PlayersOfLatest'
  BY <1>1 DEF IInv, ClansOfLatest, ColumnsKeepTheLatest, PlayersOfLatest, Listed
<1>7. QED
  BY <1>3, <1>4, <1>5, <1>6 DEF IInv

-----------------------------------------------------------------------------
(***************************************************************************)
(* The invariant.                                                          *)
(***************************************************************************)
LEMMA InitHolds == Init => IInv
<1> SUFFICES ASSUME Init
             PROVE  IInv
  OBVIOUS
<1>1. Listed = {}
  BY DEF Init, Listed
<1>2. TypeOK
  <2>1. players \in [Address -> SUBSET Name] /\ stored \in [Address -> Nat]
    BY DEF Init
  <2>2. [k \in Key |-> 0] \in [Key -> Nat]
    OBVIOUS
  <2>3. carried \in [Address -> [Key -> Nat]]
    BY <2>2 DEF Init
  <2>4. asked \in Seq(Request) /\ inbox \in Seq(0 .. 255)
    BY DEF Init
  <2>5. QED
    BY <1>1, <2>1, <2>3, <2>4 DEF Init, TypeOK
<1>3. Beats /\ LiveAnswerWhole
  BY DEF Init, Beats, LiveAnswerWhole
<1>4. Histories
  BY <1>1 DEF Init, Histories
<1>5. ClansOfLatest /\ ColumnsKeepTheLatest /\ PlayersOfLatest
  BY <1>1 DEF Init, ClansOfLatest, ColumnsKeepTheLatest, PlayersOfLatest
<1>6. QED
  BY <1>2, <1>3, <1>4, <1>5 DEF IInv

LEMMA NextKeeps ==
  ASSUME IInv, Next
  PROVE  IInv'
<1>1. ASSUME NEW a \in Address, NEW n \in Datagram(a), Heartbeat(a, n) \/ HeartbeatUnknown(a, n)
      PROVE  IInv'
  BY <1>1, StepHeartbeat
<1>2. ASSUME NEW a \in Address, ServerPlayers(a) \/ ServerPlayersFails(a)
      PROVE  IInv'
  BY <1>2, StepServerPlayers, StepServerPlayersFails
<1>3. ASSUME InsertServer \/ UpdateServer \/ WriteServerFails \/ WritePlayersFails
      PROVE  IInv'
  BY <1>3, StepInsertServer, StepUpdateServer, StepWriteServerFails, StepWritePlayersFails
<1>4. ASSUME Verify \/ ServersLive \/ ServersLiveSend \/ Crash
      PROVE  IInv'
  BY <1>4, StepVerify, StepServersLive, StepServersLiveSend, StepCrash
<1>5. QED
  BY <1>1, <1>2, <1>3, <1>4, StepBrowser DEF Next, Step, Failure

LEMMA StutterKeeps ==
  ASSUME IInv, UNCHANGED vars
  PROVE  IInv'
<1>1. UNCHANGED <<tables, qr, web, history, moved>> /\ UNCHANGED browser
  BY DEF vars
<1>2. asked \in Seq(Request) /\ inbox \in Seq(0 .. 255) /\ listens \in BOOLEAN /\ cut \in BOOLEAN
  BY DEF IInv, TypeOK
<1>3. QED
  BY <1>1, <1>2, BrowserSteps DEF browser

LEMMA Invariance == Spec => []IInv
<1>1. IInv /\ [Next]_vars => IInv'
  BY NextKeeps, StutterKeeps
<1>2. QED
  BY InitHolds, <1>1, PTL DEF Spec

\* The state of the program has its types, and every column a value of its width.
THEOREM ServerTypes == Spec => []TypeOK
<1>1. IInv => TypeOK
  BY DEF IInv
<1>2. QED
  BY Invariance, <1>1, PTL

\* requestHeartbeat: a row shows the clans of the last heartbeat written.
THEOREM ClansAreOfLatest == Spec => []ClansOfLatest
<1>1. IInv => ClansOfLatest
  BY DEF IInv
<1>2. QED
  BY Invariance, <1>1, PTL

\* requestHeartbeat: the other columns keep what was last written under their key.
THEOREM ColumnsKeep == Spec => []ColumnsKeepTheLatest
<1>1. IInv => ColumnsKeepTheLatest
  BY DEF IInv
<1>2. QED
  BY Invariance, <1>1, PTL

\* updateGameServer: the players of a server are those of the last heartbeat
\* written, where no failure has spoiled them.
THEOREM PlayersAreOfLatest == Spec => []PlayersOfLatest
<1>1. IInv => PlayersOfLatest
  BY DEF IInv
<1>2. QED
  BY Invariance, <1>1, PTL

\* requestAPIServersLive: an answer is whole for every server that no heartbeat
\* has been written for since its rows were read.
THEOREM LiveAnswersAreWhole == Spec => []LiveAnswerWhole
<1>1. IInv => LiveAnswerWhole
  BY DEF IInv
<1>2. QED
  BY Invariance, <1>1, PTL

-----------------------------------------------------------------------------
(***************************************************************************)
(* What a step may not do.                                                 *)
(***************************************************************************)
LEMMA TableSteps ==
  ASSUME IInv, [Next]_vars
  PROVE  \/ UNCHANGED <<servers, stored>>
         \/ Verify
         \/ /\ qr # Idle /\ RowWritten(qr.addr) /\ Remembered(qr.addr, qr.n)
            /\ qr.next = "insert" => qr.addr \notin Listed
         \/ Listed' = Listed /\ stored' = stored /\ \A b \in Listed : servers'[b] = servers[b]
<1>1. TypeOK /\ Beats
  BY DEF IInv
<1>2. CASE InsertServer
  <2>1. qr # Idle /\ servers' = insertGameServer(qr.addr, qr.row.keys)
    BY <1>2 DEF InsertServer, Idle
  <2>2. CASE qr.addr \in Listed
    BY <1>2, <2>1, <2>2, Refused DEF InsertServer
  <2>3. CASE qr.addr \notin Listed
    BY <1>1, <1>2, <2>1, <2>3, Inserted DEF InsertServer
  <2>4. QED
    BY <2>2, <2>3
<1>3. CASE UpdateServer
  <2>1. qr # Idle /\ qr.next = "update" /\ servers' = updateGameServer(qr.addr, qr.row)
    BY <1>3 DEF UpdateServer, Idle
  <2>2. QED
    BY <1>1, <1>3, <2>1, Updated DEF UpdateServer
<1>4. CASE WritePlayersFails
  <2>1. /\ qr # Idle /\ (qr.next = "insert" => qr.addr \notin Listed)
        /\ servers' = IF qr.next = "insert" THEN insertGameServer(qr.addr, qr.row.keys)
                      ELSE updateGameServer(qr.addr, qr.row)
        /\ Remembered(qr.addr, qr.n)
    BY <1>4 DEF WritePlayersFails
  <2>2. qr.next \in {"insert", "update"}
    BY <1>1, <2>1, BeatParts
  <2>3. QED
    BY <1>1, <2>1, <2>2, Inserted, Updated
<1>5. CASE Verify
  BY <1>5
<1>6. CASE UNCHANGED <<tables, history>>
  BY <1>6 DEF tables, history
<1>7. ASSUME ~ (InsertServer \/ UpdateServer \/ WritePlayersFails \/ Verify)
      PROVE  UNCHANGED <<tables, history>>
  BY <1>7 DEF Next, Step, Failure, Heartbeat, HeartbeatUnknown, ServerPlayers, ServerPlayersFails,
              ServersLive, ServersLiveSend, Ask, ReadBuffer, ReadTimeOut, Crash, WriteServerFails,
              vars
<1>8. QED
  BY <1>2, <1>3, <1>4, <1>5, <1>6, <1>7

\* updateGameServer leaves the column `verified' alone: a verification that comes
\* between the query and the write of a heartbeat is not undone.
THEOREM VerificationStays == Spec => VerifiedStays
<1>1. ASSUME IInv, [Next]_vars, NEW a \in Listed
      PROVE  a \in Listed' /\ (servers[a].verified => servers'[a].verified)
  <2>1. CASE UNCHANGED <<servers, stored>>
    BY <2>1 DEF Listed
  <2>2. CASE Verify
    BY <1>1, <2>2, Verified
  <2>3. CASE RowWritten(qr.addr)
    BY <2>3 DEF RowWritten
  <2>4. QED
    BY <1>1, <2>1, <2>2, <2>3, TableSteps
<1>2. IInv /\ [Next]_vars =>
        [\A a \in Listed :
          a \in Listed' /\ (servers[a].verified => servers'[a].verified)]_vars
  BY <1>1
<1>3. QED
  BY Invariance, <1>2, PTL DEF Spec, VerifiedStays

\* Verified rows come first, if there are any.
LEMMA FirstRows ==
  ASSUME NEW table, NEW i,
         NEW rows, rows = {table[a] : a \in {b \in DOMAIN table : IpOf[b] = i}},
         NEW first, first = {r \in rows : r.verified \/ \A q \in rows : ~ q.verified}
  PROVE  (first # {} /\ \A r \in first : r.verified) <=>
           \E a \in DOMAIN table : IpOf[a] = i /\ table[a].verified
<1>1. \A r : r \in rows <=> \E a \in DOMAIN table : IpOf[a] = i /\ r = table[a]
  OBVIOUS
<1>2. \A r : r \in first <=> r \in rows /\ (r.verified \/ \A q \in rows : ~ q.verified)
  OBVIOUS
<1>3. QED
  BY <1>1, <1>2

\* Whether requestUpdateGame takes the games of an IP address is up to the
\* administrator: no heartbeat, whether it is repeated, refused or fails, and no
\* further server behind the address ends it or brings it about.
THEOREM GamesAreTakenByHand == Spec => GamesTakenByHand
<1>1. ASSUME IInv, [Next]_vars, NEW i \in Ip
      PROVE  /\ TakesGames(i) => TakesGames(i)'
             /\ TakesGames(i)' /\ ~ TakesGames(i) =>
                  /\ \E a \in Listed :
                       IpOf[a] = i /\ servers' = [servers EXCEPT ![a].verified = TRUE]
                  /\ UNCHANGED <<players, qr>>
  <2>1. TakesGames(i) <=> \E a \in Listed : IpOf[a] = i /\ servers[a].verified
    <3>1. PICK rows : rows = {servers[a] : a \in {b \in DOMAIN servers : IpOf[b] = i}}
      OBVIOUS
    <3>2. PICK first : first = {r \in rows : r.verified \/ \A q \in rows : ~ q.verified}
      OBVIOUS
    <3>3. (first # {} /\ \A r \in first : r.verified) <=>
            \E a \in DOMAIN servers : IpOf[a] = i /\ servers[a].verified
      BY <3>1, <3>2, FirstRows
    <3>4. TakesGames(i) <=> (first # {} /\ \A r \in first : r.verified)
      BY <3>1, <3>2 DEF TakesGames, queryGameServerByIp, RowsOfIp, Listed
    <3>5. QED
      BY <3>3, <3>4 DEF Listed
  <2>2. TakesGames(i)' <=> \E a \in Listed' : IpOf[a] = i /\ servers'[a].verified
    <3>1. PICK rows : rows = {servers'[a] : a \in {b \in DOMAIN servers' : IpOf[b] = i}}
      OBVIOUS
    <3>2. PICK first : first = {r \in rows : r.verified \/ \A q \in rows : ~ q.verified}
      OBVIOUS
    <3>3. (first # {} /\ \A r \in first : r.verified) <=>
            \E a \in DOMAIN servers' : IpOf[a] = i /\ servers'[a].verified
      BY <3>1, <3>2, FirstRows
    <3>4. TakesGames(i)' <=> (first # {} /\ \A r \in first : r.verified)
      BY <3>1, <3>2 DEF TakesGames, queryGameServerByIp, RowsOfIp, Listed
    <3>5. QED
      BY <3>3, <3>4 DEF Listed
  <2>3. CASE UNCHANGED <<servers, stored>>
    BY <2>1, <2>2, <2>3 DEF Listed
  <2>4. CASE Verify
    <3>1. PICK a \in Listed : ~ servers[a].verified /\ servers' = [servers EXCEPT ![a].verified = TRUE]
                               /\ UNCHANGED <<players, qr>>
      BY <2>4 DEF Verify
    <3>2. Listed' = Listed /\ \A b \in Listed \ {a} : servers'[b] = servers[b]
      BY <3>1 DEF Listed
    <3>3. \A b \in Listed : servers[b].verified => servers'[b].verified
      BY <1>1, <2>4, Verified
    <3>4. CASE IpOf[a] = i
      BY <2>1, <2>2, <3>1, <3>2, <3>3, <3>4
    <3>5. CASE IpOf[a] # i
      BY <2>1, <2>2, <3>2, <3>5
    <3>6. QED
      BY <3>4, <3>5
  <2>5. CASE RowWritten(qr.addr)
    <3>1. \A b \in Listed' : servers'[b].verified => b \in Listed /\ servers[b].verified
      BY <2>5 DEF RowWritten
    <3>2. \A b \in Listed : b \in Listed' /\ (servers[b].verified => servers'[b].verified)
      BY <2>5 DEF RowWritten
    <3>3. QED
      BY <2>1, <2>2, <3>1, <3>2
  <2>6. CASE Listed' = Listed /\ \A b \in Listed : servers'[b] = servers[b]
    BY <2>1, <2>2, <2>6
  <2>7. QED
    BY <1>1, <2>3, <2>4, <2>5, <2>6, TableSteps
<1>2. IInv /\ [Next]_vars =>
        [\A i \in Ip :
          /\ TakesGames(i) => TakesGames(i)'
          /\ TakesGames(i)' /\ ~ TakesGames(i) =>
               /\ \E a \in Listed : IpOf[a] = i /\ servers' = [servers EXCEPT ![a].verified = TRUE]
               /\ UNCHANGED <<players, qr>>]_vars
  BY <1>1
<1>3. QED
  BY Invariance, <1>2, PTL DEF Spec, GamesTakenByHand

\* A datagram that comes twice in a row changes nothing the second time, but
\* for the limit of a team.
DuplicateIsHarmless ==
  [][\A a \in Listed :
       stored'[a] = stored[a] =>
         \A k \in Key \ {"teamfraglimit"} : servers'[a].keys[k] = servers[a].keys[k]]_vars

\* requestHeartbeat: a datagram delivered twice in a row writes the same row, but
\* for teamfraglimit, which a query takes from fraglimit.
THEOREM DuplicatesAreHarmless == Spec => DuplicateIsHarmless
<1>1. ASSUME IInv, [Next]_vars, NEW a \in Listed, stored'[a] = stored[a],
             NEW k \in Key \ {"teamfraglimit"}
      PROVE  servers'[a].keys[k] = servers[a].keys[k]
  <2>1. CASE UNCHANGED <<servers, stored>>
    BY <2>1
  <2>2. CASE Verify
    BY <1>1, <2>2, Verified
  <2>3. CASE Listed' = Listed /\ stored' = stored /\ \A b \in Listed : servers'[b] = servers[b]
    BY <2>3
  <2>4. CASE /\ qr # Idle /\ RowWritten(qr.addr) /\ Remembered(qr.addr, qr.n)
             /\ qr.next = "insert" => qr.addr \notin Listed
    <3>1. CASE a # qr.addr
      BY <2>4, <3>1 DEF RowWritten
    <3>2. CASE a = qr.addr
      <4>1. TypeOK /\ Beats /\ Histories /\ ClansOfLatest /\ ColumnsKeepTheLatest
        BY <1>1 DEF IInv
      <4>2. a \in Address /\ qr.n \in Datagram(a) /\ qr.n \in Nat /\ qr.n > 0
        BY <2>4, <3>2, <4>1, BeatParts, DatagramIs
      <4>3. stored[a] = qr.n
        BY <1>1, <2>4, <3>2, <4>1, <4>2 DEF Remembered, TypeOK
      <4>4. servers'[a].keys = qr.row.keys
        BY <2>4, <3>2 DEF RowWritten
      <4>5. CASE Carries(a, qr.n, k)
        <5>1. qr.row.keys[k] = Reported(a, qr.n, k)
          BY <2>4, <3>2, <4>1, <4>5, MergedRow
        <5>2. CASE k \in ClanKeys
          BY <4>1, <4>3, <4>4, <4>5, <5>1, <5>2 DEF ClansOfLatest, Carries
        <5>3. CASE k \notin ClanKeys
          <6>1. carried[a][k] = qr.n
            BY <4>1, <4>2, <4>3, <4>5 DEF Histories
          <6>2. QED
            BY <4>1, <4>2, <4>4, <5>1, <5>3, <6>1 DEF ColumnsKeepTheLatest
        <5>4. QED
          BY <5>2, <5>3
      <4>6. CASE ~ Carries(a, qr.n, k)
        <5>1. qr.row.keys[k] = IF k \in ClanKeys THEN Default[k] ELSE servers[a].keys[k]
          BY <2>4, <3>2, <4>1, <4>6, MergedRow
        <5>2. QED
          BY <4>1, <4>3, <4>4, <4>6, <5>1 DEF ClansOfLatest, Carries
      <4>7. QED
        BY <4>5, <4>6
    <3>3. QED
      BY <3>1, <3>2
  <2>5. QED
    BY <1>1, <2>1, <2>2, <2>3, <2>4, TableSteps
<1>2. IInv /\ [Next]_vars =>
        [\A a \in Listed :
          stored'[a] = stored[a] =>
            \A k \in Key \ {"teamfraglimit"} : servers'[a].keys[k] = servers[a].keys[k]]_vars
  BY <1>1
<1>3. QED
  BY Invariance, <1>2, PTL DEF Spec, DuplicateIsHarmless

-----------------------------------------------------------------------------
(***************************************************************************)
(* Induction over numbers, and functions defined by recursion.  The loops  *)
(* of the browser go through a list or a buffer from one position to a     *)
(* later one; rank counts how far a position is from the end.              *)
(***************************************************************************)
LEMMA LeastOf ==
  ASSUME NEW T, T \subseteq Nat, T # {}
  PROVE  \E x \in T : \A y \in T : x <= y
<1> DEFINE R == {p \in Nat \X Nat : p[1] < p[2]}
<1>1. IsWellFoundedOn(R, Nat)
  BY NatLessThanWellFounded DEF OpToRel
<1>2. \A x, y \in Nat : y < x => <<y, x>> \in R
  OBVIOUS
<1> HIDE DEF R
<1>3. \E x \in T : \A y \in T : <<y, x>> \notin R
  BY <1>1, WFMin
<1>4. PICK x \in T : \A y \in T : <<y, x>> \notin R
  BY <1>3
<1>5. ASSUME NEW y \in T
      PROVE  x <= y
  <2>1. x \in Nat /\ y \in Nat
    OBVIOUS
  <2>2. ~ (y < x)
    BY <1>2, <1>4, <2>1
  <2>3. QED
    BY <2>1, <2>2
<1>6. QED
  BY <1>5

\* Induction: what fails for no first number fails for none.
LEMMA NoFirst ==
  ASSUME NEW T, T \subseteq Nat, \A x \in T : \E y \in T : y < x
  PROVE  T = {}
<1>1. SUFFICES ASSUME T # {}
               PROVE  FALSE
  OBVIOUS
<1>2. PICK x \in T : \A y \in T : x <= y
  BY <1>1, LeastOf
<1>3. PICK y \in T : y < x
  BY <1>2
<1>4. x \in Nat /\ y \in Nat
  OBVIOUS
<1>5. QED
  BY <1>2, <1>3, <1>4

\* A recursion over D with values in X: base at the positions where it stops,
\* else a step from the value at the next position, which is of a lower rank.
IsRecursion(D, X, K, rank, stop, base, next, step) ==
  /\ K \in Nat /\ rank \in [D -> 0 .. K]
  /\ stop \subseteq D /\ base \in [D -> X]
  /\ next \in [D \ stop -> D] /\ \A i \in D \ stop : rank[next[i]] < rank[i]
  /\ step \in [(D \ stop) \X X -> X]

LEMMA RecursionExists ==
  ASSUME NEW D, NEW X, NEW K, NEW rank, NEW stop, NEW base, NEW next, NEW step,
         IsRecursion(D, X, K, rank, stop, base, next, step)
  PROVE  \E f \in [D -> X] :
           \A i \in D : f[i] = IF i \in stop THEN base[i] ELSE step[<<i, f[next[i]]>>]
<1> DEFINE Part(m) == {i \in D : rank[i] < m}
           Value(f, i) == IF i \in stop THEN base[i] ELSE step[<<i, f[next[i]]>>]
           Is(f, m) == f \in [Part(m) -> X] /\ \A i \in Part(m) : f[i] = Value(f, i)
           T == {m \in Nat : ~ \E f : Is(f, m)}
<1>1. /\ K \in Nat /\ rank \in [D -> 0 .. K]
      /\ stop \subseteq D /\ base \in [D -> X]
      /\ next \in [D \ stop -> D] /\ \A i \in D \ stop : rank[next[i]] < rank[i]
      /\ step \in [(D \ stop) \X X -> X]
  BY DEF IsRecursion
<1>2. \A m \in Nat : m \in T <=> ~ \E f : Is(f, m)
  BY DEF T
<1>3. T \subseteq Nat
  OBVIOUS
<1> HIDE DEF T, Is
<1>4. ASSUME NEW m \in T
      PROVE  \E n \in T : n < m
  <2>1. m # 0
    <3>1. Part(0) = {}
      BY <1>1
    <3>2. [i \in {} |-> i] \in [{} -> X]
      OBVIOUS
    <3>3. Is([i \in {} |-> i], 0)
      BY <3>1, <3>2 DEF Is
    <3>4. QED
      BY <1>2, <3>3
  <2>2. m \in Nat /\ m - 1 \in Nat /\ m - 1 < m
    BY <1>3, <2>1
  <2>3. ASSUME NEW f, Is(f, m - 1)
        PROVE  Is([i \in Part(m) |-> Value(f, i)], m)
    <3> DEFINE g == [i \in Part(m) |-> Value(f, i)]
    <3>1. ASSUME NEW i \in Part(m)
          PROVE  Value(f, i) \in X /\ Value(g, i) = Value(f, i)
      <4>1. CASE i \in stop
        BY <1>1, <4>1
      <4>2. CASE i \notin stop
        <5>1. i \in D \ stop /\ next[i] \in D /\ rank[next[i]] < rank[i]
          BY <1>1, <4>2
        <5>2. rank[i] \in Int /\ rank[next[i]] \in Int /\ m \in Int
          BY <1>1, <2>2, <5>1
        <5>3. next[i] \in Part(m - 1) /\ next[i] \in Part(m)
          BY <5>1, <5>2
        <5>4. f[next[i]] \in X /\ f[next[i]] = Value(f, next[i])
          BY <2>3, <5>3 DEF Is
        <5>5. g[next[i]] = f[next[i]]
          BY <5>3, <5>4
        <5>6. QED
          BY <1>1, <4>2, <5>1, <5>4, <5>5
      <4>3. QED
        BY <4>1, <4>2
    <3>2. \A i \in Part(m) : g[i] = Value(f, i)
      OBVIOUS
    <3>3. g \in [Part(m) -> X]
      BY <3>1
    <3> HIDE DEF g, Value, Part
    <3>4. \A i \in Part(m) : g[i] = Value(g, i)
      BY <3>1, <3>2
    <3>5. Is(g, m)
      BY <3>3, <3>4 DEF Is
    <3>6. QED
      BY <3>5 DEF g
  <2>4. m - 1 \in T
    BY <1>2, <2>2, <2>3
  <2>5. QED
    BY <2>2, <2>4
<1>5. T = {}
  BY <1>3, <1>4, NoFirst
<1>6. PICK f : Is(f, K + 1)
  BY <1>1, <1>2, <1>5
<1>7. Part(K + 1) = D
  BY <1>1
<1>8. f \in [D -> X] /\ \A i \in D : f[i] = Value(f, i)
  BY <1>6, <1>7 DEF Is
<1>9. QED
  BY <1>8

-----------------------------------------------------------------------------
(***************************************************************************)
(* Loops that take some members out of a list.                             *)
(***************************************************************************)
Positions(list) == SUBSET (1 .. Len(list))

LEMMA SelectionExists ==
  ASSUME NEW X, NEW list \in Seq(X), NEW S \in Positions(list)
  PROVE  \E f \in [1 .. Len(list) + 1 -> Seq(X)] :
           \A i \in 1 .. Len(list) + 1 :
             f[i] = IF i > Len(list) THEN <<>>
                    ELSE IF i \in S THEN <<list[i]>> \o f[i + 1] ELSE f[i + 1]
<1> DEFINE N == Len(list)
           D == 1 .. N + 1
           rank == [i \in D |-> N + 1 - i]
           stop == {N + 1}
           base == [i \in D |-> <<>>]
           next == [i \in D \ stop |-> i + 1]
           step == [p \in (D \ stop) \X Seq(X) |-> IF p[1] \in S THEN <<list[p[1]]>> \o p[2] ELSE p[2]]
<1>1. /\ N \in Nat /\ \A i \in 1 .. N : list[i] \in X
      /\ S \subseteq 1 .. N
  BY LenProperties, ElementOfSeq DEF Positions
<1>2. D \ stop = 1 .. N
  BY <1>1
<1>3. rank \in [D -> 0 .. N] /\ base \in [D -> Seq(X)]
  <2>1. <<>> \in Seq(X)
    OBVIOUS
  <2>2. QED
    BY <1>1, <2>1
<1>4. next \in [D \ stop -> D] /\ \A i \in D \ stop : rank[next[i]] < rank[i]
  BY <1>1, <1>2
<1>5. \A i \in 1 .. N, s \in Seq(X) : <<list[i]>> \o s \in Seq(X)
  <2>1. \A i \in 1 .. N : <<list[i]>> \in Seq(X)
    BY <1>1
  <2>2. QED
    BY <2>1, ConcatProperties
<1>6. step \in [(D \ stop) \X Seq(X) -> Seq(X)]
  BY <1>2, <1>5
<1>7. \A i \in 1 .. N, s \in Seq(X) :
        step[<<i, s>>] = IF i \in S THEN <<list[i]>> \o s ELSE s
  BY <1>2
<1>8. \A i \in 1 .. N : next[i] = i + 1
  BY <1>2
<1>9. stop \in SUBSET D
  BY <1>1
<1> HIDE DEF rank, base, next, step
<1>10. PICK f \in [D -> Seq(X)] :
         \A i \in D : f[i] = IF i \in stop THEN base[i] ELSE step[<<i, f[next[i]]>>]
  <2> HIDE DEF D, stop, N
  <2>1. IsRecursion(D, Seq(X), N, rank, stop, base, next, step)
    BY <1>1, <1>3, <1>4, <1>6, <1>9 DEF IsRecursion
  <2>2. QED
    BY <2>1, RecursionExists
<1>11. ASSUME NEW i \in D
       PROVE  f[i] = IF i > N THEN <<>>
                     ELSE IF i \in S THEN <<list[i]>> \o f[i + 1] ELSE f[i + 1]
  <2>1. f[i] = IF i \in stop THEN base[i] ELSE step[<<i, f[next[i]]>>]
    BY <1>10
  <2>2. CASE i = N + 1
    BY <1>1, <2>1, <2>2 DEF base
  <2>3. CASE i \in 1 .. N
    <3>1. i + 1 \in D /\ f[i + 1] \in Seq(X)
      BY <1>1, <2>3
    <3>2. QED
      BY <1>1, <1>7, <1>8, <2>1, <2>3, <3>1
  <2>4. QED
    BY <1>1, <2>2, <2>3
<1>12. QED
  BY <1>11

LEMMA OneMoreSelected ==
  ASSUME NEW X, NEW list \in Seq(X), NEW S \in SUBSET (1 .. Len(list)), NEW i \in S,
         NEW shown \in Seq(X), IsSelection(shown, list, {j \in S : j >= i + 1})
  PROVE  IsSelection(<<list[i]>> \o shown, list, {j \in S : j >= i})
<1> DEFINE more == <<list[i]>> \o shown
           rest == {j \in S : j >= i + 1}
           all == {j \in S : j >= i}
<1>1. i \in Nat /\ i > 0 /\ list[i] \in X /\ \A j \in S : j \in Nat
  BY LenProperties, ElementOfSeq
<1>2. <<list[i]>> \in Seq(X) /\ Len(<<list[i]>>) = 1 /\ <<list[i]>>[1] = list[i]
  BY <1>1
<1>3. /\ Len(shown) \in Nat /\ DOMAIN shown = 1 .. Len(shown)
      /\ more \in Seq(X) /\ Len(more) = 1 + Len(shown)
      /\ \A k \in 1 .. 1 + Len(shown) : more[k] = IF k <= 1 THEN <<list[i]>>[k] ELSE shown[k - 1]
  BY <1>2, ConcatProperties, LenProperties
<1>4. DOMAIN more = 1 .. 1 + Len(shown)
  BY <1>3, LenProperties
<1>5. PICK at \in [DOMAIN shown -> rest] :
        /\ \A j \in rest : \E k \in DOMAIN shown : at[k] = j
        /\ \A j, k \in DOMAIN shown : j < k => at[j] < at[k]
        /\ \A k \in DOMAIN shown : shown[k] = list[at[k]]
  BY DEF IsSelection
<1>6. all = rest \union {i}
  <2>1. \A j \in S : j >= i <=> j >= i + 1 \/ j = i
    BY <1>1
  <2>2. i >= i
    BY <1>1
  <2>3. QED
    BY <2>1, <2>2
<1> DEFINE to == [k \in DOMAIN more |-> IF k = 1 THEN i ELSE at[k - 1]]
<1>7. \A k \in DOMAIN more : k = 1 \/ k - 1 \in DOMAIN shown
  BY <1>3, <1>4
<1>8. to \in [DOMAIN more -> all]
  BY <1>5, <1>6, <1>7
<1>9. ASSUME NEW j \in all
      PROVE  \E k \in DOMAIN more : to[k] = j
  <2>1. CASE j = i
    <3>1. 1 \in DOMAIN more /\ to[1] = i
      BY <1>3, <1>4
    <3>2. QED
      BY <2>1, <3>1
  <2>2. CASE j \in rest
    <3>1. PICK k \in DOMAIN shown : at[k] = j
      BY <1>5, <2>2
    <3>2. k + 1 \in DOMAIN more /\ k + 1 # 1 /\ (k + 1) - 1 = k
      BY <1>3, <1>4
    <3>3. to[k + 1] = j
      BY <3>1, <3>2
    <3>4. QED
      BY <3>2, <3>3
  <2>3. QED
    BY <1>6, <2>1, <2>2
<1>10. ASSUME NEW j \in DOMAIN more, NEW k \in DOMAIN more, j < k
       PROVE  to[j] < to[k]
  <2>1. k # 1 /\ k - 1 \in DOMAIN shown
    BY <1>3, <1>4, <1>10
  <2>2. to[k] = at[k - 1] /\ at[k - 1] \in rest
    BY <1>5, <2>1
  <2>3. CASE j = 1
    <3>1. at[k - 1] \in S /\ at[k - 1] >= i + 1
      BY <2>2
    <3>2. to[j] = i
      BY <2>3
    <3>3. i < at[k - 1]
      <4>1. at[k - 1] \in Nat
        BY <1>1, <3>1
      <4>2. QED
        BY <1>1, <3>1, <4>1
    <3>4. QED
      BY <2>2, <3>2, <3>3
  <2>4. CASE j # 1
    <3>1. j - 1 \in DOMAIN shown /\ j - 1 < k - 1
      BY <1>3, <1>4, <1>10, <2>4
    <3>2. to[j] = at[j - 1]
      BY <2>4
    <3>3. QED
      BY <1>5, <2>1, <2>2, <3>1, <3>2
  <2>5. QED
    BY <2>3, <2>4
<1>11. ASSUME NEW k \in DOMAIN more
       PROVE  more[k] = list[to[k]]
  <2>1. CASE k = 1
    BY <1>2, <1>3, <1>4, <2>1
  <2>2. CASE k # 1
    <3>1. k - 1 \in DOMAIN shown /\ more[k] = shown[k - 1]
      BY <1>3, <1>4, <2>2
    <3>2. QED
      BY <1>5, <2>2, <3>1
  <2>3. QED
    BY <2>1, <2>2
<1> HIDE DEF to, more, all
<1>12. IsSelection(more, list, all)
  BY <1>8, <1>9, <1>10, <1>11 DEF IsSelection
<1>13. QED
  BY <1>12 DEF more, all

\* A loop that keeps the members at S and skips the others keeps them all.
LEMMA LoopSelects ==
  ASSUME NEW X, NEW list \in Seq(X), NEW S \in SUBSET (1 .. Len(list)), NEW f,
         \A i \in 1 .. Len(list) + 1 :
           f[i] = IF i > Len(list) THEN <<>>
                  ELSE IF i \in S THEN <<list[i]>> \o f[i + 1] ELSE f[i + 1]
  PROVE  f[1] \in Seq(X) /\ IsSelection(f[1], list, S)
<1> DEFINE N == Len(list)
           Good(i) == f[i] \in Seq(X) /\ IsSelection(f[i], list, {j \in S : j >= i})
           T == {m \in Nat : m <= N /\ ~ Good(N + 1 - m)}
<1>1. /\ N \in Nat /\ \A i \in 1 .. N : list[i] \in X
      /\ \A j \in S : j \in 1 .. N
  BY LenProperties, ElementOfSeq
<1>2. \A i \in 1 .. N + 1 :
        f[i] = IF i > N THEN <<>> ELSE IF i \in S THEN <<list[i]>> \o f[i + 1] ELSE f[i + 1]
  OBVIOUS
<1>3. \A m \in Nat : m \in T <=> m <= N /\ ~ Good(N + 1 - m)
  BY DEF T
<1>4. T \subseteq Nat
  OBVIOUS
<1> HIDE DEF T
<1>5. ASSUME NEW m \in T
      PROVE  \E n \in T : n < m
  <2>0. PICK i : i = N + 1 - m
    OBVIOUS
  <2>1. m \in Nat /\ m <= N /\ i \in 1 .. N + 1 /\ ~ Good(i)
    <3>1. m \in Nat /\ m <= N /\ ~ Good(i)
      BY <1>3, <1>4, <2>0
    <3>2. QED
      BY <1>1, <2>0, <3>1
  <2>2. m # 0
    <3>1. SUFFICES ASSUME m = 0
                   PROVE  FALSE
      OBVIOUS
    <3>2. i = N + 1 /\ f[i] = <<>>
      <4>1. i = N + 1 /\ i > N /\ i \in 1 .. N + 1
        BY <1>1, <2>0, <3>1
      <4>2. QED
        BY <1>2, <4>1
    <3>3. {j \in S : j >= i} = {}
      <4>1. \A j \in S : ~ (j >= N + 1)
        BY <1>1
      <4>2. QED
        BY <3>2, <4>1
    <3>4. DOMAIN f[i] = {}
      BY <3>2
    <3>5. [k \in {} |-> k] \in [{} -> {}]
      OBVIOUS
    <3>6. IsSelection(f[i], list, {})
      BY <3>4, <3>5 DEF IsSelection
    <3>7. <<>> \in Seq(X)
      OBVIOUS
    <3>8. QED
      BY <2>1, <3>2, <3>3, <3>6, <3>7
  <2>3. m - 1 \in Nat /\ m - 1 < m /\ m - 1 <= N /\ N + 1 - (m - 1) = i + 1 /\ i \in 1 .. N
    BY <1>1, <2>1, <2>2, <2>0
  <2>4. ~ Good(i + 1)
    <3>1. SUFFICES ASSUME Good(i + 1)
                   PROVE  Good(i)
      BY <2>1
    <3>2. f[i] = IF i \in S THEN <<list[i]>> \o f[i + 1] ELSE f[i + 1]
      BY <1>1, <1>2, <2>1, <2>3
    <3>3. CASE i \in S
      <4>1. <<list[i]>> \in Seq(X)
        BY <1>1, <2>3
      <4>2. <<list[i]>> \o f[i + 1] \in Seq(X)
        BY <3>1, <4>1, ConcatProperties
      <4>3. IsSelection(<<list[i]>> \o f[i + 1], list, {j \in S : j >= i})
        BY <3>1, <3>3, OneMoreSelected
      <4>4. QED
        BY <3>2, <3>3, <4>2, <4>3
    <3>4. CASE i \notin S
      <4>1. \A j \in S : j >= i <=> j >= i + 1
        BY <1>1, <2>3, <3>4
      <4>2. {j \in S : j >= i} = {j \in S : j >= i + 1}
        BY <4>1
      <4>3. QED
        BY <3>1, <3>2, <3>4, <4>2
    <3>5. QED
      BY <3>3, <3>4
  <2>5. m - 1 \in T
    BY <1>3, <2>3, <2>4
  <2>6. QED
    BY <2>3, <2>5
<1>6. T = {}
  BY <1>4, <1>5, NoFirst
<1>7. Good(1)
  <2>1. N \in Nat /\ N <= N /\ N + 1 - N = 1
    BY <1>1
  <2>2. QED
    BY <1>3, <1>6, <2>1
<1>8. {j \in S : j >= 1} = S
  <2>1. \A j \in S : j >= 1
    BY <1>1
  <2>2. QED
    BY <2>1
<1>9. QED
  BY <1>7, <1>8

-----------------------------------------------------------------------------
(***************************************************************************)
(* Lists of servers.                                                       *)
(***************************************************************************)
\* Every expression of a filter keeps the servers for which its clause holds.
LEMMA FilterMeans ==
  ASSUME NEW f \in Filter, NEW k, IsKeys(k)
  PROVE  ~ Removed(Found(f), k) <=> \A clause \in DOMAIN f : Holds(f, clause, k)
<1>1. IsFilter(f) /\ FilterKeys \subseteq Key
  BY FilterAssumption
<1>2. DOMAIN f \subseteq Clauses
  BY <1>1 DEF IsFilter
<1> DEFINE g == Found(f)
           both == Asks(f, "rc or teamplay!=")
<1>3. DOMAIN g = DOMAIN f \union (IF both THEN {"rc=", "teamplay!="} ELSE {})
  BY DEF Found
<1>4. ASSUME NEW clause \in DOMAIN f, clause \notin {"rc=", "teamplay!="} \/ ~ both
      PROVE  clause \in DOMAIN g /\ g[clause] = f[clause]
  BY <1>4 DEF Found
<1>5. /\ k["numplayers"] \in 0 .. 255
      /\ "numplayers" \in Key
  <2>1. "numplayers" \in Key /\ "numplayers" \in ByteKeys
    BY <1>1 DEF FilterKeys, ByteKeys
  <2>2. \A n \in ByteKeys : Column(n) = 0 .. 255
    BY Kinds DEF Column
  <2>3. QED
    BY <2>1, <2>2 DEF IsKeys
<1>6. \A n \in 0 .. 255 : Byte(n) = n
  BY DEF Byte
<1>7. \A clause \in ByteClauses \intersect DOMAIN f : Byte(f[clause]) = f[clause]
  BY <1>1, <1>6 DEF IsFilter
<1>8. both => /\ Byte(f["rc or teamplay!="].rc) = f["rc or teamplay!="].rc
              /\ Byte(f["rc or teamplay!="].teamplay) = f["rc or teamplay!="].teamplay
              /\ DOMAIN f \intersect {"rc=", "teamplay=", "teamplay!="} = {}
  BY <1>1, <1>6 DEF IsFilter
<1> HIDE DEF g
<1>11. FilterServerGameVersion(g, k) <=> ("gamever=" \in DOMAIN f /\ ~ Holds(f, "gamever=", k))
  <2>1. "gamever=" \in DOMAIN g <=> "gamever=" \in DOMAIN f
    BY <1>3
  <2>2. QED
    BY <1>4, <2>1 DEF FilterServerGameVersion, Asks, Holds
<1>12. FilterServerGameType(g, k) <=> ("gametype=" \in DOMAIN f /\ ~ Holds(f, "gametype=", k))
  <2>1. "gametype=" \in DOMAIN g <=> "gametype=" \in DOMAIN f
    BY <1>3
  <2>2. QED
    BY <1>4, <2>1 DEF FilterServerGameType, Asks, Holds
<1>13. FilterServerRegion(g, k) <=> \/ "region!=0" \in DOMAIN f /\ ~ Holds(f, "region!=0", k)
                                    \/ "region=0" \in DOMAIN f /\ ~ Holds(f, "region=0", k)
  <2>1. /\ "region!=0" \in DOMAIN g <=> "region!=0" \in DOMAIN f
        /\ "region=0" \in DOMAIN g <=> "region=0" \in DOMAIN f
    BY <1>3
  <2>2. /\ "region!=0" \in DOMAIN f => g["region!=0"] = f["region!=0"]
        /\ "region=0" \in DOMAIN f => g["region=0"] = f["region=0"]
    BY <1>4
  <2>3. /\ Holds(f, "region!=0", k) <=> \E b \in f["region!=0"] : b \in k["region"]
        /\ Holds(f, "region=0", k) <=> \A b \in f["region=0"] : b \notin k["region"]
    BY DEF Holds
  <2>4. QED
    BY <2>1, <2>2, <2>3 DEF FilterServerRegion, Asks
<1>14. FilterServerNumPlayers(g, k) <=>
         \/ "numplayers>=" \in DOMAIN f /\ ~ Holds(f, "numplayers>=", k)
         \/ "numplayers<=" \in DOMAIN f /\ ~ Holds(f, "numplayers<=", k)
  <2>1. /\ "numplayers>=" \in DOMAIN g <=> "numplayers>=" \in DOMAIN f
        /\ "numplayers<=" \in DOMAIN g <=> "numplayers<=" \in DOMAIN f
    BY <1>3
  <2>2. /\ "numplayers>=" \in DOMAIN f => /\ g["numplayers>="] = f["numplayers>="]
                                          /\ f["numplayers>="] \in 0 .. 255
        /\ "numplayers<=" \in DOMAIN f => /\ g["numplayers<="] = f["numplayers<="]
                                          /\ f["numplayers<="] \in 0 .. 255
    BY <1>1, <1>4 DEF IsFilter, ByteClauses
  <2>3. /\ Holds(f, "numplayers>=", k) <=> k["numplayers"] >= f["numplayers>="]
        /\ Holds(f, "numplayers<=", k) <=> k["numplayers"] <= f["numplayers<="]
    BY DEF Holds
  <2>4. \A n, v \in 0 .. 255 : /\ n < v <=> ~ (n >= v)
                               /\ n > v <=> ~ (n <= v)
    OBVIOUS
  <2>5. Asks(g, "numplayers>=") =>
          (k["numplayers"] < Byte(g["numplayers>="]) <=> ~ Holds(f, "numplayers>=", k))
    BY <1>5, <1>6, <2>1, <2>2, <2>3, <2>4 DEF Asks
  <2>6. Asks(g, "numplayers<=") =>
          (k["numplayers"] > Byte(g["numplayers<="]) <=> ~ Holds(f, "numplayers<=", k))
    BY <1>5, <1>6, <2>1, <2>2, <2>3, <2>4 DEF Asks
  <2>7. QED
    BY <2>1, <2>5, <2>6 DEF FilterServerNumPlayers, Asks
<1>15. FilterServerMapName(g, k) <=> ("mapname=" \in DOMAIN f /\ ~ Holds(f, "mapname=", k))
  <2>1. "mapname=" \in DOMAIN g <=> "mapname=" \in DOMAIN f
    BY <1>3
  <2>2. "mapname=" \in DOMAIN f => Byte(g["mapname="]) = f["mapname="]
    BY <1>4, <1>7 DEF ByteClauses
  <2>3. QED
    BY <2>1, <2>2 DEF FilterServerMapName, Asks, Holds
<1>16. FilterServerStatsTracking(g, k) <=> ("sr=" \in DOMAIN f /\ ~ Holds(f, "sr=", k))
  <2>1. "sr=" \in DOMAIN g <=> "sr=" \in DOMAIN f
    BY <1>3
  <2>2. "sr=" \in DOMAIN f => Byte(g["sr="]) = f["sr="]
    BY <1>4, <1>7 DEF ByteClauses
  <2>3. QED
    BY <2>1, <2>2 DEF FilterServerStatsTracking, Asks, Holds
<1>17. Asks(g, "rc or teamplay!=") <=> both
  BY <1>3 DEF Asks
<1>18. FilterServerReconfigurable(g, k) <=> ("rc=" \in DOMAIN f /\ ~ Holds(f, "rc=", k))
  <2>1. CASE both
    BY <1>8, <1>17, <2>1 DEF FilterServerReconfigurable
  <2>2. CASE ~ both
    <3>1. "rc=" \in DOMAIN g <=> "rc=" \in DOMAIN f
      BY <1>3, <2>2
    <3>2. "rc=" \in DOMAIN f => Byte(g["rc="]) = f["rc="]
      BY <1>4, <1>7, <2>2 DEF ByteClauses
    <3>3. QED
      BY <1>17, <2>2, <3>1, <3>2 DEF FilterServerReconfigurable, Asks, Holds
  <2>3. QED
    BY <2>1, <2>2
<1>19. FilterServerTeamplay(g, k) <=>
         \/ both /\ ~ Holds(f, "rc or teamplay!=", k)
         \/ "teamplay=" \in DOMAIN f /\ ~ Holds(f, "teamplay=", k)
         \/ "teamplay!=" \in DOMAIN f /\ ~ Holds(f, "teamplay!=", k)
  <2>1. CASE both
    <3>1. g["rc or teamplay!="] = f["rc or teamplay!="]
      BY <1>4, <2>1 DEF Asks
    <3>2. Holds(f, "rc or teamplay!=", k) <=>
            \/ k["rc"] = f["rc or teamplay!="].rc
            \/ k["teamplay"] # f["rc or teamplay!="].teamplay
      BY DEF Holds
    <3>3. "teamplay=" \notin DOMAIN f /\ "teamplay!=" \notin DOMAIN f
      BY <1>8, <2>1
    <3>4. QED
      BY <1>8, <1>17, <2>1, <3>1, <3>2, <3>3 DEF FilterServerTeamplay
  <2>2. CASE ~ both
    <3>1. /\ "teamplay=" \in DOMAIN g <=> "teamplay=" \in DOMAIN f
          /\ "teamplay!=" \in DOMAIN g <=> "teamplay!=" \in DOMAIN f
      BY <1>3, <2>2
    <3>2. /\ "teamplay=" \in DOMAIN f => Byte(g["teamplay="]) = f["teamplay="]
          /\ "teamplay!=" \in DOMAIN f => Byte(g["teamplay!="]) = f["teamplay!="]
      BY <1>4, <1>7, <2>2 DEF ByteClauses
    <3>3. /\ Holds(f, "teamplay=", k) <=> k["teamplay"] = f["teamplay="]
          /\ Holds(f, "teamplay!=", k) <=> k["teamplay"] # f["teamplay!="]
      BY DEF Holds
    <3>4. QED
      BY <1>17, <2>2, <3>1, <3>2, <3>3 DEF FilterServerTeamplay, Asks
  <2>3. QED
    BY <2>1, <2>2
<1>20. FilterServerClan(g, k) <=>
         \/ "c0 or c1" \in DOMAIN f /\ ~ Holds(f, "c0 or c1", k)
         \/ "free or c0 or c1" \in DOMAIN f /\ ~ Holds(f, "free or c0 or c1", k)
  <2>1. /\ "c0 or c1" \in DOMAIN g <=> "c0 or c1" \in DOMAIN f
        /\ "free or c0 or c1" \in DOMAIN g <=> "free or c0 or c1" \in DOMAIN f
    BY <1>3
  <2>2. /\ "c0 or c1" \in DOMAIN f => g["c0 or c1"] = f["c0 or c1"]
        /\ "free or c0 or c1" \in DOMAIN f => g["free or c0 or c1"] = f["free or c0 or c1"]
    BY <1>4
  <2>3. /\ Holds(f, "c0 or c1", k) <=> \/ k["c0"] = f["c0 or c1"].c0
                                       \/ k["c1"] = f["c0 or c1"].c1
        /\ Holds(f, "free or c0 or c1", k) <=>
             \/ -1 \in {k["c0"], k["c1"]}
             \/ k["c0"] = f["free or c0 or c1"].c0
             \/ k["c1"] = f["free or c0 or c1"].c1
    BY DEF Holds
  <2>4. QED
    BY <2>1, <2>2, <2>3 DEF FilterServerClan, Asks
<1>21. Removed(g, k) <=> \E clause \in DOMAIN f : ~ Holds(f, clause, k)
  <2>1. ASSUME Removed(g, k)
        PROVE  \E clause \in DOMAIN f : ~ Holds(f, clause, k)
    BY <1>11, <1>12, <1>13, <1>14, <1>15, <1>16, <1>18, <1>19, <1>20, <2>1 DEF Removed, Asks
  <2>2. ASSUME NEW clause \in DOMAIN f, ~ Holds(f, clause, k)
        PROVE  Removed(g, k)
    <3>1. clause \in Clauses
      BY <1>2
    <3>2. CASE clause \in {"gamever=", "gametype=", "mapname=", "sr=", "rc="}
      BY <1>11, <1>12, <1>15, <1>16, <1>18, <2>2, <3>2 DEF Removed
    <3>3. CASE clause \in {"region!=0", "region=0", "numplayers>=", "numplayers<="}
      BY <1>13, <1>14, <2>2, <3>3 DEF Removed
    <3>4. CASE clause \in {"rc or teamplay!=", "teamplay=", "teamplay!="}
      BY <1>19, <2>2, <3>4 DEF Removed, Asks
    <3>5. CASE clause \in {"c0 or c1", "free or c0 or c1"}
      BY <1>20, <2>2, <3>5 DEF Removed
    <3>6. QED
      BY <3>1, <3>2, <3>3, <3>4, <3>5 DEF Clauses
  <2>3. QED
    BY <2>1, <2>2
<1>22. QED
  BY <1>21 DEF g

LEMMA FilterSelects ==
  ASSUME NEW X, NEW list \in Seq(X), NEW f
  PROVE  /\ FilterServers(f, list) \in Seq(X)
         /\ IsSelection(FilterServers(f, list), list,
                        {i \in 1 .. Len(list) : ~ Removed(f, list[i].keys)})
<1> DEFINE N == Len(list)
           S == {i \in 1 .. N : ~ Removed(f, list[i].keys)}
           from[i \in 1 .. N + 1] ==
             IF i > N THEN <<>>
             ELSE IF Removed(f, list[i].keys) THEN from[i + 1]
             ELSE <<list[i]>> \o from[i + 1]
           Loop(g, i) == IF i > N THEN <<>>
                         ELSE IF Removed(f, list[i].keys) THEN g[i + 1]
                         ELSE <<list[i]>> \o g[i + 1]
           Kept(g, i) == IF i > N THEN <<>>
                         ELSE IF i \in S THEN <<list[i]>> \o g[i + 1] ELSE g[i + 1]
<1>1. FilterServers(f, list) = from[1]
  BY DEF FilterServers
<1>2. N \in Nat
  BY LenProperties
<1>3. \A g, i : i \in 1 .. N + 1 => Loop(g, i) = Kept(g, i)
  BY <1>2
<1>4. PICK h \in [1 .. N + 1 -> Seq(X)] : \A i \in 1 .. N + 1 : h[i] = Kept(h, i)
  <2>1. S \in Positions(list)
    BY DEF Positions
  <2> HIDE DEF S
  <2>2. QED
    BY <2>1, SelectionExists
<1>5. h = [i \in 1 .. N + 1 |-> Loop(h, i)]
  <2> HIDE DEF Loop, Kept
  <2>1. QED
    BY <1>3, <1>4
<1>6. from = [i \in 1 .. N + 1 |-> Loop(from, i)]
  BY <1>5
<1> HIDE DEF from
<1>7. \A i \in 1 .. N + 1 : from[i] = Kept(from, i)
  BY <1>3, <1>6
<1>8. from[1] \in Seq(X) /\ IsSelection(from[1], list, S)
  BY <1>7, LoopSelects
<1>9. QED
  BY <1>1, <1>8

LEMMA VerifiedSelects ==
  ASSUME NEW X, NEW list \in Seq(X)
  PROVE  IsSelection(OnlyVerified(list), list, {i \in 1 .. Len(list) : list[i].verified})
<1> DEFINE N == Len(list)
           S == {i \in 1 .. N : list[i].verified}
           from[i \in 1 .. N + 1] ==
             IF i > N THEN <<>>
             ELSE IF list[i].verified THEN <<list[i]>> \o from[i + 1]
             ELSE from[i + 1]
           Loop(g, i) == IF i > N THEN <<>>
                         ELSE IF list[i].verified THEN <<list[i]>> \o g[i + 1]
                         ELSE g[i + 1]
           Kept(g, i) == IF i > N THEN <<>>
                         ELSE IF i \in S THEN <<list[i]>> \o g[i + 1] ELSE g[i + 1]
<1>1. OnlyVerified(list) = from[1]
  BY DEF OnlyVerified
<1>2. N \in Nat
  BY LenProperties
<1>3. \A g, i : i \in 1 .. N + 1 => Loop(g, i) = Kept(g, i)
  BY <1>2
<1>4. PICK h \in [1 .. N + 1 -> Seq(X)] : \A i \in 1 .. N + 1 : h[i] = Kept(h, i)
  <2>1. S \in Positions(list)
    BY DEF Positions
  <2> HIDE DEF S
  <2>2. QED
    BY <2>1, SelectionExists
<1>5. h = [i \in 1 .. N + 1 |-> Loop(h, i)]
  <2> HIDE DEF Loop, Kept
  <2>1. QED
    BY <1>3, <1>4
<1>6. from = [i \in 1 .. N + 1 |-> Loop(from, i)]
  BY <1>5
<1> HIDE DEF from
<1>7. \A i \in 1 .. N + 1 : from[i] = Kept(from, i)
  BY <1>3, <1>6
<1>8. IsSelection(from[1], list, S)
  BY <1>7, LoopSelects
<1>9. QED
  BY <1>1, <1>8

\* A selection of a selection.
LEMMA SelectedTwice ==
  ASSUME NEW X, NEW list \in Seq(X), NEW S \in SUBSET (1 .. Len(list)),
         NEW kept \in Seq(X), IsSelection(kept, list, S),
         NEW shown, IsSelection(shown, kept, {i \in DOMAIN kept : kept[i].verified})
  PROVE  IsSelection(shown, list, {i \in S : list[i].verified})
<1> DEFINE V == {i \in DOMAIN kept : kept[i].verified}
           W == {i \in S : list[i].verified}
<1>1. PICK p \in [DOMAIN kept -> S] :
        /\ \A i \in S : \E j \in DOMAIN kept : p[j] = i
        /\ \A i, j \in DOMAIN kept : i < j => p[i] < p[j]
        /\ \A j \in DOMAIN kept : kept[j] = list[p[j]]
  BY DEF IsSelection
<1>2. PICK q \in [DOMAIN shown -> V] :
        /\ \A i \in V : \E j \in DOMAIN shown : q[j] = i
        /\ \A i, j \in DOMAIN shown : i < j => q[i] < q[j]
        /\ \A j \in DOMAIN shown : shown[j] = kept[q[j]]
  BY DEF IsSelection
<1> DEFINE at == [j \in DOMAIN shown |-> p[q[j]]]
<1>3. \A j \in DOMAIN shown : q[j] \in DOMAIN kept /\ kept[q[j]].verified /\ at[j] = p[q[j]]
  BY <1>2
<1>4. at \in [DOMAIN shown -> W]
  BY <1>1, <1>3
<1>5. \A i \in W : \E j \in DOMAIN shown : at[j] = i
  <2>1. ASSUME NEW i \in W
        PROVE  \E j \in DOMAIN shown : at[j] = i
    <3>1. PICK n \in DOMAIN kept : p[n] = i
      BY <1>1
    <3>2. n \in V
      BY <1>1, <3>1
    <3>3. PICK j \in DOMAIN shown : q[j] = n
      BY <1>2, <3>2
    <3>4. QED
      BY <1>3, <3>1, <3>3
  <2>2. QED
    BY <2>1
<1>6. \A i, j \in DOMAIN shown : i < j => at[i] < at[j]
  BY <1>1, <1>2, <1>3
<1>7. \A j \in DOMAIN shown : shown[j] = list[at[j]]
  BY <1>1, <1>2, <1>3
<1> HIDE DEF at
<1>8. QED
  BY <1>4, <1>5, <1>6, <1>7 DEF IsSelection

LEMMA ListOfServers ==
  ASSUME NEW f \in Filter, NEW X, NEW rows \in Seq(X), \A s \in X : IsKeys(s.keys)
  PROVE  IsSelection(ServerList(f, rows), rows,
           {i \in DOMAIN rows : rows[i].verified
                                 /\ \A clause \in DOMAIN f : Holds(f, clause, rows[i].keys)})
<1> DEFINE kept == FilterServers(Found(f), rows)
           S == {i \in 1 .. Len(rows) : ~ Removed(Found(f), rows[i].keys)}
           wanted == {i \in DOMAIN rows :
                        rows[i].verified
                          /\ \A clause \in DOMAIN f : Holds(f, clause, rows[i].keys)}
<1>1. DOMAIN rows = 1 .. Len(rows) /\ \A i \in 1 .. Len(rows) : IsKeys(rows[i].keys)
  BY LenProperties, ElementOfSeq
<1>2. kept \in Seq(X) /\ IsSelection(kept, rows, S)
  BY FilterSelects
<1>3. DOMAIN kept = 1 .. Len(kept)
  BY <1>2, LenProperties
<1>4. IsSelection(OnlyVerified(kept), kept, {i \in DOMAIN kept : kept[i].verified})
  BY <1>2, <1>3, VerifiedSelects
<1>5. S \in SUBSET (1 .. Len(rows))
  OBVIOUS
<1>6. {i \in S : rows[i].verified} = wanted
  BY <1>1, FilterMeans
<1> HIDE DEF kept, S, wanted
<1>7. IsSelection(OnlyVerified(kept), rows, {i \in S : rows[i].verified})
  BY <1>2, <1>4, <1>5, SelectedTwice
<1>8. ServerList(f, rows) = OnlyVerified(kept)
  BY DEF ServerList, kept
<1>9. QED
  BY <1>6, <1>7, <1>8 DEF wanted

LEMMA FinitelyManyServers == Spec => []IsFiniteSet(Listed)
<1>1. Init => IsFiniteSet(Listed)
  <2>1. Init => Listed = {}
    BY DEF Init, Listed
  <2>2. QED
    BY <2>1, FS_EmptySet
<1>2. ASSUME IInv, [Next]_vars, IsFiniteSet(Listed)
      PROVE  IsFiniteSet(Listed')
  <2>1. CASE UNCHANGED <<servers, stored>> \/ Listed' = Listed
    <3>1. Listed' = Listed
      BY <2>1 DEF Listed
    <3>2. QED
      BY <1>2, <3>1
  <2>2. CASE Verify
    <3>1. Listed' = Listed
      BY <1>2, <2>2, Verified
    <3>2. QED
      BY <1>2, <3>1
  <2>3. CASE RowWritten(qr.addr)
    <3>1. Listed' = Listed \union {qr.addr}
      BY <2>3 DEF RowWritten
    <3>2. QED
      BY <1>2, <3>1, FS_AddElement
  <2>4. QED
    BY <1>2, <2>1, <2>2, <2>3, TableSteps
<1>3. IInv /\ [Next]_vars /\ IsFiniteSet(Listed) => IsFiniteSet(Listed)'
  BY <1>2
<1>4. QED
  BY Invariance, <1>1, <1>3, PTL DEF Spec

\* requestServerList: the loop that erases from the list it goes through shows a
\* browser all the servers it has asked for and no others, for every filter of the
\* clauses that the code looks for (IsFilter) and every number of servers.
THEOREM BrowsersSeeWhatTheyAsk == Spec => []ListedAsAsked
<1> DEFINE X == {Server(a) : a \in Listed}
<1>1. ASSUME TypeOK, IsFiniteSet(Listed), NEW rows \in SetToSeqs(X), NEW f \in Filter
      PROVE  IsSelection(ServerList(f, rows), rows,
               {i \in DOMAIN rows :
                  rows[i].verified
                    /\ \A clause \in DOMAIN f : Holds(f, clause, rows[i].keys)})
  <2>1. rows \in Seq(X)
    <3>1. IsFiniteSet(X)
      <4> DEFINE g == [a \in Listed |-> Server(a)]
      <4>1. g \in Surjection(Listed, X)
        BY DEF Surjection
      <4>2. QED
        BY <1>1, <4>1, FS_Surjection
    <3>2. PICK n \in Nat : n = Cardinality(X)
      BY <3>1, FS_CardinalityType
    <3>3. rows \in [1 .. n -> X]
      BY <3>2 DEF SetToSeqs
    <3> HIDE DEF X
    <3>4. QED
      BY <3>3
  <2>2. \A s \in X : IsKeys(s.keys)
    <3>1. \A a \in Listed : IsKeys(servers[a].keys)
      BY <1>1 DEF TypeOK, IsRow
    <3>2. \A a \in Listed : Server(a).keys = servers[a].keys
      BY DEF Server
    <3>3. QED
      BY <3>1, <3>2
  <2> HIDE DEF X
  <2>3. QED
    BY <2>1, <2>2, ListOfServers
<1>2. TypeOK /\ IsFiniteSet(Listed) => ListedAsAsked
  BY <1>1 DEF ListedAsAsked
<1>3. QED
  BY ServerTypes, FinitelyManyServers, <1>2, PTL

-----------------------------------------------------------------------------
(***************************************************************************)
(* Sequences of sequences, laid end to end.                                *)
(***************************************************************************)
LEMMA FlattenIs ==
  ASSUME NEW S, NEW s \in Seq(Seq(S)), s # <<>>
  PROVE  \E g : /\ \A i \in 1 .. Len(s) : /\ g[i] \in Seq(S)
                                          /\ g[i] = IF i = 1 THEN s[1] ELSE g[i - 1] \o s[i]
                /\ FlattenSeq(s) = g[Len(s)]
<1> DEFINE N == Len(s)
           D == 1 .. N
           flatten[i \in D] == IF i = 1 THEN s[i] ELSE flatten[i - 1] \o s[i]
           Value(g, i) == IF i = 1 THEN s[i] ELSE g[i - 1] \o s[i]
           rank == [i \in D |-> i]
           stop == {1}
           next == [i \in D \ stop |-> i - 1]
           step == [p \in (D \ stop) \X Seq(S) |-> p[2] \o s[p[1]]]
<1>1. /\ N \in Nat /\ N > 0 /\ \A i \in D : s[i] \in Seq(S)
      /\ s \in [D -> Seq(S)]
  BY EmptySeq, LenProperties, ElementOfSeq
<1>2. FlattenSeq(s) = flatten[N]
  BY <1>1 DEF FlattenSeq
<1>3. \E f \in [D -> Seq(S)] : \A i \in D : f[i] = Value(f, i)
  <2>1. D \ stop = 2 .. N /\ stop \subseteq D
    BY <1>1
  <2>2. rank \in [D -> 0 .. N]
    BY <1>1
  <2>3. next \in [D \ stop -> D] /\ \A i \in D \ stop : rank[next[i]] < rank[i]
    BY <1>1, <2>1
  <2>4. \A i \in D, x \in Seq(S) : x \o s[i] \in Seq(S)
    BY <1>1, ConcatProperties
  <2>5. step \in [(D \ stop) \X Seq(S) -> Seq(S)]
    BY <2>1, <2>4
  <2>6. \A i \in D \ stop, x \in Seq(S) : step[<<i, x>>] = x \o s[i] /\ next[i] = i - 1
    OBVIOUS
  <2> HIDE DEF rank, next, step
  <2>7. IsRecursion(D, Seq(S), N, rank, stop, s, next, step)
    <3> HIDE DEF D, N, stop
    <3>1. QED
      BY <1>1, <2>1, <2>2, <2>3, <2>5 DEF IsRecursion
  <2>8. PICK f \in [D -> Seq(S)] :
          \A i \in D : f[i] = IF i \in stop THEN s[i] ELSE step[<<i, f[next[i]]>>]
    <3> HIDE DEF D, N, stop
    <3>1. QED
      BY <2>7, RecursionExists
  <2>9. ASSUME NEW i \in D
        PROVE  f[i] = Value(f, i)
    <3>1. CASE i = 1
      BY <2>8, <3>1
    <3>2. CASE i # 1
      <4>1. i \in D \ stop /\ next[i] = i - 1 /\ next[i] \in D
        BY <2>3, <2>6, <3>2
      <4>2. f[i - 1] \in Seq(S)
        BY <4>1
      <4>3. f[i] = step[<<i, f[i - 1]>>]
        BY <2>8, <3>2, <4>1
      <4>4. step[<<i, f[i - 1]>>] = f[i - 1] \o s[i]
        BY <2>6, <4>1, <4>2
      <4>5. QED
        BY <3>2, <4>3, <4>4
    <3>3. QED
      BY <3>1, <3>2
  <2>10. QED
    BY <2>9
<1>4. flatten = [i \in D |-> Value(flatten, i)]
  <2>1. PICK f \in [D -> Seq(S)] : \A i \in D : f[i] = Value(f, i)
    BY <1>3
  <2>2. f = [i \in D |-> Value(f, i)]
    <3> HIDE DEF Value
    <3>1. QED
      BY <2>1
  <2>3. QED
    BY <2>2
<1> HIDE DEF flatten
<1>5. \A i \in D : flatten[i] = Value(flatten, i)
  BY <1>4
<1> DEFINE T == {m \in D : flatten[m] \notin Seq(S)}
<1>6. ASSUME NEW m \in T
      PROVE  \E n \in T : n < m
  <2>1. m \in D /\ m \in Nat /\ flatten[m] \notin Seq(S)
    BY <1>1
  <2>2. m # 1
    BY <1>1, <1>5, <2>1
  <2>3. m - 1 \in D /\ m - 1 < m
    BY <1>1, <2>1, <2>2
  <2>4. flatten[m - 1] \notin Seq(S)
    <3>1. flatten[m] = flatten[m - 1] \o s[m] /\ s[m] \in Seq(S)
      BY <1>1, <1>5, <2>1, <2>2
    <3>2. QED
      BY <2>1, <3>1, ConcatProperties
  <2>5. QED
    BY <2>3, <2>4
<1>7. T = {}
  <2>1. T \subseteq Nat
    BY <1>1
  <2> HIDE DEF T
  <2>2. QED
    BY <1>6, <2>1, NoFirst
<1>8. QED
  BY <1>2, <1>5, <1>7

LEMMA FlattenNothing == FlattenSeq(<<>>) = <<>>
  BY DEF FlattenSeq

LEMMA FlattenType ==
  ASSUME NEW S, NEW s \in Seq(Seq(S))
  PROVE  FlattenSeq(s) \in Seq(S)
<1>1. CASE s = <<>>
  BY <1>1, FlattenNothing, EmptySeq
<1>2. CASE s # <<>>
  <2>1. Len(s) \in 1 .. Len(s)
    BY <1>2, EmptySeq
  <2>2. QED
    BY <1>2, <2>1, FlattenIs
<1>3. QED
  BY <1>1, <1>2

LEMMA FlattenAppend ==
  ASSUME NEW S, NEW s \in Seq(Seq(S)), NEW r \in Seq(S)
  PROVE  FlattenSeq(Append(s, r)) = FlattenSeq(s) \o r
<1> DEFINE N == Len(s)
           t == Append(s, r)
<1>1. /\ N \in Nat /\ t \in Seq(Seq(S)) /\ t # <<>> /\ Len(t) = N + 1 /\ t[N + 1] = r
      /\ \A i \in 1 .. N : t[i] = s[i]
  BY AppendProperties, LenProperties
<1> HIDE DEF t
<1>2. PICK h : /\ \A i \in 1 .. N + 1 :
                    /\ h[i] \in Seq(S)
                    /\ h[i] = IF i = 1 THEN t[1] ELSE h[i - 1] \o t[i]
               /\ FlattenSeq(t) = h[N + 1]
  <2>1. \E h : /\ \A i \in 1 .. Len(t) : /\ h[i] \in Seq(S)
                                          /\ h[i] = IF i = 1 THEN t[1] ELSE h[i - 1] \o t[i]
              /\ FlattenSeq(t) = h[Len(t)]
    BY <1>1, FlattenIs
  <2>2. QED
    BY <1>1, <2>1
<1>3. CASE s = <<>>
  <2>1. N = 0
    BY <1>3
  <2>2. FlattenSeq(t) = r
    BY <1>1, <1>2, <2>1
  <2>3. QED
    BY <1>3, <2>2, FlattenNothing, ConcatEmptySeq DEF t
<1>4. CASE s # <<>>
  <2>1. N > 0
    BY <1>1, <1>4, EmptySeq
  <2>2. PICK g : /\ \A i \in 1 .. N : g[i] = IF i = 1 THEN s[1] ELSE g[i - 1] \o s[i]
                 /\ FlattenSeq(s) = g[N]
    BY <1>4, FlattenIs
  <2> DEFINE T == {m \in 1 .. N : h[m] # g[m]}
  <2>3. ASSUME NEW m \in T
        PROVE  \E n \in T : n < m
    <3>1. m \in 1 .. N /\ h[m] # g[m]
      OBVIOUS
    <3>2. h[m] = IF m = 1 THEN s[1] ELSE h[m - 1] \o s[m]
      BY <1>1, <1>2, <2>1, <3>1
    <3>3. g[m] = IF m = 1 THEN s[1] ELSE g[m - 1] \o s[m]
      BY <2>2, <3>1
    <3>4. m # 1 /\ h[m - 1] # g[m - 1]
      BY <3>1, <3>2, <3>3
    <3>5. m - 1 \in 1 .. N /\ m - 1 < m
      BY <1>1, <3>1, <3>4
    <3>6. QED
      BY <3>4, <3>5
  <2>4. T = {}
    <3>1. T \subseteq Nat
      BY <1>1
    <3> HIDE DEF T
    <3>2. QED
      BY <2>3, <3>1, NoFirst
  <2>5. h[N] = g[N]
    <3>1. N \in 1 .. N
      BY <1>1, <2>1
    <3>2. QED
      BY <2>4, <3>1
  <2>6. h[N + 1] = h[N] \o r
    <3>1. N + 1 \in 1 .. N + 1 /\ N + 1 # 1 /\ (N + 1) - 1 = N
      BY <1>1, <2>1
    <3>2. QED
      BY <1>1, <1>2, <3>1
  <2>7. QED
    BY <1>2, <2>2, <2>5, <2>6 DEF t
<1>5. QED
  BY <1>3, <1>4

LEMMA FlattenConcat ==
  ASSUME NEW S, NEW s \in Seq(Seq(S)), NEW t \in Seq(Seq(S))
  PROVE  FlattenSeq(s \o t) = FlattenSeq(s) \o FlattenSeq(t)
<1> DEFINE Splits(u) == FlattenSeq(s \o u) = FlattenSeq(s) \o FlattenSeq(u)
           T == {Len(u) : u \in {v \in Seq(Seq(S)) : ~ Splits(v)}}
<1>1. \A m : m \in T <=> \E u \in Seq(Seq(S)) : m = Len(u) /\ ~ Splits(u)
  BY DEF T
<1>2. T \subseteq Nat
  BY <1>1, LenProperties
<1> HIDE DEF T
<1>3. ASSUME NEW m \in T
      PROVE  \E n \in T : n < m
  <2>1. PICK u \in Seq(Seq(S)) : m = Len(u) /\ ~ Splits(u)
    BY <1>1
  <2>2. u # <<>>
    <3>1. FlattenSeq(s) \in Seq(S)
      BY FlattenType
    <3>2. s \o <<>> = s /\ FlattenSeq(s) \o <<>> = FlattenSeq(s)
      BY <3>1, ConcatEmptySeq
    <3>3. QED
      BY <2>1, <3>2, FlattenNothing
  <2>3. PICK v \in Seq(Seq(S)), r \in Seq(S) : u = Append(v, r)
    BY <2>2, SequenceEmptyOrAppend
  <2>4. Len(v) < m
    BY <2>1, <2>3, AppendProperties, LenProperties
  <2>5. ~ Splits(v)
    <3>1. SUFFICES ASSUME Splits(v)
                   PROVE  Splits(u)
      BY <2>1
    <3>2. s \o v \in Seq(Seq(S)) /\ <<r>> \in Seq(Seq(S))
      BY ConcatProperties
    <3>3. s \o u = Append(s \o v, r)
      <4>1. u = v \o <<r>>
        BY <2>3, AppendIsConcat
      <4>2. s \o u = (s \o v) \o <<r>>
        BY <3>2, <4>1, ConcatAssociative
      <4>3. QED
        BY <3>2, <4>2, AppendIsConcat
    <3>4. FlattenSeq(s \o u) = FlattenSeq(s \o v) \o r
      BY <3>2, <3>3, FlattenAppend
    <3>5. FlattenSeq(u) = FlattenSeq(v) \o r
      BY <2>3, FlattenAppend
    <3>6. FlattenSeq(s) \in Seq(S) /\ FlattenSeq(v) \in Seq(S)
      BY FlattenType
    <3>7. (FlattenSeq(s) \o FlattenSeq(v)) \o r = FlattenSeq(s) \o (FlattenSeq(v) \o r)
      BY <3>6, ConcatAssociative
    <3>8. QED
      BY <3>1, <3>4, <3>5, <3>7
  <2>6. QED
    BY <1>1, <2>4, <2>5
<1>4. T = {}
  BY <1>2, <1>3, NoFirst
<1>5. QED
  BY <1>1, <1>4

LEMMA FlattenSplit ==
  ASSUME NEW S, NEW s \in Seq(Seq(S)), NEW m \in 1 .. Len(s) + 1,
         NEW k \in m - 1 .. Len(s), NEW n \in k .. Len(s)
  PROVE  /\ SubSeq(s, m, k) \in Seq(Seq(S)) /\ SubSeq(s, k + 1, n) \in Seq(Seq(S))
         /\ FlattenSeq(SubSeq(s, m, n)) =
              FlattenSeq(SubSeq(s, m, k)) \o FlattenSeq(SubSeq(s, k + 1, n))
<1>1. Len(s) \in Nat /\ \A i \in 1 .. Len(s) : s[i] \in Seq(S)
  BY LenProperties, ElementOfSeq
<1>2. SubSeq(s, m, k) \in Seq(Seq(S))
  BY <1>1, SubSeqProperties
<1>3. SubSeq(s, k + 1, n) \in Seq(Seq(S))
  BY <1>1, SubSeqProperties
<1>4. SubSeq(s, m, k) \o SubSeq(s, k + 1, n) = SubSeq(s, m, n)
  BY ConcatAdjacentSubSeq
<1>5. QED
  BY <1>2, <1>3, <1>4, FlattenConcat

-----------------------------------------------------------------------------
(***************************************************************************)
(* The requests in the bytes of a read.                                    *)
(***************************************************************************)
Bytes == 0 .. 255

\* The loop of _BufferToRequests ends at an offset.
Ends(buffer, offset) ==
  \/ offset + 1 >= Len(buffer)
  \/ Size(buffer, offset) = 0
  \/ offset + Size(buffer, offset) > Len(buffer)

LEMMA RequestsAre ==
  ASSUME NEW buffer \in Seq(Bytes)
  PROVE  \E g : /\ \A o \in 0 .. Len(buffer) :
                     /\ g[o] \in Seq(Seq(Bytes))
                     /\ g[o] = IF Ends(buffer, o) THEN <<>>
                               ELSE <<SubSeq(buffer, o + 1, o + Size(buffer, o))>>
                                      \o g[o + Size(buffer, o)]
                /\ BufferToRequests(buffer) = g[0]
<1> DEFINE L == Len(buffer)
           D == 0 .. L
           X == Seq(Seq(Bytes))
           size(o) == Size(buffer, o)
           piece(o) == <<SubSeq(buffer, o + 1, o + size(o))>>
           from[offset \in D] ==
             IF \/ offset + 1 >= L
                \/ Size(buffer, offset) = 0
                \/ offset + Size(buffer, offset) > L
             THEN <<>>
             ELSE <<SubSeq(buffer, offset + 1, offset + Size(buffer, offset))>>
                    \o from[offset + Size(buffer, offset)]
           Value(g, o) == IF Ends(buffer, o) THEN <<>> ELSE piece(o) \o g[o + size(o)]
           stop == {o \in D : Ends(buffer, o)}
           rank == [o \in D |-> L - o]
           base == [o \in D |-> <<>>]
           next == [o \in D \ stop |-> o + size(o)]
           step == [p \in (D \ stop) \X X |-> piece(p[1]) \o p[2]]
<1>1. L \in Nat /\ \A i \in 1 .. L : buffer[i] \in Bytes
  BY LenProperties, ElementOfSeq
<1>2. BufferToRequests(buffer) = from[0]
  BY DEF BufferToRequests
<1>3. ASSUME NEW o \in D, ~ Ends(buffer, o)
      PROVE  /\ size(o) \in Nat /\ size(o) > 0 /\ o + size(o) \in D
             /\ piece(o) \in X
  <2>1. o \in Nat /\ o + 1 < L /\ size(o) # 0 /\ ~ (o + size(o) > L)
    BY <1>1, <1>3 DEF Ends
  <2>2. buffer[o + 1] \in Bytes /\ buffer[o + 2] \in Bytes
    BY <1>1, <2>1
  <2>3. size(o) \in Nat
    <3>1. PICK a \in Bytes, b \in Bytes : a = buffer[o + 1] /\ b = buffer[o + 2]
      BY <2>2
    <3>2. size(o) = 256 * a + b
      BY <3>1 DEF Size
    <3>3. a \in Nat /\ b \in Nat
      BY DEF Bytes
    <3>4. QED
      BY <3>2, <3>3
  <2>4. size(o) > 0 /\ o + size(o) \in D
    BY <1>1, <2>1, <2>3
  <2>5. SubSeq(buffer, o + 1, o + size(o)) \in Seq(Bytes)
    <3>1. \A i \in o + 1 .. o + size(o) : buffer[i] \in Bytes
      BY <1>1, <2>1, <2>3, <2>4
    <3>2. o + 1 \in Int /\ o + size(o) \in Int
      BY <2>1, <2>3
    <3>3. QED
      BY <3>1, <3>2, SubSeqProperties
  <2>6. QED
    BY <2>3, <2>4, <2>5
<1>4. \E f \in [D -> X] : \A o \in D : f[o] = Value(f, o)
  <2>1. \A o \in D \ stop : /\ size(o) \in Nat /\ size(o) > 0 /\ o + size(o) \in D
                            /\ piece(o) \in X
    BY <1>3
  <2>2. rank \in [D -> 0 .. L] /\ stop \subseteq D
    BY <1>1
  <2>3. base \in [D -> X]
    OBVIOUS
  <2>4. next \in [D \ stop -> D] /\ \A o \in D \ stop : rank[next[o]] < rank[o]
    BY <1>1, <2>1
  <2>5. \A o \in D \ stop, x \in X : piece(o) \o x \in X
    <3> HIDE DEF piece, D, stop
    <3>1. QED
      BY <2>1, ConcatProperties
  <2>6. step \in [(D \ stop) \X X -> X]
    BY <2>5
  <2>7. \A o \in D \ stop, x \in X : step[<<o, x>>] = piece(o) \o x
    OBVIOUS
  <2>8. \A o \in D \ stop : next[o] = o + size(o)
    OBVIOUS
  <2>9. \A o \in D : (o \in stop <=> Ends(buffer, o)) /\ base[o] = <<>>
    OBVIOUS
  <2> HIDE DEF rank, base, next, step, stop, piece, size, D, L, X
  <2>10. IsRecursion(D, X, L, rank, stop, base, next, step)
    BY <1>1, <2>2, <2>3, <2>4, <2>6 DEF IsRecursion
  <2>11. PICK f \in [D -> X] :
           \A o \in D : f[o] = IF o \in stop THEN base[o] ELSE step[<<o, f[next[o]]>>]
    BY <2>10, RecursionExists
  <2>12. ASSUME NEW o \in D
         PROVE  f[o] = Value(f, o)
    <3>1. CASE Ends(buffer, o)
      BY <2>9, <2>11, <3>1
    <3>2. CASE ~ Ends(buffer, o)
      <4>1. o \in D \ stop /\ o + size(o) \in D
        BY <2>1, <2>9, <3>2
      <4>2. f[o + size(o)] \in X
        BY <4>1
      <4>3. f[o] = step[<<o, f[o + size(o)]>>]
        BY <2>8, <2>11, <4>1
      <4>4. QED
        BY <2>7, <3>2, <4>1, <4>2, <4>3
    <3>3. QED
      BY <3>1, <3>2
  <2>13. QED
    BY <2>12
<1>5. from = [o \in D |-> Value(from, o)]
  <2>1. PICK f \in [D -> X] : \A o \in D : f[o] = Value(f, o)
    BY <1>4
  <2>2. f = [o \in D |-> Value(f, o)]
    <3> HIDE DEF Value
    <3>1. QED
      BY <2>1
  <2>3. QED
    BY <2>2 DEF Ends
<1> HIDE DEF from
<1>6. \A o \in D : from[o] = Value(from, o)
  BY <1>5
<1> DEFINE T == {m \in 0 .. L : from[L - m] \notin X}
<1>7. ASSUME NEW m \in T
      PROVE  \E n \in T : n < m
  <2>1. PICK o : o = L - m
    OBVIOUS
  <2>2. m \in 0 .. L /\ m \in Nat /\ o \in D /\ from[o] \notin X
    BY <1>1, <2>1
  <2>3. ~ Ends(buffer, o)
    BY <1>6, <2>2, EmptySeq
  <2>4. size(o) \in Nat /\ size(o) > 0 /\ o + size(o) \in D /\ piece(o) \in X
    BY <1>3, <2>2, <2>3
  <2>5. from[o + size(o)] \notin X
    <3> HIDE DEF X, piece, size, D
    <3>1. from[o] = piece(o) \o from[o + size(o)]
      BY <1>6, <2>2, <2>3
    <3>2. QED
      BY <2>2, <2>4, <3>1, ConcatProperties DEF X
  <2>6. PICK n : n = m - size(o)
    OBVIOUS
  <2>7. n \in 0 .. L /\ n < m /\ L - n = o + size(o)
    <3> HIDE DEF size
    <3>1. QED
      BY <1>1, <2>1, <2>2, <2>4, <2>6
  <2>8. QED
    BY <2>5, <2>7
<1>8. T = {}
  <2>1. T \subseteq Nat
    BY <1>1
  <2> HIDE DEF T
  <2>2. QED
    BY <1>7, <2>1, NoFirst
<1>9. \A o \in D : from[o] \in X
  <2>1. ASSUME NEW o \in D
        PROVE  from[o] \in X
    <3>1. L - o \in 0 .. L /\ L - (L - o) = o
      BY <1>1
    <3>2. QED
      BY <1>8, <3>1
  <2>2. QED
    BY <2>1
<1>10. QED
  BY <1>2, <1>6, <1>9

LEMMA HalvesOf ==
  ASSUME NEW S, NEW u \in Seq(S), NEW v \in Seq(S)
  PROVE  /\ u \o v \in Seq(S) /\ Len(u \o v) = Len(u) + Len(v)
         /\ SubSeq(u \o v, 1, Len(u)) = u
         /\ SubSeq(u \o v, Len(u) + 1, Len(u) + Len(v)) = v
<1>1. /\ u \o v \in Seq(S) /\ Len(u \o v) = Len(u) + Len(v)
      /\ Len(u) \in Nat /\ Len(v) \in Nat
      /\ \A i \in 1 .. Len(u) + Len(v) :
           (u \o v)[i] = IF i <= Len(u) THEN u[i] ELSE v[i - Len(u)]
  BY ConcatProperties, LenProperties
<1>2. \A i \in 1 .. Len(u) + Len(v) : (u \o v)[i] \in S
  BY <1>1, ElementOfSeq
<1>3. SubSeq(u \o v, 1, Len(u)) = u
  <2> DEFINE w == SubSeq(u \o v, 1, Len(u))
  <2>1. \A i \in 1 .. Len(u) : (u \o v)[i] \in S
    BY <1>1, <1>2
  <2>2. /\ w \in Seq(S)
        /\ Len(w) = IF 1 <= Len(u) THEN Len(u) - 1 + 1 ELSE 0
        /\ \A i \in 1 .. Len(u) - 1 + 1 : w[i] = (u \o v)[1 + i - 1]
    BY <1>1, <2>1, SubSeqProperties
  <2>3. Len(w) = Len(u) /\ \A i \in 1 .. Len(u) : w[i] = u[i]
    BY <1>1, <2>2
  <2> HIDE DEF w
  <2>4. w = u
    BY <2>2, <2>3, SeqEqual
  <2>5. QED
    BY <2>4 DEF w
<1>4. SubSeq(u \o v, Len(u) + 1, Len(u) + Len(v)) = v
  <2> DEFINE w == SubSeq(u \o v, Len(u) + 1, Len(u) + Len(v))
  <2>1. \A i \in Len(u) + 1 .. Len(u) + Len(v) : (u \o v)[i] \in S
    BY <1>1, <1>2
  <2>2. /\ w \in Seq(S)
        /\ Len(w) = IF Len(u) + 1 <= Len(u) + Len(v)
                    THEN Len(u) + Len(v) - (Len(u) + 1) + 1 ELSE 0
        /\ \A i \in 1 .. Len(u) + Len(v) - (Len(u) + 1) + 1 :
             w[i] = (u \o v)[Len(u) + 1 + i - 1]
    BY <1>1, <2>1, SubSeqProperties
  <2>3. Len(w) = Len(v)
    BY <1>1, <2>2
  <2>4. \A i \in 1 .. Len(v) : w[i] = v[i]
    <3>1. ASSUME NEW i \in 1 .. Len(v)
          PROVE  w[i] = v[i]
      <4>1. /\ i \in 1 .. Len(u) + Len(v) - (Len(u) + 1) + 1
            /\ Len(u) + 1 + i - 1 = Len(u) + i /\ Len(u) + i \in 1 .. Len(u) + Len(v)
            /\ ~ (Len(u) + i <= Len(u)) /\ Len(u) + i - Len(u) = i
        BY <1>1
      <4>2. w[i] = (u \o v)[Len(u) + i]
        BY <2>2, <4>1
      <4>3. PICK j : j = Len(u) + i
        OBVIOUS
      <4>4. (u \o v)[j] = v[j - Len(u)] /\ j - Len(u) = i
        BY <1>1, <4>1, <4>3
      <4>5. QED
        BY <4>2, <4>3, <4>4
    <3>2. QED
      BY <3>1
  <2> HIDE DEF w
  <2>5. w = v
    BY <2>2, <2>3, <2>4, SeqEqual
  <2>6. QED
    BY <2>5 DEF w
<1>5. QED
  BY <1>1, <1>3, <1>4

LEMMA RequestIs ==
  ASSUME NEW r \in Request
  PROVE  /\ r \in Seq(Bytes) /\ Len(r) \in Nat /\ Len(r) >= 3 /\ Size(r, 0) = Len(r)
         /\ r[1] \in Bytes /\ r[2] \in Bytes
<1>1. r \in Seq(Bytes) /\ Len(r) >= 3 /\ Size(r, 0) = Len(r)
  BY GameServersAssumption DEF Bytes
<1>2. Len(r) \in Nat /\ 1 \in 1 .. Len(r) /\ 2 \in 1 .. Len(r)
  BY <1>1, LenProperties
<1>3. QED
  BY <1>1, <1>2, ElementOfSeq

LEMMA RequestsAreBytes ==
  ASSUME NEW rs \in Seq(Request)
  PROVE  rs \in Seq(Seq(Bytes))
<1>1. Request \subseteq Seq(Bytes)
  BY RequestIs
<1>2. QED
  BY <1>1, SeqMonotonic

\* A request that starts at an offset of a buffer is the one the loop cuts out.
LEMMA CutOut ==
  ASSUME NEW head \in Seq(Bytes), NEW r \in Request, NEW tail \in Seq(Bytes),
         NEW buffer, buffer = head \o (r \o tail)
  PROVE  LET o == Len(head)
         IN  /\ ~ Ends(buffer, o) /\ Size(buffer, o) = Len(r)
             /\ SubSeq(buffer, o + 1, o + Len(r)) = r
<1> DEFINE o == Len(head)
<1>1. /\ r \in Seq(Bytes) /\ Len(r) \in Nat /\ Len(r) >= 3 /\ Size(r, 0) = Len(r)
      /\ o \in Nat /\ Len(tail) \in Nat
  BY RequestIs, LenProperties
<1>2. /\ r \o tail \in Seq(Bytes) /\ Len(r \o tail) = Len(r) + Len(tail)
      /\ \A i \in 1 .. Len(r) + Len(tail) :
           (r \o tail)[i] = IF i <= Len(r) THEN r[i] ELSE tail[i - Len(r)]
  BY <1>1, ConcatProperties
<1>3. /\ buffer \in Seq(Bytes) /\ Len(buffer) = o + (Len(r) + Len(tail))
      /\ \A i \in 1 .. o + (Len(r) + Len(tail)) :
           buffer[i] = IF i <= o THEN head[i] ELSE (r \o tail)[i - o]
  BY <1>2, ConcatProperties
<1>4. ASSUME NEW i \in 1 .. Len(r)
      PROVE  buffer[o + i] = r[i]
  <2>1. PICK j : j = o + i
    OBVIOUS
  <2>2. j \in 1 .. o + (Len(r) + Len(tail)) /\ ~ (j <= o) /\ j - o = i
    BY <1>1, <2>1
  <2>3. buffer[j] = (r \o tail)[i]
    BY <1>3, <2>2
  <2>4. (r \o tail)[i] = r[i]
    BY <1>1, <1>2
  <2>5. QED
    BY <2>1, <2>3, <2>4
<1>5. Size(buffer, o) = Len(r)
  <2>1. buffer[o + 1] = r[1] /\ buffer[o + 2] = r[2]
    BY <1>1, <1>4
  <2>2. Size(buffer, o) = 256 * r[1] + r[2]
    BY <2>1 DEF Size
  <2>3. Size(r, 0) = 256 * r[1] + r[2]
    BY DEF Size
  <2>4. QED
    BY <1>1, <2>2, <2>3
<1>6. ~ Ends(buffer, o)
  BY <1>1, <1>3, <1>5 DEF Ends
<1>7. SubSeq(buffer, o + 1, o + Len(r)) = r
  <2> DEFINE w == SubSeq(buffer, o + 1, o + Len(r))
  <2>1. \A i \in o + 1 .. o + Len(r) : buffer[i] \in Bytes
    <3>1. \A i \in o + 1 .. o + Len(r) : i \in 1 .. Len(buffer)
      BY <1>1, <1>3
    <3>2. QED
      BY <1>3, <3>1, ElementOfSeq
  <2>2. /\ w \in Seq(Bytes)
        /\ Len(w) = IF o + 1 <= o + Len(r) THEN o + Len(r) - (o + 1) + 1 ELSE 0
        /\ \A i \in 1 .. o + Len(r) - (o + 1) + 1 : w[i] = buffer[o + 1 + i - 1]
    BY <1>1, <2>1, SubSeqProperties
  <2>3. Len(w) = Len(r)
    BY <1>1, <2>2
  <2>4. ASSUME NEW i \in 1 .. Len(r)
        PROVE  w[i] = r[i]
    <3>1. i \in 1 .. o + Len(r) - (o + 1) + 1 /\ o + 1 + i - 1 = o + i
      BY <1>1
    <3>2. QED
      BY <1>4, <2>2, <3>1
  <2> HIDE DEF w
  <2>5. w = r
    BY <1>1, <2>2, <2>3, <2>4, SeqEqual
  <2>6. QED
    BY <2>5 DEF w
<1>8. QED
  BY <1>5, <1>6, <1>7

\* Bytes that end where a request ends give these requests, whatever their number.
LEMMA WholeRequests ==
  ASSUME NEW rs \in Seq(Request)
  PROVE  BufferToRequests(FlattenSeq(rs)) = rs
<1> DEFINE N == Len(rs)
           buffer == FlattenSeq(rs)
           off(i) == Len(FlattenSeq(SubSeq(rs, 1, i)))
           Rest(i) == SubSeq(rs, i + 1, N)
<1>1. /\ N \in Nat /\ rs \in Seq(Seq(Bytes)) /\ buffer \in Seq(Bytes)
      /\ \A i \in 1 .. N : rs[i] \in Request
  BY RequestsAreBytes, FlattenType, LenProperties, ElementOfSeq
<1> HIDE DEF buffer
<1>2. PICK g : /\ \A o \in 0 .. Len(buffer) :
                    /\ g[o] \in Seq(Seq(Bytes))
                    /\ g[o] = IF Ends(buffer, o) THEN <<>>
                              ELSE <<SubSeq(buffer, o + 1, o + Size(buffer, o))>>
                                     \o g[o + Size(buffer, o)]
               /\ BufferToRequests(buffer) = g[0]
  BY <1>1, RequestsAre
<1>3. ASSUME NEW i \in 0 .. N
      PROVE  /\ FlattenSeq(SubSeq(rs, 1, i)) \in Seq(Bytes) /\ FlattenSeq(Rest(i)) \in Seq(Bytes)
             /\ buffer = FlattenSeq(SubSeq(rs, 1, i)) \o FlattenSeq(Rest(i))
             /\ off(i) \in 0 .. Len(buffer)
  <2>1. /\ 1 \in 1 .. Len(rs) + 1 /\ i \in 1 - 1 .. Len(rs) /\ N \in i .. Len(rs)
    BY <1>1
  <2>2. /\ SubSeq(rs, 1, i) \in Seq(Seq(Bytes)) /\ Rest(i) \in Seq(Seq(Bytes))
        /\ FlattenSeq(SubSeq(rs, 1, N)) = FlattenSeq(SubSeq(rs, 1, i)) \o FlattenSeq(Rest(i))
    BY <1>1, <2>1, FlattenSplit
  <2>3. SubSeq(rs, 1, N) = rs
    BY SubSeqFull
  <2>4. FlattenSeq(SubSeq(rs, 1, i)) \in Seq(Bytes) /\ FlattenSeq(Rest(i)) \in Seq(Bytes)
    BY <2>2, FlattenType
  <2>5. buffer = FlattenSeq(SubSeq(rs, 1, i)) \o FlattenSeq(Rest(i))
    BY <2>2, <2>3 DEF buffer
  <2>6. Len(buffer) = off(i) + Len(FlattenSeq(Rest(i))) /\ off(i) \in Nat
          /\ Len(FlattenSeq(Rest(i))) \in Nat
    BY <2>4, <2>5, ConcatProperties, LenProperties
  <2>7. QED
    BY <2>4, <2>5, <2>6
<1>4. ASSUME NEW i \in 0 .. N - 1
      PROVE  /\ ~ Ends(buffer, off(i)) /\ off(i + 1) = off(i) + Size(buffer, off(i))
             /\ SubSeq(buffer, off(i) + 1, off(i) + Size(buffer, off(i))) = rs[i + 1]
             /\ Rest(i) = <<rs[i + 1]>> \o Rest(i + 1)
  <2>1. i \in 0 .. N /\ i + 1 \in 0 .. N /\ i + 1 \in 1 .. N /\ N \in i + 1 .. N
    BY <1>1
  <2>2. rs[i + 1] \in Request /\ rs[i + 1] \in Seq(Bytes)
    BY <1>1, <2>1, RequestIs
  <2>3. Rest(i) = <<rs[i + 1]>> \o Rest(i + 1)
    BY <1>1, <2>1, SubSeqRecursiveFirst
  <2>4. SubSeq(rs, 1, i + 1) = Append(SubSeq(rs, 1, i), rs[i + 1])
    <3>1. SubSeq(rs, 1, i) \in Seq(Seq(Bytes))
      <4>1. \A j \in 1 .. i : rs[j] \in Seq(Bytes)
        BY <1>1, RequestIs
      <4>2. QED
        BY <2>1, <4>1, SubSeqProperties
    <3>2. 1 \in 1 .. N /\ i + 1 \in 1 .. N /\ (i + 1) - 1 = i
      BY <1>1, <2>1
    <3>3. SubSeq(rs, 1, i + 1) = SubSeq(rs, 1, (i + 1) - 1) \o <<rs[i + 1]>>
      BY <1>1, <3>2, SubSeqRecursiveSecond
    <3>4. QED
      BY <2>2, <3>1, <3>2, <3>3, AppendIsConcat
  <2>5. /\ SubSeq(rs, 1, i) \in Seq(Seq(Bytes)) /\ Rest(i + 1) \in Seq(Seq(Bytes))
        /\ <<rs[i + 1]>> \in Seq(Seq(Bytes))
    <3>1. \A j \in 1 .. N : rs[j] \in Seq(Bytes)
      BY <1>1, RequestIs
    <3>2. \A j \in 1 .. i : rs[j] \in Seq(Bytes)
      BY <1>1, <3>1
    <3>3. \A j \in i + 1 + 1 .. N : rs[j] \in Seq(Bytes)
      BY <1>1, <3>1
    <3>4. SubSeq(rs, 1, i) \in Seq(Seq(Bytes))
      BY <2>1, <3>2, SubSeqProperties
    <3>5. Rest(i + 1) \in Seq(Seq(Bytes))
      BY <1>1, <2>1, <3>3, SubSeqProperties
    <3>6. QED
      BY <2>2, <3>4, <3>5
  <2>6. FlattenSeq(SubSeq(rs, 1, i + 1)) = FlattenSeq(SubSeq(rs, 1, i)) \o rs[i + 1]
    BY <2>2, <2>4, <2>5, FlattenAppend
  <2>7. FlattenSeq(Rest(i)) = rs[i + 1] \o FlattenSeq(Rest(i + 1))
    <3>1. <<rs[i + 1]>> = Append(<<>>, rs[i + 1])
      OBVIOUS
    <3>2. <<>> \in Seq(Seq(Bytes))
      OBVIOUS
    <3>3. FlattenSeq(<<rs[i + 1]>>) = <<>> \o rs[i + 1]
      BY <2>2, <3>1, <3>2, FlattenAppend, FlattenNothing
    <3>4. <<>> \o rs[i + 1] = rs[i + 1]
      BY <2>2, ConcatEmptySeq
    <3>5. FlattenSeq(<<rs[i + 1]>> \o Rest(i + 1))
            = FlattenSeq(<<rs[i + 1]>>) \o FlattenSeq(Rest(i + 1))
      BY <2>5, FlattenConcat
    <3>6. QED
      BY <2>3, <3>3, <3>4, <3>5
  <2>8. buffer = FlattenSeq(SubSeq(rs, 1, i)) \o (rs[i + 1] \o FlattenSeq(Rest(i + 1)))
    BY <1>3, <2>1, <2>7
  <2>9. /\ FlattenSeq(SubSeq(rs, 1, i)) \in Seq(Bytes) /\ FlattenSeq(Rest(i + 1)) \in Seq(Bytes)
    BY <1>3, <2>1
  <2>10. /\ ~ Ends(buffer, off(i)) /\ Size(buffer, off(i)) = Len(rs[i + 1])
         /\ SubSeq(buffer, off(i) + 1, off(i) + Len(rs[i + 1])) = rs[i + 1]
    <3>1. PICK head \in Seq(Bytes) : head = FlattenSeq(SubSeq(rs, 1, i))
      BY <2>9
    <3>2. PICK tail \in Seq(Bytes) : tail = FlattenSeq(Rest(i + 1))
      BY <2>9
    <3>3. PICK r \in Request : r = rs[i + 1]
      BY <2>2
    <3>4. PICK o : o = Len(head)
      OBVIOUS
    <3>5. off(i) = o
      BY <3>1, <3>4
    <3>6. buffer = head \o (r \o tail)
      BY <2>8, <3>1, <3>2, <3>3
    <3>7. ~ Ends(buffer, o) /\ Size(buffer, o) = Len(r) /\ SubSeq(buffer, o + 1, o + Len(r)) = r
      BY <3>4, <3>6, CutOut
    <3>8. QED
      BY <3>3, <3>5, <3>7
  <2>11. off(i + 1) = off(i) + Len(rs[i + 1])
    BY <2>2, <2>6, <2>9, ConcatProperties
  <2>12. QED
    BY <2>3, <2>10, <2>11
<1> HIDE DEF off, Rest
<1> DEFINE T == {m \in 0 .. N : g[off(N - m)] # Rest(N - m)}
<1>5. ASSUME NEW m \in T
      PROVE  \E n \in T : n < m
  <2>1. PICK i : i = N - m
    OBVIOUS
  <2>2. m \in 0 .. N /\ m \in Nat /\ i \in 0 .. N /\ g[off(i)] # Rest(i)
    BY <1>1, <2>1
  <2>3. i # N
    <3>1. SUFFICES ASSUME i = N
                   PROVE  FALSE
      OBVIOUS
    <3>2. Rest(N) = <<>>
      BY <1>1, SubSeqEmpty DEF Rest
    <3>3. off(N) = Len(buffer)
      BY SubSeqFull DEF off, buffer
    <3>4. Len(buffer) \in Nat
      BY <1>1, LenProperties
    <3>5. Ends(buffer, off(N))
      BY <3>3, <3>4 DEF Ends
    <3>6. off(N) \in 0 .. Len(buffer)
      BY <3>3, <3>4
    <3>7. g[off(N)] = <<>>
      BY <1>2, <3>5, <3>6
    <3>8. QED
      BY <2>2, <3>1, <3>2, <3>7
  <2>4. i \in 0 .. N - 1 /\ m - 1 \in 0 .. N /\ m - 1 < m /\ N - (m - 1) = i + 1
    BY <1>1, <2>1, <2>2, <2>3
  <2>5. off(i) \in 0 .. Len(buffer)
    BY <1>3, <2>2
  <2>6. g[off(i)] = <<rs[i + 1]>> \o g[off(i + 1)]
    BY <1>2, <1>4, <2>4, <2>5
  <2>7. Rest(i) = <<rs[i + 1]>> \o Rest(i + 1)
    BY <1>4, <2>4
  <2>8. g[off(i + 1)] # Rest(i + 1)
    BY <2>2, <2>6, <2>7
  <2>9. QED
    BY <2>4, <2>8
<1>6. T = {}
  <2>1. T \subseteq Nat
    BY <1>1
  <2> HIDE DEF T
  <2>2. QED
    BY <1>5, <2>1, NoFirst
<1>7. g[off(0)] = Rest(0)
  <2>1. N \in 0 .. N /\ N - N = 0
    BY <1>1
  <2>2. QED
    BY <1>6, <2>1
<1>8. off(0) = 0
  <2>1. SubSeq(rs, 1, 0) = <<>>
    BY SubSeqEmpty
  <2>2. off(0) = Len(<<>>)
    BY <2>1, FlattenNothing DEF off
  <2>3. QED
    BY <2>2
<1>9. Rest(0) = rs
  BY SubSeqFull DEF Rest
<1>10. QED
  BY <1>2, <1>7, <1>8, <1>9 DEF buffer

-----------------------------------------------------------------------------
(***************************************************************************)
(* What is asked and what is heard.                                        *)
(***************************************************************************)
\* While no read has ended inside a request, what is heard is the first of what
\* has been asked, and the bytes of the others wait.
HeardFirst ==
  /\ heard \in Seq(Seq(Bytes))
  /\ ~ cut => \E n \in 0 .. Len(asked) :
                /\ heard = SubSeq(asked, 1, n)
                /\ inbox = FlattenSeq(SubSeq(asked, n + 1, Len(asked)))

LEMMA AskKeepsHeard ==
  ASSUME TypeOK, HeardFirst, NEW r \in Request, Ask(r)
  PROVE  HeardFirst'
<1>1. /\ asked \in Seq(Request) /\ asked' = Append(asked, r) /\ inbox' = inbox \o r
      /\ heard' = heard /\ cut' = cut
  BY DEF TypeOK, Ask
<1>2. /\ Len(asked) \in Nat /\ Len(asked') = Len(asked) + 1
      /\ asked' \in Seq(Request) /\ asked \in Seq(Seq(Bytes)) /\ asked' \in Seq(Seq(Bytes))
      /\ \A i \in 1 .. Len(asked) : asked'[i] = asked[i]
      /\ asked'[Len(asked) + 1] = r /\ r \in Seq(Bytes)
  BY <1>1, AppendProperties, RequestsAreBytes, RequestIs, LenProperties
<1>3. ASSUME ~ cut
      PROVE  \E n \in 0 .. Len(asked') :
               /\ heard' = SubSeq(asked', 1, n)
               /\ inbox' = FlattenSeq(SubSeq(asked', n + 1, Len(asked')))
  <2>1. PICK n \in 0 .. Len(asked) :
          /\ heard = SubSeq(asked, 1, n)
          /\ inbox = FlattenSeq(SubSeq(asked, n + 1, Len(asked)))
    BY <1>3 DEF HeardFirst
  <2>2. n \in 0 .. Len(asked')
    BY <1>2
  <2>3. asked' = asked \o <<r>> /\ <<r>> \in Seq(Request)
    BY <1>1, AppendIsConcat
  <2>4. SubSeq(asked', 1, n) = SubSeq(asked, 1, n)
    <3>1. CASE n = 0
      BY <3>1, SubSeqEmpty
    <3>2. CASE n > 0
      <4>1. 1 \in 1 .. Len(asked) /\ n \in 1 .. Len(asked)
        BY <1>2, <3>2
      <4>2. QED
        BY <1>1, <2>3, <4>1, SubSeqOfConcat1
    <3>3. QED
      BY <1>2, <3>1, <3>2
  <2>5. FlattenSeq(SubSeq(asked', n + 1, Len(asked')))
          = FlattenSeq(SubSeq(asked', n + 1, Len(asked)))
              \o FlattenSeq(SubSeq(asked', Len(asked) + 1, Len(asked')))
    <3>1. /\ n + 1 \in 1 .. Len(asked') + 1 /\ Len(asked) \in n + 1 - 1 .. Len(asked')
          /\ Len(asked') \in Len(asked) .. Len(asked')
      BY <1>2
    <3>2. QED
      BY <1>2, <3>1, FlattenSplit
  <2>6. SubSeq(asked', n + 1, Len(asked)) = SubSeq(asked, n + 1, Len(asked))
    <3>1. CASE n = Len(asked)
      BY <1>2, <3>1, SubSeqEmpty
    <3>2. CASE n # Len(asked)
      <4>1. n + 1 \in 1 .. Len(asked) /\ Len(asked) \in 1 .. Len(asked)
        BY <1>2, <3>2
      <4>2. QED
        BY <1>1, <2>3, <4>1, SubSeqOfConcat1
    <3>3. QED
      BY <3>1, <3>2
  <2>7. FlattenSeq(SubSeq(asked', Len(asked) + 1, Len(asked'))) = r
    <3> DEFINE w == SubSeq(asked', Len(asked) + 1, Len(asked'))
    <3>1. \A i \in Len(asked) + 1 .. Len(asked') : asked'[i] \in Seq(Bytes)
      BY <1>2
    <3>2. w \in Seq(Seq(Bytes)) /\ Len(w) = 1 /\ w[1] = r
      BY <1>2, <3>1, SubSeqProperties
    <3>3. w # <<>>
      <4> HIDE DEF w
      <4>1. Len(<<>>) = 0
        OBVIOUS
      <4>2. QED
        BY <3>2, <4>1
    <3> HIDE DEF w
    <3>4. FlattenSeq(w) = w[1]
      BY <3>2, <3>3, FlattenIs
    <3>5. QED
      BY <3>2, <3>4 DEF w
  <2>8. QED
    BY <1>1, <2>1, <2>2, <2>4, <2>5, <2>6, <2>7
<1>4. QED
  BY <1>1, <1>3 DEF HeardFirst

LEMMA ReadKeepsHeard ==
  ASSUME TypeOK, HeardFirst, NEW k \in 1 .. Len(inbox), ReadBuffer(k)
  PROVE  HeardFirst'
<1> DEFINE N == Len(asked)
           read == SubSeq(inbox, 1, k)
           requests == BufferToRequests(read)
           P(m, n) == SubSeq(asked, m, n)
           F(m, n) == FlattenSeq(P(m, n))
<1>1. /\ heard' = heard \o requests /\ asked' = asked
      /\ inbox' = SubSeq(inbox, k + 1, Len(inbox))
      /\ cut' = (cut \/ ~ Whole(k))
  BY DEF ReadBuffer
<1>2. /\ N \in Nat /\ asked \in Seq(Request) /\ asked \in Seq(Seq(Bytes))
      /\ inbox \in Seq(Bytes) /\ Len(inbox) \in Nat /\ k \in Nat /\ k > 0 /\ k <= Len(inbox)
  <2>1. asked \in Seq(Request) /\ inbox \in Seq(Bytes)
    BY DEF TypeOK, Bytes
  <2>2. QED
    BY <2>1, RequestsAreBytes, LenProperties
<1>3. heard' \in Seq(Seq(Bytes))
  <2>1. read \in Seq(Bytes)
    <3>1. \A i \in 1 .. k : inbox[i] \in Bytes
      BY <1>2, ElementOfSeq
    <3>2. QED
      BY <1>2, <3>1, SubSeqProperties
  <2>2. 0 \in 0 .. Len(read)
    BY <2>1, LenProperties
  <2> HIDE DEF read
  <2>3. requests \in Seq(Seq(Bytes))
    BY <2>1, <2>2, RequestsAre
  <2>4. QED
    BY <1>1, <2>3, ConcatProperties DEF HeardFirst
<1>4. ASSUME ~ cut'
      PROVE  \E n \in 0 .. N : heard' = P(1, n) /\ inbox' = F(n + 1, N)
  <2>1. PICK n \in 0 .. N : heard = P(1, n) /\ inbox = F(n + 1, N)
    BY <1>1, <1>4 DEF HeardFirst
  <2>2. PICK i \in 0 .. N : Len(F(1, i)) = Len(FlattenSeq(asked)) - Len(inbox) + k
    BY <1>1, <1>4 DEF Whole
  <2>3. ASSUME NEW m \in 1 .. N + 1, NEW x \in m - 1 .. N, NEW y \in x .. N
        PROVE  /\ F(m, x) \in Seq(Bytes) /\ F(x + 1, y) \in Seq(Bytes) /\ F(m, y) \in Seq(Bytes)
               /\ F(m, y) = F(m, x) \o F(x + 1, y)
               /\ Len(F(m, y)) = Len(F(m, x)) + Len(F(x + 1, y))
               /\ Len(F(m, x)) \in Nat /\ Len(F(x + 1, y)) \in Nat
    <3>1. /\ P(m, x) \in Seq(Seq(Bytes)) /\ P(x + 1, y) \in Seq(Seq(Bytes))
          /\ F(m, y) = F(m, x) \o F(x + 1, y)
      BY <1>2, FlattenSplit
    <3>2. F(m, x) \in Seq(Bytes) /\ F(x + 1, y) \in Seq(Bytes)
      BY <3>1, FlattenType
    <3> HIDE DEF F, P
    <3>3. QED
      BY <3>1, <3>2, ConcatProperties, LenProperties
  <2>4. F(1, N) = FlattenSeq(asked)
    BY <1>2, SubSeqFull
  <2> HIDE DEF F
  <2>5. Len(F(1, i)) = Len(F(1, n)) + k
    <3>1. 1 \in 1 .. N + 1 /\ n \in 1 - 1 .. N /\ N \in n .. N
      BY <1>2
    <3>2. Len(F(1, N)) = Len(F(1, n)) + Len(F(n + 1, N)) /\ Len(F(1, n)) \in Nat
      BY <2>3, <3>1
    <3>3. QED
      BY <1>2, <2>1, <2>2, <2>4, <3>2
  <2>6. n < i
    <3>1. SUFFICES ASSUME i <= n
                   PROVE  FALSE
      BY <1>2
    <3>2. 1 \in 1 .. N + 1 /\ i \in 1 - 1 .. N /\ n \in i .. N
      BY <1>2, <3>1
    <3>3. /\ Len(F(1, n)) = Len(F(1, i)) + Len(F(i + 1, n))
          /\ Len(F(1, i)) \in Nat /\ Len(F(i + 1, n)) \in Nat
      BY <2>3, <3>2
    <3>4. QED
      BY <1>2, <2>5, <3>3
  <2>7. F(n + 1, i) \in Seq(Bytes) /\ Len(F(n + 1, i)) = k
    <3>1. 1 \in 1 .. N + 1 /\ n \in 1 - 1 .. N /\ i \in n .. N
      BY <1>2, <2>6
    <3>2. /\ Len(F(1, i)) = Len(F(1, n)) + Len(F(n + 1, i))
          /\ F(n + 1, i) \in Seq(Bytes)
          /\ Len(F(1, n)) \in Nat /\ Len(F(n + 1, i)) \in Nat
      BY <2>3, <3>1
    <3>3. QED
      BY <1>2, <2>5, <3>2
  <2>8. inbox = F(n + 1, i) \o F(i + 1, N) /\ F(i + 1, N) \in Seq(Bytes)
    <3>1. PICK m : m = n + 1
      OBVIOUS
    <3>2. m \in 1 .. N + 1 /\ i \in m - 1 .. N /\ N \in i .. N
      BY <1>2, <2>6, <3>1
    <3>3. F(m, N) = F(m, i) \o F(i + 1, N) /\ F(i + 1, N) \in Seq(Bytes)
      BY <2>3, <3>2
    <3>4. QED
      BY <2>1, <3>1, <3>3
  <2>9. read = F(n + 1, i) /\ inbox' = F(i + 1, N)
    <3>1. /\ Len(inbox) = Len(F(n + 1, i)) + Len(F(i + 1, N))
          /\ SubSeq(inbox, 1, Len(F(n + 1, i))) = F(n + 1, i)
          /\ SubSeq(inbox, Len(F(n + 1, i)) + 1, Len(F(n + 1, i)) + Len(F(i + 1, N)))
               = F(i + 1, N)
      BY <2>7, <2>8, HalvesOf
    <3>2. QED
      BY <1>1, <2>7, <3>1
  <2>10. requests = P(n + 1, i)
    <3>1. P(n + 1, i) \in Seq(Request)
      <4>1. \A j \in n + 1 .. i : asked[j] \in Request
        BY <1>2, <2>6, ElementOfSeq
      <4>2. QED
        BY <1>2, <4>1, SubSeqProperties
    <3>2. read = FlattenSeq(P(n + 1, i))
      BY <2>9 DEF F
    <3> HIDE DEF read, P
    <3>3. QED
      BY <3>1, <3>2, WholeRequests
  <2>11. heard' = P(1, i)
    <3>1. 1 \in 1 .. N + 1 /\ n \in 1 - 1 .. N /\ i \in n .. N
      BY <1>2, <2>6
    <3>2. P(1, n) \o P(n + 1, i) = P(1, i)
      BY <1>2, <3>1, ConcatAdjacentSubSeq
    <3>3. QED
      BY <1>1, <2>1, <2>10, <3>2
  <2>12. QED
    BY <2>9, <2>11
<1>5. QED
  BY <1>1, <1>3, <1>4 DEF HeardFirst

LEMMA HeardInvariance == Spec => []HeardFirst
<1>1. Init => HeardFirst
  <2>1. ASSUME Init
        PROVE  HeardFirst
    <3>1. asked = <<>> /\ heard = <<>> /\ inbox = <<>>
      BY <2>1 DEF Init
    <3>2. SubSeq(asked, 1, 0) = <<>> /\ SubSeq(asked, 0 + 1, Len(asked)) = <<>> /\ 0 \in 0 .. Len(asked)
      BY <3>1, SubSeqEmpty
    <3>3. heard \in Seq(Seq(Bytes))
      BY <3>1, EmptySeq
    <3>4. heard = SubSeq(asked, 1, 0) /\ inbox = FlattenSeq(SubSeq(asked, 0 + 1, Len(asked)))
      BY <3>1, <3>2, FlattenNothing
    <3>5. QED
      BY <3>2, <3>3, <3>4 DEF HeardFirst
  <2>2. QED
    BY <2>1
<1>2. ASSUME TypeOK, HeardFirst, [Next]_vars
      PROVE  HeardFirst'
  <2>1. CASE \E r \in Request : Ask(r)
    BY <1>2, <2>1, AskKeepsHeard
  <2>2. CASE \E n \in 1 .. Len(inbox) : ReadBuffer(n)
    BY <1>2, <2>2, ReadKeepsHeard
  <2>3. CASE Crash
    <3>1. asked' = <<>> /\ heard' = <<>> /\ inbox' = <<>>
      BY <2>3 DEF Crash
    <3>2. /\ SubSeq(asked', 1, 0) = <<>> /\ SubSeq(asked', 0 + 1, Len(asked')) = <<>>
          /\ 0 \in 0 .. Len(asked')
      BY <3>1, SubSeqEmpty
    <3>3. heard' \in Seq(Seq(Bytes))
      BY <3>1, EmptySeq
    <3>4. heard' = SubSeq(asked', 1, 0) /\ inbox' = FlattenSeq(SubSeq(asked', 0 + 1, Len(asked')))
      BY <3>1, <3>2, FlattenNothing
    <3>5. QED
      BY <3>2, <3>3, <3>4 DEF HeardFirst
  <2>4. CASE UNCHANGED <<asked, inbox, heard, cut>>
    BY <1>2, <2>4 DEF HeardFirst
  <2>5. ASSUME ~ \E r \in Request : Ask(r), ~ \E n \in 1 .. Len(inbox) : ReadBuffer(n), ~ Crash
        PROVE  UNCHANGED <<asked, inbox, heard, cut>>
    BY <1>2, <2>5 DEF Next, Step, Failure, Heartbeat, HeartbeatUnknown, InsertServer,
       UpdateServer, Verify, ServersLive, ServersLiveSend, ServerPlayers, ServerPlayersFails,
       ReadTimeOut, WriteServerFails, WritePlayersFails, browser, vars
  <2>6. QED
    BY <2>1, <2>2, <2>3, <2>4, <2>5
<1>3. TypeOK /\ HeardFirst /\ [Next]_vars => HeardFirst'
  BY <1>2
<1>4. QED
  BY ServerTypes, <1>1, <1>3, PTL DEF Spec

\* _BufferToRequests: a read that ends where a request ends gives all requests in
\* it, for every number of requests and every number of reads.
THEOREM AllAskedIsHeard == Spec => []NothingAskedIsLost
<1>1. ASSUME TypeOK, HeardFirst, ~ cut
      PROVE  FlattenSeq(heard) \o inbox = FlattenSeq(asked) /\ IsPrefix(heard, asked)
  <2>1. PICK n \in 0 .. Len(asked) :
          /\ heard = SubSeq(asked, 1, n)
          /\ inbox = FlattenSeq(SubSeq(asked, n + 1, Len(asked)))
    BY <1>1 DEF HeardFirst
  <2>2. /\ asked \in Seq(Request) /\ asked \in Seq(Seq(Bytes)) /\ Len(asked) \in Nat
        /\ SubSeq(asked, 1, Len(asked)) = asked
    BY <1>1, RequestsAreBytes, LenProperties, SubSeqFull DEF TypeOK
  <2>3. FlattenSeq(heard) \o inbox = FlattenSeq(asked)
    <3>1. 1 \in 1 .. Len(asked) + 1 /\ n \in 1 - 1 .. Len(asked) /\ Len(asked) \in n .. Len(asked)
      BY <2>2
    <3>2. FlattenSeq(SubSeq(asked, 1, Len(asked))) =
            FlattenSeq(SubSeq(asked, 1, n)) \o FlattenSeq(SubSeq(asked, n + 1, Len(asked)))
      BY <2>2, <3>1, FlattenSplit
    <3>3. QED
      BY <2>1, <2>2, <3>2
  <2>4. heard \in Seq(Request) /\ Len(heard) = n
    <3>1. \A i \in 1 .. n : asked[i] \in Request
      BY <2>2, ElementOfSeq
    <3>2. /\ SubSeq(asked, 1, n) \in Seq(Request)
          /\ Len(SubSeq(asked, 1, n)) = IF 1 <= n THEN n - 1 + 1 ELSE 0
      BY <2>2, <3>1, SubSeqProperties
    <3>3. QED
      BY <2>1, <2>2, <3>2
  <2>5. IsPrefix(heard, asked)
    <3>1. SubSeq(heard, 1, Len(heard)) = heard
      BY <2>4, SubSeqFull
    <3>2. QED
      BY <2>1, <2>2, <2>4, <3>1 DEF IsPrefix
  <2>6. QED
    BY <2>3, <2>5
<1>2. TypeOK /\ HeardFirst => NothingAskedIsLost
  BY <1>1 DEF NothingAskedIsLost, HeardFirst, Bytes
<1>3. QED
  BY ServerTypes, HeardInvariance, <1>2, PTL

=============================================================================
