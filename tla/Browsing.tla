------------------------------ MODULE Browsing ------------------------------
(***************************************************************************)
(* The server browser's algorithms (browsing/client.cpp): requests are cut *)
(* out of the bytes a read has returned, and the list of servers is        *)
(* filtered by the clauses of a request.                                   *)
(*                                                                         *)
(* A filter is a text in which regular expressions look for clauses.  Here *)
(* it is a function from its clauses to the values in them.  What no       *)
(* expression looks for (numplayers!=maxplayers, maxplayers, nr, xr, mc,   *)
(* gc) is part of no filter: it has no effect.                             *)
(***************************************************************************)
EXTENDS Integers, Sequences, FiniteSets

Clauses == {"gamever=", "region!=0", "region=0", "numplayers>=", "numplayers<=",
            "gametype=", "mapname=", "sr=", "rc=", "rc or teamplay!=", "teamplay=",
            "teamplay!=", "c0 or c1", "free or c0 or c1"}

Byte(n) == n % 256

(***************************************************************************)
(* _BufferToRequests.  Two bytes of size lead every request.               *)
(***************************************************************************)
Size(buffer, offset) == 256 * buffer[offset + 1] + buffer[offset + 2]

\* A request that ends with the buffer is taken for a truncated one.
BufferToRequestsStrict(buffer) ==
  LET from[offset \in 0 .. Len(buffer)] ==
        IF \/ offset + 1 >= Len(buffer)
           \/ Size(buffer, offset) = 0
           \/ offset + Size(buffer, offset) >= Len(buffer)
        THEN <<>>
        ELSE <<SubSeq(buffer, offset + 1, offset + Size(buffer, offset))>>
               \o from[offset + Size(buffer, offset)]
  IN  from[0]

\* What is left of the buffer when a size is zero or goes past its end is dropped.
BufferToRequests(buffer) ==
  LET from[offset \in 0 .. Len(buffer)] ==
        IF \/ offset + 1 >= Len(buffer)
           \/ Size(buffer, offset) = 0
           \/ offset + Size(buffer, offset) > Len(buffer)
        THEN <<>>
        ELSE <<SubSeq(buffer, offset + 1, offset + Size(buffer, offset))>>
               \o from[offset + Size(buffer, offset)]
  IN  from[0]

(***************************************************************************)
(* The filters: whether one takes a server off the list.  The keys of a    *)
(* server are a function k.                                                *)
(***************************************************************************)
Asks(f, clause) == clause \in DOMAIN f

\* The expressions for `rc=' and `teamplay!=' also match inside of `(rc=.. or
\* teamplay!=..)'.
Found(f) ==
  [clause \in DOMAIN f \union
              (IF Asks(f, "rc or teamplay!=") THEN {"rc=", "teamplay!="} ELSE {}) |->
     CASE clause = "rc=" /\ Asks(f, "rc or teamplay!=") -> f["rc or teamplay!="].rc
       [] clause = "teamplay!=" /\ Asks(f, "rc or teamplay!=") -> f["rc or teamplay!="].teamplay
       [] OTHER -> f[clause]]

FilterServerGameVersion(f, k) == Asks(f, "gamever=") /\ k["gamever"] # f["gamever="]

\* A region is the set of its bits.
FilterServerRegion(f, k) ==
  \/ Asks(f, "region!=0") /\ k["region"] \intersect f["region!=0"] = {}
  \/ Asks(f, "region=0") /\ k["region"] \intersect f["region=0"] # {}

FilterServerNumPlayers(f, k) ==
  \/ Asks(f, "numplayers>=") /\ k["numplayers"] < Byte(f["numplayers>="])
  \/ Asks(f, "numplayers<=") /\ k["numplayers"] > Byte(f["numplayers<="])

FilterServerGameType(f, k) == Asks(f, "gametype=") /\ k["gametype"] # f["gametype="]

FilterServerMapName(f, k) == Asks(f, "mapname=") /\ k["mapname"] # Byte(f["mapname="])

FilterServerStatsTracking(f, k) == Asks(f, "sr=") /\ k["sr"] # Byte(f["sr="])

\* Next to `rc=.. or teamplay!=..' the single clauses are parts of that one.
FilterServerReconfigurable(f, k) ==
  ~ Asks(f, "rc or teamplay!=") /\ Asks(f, "rc=") /\ k["rc"] # Byte(f["rc="])

FilterServerTeamplay(f, k) ==
  IF Asks(f, "rc or teamplay!=")
  THEN LET v == f["rc or teamplay!="]
       IN  k["rc"] # Byte(v.rc) /\ k["teamplay"] = Byte(v.teamplay)
  ELSE \/ Asks(f, "teamplay=") /\ k["teamplay"] # Byte(f["teamplay="])
       \/ Asks(f, "teamplay!=") /\ k["teamplay"] = Byte(f["teamplay!="])

FilterServerClan(f, k) ==
  \/ /\ Asks(f, "c0 or c1")
     /\ k["c0"] # f["c0 or c1"].c0 /\ k["c1"] # f["c0 or c1"].c1
  \/ /\ Asks(f, "free or c0 or c1")
     /\ k["c0"] \notin {-1, f["free or c0 or c1"].c0}
     /\ k["c1"] \notin {-1, f["free or c0 or c1"].c1}

Removed(f, k) ==
  \/ FilterServerGameVersion(f, k)
  \/ FilterServerRegion(f, k)
  \/ FilterServerNumPlayers(f, k)
  \/ FilterServerGameType(f, k)
  \/ FilterServerMapName(f, k)
  \/ FilterServerStatsTracking(f, k)
  \/ FilterServerReconfigurable(f, k)
  \/ FilterServerClan(f, k)
  \/ FilterServerTeamplay(f, k)

\* The iterator goes on behind the server that has moved up into the gap.
FilterServersSkipping(f, list) ==
  LET from[i \in 1 .. Len(list) + 2] ==
        CASE i > Len(list) -> <<>>
          [] i <= Len(list) /\ ~ Removed(f, list[i].keys) -> <<list[i]>> \o from[i + 1]
          [] i <= Len(list) /\ Removed(f, list[i].keys) ->
               (IF i < Len(list) THEN <<list[i + 1]>> ELSE <<>>) \o from[i + 2]
  IN  from[1]

\* _FilterServers: the iterator steps back after an erasure, so that the loop
\* looks at every server of the list once.
FilterServers(f, list) ==
  LET from[i \in 1 .. Len(list) + 1] ==
        IF i > Len(list) THEN <<>>
        ELSE IF Removed(f, list[i].keys) THEN from[i + 1]
        ELSE <<list[i]>> \o from[i + 1]
  IN  from[1]

\* Servers that are not verified are skipped when the answer is put together.
OnlyVerified(list) ==
  LET from[i \in 1 .. Len(list) + 1] ==
        IF i > Len(list) THEN <<>>
        ELSE IF list[i].verified THEN <<list[i]>> \o from[i + 1]
        ELSE from[i + 1]
  IN  from[1]

\* The servers of a requestServerList, from the rows in the order of the table.
ServerList(f, list) == OnlyVerified(FilterServers(Found(f), list))

=============================================================================
