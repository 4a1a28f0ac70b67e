--------------------------- MODULE MCGameServers ---------------------------
(***************************************************************************)
(* An instance of GameServers for TLC: two servers behind one IP address   *)
(* and a browser.                                                          *)
(***************************************************************************)
EXTENDS GameServers

CONSTANTS a1, a2, i1, n1, n2, r1, v31, conquest, ctf, unreadable, empty

MCIpOf == [a \in {a1, a2} |-> i1]

MCKey == {"gamever", "region", "numplayers", "gametype", "mapname", "sr", "rc",
          "teamplay", "fraglimit", "teamfraglimit", "c0", "c1", "hostport"}

MCDefault ==
  ("gamever" :> v31) @@ ("region" :> {r1}) @@ ("numplayers" :> 0) @@ ("gametype" :> empty) @@
  ("mapname" :> 0) @@ ("sr" :> 0) @@ ("rc" :> 0) @@ ("teamplay" :> 0) @@ ("fraglimit" :> 0) @@
  ("teamfraglimit" :> 0) @@ ("c0" :> -1) @@ ("c1" :> -1) @@ ("hostport" :> 3658)

\* a1 first is a clan's server and then a free one; a2 is claimed by one side.
\* Its second heartbeat says nothing.  Some keys are missing, unreadable or wider
\* than their column.
MCSay ==
  (a1 :> << ("gametype" :> conquest) @@ ("numplayers" :> 2) @@ ("teamplay" :> 3) @@
            ("c0" :> 19) @@ ("c1" :> 21) @@ ("fraglimit" :> 7) @@ ("rc" :> 1),
            ("numplayers" :> 257) @@ ("mapname" :> 2) @@ ("teamplay" :> 0) @@ ("c0" :> unreadable) @@
            ("sr" :> unreadable) >>) @@
  (a2 :> << ("gametype" :> ctf) @@ ("c1" :> 19) @@ ("teamplay" :> 3) @@ ("region" :> {}) @@
            ("teamfraglimit" :> 9) @@ ("hostport" :> 70000), <<>> >>)

MCPlaying == (a1 :> <<{n1, n2}, {n1}>>) @@ (a2 :> <<{n2}, {}>>)

MCFilter ==
  {("gamever=" :> v31) @@ ("teamplay=" :> 0) @@ ("numplayers<=" :> 23) @@ ("numplayers>=" :> 1),
   ("region!=0" :> {r1}) @@ ("rc or teamplay!=" :> [rc |-> 1, teamplay |-> 0]),
   ("region=0" :> {r1}) @@ ("gametype=" :> ctf) @@ ("mapname=" :> 0),
   ("teamplay!=" :> 0) @@ ("free or c0 or c1" :> [c0 |-> 21, c1 |-> 21]),
   ("c0 or c1" :> [c0 |-> 19, c1 |-> 19]) @@ ("sr=" :> 0) @@ ("rc=" :> 1)}

\* A list, a query for one server, and an action nobody knows.
MCRequest == {<<0, 3, 0>>, <<0, 4, 1, 0>>, <<0, 3, 7>>}

\* The browser's connection and the tables share no variable, only answers read
\* the rows: its requests are followed up to the first row.
BrowserFirst == asked # <<>> => Listed = {} /\ web = Idle /\ noted = {}

\* Verification and failed rows of players are followed while no answer for the
\* web is under way, the latter for one server at a time.
OneByOne ==
  /\ web # Idle => noted = {} /\ \A a \in Listed : ~ servers[a].verified
  /\ Cardinality(noted) <= 1

=============================================================================
